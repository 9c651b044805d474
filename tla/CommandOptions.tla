--------------------------- MODULE CommandOptions ---------------------------
(* The commands of `gwz` and the options each of them declares.  An option or
   operand is named by its argparse destination; where the code tells values
   of one option apart, each value it tells apart is a name of its own
   ("from_source" and "empty_from_source", which is `--from ""`).  A required
   operand is always present and is not named, unless the code refuses a value
   of it. *)
EXTENDS FiniteSets, Naturals

SelectionOptions == {"all_members", "targets", "exclude_targets", "member_paths"}
PolicyOptions == {"partial", "destructive", "sync", "remote", "jobs",
                  "max_connections_per_host", "progress_min_interval_ms"}
IdentityOptions == {"identity", "remote_identities"}

\* "repeated": an option that takes one value is given twice.
GlobalOptions == SelectionOptions \cup PolicyOptions \cup IdentityOptions
    \cup {"root", "dry_run", "json", "jsonl", "verbose", "ssh_timeout", "repeated"}

\* The flag of clone and materialize, and the environment variable behind it.
UrlSchemeOptions == {"url_scheme", "env_scheme", "bad_env_scheme"}

AuthOptions == {"key_path", "unset"}
StatusOptions == {"combined", "no_combined", "porcelain", "no_files", "no_branches"}
LsOptions == {"local", "unmaterialized", "materialized_only"}
InitOptions == {"urls", "path"}
DesignationOptions == {"member_id", "source_id"}
RepoOptions == [add |-> DesignationOptions,
                clone |-> DesignationOptions \cup {"member_path"},
                create |-> DesignationOptions,
                detach |-> {},
                attach |-> {"bad_member_id"},
                sync |-> {"member_path", "empty_member_path", "private", "public"}]

FormatOptions == {"stat", "numstat", "shortstat", "summary", "name_only", "name_status", "raw"}
WhitespaceOptions == {"ignore_all_space", "ignore_space_change", "ignore_space_at_eol",
                      "ignore_blank_lines"}
DiffOptions == FormatOptions \cup WhitespaceOptions \cup
    {"operands", "pathspecs", "cached", "merge_base", "tagged", "find_renames",
     "bad_find_renames", "no_renames", "null_terminated", "unified", "inter_hunk_context",
     "binary", "text", "src_prefix", "dst_prefix", "no_prefix", "line_prefix",
     "exit_code", "quiet", "no_pager"}
LogOptions == {"operands", "pathspecs", "max_entries", "no_limit", "since", "until",
               "author", "grep", "no_merges", "first_parent", "strict", "no_coalesce",
               "body", "full", "tagged", "color"}

MaterializeTargets == {"lock", "head", "snapshot", "empty_snapshot", "tag", "empty_tag",
                       "switch", "empty_switch"}
SnapshotOptions == {"name", "list", "branch"}
TagActions == {"list", "delete", "push", "fetch"}
TagOptions == TagActions \cup {"name", "message", "signed"}
StageOptions == {"pathspecs", "stage_all"}
CommitOptions == {"commit_all", "commit_marker", "no_commit_marker"}
PullTargets == {"head", "snapshot", "empty_snapshot"}
PushOptions == {"check_remotes"}

BranchOptions == {"list", "create", "start_ref", "empty_start_ref", "switch", "delete", "merge"}
StashOptions == [push |-> {"include_untracked", "include_ignored", "message"},
                 list |-> {"expanded"},
                 apply |-> {"stash_id"},
                 pop |-> {"stash_id"},
                 drop |-> {}]

LifecycleOptions == {"resume", "abort", "status", "gc"}
MergeOptions == LifecycleOptions \cup {"source", "preserve", "ff_only", "no_ff",
                                       "filesystem_strict", "message"}

LocalCloneOptions == {"empty_name", "dest", "verbatim", "clean", "bare", "branch",
                      "from_source", "empty_from_source"}
DisposeOptions == {"keep", "force", "bare_force"}

\* The tokens after `forall`: "--" with or without a command after it, and "-c"
\* among them, with no, one or two tokens after it.
ForallOptions == {"command_string", "no_banner", "projects", "separator", "command",
                  "token_c", "token_value", "token_extra"}
CloneOptions == {"directory", "empty_directory", "nameless_url"}

\* The values that a handler tests for truth: given empty, the option is not
\* given.  The operand of `repo sync` is not among them: its handler tests it for
\* truth, and passes it on all the same.
EmptyValues == {"empty_snapshot", "empty_tag", "empty_switch", "empty_start_ref",
                "empty_directory"}
SyncOperands == {"member_path", "empty_member_path"}

-----------------------------------------------------------------------------
RepoCommands == {"repo add", "repo clone", "repo create", "repo detach", "repo attach",
                 "repo sync"}
ReadCommands == {"auth identity", "status", "ls", "init"} \cup RepoCommands
MutationCommands == {"materialize", "snapshot", "tag", "capture", "add", "commit",
                     "pull", "push", "fetch"}
StashCommands == {"stash push", "stash list", "stash apply", "stash pop", "stash drop"}
LocalCommands == {"forall", "clone"}
FamilyCommands == {"local clone", "local list", "local dispose", "local disband"}

Commands == ReadCommands \cup {"diff", "log"} \cup MutationCommands \cup {"branch"}
    \cup StashCommands \cup {"merge"} \cup LocalCommands \cup FamilyCommands

\* The options the sub-parser of a command declares beside the global ones.
CommandOptionsOf(c) ==
    CASE c = "auth identity" -> AuthOptions
      [] c = "status" -> StatusOptions
      [] c = "ls" -> LsOptions
      [] c = "init" -> InitOptions
      [] c = "repo add" -> RepoOptions.add
      [] c = "repo clone" -> RepoOptions.clone
      [] c = "repo create" -> RepoOptions.create
      [] c = "repo attach" -> RepoOptions.attach
      [] c = "repo sync" -> RepoOptions.sync
      [] c = "diff" -> DiffOptions
      [] c = "log" -> LogOptions
      [] c = "materialize" -> MaterializeTargets \cup UrlSchemeOptions
      [] c = "snapshot" -> SnapshotOptions
      [] c = "tag" -> TagOptions
      [] c = "add" -> StageOptions
      [] c = "commit" -> CommitOptions
      [] c = "pull" -> PullTargets
      [] c = "push" -> PushOptions
      [] c = "branch" -> BranchOptions
      [] c = "stash push" -> StashOptions.push
      [] c = "stash list" -> StashOptions.list
      [] c \in {"stash apply", "stash pop"} -> StashOptions.apply
      [] c = "merge" -> MergeOptions
      [] c = "forall" -> ForallOptions
      [] c = "clone" -> CloneOptions \cup UrlSchemeOptions
      [] c = "local clone" -> LocalCloneOptions
      [] c = "local dispose" -> DisposeOptions
      [] OTHER -> {}

\* `--force` of `local dispose` takes hazard names: the sub-parser's global of
\* that name is replaced, the one before the sub-command is not.

\* Two values of one option are never both given.
Alternatives == {{"from_source", "empty_from_source"}, {"force", "bare_force"},
                 {"find_renames", "bad_find_renames"}, {"env_scheme", "bad_env_scheme"},
                 SyncOperands, {"snapshot", "empty_snapshot"}, {"tag", "empty_tag"},
                 {"switch", "empty_switch"}, {"start_ref", "empty_start_ref"},
                 {"directory", "empty_directory"}}

\* argparse's mutually exclusive groups.
ExclusiveGroups(c) ==
    CASE c = "auth identity" -> {AuthOptions}
      [] c = "repo sync" -> {{"private", "public"}}
      [] c = "log" -> {{"max_entries", "no_limit"}}
      [] c = "materialize" -> {MaterializeTargets}
      [] c = "tag" -> {TagActions}
      [] c = "commit" -> {{"commit_marker", "no_commit_marker"}}
      [] c = "pull" -> {PullTargets}
      [] OTHER -> {}

\* Two options of the set are given together.
Both(on, group) == Cardinality(on \cap group) > 1

\* argparse ends the process: two of a group, or a repeated option of log.
ParserRefuses(c, on) ==
    \/ \E group \in ExclusiveGroups(c) : Both(on, group)
    \/ c = "log" /\ "repeated" \in on
=============================================================================

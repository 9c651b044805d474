-------------------------- MODULE CommandHandlers ---------------------------
(* What each command's handler does with the options it is given: whether it
   refuses them with a CliUsageError, and the request it asks of the client.
   `on` is the set of options given on the command line. *)
EXTENDS ClientRequests

Machine(on) == on \cap {"json", "jsonl"} # {}

\* The url scheme a clone or materialize asks for: the flag, else the
\* environment; only a command that has the flag reads the variable.
RequestedUrlScheme(on) == on \cap {"url_scheme", "env_scheme"} # {}
UrlSchemeRefused(on) == "bad_env_scheme" \in on /\ "url_scheme" \notin on

\* The keywords every handler passes on to the client.
MetaKwargs(on) ==
    (on \cap (SelectionOptions \cup PolicyOptions \cup IdentityOptions \cup {"dry_run"}))
    \cup (IF RequestedUrlScheme(on) THEN {"url_scheme"} ELSE {})

\* ... to which the client adds the root it was opened with.
Keys(on) == MetaKwargs(on) \cup (on \cap {"root"})

\* mutant: the sync operand is left to the handler's own check.
ValidateArgsRefuses_NoSync(c, on) == {"json", "jsonl"} \subseteq on

\* The checks made before the client is opened; an operand of sync that is empty
\* passes.
ValidateArgsRefuses(c, on) ==
    \/ {"json", "jsonl"} \subseteq on
    \/ c = "repo sync" /\ "member_path" \in on /\ on \cap SelectionOptions # {}

-----------------------------------------------------------------------------
(* cli_read *)

StatusRefused(on) ==
    \/ "porcelain" \in on /\ (Machine(on) \/ "no_combined" \in on)
    \/ {"combined", "no_combined"} \subseteq on
    \/ {"no_files", "no_branches"} \subseteq on

LsRefused(on) == {"unmaterialized", "materialized_only"} \subseteq on

HandleInit(on) ==
    LET keys == Keys(on) \cup (on \cap {"path"})
    IN  IF "urls" \in on THEN InitFromSources(keys, {"urls"}) ELSE CreateWorkspace(keys, {})

RepoOperandRefused(on) == MetaKwargs(on) \cap SelectionOptions # {}

RepoRefused(c, on) ==
    CASE c = "repo detach" -> RepoOperandRefused(on)
      [] c = "repo attach" -> "bad_member_id" \in on \/ RepoOperandRefused(on)
      [] c = "repo sync" -> /\ "member_path" \in on   \* tested for truth
                            /\ MetaKwargs(on) \cap {"all_members", "member_paths"} # {}
      [] OTHER -> FALSE

\* A clone that reports to a person, and really clones, streams its events.
HandleRepoClone(on) ==
    LET fields == on \cap RepoOptions.clone
    IN  IF Machine(on) \/ "dry_run" \in on
        THEN CloneRepoMember(Keys(on), fields)
        ELSE CloneRepoMemberStream(Keys(on), fields)

HandleRepo(c, on) ==
    CASE c = "repo add" -> AddExistingRepo(Keys(on), on \cap RepoOptions.add)
      [] c = "repo clone" -> HandleRepoClone(on)
      [] c = "repo create" -> CreateRepo(Keys(on), on \cap RepoOptions.create)
      [] c = "repo detach" -> DetachRepoMember(Keys(on))
      [] c = "repo attach" -> AttachRepoMember(Keys(on))
      [] OTHER -> RepoSync(Keys(on), on \cap RepoOptions.sync)

-----------------------------------------------------------------------------
(* cli_diff and cli_log *)

FormatRefused(on) == Both(on, FormatOptions)
RenamesRefused(on) ==
    \/ "bad_find_renames" \in on
    \/ {"no_renames", "find_renames"} \subseteq on
WhitespaceRefused(on) == Both(on, WhitespaceOptions)
DiffRefused(on) == FormatRefused(on) \/ RenamesRefused(on) \/ WhitespaceRefused(on)

\* --quiet asks for no patch, whatever format is named beside it.
HandleDiff(on) ==
    Diff(Keys(on), (on \cap DiffOptions)
                   \ ({"exit_code", "no_pager"}
                      \cup (IF "quiet" \in on THEN FormatOptions ELSE {})))

HandleLog(on) == Log(Keys(on), on \cap (LogOptions \ {"full", "color"}))

-----------------------------------------------------------------------------
(* cli_mutation *)

\* A name that is empty falls through to the workspace lock, like no target.
HandleMaterialize(on) == Materialize(Keys(on), on \cap (MaterializeTargets \ EmptyValues))

\* Without a name, or with --list, the snapshots are listed.
ListsSnapshots(on) == "list" \in on \/ "name" \notin on
SnapshotRefused(on) == ListsSnapshots(on) /\ "branch" \in on
HandleSnapshot(on) ==
    IF ListsSnapshots(on) THEN ListSnapshots(Keys(on))
    ELSE Snapshot(Keys(on), on \cap {"name", "branch"})

\* mutant: the remote leaves the policy and is not put in the field.
HandleTag_NoRemote(on) == Tag(Keys(on) \ {"remote"}, on \cap TagOptions)

\* The remote of a tag or a push is a field of its request, not of its policy.
RemoteField(on) == on \cap {"remote"}
HandleTag(on) == Tag(Keys(on) \ {"remote"}, (on \cap TagOptions) \cup RemoteField(on))
HandlePush(on) == Push(Keys(on) \ {"remote"}, (on \cap PushOptions) \cup RemoteField(on))
HandleStage(on) == Stage(Keys(on), on \cap StageOptions)
HandleCommit(on) == Commit(Keys(on), on \cap CommitOptions)
\* A snapshot without a name is none: the heads are pulled.
HandlePull(on) ==
    IF "snapshot" \in on THEN PullSnapshot(Keys(on), {"snapshot"})
    ELSE PullHead(Keys(on), on \cap {"head"})

-----------------------------------------------------------------------------
(* cli_branch_stash *)

BranchRefused(on) ==
    \/ Both(on, {"list", "create", "delete", "merge"})
    \/ on \cap {"switch", "start_ref", "empty_start_ref"} # {} /\ "create" \notin on
\* A branch from "" starts at HEAD, like one without --from.
HandleBranch(on) ==
    IF "merge" \in on THEN Merge(Keys(on), {"merge"})
    ELSE Branch(Keys(on), on \cap (BranchOptions \ EmptyValues))

StashRefused(c, on) == c = "stash push" /\ {"include_untracked", "include_ignored"} \subseteq on
HandleStash(c, on) == Stash(Keys(on), on \cap CommandOptionsOf(c))

-----------------------------------------------------------------------------
(* cli_merge, and the family's wrapper of it *)

MergeRefused(on) ==
    \/ Both(on, LifecycleOptions)
    \/ {"ff_only", "no_ff"} \subseteq on
    \/ "filesystem_strict" \in on /\ on \cap LifecycleOptions # {}

\* --json asks for the response alone; a person and --jsonl follow the events.
MergeIn(keys, fields, on) ==
    IF "json" \in on THEN Merge(keys, fields) ELSE MergeStream(keys, fields)

HandleMerge(keys, on, extra) == MergeIn(keys, (on \cap MergeOptions) \cup extra, on)

\* `merge --remote <name>` names a family member: a field of the request, and
\* only of a merge that starts.
FamilyMergeRefused(on) == "remote" \in on /\ on \cap LifecycleOptions # {}
WrapMerge(on) == HandleMerge(Keys(on) \ {"remote"}, on, RemoteField(on))

-----------------------------------------------------------------------------
(* cli_local and cli_local_family *)

\* The forms of a forall command: `-c` before the tokens, `--` and a command
\* among them, or `-c` and exactly one token among them.
ForallInvocationRefused(on) ==
    IF "command_string" \in on THEN "separator" \in on
    ELSE IF "separator" \in on THEN "command" \notin on
    ELSE \/ "token_c" \notin on
         \/ "token_value" \notin on
         \/ "token_extra" \in on
ForallRefused(on) == Machine(on) \/ ForallInvocationRefused(on)

\* The tokens before `--` or after `-c <string>` are targets of the question.
NamesProjects(on) ==
    \/ "projects" \in on
    \/ "token_c" \in on /\ on \cap {"command_string", "separator"} # {}
HandleForall(on) ==
    ResolveForallTargets(Keys(on) \cup (IF NamesProjects(on) THEN {"targets"} ELSE {}))

CloneRefused(on) ==
    \/ "dry_run" \in on
    \/ "nameless_url" \in on /\ "directory" \notin on
HandleClone(on) ==
    LET fields == on \cap {"directory"}
    IN  IF Machine(on) THEN CloneWorkspace(Keys(on), fields)
        ELSE CloneWorkspaceStream(Keys(on), fields)

CloneModeRefused(on) == "verbatim" \in on /\ on \cap {"clean", "bare"} # {}
LocalCloneRefused(on) ==
    \/ "empty_name" \in on
    \/ CloneModeRefused(on)
    \/ "branch" \in on /\ on \cap {"clean", "bare"} = {}
    \/ "empty_from_source" \in on
HandleLocalClone(on) == CloneLocalWorkspace(Keys(on), on \cap LocalCloneOptions)

\* Dispose authorizes named hazards, never everything.
BareForce(on) == "bare_force" \in on \/ ("force" \notin on /\ "destructive" \in on)
DisposeRefused(on) == BareForce(on) \/ {"keep", "force"} \subseteq on
HandleLocal(c, on) ==
    IF c = "local clone" THEN HandleLocalClone(on)
    ELSE LocalFamily(Keys(on), on \cap CommandOptionsOf(c))

-----------------------------------------------------------------------------
\* The handler raises CliUsageError before it asks the client for anything.
HandlerRefuses(c, on) ==
    \/ c = "status" /\ StatusRefused(on)
    \/ c = "ls" /\ LsRefused(on)
    \/ RepoRefused(c, on)
    \/ c = "diff" /\ DiffRefused(on)
    \/ c = "snapshot" /\ SnapshotRefused(on)
    \/ c = "branch" /\ BranchRefused(on)
    \/ StashRefused(c, on)
    \/ c = "merge" /\ (FamilyMergeRefused(on) \/ MergeRefused(on))
    \/ c = "forall" /\ ForallRefused(on)
    \/ c = "clone" /\ CloneRefused(on)
    \/ c = "local clone" /\ LocalCloneRefused(on)
    \/ c = "local dispose" /\ DisposeRefused(on)

\* The request the handler of a command makes of the client.
HandlerRequest(c, on) ==
    CASE c = "auth identity" -> RemoteIdentity(Keys(on), on \cap AuthOptions)
      [] c = "status" -> Status(Keys(on), on \cap (StatusOptions \ {"porcelain"}))
      [] c = "ls" -> Ls(Keys(on), on \cap (LsOptions \ {"local"}))
      [] c = "init" -> HandleInit(on)
      [] c \in RepoCommands -> HandleRepo(c, on)
      [] c = "diff" -> HandleDiff(on)
      [] c = "log" -> HandleLog(on)
      [] c = "materialize" -> HandleMaterialize(on)
      [] c = "snapshot" -> HandleSnapshot(on)
      [] c = "tag" -> HandleTag(on)
      [] c = "capture" -> Capture(Keys(on))
      [] c = "add" -> HandleStage(on)
      [] c = "commit" -> HandleCommit(on)
      [] c = "pull" -> HandlePull(on)
      [] c = "push" -> HandlePush(on)
      [] c = "fetch" -> Fetch(Keys(on))
      [] c = "branch" -> HandleBranch(on)
      [] c \in StashCommands -> HandleStash(c, on)
      [] c = "merge" -> WrapMerge(on)
      [] c = "forall" -> HandleForall(on)
      [] c = "clone" -> HandleClone(on)
      [] OTHER -> HandleLocal(c, on)

\* The client method raises ValueError, which the command line does not catch.
ClientRefuses(c, on) ==
    \/ c = "auth identity" /\ RemoteIdentityRefuses(on)
    \/ c = "repo detach" /\ SingleRepoRefuses(Keys(on))
    \/ c = "repo attach" /\ AttachRefuses(Keys(on), on)
    \/ c = "repo sync" /\ RepoSyncRefuses(Keys(on), on)
=============================================================================

-------------------------- MODULE CommandLineProps --------------------------
(* What one `gwz` process promises, whatever options it is given, whatever core
   answers and wherever it is interrupted. *)
EXTENDS CommandLine

Pcs == {"start", "validate", "open", "timeout", "handler", "capability", "request",
        "events", "response", "members", "manifest", "prefix", "records", "release",
        "suffix", "close", "respond", "report", "exit"}

TypeOK ==
    /\ command \in Commands
    /\ on \subseteq CommandOptionsOf(command) \cup GlobalOptions
    /\ pc \in Pcs
    /\ client \in {"unopened", "open", "closed"}
    /\ answer \in Answers \cup {NoAnswer}
    /\ left \in Nat
    /\ ran \in Seq(BOOLEAN)
    /\ out \in Seq({"event", "document", "prefix", "record", "suffix", "error"})
    /\ stdout \in {"open", "broken", "full", "silenced"}
    /\ stderr \in {"open", "broken"}
    /\ missed \in BOOLEAN
    /\ spool \in {"none", "held", "released", "failed", "lost"}
    /\ code \in {0, 1, 2, NoCode}
    /\ raised \in {"none", "parser", "value", "write", "interrupt"} \cup Reported
    /\ exit \in {0, 1, 2, FlushFailed, 130, Running}

Ended == exit # Running

\* The requests that ask something of the workspace.
Requests == {r \in {sent[k] : k \in DOMAIN sent} : r.via # "control"}

-----------------------------------------------------------------------------
\* A command line that is refused has asked nothing of the workspace: in the
\* words of tests/test_cli_local_family.py:385, a CLI refusal must precede any
\* request.  The checks of the handlers cover those of the client methods they
\* call, so that main reports the refusal, with one exception: an empty operand of
\* `repo sync` beside a selection passes the two checks of the command line, which
\* test it for truth (cli_shared.py:463, cli_read.py:239), and meets the ValueError
\* of the client, which does not (client.py:758) and which nobody catches.
RefusalIsClean ==
    /\ raised = "usage" => Requests = {}
    /\ raised = "value" =>
          /\ Requests = {}
          /\ command = "repo sync" /\ "empty_member_path" \in on
          /\ on \cap SelectionOptions # {}

\* What a request carries of the options it was made for.
Carried(r) ==
    r.meta.selection \cup r.meta.policy \cup r.meta.transport \cup r.meta.root \cup r.fields
    \cup (IF r.meta.dry_run THEN {"dry_run"} ELSE {})

\* The options a command consumes itself.
Consumed ==
    {"json", "jsonl", "verbose", "ssh_timeout", "repeated"} \cup
    CASE command = "status" -> {"porcelain"}
      [] command = "ls" -> {"local"}
      [] command = "diff" -> {"exit_code", "no_pager"}
      [] command = "log" -> {"full", "color"}
      [] command = "forall" -> ForallOptions
      [] command = "clone" -> {"nameless_url"}
      [] OTHER -> {}

\* The options another one given with them overrides.
Overridden ==
    (IF command = "snapshot" /\ "list" \in on THEN {"name", "list"} ELSE {}) \cup
    (IF command = "init" /\ on \cap {"urls", "path"} # {} THEN {"root"} ELSE {}) \cup
    (IF command = "diff" /\ "quiet" \in on THEN FormatOptions ELSE {}) \cup
    (IF "url_scheme" \in on THEN {"bad_env_scheme"} ELSE {}) \cup
    (IF on \cap {"url_scheme", "env_scheme"} # {} THEN {"env_scheme"} ELSE {})

\* Nothing the user gives a value is dropped on the way to core: an option is
\* refused, consumed by the command itself, overridden by another one given with
\* it, or carried by the request.
NothingIsDropped ==
    \A r \in Requests :
        on \ (Consumed \cup Overridden \cup EmptyValues) \subseteq Carried(r)

\* An empty value of five options is no value, and no error: the request is the one
\* made without it, of the lock for materialize, of the heads for pull, from HEAD
\* for branch, under the name in the url for clone (cli_mutation.py:80-90 and
\* 216-219, cli_branch_stash.py:52, cli_local.py handle_clone).
EmptyIsAbsent == \A r \in Requests : r = HandlerRequest(command, on \ EmptyValues)

\* A command that takes one repository as its operand selects that repository
\* and nothing else.
OperandIsTheSelection ==
    \A r \in Requests :
        \/ r.method \in {"detach_repo_member", "attach_repo_member"}
        \/ r.method = "repo_sync" /\ r.fields \cap SyncOperands # {}
        => r.meta.selection = {"operand"}

\* --remote reaches core in one place: as a field of the request or in its
\* policy; for `gwz merge` never in the policy (cli_local_family.py:470), and a
\* merge's policy holds only what the caller chose (client.py:170).
RemoteIsSentOnce ==
    \A r \in Requests :
        /\ ~ ("remote" \in r.meta.policy /\ "remote" \in r.fields)
        /\ command = "merge" => "remote" \notin r.meta.policy
        /\ r.method = "merge" => r.meta.policy \subseteq on

\* With --dry-run every request says so, whichever handler made it, and forall
\* runs no command.
DryRunHolds ==
    "dry_run" \in on =>
        /\ \A r \in Requests : r.meta.dry_run
        /\ command = "forall" => ran = << >>

\* A request of core says what the command line said: whole, for the repository
\* it names, with its remote in the one place where core looks for it, and dry
\* when it must change nothing; what was given empty is not in it.
RequestIsFaithful ==
    /\ NothingIsDropped /\ EmptyIsAbsent
    /\ OperandIsTheSelection /\ RemoteIsSentOnce /\ DryRunHolds

\* The process exits 0 only when nothing went wrong: core's answer is a success
\* or merely dirty and no exception is under way; a status that shows the
\* workspace, and a log whose reader went away, exit 0 whatever happened.
SuccessIsTrue ==
    exit = 0 =>
        \/ raised = "none" /\ answer.status \in SuccessStatuses \cup {"dirty"}
        \/ raised = "none" /\ command = "status" /\ answer.carries
        \/ OpensLog /\ stdout \in {"broken", "silenced"}

\* It exits 2 only for a refusal: of the parser, of the command, of core's answer
\* when it is rendered (cli_shared.py:552), or, for a log, for any error whose code
\* is not one of a failed execution (cli_log.py:371-375), were it an error of
\* reading or releasing what the log that ran has written.
RefusalIsTrue ==
    exit = 2 =>
        \/ raised \in {"parser", "usage"}
        \/ raised = "none" /\ answer.status = "rejected"
        \/ raised = "request" /\ OpensLog

\* What the exit status says, it says of what happened, wherever it happened.
ExitIsTrue == SuccessIsTrue /\ RefusalIsTrue

\* A log reports its result as such only when every record of it was shown and the
\* document of log --json was finished.  A diff that does so has shown every record
\* unless core said that records were gone, or closed the output: those are lost,
\* and the exit status does not tell (client.py:1243-1255; tests/test_client_diff.py
\* has it so).  Neither does so when a write failed.
OutputIsWhole ==
    Ended /\ raised = "none" /\ stdout = "open" /\ command \in {"diff", "log"} =>
        /\ stderr = "open"
        /\ left = 0 \/ missed
        /\ OpensLog => ~missed
        /\ OpensLog /\ "json" \in on => out # << >> /\ out[Len(out)] = "suffix"

\* The output a process holds of core is given back before it exits, on every path
\* but three: an interrupt in the call that makes it or in its release loses it, a
\* diff whose write to the standard output fails leaves its reader stream behind,
\* and so does one whose warning on standard error cannot be written.
OutputIsGivenBack ==
    Ended /\ spool \in {"held", "lost"} =>
        \/ spool = "lost" /\ raised = "interrupt"
        \/ spool = "held" /\ command = "diff" /\ (stdout # "open" \/ stderr # "open")

\* What core has to show is shown whole, unless core itself lost it, and given back.
OutputIsSound == OutputIsWhole /\ OutputIsGivenBack

\* A client that was opened is closed before the process exits, nothing is asked
\* or released through a closed client, and what must be asked first is: the
\* transport timeout the user set is in force before anything else is asked, and
\* a request with identities follows the question whether core takes files for
\* them (client.py:405-406), unless a log or the stream of a merge sends it.
ClientInOrder ==
    /\ Ended => client # "open"
    /\ pc \in {"timeout", "handler", "capability", "request", "events", "records", "release"}
          => client = "open"
    /\ "ssh_timeout" \in on =>
          \A k \in DOMAIN sent :
              k > 1 \/ sent[k].method = "configure_transport_runtime"
    /\ \A k \in DOMAIN sent :
          WantsIdentity(sent[k]) /\ sent[k].via \notin {"merge_stream", "log"} =>
              \E j \in 1..(k - 1) : sent[j].method = "transport_capabilities"
=============================================================================

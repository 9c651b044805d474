---------------------------- MODULE CommandLine -----------------------------
(* One `gwz` process, from its parsed arguments to its exit status: it opens a
   client, makes the request its command's handler asks for, reads the answer
   and the output the answer names, closes the client and reports.  What core
   answers, whether a write to the standard streams succeeds, and when the user
   interrupts are choices of the environment.

   Reading the output of diff and log is the part in which the process holds
   something of core's (a reader stream, a spool) that it must give back. *)
EXTENDS CommandHandlers, Sequences

CONSTANTS
    Offered,         \* the options a command line may carry
    MaxGlobals,      \* how many of them at once
    MaxOwn,          \* how many options of the command's own at once
    MaxGiven,        \* how many options at once
    MaxMembers,      \* members that forall resolves
    MaxRecords,      \* records of a diff or log output
    MaxEvents        \* events of a submitted operation

ASSUME BoundsAssumption ==
    /\ MaxGlobals \in Nat /\ MaxOwn \in Nat /\ MaxGiven \in Nat
    /\ MaxMembers \in Nat /\ MaxRecords \in Nat /\ MaxEvents \in Nat

VARIABLES
    command,   \* the command of this process
    on,        \* the options it was given
    pc,        \* what the process does next
    client,    \* "unopened", "open" or "closed"
    sent,      \* the requests made of core, in order
    answer,    \* the last answer: an aggregate status, and what it carries beside
    left,      \* members to run, records or events to come
    ran,       \* whether each member command run so far succeeded
    out,       \* what was written to the standard output
    stdout,    \* "open", "broken" (the reader is gone), "full" (writes fail) or
               \* "silenced" (broken, and what is written goes to nobody)
    stderr,    \* "open", or "broken" once a write to it failed
    spool,     \* the output of core's this process holds
    missed,    \* core said that records of the output are gone, or closed it
    code,      \* the exit status of the handler's own result
    raised,    \* the exception on its way to main
    exit       \* the exit status of the process

vars == <<command, on, pc, client, sent, answer, left, ran, out, stdout, stderr, spool,
          missed, code, raised, exit>>
invocation == <<command, on>>
streams == <<out, stdout, stderr>>
reading == <<left, ran, streams, spool, missed, code>>

Statuses == SuccessStatuses \cup {"dirty", "partial", "failed", "conflicted", "rejected"}
NoCode == 99
Running == 98

\* What the command asks of core.
Wanted == HandlerRequest(command, on)

Control(method) == Sent("control", method, {}, {})
NoAnswer == [status |-> "none", carries |-> FALSE]
Answers == [status : Statuses, carries : BOOLEAN]

\* CLI_EXIT_CODES.
CliExitCode(status) ==
    IF status \in {"accepted", "ok", "noop", "dirty"} THEN 0
    ELSE IF status = "rejected" THEN 2 ELSE 1

\* mutant: a partial log is a success.
LogExitCode_Partial(status) ==
    IF status \in SuccessStatuses \cup {"dirty", "partial"} THEN 0
    ELSE IF status = "rejected" THEN 2 ELSE 1
LogExitCode(status) ==
    IF status \in SuccessStatuses \cup {"dirty"} THEN 0
    ELSE IF status = "rejected" THEN 2 ELSE 1

\* An error of the bridge, by whether its code says the execution failed
\* ("bridge") or the request was refused ("request").
BridgeErrors == {"bridge", "request"}
ErrorExitCode(error) == IF error = "usage" THEN 2 ELSE 1
LogErrorExitCode(error) == IF error \in {"usage", "request"} THEN 2 ELSE 1

OpensLog == command = "log"

\* What a call of the bridge that fails may raise, where the two are told apart.
BridgeFailures == IF OpensLog THEN BridgeErrors ELSE {"bridge"}
Human == ~Machine(on)
MergeJsonl == command = "merge" /\ "jsonl" \in on

-----------------------------------------------------------------------------
\* The subsets of S that have at most n elements.
UpTo(n, S) ==
    LET subsets[k \in 0..n] ==
            IF k = 0 THEN {{}} ELSE subsets[k - 1] \cup {s \cup {x} : s \in subsets[k - 1], x \in S}
    IN  subsets[n]

\* The tokens of forall come in an order: a command after "--", a value after "-c".
WellFormed(s) ==
    /\ \A pair \in Alternatives : ~ (pair \subseteq s)
    /\ "command" \in s => "separator" \in s
    /\ "token_value" \in s => "token_c" \in s
    /\ "token_extra" \in s => "token_value" \in s

Init ==
    /\ command \in Commands
    /\ \E own \in UpTo(MaxOwn, CommandOptionsOf(command) \cap Offered),
          globals \in UpTo(MaxGlobals, GlobalOptions \cap Offered) :
          /\ Cardinality(own) + Cardinality(globals) <= MaxGiven
          /\ WellFormed(own)
          /\ on = own \cup globals
    /\ on \subseteq CommandOptionsOf(command) \cup GlobalOptions
    /\ pc = "start" /\ client = "unopened"
    /\ sent = << >> /\ answer = NoAnswer
    /\ left = 0 /\ ran = << >> /\ out = << >>
    /\ stdout = "open" /\ stderr = "open"
    /\ spool = "none" /\ missed = FALSE
    /\ code = NoCode /\ raised = "none" /\ exit = Running

-----------------------------------------------------------------------------
(* Helpers: where an exception goes, and one write to the standard streams. *)

\* mutant: the exception passes the client by.
Raise_Unclosed(error) == raised' = error /\ pc' = "report"

\* The handler ends with an exception; the client is closed on the way out.
Raise(error) == raised' = error /\ pc' = "close"

\* One chunk is written, or the write fails.
Written(chunk) ==
    /\ stdout \in {"open", "silenced"}
    /\ out' = IF stdout = "open" THEN Append(out, chunk) ELSE out
    /\ UNCHANGED <<stdout, stderr>>
WriteFails(how) ==
    /\ stdout \in {"open", how}
    /\ stdout' = how
    /\ UNCHANGED <<out, stderr>>
FailedWrites == {"broken", "full"}

\* The log points a standard output whose reader is gone at nobody, if it can.
ReaderGone ==
    /\ stdout \in {"open", "broken"}
    /\ stdout' \in {"broken", "silenced"}
    /\ UNCHANGED <<out, stderr>>

\* A line for the standard error is written (and leaves no trace here), or fails.
Told == stderr = "open" /\ UNCHANGED streams
TellFails == stderr' = "broken" /\ UNCHANGED <<out, stdout>>

\* The interpreter flushes both streams at its end: one that failed, and still has
\* text in its buffer, makes the exit status 120.
FlushFailed == 120
Final(status) ==
    IF stdout' \in FailedWrites \/ stderr' # "open" THEN {status, FlushFailed} ELSE {status}

-----------------------------------------------------------------------------
(* From the arguments to the request. *)

\* argparse refuses the command line and ends the process.
Parse ==
    /\ pc = "start"
    /\ IF ParserRefuses(command, on)
       THEN pc' = "exit" /\ exit' = 2 /\ raised' = "parser"
       ELSE pc' = "validate" /\ UNCHANGED <<exit, raised>>
    /\ UNCHANGED <<invocation, client, sent, answer, reading>>

Validate ==
    /\ pc = "validate"
    /\ IF ValidateArgsRefuses(command, on)
       THEN raised' = "usage" /\ pc' = "report"
       ELSE pc' = "open" /\ UNCHANGED raised
    /\ UNCHANGED <<invocation, client, sent, answer, reading, exit>>

\* The extension may be missing: then the client was never opened.
Open ==
    /\ pc = "open"
    /\ \/ client' = "open" /\ pc' = "timeout" /\ UNCHANGED raised
       \/ raised' = "bridge" /\ pc' = "report" /\ UNCHANGED client
    /\ UNCHANGED <<invocation, sent, answer, reading, exit>>

ConfigureTimeout ==
    /\ pc = "timeout"
    /\ IF "ssh_timeout" \in on
       THEN /\ sent' = Append(sent, Control("configure_transport_runtime"))
            /\ \/ pc' = "handler" /\ UNCHANGED raised
               \/ \E error \in BridgeFailures : Raise(error)
       ELSE pc' = "handler" /\ UNCHANGED <<sent, raised>>
    /\ UNCHANGED <<invocation, client, answer, reading, exit>>

\* The handler refuses the options, or a check of the client does, or a request
\* is ready.
Handle ==
    /\ pc = "handler"
    /\ IF UrlSchemeRefused(on) \/ HandlerRefuses(command, on) THEN Raise("usage")
       ELSE IF ClientRefuses(command, on) THEN Raise("value")
       ELSE /\ pc' = IF AsksCapability(Wanted) THEN "capability" ELSE "request"
            /\ UNCHANGED raised
    /\ UNCHANGED <<invocation, client, sent, answer, reading, exit>>

\* An identity is sent only to a core that says it supports file identities.
AskCapability ==
    /\ pc = "capability"
    /\ sent' = Append(sent, Control("transport_capabilities"))
    /\ \/ pc' = "request" /\ UNCHANGED raised
       \/ Raise("request")
    /\ UNCHANGED <<invocation, client, answer, reading, exit>>

-----------------------------------------------------------------------------
(* The request and its answer. *)

\* raise_for_response.
RaiseForResponse(status, next) ==
    IF status \in SuccessStatuses THEN pc' = next /\ UNCHANGED raised ELSE Raise("operation")

AfterCall == CASE command = "forall" -> "members"
               [] command = "diff" -> "manifest"
               [] OTHER -> "close"

\* The client's unary calls; the answer of diff carries differences, that of
\* status the workspace's own.
Call ==
    /\ pc = "request" /\ Wanted.via = "call"
    /\ sent' = Append(sent, Wanted)
    /\ \/ \E a \in Answers :
             /\ a.carries => command \in {"diff", "status"}
             /\ answer' = a
             /\ RaiseForResponse(a.status, AfterCall)
             /\ left' \in IF a.status \in SuccessStatuses
                          THEN CASE command = "forall" -> 0..MaxMembers
                                 [] command = "diff" -> 0..MaxRecords
                                 [] OTHER -> {0}
                          ELSE {0}
       \/ Raise("bridge") /\ UNCHANGED <<answer, left>>
    /\ UNCHANGED <<invocation, client, ran, streams, spool, missed, code, exit>>

\* A submission is accepted with an operation id, or without one, or refused.
Submit ==
    /\ pc = "request" /\ Wanted.via \in {"stream", "merge_stream"}
    /\ sent' = Append(sent, Wanted)
    /\ \/ \E a \in Answers :
             /\ answer' = a
             /\ IF a.status \notin SuccessStatuses
                THEN Raise("operation") /\ UNCHANGED left
                ELSE IF a.carries
                THEN pc' = "events" /\ left' \in 0..MaxEvents /\ UNCHANGED raised
                ELSE Raise("bridge") /\ UNCHANGED left
       \/ Raise("bridge") /\ UNCHANGED <<answer, left>>
    /\ UNCHANGED <<invocation, client, ran, streams, spool, missed, code, exit>>

\* The handler of the stream takes the next event: `merge --jsonl` writes it to the
\* standard output, a person is told of it on standard error.  `ran` remembers that
\* there was an event.
Event ==
    /\ pc = "events" /\ left > 0
    /\ \/ /\ left' = left - 1
          /\ ran' = <<TRUE>>
          /\ IF MergeJsonl THEN Written("event") ELSE Told
          /\ UNCHANGED <<pc, raised>>
       \/ /\ IF MergeJsonl THEN \E how \in FailedWrites : WriteFails(how) ELSE TellFails
          /\ Raise("write") /\ UNCHANGED <<left, ran>>
       \/ Raise("bridge") /\ UNCHANGED <<left, ran, streams>>
    /\ UNCHANGED <<invocation, client, sent, answer, spool, missed, code, exit>>

\* The events are over and the result of the operation is read.  A clone raises
\* for a result that is no success, and when it saw no event; a merge reads the
\* response it retained, whatever its status, and raises for the result only
\* when there is none.
Result ==
    /\ pc = "events" /\ left = 0
    /\ \/ \E a \in Answers :
             /\ answer' = a
             /\ IF Wanted.via = "stream"
                THEN IF a.status \in SuccessStatuses /\ ran = << >>
                     THEN Raise("bridge")
                     ELSE RaiseForResponse(a.status, "close")
                ELSE IF a.carries
                THEN pc' = (IF MergeJsonl THEN "response" ELSE "close") /\ UNCHANGED raised
                ELSE IF a.status \in SuccessStatuses THEN Raise("bridge")
                ELSE Raise("result")
       \/ Raise("bridge") /\ UNCHANGED answer
    /\ UNCHANGED <<invocation, client, sent, reading, exit>>

\* merge --jsonl writes the response after the events it wrote.
WriteResponse ==
    /\ pc = "response"
    /\ \/ /\ Written("document")
          /\ code' = CliExitCode(answer.status) /\ pc' = "close" /\ UNCHANGED raised
       \/ /\ \E how \in FailedWrites : WriteFails(how)
          /\ Raise("write") /\ UNCHANGED code
    /\ UNCHANGED <<invocation, client, sent, answer, left, ran, spool, missed, exit>>

\* The log's answer is kept whatever its status, with the spool it names; the
\* status decides the exit status of the handler.
CallLog ==
    /\ pc = "request" /\ Wanted.via = "log"
    /\ sent' = Append(sent, Wanted)
    /\ \/ \E a \in Answers :
             /\ ~ a.carries
             /\ answer' = a /\ code' = LogExitCode(a.status)
             /\ left' \in 0..MaxRecords
             /\ spool' = "held"
             /\ pc' = IF Machine(on) THEN "prefix" ELSE "records"
             /\ UNCHANGED raised
       \/ \E error \in BridgeErrors : Raise(error) /\ UNCHANGED <<answer, code, left, spool>>
    /\ UNCHANGED <<invocation, client, ran, streams, missed, exit>>

-----------------------------------------------------------------------------
(* forall: the command is run in each member, in the order core listed them,
   and the first failure ends the run unless --partial.  A banner on standard
   error comes before each command; one that cannot be written ends the run. *)
RunMember ==
    /\ pc = "members" /\ "dry_run" \notin on /\ left > 0
    /\ \/ \E succeeded \in BOOLEAN :
             /\ ran' = Append(ran, succeeded)
             /\ left' = IF succeeded \/ "partial" \in on THEN left - 1 ELSE 0
             /\ Told /\ UNCHANGED <<pc, raised>>
       \/ /\ "no_banner" \notin on /\ TellFails
          /\ Raise("write") /\ UNCHANGED <<ran, left>>
    /\ UNCHANGED <<invocation, client, sent, answer, spool, missed, code, exit>>

MembersRun ==
    /\ pc = "members" /\ ("dry_run" \in on \/ left = 0)
    /\ answer' = [status |-> IF \A m \in DOMAIN ran : ran[m] THEN "ok" ELSE "failed",
                  carries |-> FALSE]
    /\ pc' = "close"
    /\ UNCHANGED <<invocation, client, sent, reading, raised, exit>>

-----------------------------------------------------------------------------
(* The output of diff: the manifest, then what the reader stream yields. *)

\* mutant: git's own status for an error.
DiffExitCode_Git ==
    IF on \cap {"exit_code", "quiet"} # {} /\ answer.carries THEN 128 ELSE 0
DiffExitCode ==
    IF on \cap {"exit_code", "quiet"} # {} /\ answer.carries THEN 1 ELSE 0

\* --json writes the manifest and reads no patch, --jsonl writes it and reads,
\* --quiet does neither; a person reads the patch, or the manifest of a format
\* that has none.
Manifest ==
    /\ pc = "manifest"
    /\ \E hasOutput \in BOOLEAN :
         LET reads  == hasOutput /\ "json" \notin on /\ ("jsonl" \in on \/ "quiet" \notin on)
             prints == Machine(on) \/ ("quiet" \notin on /\ ~hasOutput)
         IN  \/ /\ IF prints THEN Written("document") ELSE UNCHANGED streams
                /\ IF reads
                   THEN spool' = "held" /\ pc' = "records" /\ UNCHANGED <<left, code>>
                   ELSE left' = 0 /\ code' = DiffExitCode /\ pc' = "close" /\ UNCHANGED spool
                /\ UNCHANGED raised
             \/ /\ prints
                /\ \E how \in FailedWrites : WriteFails(how)
                /\ Raise("write") /\ UNCHANGED <<left, spool, code>>
    /\ UNCHANGED <<invocation, client, sent, answer, ran, missed, exit>>

-----------------------------------------------------------------------------
(* Reading an output record by record. *)

\* mutant: the spool is left unread when the reader is gone.
Prefix_Unreleased ==
    /\ pc = "prefix"
    /\ \/ Written("prefix") /\ pc' = "records" /\ UNCHANGED code
       \/ ReaderGone /\ code' = 0 /\ pc' = "close"
    /\ UNCHANGED <<invocation, client, sent, answer, left, ran, spool, missed, raised, exit>>

\* log --json and --jsonl: the first chunk.  When it cannot be written the spool
\* is released unread: quietly when the reader is gone.
Prefix ==
    /\ pc = "prefix"
    /\ \/ Written("prefix") /\ pc' = "records" /\ UNCHANGED <<code, raised>>
       \/ ReaderGone /\ code' = 0 /\ pc' = "release" /\ UNCHANGED raised
       \/ WriteFails("full") /\ raised' = "bridge" /\ pc' = "release" /\ UNCHANGED code
    /\ UNCHANGED <<invocation, client, sent, answer, left, ran, spool, missed, exit>>

\* The next record is read and shown: on the standard output, or, to a person, as a
\* warning (a stale file or a diagnostic of diff, a degradation of log) on standard
\* error.
ShowRecord ==
    /\ Written("record") \/ (Human /\ Told)
    /\ left' = left - 1
    /\ UNCHANGED <<pc, code, raised>>

\* A write that fails ends the output.  The log goes on to release its spool,
\* quietly when the reader is gone ...
LogRecordFails ==
    /\ OpensLog
    /\ \/ ReaderGone /\ code' = 0 /\ UNCHANGED raised
       \/ (WriteFails("full") \/ (Human /\ TellFails)) /\ raised' = "bridge" /\ UNCHANGED code
    /\ pc' = "release" /\ UNCHANGED left

\* ... the diff leaves its reader stream behind.
DiffRecordFails ==
    /\ ~OpensLog
    /\ (\E how \in FailedWrites : WriteFails(how)) \/ (Human /\ TellFails)
    /\ Raise("write") /\ UNCHANGED <<left, code>>

Record ==
    /\ pc = "records" /\ left > 0
    /\ ShowRecord \/ LogRecordFails \/ DiffRecordFails
    /\ UNCHANGED <<invocation, client, sent, answer, ran, spool, missed, exit>>

\* Core has dropped the records at the cursor of a diff (`expired`): the read goes
\* on from the earliest one that is left.
Expired ==
    /\ pc = "records" /\ ~OpensLog /\ left > 0
    /\ left' \in 0..(left - 1)
    /\ missed' = TRUE
    /\ UNCHANGED <<invocation, pc, client, sent, answer, ran, streams, spool, code, raised, exit>>

\* The read finds the end, or fails: the generator's finally gives the output back.
\* To a diff, an output that core closed (`closed`) has ended like any other.
EndOfRecords ==
    /\ pc = "records"
    /\ \/ /\ \/ left = 0 /\ UNCHANGED missed
             \/ ~OpensLog /\ left > 0 /\ missed' = TRUE
          /\ code' = IF OpensLog THEN code ELSE DiffExitCode
          /\ UNCHANGED raised
       \/ raised' \in BridgeFailures /\ UNCHANGED <<missed, code>>
    /\ pc' = "release"
    /\ UNCHANGED <<invocation, client, sent, answer, left, ran, streams, spool, exit>>

\* Whether the array of log --json is still to be closed.
ClosesDocument == OpensLog /\ "json" \in on /\ raised = "none" /\ stdout = "open"

\* log_output_release and diff_log_end_stream; a failure replaces the result.
Release ==
    /\ pc = "release"
    /\ \/ /\ spool' = "released"
          /\ pc' = IF ClosesDocument THEN "suffix" ELSE "close"
          /\ UNCHANGED raised
       \/ /\ spool' = "failed" /\ pc' = "close"
          /\ raised' \in IF raised = "interrupt" THEN {raised} ELSE BridgeFailures
    /\ UNCHANGED <<invocation, client, sent, answer, left, ran, streams, missed, code, exit>>

\* log --json: what closes the document, after the spool is gone.
Suffix ==
    /\ pc = "suffix"
    /\ \/ Written("suffix") /\ pc' = "close" /\ UNCHANGED <<code, raised>>
       \/ ReaderGone /\ code' = 0 /\ pc' = "close" /\ UNCHANGED raised
       \/ WriteFails("full") /\ Raise("bridge") /\ UNCHANGED code
    /\ UNCHANGED <<invocation, client, sent, answer, left, ran, spool, missed, exit>>

-----------------------------------------------------------------------------
(* From the handler's result to the exit status. *)

\* An unsuccessful response that is rendered all the same: a merge, a push, or a
\* status that carries the workspace's.
Renderable ==
    \/ Wanted.method \in {"merge", "push"}
    \/ command = "status" /\ answer.carries

\* `async with` closes the client; `run` has caught what it renders.
Close ==
    /\ pc = "close"
    /\ client' = "closed"
    /\ \/ /\ raised' = IF raised = "operation" /\ Renderable THEN "none" ELSE raised
          /\ pc' = IF raised' = "none" THEN "respond" ELSE "report"
       \/ /\ raised' \in IF raised = "interrupt" THEN {raised} ELSE BridgeFailures
          /\ pc' = "report"
    /\ UNCHANGED <<invocation, sent, answer, reading, exit>>

\* A result with an exit status of its own has written what it had to; any other
\* response is printed now, and may break at once or only when the interpreter
\* flushes it.
ResponseExitCode ==
    IF command = "status" /\ answer.carries THEN 0 ELSE CliExitCode(answer.status)

Respond ==
    /\ pc = "respond"
    /\ pc' = "exit"
    /\ \/ /\ code # NoCode /\ UNCHANGED streams
          /\ exit' \in Final(code) /\ UNCHANGED raised
       \/ /\ code = NoCode /\ Written("document")
          /\ exit' \in Final(ResponseExitCode) /\ UNCHANGED raised
       \/ /\ code = NoCode
          /\ \E how \in FailedWrites : WriteFails(how)
          /\ \/ exit' \in Final(1) /\ raised' = "write"
             \/ exit' = FlushFailed /\ UNCHANGED raised
    /\ UNCHANGED <<invocation, client, sent, answer, left, ran, spool, missed, code>>

\* main reports a CliUsageError or GwzError: on the standard output to a machine,
\* on standard error to a person.
Reported == {"usage", "operation", "result"} \cup BridgeErrors

ReportError ==
    /\ IF Machine(on) THEN Written("error") ELSE Told
    /\ exit' \in Final(IF OpensLog THEN LogErrorExitCode(raised) ELSE ErrorExitCode(raised))
    /\ UNCHANGED raised

\* log minds a report that cannot be written ...
LogReportFails ==
    /\ OpensLog /\ UNCHANGED raised
    /\ \/ Machine(on) /\ ReaderGone /\ exit' \in Final(0)
       \/ Machine(on) /\ WriteFails("full") /\ exit' \in Final(1)
       \/ Human /\ TellFails /\ exit' \in Final(1)

\* ... the others end with one more exception, or with what the interpreter finds.
PrintFails ==
    /\ ~OpensLog
    /\ IF Machine(on) THEN \E how \in FailedWrites : WriteFails(how) ELSE TellFails
    /\ \/ exit' \in Final(1) /\ raised' = "write"
       \/ Machine(on) /\ exit' = FlushFailed /\ UNCHANGED raised

Report ==
    /\ pc = "report" /\ raised \in Reported
    /\ pc' = "exit"
    /\ ReportError \/ LogReportFails \/ PrintFails
    /\ UNCHANGED <<invocation, client, sent, answer, left, ran, spool, missed, code>>

\* Nobody catches a ValueError, an OSError or an interrupt.
Crash ==
    /\ pc = "report" /\ raised \in {"value", "write", "interrupt"}
    /\ pc' = "exit"
    /\ UNCHANGED reading
    /\ exit' \in IF raised = "interrupt" THEN {130} ELSE Final(1)
    /\ UNCHANGED <<invocation, client, sent, answer, raised>>

-----------------------------------------------------------------------------
(* The first interrupt cancels the task at the await it stands at.  Core goes on
   with a call that was made, and a log that was being made is nobody's. *)
Interrupt ==
    /\ raised # "interrupt"
    /\ raised' = "interrupt"
    /\ \/ /\ pc \in {"capability", "events"} \/ (pc = "timeout" /\ "ssh_timeout" \in on)
          /\ pc' = "close" /\ UNCHANGED <<client, sent, spool>>
       \/ /\ pc = "request"
          /\ sent' = Append(sent, Wanted)
          /\ spool' = IF OpensLog THEN "lost" ELSE spool
          /\ pc' = "close" /\ UNCHANGED client
       \/ pc = "records" /\ pc' = "release" /\ UNCHANGED <<client, sent, spool>>
       \/ /\ pc = "release"
          /\ spool' \in {"released", "lost"}
          /\ pc' = "close" /\ UNCHANGED <<client, sent>>
       \/ pc = "close" /\ client' = "closed" /\ pc' = "report" /\ UNCHANGED <<sent, spool>>
    /\ UNCHANGED <<invocation, answer, left, ran, streams, missed, code, exit>>

Exited == pc = "exit" /\ UNCHANGED vars

Next ==
    \/ Parse \/ Validate \/ Open \/ ConfigureTimeout \/ Handle \/ AskCapability
    \/ Call \/ Submit \/ Event \/ Result \/ WriteResponse \/ CallLog
    \/ RunMember \/ MembersRun
    \/ Manifest \/ Prefix \/ Record \/ Expired \/ EndOfRecords \/ Release \/ Suffix
    \/ Close \/ Respond \/ Report \/ Crash
    \/ Interrupt \/ Exited

Spec == Init /\ [][Next]_vars
=============================================================================

# gwz-py, in TLA+

gwz-py is two things in one package: a PyO3 extension (`native/src`, Rust) that
embeds the git workspace engine gwz-core, and Python around it (`src/gwz`): a
bridge, an asyncio `Client` and a command line. What is hard about it is not the
git work, which gwz-core does, but what lies between: threads that run
operations, calls that cancel and close them, readers that wait for their events
and outcomes, and Python tasks that can be cancelled at any `await`. This
directory holds TLA+ models of those parts, TLC runs over small instances of
them, and theorems about them that TLAPS checks for every instance.

To check everything: `tlc -config <cfg> <MC module>` for each run of
`PROJECT.json`, and `tlapm` on the eight `*Proofs.tla`.

## Inventory

| Part | State it keeps | Operations | Modelled |
|---|---|---|---|
| Network operations of a `Client` (`client_host/operations.rs`, `client_host.rs`) | live operations by ID, running count, serial numbers, closing/exiting, the first close's report, cleanup totals, the last 64 cancellations | register, admit (waits for one of 8 slots), end and drop of a `Ticket`; cancel; close; the exit hook | `HostOperations` |
| Operation records (`operations.rs`) | per ID the current record; per record its events, result, merge response, refusal | begin, push, finish (five ways), refuse, abandon when the last recorder is dropped; wait for events, result, merge response | `OperationRecords` |
| Submission and dispatch (`dispatch/*`, `shims.rs`) | none of its own: threads, and who holds a recorder and a Ticket | submit, call, merge submit, merge call; spawn, spawn failure, panic | who writes a record: `OperationRecords`; record and Ticket of one operation: `SubmittedOperations`; the method tables are not |
| Routes (`route.rs`, `route/*`) | gwz-core's transport runtime, the exit gate of transport notes | prepare, run, cancel; note sink | a route's canceller and cleanup: in `HostOperations`; the rest is not |
| Extension functions (`lib.rs`) | none; they hold or release the GIL | reads of records, diff and log outputs | the blocking reads; the GIL is not |
| Diff and log outputs (`diff_logs.rs`, `log_outputs.rs`) | gwz-core's registries of spools | read, end stream, release | who holds and releases an output: `CommandLine` |
| Python bridge (`bridge.py`) | closed flag, first close report; tasks, the executor's threads | call, submit, close, cancel, subscribe, result, output reads | `BridgeCalls`; subscriptions in `OperationRecords` |
| Client (`client.py`) | none besides its bridge | some forty requests, streams, merge handles, output cursors | requests: `ClientRequests`; cursors: `CommandLine`; streams and merge handles: `OperationRecords` |
| Command line (`cli.py`, `cli_*.py`) | one process: options, one client, one answer, an output it holds, an exit status | parse, validate, ask, read, write, release, close, report | `CommandOptions`, `CommandHandlers`, `CommandLine` |
| Rendering (`cli_render.py`, `machine.py`) | none | lay out an answer | no: no control that depends on it |
| Protocol codec and generated code | none | encode, decode | no: data without control |
| Release script (`scripts/release.py`) | branch, worktree, commit, tag in a clone; branch and tag on origin | bootstrap, release, push, cleanup | `Release` |
| Other scripts, build support | files they write | one run each | no |

**How they interact.** A Python task calls `bridge.call` or `bridge.submit`,
which runs the native entry on an executor thread. The entry registers the
request with the client's host, if it is a network operation, and gets a
`Ticket`; a submit then begins a record in the process-wide store and spawns a
thread that owns ticket and recorder, a call goes on where it is. That thread
waits for a slot, runs gwz-core, which pushes events through the recorder, writes
the outcome to the record and ends the ticket. Meanwhile other tasks, each on a
thread of its own, wait on the record (events, result), cancel by ID, or close
the host; at exit the interpreter runs the exit hook. A `gwz` process is one such
task: it opens a client, makes the request of its command, reads the answer and
the output the answer names, and closes the client. Shared state is behind two
kinds of mutex, the host's and each record's, each with one condition variable
whose `notify_all` comes after the unlock.

**What is hard.** An ID can be used again while somebody still waits for, cancels
or streams its previous operation. Cancel and close look under the lock, act
outside it, and wait for something that others end. Outcomes have several
writers: the handler, the thread around it, a panic, a launch that fails, the
drop of the last recorder. Waits time out while what they wait for happens. A
task can be cancelled at every `await`, once or often, while a thread works on for
it, and the loop's executor has only so many threads.
The command line has 34 commands and some 140 options, checks of them in four
places, and an exit status that is decided in six; its output can break
between any two chunks, and what core keeps for it must be given back all the same.
`release.py` can fail or be killed between any two of its effects and is then run
again, beside other maintainers. `PROJECT.json` lists these hazards, each at its
line, with the property that covers it or the reason none does.

**What makes each part correct.** The host: never more than 8 running, a truthful
answer to every cancel and close, nothing started after a close, every call
returns. Records: one lasting outcome for each operation, none left without a
writer, streams that lose and repeat nothing, readers that return. The bridge:
no cancelled call leaves work behind, all closes give one report, a full executor
delays no close. Host and store together: one story of each operation. The command
line: refusals come before requests, requests say what was asked for, the exit
status tells the truth, outputs are whole and given back. Releases: only checked commits are tagged, tags do not
move, branch and tag of `--push` go out together, a failed release can be made again.

## Modules

Each component has the same four files: `X.tla` (state, actions, `Spec` and
`FairSpec`, and beside some definitions a *mutated* form, the bug a property
must notice), `XProps.tla` (types and properties), `XProofs.tla` (theorems) and
`MCX.tla` with its `.cfg`s. How they stand to each other:

    NetworkSlots            what a host promises
      ^ implemented by HostOperations          (KeepsThePromise; HostSlotsProofs)
      ^ implemented by each host of SubmittedOperations   (HostsKeepThePromise)
    OperationOutcomes       what the store of a process promises
      ^ implemented by OperationRecords        (RecordsKeepThePromise)
      ^ implemented by the store of SubmittedOperations   (StoreKeepsThePromise)
    SubmittedOperations     = hosts, at the grain of NetworkSlots, and the store,
                              at the grain of OperationOutcomes
    CommandOptions <- ClientRequests <- CommandHandlers <- CommandLine   (EXTENDS)

### NetworkSlots: the host's promise

What a caller of the host may rely on, with neither lock nor queue nor count: an
operation is unborn, waiting, running or over; an ID names one that is waiting or
running; at most LIMIT run; one that was denied never starts; a closed host starts
nothing. It is stated once and implemented twice.

### OperationOutcomes: the store's promise

What those who record and those who ask may rely on, with neither locks, recorders,
threads nor wakeups: an ID names the last operation that began under it, none begins
under the ID of a live one, an operation takes events until it has its one outcome, and a
`result` call is told the outcome of the operation that its ID named when it looked. It is
implemented twice as well, so `SubmittedOperations` may take the store at this grain.

### HostOperations: `client_host/operations.rs`, `client_host.rs`

Variables are the fields of `State` (`live`, `running`, `registered`, `closing`,
`exiting`, `report`, `aggregate`, `cancellations`), the threads (`pc`,
`sleeping`, the `ticket` of each registration, the locals of each `call`) and what
the threads act on (`fired` tokens, the exit `hook`). An action is one critical
section, or one step outside the lock that others can see: `End` is the locked part
of `Ticket::end` and `EndNotifies` its `notify_all`, `CancelRunning` marks the
operation and clones its canceller, `CancelFires` runs it later. `admit`'s loop
is `AdmitRefused`, `AdmitGranted` and `AdmitWaits`; `close` is `CloseFirst`
(or `CloseLater`), `CloseNotifies`, `CloseFires` for each token, `CloseWaits`,
`CloseReports`, `ClosePublishes`, and `CloseReturns`, which is where
`ClientHost::close` may take the exit hook away. `Expire` is the passing of a
call's bound at any moment; wakeups may be spurious. A panic, or a submit that
fails after it registered, is `Drop`. An operation on the native route has no
canceller and leaves no cleanup; one on the transport leaves any cleanup
(`RouteCleanup`), because gwz-core decides it.

### OperationRecords: `operations.rs` with `dispatch/mod.rs`, `dispatch/merge.rs`, `shims.rs`, `bridge.py`

`store`, `rec`, `clones` are the store, the records and the clones of each
record's `OperationRecorder`; `stage` is how far the operation has come;
`unlocked` holds writers between unlock and notify. The four kinds of operation
differ in who records what: a submit's thread catches its panic and records its
failures in `record()`, a call refuses its own record, a merge's thread catches
nothing, so only the drop of its recorder ends the record. `spawn_call` keeps a
second clone across `Builder::spawn`, because the failed spawn drops the closure
with the first before `worker_spawn_failure` can refuse. `publish` is the rule
of all writers: the first outcome stands. Readers (`reader`, `rpc`,
`sleeping`) are the bridge's event loop and the result reads: every native call
looks the record up by ID and then waits on that record. Events are
<<record, sequence>> pairs, since gwz-core numbers each operation's from 0.

### BridgeCalls: `bridge.py`, over the limited threads of the executor

One event loop runs the tasks: `task`, `pc`, and the bridge's own `closed` and `kept`
(`_close_result`). A task makes one call of the bridge, `Call`, which may be
refused by `_ensure_open` (`CallRefused`); its native function is a `job`, in the
`queue` of the default executor or, for close and cancel, on a thread of its own
(`ownThread` is `_on_own_thread`). `Return` is the task going on with the job's
result. `Cancelled` is `Task.cancel` at any moment, also again and again, and also
when the job has just ended: a shielded call (`_run_native`, `close`) `joins` in
`_await_completion` and raises in `JoinEnds`, while a read or a cancel leaves at
once, and its job is dropped if it was still queued. Of the host the module keeps
what decides when a job ends: slots (`Register`, `Admit`, `AdmitRefused`, `Finish`), the
waits of a read or cancel for the operation of another task, and the close with the
first one's report. It is coarser than `HostOperations`, which has those critical
sections one by one. A bound that passes is `CancelReturns`, `CloseReports` and
`CloseJoins` being possible at any time. External, and modelled from its use: the
FIFO of `ThreadPoolExecutor` (`queue`, `Held`, `Run`). Left out: a loop that shuts down and
cancels the worker tasks behind the shields, and native closes that raise.

### SubmittedOperations: `client_host.rs`, `dispatch/mod.rs`, `shims.rs`, `operations.rs`

The composition: operations of several Clients, each with its host (`live`,
`cancelled`, `denied`, `closing`, `quiet`), over the one store of the process
(`store`, `outcome`). `pc` is where an operation stands between its entry and its
outcome, and the actions are the steps in which it uses one of the two: `Enter`
registers, `SubmitBegins` and `CallBegins` begin a record, `Launch`, `SpawnFails` and
`SpawnFailure` are `spawn_call`, `Admit` and `AdmitRefused` the slot, `HandlerSucceeds`
and `HandlerFails` the route's run, `Finish` the end of the Ticket, `Report` what
`record` and `Network::run` do after it. The order is the point: a Ticket before a
record, a result before the Ticket's end, a failure after it. Cancels and closes of any
host come between any two steps. A host that shares its ID space with another through
the store is why the module has several.

Operations are of three `Kinds`. A submit has its record from `SubmitBegins`; a call that
reports events (`shims::backend_with_events`) begins it in its handler (`CallBegins`), and
is refused there if the ID is live in the store. The call of a tag runs through
`shims::backend`, which begins none (`HasRecord`, `TagWorks`): its ID is exclusive in its
Client, where it registers, and nowhere else. `OneStory` says so: two handlers of one ID
that work at one time are of different Clients, and one of them is a tag's.

### CommandLine: `cli.py`, `cli_*.py`, `client.py`

Four modules. `CommandOptions` names the commands, the options each sub-parser
declares, the exclusive groups and what the parser refuses. An option is present or not;
where the code tells values apart each is a name of its own, and so is an empty value
where the code tests it for truth (`EmptyValues`, `empty_member_path`). `ClientRequests` has one
operator for each method of `Client` that sends a request: what its `RequestMeta`
carries and which fields the caller decided, the `ValueError`s, and the path it is sent
on. `CommandHandlers` has, for each handler, what it refuses and the request it
asks for. `CommandLine` is one process: `pc` runs from `start` over `validate`,
`open`, `timeout`, `handler`, `capability` and `request` to the reading of an
answer (`events` of a stream, `members` of forall, `manifest` and `records` of a
diff, `prefix`, `records` and `suffix` of a log), to `release`, `close` and then
`respond` or `report`. `sent` is what core was asked, in order; `spool` the output of
core's that the process holds; `raised` the exception under way, which passes
through `finally` blocks and `async with` on its way to `main`. Core's answers, failing
writes and an interrupt at any `await`, that of the client's close among them, are choices of
the environment. A write to the standard output fails because the reader is gone ("broken") or
the disk is full; the log then points it at nobody ("silenced", `ReaderGone`) if it can. What
goes to standard error (events, banners, warnings of a diff or log, errors for people) leaves no
trace in the model but may fail as well (`TellFails`). A stream with text that could not be
flushed makes the interpreter exit 120 (`Final`). Of a diff core may say that the records at
the cursor are gone (`Expired`) or that it closed the output (`EndOfRecords`); both are read
over, and `missed` remembers that it happened.

### Release: `scripts/release.py`

Per clone: `main`, the `release` branch, its `tags`, whether the branch is `held`
by a worktree, and the script's locals; and `origin`. A commit of the release
branch is its history, which makes ancestry `IsPrefix`. Actions are the parts of
the script between two effects, in both forms (`Bootstrap`, `Release`, and
`PushAgain` for "release already cut"), then `AddWorktree`, `Reconcile`,
`Check`, `Commit`, `Tag`, `Push` and the `finally` blocks (`Cleanup`). Every
command may fail (`Fail`), a process may be killed with no cleanup at all
(`Killed`), and beside the runs maintainers pull, fetch and free a branch. A run without
`--push` ends by telling them to `git push origin release vX.Y.Z`, which is not atomic:
`PushByHand` makes that push for any tag on the clone's branch, each reference for itself
(`pushedEach`), and `alone` keeps the versions whose tag came so without its branch. What
`--push` itself promises is then a promise about the tags that are not in `alone`, however
many pushes by hand come between.

## Runs

`PROJECT.json` gives each property of a passing run a mutant, with which the
same run must fail.

| Run | Question | Instance |
|---|---|---|
| `host_safety` | Do limit, ownership of IDs and the close barrier hold, what do two overlapping calls of cancel, close and exit hook answer and cancel, is no wakeup lost, and does all of it implement `NetworkSlots`? | 2 IDs, 2 registrations, 1 slot, 2 calls, 1 recorded cancellation, 1 pending cleanup |
| `host_liveness` | Do waiting operations leave on cancel or close though no slot frees, get in when slots do free, and does every cancel and close return? | 2 IDs, 2 registrations, 1 slot, 1 call |
| `host_panic` | (violated) Does a confirmed close report speak for every operation that used the transport? | 2 registrations, 1 call |
| `records_safety` | One lasting outcome per operation, none live without a writer, streams that see every event once and in order, merges whose readers get their response, and all of it a behaviour of `OperationOutcomes`? | 1 ID used twice by operations of any kind, 2 events, 1 reader |
| `records_returns` | No lost wakeup, and every reader returns? | 1 operation, 2 readers |
| `records_reused` | (violated) Does a stream yield each event of its merge though the ID is used again? | 1 ID used twice, 2 events, 1 reader |
| `bridge_calls` | What does a cancelled call leave behind, which report do closes return, and who is delayed by a full executor? | 3 tasks of any kind, 1 executor thread, 1 slot |
| `submitted` | Do host and record tell one story, do each host (`NetworkSlots`) and the store (`OperationOutcomes`) keep their promises beside each other, does every record end? | 2 Clients, 2 IDs, 2 operations of any kind, 1 slot each |
| `id_in_use` | (violated) May one who has an operation's result use its ID again? | 1 Client, 1 ID, 2 operations |
| `command_line` | What is refused and when, what do requests carry, what is written and given back, what does the exit status say? | every command, 2 options of its own and 2 global ones, 3 in all; 2 members, 2 records, 1 event |
| `release_cut` | What are tags and branches with two maintainers, pushes by hand, failures and kills? | 2 clones, 2 versions, 2 commits of main, 1 failure |
| `release_retry` | Does running the script again get a release out? | 2 clones, 1 version, 2 commits of main, 3 failures |

**Why these bounds show the cases.** One slot with two registrations lets one
operation wait while the other runs, ends and frees the slot, and an ID be used again
while its previous operation's cancel still waits; two calls are what overlaps. A
record of one cancellation makes the 64-entry ring drop its oldest at the second one.
Two records of one ID are a reuse; two events tell a repeated from a missed one;
two readers on one record show a wakeup that only one of them gets. Three tasks
over one executor thread are one that holds the thread, one that queues behind it
and one that closes, cancels or is cancelled. Two operations over two Clients and two
IDs are every way in which two operations can share a host, an ID, both or neither; with
three operations of one ID, and of two, the same properties were checked once and
hold. In `command_line` a defect of a request or a refusal comes from an option, or
from a pair, or from a pair with a global option beside it: three options at once show all of
them, and options that are only copied into the request (`Copied`) are represented
by others that are copied the same way, and the eleven formats and whitespace modes of a diff that
exclude each other by four of them (`Alike`). In
`release_cut` one failure or kill at any step, of either maintainer, meets
every step of the other; `release_retry` has up to three in a row, which is one
for each of the states a broken run can leave (branch, commit, tag). The
theorems below hold for all values and state every safety property of the passing runs,
so the bounds matter for the liveness properties only. The properties that contradict the
code (`host_panic`, `records_reused`, `id_in_use`) need no more than the smallest instance in
which the case exists.

`CHECK_DEADLOCK FALSE` in the host, record, bridge and submitted runs: when the bounded operations
and calls are over, the system has stopped as it should. That no one stops too
early is what the liveness properties say. `Release` always has a step, and a
process of `CommandLine` stays at `exit` (`Exited`): both check deadlock.

**Fairness.** Threads that can take a step of their own do (weak fairness of
admission, notification, a call's or reader's own steps, a launch, a thread's
way out), and a bound that was set passes (`Expire`): both are promises of the
operating system. Nothing in this repository bounds how long gwz-core's
handler runs, so none is assumed of its end; where a property needs it
(`EveryOperationEnds`, `EveryReaderReturns`, and `EveryRecordEnds`, whose premise is
that again and again no handler works) it is the property's premise, and
`EveryCallReturns`, `WaitingLeaves` and the bridge's `CloseAndCancelReturn` are stated
without it. In the bridge weak fairness of each task's `Continue` is the event loop,
of `Run` the executor, of `Native` the native threads and their bounds; a task is
never obliged to be cancelled, and `EveryTaskEnds` has the premise `Quiet`: again and
again gwz-core runs nothing. For
`ReleaseGetsOut` a maintainer starts the script again until the tag is out, in whatever form:
a run that tags may be without `--push`; one that finds the release cut is with it, since
without it prints that and stops. That anybody pushes by hand is not assumed. It is checked
for one version: with two, two maintainers whose release branches have diverged, each
holding a commit the other has not, are both refused until one of them resets the branch by
hand, which is not something the script does. `CommandLine` has no fairness: its properties are
about what a process has done when it exits.

## What disagrees

* `host_panic`: a close confirms the peer cleanup "only when some operation
  confirmed it and none left it unconfirmed" (`client_host/operations.rs:112-113`),
  and lines 231-233 say that an operation that ended without a report left its
  cleanup unknown. An operation that unwinds on the transport ends so; `cancel`
  answers it UNFINISHED, but it adds nothing to the totals and a close may
  confirm without it.
* `records_reused`: `client.py:1377` says that a merge's events are yielded "once
  in native sequence order". The stream names its merge by ID on each round; if
  the ID is used again once the merge has ended, the stream goes on in the new
  record and the remaining events are lost. That a stream whose ID was not used again
  is whole is a part of `NothingIsMissed`, which holds and is proved.
* `id_in_use`: `operations.rs:14-19` says that a request ID is unique among live
  operations and that one that matches an ended operation's begins a fresh record. The
  handler records its result inside the route's run, while its Ticket is live: who reads
  the result and uses the ID again at once may be told "already running".

Met while modelling, and not made runs of:

* `gwz --all repo sync ""` ends with a traceback. `validate_args` (`cli_shared.py:463`) and
  the handler (`cli_read.py:239`) test the operand for truth, and let an empty one pass;
  `Client.repo_sync` (`client.py:758`) tests for `None`, and its `ValueError` is one that
  `main` does not catch. `RefusalIsClean` says that this is the only command line that reaches
  a `ValueError`, and that it has asked nothing of the workspace.
* `materialize --snapshot ""`, `--tag ""` and `--switch ""` materialize the lock,
  `pull --snapshot ""` pulls heads, `branch --create x --from ""` starts from HEAD, `clone URL ""`
  takes its name from the URL. `RequestIsFaithful` says that these requests are those without
  the option, and that nothing else that was given is dropped.
* a diff whose records core dropped before they were read (`expired`), or whose output
  it closed, ends with the exit status of a whole one (`client.py:1243-1255`);
  `tests/test_client_diff.py:198` has it so. `OutputIsWhole` names the case.
* the identity options are not checked against core's capabilities for a merge's stream and
  for a log (`ClientInOrder` names them as exceptions), though
  `docs/Migration-1.1.0-DRAFT.md:97` says that an identity option "is checked against
  `file_identity` before the request is sent".
* a rejected response that is not rendered exits 1 (`ErrorExitCode("operation")`), though
  `cli_shared.py:552` says that a refusal exits 2; and an error that a log meets while it
  reads or releases exits 2 when its code is none of a failed execution
  (`cli_log.py:371-375`), though the log ran and has written. `ExitIsTrue` therefore says what
  an exit status of 2 means, and not that every refusal has it.

Behaviour the models keep though a reader may be surprised by it: `gwz --root R init URL`
makes its workspace in the current directory (`Overridden`); `branch --merge REF --remote X`
leaves the remote in the merge's policy, where `merge --remote` has it as a field; an error
of `log --json` after its first chunk writes a second document; a broken standard output is
minded by `log` only; an interrupt in the call that makes a log output loses its spool, and
a diff whose write to either standard stream fails leaves its reader stream to the end of the
process (`OutputIsGivenBack` names all three); a push by hand after a run without `--push` may
land the tag and not the branch (`alone`); a close that fails turns a success into an error.

## Proofs

Eight modules, each around its inductive invariant. The properties themselves
are not inductive: each needs to know what a thread relies on at each of its
steps.

**HostOperationsProofs.** `IInv` = `TypeOK`, `TicketsOwnLive`, `SlotLimit` and
three facts: `TicketHistory` (which serials have been given out, which tickets
were admitted), `ClosedAreCancelled` (a close marks all that is live, and
nothing becomes live after), `CancelMarks` (an operation whose cancel answered
"waiting" is still marked, or gone). `SlotLimit` relates a count to the
cardinality of a set, so `End` needs `TicketHistory` to know that it frees a slot
only if it held one; that also makes `running` never pass below zero, which
`TypeOK` says. `CancelledWaitingNeverRuns` follows since admission refuses a
marked entry and `TicketsOwnLive` makes the entry the operation's own. Assumed:
the constants' types, `LIMIT > 0`, finitely many IDs. Theorems: `Invariance`,
`TypeCorrectness`, `Limited`, `Ownership`, `CancelledWaiting`,
`ClosedStartsNothing`.

**HostAnswersProofs.** What calls of the host are told, over the same `IInv`. For each kind of
step one lemma says all that it does (`RegisterEffect`, `EndEffect`, `GrantEffect`, `LookEffect`,
`CallEffect`); from them follow five invariants. `CloseInv`: until the one first close makes
its report there is none, each answer of a close is that report, and the hook is gone only when
nothing is live in a closing host, which nothing can make busy again (`ReportsAgree`,
`HookIsKept`). `ConfirmInv`: the aggregate's counts speak for the cleanups of the operations that have ended,
and a report that confirms was made when nothing was live, so that nothing is counted after it
(`ReportsAreSound`). `AimInv`: the locals of a cancel name an operation that it found running on
the transport, those of a close only such operations. `AnswerInv`: an operation that a cancel
waits for is marked until it ends; the cleanup it then leaves is recorded, unless the bounded record
has had to let it go, and what the record has under a serial is that operation's own
(`CancelsAreAimed`). `WakeInv`: whoever sleeps is at one of the four waits, and a step that gives a
sleeper something to do leaves its thread at a notify (`NoWakeupIsLost`).

**HostSlotsProofs.** `Refinement`: `HostOperations` implements `NetworkSlots`. The mapping
reads an operation's life off its thread's `pc`; a step is mapped to one step of the promise
or to a stutter. Needed beside `IInv`: `WaitingIsFinal`, that a cancel's answer "waiting" and
the operation it was given for do not change once given, so that `denied` only grows. The
step lemmas are one per abstract action: registering needs `TicketsOwnLive` (the ID is free in
the map, so nothing that is waiting or running has it), starting needs `SlotLimit` and
`CancelledWaitingNeverRuns`.

**OperationRecordsProofs.** Two invariants, one after the other. `WriterInv` says
which outcome, stage and clones go together (`RecordOK`: while an operation runs
its record is live and "worker" holds a clone; a record whose operation has
ended is not live; only a submit's record may be waiting for a failed spawn to
be reported). One lemma per action shows that it is a `WriterStep`: a step of
one record that leaves it in order. `ReaderInv` says what a reader has seen of
the one record it looked up (`SeenOf`: events 0 to next-1, and all of them once it is past its rounds) and
that one asleep has nothing to do or a notify to come (`SleepOK`). Its
writer-side half is one fact, `Grown`: records only gain events and outcomes, and
each change leaves a notify pending. Theorems: `RecordsInvariance`,
`ReadersInvariance`, `TypeCorrectness`, `OutcomesAreOne`, `OutcomesStand`,
`LiveAreCurrent`, `LiveHaveWriters`, `SpawnFailures`, `StreamsAreWhole`,
`ResponsesAreSeen`, `NoLostWakeup`, and the checked properties they make up,
`OutcomesAreSure`, `LiveAreHeld`, `NothingMissed`. Assumed: the bounds are numbers.

`RecordsRefinement`: `OperationRecords` implements `OperationOutcomes`. A `Begin` is the promise's,
a delivered event its `Deliver`, the first outcome its `End`, a lookup its `Ask` and the return
of a result its `Tell`. Needed of the invariants: a writer's step gives a live record one event or
one outcome (`Written`), an ID names nothing or what has begun, and a reader that has not
returned has no answer.

**BridgeCallsProofs.** `IInv` = `TypeOK` and, for each task, `TaskOK` (which kind of
call, program counter, outcome, job and operation belong together: for one, an
outcome of a shielded call other than a refusal means that its job has ended) and
`CloseOK` (what closes returned is what is kept). `CallsAreJoined` follows from
the first since an operation of a call is live only while its job waits. Every
action is a `TaskStep` or a `NativeStep` of one task, two lemmas that leave all
other tasks in order. Theorems: `Invariance`, `TypeCorrectness`, `CallsJoined`, `OneReport`,
`CancelledCloseReports`, and `ClosesAreOne`, which is both of the last. Assumed: finitely many
tasks, `None` no number and no task.

**SubmittedOperationsProofs.** `IInv` = `TypeOK` and, for each operation, what its `pc` says
of its outcome and of what its caller was told (`Coherent`), that it owns the entry of its ID
in its host exactly while it has a Ticket (`Owned`, `Entries`), and that a live record is the one
its ID names (`Current`); then `Marks`: a denied operation was cancelled and never admitted, a
quiet host is closing and knows nothing. One lemma shows that a step
of an operation's threads leaves the others alone (`Step`), one each is about `begin`, entering,
the marks of cancels and closes. Theorems: `Invariance`, `TypeCorrectness`, `OneStoryIsTold`,
`SlotsRefinement`, `StoreRefinement`, and `BothArePromised`, which is both: each host keeps the promise
of `NetworkSlots` though hosts and operations share the store, and the store that of
`OperationOutcomes` whichever hosts its operations come through. In the first the count of who runs is
a set of this host's operations, equal to the abstract set of running ones. In the second each step
leaves the records alone, begins one under a free ID or ends a live one (`RecordsMove`), and
an ID names only what has begun (`NamedHaveBegun`). Assumed: LIMIT is positive, `None` is none of the names.

**CommandLineProofs.** `CommandInv` has five parts: `TypeOK`; `PathInv`, which client, which
exceptions and which commands there can be at each `pc`, and which checks a command has passed;
`AskedInv`, that what was asked is the timeout, the question, then the request, and that
nothing but controls was asked before; `CodeInv`, what a decided exit status rests on;
`OutputInv`, what has been written when nothing went wrong and who holds an output. Two facts
about the handlers carry it, whatever the options: `RequestPaths` (a log and only a log goes the
log's way, a diff is a call, and neither is a request whose failure is rendered) and
`ChecksCover` (what a client method would refuse, the parser, `validate_args` or the handler
has refused before, but for an empty operand of `repo sync` beside a selection). A third, `WantedIsFaithful`, goes through the handlers one by one: for any
set of options that passed the checks, the handler's request carries every option that is not
consumed, overridden or given empty (`NothingDropped`) and is the one made without the empty
values (`EmptyIgnored`), and `Accepted` is what the checks leave of it: a
handler that reads one of two options relies on the parser or on its own check to have refused
the other. `FaithInv` says that whatever was asked of the workspace was asked for accepted
options; with it every request ever made is faithful. Theorems: `CommandInvariance`,
`CommandTypeCorrectness`, `RefusalsAreClean`, `RequestsAreFaithful`, `ExitsAreTrue`,
`OutputsAreSound`, `ClientsAreInOrder`, for every set of offered options and outputs of any
length. Assumed: the bounds are numbers.

**ReleaseProofs.** `IInv` = `TypeOK`, `BranchesAreChecked` (a release commit got
onto a branch only after its checks), `RunIsOn` (what a run holds in its locals
at each step: the head it started from is still the branch's, the target extends
it and is checked before it is committed, the tag is on the branch before it is
pushed), `TagsAreChecked` and `TagsAreOnRelease`. The last needs prefixes to
compose: what a push leaves on origin extends what the tags were on; one by hand moves the
branch forward or not at all, and brings a tag that is on no origin's branch only into
`alone` (`PushByHandStep`). `BranchInv` goes on from
there: during a run the branch is where the run found it, a bootstrap's, or, once the run has
committed or comes to push, on a commit that passed; a tidy end leaves no bootstrap's behind; and
origin's branch, which a clone may take over, ends in a commit that passed. Theorems:
`Invariance`, `TypeCorrectness`, `ReleasesAreChecked`, `OriginIsWhole`,
`TagsNeverMove`, `BranchIsSafe`. Assumed: `None` is no version and no history.

**Only model-checked.** Liveness (`OperationsLeave`, `EveryCallReturns`, `EveryReaderReturns`,
`CloseAndCancelReturn`, `EveryTaskEnds`, `EveryRecordEnds`, `ReleaseGetsOut`) and anything
about ENABLED, which TLAPS does not reach; and the three properties that the code
contradicts.

## Not modelled

gwz-core: its handlers succeed, fail or panic, its routes clean up or not. What
is in requests, events and responses beyond the options that decide it, and how they are
encoded. The layout of what the command line prints; what argparse prints of its own; and the
notes of the native transport, which `cli_notices` writes to standard error whenever they come,
and what follows when one of those writes fails. `init --path ""` is no case of its own, "" being the
default. The process-wide memory of the store
(records are never dropped). Mutex poisoning, except that a panic under a lock does not occur
in what is modelled. A route's capture of the environment and the note sink's exit gate: what
they race with is the finalization of the interpreter, which is not in this repository. Who
holds the GIL: every blocking read of `lib.rs` gives it up around its wait, one by one, which
is a matter of reading rather than of interleavings. A `Client` that several tasks use
at once is `BridgeCalls`; there is no second client in a `gwz` process. The scripts that check the protocol
and build the package run once, alone, over files.

## Plan

1. An abstract specification of releases, the tags and branches of clones and origin without the
   steps of a run, and a proof that `Release` implements it.
2. `Interpreter`, should the extension come to read without releasing the GIL, or the note sink be
   reworked.

----------------------------- MODULE BridgeCalls -----------------------------
(***************************************************************************)
(* The native calls of the Python bridge, src/gwz/bridge.py: asyncio tasks *)
(* that can be cancelled at any await, over the limited threads of the     *)
(* loop's default executor and over the native host, of which this module  *)
(* keeps what decides when a native call returns.                          *)
(*                                                                         *)
(* A task makes one call of the bridge.  Its native function runs as a job *)
(* on an executor thread, or on a thread of its own:                       *)
(*   call, submit  _run_native, of a network operation                     *)
(*   local         _run_native, of any other: it waits for no slot         *)
(*   read          operation_result, of the operation of another task      *)
(*   cancel        cancel_operation, of the operation of another task      *)
(*   close         close                                                   *)
(***************************************************************************)
EXTENDS Naturals, Sequences, FiniteSets

CONSTANTS
  Tasks,    \* the asyncio tasks
  Executor, \* how many threads the default executor has
  LIMIT,    \* slots of the native host
  None

ASSUME BridgeAssumption ==
  /\ IsFiniteSet(Tasks)
  /\ Executor \in Nat \ {0}
  /\ LIMIT \in Nat \ {0}
  /\ None \notin Nat \cup Tasks

Network  == {"call", "submit"}
Shielded == {"call", "submit", "local", "close"}
Aimed    == {"read", "cancel"}
Kinds    == Shielded \cup Aimed

VARIABLES
  \* The bridge and its tasks, which one event loop runs.
  task,     \* task[t]: the kind of its call, the task it is aimed at, its answer
  pc,
  closed,   \* NativeCoreBridge._closed
  kept,     \* NativeCoreBridge._close_result
  \* Native calls.
  job,      \* job[t]: how far the native function of t has come
  queue,    \* the jobs that wait for an executor thread
  answer,   \* answer[t]: the report that the job of a close returned
  \* The native host.
  op,       \* op[t]: the network operation that t registered
  marked,   \* the operations that were cancelled
  closing,
  report    \* the first close's report: how many were unfinished

bridge == <<task, pc, closed, kept>>
host   == <<op, marked, closing, report>>
vars   == <<bridge, job, queue, answer, host>>

\* Mutated ownThread: close and cancel queue for an executor thread.
ownThread_None(k) == FALSE

\* _on_own_thread
ownThread(k) == k \in {"cancel", "close"}

\* The jobs that hold an executor thread.
Held == {t \in Tasks : job[t] \in {"started", "waits"} /\ ~ownThread(task[t].kind)}

Live == {t \in Tasks : op[t] \in {"waiting", "running"}}

Init ==
  /\ task = [t \in Tasks |-> [kind |-> "none", target |-> None, outcome |-> "none",
                              report |-> None]]
  /\ pc = [t \in Tasks |-> "idle"]
  /\ closed = FALSE
  /\ kept = None
  /\ job = [t \in Tasks |-> "none"]
  /\ queue = <<>>
  /\ answer = [t \in Tasks |-> None]
  /\ op = [t \in Tasks |-> "none"]
  /\ marked = {}
  /\ closing = FALSE
  /\ report = None

Move(t, from, to) == job[t] = from /\ job' = [job EXCEPT ![t] = to]

-----------------------------------------------------------------------------
(* Tasks: the event loop's steps, each from one await to the next.          *)

\* _ensure_open, which only call and submit ask.
refuses(k) == closed /\ k \in Shielded \ {"close"}

CallRefused(t, k) ==
  /\ pc[t] = "idle" /\ refuses(k)
  /\ pc' = [pc EXCEPT ![t] = "done"]
  /\ task' = [task EXCEPT ![t].kind = k, ![t].outcome = "refused"]
  /\ UNCHANGED <<closed, kept, job, queue, answer, host>>

Call(t, k, u) ==
  /\ pc[t] = "idle" /\ ~refuses(k)
  /\ u # None <=> k \in Aimed
  /\ pc' = [pc EXCEPT ![t] = "awaits"]
  /\ task' = [task EXCEPT ![t].kind = k, ![t].target = u]
  /\ closed' = (closed \/ k = "close")
  /\ IF ownThread(k) THEN Move(t, "none", "started") /\ UNCHANGED queue
                     ELSE Move(t, "none", "queued") /\ queue' = Append(queue, t)
  /\ UNCHANGED <<kept, answer, host>>

\* _keep_close_report: the first report is every close's.
keep(mine) == IF kept = None THEN mine ELSE kept

\* Mutated keepsCancelled: a close that was cancelled drops its report.
keepsCancelled_No == FALSE

keepsCancelled == TRUE

\* The task goes on with what its native call returned.
Return(t) ==
  /\ pc[t] = "awaits" /\ job[t] = "ended"
  /\ pc' = [pc EXCEPT ![t] = "done"]
  /\ task' = [task EXCEPT ![t].outcome = "result", ![t].report = keep(answer[t])]
  /\ kept' = IF task[t].kind = "close" THEN keep(answer[t]) ELSE kept
  /\ UNCHANGED <<closed, job, queue, answer, host>>

\* Mutated joins: a second cancellation gets through _await_completion.
joins_Once(t) == task[t].kind \in Shielded /\ pc[t] = "awaits"

\* A cancelled task of a shielded call waits on, however often it is cancelled.
joins(t) == task[t].kind \in Shielded

\* Task.cancel.  The native function of a read that is still queued will never
\* run; one that has started goes on without its task.
Cancelled(t) ==
  /\ pc[t] \in {"awaits", "joins"}
  /\ pc' = [pc EXCEPT ![t] = IF joins(t) THEN "joins" ELSE "done"]
  /\ IF joins(t) THEN UNCHANGED <<task, job>>
     ELSE /\ task' = [task EXCEPT ![t].outcome = "cancelled"]
          /\ job' = [job EXCEPT ![t] = IF @ = "queued" THEN "dropped" ELSE @]
  /\ UNCHANGED <<closed, kept, queue, answer, host>>

\* Its native call has returned, and the task raises its cancellation.
JoinEnds(t) ==
  /\ pc[t] = "joins" /\ job[t] = "ended"
  /\ pc' = [pc EXCEPT ![t] = "done"]
  /\ task' = [task EXCEPT ![t].outcome = "cancelled"]
  /\ kept' = IF task[t].kind = "close" /\ keepsCancelled
             THEN keep(answer[t]) ELSE kept
  /\ UNCHANGED <<closed, job, queue, answer, host>>

-----------------------------------------------------------------------------
(* Jobs.                                                                    *)

\* An executor thread is free for the next job, and skips a cancelled one.
Run(t) ==
  /\ queue # <<>> /\ Head(queue) = t
  /\ Cardinality(Held) < Executor
  /\ job' = [job EXCEPT ![t] = IF @ = "queued" THEN "started" ELSE @]
  /\ queue' = Tail(queue)
  /\ UNCHANGED <<bridge, answer, host>>

\* A local call runs, with no bound.
LocalEnds(t) ==
  /\ task[t].kind = "local" /\ Move(t, "started", "ended")
  /\ UNCHANGED <<bridge, queue, answer, host>>

\* A closing host refuses a job that its task queued before the close.
RegisterRefused(t) ==
  /\ task[t].kind \in Network /\ closing
  /\ Move(t, "started", "ended")
  /\ UNCHANGED <<bridge, queue, answer, host>>

\* A submit returns at once, and its operation has a thread of its own; a call
\* waits for its slot on the executor's thread.
Register(t) ==
  /\ task[t].kind \in Network /\ ~closing
  /\ Move(t, "started", IF task[t].kind = "call" THEN "waits" ELSE "ended")
  /\ op' = [op EXCEPT ![t] = "waiting"]
  /\ UNCHANGED <<bridge, queue, answer, marked, closing, report>>

Admit(t) ==
  /\ op[t] = "waiting" /\ t \notin marked
  /\ Cardinality({u \in Tasks : op[u] = "running"}) < LIMIT
  /\ op' = [op EXCEPT ![t] = "running"]
  /\ UNCHANGED <<bridge, job, queue, answer, marked, closing, report>>

\* The operation ends, and the job of a call with it.
OperationEnds(t, from) ==
  /\ op[t] = from
  /\ op' = [op EXCEPT ![t] = "ended"]
  /\ job' = [job EXCEPT ![t] = "ended"]
  /\ UNCHANGED <<bridge, queue, answer, marked, closing, report>>

AdmitRefused(t) == t \in marked /\ OperationEnds(t, "waiting")

Finish(t) == OperationEnds(t, "running")

\* Mutated readReturns: a read waits for an operation that nobody registered.
readReturns_Ended(u) == op[u] = "ended"

\* operation_result waits for the outcome of an operation it finds.
readReturns(u) == op[u] \in {"none", "ended"}

Read(t) ==
  /\ task[t].kind = "read" /\ readReturns(task[t].target)
  /\ Move(t, "started", "ended")
  /\ UNCHANGED <<bridge, queue, answer, host>>

\* Only a running operation's cancel waits, until it ends or the bound passes.
CancelMarks(t) ==
  LET u == task[t].target IN
  /\ task[t].kind = "cancel"
  /\ Move(t, "started", IF op[u] = "running" THEN "waits" ELSE "ended")
  /\ marked' = IF u \in Live THEN marked \cup {u} ELSE marked
  /\ UNCHANGED <<bridge, queue, answer, op, closing, report>>

CancelReturns(t) ==
  /\ task[t].kind = "cancel" /\ Move(t, "waits", "ended")
  /\ UNCHANGED <<bridge, queue, answer, host>>

CloseMarks(t) ==
  /\ task[t].kind = "close" /\ Move(t, "started", IF closing THEN "later" ELSE "first")
  /\ closing' = TRUE
  /\ marked' = marked \cup Live
  /\ UNCHANGED <<bridge, queue, answer, op, report>>

\* Once nothing is live, or its bound has passed, the first close reports what
\* is left.
CloseReports(t) ==
  /\ Move(t, "first", "ended")
  /\ report' = Cardinality(Live)
  /\ answer' = [answer EXCEPT ![t] = Cardinality(Live)]
  /\ UNCHANGED <<bridge, queue, op, marked, closing>>

\* Mutated laterReport: a later close does not look whether there is a report.
laterReport_Unset == report

laterReport == IF report = None THEN Cardinality(Live) ELSE report

\* A later close returns that report, or what is left when its own bound passes.
CloseJoins(t) ==
  /\ Move(t, "later", "ended")
  /\ answer' = [answer EXCEPT ![t] = laterReport]
  /\ UNCHANGED <<bridge, queue, host>>

-----------------------------------------------------------------------------
Continue(t) == Return(t) \/ JoinEnds(t)

Native(t) ==
  \/ RegisterRefused(t) \/ Register(t) \/ Read(t)
  \/ CancelMarks(t) \/ CancelReturns(t)
  \/ CloseMarks(t) \/ CloseReports(t) \/ CloseJoins(t)

Begin(t) ==
  \E k \in Kinds :
    CallRefused(t, k) \/ \E u \in (Tasks \ {t}) \cup {None} : Call(t, k, u)

Next ==
  \E t \in Tasks :
    \/ Begin(t) \/ Cancelled(t) \/ Continue(t)
    \/ Run(t) \/ Native(t) \/ LocalEnds(t)
    \/ Admit(t) \/ AdmitRefused(t) \/ Finish(t)

Spec == Init /\ [][Next]_vars

\* The loop and the threads go on, and the bound of a close or cancel passes.
\* How long gwz-core runs an operation nothing here bounds.
Fairness ==
  \A t \in Tasks :
    /\ WF_vars(Continue(t)) /\ WF_vars(Run(t)) /\ WF_vars(Native(t))
    /\ WF_vars(Admit(t)) /\ WF_vars(AdmitRefused(t))

FairSpec == Spec /\ Fairness
=============================================================================

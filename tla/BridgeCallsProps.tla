-------------------------- MODULE BridgeCallsProps --------------------------
(***************************************************************************)
(* What BridgeCalls promises: cancelled tasks that leave no native call    *)
(* behind, one report of the close, and calls that return.                 *)
(***************************************************************************)
EXTENDS BridgeCalls

Jobs == {"none", "queued", "dropped", "started", "waits", "first", "later", "ended"}
Outcomes == {"none", "refused", "result", "cancelled"}
Reports == Nat \cup {None}

\* Every variable has its type, and the native function of a close returns a
\* report.
TypeOK ==
  /\ task \in [Tasks -> [kind : Kinds \cup {"none"}, target : Tasks \cup {None},
                         outcome : Outcomes, report : Reports]]
  /\ pc \in [Tasks -> {"idle", "awaits", "joins", "done"}]
  /\ closed \in BOOLEAN /\ closing \in BOOLEAN
  /\ kept \in Reports /\ report \in Reports
  /\ job \in [Tasks -> Jobs]
  /\ queue \in Seq(Tasks)
  /\ answer \in [Tasks -> Reports]
  /\ op \in [Tasks -> {"none", "waiting", "running", "ended"}]
  /\ marked \subseteq Tasks
  /\ \A t \in Tasks :
       task[t].kind = "close" /\ job[t] = "ended" => answer[t] \in Nat

\* "Keep waiting for a native worker through repeated caller cancellation":
\* a call, submit or close that is over, cancelled or not, has left no native
\* function queued or running, and a call no operation.
CallsAreJoined ==
  \A t \in Tasks :
    pc[t] = "done" /\ task[t].kind \in Shielded /\ task[t].outcome # "refused" =>
      /\ job[t] = "ended"
      /\ task[t].kind = "call" => op[t] \in {"none", "ended"}

\* "every later close returns it": however native closes overlap, time out and
\* report what was left at their own time, the bridge's closes return one
\* report, which close_report keeps.
ClosesAgree ==
  \A t \in Tasks :
    task[t].kind = "close" /\ task[t].outcome = "result" =>
      kept # None /\ task[t].report = kept

\* A close that was cancelled has kept its report, "then honour the caller's
\* cancellation".
CancelledCloseIsKept ==
  \A t \in Tasks :
    task[t].kind = "close" /\ task[t].outcome = "cancelled" => kept # None

\* A bridge's closes, cancelled or not, share one report.
CloseReportIsOne == ClosesAgree /\ CancelledCloseIsKept

\* Close and cancel return although every executor thread is held by calls that
\* wait for slots, and by reads, and no running operation ever ends.
CloseAndCancelReturn ==
  \A t \in Tasks : task[t].kind \in {"cancel", "close"} ~> pc[t] = "done"

\* gwz-core is at work for nobody.
Quiet ==
  \A t \in Tasks : op[t] # "running" /\ ~(task[t].kind = "local" /\ job[t] = "started")

\* If what gwz-core runs ends, as each task starts one run of it at most, every
\* task of the bridge ends: calls, and readers of operations that wait, share
\* the executor's threads and never wait for each other in a ring.
EveryTaskEnds == []<>Quiet => \A t \in Tasks : pc[t] # "idle" ~> pc[t] = "done"
=============================================================================

-------------------------- MODULE BridgeCallsProofs --------------------------
(***************************************************************************)
(* Proofs about BridgeCalls, for any number of tasks, executor threads and *)
(* slots: cancelled calls leave nothing behind, and closes agree.          *)
(***************************************************************************)
EXTENDS BridgeCallsProps, FiniteSetTheorems, TLAPS

\* How a task's program counter, its native function and its operation belong
\* together.
TaskOK(t) ==
  LET k == task[t].kind
      outcome == task[t].outcome
  IN
  /\ pc[t] = "idle" <=> k = "none"
  /\ pc[t] \in {"idle", "awaits", "joins"} <=> outcome = "none"
  /\ job[t] = "none" <=> pc[t] = "idle" \/ outcome = "refused"
  /\ pc[t] = "joins" => k \in Shielded
  /\ k \in Shielded /\ outcome \in {"result", "cancelled"} => job[t] = "ended"
  /\ op[t] # "none" => k \in Network /\ job[t] \in {"waits", "ended"}
  /\ k = "call" /\ op[t] \in {"waiting", "running"} => job[t] = "waits"
  /\ k \in Aimed /\ pc[t] # "done" => job[t] # "dropped"
  /\ job[t] = "dropped" => k \in Aimed
  /\ job[t] \in {"first", "later"} => k = "close"

\* What closes return, and what a job of one leaves for them.
CloseOK(t) ==
  task[t].kind = "close" =>
    /\ task[t].outcome = "result" => kept # None /\ task[t].report = kept
    /\ task[t].outcome = "cancelled" => kept # None

IInv == TypeOK /\ \A t \in Tasks : TaskOK(t) /\ CloseOK(t)

LEMMA InitInvariant == Init => IInv
<1> SUFFICES ASSUME Init
             PROVE  IInv
  OBVIOUS
<1>1. TypeOK
  <2>1. task \in [Tasks -> [kind : Kinds \cup {"none"}, target : Tasks \cup {None},
                           outcome : Outcomes, report : Reports]]
    BY DEF Init, Outcomes, Reports
  <2>2. queue \in Seq(Tasks) /\ marked \subseteq Tasks
    BY DEF Init
  <2>3. \A t \in Tasks : task[t].kind # "close"
    BY DEF Init
  <2> QED
    BY <2>1, <2>2, <2>3 DEF Init, TypeOK, Jobs, Reports
<1>2. \A t \in Tasks : TaskOK(t) /\ CloseOK(t)
  BY DEF Init, TaskOK, CloseOK, Shielded, Kinds, Network, Aimed
<1> QED
  BY <1>1, <1>2 DEF IInv

-----------------------------------------------------------------------------
(* The event loop's steps.                                                  *)

\* A step of the task t that gives it the record "new" and touches the kept
\* report only while there is none.
LEMMA TaskStep ==
  ASSUME IInv, NEW t \in Tasks,
         NEW new \in [kind : Kinds \cup {"none"}, target : Tasks \cup {None},
                      outcome : Outcomes, report : Reports],
         NEW at \in {"idle", "awaits", "joins", "done"}, NEW to \in Jobs,
         task' = [task EXCEPT ![t] = new], pc' = [pc EXCEPT ![t] = at],
         job' = [job EXCEPT ![t] = to],
         closed' \in BOOLEAN, kept' \in Reports, kept # None => kept' = kept,
         queue' \in Seq(Tasks), UNCHANGED <<answer, host>>,
         TaskOK(t)', CloseOK(t)',
         new.kind = "close" /\ to = "ended" => answer[t] \in Nat
  PROVE  IInv'
<1>1. TypeOK'
  BY DEF IInv, TypeOK, host
<1>2. ASSUME NEW u \in Tasks
      PROVE  TaskOK(u)' /\ CloseOK(u)'
  <2>1. CASE u = t
    BY <2>1
  <2>2. CASE u # t
    <3>1. /\ task'[u] = task[u] /\ pc'[u] = pc[u] /\ job'[u] = job[u] /\ op'[u] = op[u]
          /\ TaskOK(u) /\ CloseOK(u)
      BY <2>2 DEF IInv, TypeOK, host
    <3> QED
      BY <3>1 DEF TaskOK, CloseOK
  <2> QED
    BY <2>1, <2>2
<1> QED
  BY <1>1, <1>2 DEF IInv

\* What IInv says of one task.
LEMMA OfTask ==
  ASSUME IInv, NEW t \in Tasks
  PROVE  /\ task[t] \in [kind : Kinds \cup {"none"}, target : Tasks \cup {None},
                         outcome : Outcomes, report : Reports]
         /\ pc[t] \in {"idle", "awaits", "joins", "done"} /\ job[t] \in Jobs
         /\ answer[t] \in Reports /\ op[t] \in {"none", "waiting", "running", "ended"}
         /\ task[t].kind = "close" /\ job[t] = "ended" => answer[t] \in Nat
         /\ TaskOK(t) /\ CloseOK(t)
         /\ closed \in BOOLEAN /\ kept \in Reports /\ queue \in Seq(Tasks)
  BY DEF IInv, TypeOK

LEMMA CallRefusedStep ==
  ASSUME IInv, NEW t \in Tasks, NEW k \in Kinds, CallRefused(t, k)
  PROVE  IInv'
<1> DEFINE new == [task[t] EXCEPT !.kind = k, !.outcome = "refused"]
<1>1. /\ new \in [kind : Kinds \cup {"none"}, target : Tasks \cup {None},
                  outcome : Outcomes, report : Reports]
      /\ new.kind = k /\ new.outcome = "refused"
  BY OfTask DEF Outcomes
<1>2. /\ task' = [task EXCEPT ![t] = new] /\ pc' = [pc EXCEPT ![t] = "done"]
      /\ job' = [job EXCEPT ![t] = "none"] /\ op[t] = "none" /\ job[t] = "none"
      /\ k # "close" /\ k # "none" /\ pc[t] = "idle"
      /\ closed' = closed /\ kept' = kept /\ queue' = queue /\ UNCHANGED <<answer, host>>
  BY OfTask DEF CallRefused, IInv, TypeOK, TaskOK, refuses, Kinds, Shielded, Aimed, Network
<1> HIDE DEF new
<1>3. /\ task'[t] = new /\ pc'[t] = "done" /\ job'[t] = "none" /\ op'[t] = "none"
  BY <1>2 DEF IInv, TypeOK, host
<1>4. TaskOK(t)' /\ CloseOK(t)'
  BY <1>1, <1>2, <1>3 DEF TaskOK, CloseOK
<1> QED
  BY <1>1, <1>2, <1>4, OfTask, TaskStep DEF Jobs

LEMMA CallStep ==
  ASSUME IInv, NEW t \in Tasks, NEW k \in Kinds,
         NEW u \in (Tasks \ {t}) \cup {None}, Call(t, k, u)
  PROVE  IInv'
<1> DEFINE new == [task[t] EXCEPT !.kind = k, !.target = u]
           to  == IF ownThread(k) THEN "started" ELSE "queued"
<1>1. /\ new \in [kind : Kinds \cup {"none"}, target : Tasks \cup {None},
                  outcome : Outcomes, report : Reports]
      /\ new.kind = k /\ new.outcome = task[t].outcome
  BY OfTask
<1>2. /\ task' = [task EXCEPT ![t] = new] /\ pc' = [pc EXCEPT ![t] = "awaits"]
      /\ job' = [job EXCEPT ![t] = to] /\ op[t] = "none" /\ task[t].outcome = "none"
      /\ k # "none" /\ closed' \in BOOLEAN /\ kept' = kept
      /\ queue' \in Seq(Tasks) /\ UNCHANGED <<answer, host>>
  <2>1. pc[t] = "idle" /\ op[t] = "none" /\ task[t].outcome = "none" /\ k # "none"
    BY OfTask DEF Call, TaskOK, Kinds, Shielded, Aimed, Network
  <2>2. task' = [task EXCEPT ![t] = new] /\ pc' = [pc EXCEPT ![t] = "awaits"]
    BY OfTask DEF Call, IInv, TypeOK
  <2>3. job' = [job EXCEPT ![t] = to] /\ (queue' = queue \/ queue' = Append(queue, t))
    BY DEF Call, Move
  <2>4. queue' \in Seq(Tasks)
    BY <2>3, OfTask
  <2>5. closed' \in BOOLEAN /\ kept' = kept /\ UNCHANGED <<answer, host>>
    BY OfTask DEF Call
  <2> QED
    BY <2>1, <2>2, <2>3, <2>4, <2>5
<1>3. to \in {"started", "queued"}
  OBVIOUS
<1> HIDE DEF new, to
<1>4. /\ task'[t] = new /\ pc'[t] = "awaits" /\ job'[t] = to /\ op'[t] = "none"
  BY <1>2 DEF IInv, TypeOK, host
<1>5. TaskOK(t)' /\ CloseOK(t)'
  BY <1>1, <1>2, <1>3, <1>4 DEF TaskOK, CloseOK
<1> QED
  BY <1>1, <1>2, <1>3, <1>5, OfTask, TaskStep DEF Jobs

LEMMA ReturnStep ==
  ASSUME IInv, NEW t \in Tasks, Return(t)
  PROVE  IInv'
<1> DEFINE new == [task[t] EXCEPT !.outcome = "result", !.report = keep(answer[t])]
<1>1. keep(answer[t]) \in Reports
  BY OfTask DEF keep
<1>2. /\ new \in [kind : Kinds \cup {"none"}, target : Tasks \cup {None},
                  outcome : Outcomes, report : Reports]
      /\ new.kind = task[t].kind /\ new.outcome = "result"
      /\ new.report = keep(answer[t])
  BY <1>1, OfTask DEF Outcomes
<1>3. /\ task' = [task EXCEPT ![t] = new] /\ pc' = [pc EXCEPT ![t] = "done"]
      /\ job' = [job EXCEPT ![t] = "ended"] /\ job[t] = "ended" /\ pc[t] = "awaits"
      /\ closed' = closed /\ queue' = queue /\ UNCHANGED <<answer, host>>
  BY OfTask DEF Return, IInv, TypeOK
<1>4. /\ kept' \in Reports /\ (kept # None => kept' = kept)
      /\ task[t].kind = "close" => kept' # None /\ kept' = keep(answer[t])
  BY <1>1, <1>3, OfTask, BridgeAssumption DEF Return, keep
<1> HIDE DEF new
<1>5. /\ task'[t] = new /\ pc'[t] = "done" /\ job'[t] = "ended" /\ op'[t] = op[t]
  BY <1>3 DEF IInv, TypeOK, host
<1>6. TaskOK(t)' /\ CloseOK(t)'
  BY <1>2, <1>3, <1>4, <1>5, OfTask DEF TaskOK, CloseOK
<1> QED
  BY <1>2, <1>3, <1>4, <1>6, OfTask, TaskStep DEF Jobs

LEMMA CancelledStep ==
  ASSUME IInv, NEW t \in Tasks, Cancelled(t)
  PROVE  IInv'
<1>1. CASE joins(t)
  <2> DEFINE new == task[t]
             to == job[t]
  <2>1. /\ task' = [task EXCEPT ![t] = new] /\ pc' = [pc EXCEPT ![t] = "joins"]
        /\ job' = [job EXCEPT ![t] = to] /\ pc[t] \in {"awaits", "joins"}
        /\ closed' = closed /\ kept' = kept /\ queue' = queue
        /\ UNCHANGED <<answer, host>> /\ new.kind \in Shielded
    BY <1>1 DEF Cancelled, joins, IInv, TypeOK
  <2>2. /\ task'[t] = new /\ pc'[t] = "joins" /\ job'[t] = to /\ op'[t] = op[t]
    BY <2>1 DEF IInv, TypeOK, host
  <2>3. TaskOK(t)' /\ CloseOK(t)'
    BY <2>1, <2>2, OfTask DEF TaskOK, CloseOK
  <2> QED
    BY <2>1, <2>3, OfTask, TaskStep
<1>2. CASE ~joins(t)
  <2> DEFINE new == [task[t] EXCEPT !.outcome = "cancelled"]
             to  == IF job[t] = "queued" THEN "dropped" ELSE job[t]
  <2>1. /\ new \in [kind : Kinds \cup {"none"}, target : Tasks \cup {None},
                    outcome : Outcomes, report : Reports]
        /\ new.kind = task[t].kind /\ new.outcome = "cancelled"
    BY OfTask DEF Outcomes
  <2>2. /\ task' = [task EXCEPT ![t] = new] /\ pc' = [pc EXCEPT ![t] = "done"]
        /\ job' = [job EXCEPT ![t] = to] /\ pc[t] \in {"awaits", "joins"}
        /\ closed' = closed /\ kept' = kept /\ queue' = queue
        /\ UNCHANGED <<answer, host>>
    BY <1>2 DEF Cancelled, IInv, TypeOK
  <2>3. new.kind \in Aimed
    BY <1>2, <2>1, <2>2, OfTask DEF TaskOK, joins, Kinds
  <2>4. to \in Jobs /\ to # "none"
    BY <2>2, OfTask DEF Jobs, TaskOK
  <2>5. job[t] # "queued" => to = job[t]
    OBVIOUS
  <2>6. job[t] = "queued" => to = "dropped"
    OBVIOUS
  <2> HIDE DEF new, to
  <2>7. /\ task'[t] = new /\ pc'[t] = "done" /\ job'[t] = to /\ op'[t] = op[t]
    BY <2>2 DEF IInv, TypeOK, host
  <2>8. TaskOK(t)' /\ CloseOK(t)'
    BY <2>1, <2>2, <2>3, <2>4, <2>5, <2>6, <2>7, OfTask
       DEF TaskOK, CloseOK, Aimed, Shielded, Network
  <2> QED
    BY <2>1, <2>2, <2>3, <2>4, <2>8, OfTask, TaskStep DEF Aimed
<1> QED
  BY <1>1, <1>2

LEMMA JoinEndsStep ==
  ASSUME IInv, NEW t \in Tasks, JoinEnds(t)
  PROVE  IInv'
<1> DEFINE new == [task[t] EXCEPT !.outcome = "cancelled"]
<1>1. /\ new \in [kind : Kinds \cup {"none"}, target : Tasks \cup {None},
                  outcome : Outcomes, report : Reports]
      /\ new.kind = task[t].kind /\ new.outcome = "cancelled"
  BY OfTask DEF Outcomes
<1>2. /\ task' = [task EXCEPT ![t] = new] /\ pc' = [pc EXCEPT ![t] = "done"]
      /\ job' = [job EXCEPT ![t] = "ended"] /\ job[t] = "ended" /\ pc[t] = "joins"
      /\ closed' = closed /\ queue' = queue /\ UNCHANGED <<answer, host>>
  BY OfTask DEF JoinEnds, IInv, TypeOK
<1>3. /\ kept' \in Reports /\ (kept # None => kept' = kept)
      /\ task[t].kind = "close" => kept' # None
  <2>1. keep(answer[t]) \in Reports
    BY OfTask DEF keep
  <2>2. task[t].kind = "close" => kept' = keep(answer[t])
    BY DEF JoinEnds, keepsCancelled
  <2>3. task[t].kind # "close" => kept' = kept
    BY DEF JoinEnds
  <2> QED
    BY <1>2, <2>1, <2>2, <2>3, OfTask, BridgeAssumption DEF keep
<1> HIDE DEF new
<1>4. /\ task'[t] = new /\ pc'[t] = "done" /\ job'[t] = "ended" /\ op'[t] = op[t]
  BY <1>2 DEF IInv, TypeOK, host
<1>5. TaskOK(t)' /\ CloseOK(t)'
  BY <1>1, <1>2, <1>3, <1>4, OfTask DEF TaskOK, CloseOK
<1> QED
  BY <1>1, <1>2, <1>3, <1>5, OfTask, TaskStep DEF Jobs

-----------------------------------------------------------------------------
(* Jobs and the host.                                                       *)

LEMMA LiveCount == IInv => Cardinality(Live) \in Nat
<1>1. IsFiniteSet(Live)
  BY BridgeAssumption, FS_Subset DEF Live
<1> QED
  BY <1>1, FS_CardinalityType

\* A step of the native function of t that has started, or of its operation.
LEMMA NativeStep ==
  ASSUME IInv, NEW t \in Tasks, NEW to \in Jobs,
         NEW said \in Reports, NEW on \in {"none", "waiting", "running", "ended"},
         UNCHANGED bridge, queue' \in Seq(Tasks), job' = [job EXCEPT ![t] = to],
         answer' = [answer EXCEPT ![t] = said], op' = [op EXCEPT ![t] = on],
         marked' \subseteq Tasks, closing' \in BOOLEAN, report' \in Reports,
         TaskOK(t)', task[t].kind = "close" /\ to = "ended" => said \in Nat
  PROVE  IInv'
<1>1. TypeOK'
  BY DEF IInv, TypeOK, bridge
<1>2. ASSUME NEW u \in Tasks
      PROVE  TaskOK(u)' /\ CloseOK(u)'
  <2>1. CloseOK(u)'
    BY DEF IInv, CloseOK, bridge
  <2>2. CASE u = t
    BY <2>1, <2>2
  <2>3. CASE u # t
    <3>1. /\ task'[u] = task[u] /\ pc'[u] = pc[u] /\ job'[u] = job[u] /\ op'[u] = op[u]
          /\ TaskOK(u)
      BY <2>3 DEF IInv, TypeOK, bridge
    <3> QED
      BY <2>1, <3>1 DEF TaskOK
  <2> QED
    BY <2>2, <2>3
<1> QED
  BY <1>1, <1>2 DEF IInv

\* A job that moves on with nothing changed but, perhaps, the host's flags.
LEMMA JobStep ==
  ASSUME IInv, NEW t \in Tasks, NEW from \in Jobs, NEW to \in Jobs,
         from \notin {"none", "dropped", "ended"},
         to \notin {"none", "dropped"},
         job[t] = from, job' = [job EXCEPT ![t] = to],
         UNCHANGED <<bridge, op, report>>, queue' \in Seq(Tasks),
         marked' \subseteq Tasks, closing' \in BOOLEAN, op[t] = "none",
         to \in {"first", "later"} => task[t].kind = "close",
         NEW said \in Reports, answer' = [answer EXCEPT ![t] = said],
         task[t].kind = "close" /\ to = "ended" => said \in Nat
  PROVE  IInv'
<1>1. op' = [op EXCEPT ![t] = op[t]] /\ op'[t] = op[t] /\ job'[t] = to
  BY DEF IInv, TypeOK
<1>2. task'[t] = task[t] /\ pc'[t] = pc[t]
  BY DEF bridge
<1>3. TaskOK(t)'
  BY <1>1, <1>2, OfTask DEF TaskOK
<1>4. report' \in Reports /\ op[t] \in {"none", "waiting", "running", "ended"}
  BY OfTask DEF IInv, TypeOK
<1>5. UNCHANGED bridge
  OBVIOUS
<1> QED
  BY <1>1, <1>3, <1>4, <1>5, NativeStep

LEMMA RunStep ==
  ASSUME IInv, NEW t \in Tasks, Run(t)
  PROVE  IInv'
<1> DEFINE to == IF job[t] = "queued" THEN "started" ELSE job[t]
<1>1. queue' \in Seq(Tasks)
  <2>1. queue \in Seq(Tasks) /\ queue # <<>> /\ queue' = Tail(queue)
    BY OfTask DEF Run
  <2> QED
    BY <2>1
<1>2. /\ job' = [job EXCEPT ![t] = to] /\ UNCHANGED <<bridge, answer, host>>
      /\ answer' = [answer EXCEPT ![t] = answer[t]] /\ op' = [op EXCEPT ![t] = op[t]]
      /\ task'[t] = task[t] /\ pc'[t] = pc[t] /\ job'[t] = to /\ op'[t] = op[t]
  BY DEF Run, IInv, TypeOK, host, bridge
<1>3. to \in Jobs /\ (to = "ended" => job[t] = "ended")
  BY OfTask DEF Jobs
<1>4. job[t] = "queued" => to = "started"
  OBVIOUS
<1>5. job[t] # "queued" => to = job[t]
  OBVIOUS
<1> HIDE DEF to
<1>6. TaskOK(t)'
  BY <1>2, <1>4, <1>5, OfTask DEF TaskOK
<1>7. /\ task[t].kind = "close" /\ to = "ended" => answer[t] \in Nat
      /\ answer[t] \in Reports /\ op[t] \in {"none", "waiting", "running", "ended"}
  BY <1>3, OfTask
<1>8. marked' \subseteq Tasks /\ closing' \in BOOLEAN /\ report' \in Reports
  BY <1>2 DEF host, IInv, TypeOK
<1> QED
  BY <1>1, <1>2, <1>3, <1>6, <1>7, <1>8, NativeStep

\* The steps of a job that touch no operation, but for those of a close.
LEMMA PlainStep ==
  ASSUME IInv, NEW t \in Tasks,
         \/ LocalEnds(t)
         \/ RegisterRefused(t)
         \/ Read(t)
         \/ CancelMarks(t)
         \/ CancelReturns(t)
  PROVE  IInv'
<1>1. PICK from \in {"started", "waits"}, to \in {"waits", "ended"} : Move(t, from, to)
  BY DEF LocalEnds, RegisterRefused, Read, CancelMarks, CancelReturns
<1>2. /\ UNCHANGED <<bridge, op, report, answer, queue, closing>>
      /\ marked' \subseteq Tasks /\ task[t].kind # "close"
  <2>1. CASE CancelMarks(t)
    BY <2>1, OfTask DEF CancelMarks, IInv, TypeOK, Live
  <2>2. CASE ~CancelMarks(t)
    BY <2>2 DEF LocalEnds, RegisterRefused, Read, CancelReturns, host, Network, IInv, TypeOK
  <2> QED
    BY <2>1, <2>2
<1>3. op[t] = "none"
  BY OfTask DEF TaskOK, LocalEnds, RegisterRefused, Read, CancelMarks, CancelReturns,
                Move, Network
<1>4. answer' = [answer EXCEPT ![t] = answer[t]]
  BY <1>2 DEF IInv, TypeOK
<1>5. job[t] = from /\ job' = [job EXCEPT ![t] = to]
  BY <1>1 DEF Move
<1>6. UNCHANGED <<bridge, op, report>> /\ queue' \in Seq(Tasks) /\ closing' \in BOOLEAN
  BY <1>2 DEF IInv, TypeOK
<1>7. /\ from \in Jobs /\ from \notin {"none", "dropped", "ended"}
      /\ to \in Jobs /\ to \notin {"none", "dropped", "first", "later"}
  BY DEF Jobs
<1>8. answer[t] \in Reports
  BY OfTask
<1> QED
  BY <1>2, <1>3, <1>4, <1>5, <1>6, <1>7, <1>8, JobStep

LEMMA RegisterStep ==
  ASSUME IInv, NEW t \in Tasks, Register(t)
  PROVE  IInv'
<1> DEFINE to == IF task[t].kind = "call" THEN "waits" ELSE "ended"
<1>1. /\ job' = [job EXCEPT ![t] = to] /\ op' = [op EXCEPT ![t] = "waiting"]
      /\ answer' = [answer EXCEPT ![t] = answer[t]] /\ job[t] = "started"
      /\ UNCHANGED <<bridge, queue, answer, marked, closing, report>>
      /\ task[t].kind \in Network /\ task[t].kind # "close"
  BY DEF Register, Move, Network, IInv, TypeOK
<1>2. /\ to \in {"waits", "ended"}
      /\ task[t].kind = "call" => to = "waits"
  OBVIOUS
<1> HIDE DEF to
<1>3. task'[t] = task[t] /\ pc'[t] = pc[t] /\ job'[t] = to /\ op'[t] = "waiting"
  BY <1>1 DEF IInv, TypeOK, bridge
<1>4. TaskOK(t)'
  BY <1>1, <1>2, <1>3, OfTask DEF TaskOK, Network, Shielded, Aimed
<1>5. /\ UNCHANGED bridge /\ queue' \in Seq(Tasks)
      /\ marked' \subseteq Tasks /\ closing' \in BOOLEAN /\ report' \in Reports
  BY <1>1 DEF IInv, TypeOK
<1>6. to \in Jobs /\ answer[t] \in Reports
  BY <1>2, OfTask DEF Jobs
<1> QED
  BY <1>1, <1>4, <1>5, <1>6, NativeStep

LEMMA AdmitStep ==
  ASSUME IInv, NEW t \in Tasks, Admit(t)
  PROVE  IInv'
<1>1. /\ op' = [op EXCEPT ![t] = "running"] /\ op[t] = "waiting"
      /\ job' = [job EXCEPT ![t] = job[t]] /\ answer' = [answer EXCEPT ![t] = answer[t]]
      /\ UNCHANGED <<bridge, job, queue, answer, marked, closing, report>>
  BY DEF Admit, IInv, TypeOK
<1>2. task'[t] = task[t] /\ pc'[t] = pc[t] /\ job'[t] = job[t] /\ op'[t] = "running"
  BY <1>1 DEF IInv, TypeOK, bridge
<1>3. TaskOK(t)'
  BY <1>1, <1>2, OfTask DEF TaskOK
<1>4. /\ UNCHANGED bridge /\ queue' \in Seq(Tasks)
      /\ marked' \subseteq Tasks /\ closing' \in BOOLEAN /\ report' \in Reports
  BY <1>1 DEF IInv, TypeOK
<1>5. /\ job[t] \in Jobs /\ answer[t] \in Reports
      /\ task[t].kind = "close" /\ job[t] = "ended" => answer[t] \in Nat
  BY OfTask
<1> QED
  BY <1>1, <1>3, <1>4, <1>5, NativeStep

LEMMA EndsStep ==
  ASSUME IInv, NEW t \in Tasks, AdmitRefused(t) \/ Finish(t)
  PROVE  IInv'
<1>1. PICK from \in {"waiting", "running"} : OperationEnds(t, from)
  BY DEF AdmitRefused, Finish
<1>2. /\ op' = [op EXCEPT ![t] = "ended"] /\ op[t] \in {"waiting", "running"}
      /\ job' = [job EXCEPT ![t] = "ended"] /\ answer' = [answer EXCEPT ![t] = answer[t]]
      /\ UNCHANGED <<bridge, queue, answer, marked, closing, report>>
  BY <1>1 DEF OperationEnds, IInv, TypeOK
<1>3. task'[t] = task[t] /\ pc'[t] = pc[t] /\ job'[t] = "ended" /\ op'[t] = "ended"
  BY <1>2 DEF IInv, TypeOK, bridge
<1>4. task[t].kind \in Network /\ task[t].kind # "close"
  BY <1>2, OfTask DEF TaskOK, Network
<1>5. TaskOK(t)'
  BY <1>2, <1>3, <1>4, OfTask DEF TaskOK, Network, Aimed
<1>6. /\ UNCHANGED bridge /\ queue' \in Seq(Tasks)
      /\ marked' \subseteq Tasks /\ closing' \in BOOLEAN /\ report' \in Reports
  BY <1>2 DEF IInv, TypeOK
<1>7. "ended" \in Jobs /\ answer[t] \in Reports
  BY OfTask DEF Jobs
<1> QED
  BY <1>2, <1>4, <1>5, <1>6, <1>7, NativeStep

LEMMA CloseMarksStep ==
  ASSUME IInv, NEW t \in Tasks, CloseMarks(t)
  PROVE  IInv'
<1>1. PICK to \in {"first", "later"} : Move(t, "started", to)
  BY DEF CloseMarks
<1>2. /\ UNCHANGED <<bridge, op, report, answer, queue>> /\ task[t].kind = "close"
      /\ marked' \subseteq Tasks /\ closing' \in BOOLEAN
      /\ answer' = [answer EXCEPT ![t] = answer[t]]
  BY DEF CloseMarks, Live, IInv, TypeOK
<1>3. op[t] = "none"
  BY <1>2, OfTask DEF TaskOK, Network
<1>4. job[t] = "started" /\ job' = [job EXCEPT ![t] = to]
  BY <1>1 DEF Move
<1>5. /\ "started" \in Jobs /\ to \in Jobs /\ to \notin {"none", "dropped", "ended"}
      /\ queue' \in Seq(Tasks) /\ answer[t] \in Reports
  BY <1>2, OfTask DEF Jobs
<1> QED
  BY <1>2, <1>3, <1>4, <1>5, JobStep

LEMMA CloseReportsStep ==
  ASSUME IInv, NEW t \in Tasks, CloseReports(t)
  PROVE  IInv'
<1>1. Cardinality(Live) \in Nat
  BY LiveCount
<1>2. /\ job[t] = "first" /\ job' = [job EXCEPT ![t] = "ended"]
      /\ answer' = [answer EXCEPT ![t] = Cardinality(Live)] /\ report' = Cardinality(Live)
      /\ op' = [op EXCEPT ![t] = op[t]]
      /\ UNCHANGED <<bridge, queue, op, marked, closing>>
  BY DEF CloseReports, Move, IInv, TypeOK
<1>3. task'[t] = task[t] /\ pc'[t] = pc[t] /\ job'[t] = "ended" /\ op'[t] = op[t]
  BY <1>2 DEF IInv, TypeOK, bridge
<1>4. TaskOK(t)'
  BY <1>2, <1>3, OfTask DEF TaskOK, Aimed
<1>5. /\ "ended" \in Jobs /\ Cardinality(Live) \in Reports /\ report' \in Reports
      /\ op[t] \in {"none", "waiting", "running", "ended"}
  BY <1>1, <1>2, OfTask DEF Jobs, Reports
<1>6. UNCHANGED bridge /\ queue' \in Seq(Tasks) /\ marked' \subseteq Tasks /\ closing' \in BOOLEAN
  BY <1>2 DEF IInv, TypeOK
<1> QED
  BY <1>1, <1>2, <1>4, <1>5, <1>6, NativeStep

LEMMA CloseJoinsStep ==
  ASSUME IInv, NEW t \in Tasks, CloseJoins(t)
  PROVE  IInv'
<1>1. laterReport \in Nat
  BY LiveCount DEF laterReport, IInv, TypeOK, Reports
<1>2. /\ job[t] = "later" /\ job' = [job EXCEPT ![t] = "ended"]
      /\ answer' = [answer EXCEPT ![t] = laterReport]
      /\ UNCHANGED <<bridge, queue, op, report, marked, closing>>
  BY DEF CloseJoins, Move, host
<1>3. op[t] = "none"
  BY <1>2, OfTask DEF TaskOK, Network
<1>4. /\ "later" \in Jobs /\ "ended" \in Jobs /\ laterReport \in Reports
      /\ queue' \in Seq(Tasks) /\ marked' \subseteq Tasks /\ closing' \in BOOLEAN
  BY <1>1, <1>2 DEF Jobs, Reports, IInv, TypeOK
<1> QED
  BY <1>1, <1>2, <1>3, <1>4, JobStep

-----------------------------------------------------------------------------
(* The theorems.                                                            *)

LEMMA NextInvariant == IInv /\ [Next]_vars => IInv'
<1> SUFFICES ASSUME IInv, [Next]_vars
             PROVE  IInv'
  OBVIOUS
<1>1. ASSUME NEW t \in Tasks, Begin(t)
      PROVE  IInv'
  BY <1>1, CallRefusedStep, CallStep DEF Begin
<1>2. ASSUME NEW t \in Tasks, Cancelled(t)
      PROVE  IInv'
  BY <1>2, CancelledStep
<1>3. ASSUME NEW t \in Tasks, Continue(t)
      PROVE  IInv'
  BY <1>3, ReturnStep, JoinEndsStep DEF Continue
<1>4. ASSUME NEW t \in Tasks, Run(t) \/ LocalEnds(t)
      PROVE  IInv'
  BY <1>4, RunStep, PlainStep
<1>5. ASSUME NEW t \in Tasks, Native(t)
      PROVE  IInv'
  BY <1>5, PlainStep, RegisterStep, CloseMarksStep, CloseReportsStep, CloseJoinsStep
     DEF Native
<1>6. ASSUME NEW t \in Tasks, Admit(t) \/ AdmitRefused(t) \/ Finish(t)
      PROVE  IInv'
  BY <1>6, AdmitStep, EndsStep
<1>7. CASE UNCHANGED vars
  BY <1>7 DEF vars, bridge, host, IInv, TypeOK, TaskOK, CloseOK
<1> QED
  BY <1>1, <1>2, <1>3, <1>4, <1>5, <1>6, <1>7 DEF Next

\* The inductive invariant holds of every behaviour of the bridge.
THEOREM Invariance == Spec => []IInv
  BY InitInvariant, NextInvariant, PTL DEF Spec

\* Every variable has its type, and a close's native call returns a report.
THEOREM TypeCorrectness == Spec => []TypeOK
<1>1. IInv => TypeOK
  BY DEF IInv
<1> QED
  BY <1>1, Invariance, PTL

\* No cancellation, however often and whenever it comes, makes _run_native or
\* close return before its native function has ended.
THEOREM CallsJoined == Spec => []CallsAreJoined
<1>1. IInv => CallsAreJoined
  <2> SUFFICES ASSUME IInv, NEW t \in Tasks, pc[t] = "done",
                      task[t].kind \in Shielded, task[t].outcome # "refused"
               PROVE  job[t] = "ended" /\ (task[t].kind = "call" => op[t] \in {"none", "ended"})
    BY DEF CallsAreJoined
  <2>1. task[t].outcome \in {"result", "cancelled"}
    BY OfTask DEF TaskOK, Outcomes
  <2> QED
    BY <2>1, OfTask DEF TaskOK
<1> QED
  BY <1>1, Invariance, PTL

\* All closes of one bridge return the report that _keep_close_report kept.
THEOREM OneReport == Spec => []ClosesAgree
<1>1. IInv => ClosesAgree
  BY DEF IInv, CloseOK, ClosesAgree
<1> QED
  BY <1>1, Invariance, PTL

\* A cancelled close has kept its report before it raises its cancellation.
THEOREM CancelledCloseReports == Spec => []CancelledCloseIsKept
<1>1. IInv => CancelledCloseIsKept
  BY DEF IInv, CloseOK, CancelledCloseIsKept
<1> QED
  BY <1>1, Invariance, PTL

\* However closes overlap and are cancelled, they come to one report.
THEOREM ClosesAreOne == Spec => []CloseReportIsOne
<1>1. IInv => CloseReportIsOne
  BY DEF IInv, CloseOK, CloseReportIsOne, ClosesAgree, CancelledCloseIsKept
<1> QED
  BY <1>1, Invariance, PTL
=============================================================================

----------------------- MODULE HostOperationsProofs ------------------------
(***************************************************************************)
(* Proofs about HostOperations: type correctness, the limit on slots, the  *)
(* ownership of live entries, and what a cancelled waiting operation and a *)
(* closed host may never do.                                               *)
(***************************************************************************)
EXTENDS HostOperationsProps, FiniteSetTheorems, TLAPS

USE HostAssumption, NoneAssumption

\* What a registration's thread has done agrees with its ticket.
TicketHistory ==
  \A s \in Serials :
    /\ pc[s] # "idle" <=> s <= registered
    /\ s <= registered => ticket[s].id \in Ids
    /\ ticket[s].admitted => pc[s] \in {"running", "ended", "done"}
    /\ pc[s] = "running" => ticket[s].admitted

\* A close marks every operation that is live; none becomes live after it.
ClosedAreCancelled == closing => \A id \in LiveIds : live[id].cancelled

\* A cancel that found an operation knows its registration, and one that
\* answered for a waiting operation left it marked.
CancelMarks ==
  \A c \in Callers :
    /\ pc[c] = "idle" => call[c].answer = "none"
    /\ pc[c] = "cancel_fire" => call[c].serial \in Serials
    /\ call[c].answer = "waiting" =>
         LET s == call[c].serial IN
         /\ s \in Serials /\ s <= registered
         /\ ~ticket[s].admitted
         /\ s \in Unended => live[ticket[s].id].cancelled

IInv == /\ TypeOK
        /\ TicketHistory
        /\ TicketsOwnLive
        /\ SlotLimit
        /\ ClosedAreCancelled
        /\ CancelMarks

-----------------------------------------------------------------------------
LEMMA HoldersFinite == IsFiniteSet(Serials) /\ IsFiniteSet(Holders)
<1>1. IsFiniteSet(Serials)
  BY FS_Interval DEF Serials
<1>2. Holders \subseteq Serials
  BY DEF Holders
<1> QED
  BY <1>1, <1>2, FS_Subset

LEMMA LiveIdsCount == Cardinality(LiveIds) \in Nat
<1>1. LiveIds \subseteq Ids
  BY DEF LiveIds
<1> QED
  BY <1>1, FS_Subset, FS_CardinalityType

\* The types of the values an action computes.
LEMMA NotLiveType == NotLive \notin LiveEntry
  BY DEF NotLive, LiveEntry, Serials

LEMMA CleanupTypes ==
  /\ NothingBuilt \in Cleanup
  /\ UNFINISHED \in Cleanup
  /\ RouteCleanup \subseteq Cleanup
  BY DEF NothingBuilt, UNFINISHED, RouteCleanup, Cleanup

LEMMA ReportType ==
  ASSUME TypeOK
  PROVE  report_of(aggregate, Cardinality(LiveIds)) \in Cleanup
  BY LiveIdsCount DEF TypeOK, StateTypes, Counts, report_of, Cleanup, UNFINISHED

LEMMA CancellationType ==
  ASSUME TypeOK, NEW s
  PROVE  cancellation(s) \in Cleanup \cup {None}
<1> DEFINE found == {i \in DOMAIN cancellations : cancellations[i][1] = s}
<1>1. CASE found = {}
  BY <1>1 DEF cancellation
<1>2. CASE found # {}
  <2>1. PICK i \in found : i = CHOOSE j \in found : TRUE
    BY <1>2
  <2>2. cancellations[i] \in Serials \X Cleanup
    BY <2>1 DEF TypeOK, StateTypes
  <2> QED
    BY <1>2, <2>1, <2>2 DEF cancellation
<1> QED
  BY <1>1, <1>2

LEMMA RecordedType ==
  ASSUME TypeOK, NEW s \in Serials, NEW cleanup \in Cleanup
  PROVE  /\ recorded(s, cleanup) \in Seq(Serials \X Cleanup)
         /\ Len(recorded(s, cleanup)) <= RECORDED_CANCELLATIONS
  BY DEF TypeOK, StateTypes, recorded

LEMMA AggregateType ==
  ASSUME TypeOK, NEW cleanup \in Cleanup
  PROVE  add(aggregate, cleanup) \in Counts
  BY DEF TypeOK, StateTypes, add, Cleanup, Counts

\* A step of thread t from one place in the code to another.
LEMMA GotoType ==
  ASSUME TypeOK, NEW t \in Threads, NEW from, NEW to, Goto(t, from, to),
         t \in Serials => to \in OperationPcs,
         t \in Callers => to \in CallPcs
  PROVE  /\ PcTypes'
         /\ pc[t] = from /\ pc'[t] = to /\ t \notin sleeping
         /\ \A u \in Threads : u # t => pc'[u] = pc[u]
  BY DEF TypeOK, PcTypes, Goto, Threads

\* What a call does to its own locals.
LEMMA LocalsType ==
  ASSUME TypeOK, NEW c \in Callers, NEW new \in Locals,
         call' = [call EXCEPT ![c] = new]
  PROVE  /\ call' \in [Callers -> Locals] /\ call'[c] = new
         /\ \A d \in Callers : d # c => call'[d] = call[d]
  BY DEF TypeOK

LEMMA AnswersType ==
  ASSUME TypeOK, NEW c \in Callers, NEW answer \in Answer,
         NEW cleanup \in Cleanup \cup {None}, Answers(c, answer, cleanup)
  PROVE  /\ call' \in [Callers -> Locals]
         /\ call'[c].answer = answer /\ call'[c].serial = call[c].serial
         /\ \A d \in Callers : d # c => call'[d] = call[d]
<1> DEFINE new == [call[c] EXCEPT !.answer = answer, !.report = cleanup]
<1>1. call' = [call EXCEPT ![c] = new]
  BY DEF Answers, TypeOK
<1>2. new \in Locals /\ new.answer = answer /\ new.serial = call[c].serial
  BY DEF TypeOK, Locals
<1> HIDE DEF new
<1> QED
  BY <1>1, <1>2, LocalsType

-----------------------------------------------------------------------------
THEOREM InitInv == Init => IInv
<1> SUFFICES ASSUME Init PROVE IInv
  OBVIOUS
<1>1. LiveIds = {} /\ Holders = {} /\ Unended = {}
  BY DEF Init, LiveIds, Holders, Unended, Threads
<1>2. TypeOK
  <2>1. live \in [Ids -> LiveEntry \cup {NotLive}]
    BY DEF Init
  <2>2. aggregate \in Counts
    BY DEF Init, Counts
  <2>3. cancellations \in Seq(Serials \X Cleanup)
        /\ Len(cancellations) <= RECORDED_CANCELLATIONS
    BY DEF Init
  <2>4. /\ running \in Nat /\ registered \in 0..MaxRegistrations
        /\ closing = FALSE /\ exiting = FALSE /\ report = None
        /\ sleeping = {} /\ fired = {} /\ hook = TRUE
    BY DEF Init
  <2>5. PcTypes
    BY DEF Init, PcTypes, OperationPcs, CallPcs, Threads
  <2>6. ticket \in [Serials -> Tickets]
    BY DEF Init, Tickets
  <2>7. call \in [Callers -> Locals]
    BY DEF Init, Locals, Answer
  <2>8. StateTypes
    BY <2>1, <2>2, <2>3, <2>4 DEF StateTypes
  <2> QED
    BY <2>4, <2>5, <2>6, <2>7, <2>8 DEF TypeOK
<1>3. TicketHistory
  BY DEF Init, TicketHistory, Threads, Serials
<1>4. SlotLimit
  BY <1>1, FS_EmptySet DEF Init, SlotLimit
<1>5. TicketsOwnLive /\ ClosedAreCancelled
  BY <1>1 DEF TicketsOwnLive, ClosedAreCancelled
<1>6. CancelMarks
  BY DEF Init, CancelMarks, Threads
<1> QED
  BY <1>2, <1>3, <1>4, <1>5, <1>6 DEF IInv

-----------------------------------------------------------------------------
\* A step that leaves the operations alone, but for moves of their threads that
\* neither take nor free a slot nor end them, keeps what is said of them; a mark
\* that was made stays.
LEMMA Framed ==
  ASSUME IInv, TypeOK',
         UNCHANGED <<live, running, registered, closing, ticket>>,
         \A s \in Serials :
           \/ pc'[s] = pc[s]
           \/ {pc[s], pc'[s]} \subseteq {"registered", "waiting", "refused"}
           \/ {pc[s], pc'[s]} \subseteq {"ended", "done"},
         \A c \in Callers :
           /\ call'[c].serial = call[c].serial
           /\ \/ call'[c].answer = call[c].answer
              \/ pc'[c] # "idle" /\ call'[c].answer # "waiting"
           /\ pc'[c] = pc[c] \/ pc'[c] \notin {"idle", "cancel_fire"}
  PROVE  IInv'
<1>1. Holders' = Holders /\ Unended' = Unended /\ LiveIds' = LiveIds
  BY DEF Holders, Unended, LiveIds
<1>2. TicketHistory'
  BY DEF IInv, TicketHistory
<1>3. TicketsOwnLive'
  BY <1>1 DEF IInv, TicketsOwnLive, Unended
<1>4. SlotLimit' /\ ClosedAreCancelled'
  BY <1>1 DEF IInv, SlotLimit, ClosedAreCancelled
<1>5. CancelMarks'
  BY <1>1 DEF IInv, CancelMarks
<1> QED
  BY <1>2, <1>3, <1>4, <1>5 DEF IInv

LEMMA CallStep ==
  ASSUME IInv, NEW c \in Callers, NEW from,
         NEW to \in CallPcs \ {"idle", "cancel_fire"}, Goto(c, from, to),
         UNCHANGED <<live, running, registered, closing, ticket>>, StateTypes',
         call' \in [Callers -> Locals], call'[c].serial = call[c].serial,
         call'[c].answer = call[c].answer \/ call'[c].answer # "waiting",
         \A d \in Callers : d # c => call'[d] = call[d],
         sleeping' \subseteq Threads, fired' \subseteq Serials, hook' \in BOOLEAN
  PROVE  IInv'
<1>1. c \in Threads /\ c \notin Serials
  BY DEF Threads
<1>2. /\ PcTypes' /\ pc'[c] = to
      /\ \A u \in Threads : u # c => pc'[u] = pc[u]
  BY <1>1, GotoType DEF IInv
<1>3. TypeOK'
  BY <1>2 DEF IInv, TypeOK
<1> QED
  BY <1>1, <1>2, <1>3, Framed DEF Threads

LEMMA CallerSteps ==
  ASSUME IInv, NEW c \in Callers, Continue(c) \/ Expire(c)
  PROVE  IInv'
<1> USE DEF IInv
<1>1. ASSUME UNCHANGED state PROVE StateTypes'
  BY <1>1 DEF TypeOK, StateTypes, state, closeState, ended
<1>2. ASSUME NEW from, NEW to \in CallPcs \ {"idle", "cancel_fire"},
             NotifyAll(c, from, to)
      PROVE  IInv'
  BY <1>1, <1>2, CallStep DEF NotifyAll, TypeOK, state, closeState
<1>3. ASSUME NEW to \in CallPcs \ {"idle", "cancel_fire"}, Goto(c, to, to),
             Sleep(c)
      PROVE  IInv'
  <2>1. sleeping' \subseteq Threads
    BY <1>3 DEF Sleep, TypeOK, Threads
  <2> QED
    BY <1>1, <1>3, <2>1, CallStep DEF Sleep, TypeOK, state, closeState
<1>4. ASSUME NEW from, NEW to \in CallPcs \ {"idle", "cancel_fire"},
             Goto(c, from, to), NEW answer \in Answer \ {"waiting"},
             NEW cleanup \in Cleanup \cup {None}, Answers(c, answer, cleanup),
             UNCHANGED <<live, running, registered, closing, sleeping, ticket,
                         fired, hook>>,
             StateTypes'
      PROVE  IInv'
  <2>1. /\ call' \in [Callers -> Locals]
        /\ call'[c].answer = answer /\ call'[c].serial = call[c].serial
        /\ \A d \in Callers : d # c => call'[d] = call[d]
    BY <1>4, AnswersType
  <2> QED
    BY <1>4, <2>1, CallStep DEF TypeOK
<1>5. CASE CancelNotifies(c)
  BY <1>2, <1>5 DEF CancelNotifies, CallPcs
<1>6. CASE CancelFires(c)
  <2>1. pc[c] = "cancel_fire" /\ call[c].serial \in Serials
    BY <1>6 DEF CancelFires, Goto, CancelMarks
  <2>2. fired' \subseteq Serials
    BY <1>6, <2>1 DEF CancelFires, tokenToFire, TypeOK
  <2> QED
    BY <1>1, <1>6, <2>2, CallStep
    DEF CancelFires, CallPcs, TypeOK, state, closeState
<1>7. CASE CancelEnded(c)
  <2>1. cancellation(call[c].serial) \in Cleanup \cup {None}
    BY CancellationType
  <2> QED
    BY <1>1, <1>4, <1>7, <2>1, CleanupTypes
    DEF CancelEnded, CallPcs, Answer, state, closeState
<1>8. CASE CancelWaits(c)
  BY <1>3, <1>8 DEF CancelWaits, CallPcs
<1>9. CASE CancelTimesOut(c)
  BY <1>1, <1>4, <1>9, CleanupTypes
  DEF CancelTimesOut, CallPcs, Answer, state, closeState
<1>10. CASE CloseNotifies(c)
  BY <1>2, <1>10 DEF CloseNotifies, CallPcs
<1>11. CASE CloseFires(c)
  <2>1. PICK s \in call[c].todo :
          /\ fired' = fired \cup {s}
          /\ call' = [call EXCEPT ![c].todo = @ \ {s}]
    BY <1>11 DEF CloseFires
  <2>2. call[c] \in Locals /\ s \in Serials
    BY <2>1 DEF TypeOK, Locals
  <2>3. pc' = pc
    BY <1>11 DEF CloseFires, Goto, TypeOK, PcTypes
  <2>4. /\ call' \in [Callers -> Locals]
        /\ call'[c].serial = call[c].serial
        /\ call'[c].answer = call[c].answer
        /\ \A d \in Callers : d # c => call'[d] = call[d]
    BY <2>1, <2>2 DEF TypeOK, Locals
  <2>5. fired' \subseteq Serials
    BY <2>1, <2>2 DEF TypeOK
  <2> QED
    BY <1>1, <1>11, <2>4, <2>5, CallStep
    DEF CloseFires, CallPcs, TypeOK, state, closeState
<1>12. CASE CloseFired(c)
  BY <1>1, <1>12, CallStep DEF CloseFired, CallPcs, TypeOK, state, closeState
<1>13. CASE CloseWaits(c)
  BY <1>3, <1>13 DEF CloseWaits, CallPcs
<1>14. CASE CloseReports(c)
  <2> DEFINE first == report_of(aggregate, Cardinality(LiveIds))
  <2>1. first \in Cleanup
    BY ReportType
  <2>2. StateTypes'
    BY <1>14, <2>1 DEF CloseReports, TypeOK, StateTypes, ended
  <2> QED
    BY <1>4, <1>14, <2>1, <2>2 DEF CloseReports, CallPcs, Answer
<1>15. CASE ClosePublishes(c)
  BY <1>2, <1>15 DEF ClosePublishes, CallPcs
<1>16. CASE JoinWaits(c)
  BY <1>3, <1>16 DEF JoinWaits, CallPcs
<1>17. CASE JoinReturns(c)
  <2>1. laterReport \in Cleanup \cup {None}
    BY ReportType DEF laterReport, TypeOK, StateTypes
  <2> QED
    BY <1>1, <1>4, <1>17, <2>1
    DEF JoinReturns, CallPcs, Answer, state, closeState
<1>18. CASE CloseReturns(c)
  <2>1. hook' \in BOOLEAN
    BY <1>18 DEF CloseReturns
  <2> QED
    BY <1>1, <1>18, <2>1, CallStep
    DEF CloseReturns, CallPcs, TypeOK, state, closeState
<1>19. CASE Expire(c)
  <2>1. call[c] \in Locals
    BY DEF TypeOK
  <2>2. /\ call' \in [Callers -> Locals]
        /\ \A d \in Callers : /\ call'[d].serial = call[d].serial
                              /\ call'[d].answer = call[d].answer
    BY <1>19, <2>1 DEF Expire, TypeOK, Locals
  <2>3. StateTypes' /\ PcTypes' /\ pc' = pc
    BY <1>1, <1>19 DEF Expire, TypeOK, PcTypes
  <2>4. TypeOK'
    BY <1>19, <2>2, <2>3 DEF Expire, TypeOK
  <2> QED
    BY <1>19, <2>2, <2>3, <2>4, Framed DEF Expire, state, closeState
<1> QED
  BY <1>5, <1>6, <1>7, <1>8, <1>9, <1>10, <1>11, <1>12, <1>13, <1>14, <1>15,
     <1>16, <1>17, <1>18, <1>19 DEF Continue

-----------------------------------------------------------------------------
\* A step of a call that only marks live operations as cancelled keeps who owns
\* what, and who holds a slot.
LEMMA Marked ==
  ASSUME IInv, UNCHANGED <<running, registered, ticket>>,
         \A s \in Serials : pc'[s] = pc[s],
         \A id \in Ids : \/ live'[id] = live[id]
                         \/ /\ id \in LiveIds
                            /\ live'[id] = [live[id] EXCEPT !.cancelled = TRUE]
  PROVE  /\ TicketHistory' /\ TicketsOwnLive' /\ SlotLimit'
         /\ LiveIds' = LiveIds /\ Unended' = Unended
         /\ \A id \in Ids :
              /\ live'[id] \in LiveEntry \cup {NotLive}
              /\ live[id].cancelled => live'[id].cancelled
<1>1. \A id \in LiveIds : live[id] \in LiveEntry
  BY DEF IInv, TypeOK, StateTypes, LiveIds
<1>2. \A id \in Ids :
        /\ live'[id] \in LiveEntry \cup {NotLive}
        /\ live'[id] = NotLive <=> live[id] = NotLive
        /\ live'[id].serial = live[id].serial
        /\ live'[id].running = live[id].running
        /\ live[id].cancelled => live'[id].cancelled
  <2> SUFFICES ASSUME NEW id \in Ids
               PROVE  /\ live'[id] \in LiveEntry \cup {NotLive}
                      /\ live'[id] = NotLive <=> live[id] = NotLive
                      /\ live'[id].serial = live[id].serial
                      /\ live'[id].running = live[id].running
                      /\ live[id].cancelled => live'[id].cancelled
    OBVIOUS
  <2>1. CASE live'[id] = live[id]
    BY <2>1 DEF IInv, TypeOK, StateTypes
  <2>2. CASE id \in LiveIds /\ live'[id] = [live[id] EXCEPT !.cancelled = TRUE]
    <3>1. live[id] \in LiveEntry /\ live'[id] \in LiveEntry
      BY <1>1, <2>2 DEF LiveEntry
    <3> QED
      BY <2>2, <3>1, NotLiveType DEF LiveEntry
  <2> QED
    BY <2>1, <2>2
<1>3. Holders' = Holders /\ Unended' = Unended /\ LiveIds' = LiveIds
  BY <1>2 DEF Holders, Unended, LiveIds
<1>4. TicketHistory' /\ SlotLimit'
  BY <1>3 DEF IInv, TicketHistory, SlotLimit
<1>5. \A s \in Unended : ticket[s].id \in Ids
  BY DEF IInv, TicketHistory, Unended
<1>6. LiveIds \subseteq Ids
  BY DEF LiveIds
<1>7. TicketsOwnLive'
  BY <1>2, <1>3, <1>5, <1>6 DEF IInv, TicketsOwnLive, Unended
<1> QED
  BY <1>2, <1>3, <1>4, <1>7

\* The entry of a live operation is of a registration whose thread is unended.
LEMMA LiveSerial ==
  ASSUME IInv, NEW id \in LiveIds
  PROVE  /\ id \in Ids /\ live[id] \in LiveEntry
         /\ live[id].serial \in Unended /\ live[id].serial \in Serials
         /\ live[id].serial <= registered
         /\ ticket[live[id].serial].id = id
  BY DEF IInv, TypeOK, StateTypes, LiveIds, TicketsOwnLive, Unended,
         TicketHistory

\* The step in which a call finds the operation of id.
LEMMA FoundStep ==
  ASSUME IInv, NEW c \in Callers, NEW to \in {"cancel_notify", "cancel_fire"},
         Goto(c, "idle", to), NEW id \in LiveIds,
         live' = [live EXCEPT ![id].cancelled = TRUE],
         NEW new \in Locals, call' = [call EXCEPT ![c] = new],
         new.serial = live[id].serial,
         new.answer = "waiting" => ~live[id].running,
         UNCHANGED <<running, registered, closeState, ended, sleeping, ticket,
                     fired, hook>>
  PROVE  IInv'
<1> USE DEF IInv
<1>1. c \in Threads /\ c \notin Serials
  BY DEF Threads
<1>2. /\ PcTypes' /\ pc'[c] = to
      /\ \A u \in Threads : u # c => pc'[u] = pc[u]
  BY <1>1, GotoType DEF CallPcs
<1>3. /\ call' \in [Callers -> Locals] /\ call'[c] = new
      /\ \A d \in Callers : d # c => call'[d] = call[d]
  BY LocalsType
<1>4. \A s \in Serials : pc'[s] = pc[s]
  BY <1>1, <1>2 DEF Threads
<1>5. \A i \in Ids : \/ live'[i] = live[i]
                     \/ /\ i \in LiveIds
                        /\ live'[i] = [live[i] EXCEPT !.cancelled = TRUE]
  BY DEF TypeOK, StateTypes
<1>6. /\ TicketHistory' /\ TicketsOwnLive' /\ SlotLimit'
      /\ LiveIds' = LiveIds /\ Unended' = Unended
      /\ \A i \in Ids : /\ live'[i] \in LiveEntry \cup {NotLive}
                        /\ live[i].cancelled => live'[i].cancelled
  BY <1>4, <1>5, Marked
<1>7. TypeOK'
  <2>1. live' \in [Ids -> LiveEntry \cup {NotLive}]
    BY <1>6 DEF TypeOK, StateTypes
  <2>2. StateTypes'
    BY <2>1 DEF TypeOK, StateTypes, closeState, ended
  <2> QED
    BY <1>2, <1>3, <2>2 DEF TypeOK
<1>8. ClosedAreCancelled'
  BY <1>6 DEF ClosedAreCancelled, LiveIds, closeState
<1>9. CancelMarks'
  <2> SUFFICES ASSUME NEW d \in Callers
               PROVE  /\ pc'[d] = "idle" => call'[d].answer = "none"
                      /\ pc'[d] = "cancel_fire" => call'[d].serial \in Serials
                      /\ call'[d].answer = "waiting" =>
                           LET s == call'[d].serial IN
                           /\ s \in Serials /\ s <= registered'
                           /\ ~ticket'[s].admitted
                           /\ s \in Unended' => live'[ticket'[s].id].cancelled
    BY DEF CancelMarks
  <2>1. CASE d = c
    <3> DEFINE s == live[id].serial
    <3>1. /\ id \in Ids /\ live[id] \in LiveEntry /\ s \in Unended
          /\ s \in Serials /\ s <= registered /\ ticket[s].id = id
      BY LiveSerial
    <3>2. ~live[id].running => ~ticket[s].admitted
      BY <3>1 DEF TicketsOwnLive, TicketHistory, Unended
    <3>3. live'[id].cancelled
      BY <3>1 DEF TypeOK, StateTypes, LiveEntry
    <3> QED
      BY <1>2, <1>3, <2>1, <3>1, <3>2, <3>3
  <2>2. CASE d # c
    <3>1. pc'[d] = pc[d] /\ call'[d] = call[d]
      BY <1>2, <1>3, <2>2 DEF Threads
    <3>2. call[d].answer = "waiting" /\ call[d].serial \in Unended =>
            ticket[call[d].serial].id \in Ids
      BY DEF TicketHistory, Unended
    <3> QED
      BY <1>6, <3>1, <3>2 DEF CancelMarks
  <2> QED
    BY <2>1, <2>2
<1> QED
  BY <1>6, <1>7, <1>8, <1>9

LEMMA CancelSteps ==
  ASSUME IInv, NEW c \in Callers, NEW id \in Ids,
         CancelFails(c, id) \/ CancelWaiting(c, id) \/ CancelRunning(c, id)
  PROVE  IInv'
<1> USE DEF IInv
<1>1. CASE CancelFails(c, id)
  <2>1. StateTypes'
    BY <1>1 DEF CancelFails, TypeOK, StateTypes, state, closeState, ended
  <2> DEFINE answer == IF live[id] = NotLive THEN "InvalidRequest"
                       ELSE "UnsupportedOperation"
  <2>2. answer \in Answer /\ answer # "waiting"
    BY DEF Answer
  <2>3. /\ call' \in [Callers -> Locals]
        /\ call'[c].answer = answer /\ call'[c].serial = call[c].serial
        /\ \A d \in Callers : d # c => call'[d] = call[d]
    BY <1>1, <2>2, AnswersType DEF CancelFails
  <2> HIDE DEF answer
  <2> QED
    BY <1>1, <2>1, <2>2, <2>3, CallStep
    DEF CancelFails, CallPcs, TypeOK, state, closeState
<1>2. CASE CancelWaiting(c, id)
  <2> DEFINE new == [call[c] EXCEPT !.id = id, !.serial = live[id].serial,
                                    !.answer = "waiting",
                                    !.report = NothingBuilt]
  <2>1. id \in LiveIds
    BY <1>2 DEF CancelWaiting, LiveIds
  <2>2. live[id].serial \in 0..MaxRegistrations
    BY <2>1, LiveSerial DEF Serials
  <2>3. /\ new \in Locals /\ new.serial = live[id].serial
        /\ new.answer = "waiting"
    BY <2>2, CleanupTypes DEF TypeOK, Locals, Answer
  <2>4. call' = [call EXCEPT ![c] = new]
    BY <1>2 DEF CancelWaiting, TypeOK
  <2> HIDE DEF new
  <2> QED
    BY <1>2, <2>1, <2>3, <2>4, FoundStep DEF CancelWaiting
<1>3. CASE CancelRunning(c, id)
  <2> DEFINE new == [call[c] EXCEPT !.id = id, !.serial = live[id].serial]
  <2>1. id \in LiveIds
    BY <1>3 DEF CancelRunning, LiveIds, NotLive
  <2>2. live[id].serial \in 0..MaxRegistrations
    BY <2>1, LiveSerial DEF Serials
  <2>3. /\ new \in Locals /\ new.serial = live[id].serial
        /\ new.answer = call[c].answer
    BY <2>2 DEF TypeOK, Locals
  <2>4. call' = [call EXCEPT ![c] = new]
    BY <1>3 DEF CancelRunning, TypeOK
  <2>5. call[c].answer = "none"
    BY <1>3 DEF CancelRunning, Goto, CancelMarks
  <2> HIDE DEF new
  <2>6. /\ Goto(c, "idle", "cancel_fire")
        /\ live' = [live EXCEPT ![id].cancelled = TRUE]
        /\ UNCHANGED <<running, registered, closeState, ended, sleeping, ticket,
                       fired, hook>>
    BY <1>3 DEF CancelRunning
  <2> QED
    BY <2>1, <2>3, <2>4, <2>5, <2>6, FoundStep
<1> QED
  BY <1>1, <1>2, <1>3

LEMMA CloseSteps ==
  ASSUME IInv, NEW c \in Callers, NEW exit \in BOOLEAN,
         CloseFirst(c, exit) \/ CloseLater(c, exit)
  PROVE  IInv'
<1> USE DEF IInv
<1>1. CASE CloseLater(c, exit)
  <2>1. StateTypes'
    BY <1>1 DEF CloseLater, TypeOK, StateTypes, ended
  <2> DEFINE new == [call[c] EXCEPT !.exit = exit]
  <2>2. new \in Locals /\ new.serial = call[c].serial
        /\ new.answer = call[c].answer
    BY DEF TypeOK, Locals
  <2>3. call' = [call EXCEPT ![c] = new]
    BY <1>1 DEF CloseLater, TypeOK
  <2> HIDE DEF new
  <2>4. /\ call' \in [Callers -> Locals] /\ call'[c] = new
        /\ \A d \in Callers : d # c => call'[d] = call[d]
    BY <2>2, <2>3, LocalsType
  <2> QED
    BY <1>1, <2>1, <2>2, <2>4, CallStep DEF CloseLater, CallPcs, TypeOK
<1>2. CASE CloseFirst(c, exit)
  <2>1. c \in Threads /\ c \notin Serials
    BY DEF Threads
  <2>2. /\ PcTypes' /\ pc'[c] = "close_notify"
        /\ \A u \in Threads : u # c => pc'[u] = pc[u]
    BY <1>2, <2>1, GotoType DEF CloseFirst, CallPcs
  <2>3. \A s \in Serials : pc'[s] = pc[s]
    BY <2>1, <2>2 DEF Threads
  <2>4. \A i \in Ids : live'[i] = IF i \in LiveIds
                                  THEN [live[i] EXCEPT !.cancelled = TRUE]
                                  ELSE live[i]
    BY <1>2 DEF CloseFirst, LiveIds
  <2>5. /\ TicketHistory' /\ TicketsOwnLive' /\ SlotLimit'
        /\ LiveIds' = LiveIds /\ Unended' = Unended
        /\ \A i \in Ids : /\ live'[i] \in LiveEntry \cup {NotLive}
                          /\ live[i].cancelled => live'[i].cancelled
    BY <1>2, <2>3, <2>4, Marked DEF CloseFirst
  <2> DEFINE todo == {live[i].serial : i \in {j \in LiveIds :
                                        live[j].running /\ live[j].canceller}}
             new == [call[c] EXCEPT !.exit = exit, !.todo = todo]
  <2>6. todo \subseteq Serials
    BY LiveSerial
  <2>7. call' = [call EXCEPT ![c] = new]
    BY <1>2 DEF CloseFirst, TypeOK
  <2> HIDE DEF todo
  <2>8. new \in Locals /\ new.serial = call[c].serial
        /\ new.answer = call[c].answer
    BY <2>6 DEF TypeOK, Locals
  <2> HIDE DEF new
  <2>9. /\ call' \in [Callers -> Locals] /\ call'[c] = new
        /\ \A d \in Callers : d # c => call'[d] = call[d]
    BY <2>7, <2>8, LocalsType
  <2>10. TypeOK'
    <3>1. live' \in [Ids -> LiveEntry \cup {NotLive}]
      BY <1>2, <2>5 DEF CloseFirst
    <3>2. StateTypes'
      BY <1>2, <3>1 DEF CloseFirst, TypeOK, StateTypes, ended
    <3> QED
      BY <1>2, <2>2, <2>9, <3>2 DEF CloseFirst, TypeOK
  <2>11. ClosedAreCancelled'
    <3>1. ASSUME NEW i \in LiveIds PROVE live'[i].cancelled
      <4>1. i \in Ids /\ live[i] \in LiveEntry
        BY LiveSerial
      <4>2. live'[i] = [live[i] EXCEPT !.cancelled = TRUE]
        BY <2>4, <4>1
      <4> QED
        BY <4>1, <4>2 DEF LiveEntry
    <3> QED
      BY <2>5, <3>1 DEF ClosedAreCancelled
  <2>12. CancelMarks'
    <3>1. \A d \in Callers : call[d].answer = "waiting" /\
            call[d].serial \in Unended => ticket[call[d].serial].id \in Ids
      BY DEF TicketHistory, Unended
    <3>2. \A d \in Callers : /\ call'[d].answer = call[d].answer
                             /\ call'[d].serial = call[d].serial
                             /\ pc'[d] = pc[d] \/ pc'[d] = "close_notify"
      BY <2>2, <2>8, <2>9 DEF Threads
    <3>3. UNCHANGED <<registered, ticket>>
      BY <1>2 DEF CloseFirst
    <3> SUFFICES ASSUME NEW d \in Callers
                 PROVE  /\ pc'[d] = "idle" => call'[d].answer = "none"
                        /\ pc'[d] = "cancel_fire" => call'[d].serial \in Serials
                        /\ call'[d].answer = "waiting" =>
                             LET s == call'[d].serial IN
                             /\ s \in Serials /\ s <= registered'
                             /\ ~ticket'[s].admitted
                             /\ s \in Unended' => live'[ticket'[s].id].cancelled
      BY DEF CancelMarks
    <3> QED
      BY <2>5, <3>1, <3>2, <3>3 DEF CancelMarks
  <2> QED
    BY <2>5, <2>10, <2>11, <2>12
<1> QED
  BY <1>1, <1>2

-----------------------------------------------------------------------------
\* The steps of an operation's thread that take and free no slot.
LEMMA QuietOperationSteps ==
  ASSUME IInv, NEW s \in Serials,
         AdmitRefused(s) \/ AdmitWaits(s) \/ EndNotifies(s)
  PROVE  IInv'
<1> USE DEF IInv
<1>1. s \in Threads /\ s \notin Callers
  BY DEF Threads
<1>2. PICK to \in {"refused", "waiting", "done"} :
        /\ Goto(s, pc[s], to)
        /\ \/ {pc[s], to} \subseteq {"registered", "waiting", "refused"}
           \/ {pc[s], to} \subseteq {"ended", "done"}
  BY DEF AdmitRefused, AdmitWaits, EndNotifies, NotifyAll, Admitting, Goto
<1>3. /\ PcTypes' /\ pc'[s] = to
      /\ \A u \in Threads : u # s => pc'[u] = pc[u]
  BY <1>1, <1>2, GotoType DEF OperationPcs
<1>4. /\ UNCHANGED <<state, ticket, call, fired, hook>>
      /\ sleeping' \subseteq Threads
  BY <1>1 DEF AdmitRefused, AdmitWaits, EndNotifies, NotifyAll, Sleep, TypeOK
<1>5. TypeOK'
  <2>1. StateTypes'
    BY <1>4 DEF TypeOK, StateTypes, state, closeState, ended
  <2> QED
    BY <1>3, <1>4, <2>1 DEF TypeOK
<1>6. \A u \in Serials :
        \/ pc'[u] = pc[u]
        \/ {pc[u], pc'[u]} \subseteq {"registered", "waiting", "refused"}
        \/ {pc[u], pc'[u]} \subseteq {"ended", "done"}
  BY <1>2, <1>3 DEF Threads
<1>7. \A c \in Callers : pc'[c] = pc[c] /\ call'[c] = call[c]
  BY <1>1, <1>3, <1>4 DEF Threads
<1> QED
  BY <1>4, <1>5, <1>6, <1>7, Framed DEF state, closeState

LEMMA WakeStep ==
  ASSUME IInv, NEW t \in Threads, SpuriousWake(t)
  PROVE  IInv'
<1>1. TypeOK'
  BY DEF SpuriousWake, IInv, TypeOK, StateTypes, PcTypes, state, closeState,
         ended
<1> QED
  BY <1>1, Framed DEF SpuriousWake, state, closeState

LEMMA RegisterStep ==
  ASSUME IInv, NEW id \in Ids, NEW transport \in BOOLEAN,
         Register(id, transport)
  PROVE  IInv'
<1> USE DEF IInv
<1> DEFINE s == registered + 1
           entry == [serial |-> s, running |-> FALSE, cancelled |-> FALSE,
                     canceller |-> transport]
<1>1. /\ s \in Serials /\ s \in Threads /\ s \notin Callers
      /\ ~closing /\ live[id] = NotLive
  BY DEF Register, mayRegister, TypeOK, StateTypes, Serials, Threads
<1>2. /\ PcTypes' /\ pc[s] = "idle" /\ pc'[s] = "registered"
      /\ \A u \in Threads : u # s => pc'[u] = pc[u]
  BY <1>1, GotoType DEF Register, OperationPcs
<1>3. /\ live' = [live EXCEPT ![id] = entry]
      /\ entry \in LiveEntry /\ entry.serial = s /\ ~entry.running
  BY <1>1 DEF Register, LiveEntry
<1> HIDE DEF entry
<1>4. /\ live' \in [Ids -> LiveEntry \cup {NotLive}] /\ live'[id] = entry
      /\ \A i \in Ids : i # id => live'[i] = live[i]
  BY <1>3 DEF TypeOK, StateTypes
<1>5. /\ ticket' \in [Serials -> Tickets]
      /\ ticket'[s].id = id /\ ticket'[s].admitted = ticket[s].admitted
      /\ \A u \in Serials : u # s => ticket'[u] = ticket[u]
  BY <1>1 DEF Register, TypeOK, Tickets
<1>6. /\ registered' = s /\ s \in 0..MaxRegistrations
      /\ UNCHANGED <<running, closeState, ended, sleeping, call, fired, hook>>
  BY <1>1 DEF Register, Serials
<1>7. Holders' = Holders /\ Unended' = Unended \cup {s}
  BY <1>1, <1>2 DEF Holders, Unended, Threads
<1>8. LiveIds' = LiveIds \cup {id} /\ id \notin LiveIds
  BY <1>1, <1>3, <1>4, NotLiveType DEF LiveIds
<1>9. TypeOK'
  <2>1. StateTypes'
    BY <1>4, <1>6 DEF TypeOK, StateTypes, closeState, ended
  <2> QED
    BY <1>2, <1>5, <1>6, <2>1 DEF TypeOK
<1>10. \A u \in Serials : u <= s <=> u <= registered \/ u = s
  BY DEF TypeOK, StateTypes, Serials
<1> HIDE DEF s
<1>11. TicketHistory'
  <2>1. ~ticket[s].admitted
    BY <1>1, <1>2 DEF TicketHistory
  <2>3. \A u \in Serials : u # s => pc'[u] = pc[u] /\ ticket'[u] = ticket[u]
    BY <1>2, <1>5 DEF Threads
  <2> SUFFICES ASSUME NEW u \in Serials
               PROVE  /\ pc'[u] # "idle" <=> u <= registered'
                      /\ u <= registered' => ticket'[u].id \in Ids
                      /\ ticket'[u].admitted =>
                           pc'[u] \in {"running", "ended", "done"}
                      /\ pc'[u] = "running" => ticket'[u].admitted
    BY DEF TicketHistory
  <2>4. CASE u = s
    BY <1>1, <1>2, <1>5, <1>6, <1>10, <2>1, <2>4
  <2>5. CASE u # s
    BY <1>6, <1>10, <2>3, <2>5 DEF TicketHistory
  <2> QED
    BY <2>4, <2>5
<1>12. TicketsOwnLive'
  <2>1. \A u \in Unended : ticket[u].id # id /\ u # s /\ ticket[u].id \in Ids
    <3>1. \A u \in Unended : ticket[u].id \in Ids /\ u \in Serials /\ u # s
      BY <1>2 DEF Unended, TicketHistory
    <3> QED
      BY <1>1, <3>1 DEF TicketsOwnLive, NotLive, Serials
  <2>2. \A u \in Unended' : /\ live'[ticket'[u].id].serial = u
                            /\ live'[ticket'[u].id].running <=> pc'[u] = "running"
    <3> SUFFICES ASSUME NEW u \in Unended \cup {s}
                 PROVE  /\ live'[ticket'[u].id].serial = u
                        /\ live'[ticket'[u].id].running <=> pc'[u] = "running"
      BY <1>7
    <3>1. CASE u = s
      BY <1>2, <1>3, <1>4, <1>5, <3>1
    <3>2. CASE u # s
      <4>1. u \in Serials /\ u \in Threads
        BY <3>2 DEF Unended, Threads
      <4>2. ticket'[u] = ticket[u] /\ pc'[u] = pc[u]
        BY <1>2, <1>5, <3>2, <4>1
      <4>3. live'[ticket[u].id] = live[ticket[u].id]
        BY <1>4, <2>1, <3>2
      <4> QED
        BY <3>2, <4>2, <4>3 DEF TicketsOwnLive
    <3> QED
      BY <3>1, <3>2
  <2>3. \A i \in LiveIds' : /\ live'[i].serial \in Unended'
                            /\ ticket'[live'[i].serial].id = i
    <3> SUFFICES ASSUME NEW i \in LiveIds \cup {id}
                 PROVE  /\ live'[i].serial \in Unended \cup {s}
                        /\ ticket'[live'[i].serial].id = i
      BY <1>7, <1>8
    <3>1. CASE i = id
      BY <1>3, <1>4, <1>5, <3>1
    <3>2. CASE i # id
      <4>1. i \in LiveIds /\ live'[i] = live[i]
        BY <1>4, <3>2 DEF LiveIds
      <4>2. live[i].serial \in Unended /\ live[i].serial \in Serials
            /\ ticket[live[i].serial].id = i
        BY <4>1, LiveSerial
      <4> QED
        BY <1>5, <2>1, <4>1, <4>2
    <3> QED
      BY <3>1, <3>2
  <2> QED
    BY <2>2, <2>3 DEF TicketsOwnLive
<1>13. SlotLimit'
  BY <1>6, <1>7 DEF SlotLimit
<1>14. ClosedAreCancelled'
  BY <1>1, <1>6 DEF ClosedAreCancelled, closeState
<1>15. CancelMarks'
  <2> SUFFICES ASSUME NEW c \in Callers
               PROVE  /\ pc'[c] = "idle" => call'[c].answer = "none"
                      /\ pc'[c] = "cancel_fire" => call'[c].serial \in Serials
                      /\ call'[c].answer = "waiting" =>
                           LET u == call'[c].serial IN
                           /\ u \in Serials /\ u <= registered'
                           /\ ~ticket'[u].admitted
                           /\ u \in Unended' => live'[ticket'[u].id].cancelled
    BY DEF CancelMarks
  <2>1. pc'[c] = pc[c] /\ call'[c] = call[c]
    BY <1>1, <1>2, <1>6 DEF Threads
  <2> DEFINE u == call[c].serial
  <2>2. ASSUME call[c].answer = "waiting"
        PROVE  /\ u \in Serials /\ u <= registered' /\ ~ticket'[u].admitted
               /\ u \in Unended' => live'[ticket'[u].id].cancelled
    <3>1. u \in Serials /\ u <= registered /\ ~ticket[u].admitted
          /\ (u \in Unended => live[ticket[u].id].cancelled)
      BY <2>2 DEF CancelMarks
    <3>2. u # s /\ u <= s
      BY <1>10, <3>1 DEF TypeOK, StateTypes, Serials, s
    <3>3. ticket'[u] = ticket[u] /\ (u \in Unended' <=> u \in Unended)
      BY <1>5, <1>7, <3>1, <3>2
    <3>4. u \in Unended => live'[ticket[u].id] = live[ticket[u].id]
      <4>1. ASSUME u \in Unended PROVE ticket[u].id # id /\ ticket[u].id \in Ids
        BY <1>1, <3>1, <4>1 DEF TicketsOwnLive, TicketHistory, NotLive, Serials
      <4> QED
        BY <1>4, <4>1
    <3> QED
      BY <1>6, <3>1, <3>2, <3>3, <3>4
  <2> QED
    BY <2>1, <2>2 DEF CancelMarks
<1> QED
  BY <1>9, <1>11, <1>12, <1>13, <1>14, <1>15

\* An operation that is not refused owns its entry, is not marked and has not
\* been admitted.
LEMMA GrantedStep ==
  ASSUME IInv, NEW s \in Serials, AdmitGranted(s)
  PROVE  IInv'
<1> USE DEF IInv
<1> DEFINE id == ticket[s].id
           entry == [live[id] EXCEPT !.running = TRUE]
<1>1. s \in Threads /\ s \notin Callers
  BY DEF Threads
<1>2. /\ PcTypes' /\ pc[s] \in {"registered", "waiting"} /\ pc'[s] = "running"
      /\ \A u \in Threads : u # s => pc'[u] = pc[u]
  BY <1>1, GotoType DEF AdmitGranted, Admitting, OperationPcs
<1>3. /\ live[id].serial = s /\ ~live[id].cancelled /\ ~closing
      /\ running < LIMIT
  BY DEF AdmitGranted, refused, slotFree
<1>4. id \in LiveIds /\ s \in Unended /\ s <= registered /\ id \in Ids
      /\ live[id] \in LiveEntry
  BY <1>2, <1>3 DEF Unended, TicketHistory, LiveIds, NotLive, Serials, TypeOK,
                    StateTypes
<1>5. entry \in LiveEntry /\ entry.running /\ entry.serial = s
  BY <1>3, <1>4 DEF LiveEntry
<1>6. /\ running' = running + 1 /\ running' \in Nat /\ running' <= LIMIT
      /\ UNCHANGED <<registered, closeState, ended, sleeping, call, fired, hook>>
  BY <1>3 DEF AdmitGranted, TypeOK, StateTypes
<1>7. /\ ticket' \in [Serials -> Tickets] /\ ticket'[s].admitted
      /\ \A u \in Serials : ticket'[u].id = ticket[u].id
      /\ \A u \in Serials : u # s => ticket'[u] = ticket[u]
  BY DEF AdmitGranted, TypeOK, Tickets
<1>8. live' = [live EXCEPT ![id] = entry]
  BY DEF AdmitGranted
<1> HIDE DEF entry
<1>9. /\ live' \in [Ids -> LiveEntry \cup {NotLive}] /\ live'[id] = entry
      /\ \A i \in Ids : i # id => live'[i] = live[i]
  BY <1>4, <1>5, <1>8 DEF TypeOK, StateTypes
<1>10. LiveIds' = LiveIds
  BY <1>4, <1>5, <1>9, NotLiveType DEF LiveIds
<1>11. Unended' = Unended /\ Holders' = Holders \cup {s} /\ s \notin Holders
  BY <1>1, <1>2 DEF Unended, Holders, Threads
<1>12. TypeOK'
  <2>1. StateTypes'
    BY <1>6, <1>9 DEF TypeOK, StateTypes, closeState, ended
  <2> QED
    BY <1>2, <1>6, <1>7, <2>1 DEF TypeOK
<1>13. TicketHistory'
  BY <1>2, <1>4, <1>6, <1>7 DEF TicketHistory, Threads
<1>14. TicketsOwnLive'
  <2>1. ASSUME NEW u \in Unended
        PROVE  /\ live'[ticket'[u].id].serial = u
               /\ live'[ticket'[u].id].running <=> pc'[u] = "running"
    <3>1. CASE u = s
      BY <1>2, <1>4, <1>5, <1>7, <1>9, <3>1
    <3>2. CASE u # s
      <4>1. /\ u \in Serials /\ ticket[u].id \in Ids
            /\ live[ticket[u].id].serial = u
            /\ live[ticket[u].id].running <=> pc[u] = "running"
        BY DEF Unended, TicketHistory, TicketsOwnLive
      <4>2. live'[ticket[u].id] = live[ticket[u].id] /\ pc'[u] = pc[u]
        BY <1>2, <1>3, <1>9, <3>2, <4>1 DEF Threads
      <4> QED
        BY <1>7, <4>1, <4>2
    <3> QED
      BY <3>1, <3>2
  <2>2. ASSUME NEW i \in LiveIds
        PROVE  /\ live'[i].serial \in Unended /\ ticket'[live'[i].serial].id = i
    <3>1. /\ i \in Ids /\ live[i].serial \in Unended /\ live[i].serial \in Serials
          /\ ticket[live[i].serial].id = i
      BY LiveSerial
    <3>2. live'[i].serial = live[i].serial
      BY <1>3, <1>5, <1>9, <3>1
    <3> QED
      BY <1>7, <3>1, <3>2
  <2> QED
    BY <1>10, <1>11, <2>1, <2>2 DEF TicketsOwnLive
<1>15. SlotLimit'
  <2>1. Cardinality(Holders') = Cardinality(Holders) + 1
    BY <1>11, HoldersFinite, FS_AddElement
  <2> QED
    BY <1>6, <2>1 DEF SlotLimit
<1>16. ClosedAreCancelled'
  BY <1>3, <1>6 DEF ClosedAreCancelled, closeState
<1>17. CancelMarks'
  <2> SUFFICES ASSUME NEW c \in Callers
               PROVE  /\ pc'[c] = "idle" => call'[c].answer = "none"
                      /\ pc'[c] = "cancel_fire" => call'[c].serial \in Serials
                      /\ call'[c].answer = "waiting" =>
                           LET u == call'[c].serial IN
                           /\ u \in Serials /\ u <= registered'
                           /\ ~ticket'[u].admitted
                           /\ u \in Unended' => live'[ticket'[u].id].cancelled
    BY DEF CancelMarks
  <2>1. pc'[c] = pc[c] /\ call'[c] = call[c]
    BY <1>1, <1>2, <1>6 DEF Threads
  <2> DEFINE u == call[c].serial
  <2>2. ASSUME call[c].answer = "waiting"
        PROVE  /\ u \in Serials /\ u <= registered' /\ ~ticket'[u].admitted
               /\ u \in Unended' => live'[ticket'[u].id].cancelled
    <3>1. u \in Serials /\ u <= registered /\ ~ticket[u].admitted
          /\ (u \in Unended => live[ticket[u].id].cancelled)
      BY <2>2 DEF CancelMarks
    <3>2. u # s
      BY <1>3, <1>4, <3>1
    <3>3. u \in Unended => live'[ticket[u].id] = live[ticket[u].id]
      BY <1>3, <1>9, <3>2 DEF TicketsOwnLive, TicketHistory, Unended
    <3> QED
      BY <1>6, <1>7, <1>11, <3>1, <3>2, <3>3
  <2> QED
    BY <2>1, <2>2 DEF CancelMarks
<1> QED
  BY <1>12, <1>13, <1>14, <1>15, <1>16, <1>17

\* The end of an operation removes the entry it owns, and gives back the slot it
\* holds if it holds one.
LEMMA EndStep ==
  ASSUME IInv, NEW s \in Unended, NEW cleanup \in Cleanup \cup {None},
         End(s, cleanup)
  PROVE  IInv'
<1> USE DEF IInv
<1> DEFINE id == ticket[s].id
<1>1. /\ s \in Serials /\ s \in Threads /\ s \notin Callers /\ id \in Ids
      /\ s <= registered
  BY DEF Unended, Threads, TicketHistory
<1>2. /\ PcTypes' /\ pc'[s] = "ended"
      /\ \A u \in Threads : u # s => pc'[u] = pc[u]
  BY <1>1, GotoType DEF End, OperationPcs
<1>3. live[id].serial = s
  BY DEF TicketsOwnLive
<1>4. /\ live' = [live EXCEPT ![id] = NotLive]
      /\ live' \in [Ids -> LiveEntry \cup {NotLive}] /\ live'[id] = NotLive
      /\ \A i \in Ids : i # id => live'[i] = live[i]
  <2>1. live' = [live EXCEPT ![id] = NotLive]
    BY <1>3 DEF End, is_live
  <2> QED
    BY <1>1, <2>1 DEF TypeOK, StateTypes
<1>5. /\ ticket' \in [Serials -> Tickets]
      /\ \A u \in Serials : /\ ticket'[u].id = ticket[u].id
                            /\ ticket'[u].admitted = ticket[u].admitted
  BY <1>1 DEF End, TypeOK, Tickets
<1>6. UNCHANGED <<registered, closeState, sleeping, call, fired, hook>>
  BY DEF End
<1>7. /\ LiveIds' = LiveIds \ {id} /\ Unended' = Unended \ {s}
      /\ Holders' = Holders \ {s}
  BY <1>1, <1>2, <1>4 DEF LiveIds, Unended, Holders, Threads
<1>8. s \in Holders <=> ticket[s].admitted
  BY <1>1 DEF Holders, TicketHistory, Unended
<1>9. running' = Cardinality(Holders') /\ running' \in Nat /\ running' <= LIMIT
  <2>1. /\ IsFiniteSet(Holders) /\ running = Cardinality(Holders)
        /\ running \in Nat /\ running <= LIMIT
        /\ running' = IF ticket[s].admitted THEN running - 1 ELSE running
    BY HoldersFinite DEF SlotLimit, TypeOK, StateTypes, End, slotsAfter
  <2>2. /\ Cardinality(Holders \ {s}) =
             IF s \in Holders THEN Cardinality(Holders) - 1
             ELSE Cardinality(Holders)
        /\ Cardinality(Holders \ {s}) \in Nat
    BY <2>1, FS_RemoveElement, FS_CardinalityType
  <2> QED
    BY <1>7, <1>8, <2>1, <2>2
<1>10. /\ aggregate' \in Counts
       /\ cancellations' \in Seq(Serials \X Cleanup)
       /\ Len(cancellations') <= RECORDED_CANCELLATIONS
  <2>1. cleanup # None => cleanup \in Cleanup
    OBVIOUS
  <2>2. aggregate' \in Counts
    BY <2>1, AggregateType DEF End, TypeOK, StateTypes
  <2>3. /\ cancellations' \in Seq(Serials \X Cleanup)
        /\ Len(cancellations') <= RECORDED_CANCELLATIONS
    BY <1>1, <2>1, RecordedType DEF End, TypeOK, StateTypes
  <2> QED
    BY <2>2, <2>3
<1>11. TypeOK'
  <2>1. StateTypes'
    BY <1>4, <1>6, <1>9, <1>10 DEF TypeOK, StateTypes, closeState
  <2> QED
    BY <1>2, <1>5, <1>6, <2>1 DEF TypeOK
<1>12. TicketHistory'
  BY <1>1, <1>2, <1>5, <1>6 DEF TicketHistory, Threads
<1>13. TicketsOwnLive'
  <2>1. ASSUME NEW u \in Unended, u # s
        PROVE  /\ live'[ticket'[u].id].serial = u
               /\ live'[ticket'[u].id].running <=> pc'[u] = "running"
    <3>1. /\ u \in Serials /\ ticket[u].id \in Ids
          /\ live[ticket[u].id].serial = u
          /\ live[ticket[u].id].running <=> pc[u] = "running"
      BY DEF Unended, TicketHistory, TicketsOwnLive
    <3>2. live'[ticket[u].id] = live[ticket[u].id] /\ pc'[u] = pc[u]
      BY <1>2, <1>3, <1>4, <2>1, <3>1 DEF Threads
    <3> QED
      BY <1>5, <3>1, <3>2
  <2>2. ASSUME NEW i \in LiveIds, i # id
        PROVE  /\ live'[i].serial \in Unended \ {s}
               /\ ticket'[live'[i].serial].id = i
    <3>1. /\ i \in Ids /\ live[i].serial \in Unended /\ live[i].serial \in Serials
          /\ ticket[live[i].serial].id = i
      BY LiveSerial
    <3> QED
      BY <1>4, <1>5, <2>2, <3>1
  <2> QED
    BY <1>7, <2>1, <2>2 DEF TicketsOwnLive
<1>14. SlotLimit'
  BY <1>9 DEF SlotLimit
<1>15. ClosedAreCancelled'
  BY <1>4, <1>6, <1>7 DEF ClosedAreCancelled, closeState, LiveIds
<1>16. CancelMarks'
  <2> SUFFICES ASSUME NEW c \in Callers
               PROVE  /\ pc'[c] = "idle" => call'[c].answer = "none"
                      /\ pc'[c] = "cancel_fire" => call'[c].serial \in Serials
                      /\ call'[c].answer = "waiting" =>
                           LET u == call'[c].serial IN
                           /\ u \in Serials /\ u <= registered'
                           /\ ~ticket'[u].admitted
                           /\ u \in Unended' => live'[ticket'[u].id].cancelled
    BY DEF CancelMarks
  <2>1. pc'[c] = pc[c] /\ call'[c] = call[c]
    BY <1>1, <1>2, <1>6 DEF Threads
  <2> DEFINE u == call[c].serial
  <2>2. ASSUME call[c].answer = "waiting"
        PROVE  /\ u \in Serials /\ u <= registered' /\ ~ticket'[u].admitted
               /\ u \in Unended' => live'[ticket'[u].id].cancelled
    <3>1. u \in Serials /\ u <= registered /\ ~ticket[u].admitted
          /\ (u \in Unended => live[ticket[u].id].cancelled)
      BY <2>2 DEF CancelMarks
    <3>2. u \in Unended /\ u # s => live'[ticket[u].id] = live[ticket[u].id]
      BY <1>3, <1>4 DEF TicketsOwnLive, TicketHistory, Unended
    <3> QED
      BY <1>5, <1>6, <1>7, <3>1, <3>2
  <2> QED
    BY <2>1, <2>2 DEF CancelMarks
<1> QED
  BY <1>11, <1>12, <1>13, <1>14, <1>15, <1>16

LEMMA OperationSteps ==
  ASSUME IInv, NEW s \in Serials, Operation(s)
  PROVE  IInv'
<1>1. CASE Admit(s) \/ EndNotifies(s)
  BY <1>1, QuietOperationSteps, GrantedStep DEF Admit
<1>2. CASE FinishRefused(s)
  BY <1>2, EndStep DEF FinishRefused, Unended
<1>3. CASE FinishRan(s)
  <2>1. PICK cleanup \in Cleanup \cup {None} : End(s, cleanup)
    BY <1>3, CleanupTypes DEF FinishRan
  <2> QED
    BY <1>3, <2>1, EndStep DEF FinishRan, Unended
<1>4. CASE Drop(s)
  BY <1>4, EndStep DEF Drop, Unended
<1> QED
  BY <1>1, <1>2, <1>3, <1>4 DEF Operation

THEOREM StepInv == IInv /\ [Next]_vars => IInv'
<1> SUFFICES ASSUME IInv, [Next]_vars PROVE IInv'
  OBVIOUS
<1>1. CASE \E id \in Ids, transport \in BOOLEAN : Register(id, transport)
  BY <1>1, RegisterStep
<1>2. CASE \E s \in Serials : Operation(s)
  BY <1>2, OperationSteps
<1>3. CASE \E c \in Callers : Begin(c)
  BY <1>3, CancelSteps, CloseSteps DEF Begin
<1>4. CASE \E c \in Callers : Continue(c) \/ Expire(c)
  BY <1>4, CallerSteps
<1>5. CASE \E t \in Threads : SpuriousWake(t)
  BY <1>5, WakeStep
<1>6. CASE UNCHANGED vars
  <2>1. TypeOK'
    BY <1>6 DEF IInv, TypeOK, StateTypes, PcTypes, vars, state, closeState, ended
  <2> QED
    BY <1>6, <2>1, Framed DEF vars, state, closeState
<1> QED
  BY <1>1, <1>2, <1>3, <1>4, <1>5, <1>6 DEF Next

-----------------------------------------------------------------------------
\* IInv is an invariant: it holds at first and every step keeps it.
THEOREM Invariance == Spec => []IInv
<1> QED
  BY InitInv, StepInv, PTL DEF Spec

\* Every value that operations.rs computes has its type, the counts included:
\* "running" never goes below zero, as an unsigned count that wraps would.
THEOREM TypeCorrectness == Spec => []TypeOK
<1>1. IInv => TypeOK
  BY DEF IInv
<1> QED
  BY <1>1, Invariance, PTL

\* At most LIMIT operations hold a slot, and "running" counts exactly those,
\* for every number of operations, callers and IDs.
THEOREM Limited == Spec => []SlotLimit
<1>1. IInv => SlotLimit
  BY DEF IInv
<1> QED
  BY <1>1, Invariance, PTL

\* An unended ticket owns the live entry of its ID, and no other does, however
\* often the ID is used again.
THEOREM Ownership == Spec => []TicketsOwnLive
<1>1. IInv => TicketsOwnLive
  BY DEF IInv
<1> QED
  BY <1>1, Invariance, PTL

\* What a cancel told its caller of a waiting operation stays true.
THEOREM CancelledWaiting == Spec => []CancelledWaitingNeverRuns
<1>1. IInv => CancelledWaitingNeverRuns
  BY DEF IInv, CancelMarks, CancelledWaitingNeverRuns
<1> QED
  BY <1>1, Invariance, PTL

\* A closing host registers nothing and admits nothing.
THEOREM ClosedStartsNothing == Spec => NothingStartsAfterClose
<1> DEFINE Still == closing => /\ registered' = registered
                               /\ \A s \in Serials :
                                    ticket'[s].admitted = ticket[s].admitted
<1>1. ASSUME IInv, [Next]_vars PROVE [Still]_vars
  <2> SUFFICES ASSUME closing PROVE Still
    OBVIOUS
  <2>1. ASSUME UNCHANGED <<registered, ticket>> PROVE Still
    BY <2>1
  <2>2. ASSUME NEW s \in Serials, NEW cleanup, End(s, cleanup) PROVE Still
    BY <2>2 DEF End, IInv, TypeOK, Tickets
  <2>3. CASE \E id \in Ids, transport \in BOOLEAN : Register(id, transport)
    BY <2>3 DEF Register, mayRegister
  <2>4. CASE \E s \in Serials : Operation(s)
    <3> PICK s \in Serials : Operation(s)
      BY <2>4
    <3>1. CASE AdmitRefused(s) \/ AdmitWaits(s) \/ EndNotifies(s)
      BY <2>1, <3>1
      DEF AdmitRefused, AdmitWaits, EndNotifies, NotifyAll, Sleep, state
    <3>2. ~AdmitGranted(s)
      BY DEF AdmitGranted, refused
    <3>3. CASE FinishRefused(s) \/ FinishRan(s) \/ Drop(s)
      BY <2>2, <3>3 DEF FinishRefused, FinishRan, Drop
    <3> QED
      BY <3>1, <3>2, <3>3 DEF Operation, Admit
  <2>5. ASSUME NEW c \in Callers, Begin(c) PROVE Still
    <3>1. CASE \E exit \in BOOLEAN : CloseFirst(c, exit) \/ CloseLater(c, exit)
      BY <2>1, <3>1 DEF CloseFirst, CloseLater, state
    <3>2. CASE \E id \in Ids : CancelFails(c, id) \/ CancelWaiting(c, id) \/ CancelRunning(c, id)
      BY <2>1, <3>2 DEF CancelFails, CancelWaiting, CancelRunning, state
    <3> QED
      BY <2>5, <3>1, <3>2 DEF Begin
  <2>6. CASE \E c \in Callers : Continue(c) \/ Expire(c)
    BY <2>1, <2>6
    DEF Continue, Expire, NotifyAll, Sleep, state, CancelNotifies, CancelFires,
        CancelEnded, CancelWaits, CancelTimesOut, CloseNotifies, CloseFires,
        CloseFired, CloseWaits, CloseReports, ClosePublishes, JoinWaits,
        JoinReturns, CloseReturns
  <2>7. CASE \E t \in Threads : SpuriousWake(t)
    BY <2>1, <2>7 DEF SpuriousWake, state
  <2>8. CASE UNCHANGED vars
    BY <2>1, <2>8 DEF vars, state
  <2> QED
    BY <1>1, <2>3, <2>4, <2>5, <2>6, <2>7, <2>8 DEF Next
<1>2. Spec => [][Still]_vars
  BY <1>1, Invariance, PTL DEF Spec
<1> QED
  BY <1>2 DEF NothingStartsAfterClose
=============================================================================

------------------------- MODULE HostAnswersProofs --------------------------
(***************************************************************************)
(* Proofs about what HostOperations tells its callers, and about who wakes *)
(* them: the reports of close, the exit hook, the aim and the answer of    *)
(* cancel, and the wakeups of one condition variable.                      *)
(***************************************************************************)
EXTENDS HostOperationsProofs

USE HostAssumption, NoneAssumption

-----------------------------------------------------------------------------
(* The kinds of steps.                                                      *)

\* A step of thread t leaves the others where they are.
Moves(t) == \A u \in Threads : u # t => pc'[u] = pc[u]

\* A call has no effect on the locals of another.
OwnLocals(c) == \A d \in Callers : d # c => call'[d] = call[d]

\* A step of an operation's thread that changes no ticket and no entry.
Looks(s) == AdmitRefused(s) \/ AdmitWaits(s) \/ EndNotifies(s)

\* A wait that ends by itself, and a step of another system.
Wakes == /\ UNCHANGED <<state, pc, ticket, call, fired, hook>>
         /\ sleeping' \subseteq sleeping

LEMMA StepKinds ==
  ASSUME IInv, [Next]_vars
  PROVE  \/ \E id \in Ids, transport \in BOOLEAN : Register(id, transport)
         \/ \E s \in Unended, cleanup \in Cleanup \cup {None} : End(s, cleanup)
         \/ \E s \in Serials : AdmitGranted(s) \/ Looks(s)
         \/ \E c \in Callers : Begin(c) \/ Continue(c) \/ Expire(c)
         \/ Wakes
<1>1. ASSUME NEW s \in Serials, FinishRefused(s) \/ FinishRan(s) \/ Drop(s)
      PROVE  s \in Unended /\ \E cleanup \in Cleanup \cup {None} : End(s, cleanup)
  BY <1>1, CleanupTypes DEF FinishRefused, FinishRan, Drop, Unended
<1>2. CASE \E s \in Serials : Operation(s)
  BY <1>1, <1>2 DEF Operation, Admit, Looks
<1>3. CASE UNCHANGED vars \/ \E t \in Threads : SpuriousWake(t)
  BY <1>3 DEF vars, SpuriousWake, Wakes
<1> QED
  BY <1>2, <1>3 DEF Next

LEMMA ThreadKinds ==
  /\ \A c \in Callers : c \in Threads /\ c \notin Serials
  /\ \A s \in Serials : s \in Threads /\ s \notin Callers
  BY DEF Threads

LEMMA GotoMoves ==
  ASSUME TypeOK, NEW t \in Threads, NEW from, NEW to, Goto(t, from, to)
  PROVE  pc[t] = from /\ pc'[t] = to /\ t \notin sleeping /\ Moves(t)
  BY DEF TypeOK, PcTypes, Goto, Moves

\* Registration: the next ticket, and the entry of an ID that had none.
LEMMA RegisterEffect ==
  ASSUME IInv, NEW id \in Ids, NEW transport \in BOOLEAN, Register(id, transport)
  PROVE  LET s == registered + 1 IN
         /\ s \in Serials /\ ~closing /\ id \notin LiveIds
         /\ pc[s] = "idle" /\ pc'[s] = "registered" /\ Moves(s)
         /\ ticket'[s].id = id /\ ticket'[s].transport = transport
         /\ ticket'[s].admitted = ticket[s].admitted
         /\ ticket'[s].cleanup = ticket[s].cleanup
         /\ \A u \in Serials : u # s => ticket'[u] = ticket[u]
         /\ live'[id] = [serial |-> s, running |-> FALSE, cancelled |-> FALSE,
                         canceller |-> transport]
         /\ \A i \in Ids : i # id => live'[i] = live[i]
         /\ LiveIds' = LiveIds \cup {id} /\ Unended' = Unended \cup {s}
         /\ UNCHANGED <<running, closing, exiting, report, aggregate,
                        cancellations, sleeping, call, fired, hook>>
<1> DEFINE s == registered + 1
           entry == [serial |-> s, running |-> FALSE, cancelled |-> FALSE,
                     canceller |-> transport]
<1>1. s \in Serials /\ s \in Threads
  BY DEF Register, Serials, Threads, IInv, TypeOK, StateTypes
<1>2. pc[s] = "idle" /\ pc'[s] = "registered" /\ Moves(s)
  BY <1>1, GotoMoves DEF Register, IInv
<1>3. ~closing /\ id \notin LiveIds
  BY DEF Register, mayRegister, LiveIds
<1>4. /\ ticket'[s].id = id /\ ticket'[s].transport = transport
      /\ ticket'[s].admitted = ticket[s].admitted
      /\ ticket'[s].cleanup = ticket[s].cleanup
      /\ \A u \in Serials : u # s => ticket'[u] = ticket[u]
  BY <1>1 DEF Register, IInv, TypeOK, Tickets
<1>5. live'[id] = entry /\ \A i \in Ids : i # id => live'[i] = live[i]
  BY DEF Register, IInv, TypeOK, StateTypes
<1>6. entry # NotLive
  BY <1>1 DEF NotLive, Serials
<1> HIDE DEF entry
<1>7. LiveIds' = LiveIds \cup {id}
  BY <1>5, <1>6 DEF LiveIds
<1>8. Unended' = Unended \cup {s}
  BY <1>1, <1>2, ThreadKinds DEF Unended, Moves
<1>9. UNCHANGED <<running, closing, exiting, report, aggregate,
                  cancellations, sleeping, call, fired, hook>>
  BY DEF Register, closeState, ended
<1> QED
  BY <1>1, <1>2, <1>3, <1>4, <1>5, <1>7, <1>8, <1>9 DEF entry

LEMMA RegisterKeepsOthers ==
  ASSUME IInv, NEW id \in Ids, NEW transport \in BOOLEAN, Register(id, transport)
  PROVE  \A i \in Ids : i # id => live'[i] = live[i]
BY DEF Register, IInv, TypeOK, StateTypes

\* The end of an operation: its own entry leaves, and its cleanup is known.
LEMMA EndEffect ==
  ASSUME IInv, NEW s \in Unended, NEW cleanup \in Cleanup \cup {None},
         End(s, cleanup)
  PROVE  /\ s \in Serials /\ ticket[s].id \in Ids
         /\ live[ticket[s].id].serial = s
         /\ pc'[s] = "ended" /\ Moves(s) /\ s \notin sleeping
         /\ ticket'[s].id = ticket[s].id
         /\ ticket'[s].transport = ticket[s].transport
         /\ ticket'[s].admitted = ticket[s].admitted
         /\ ticket'[s].cleanup = cleanup
         /\ \A u \in Serials : u # s => ticket'[u] = ticket[u]
         /\ live'[ticket[s].id] = NotLive
         /\ \A i \in Ids : i # ticket[s].id => live'[i] = live[i]
         /\ LiveIds' = LiveIds \ {ticket[s].id} /\ Unended' = Unended \ {s}
         /\ aggregate' = IF cleanup = None THEN aggregate
                                           ELSE add(aggregate, cleanup)
         /\ cancellations' =
              IF cleanup # None /\ live[ticket[s].id].cancelled
              THEN recorded(s, cleanup) ELSE cancellations
         /\ UNCHANGED <<registered, closing, exiting, report, sleeping, call,
                        fired, hook>>
<1>1. s \in Serials /\ s \in Threads
  BY ThreadKinds DEF Unended
<1>2. ticket[s].id \in Ids /\ live[ticket[s].id].serial = s
  BY <1>1 DEF IInv, TicketHistory, TicketsOwnLive, Unended
<1>3. pc'[s] = "ended" /\ Moves(s) /\ s \notin sleeping
  BY <1>1, GotoMoves DEF End, IInv
<1>4. /\ ticket'[s].id = ticket[s].id
      /\ ticket'[s].transport = ticket[s].transport
      /\ ticket'[s].admitted = ticket[s].admitted
      /\ ticket'[s].cleanup = cleanup
      /\ \A u \in Serials : u # s => ticket'[u] = ticket[u]
  BY <1>1 DEF End, IInv, TypeOK, Tickets
<1>5. /\ live'[ticket[s].id] = NotLive
      /\ \A i \in Ids : i # ticket[s].id => live'[i] = live[i]
  BY <1>2 DEF End, is_live, IInv, TypeOK, StateTypes
<1>6. LiveIds' = LiveIds \ {ticket[s].id}
  BY <1>2, <1>5 DEF LiveIds
<1>7. Unended' = Unended \ {s}
  BY <1>1, <1>3, ThreadKinds DEF Unended, Moves
<1>8. /\ aggregate' = IF cleanup = None THEN aggregate
                                        ELSE add(aggregate, cleanup)
      /\ cancellations' = IF cleanup # None /\ live[ticket[s].id].cancelled
                          THEN recorded(s, cleanup) ELSE cancellations
      /\ UNCHANGED <<registered, closing, exiting, report, sleeping, call,
                     fired, hook>>
  BY <1>2 DEF End, is_live, closeState
<1> QED
  BY <1>1, <1>2, <1>3, <1>4, <1>5, <1>6, <1>7, <1>8

\* Admission: a slot is taken, and only then.
LEMMA GrantEffect ==
  ASSUME IInv, NEW s \in Serials, AdmitGranted(s)
  PROVE  /\ pc[s] \in {"registered", "waiting"} /\ pc'[s] = "running"
         /\ Moves(s) /\ s \notin sleeping
         /\ ticket[s].id \in Ids /\ live[ticket[s].id].serial = s
         /\ running' = running + 1
         /\ live' = [live EXCEPT ![ticket[s].id].running = TRUE]
         /\ \A i \in Ids : /\ live'[i].serial = live[i].serial
                           /\ live'[i].cancelled = live[i].cancelled
                           /\ live'[i].canceller = live[i].canceller
         /\ ticket'[s].admitted
         /\ \A u \in Serials : /\ ticket'[u].id = ticket[u].id
                               /\ ticket'[u].transport = ticket[u].transport
                               /\ ticket'[u].cleanup = ticket[u].cleanup
                               /\ ticket[u].admitted => ticket'[u].admitted
         /\ LiveIds' = LiveIds /\ Unended' = Unended
         /\ UNCHANGED <<registered, closing, exiting, report, aggregate,
                        cancellations, sleeping, call, fired, hook>>
<1>1. s \in Threads
  BY ThreadKinds
<1>2. /\ pc[s] \in {"registered", "waiting"} /\ pc'[s] = "running"
      /\ Moves(s) /\ s \notin sleeping
  BY <1>1, GotoMoves DEF AdmitGranted, Admitting, IInv
<1>3. s \in Unended
  BY <1>2 DEF Unended
<1>4. ticket[s].id \in Ids /\ live[ticket[s].id].serial = s
  BY <1>3 DEF IInv, TicketHistory, TicketsOwnLive, Unended
<1>5. ticket[s].id \in LiveIds /\ live[ticket[s].id] \in LiveEntry
  BY <1>4 DEF IInv, TypeOK, StateTypes, LiveIds, NotLive, Serials
<1>6. /\ running' = running + 1
      /\ live' = [live EXCEPT ![ticket[s].id].running = TRUE]
      /\ UNCHANGED <<registered, closing, exiting, report, aggregate,
                     cancellations, sleeping, call, fired, hook>>
  BY DEF AdmitGranted, closeState, ended
<1>7. \A i \in Ids : /\ live'[i].serial = live[i].serial
                     /\ live'[i].cancelled = live[i].cancelled
                     /\ live'[i].canceller = live[i].canceller
                     /\ i # ticket[s].id => live'[i] = live[i]
  BY <1>4, <1>5, <1>6 DEF IInv, TypeOK, StateTypes, LiveEntry
<1>8. live'[ticket[s].id] # NotLive
  BY <1>4, <1>7 DEF NotLive, Serials
<1>9. LiveIds' = LiveIds
  BY <1>5, <1>7, <1>8 DEF LiveIds
<1>10. Unended' = Unended
  BY <1>1, <1>2, ThreadKinds DEF Unended, Moves
<1>11. /\ ticket'[s].admitted
       /\ \A u \in Serials : /\ ticket'[u].id = ticket[u].id
                             /\ ticket'[u].transport = ticket[u].transport
                             /\ ticket'[u].cleanup = ticket[u].cleanup
                             /\ ticket[u].admitted => ticket'[u].admitted
  BY DEF AdmitGranted, IInv, TypeOK, Tickets
<1> QED
  BY <1>2, <1>4, <1>6, <1>7, <1>9, <1>10, <1>11

LEMMA LookEffect ==
  ASSUME IInv, NEW s \in Serials, Looks(s)
  PROVE  /\ Moves(s) /\ s \notin sleeping
         /\ \/ {pc[s], pc'[s]} \subseteq {"registered", "waiting", "refused"}
            \/ pc[s] = "ended" /\ pc'[s] = "done"
         /\ Unended' = Unended
         /\ UNCHANGED <<live, running, registered, closing, exiting, report,
                        aggregate, cancellations, ticket, call, fired, hook>>
<1>1. PICK to : /\ Goto(s, pc[s], to)
                /\ \/ {pc[s], to} \subseteq {"registered", "waiting", "refused"}
                   \/ pc[s] = "ended" /\ to = "done"
  BY DEF Looks, AdmitRefused, AdmitWaits, EndNotifies, NotifyAll, Admitting, Goto
<1>2. Moves(s) /\ s \notin sleeping /\ pc'[s] = to
  BY <1>1, GotoMoves, ThreadKinds DEF IInv
<1>3. Unended' = Unended
  BY <1>1, <1>2, ThreadKinds DEF Unended, Moves
<1>4. UNCHANGED <<live, running, registered, closing, exiting, report,
                  aggregate, cancellations, ticket, call, fired, hook>>
  BY DEF Looks, AdmitRefused, AdmitWaits, EndNotifies, NotifyAll, Sleep, state,
         closeState, ended
<1> QED
  BY <1>1, <1>2, <1>3, <1>4

\* A call moves no operation and holds no slot; all it does to an entry is to
\* mark it as cancelled.
LEMMA CallEffect ==
  ASSUME IInv, NEW c \in Callers, Begin(c) \/ Continue(c) \/ Expire(c)
  PROVE  /\ Moves(c) /\ OwnLocals(c)
         /\ Unended' = Unended /\ LiveIds' = LiveIds
         /\ \A i \in Ids : /\ live'[i].serial = live[i].serial
                           /\ live'[i].running = live[i].running
                           /\ live'[i].canceller = live[i].canceller
                           /\ live[i].cancelled => live'[i].cancelled
         /\ UNCHANGED <<running, registered, aggregate, cancellations, ticket>>
<1>0. c \in Threads /\ c \notin Serials
  BY ThreadKinds
<1>1. Moves(c)
  BY <1>0, GotoMoves
  DEF IInv, Begin, Continue, CancelFails, CancelWaiting, CancelRunning,
      CloseFirst, CloseLater, CancelNotifies, CancelFires, CancelEnded,
      CancelWaits, CancelTimesOut, CloseNotifies, CloseFires, CloseFired,
      CloseWaits, CloseReports, ClosePublishes, JoinWaits, JoinReturns,
      CloseReturns, NotifyAll, Expire, Moves
<1>2. OwnLocals(c)
  BY DEF IInv, TypeOK, OwnLocals, Begin, Continue, CancelFails, CancelWaiting,
      CancelRunning, CloseFirst, CloseLater, CancelNotifies, CancelFires,
      CancelEnded, CancelWaits, CancelTimesOut, CloseNotifies, CloseFires,
      CloseFired, CloseWaits, CloseReports, ClosePublishes, JoinWaits,
      JoinReturns, CloseReturns, NotifyAll, Sleep, Answers, Expire
<1>3. UNCHANGED <<running, registered, aggregate, cancellations, ticket>>
  BY DEF Begin, Continue, CancelFails, CancelWaiting,
      CancelRunning, CloseFirst, CloseLater, CancelNotifies, CancelFires,
      CancelEnded, CancelWaits, CancelTimesOut, CloseNotifies, CloseFires,
      CloseFired, CloseWaits, CloseReports, ClosePublishes, JoinWaits,
      JoinReturns, CloseReturns, NotifyAll, Sleep, Expire, state, ended
<1>4. \A i \in Ids : \/ live'[i] = live[i]
                     \/ /\ i \in LiveIds
                        /\ live'[i] = [live[i] EXCEPT !.cancelled = TRUE]
  <2>1. ASSUME NEW id \in Ids, CancelWaiting(c, id) \/ CancelRunning(c, id)
        PROVE  \A i \in Ids : \/ live'[i] = live[i]
                              \/ /\ i \in LiveIds
                                 /\ live'[i] = [live[i] EXCEPT !.cancelled = TRUE]
    <3>1. live' = [live EXCEPT ![id] = [live[id] EXCEPT !.cancelled = TRUE]]
      BY <2>1 DEF CancelWaiting, CancelRunning, IInv, TypeOK, StateTypes
    <3>2. live[id] # NotLive
      BY <2>1 DEF CancelWaiting, CancelRunning, NotLive
    <3> QED
      BY <3>1, <3>2 DEF LiveIds, IInv, TypeOK, StateTypes
  <2>2. ASSUME NEW exit, CloseFirst(c, exit)
        PROVE  \A i \in Ids : \/ live'[i] = live[i]
                              \/ /\ i \in LiveIds
                                 /\ live'[i] = [live[i] EXCEPT !.cancelled = TRUE]
    BY <2>2 DEF CloseFirst, LiveIds
  <2>3. ASSUME live' = live
        PROVE  \A i \in Ids : \/ live'[i] = live[i]
                              \/ /\ i \in LiveIds
                                 /\ live'[i] = [live[i] EXCEPT !.cancelled = TRUE]
    BY <2>3
  <2>4. \/ live' = live
        \/ \E id \in Ids : CancelWaiting(c, id) \/ CancelRunning(c, id)
        \/ \E exit \in BOOLEAN : CloseFirst(c, exit)
    BY DEF Begin, Continue, CancelFails, CloseLater, CancelNotifies,
      CancelFires, CancelEnded, CancelWaits, CancelTimesOut, CloseNotifies,
      CloseFires, CloseFired, CloseWaits, CloseReports, ClosePublishes,
      JoinWaits, JoinReturns, CloseReturns, NotifyAll, Sleep, Expire, state
  <2> QED
    BY <2>1, <2>2, <2>3, <2>4
<1>5. LiveIds' = LiveIds /\ Unended' = Unended
  BY <1>0, <1>1, <1>3, <1>4, Marked, ThreadKinds DEF Moves
<1>6. \A i \in Ids : /\ live'[i].serial = live[i].serial
                     /\ live'[i].running = live[i].running
                     /\ live'[i].canceller = live[i].canceller
                     /\ live[i].cancelled => live'[i].cancelled
  <2> SUFFICES ASSUME NEW i \in Ids
               PROVE  /\ live'[i].serial = live[i].serial
                      /\ live'[i].running = live[i].running
                      /\ live'[i].canceller = live[i].canceller
                      /\ live[i].cancelled => live'[i].cancelled
    OBVIOUS
  <2>1. CASE live'[i] = live[i]
    BY <2>1
  <2>2. CASE i \in LiveIds /\ live'[i] = [live[i] EXCEPT !.cancelled = TRUE]
    <3>1. live[i] \in LiveEntry
      BY <2>2, LiveSerial
    <3> QED
      BY <2>2, <3>1 DEF LiveEntry
  <2> QED
    BY <1>4, <2>1, <2>2
<1> QED
  BY <1>1, <1>2, <1>3, <1>5, <1>6
-----------------------------------------------------------------------------
(* What closes report, and the exit hook.                                   *)

\* The places of a call of close, and of the first one before it reports.
OfClose == {"close_notify", "close_fire", "close_wait", "close_publish",
            "close_done", "join_wait"}
Unreported == {"close_notify", "close_fire", "close_wait"}

\* One close comes first, and only it makes the report: until it does there is
\* none, and an answer "closed" or "joined" is that report.
OneReport ==
  /\ ~closing => report = None
  /\ \A c \in Callers :
       /\ pc[c] \in OfClose => closing
       /\ pc[c] \in Unreported => report = None
       /\ call[c].answer \in {"closed", "joined"} =>
            report # None /\ call[c].report = report
  /\ \A c, d \in Callers :
       pc[c] \in Unreported /\ pc[d] \in Unreported => c = d

\* The hook goes when nothing is live in a host that registers nothing more.
HookInv == ~hook => closing /\ LiveIds = {}

CloseInv == OneReport /\ HookInv

LEMMA NothingLive == IInv /\ LiveIds = {} => Unended = {}
<1> SUFFICES ASSUME IInv, LiveIds = {}, NEW s \in Unended PROVE FALSE
  OBVIOUS
<1>1. s \in Serials /\ ticket[s].id \in Ids /\ live[ticket[s].id].serial = s
  BY DEF IInv, TicketHistory, TicketsOwnLive, Unended
<1> QED
  BY <1>1 DEF LiveIds, NotLive, Serials

\* A step of the call c that neither begins a first close nor makes a report.
LEMMA CloseStands ==
  ASSUME CloseInv, NEW c \in Callers, Moves(c), OwnLocals(c), LiveIds' = LiveIds,
         UNCHANGED <<closing, report>>,
         pc'[c] \in OfClose => closing,
         pc'[c] \in Unreported => pc[c] \in Unreported,
         call'[c].answer \in {"closed", "joined"} =>
           \/ /\ call'[c].answer = call[c].answer
              /\ call'[c].report = call[c].report
           \/ report # None /\ call'[c].report = report,
         hook' = hook \/ (closing /\ LiveIds = {})
  PROVE  CloseInv'
<1>1. \A d \in Callers : d # c => pc'[d] = pc[d] /\ call'[d] = call[d]
  BY ThreadKinds DEF Moves, OwnLocals
<1>2. OneReport'
  BY <1>1 DEF CloseInv, OneReport
<1>3. HookInv'
  BY DEF CloseInv, HookInv
<1> QED
  BY <1>2, <1>3 DEF CloseInv

LEMMA CloseInvOfCalls ==
  ASSUME IInv, CloseInv, NEW c \in Callers, Begin(c) \/ Continue(c) \/ Expire(c)
  PROVE  CloseInv'
<1> USE DEF OfClose, Unreported
<1>0. /\ Moves(c) /\ OwnLocals(c) /\ LiveIds' = LiveIds
      /\ c \in Threads /\ c \notin Serials /\ TypeOK
      /\ pc \in [Threads -> OperationPcs \cup CallPcs]
      /\ call \in [Callers -> Locals]
  BY CallEffect, ThreadKinds DEF IInv, TypeOK, PcTypes
<1>1. ASSUME UNCHANGED <<closing, report, call, hook>>,
             pc'[c] \in OfClose => pc[c] \in OfClose,
             pc'[c] \in Unreported => pc[c] \in Unreported
      PROVE  CloseInv'
  BY <1>0, <1>1, CloseStands DEF CloseInv, OneReport
<1>2. ASSUME UNCHANGED <<closing, report, hook>>,
             pc'[c] \notin OfClose, call'[c].answer \notin {"closed", "joined"}
      PROVE  CloseInv'
  BY <1>0, <1>2, CloseStands
<1>3. CASE \E id \in Ids : CancelFails(c, id)
  <2>1. PICK answer \in {"InvalidRequest", "UnsupportedOperation"} :
          Answers(c, answer, None)
    BY <1>3 DEF CancelFails
  <2>2. pc'[c] = "returned" /\ UNCHANGED <<closing, report, hook>>
    BY <1>0, <1>3 DEF CancelFails, Goto, state, closeState
  <2>3. call'[c].answer = answer
    BY <1>0, <2>1 DEF Answers, Locals
  <2> QED
    BY <1>2, <2>1, <2>2, <2>3
<1>4. CASE \E id \in Ids : CancelWaiting(c, id)
  <2>1. pc'[c] = "cancel_notify" /\ UNCHANGED <<closing, report, hook>>
    BY <1>0, <1>4 DEF CancelWaiting, Goto, closeState
  <2>2. call'[c].answer = "waiting"
    BY <1>0, <1>4 DEF CancelWaiting, Locals
  <2> QED
    BY <1>2, <2>1, <2>2
<1>5. CASE \E id \in Ids : CancelRunning(c, id)
  <2>1. pc'[c] = "cancel_fire" /\ UNCHANGED <<closing, report, hook>>
        /\ pc[c] = "idle"
    BY <1>0, <1>5 DEF CancelRunning, Goto, closeState
  <2>2. call'[c].answer = call[c].answer
    BY <1>0, <1>5 DEF CancelRunning, Locals
  <2> QED
    BY <1>2, <2>1, <2>2 DEF IInv, CancelMarks
<1>6. CASE \E exit \in BOOLEAN : CloseFirst(c, exit)
  <2>1. /\ ~closing /\ closing' = TRUE /\ UNCHANGED <<report, hook>>
        /\ pc'[c] = "close_notify" /\ pc[c] = "idle"
    BY <1>0, <1>6 DEF CloseFirst, Goto
  <2>2. PICK exit, todo :
          call' = [call EXCEPT ![c].exit = exit, ![c].todo = todo]
    BY <1>0, <1>6 DEF CloseFirst
  <2>3. /\ call'[c].answer = call[c].answer
        /\ call[c].answer = "none"
    BY <1>0, <2>1, <2>2 DEF Locals, IInv, CancelMarks
  <2>4. \A d \in Callers : d # c => pc'[d] = pc[d] /\ call'[d] = call[d]
    BY <1>0, ThreadKinds DEF Moves, OwnLocals
  <2>5. report = None /\ \A d \in Callers : pc[d] \notin Unreported
    BY <2>1 DEF CloseInv, OneReport
  <2>6. OneReport'
    BY <2>1, <2>3, <2>4, <2>5 DEF CloseInv, OneReport
  <2>7. HookInv'
    BY <2>1 DEF CloseInv, HookInv
  <2> QED
    BY <2>6, <2>7 DEF CloseInv
<1>7. CASE \E exit \in BOOLEAN : CloseLater(c, exit)
  <2>1. /\ closing /\ UNCHANGED <<closing, report, hook>>
        /\ pc'[c] = "join_wait"
    BY <1>0, <1>7 DEF CloseLater, Goto
  <2>2. call'[c].answer = call[c].answer /\ call'[c].report = call[c].report
    BY <1>0, <1>7 DEF CloseLater, Locals
  <2> QED
    BY <1>0, <2>1, <2>2, CloseStands
<1>8. CASE \/ CancelNotifies(c) \/ CloseNotifies(c) \/ ClosePublishes(c)
           \/ CancelFires(c) \/ CloseFired(c)
           \/ CancelWaits(c) \/ CloseWaits(c) \/ JoinWaits(c)
  BY <1>0, <1>1, <1>8
  DEF CancelNotifies, CloseNotifies, ClosePublishes, CancelFires, CloseFired,
      CancelWaits, CloseWaits, JoinWaits, NotifyAll, Sleep, Goto, state, closeState
<1>9. CASE CancelEnded(c) \/ CancelTimesOut(c)
  <2>1. PICK answer, cleanup :
          answer \in {"cancelled", "timeout"} /\ Answers(c, answer, cleanup)
    BY <1>9 DEF CancelEnded, CancelTimesOut
  <2>2. pc'[c] = "returned" /\ UNCHANGED <<closing, report, hook>>
    BY <1>0, <1>9 DEF CancelEnded, CancelTimesOut, Goto, state, closeState
  <2>3. call'[c].answer = answer
    BY <1>0, <2>1 DEF Answers, Locals
  <2> QED
    BY <1>2, <2>1, <2>2, <2>3
<1>10. CASE CloseFires(c) \/ Expire(c)
  <2>1. pc' = pc /\ UNCHANGED <<closing, report, hook>>
    BY <1>0, <1>10 DEF CloseFires, Expire, Goto, state, closeState
  <2>2. call'[c].answer = call[c].answer /\ call'[c].report = call[c].report
    BY <1>0, <1>10 DEF CloseFires, Expire, Locals
  <2> QED
    BY <1>0, <2>1, <2>2, CloseStands DEF CloseInv, OneReport
<1>11. CASE CloseReports(c)
  <2> DEFINE first == report_of(aggregate, Cardinality(LiveIds))
  <2>1. first # None
    BY ReportType, NoneAssumption DEF IInv
  <2> HIDE DEF first
  <2>2. /\ Answers(c, "closed", first) /\ report' = first
        /\ pc[c] = "close_wait" /\ pc'[c] = "close_publish"
        /\ UNCHANGED <<closing, hook>>
    BY <1>0, <1>11 DEF CloseReports, Goto, first
  <2>3. call'[c].report = first
    BY <1>0, <2>2 DEF Answers, Locals
  <2>4. \A d \in Callers : d # c => pc'[d] = pc[d] /\ call'[d] = call[d]
    BY <1>0, ThreadKinds DEF Moves, OwnLocals
  <2>5. /\ closing /\ report = None
        /\ \A d \in Callers : pc[d] \in Unreported => d = c
        /\ \A d \in Callers : call[d].answer \notin {"closed", "joined"}
    BY <2>2 DEF CloseInv, OneReport
  <2>6. OneReport'
    BY <2>1, <2>2, <2>3, <2>4, <2>5 DEF CloseInv, OneReport
  <2>7. HookInv'
    BY <1>0, <2>2 DEF CloseInv, HookInv
  <2> QED
    BY <2>6, <2>7 DEF CloseInv
<1>12. CASE JoinReturns(c)
  <2>1. PICK answer, cleanup :
          /\ Answers(c, answer, cleanup)
          /\ answer = (IF joined(c) THEN "joined" ELSE "timeout")
          /\ joined(c) => cleanup = report
    BY <1>12 DEF JoinReturns, joined, laterReport
  <2>2. call'[c].answer = answer /\ call'[c].report = cleanup
    BY <1>0, <2>1 DEF Answers, Locals
  <2>3. /\ pc[c] = "join_wait" /\ pc'[c] = "close_done"
        /\ UNCHANGED <<closing, report, hook>>
    BY <1>0, <1>12 DEF JoinReturns, Goto, state, closeState
  <2>4. answer \in {"closed", "joined"} => report # None /\ cleanup = report
    BY <2>1 DEF joined
  <2> QED
    BY <1>0, <2>2, <2>3, <2>4, CloseStands DEF CloseInv, OneReport
<1>13. CASE CloseReturns(c)
  <2>1. /\ pc[c] = "close_done" /\ pc'[c] = "returned"
        /\ UNCHANGED <<closing, report, call>>
        /\ hook' = hook \/ LiveIds = {}
    BY <1>0, <1>13 DEF CloseReturns, Goto, state, closeState, is_idle, IInv, TypeOK
  <2> QED
    BY <1>0, <2>1, CloseStands DEF CloseInv, OneReport
<1> QED
  BY <1>3, <1>4, <1>5, <1>6, <1>7, <1>8, <1>9, <1>10, <1>11, <1>12, <1>13
  DEF Begin, Continue

LEMMA CloseInvariant == Spec => []CloseInv
<1>1. Init => CloseInv
  BY ThreadKinds DEF Init, CloseInv, OneReport, HookInv, OfClose, Unreported
<1>2. IInv /\ CloseInv /\ [Next]_vars => CloseInv'
  <2> SUFFICES ASSUME IInv, CloseInv, [Next]_vars
               PROVE  CloseInv'
    OBVIOUS
  <2>1. ASSUME UNCHANGED <<closing, report, call, hook>>,
               \A c \in Callers : pc'[c] = pc[c],
               LiveIds' \subseteq LiveIds \/ ~closing
        PROVE  CloseInv'
    BY <2>1 DEF CloseInv, OneReport, HookInv
  <2>2. CASE \E id \in Ids, transport \in BOOLEAN : Register(id, transport)
    BY <2>1, <2>2, RegisterEffect, ThreadKinds DEF Moves
  <2>3. ASSUME NEW s \in Unended, NEW cleanup \in Cleanup \cup {None},
               End(s, cleanup)
        PROVE  CloseInv'
    <3>1. /\ s \in Serials /\ Moves(s) /\ LiveIds' = LiveIds \ {ticket[s].id}
          /\ UNCHANGED <<closing, report, call, hook>>
      BY <2>3, EndEffect
    <3>2. \A c \in Callers : pc'[c] = pc[c]
      BY <3>1, ThreadKinds DEF Moves
    <3> QED
      BY <2>1, <3>1, <3>2
  <2>4. ASSUME NEW s \in Serials, AdmitGranted(s) PROVE CloseInv'
    <3>1. /\ Moves(s) /\ LiveIds' = LiveIds
          /\ UNCHANGED <<closing, report, call, hook>>
      BY <2>4, GrantEffect
    <3>2. \A c \in Callers : pc'[c] = pc[c]
      BY <3>1, ThreadKinds DEF Moves
    <3> QED
      BY <2>1, <3>1, <3>2
  <2>5. ASSUME NEW s \in Serials, Looks(s) PROVE CloseInv'
    BY <2>1, <2>5, LookEffect, ThreadKinds DEF Moves, LiveIds
  <2>6. CASE Wakes
    BY <2>1, <2>6 DEF Wakes, state, closeState, LiveIds
  <2> QED
    BY <2>2, <2>3, <2>4, <2>5, <2>6, CloseInvOfCalls, StepKinds
<1> QED
  BY <1>1, <1>2, Invariance, PTL DEF Spec

\* However closes overlap, and whatever ends after the report was made, every
\* close that waited for it returns the first close's report.
THEOREM ReportsAgree == Spec => []CloseAnswersAgree
<1>1. CloseInv => CloseAnswersAgree
  BY DEF CloseInv, OneReport, CloseAnswersAgree
<1> QED
  BY <1>1, CloseInvariant, PTL

\* The exit hook is given up only by a host that has nothing to wait for, and
\* never will have.
THEOREM HookIsKept == Spec => []HookKeptWhileLive
<1>1. IInv /\ CloseInv => HookKeptWhileLive
  BY NothingLive DEF CloseInv, HookInv, HookKeptWhileLive
<1> QED
  BY <1>1, CloseInvariant, Invariance, PTL
-----------------------------------------------------------------------------
(* What a report that confirms the peer cleanup says.                       *)

Over == {"ended", "done"}

\* The counts of the aggregate speak for the cleanups of the ended operations.
CountsAreCleanups ==
  /\ \A s \in Serials : ticket[s].cleanup # None => pc[s] \in Over
  /\ aggregate.confirmed > 0 => \E s \in Serials : ticket[s].cleanup # None
  /\ aggregate.unconfirmed = 0 =>
       \A s \in Serials : ticket[s].cleanup # None =>
                            ticket[s].cleanup.peer_cleanup_confirmed

\* A confirming report was made when nothing was live, and a closing host in
\* which nothing is live counts nothing more.
ConfirmedIsFinal ==
  report # None /\ report.peer_cleanup_confirmed =>
    LiveIds = {} /\ aggregate.confirmed > 0 /\ aggregate.unconfirmed = 0

ConfirmInv == CountsAreCleanups /\ ConfirmedIsFinal

LEMMA CountsStep ==
  ASSUME IInv, CountsAreCleanups, [Next]_vars
  PROVE  CountsAreCleanups'
<1>1. ASSUME \A s \in Serials : /\ ticket'[s].cleanup = ticket[s].cleanup
                                /\ pc[s] \in Over => pc'[s] \in Over,
             aggregate' = aggregate
      PROVE  CountsAreCleanups'
  BY <1>1 DEF CountsAreCleanups
<1>2. ASSUME NEW id \in Ids, NEW transport \in BOOLEAN, Register(id, transport)
      PROVE  CountsAreCleanups'
  <2> DEFINE s == registered + 1
  <2>1. /\ pc[s] = "idle" /\ Moves(s) /\ aggregate' = aggregate
        /\ ticket'[s].cleanup = ticket[s].cleanup
        /\ \A u \in Serials : u # s => ticket'[u] = ticket[u]
    BY <1>2, RegisterEffect
  <2> HIDE DEF s
  <2>2. \A u \in Serials : /\ ticket'[u].cleanup = ticket[u].cleanup
                           /\ pc[u] \in Over => pc'[u] \in Over
    BY <2>1, ThreadKinds DEF Moves, Over
  <2> QED
    BY <1>1, <2>1, <2>2
<1>3. ASSUME NEW s \in Unended, NEW cleanup \in Cleanup \cup {None},
             End(s, cleanup)
      PROVE  CountsAreCleanups'
  <2>1. /\ s \in Serials /\ pc'[s] = "ended" /\ Moves(s)
        /\ ticket'[s].cleanup = cleanup
        /\ \A u \in Serials : u # s => ticket'[u] = ticket[u]
        /\ aggregate' = IF cleanup = None THEN aggregate
                                          ELSE add(aggregate, cleanup)
    BY <1>3, EndEffect
  <2>2. ticket[s].cleanup = None
    BY <2>1 DEF CountsAreCleanups, Unended, Over
  <2>3. \A u \in Serials : ticket'[u].cleanup # None => pc'[u] \in Over
    BY <2>1, ThreadKinds DEF CountsAreCleanups, Moves, Over
  <2>4. CASE cleanup = None
    BY <2>1, <2>2, <2>3, <2>4 DEF CountsAreCleanups
  <2>5. CASE cleanup # None
    <3>1. /\ cleanup \in Cleanup
          /\ aggregate.confirmed \in Nat /\ aggregate.unconfirmed \in Nat
      BY <2>5 DEF IInv, TypeOK, StateTypes, Counts
    <3>2. /\ aggregate'.unconfirmed = 0 =>
               cleanup.peer_cleanup_confirmed /\ aggregate.unconfirmed = 0
      BY <2>1, <2>5, <3>1 DEF add, Cleanup
    <3> QED
      BY <2>1, <2>2, <2>3, <2>5, <3>2 DEF CountsAreCleanups
  <2> QED
    BY <2>4, <2>5
<1>4. ASSUME NEW s \in Serials, AdmitGranted(s)
      PROVE  CountsAreCleanups'
  <2>1. /\ pc[s] \in {"registered", "waiting"} /\ Moves(s) /\ aggregate' = aggregate
        /\ \A u \in Serials : ticket'[u].cleanup = ticket[u].cleanup
    BY <1>4, GrantEffect
  <2> QED
    BY <1>1, <2>1, ThreadKinds DEF Moves, Over
<1>5. ASSUME NEW s \in Serials, Looks(s)
      PROVE  CountsAreCleanups'
  <2>1. /\ Moves(s) /\ aggregate' = aggregate /\ ticket' = ticket
        /\ pc[s] \in Over => pc'[s] \in Over
    BY <1>5, LookEffect DEF Over
  <2> QED
    BY <1>1, <2>1, ThreadKinds DEF Moves
<1>6. ASSUME NEW c \in Callers, Begin(c) \/ Continue(c) \/ Expire(c)
      PROVE  CountsAreCleanups'
  <2>1. Moves(c) /\ aggregate' = aggregate /\ ticket' = ticket
    BY <1>6, CallEffect
  <2> QED
    BY <1>1, <2>1, ThreadKinds DEF Moves
<1>7. CASE Wakes
  BY <1>1, <1>7 DEF Wakes, state, ended
<1> QED
  BY <1>2, <1>3, <1>4, <1>5, <1>6, <1>7, StepKinds

LEMMA ConfirmedStep ==
  ASSUME IInv, CloseInv, ConfirmedIsFinal, [Next]_vars
  PROVE  ConfirmedIsFinal'
<1>1. ASSUME UNCHANGED <<report, aggregate>>, LiveIds' = LiveIds
      PROVE  ConfirmedIsFinal'
  BY <1>1 DEF ConfirmedIsFinal
<1>2. ASSUME NEW id \in Ids, NEW transport \in BOOLEAN, Register(id, transport)
      PROVE  ConfirmedIsFinal'
  <2>1. ~closing /\ report' = report
    BY <1>2, RegisterEffect
  <2> QED
    BY <2>1 DEF ConfirmedIsFinal, CloseInv, OneReport
<1>3. ASSUME NEW s \in Unended, NEW cleanup \in Cleanup \cup {None},
             End(s, cleanup)
      PROVE  ConfirmedIsFinal'
  <2>1. report' = report
    BY <1>3, EndEffect
  <2>2. LiveIds # {}
    BY NothingLive
  <2> QED
    BY <2>1, <2>2 DEF ConfirmedIsFinal
<1>4. ASSUME NEW s \in Serials, AdmitGranted(s) \/ Looks(s)
      PROVE  ConfirmedIsFinal'
  <2>1. CASE AdmitGranted(s)
    <3>1. UNCHANGED <<report, aggregate>> /\ LiveIds' = LiveIds
      BY <2>1, GrantEffect
    <3> QED
      BY <1>1, <3>1
  <2>2. CASE Looks(s)
    <3>1. UNCHANGED <<report, aggregate, live>>
      BY <2>2, LookEffect
    <3> QED
      BY <1>1, <3>1 DEF LiveIds
  <2> QED
    BY <1>4, <2>1, <2>2
<1>5. ASSUME NEW c \in Callers, Begin(c) \/ Continue(c) \/ Expire(c)
      PROVE  ConfirmedIsFinal'
  <2>1. aggregate' = aggregate /\ LiveIds' = LiveIds
    BY <1>5, CallEffect
  <2>2. CASE CloseReports(c)
    <3>1. report' = report_of(aggregate, Cardinality(LiveIds))
      BY <2>2 DEF CloseReports
    <3>2. report'.peer_cleanup_confirmed =>
            /\ aggregate.confirmed > 0 /\ aggregate.unconfirmed = 0
            /\ Cardinality(LiveIds) = 0
      BY <3>1 DEF report_of
    <3>3. IsFiniteSet(LiveIds)
      BY FS_Subset DEF LiveIds
    <3>4. Cardinality(LiveIds) = 0 => LiveIds = {}
      BY <3>3, FS_EmptySet
    <3> QED
      BY <2>1, <3>2, <3>4 DEF ConfirmedIsFinal
  <2>3. CASE ~CloseReports(c)
    <3>1. report' = report
      BY <1>5, <2>3
      DEF Begin, Continue, CancelFails, CancelWaiting, CancelRunning,
          CloseFirst, CloseLater, CancelNotifies, CancelFires, CancelEnded,
          CancelWaits, CancelTimesOut, CloseNotifies, CloseFires, CloseFired,
          CloseWaits, ClosePublishes, JoinWaits, JoinReturns, CloseReturns,
          NotifyAll, Sleep, Expire, state, closeState
    <3> QED
      BY <1>1, <2>1, <3>1
  <2> QED
    BY <2>2, <2>3
<1>6. CASE Wakes
  BY <1>1, <1>6 DEF Wakes, state, closeState, ended, LiveIds
<1> QED
  BY <1>2, <1>3, <1>4, <1>5, <1>6, StepKinds

LEMMA ConfirmInvariant == Spec => []ConfirmInv
<1>1. Init => ConfirmInv
  BY DEF Init, ConfirmInv, CountsAreCleanups, ConfirmedIsFinal
<1>2. IInv /\ CloseInv /\ ConfirmInv /\ [Next]_vars => ConfirmInv'
  BY CountsStep, ConfirmedStep DEF ConfirmInv
<1> QED
  BY <1>1, <1>2, Invariance, CloseInvariant, PTL DEF Spec

\* A close's report is one, and a report that confirms the peer cleanup speaks
\* for the whole host, then and ever after: nothing is live, no operation
\* reported an unconfirmed cleanup, and one confirmed.
THEOREM ReportsAreSound == Spec => []CloseReportIsSound
<1>1. IInv /\ CloseInv /\ ConfirmInv => ConfirmedIsWhole
  BY NothingLive DEF ConfirmInv, CountsAreCleanups, ConfirmedIsFinal, ConfirmedIsWhole
<1>2. CloseInv => CloseAnswersAgree
  BY DEF CloseInv, OneReport, CloseAnswersAgree
<1> QED
  BY <1>1, <1>2, ConfirmInvariant, CloseInvariant, Invariance, PTL
  DEF CloseReportIsSound
-----------------------------------------------------------------------------
(* Whom a cancel and a close reach.                                         *)

Finding == {"cancel_fire", "cancel_wait"}

\* What one step of a call does to its own locals.
LEMMA LocalsEffect ==
  ASSUME IInv, NEW c \in Callers, Begin(c) \/ Continue(c) \/ Expire(c)
  PROVE  /\ pc'[c] # "idle"
         /\ pc[c] # "idle" => /\ call'[c].serial = call[c].serial
                              /\ call'[c].id = call[c].id
         /\ \/ call'[c].todo \subseteq call[c].todo
            \/ \E exit \in BOOLEAN : CloseFirst(c, exit)
         /\ \/ pc[c] \in Finding
            \/ pc'[c] \in Finding => \E id \in Ids : CancelRunning(c, id)
         /\ \/ CancelEnded(c)
            \/ call'[c].answer # "cancelled"
            \/ /\ call'[c].answer = call[c].answer
               /\ call'[c].report = call[c].report
<1>0. /\ c \in Threads /\ pc \in [Threads -> OperationPcs \cup CallPcs]
      /\ call \in [Callers -> Locals]
  BY ThreadKinds DEF IInv, TypeOK, PcTypes
<1> USE DEF Goto, Finding
<1>1. CASE \/ CancelNotifies(c) \/ CloseNotifies(c) \/ ClosePublishes(c)
           \/ CancelFires(c) \/ CloseFired(c) \/ CloseReturns(c)
           \/ CancelWaits(c) \/ CloseWaits(c) \/ JoinWaits(c)
  BY <1>0, <1>1
  DEF CancelNotifies, CloseNotifies, ClosePublishes, CancelFires, CloseFired,
      CloseReturns, CancelWaits, CloseWaits, JoinWaits, NotifyAll, Sleep
<1>2. CASE \/ \E id \in Ids : CancelFails(c, id)
           \/ CancelTimesOut(c) \/ CloseReports(c) \/ JoinReturns(c)
           \/ CancelEnded(c)
  <2>1. PICK answer, cleanup :
          Answers(c, answer, cleanup) /\ (answer # "cancelled" \/ CancelEnded(c))
    BY <1>2 DEF CancelFails, CancelTimesOut, CloseReports, JoinReturns, CancelEnded
  <2>2. /\ call'[c].answer = answer /\ call'[c].serial = call[c].serial
        /\ call'[c].id = call[c].id /\ call'[c].todo = call[c].todo
    BY <1>0, <2>1 DEF Answers, Locals
  <2>3. pc'[c] \in {"returned", "close_publish", "close_done"}
    BY <1>0, <1>2
    DEF CancelFails, CancelTimesOut, CloseReports, JoinReturns, CancelEnded
  <2> QED
    BY <2>1, <2>2, <2>3
<1>3. CASE \E id \in Ids : CancelWaiting(c, id)
  <2>1. call'[c].answer = "waiting" /\ call'[c].todo = call[c].todo
    BY <1>0, <1>3 DEF CancelWaiting, Locals
  <2> QED
    BY <1>0, <1>3, <2>1 DEF CancelWaiting
<1>4. CASE \E id \in Ids : CancelRunning(c, id)
  <2>1. /\ call'[c].answer = call[c].answer /\ call'[c].todo = call[c].todo
        /\ call'[c].report = call[c].report
    BY <1>0, <1>4 DEF CancelRunning, Locals
  <2> QED
    BY <1>0, <1>4, <2>1 DEF CancelRunning
<1>5. CASE \E exit \in BOOLEAN : CloseFirst(c, exit)
  <2>1. PICK exit, todo : call' = [call EXCEPT ![c].exit = exit, ![c].todo = todo]
    BY <1>5 DEF CloseFirst
  <2>2. /\ call'[c].answer = call[c].answer /\ call'[c].report = call[c].report
    BY <1>0, <2>1 DEF Locals
  <2> QED
    BY <1>0, <1>5, <2>2 DEF CloseFirst
<1>6. CASE (\E exit \in BOOLEAN : CloseLater(c, exit)) \/ CloseFires(c) \/ Expire(c)
  <2>1. /\ call'[c].answer = call[c].answer /\ call'[c].report = call[c].report
        /\ call'[c].serial = call[c].serial /\ call'[c].id = call[c].id
        /\ call'[c].todo \subseteq call[c].todo
    <3>1. CASE \E exit \in BOOLEAN : CloseLater(c, exit)
      BY <1>0, <3>1 DEF CloseLater, Locals
    <3>2. CASE CloseFires(c)
      BY <1>0, <3>2 DEF CloseFires, Locals
    <3>3. CASE Expire(c)
      BY <1>0, <3>3 DEF Expire, Locals
    <3> QED
      BY <1>6, <3>1, <3>2, <3>3
  <2> QED
    BY <1>0, <1>6, <2>1 DEF CloseLater, CloseFires, Expire
<1> QED
  BY <1>1, <1>2, <1>3, <1>4, <1>5, <1>6 DEF Begin, Continue

\* An operation that a canceller can reach.
OnTransport(s) == ticket[s].transport /\ ticket[s].admitted

\* The canceller in an entry is its ticket's; a cancel that found a running
\* operation, and a close, hold cancellers of such operations only.
AimInv ==
  /\ \A s \in Unended : live[ticket[s].id].canceller = ticket[s].transport
  /\ \A c \in Callers :
       /\ pc[c] = "idle" => call[c].serial = 0
       /\ pc[c] \in Finding =>
            LET s == call[c].serial IN
            s \in Serials /\ OnTransport(s) /\ call[c].id = ticket[s].id
       /\ \A s \in call[c].todo : closing /\ OnTransport(s)
  /\ \A s \in fired :
       OnTransport(s) /\ (closing \/ \E c \in Callers : call[c].serial = s)

\* Two unended operations have two IDs.
LEMMA OwnNames ==
  ASSUME IInv, NEW s \in Unended
  PROVE  /\ s \in Serials /\ ticket[s].id \in LiveIds
         /\ live[ticket[s].id].serial = s
         /\ \A u \in Unended : u # s => ticket[u].id # ticket[s].id
<1>1. \A u \in Unended : /\ u \in Serials /\ ticket[u].id \in Ids
                         /\ live[ticket[u].id].serial = u
  BY DEF IInv, TicketHistory, TicketsOwnLive, Unended
<1>2. ticket[s].id \in LiveIds
  BY <1>1 DEF LiveIds, NotLive, Serials
<1> QED
  BY <1>1, <1>2

\* What a registration has got it keeps.
LEMMA TicketsStay ==
  ASSUME IInv, [Next]_vars, NEW s \in Serials, OnTransport(s)
  PROVE  OnTransport(s)' /\ ticket'[s].id = ticket[s].id
<1>1. pc[s] # "idle"
  BY DEF IInv, TicketHistory, OnTransport
<1>2. CASE \E id \in Ids, transport \in BOOLEAN : Register(id, transport)
  <2>1. pc[registered + 1] = "idle"
        /\ \A u \in Serials : u # registered + 1 => ticket'[u] = ticket[u]
    BY <1>2, RegisterEffect
  <2>2. ticket'[s] = ticket[s]
    BY <1>1, <2>1
  <2> QED
    BY <2>2 DEF OnTransport
<1>3. ASSUME NEW u \in Unended, NEW cleanup \in Cleanup \cup {None},
             End(u, cleanup)
      PROVE  OnTransport(s)' /\ ticket'[s].id = ticket[s].id
  <2>1. /\ ticket'[u].id = ticket[u].id
        /\ ticket'[u].transport = ticket[u].transport
        /\ ticket'[u].admitted = ticket[u].admitted
        /\ \A v \in Serials : v # u => ticket'[v] = ticket[v]
    BY <1>3, EndEffect
  <2> QED
    BY <2>1 DEF OnTransport
<1>4. ASSUME NEW u \in Serials, AdmitGranted(u)
      PROVE  OnTransport(s)' /\ ticket'[s].id = ticket[s].id
  BY <1>4, GrantEffect DEF OnTransport
<1>5. ASSUME ticket' = ticket
      PROVE  OnTransport(s)' /\ ticket'[s].id = ticket[s].id
  BY <1>5 DEF OnTransport
<1> QED
  BY <1>2, <1>3, <1>4, <1>5, StepKinds, LookEffect, CallEffect DEF Wakes

\* A step that leaves calls and tokens alone, as every step of an operation.
LEMMA AimStands ==
  ASSUME IInv, AimInv, [Next]_vars,
         UNCHANGED <<closing, call, fired>>, \A c \in Callers : pc'[c] = pc[c],
         \A s \in Unended' : live'[ticket'[s].id].canceller = ticket'[s].transport
  PROVE  AimInv'
<1>1. \A s \in Serials : OnTransport(s) =>
        OnTransport(s)' /\ ticket'[s].id = ticket[s].id
  BY TicketsStay
<1>2. fired \subseteq Serials /\ \A c \in Callers : call[c].todo \subseteq Serials
  BY DEF IInv, TypeOK, Locals
<1> QED
  BY <1>1, <1>2 DEF AimInv

LEMMA AimOfOperations ==
  ASSUME IInv, AimInv, [Next]_vars,
         ~ \E c \in Callers : Begin(c) \/ Continue(c) \/ Expire(c)
  PROVE  AimInv'
<1>1. ASSUME NEW id \in Ids, NEW transport \in BOOLEAN, Register(id, transport)
      PROVE  AimInv'
  <2> DEFINE s == registered + 1
  <2>1. /\ s \in Serials /\ id \notin LiveIds /\ pc[s] = "idle" /\ Moves(s)
        /\ ticket'[s].id = id /\ ticket'[s].transport = transport
        /\ \A u \in Serials : u # s => ticket'[u] = ticket[u]
        /\ live'[id] = [serial |-> s, running |-> FALSE, cancelled |-> FALSE,
                        canceller |-> transport]
        /\ \A i \in Ids : i # id => live'[i] = live[i]
        /\ Unended' = Unended \cup {s}
        /\ UNCHANGED <<closing, call, fired>>
    BY <1>1, RegisterEffect
  <2> HIDE DEF s
  <2>2. \A u \in Unended : /\ u # s /\ u \in Serials
                           /\ ticket[u].id \in LiveIds /\ ticket[u].id \in Ids
    BY <2>1, OwnNames DEF Unended, LiveIds
  <2>3. \A u \in Unended' : live'[ticket'[u].id].canceller = ticket'[u].transport
    BY <2>1, <2>2 DEF AimInv
  <2>4. \A c \in Callers : pc'[c] = pc[c]
    BY <2>1, ThreadKinds DEF Moves
  <2> QED
    BY <2>1, <2>3, <2>4, AimStands
<1>2. ASSUME NEW s \in Unended, NEW cleanup \in Cleanup \cup {None},
             End(s, cleanup)
      PROVE  AimInv'
  <2>1. /\ s \in Serials /\ Moves(s)
        /\ \A u \in Serials : u # s => ticket'[u] = ticket[u]
        /\ \A i \in Ids : i # ticket[s].id => live'[i] = live[i]
        /\ Unended' = Unended \ {s}
        /\ UNCHANGED <<closing, call, fired>>
    BY <1>2, EndEffect
  <2>2. \A u \in Unended : /\ u \in Serials /\ ticket[u].id \in Ids
                           /\ u # s => ticket[u].id # ticket[s].id
    BY OwnNames DEF LiveIds
  <2>3. \A u \in Unended' : live'[ticket'[u].id].canceller = ticket'[u].transport
    BY <2>1, <2>2 DEF AimInv
  <2>4. \A c \in Callers : pc'[c] = pc[c]
    BY <2>1, ThreadKinds DEF Moves
  <2> QED
    BY <2>1, <2>3, <2>4, AimStands
<1>3. ASSUME NEW s \in Serials, AdmitGranted(s)
      PROVE  AimInv'
  <2>1. /\ Moves(s) /\ UNCHANGED <<closing, call, fired>>
        /\ Unended' = Unended
        /\ \A i \in Ids : live'[i].canceller = live[i].canceller
        /\ \A u \in Serials : /\ ticket'[u].id = ticket[u].id
                              /\ ticket'[u].transport = ticket[u].transport
    BY <1>3, GrantEffect
  <2>2. \A u \in Unended : u \in Serials /\ ticket[u].id \in Ids
    BY OwnNames DEF LiveIds
  <2>3. \A u \in Unended' : live'[ticket'[u].id].canceller = ticket'[u].transport
    BY <2>1, <2>2 DEF AimInv
  <2>4. \A c \in Callers : pc'[c] = pc[c]
    BY <2>1, ThreadKinds DEF Moves
  <2> QED
    BY <2>1, <2>3, <2>4, AimStands
<1>4. ASSUME NEW s \in Serials, Looks(s)
      PROVE  AimInv'
  <2>1. /\ Moves(s) /\ UNCHANGED <<live, ticket, closing, call, fired>>
        /\ Unended' = Unended
    BY <1>4, LookEffect
  <2>2. \A c \in Callers : pc'[c] = pc[c]
    BY <2>1, ThreadKinds DEF Moves
  <2>3. \A u \in Unended' : live'[ticket'[u].id].canceller = ticket'[u].transport
    BY <2>1 DEF AimInv
  <2> QED
    BY <2>1, <2>2, <2>3, AimStands
<1>5. CASE Wakes
  <2>1. \A u \in Unended' : live'[ticket'[u].id].canceller = ticket'[u].transport
    BY <1>5 DEF AimInv, Wakes, state, Unended
  <2> QED
    BY <1>5, <2>1, AimStands DEF Wakes, state, closeState
<1> QED
  BY <1>1, <1>2, <1>3, <1>4, <1>5, StepKinds

LEMMA AimOfCalls ==
  ASSUME IInv, AimInv, [Next]_vars, NEW c \in Callers,
         Begin(c) \/ Continue(c) \/ Expire(c)
  PROVE  AimInv'
<1>0. /\ c \in Threads /\ pc \in [Threads -> OperationPcs \cup CallPcs]
      /\ call \in [Callers -> Locals] /\ fired \subseteq Serials
  BY ThreadKinds DEF IInv, TypeOK, PcTypes
<1>1. /\ Unended' = Unended /\ LiveIds' = LiveIds /\ ticket' = ticket
      /\ \A i \in Ids : live'[i].canceller = live[i].canceller
      /\ \A d \in Callers : d # c => pc'[d] = pc[d] /\ call'[d] = call[d]
  BY CallEffect, ThreadKinds DEF Moves, OwnLocals
<1>2. closing => closing'
  BY DEF IInv, TypeOK, StateTypes, Begin, Continue, CancelFails, CancelWaiting,
      CancelRunning, CloseFirst, CloseLater, CancelNotifies, CancelFires,
      CancelEnded, CancelWaits, CancelTimesOut, CloseNotifies, CloseFires,
      CloseFired, CloseWaits, CloseReports, ClosePublishes, JoinWaits,
      JoinReturns, CloseReturns, NotifyAll, Sleep, Expire, state, closeState
<1>3. ASSUME NEW id \in LiveIds, live[id].running, live[id].canceller
      PROVE  LET s == live[id].serial IN
             s \in Serials /\ OnTransport(s) /\ id = ticket[s].id
  <2> DEFINE s == live[id].serial
  <2>1. s \in Unended /\ s \in Serials /\ ticket[s].id = id
    BY LiveSerial
  <2>2. ticket[s].transport
    BY <1>3, <2>1 DEF AimInv
  <2>3. ticket[s].admitted
    BY <1>3, <2>1 DEF IInv, TicketsOwnLive, TicketHistory
  <2> QED
    BY <2>1, <2>2, <2>3 DEF OnTransport
<1>4. \A s \in Unended' : live'[ticket'[s].id].canceller = ticket'[s].transport
  <2>1. \A s \in Unended : ticket[s].id \in Ids
    BY OwnNames DEF LiveIds
  <2> QED
    BY <1>1, <2>1 DEF AimInv
<1>5. pc'[c] # "idle"
  BY LocalsEffect
<1>6. ASSUME pc'[c] \in Finding
      PROVE  LET s == call'[c].serial IN
             s \in Serials /\ OnTransport(s) /\ call'[c].id = ticket[s].id
  <2>1. CASE pc[c] \in Finding
    <3>1. call'[c].serial = call[c].serial /\ call'[c].id = call[c].id
      BY <2>1, LocalsEffect DEF Finding
    <3> QED
      BY <2>1, <3>1 DEF AimInv
  <2>2. CASE \E id \in Ids : CancelRunning(c, id)
    <3>1. PICK id \in Ids : CancelRunning(c, id)
      BY <2>2
    <3>2. call'[c].id = id /\ call'[c].serial = live[id].serial
      BY <1>0, <3>1 DEF CancelRunning, Locals
    <3>3. id \in LiveIds /\ live[id].running /\ live[id].canceller
      BY <3>1 DEF CancelRunning, LiveIds, NotLive
    <3> QED
      BY <1>3, <3>2, <3>3
  <2> QED
    BY <1>6, <2>1, <2>2, LocalsEffect
<1>7. ASSUME NEW s \in call'[c].todo
      PROVE  closing' /\ OnTransport(s)
  <2>1. CASE call'[c].todo \subseteq call[c].todo
    BY <1>2, <1>7, <2>1 DEF AimInv
  <2>2. CASE \E exit \in BOOLEAN : CloseFirst(c, exit)
    <3>1. closing' /\ call'[c].todo = {live[id].serial : id \in
                        {i \in LiveIds : live[i].running /\ live[i].canceller}}
      BY <1>0, <2>2 DEF CloseFirst, Locals
    <3> QED
      BY <1>3, <1>7, <3>1
  <2> QED
    BY <2>1, <2>2, LocalsEffect
<1>8. ASSUME NEW s \in fired'
      PROVE  OnTransport(s) /\ (closing' \/ \E d \in Callers : call'[d].serial = s)
  <2>1. CASE s \in fired
    <3>1. s \in Serials /\ s # 0
      BY <1>0, <2>1 DEF Serials
    <3>2. \A d \in Callers : call[d].serial = s => call'[d].serial = s
      BY <1>1, <3>1, LocalsEffect DEF AimInv
    <3> QED
      BY <1>2, <2>1, <3>2 DEF AimInv
  <2>2. CASE CancelFires(c) /\ s \notin fired
    <3>1. s = call[c].serial /\ call' = call /\ pc[c] = "cancel_fire"
      BY <1>8, <2>2 DEF CancelFires, tokenToFire, Goto
    <3> QED
      BY <3>1 DEF AimInv, Finding
  <2>3. CASE CloseFires(c) /\ s \notin fired
    <3>1. s \in call[c].todo
      BY <1>8, <2>3 DEF CloseFires
    <3> QED
      BY <1>2, <3>1 DEF AimInv
  <2>4. fired' = fired \/ CancelFires(c) \/ CloseFires(c)
    BY DEF Begin, Continue, CancelFails, CancelWaiting, CancelRunning,
        CloseFirst, CloseLater, CancelNotifies, CancelEnded, CancelWaits,
        CancelTimesOut, CloseNotifies, CloseFired, CloseWaits, CloseReports,
        ClosePublishes, JoinWaits, JoinReturns, CloseReturns, NotifyAll,
        Sleep, Expire
  <2> QED
    BY <1>8, <2>1, <2>2, <2>3, <2>4
<1>9. \A s : OnTransport(s)' <=> OnTransport(s)
  BY <1>1 DEF OnTransport
<1>10. ASSUME NEW d \in Callers, d # c
       PROVE  /\ pc'[d] = "idle" => call'[d].serial = 0
              /\ pc'[d] \in Finding =>
                   LET s == call'[d].serial IN
                   s \in Serials /\ OnTransport(s) /\ call'[d].id = ticket[s].id
              /\ \A s \in call'[d].todo : closing' /\ OnTransport(s)
  BY <1>1, <1>2, <1>10 DEF AimInv
<1> QED
  BY <1>1, <1>4, <1>5, <1>6, <1>7, <1>8, <1>9, <1>10 DEF AimInv

LEMMA AimInvariant == Spec => []AimInv
<1>1. Init => AimInv
  BY ThreadKinds DEF Init, AimInv, Unended, Finding
<1>2. IInv /\ AimInv /\ [Next]_vars => AimInv'
  BY AimOfOperations, AimOfCalls
<1> QED
  BY <1>1, <1>2, Invariance, PTL DEF Spec
-----------------------------------------------------------------------------
(* What a cancel answers.                                                   *)

Full == Len(cancellations) = RECORDED_CANCELLATIONS
IsRecorded(s) == \E i \in DOMAIN cancellations : cancellations[i][1] = s

\* The record of cancellations holds ended operations' own cleanups.
RecordsAreCleanups ==
  \A i \in DOMAIN cancellations :
    LET s == cancellations[i][1] IN
    /\ s \in Serials /\ pc[s] \in Over
    /\ cancellations[i][2] = ticket[s].cleanup

\* An operation that a cancel waits for is marked until it ends; the cleanup it
\* then leaves is recorded, unless the bounded record has had to let it go.
Awaited(s) ==
  IF s \in Unended THEN live[ticket[s].id].cancelled
  ELSE ticket[s].cleanup = None \/ Full \/ IsRecorded(s)

\* What CancelAnswersItsOperation says of an answer about s.
TrueAnswer(s, cleanup) ==
  /\ pc[s] \in Over
  /\ \/ cleanup = ticket[s].cleanup
     \/ /\ cleanup = UNFINISHED
        /\ ticket[s].cleanup = None \/ Full

AnswerInv ==
  /\ RecordsAreCleanups
  /\ \A c \in Callers :
       /\ pc[c] \in Finding => Awaited(call[c].serial)
       /\ call[c].answer = "cancelled" =>
            /\ call[c].serial \in Serials
            /\ TrueAnswer(call[c].serial, call[c].report)

\* A record that is not full keeps its entries, and a full one stays full.
LEMMA RecordedEntries ==
  ASSUME IInv, NEW s \in Serials, NEW cleanup \in Cleanup
  PROVE  LET new == recorded(s, cleanup) IN
         /\ \A i \in DOMAIN new :
              \/ new[i] = <<s, cleanup>>
              \/ \E j \in DOMAIN cancellations : new[i] = cancellations[j]
         /\ \E i \in DOMAIN new : new[i] = <<s, cleanup>>
         /\ Full => Len(new) = RECORDED_CANCELLATIONS
         /\ ~Full => \A j \in DOMAIN cancellations :
                       \E i \in DOMAIN new : new[i] = cancellations[j]
<1> DEFINE entry == <<s, cleanup>>
           new == recorded(s, cleanup)
<1>0. /\ cancellations \in Seq(Serials \X Cleanup) /\ Len(cancellations) \in Nat
      /\ entry \in Serials \X Cleanup /\ RECORDED_CANCELLATIONS \in Nat \ {0}
  BY DEF IInv, TypeOK, StateTypes
<1> HIDE DEF entry
<1>1. CASE Full
  <2> DEFINE rest == Tail(cancellations)
  <2>1. cancellations # <<>>
    BY <1>0, <1>1 DEF Full
  <2>2. /\ rest \in Seq(Serials \X Cleanup)
        /\ Len(rest) = Len(cancellations) - 1
        /\ \A i \in 1..Len(rest) : rest[i] = cancellations[i + 1]
    BY <1>0, <2>1
  <2> HIDE DEF rest
  <2>3. new = Append(rest, entry)
    BY <1>1 DEF recorded, Full, rest, entry
  <2>4. /\ Len(new) = Len(rest) + 1 /\ DOMAIN new = 1..(Len(rest) + 1)
        /\ new[Len(rest) + 1] = entry
        /\ \A i \in 1..Len(rest) : new[i] = rest[i]
    BY <1>0, <2>2, <2>3
  <2> HIDE DEF new
  <2>5. ASSUME NEW i \in DOMAIN new
        PROVE  new[i] = entry \/ \E j \in DOMAIN cancellations : new[i] = cancellations[j]
    <3>1. CASE i = Len(rest) + 1
      BY <2>4, <3>1
    <3>2. CASE i # Len(rest) + 1
      <4>1. i \in 1..Len(rest) /\ i + 1 \in DOMAIN cancellations
        BY <1>0, <2>2, <2>4, <3>2
      <4> QED
        BY <2>2, <2>4, <4>1
    <3> QED
      BY <3>1, <3>2
  <2>6. Len(rest) + 1 \in DOMAIN new /\ Len(new) = RECORDED_CANCELLATIONS
    BY <1>0, <1>1, <2>2, <2>4 DEF Full
  <2> QED
    BY <1>1, <2>4, <2>5, <2>6 DEF entry, new
<1>2. CASE ~Full
  <2>1. new = Append(cancellations, entry)
    BY <1>2 DEF recorded, Full, entry
  <2>2. /\ DOMAIN new = 1..(Len(cancellations) + 1)
        /\ DOMAIN cancellations = 1..Len(cancellations)
        /\ new[Len(cancellations) + 1] = entry
        /\ \A i \in 1..Len(cancellations) : new[i] = cancellations[i]
    BY <1>0, <2>1
  <2> HIDE DEF new
  <2>3. Len(cancellations) + 1 \in DOMAIN new
        /\ DOMAIN cancellations \subseteq DOMAIN new
        /\ \A i \in DOMAIN new : i = Len(cancellations) + 1 \/ i \in DOMAIN cancellations
    BY <1>0, <2>2
  <2> QED
    BY <1>2, <2>2, <2>3 DEF entry, new
<1> QED
  BY <1>1, <1>2

\* A step of no call is the calls' stutter.
LEMMA OperationsLeaveCalls ==
  ASSUME IInv, [Next]_vars
  PROVE  \/ \E c \in Callers : Begin(c) \/ Continue(c) \/ Expire(c)
         \/ \A c \in Callers : pc'[c] = pc[c] /\ call'[c] = call[c]
<1>1. ASSUME NEW s \in Serials, Moves(s), call' = call
      PROVE  \A c \in Callers : pc'[c] = pc[c] /\ call'[c] = call[c]
  BY <1>1, ThreadKinds DEF Moves
<1>2. ASSUME NEW id \in Ids, NEW transport \in BOOLEAN, Register(id, transport)
      PROVE  \A c \in Callers : pc'[c] = pc[c] /\ call'[c] = call[c]
  BY <1>1, <1>2, RegisterEffect
<1>3. ASSUME NEW s \in Unended, NEW cleanup \in Cleanup \cup {None},
             End(s, cleanup)
      PROVE  \A c \in Callers : pc'[c] = pc[c] /\ call'[c] = call[c]
  <2>1. s \in Serials /\ Moves(s) /\ call' = call
    BY <1>3, EndEffect
  <2> QED
    BY <1>1, <2>1
<1>4. ASSUME NEW s \in Serials, AdmitGranted(s) \/ Looks(s)
      PROVE  \A c \in Callers : pc'[c] = pc[c] /\ call'[c] = call[c]
  BY <1>1, <1>4, GrantEffect, LookEffect
<1>5. CASE Wakes
  BY <1>5 DEF Wakes
<1> QED
  BY <1>2, <1>3, <1>4, <1>5, StepKinds

\* An operation that has ended stays ended, with its cleanup.
LEMMA OverStays ==
  ASSUME IInv, [Next]_vars, NEW s \in Serials, pc[s] \in Over
  PROVE  pc'[s] \in Over /\ ticket'[s].cleanup = ticket[s].cleanup
<1> USE DEF Over
<1>1. ASSUME NEW id \in Ids, NEW transport \in BOOLEAN, Register(id, transport)
      PROVE  pc'[s] \in Over /\ ticket'[s].cleanup = ticket[s].cleanup
  <2> DEFINE u == registered + 1
  <2>1. /\ pc[u] = "idle" /\ Moves(u)
        /\ \A v \in Serials : v # u => ticket'[v] = ticket[v]
    BY <1>1, RegisterEffect
  <2> HIDE DEF u
  <2> QED
    BY <2>1, ThreadKinds DEF Moves
<1>2. ASSUME NEW u \in Unended, NEW cleanup \in Cleanup \cup {None},
             End(u, cleanup)
      PROVE  pc'[s] \in Over /\ ticket'[s].cleanup = ticket[s].cleanup
  <2>1. Moves(u) /\ \A v \in Serials : v # u => ticket'[v] = ticket[v]
    BY <1>2, EndEffect
  <2>2. u # s
    BY DEF Unended
  <2> QED
    BY <2>1, <2>2, ThreadKinds DEF Moves
<1>3. ASSUME NEW u \in Serials, AdmitGranted(u)
      PROVE  pc'[s] \in Over /\ ticket'[s].cleanup = ticket[s].cleanup
  <2>1. /\ pc[u] \in {"registered", "waiting"} /\ Moves(u)
        /\ \A v \in Serials : ticket'[v].cleanup = ticket[v].cleanup
    BY <1>3, GrantEffect
  <2> QED
    BY <2>1, ThreadKinds DEF Moves
<1>4. ASSUME NEW u \in Serials, Looks(u)
      PROVE  pc'[s] \in Over /\ ticket'[s].cleanup = ticket[s].cleanup
  <2>1. /\ Moves(u) /\ ticket' = ticket
        /\ pc[u] \in Over => pc'[u] \in Over
    BY <1>4, LookEffect
  <2> QED
    BY <2>1, ThreadKinds DEF Moves
<1>5. ASSUME NEW c \in Callers, Begin(c) \/ Continue(c) \/ Expire(c)
      PROVE  pc'[s] \in Over /\ ticket'[s].cleanup = ticket[s].cleanup
  <2>1. Moves(c) /\ ticket' = ticket
    BY <1>5, CallEffect
  <2> QED
    BY <2>1, ThreadKinds DEF Moves
<1>6. CASE Wakes
  BY <1>6 DEF Wakes
<1> QED
  BY <1>1, <1>2, <1>3, <1>4, <1>5, <1>6, StepKinds

LEMMA RecordStep ==
  ASSUME IInv, [Next]_vars
  PROVE  \/ cancellations' = cancellations
         \/ \E s \in Unended, cleanup \in Cleanup :
              /\ End(s, cleanup) /\ cancellations' = recorded(s, cleanup)
<1>1. ASSUME NEW s \in Unended, NEW cleanup \in Cleanup \cup {None},
             End(s, cleanup), cancellations' # cancellations
      PROVE  cleanup \in Cleanup /\ cancellations' = recorded(s, cleanup)
  <2>1. cancellations' = IF cleanup # None /\ live[ticket[s].id].cancelled
                         THEN recorded(s, cleanup) ELSE cancellations
    BY <1>1, EndEffect
  <2> QED
    BY <1>1, <2>1
<1>2. ASSUME NEW id \in Ids, NEW transport \in BOOLEAN, Register(id, transport)
      PROVE  cancellations' = cancellations
  BY <1>2, RegisterEffect
<1>3. ASSUME NEW s \in Serials, AdmitGranted(s) \/ Looks(s)
      PROVE  cancellations' = cancellations
  BY <1>3, GrantEffect, LookEffect
<1>4. ASSUME NEW c \in Callers, Begin(c) \/ Continue(c) \/ Expire(c)
      PROVE  cancellations' = cancellations
  BY <1>4, CallEffect
<1>5. CASE Wakes
  BY <1>5 DEF Wakes, state, ended
<1> QED
  BY <1>1, <1>2, <1>3, <1>4, <1>5, StepKinds

LEMMA FullStays == IInv /\ [Next]_vars /\ Full => Full'
<1> SUFFICES ASSUME IInv, [Next]_vars, Full PROVE Full'
  OBVIOUS
<1>1. ASSUME NEW s \in Unended, NEW cleanup \in Cleanup,
             cancellations' = recorded(s, cleanup)
      PROVE  Full'
  BY <1>1, RecordedEntries DEF Full, Unended
<1> QED
  BY <1>1, RecordStep DEF Full

LEMMA RecordsStep ==
  ASSUME IInv, RecordsAreCleanups, [Next]_vars
  PROVE  RecordsAreCleanups'
<1>1. CASE cancellations' = cancellations
  BY <1>1, OverStays DEF RecordsAreCleanups
<1>2. ASSUME NEW s \in Unended, NEW cleanup \in Cleanup, End(s, cleanup),
             cancellations' = recorded(s, cleanup)
      PROVE  RecordsAreCleanups'
  <2>1. s \in Serials /\ pc'[s] \in Over /\ ticket'[s].cleanup = cleanup
    BY <1>2, EndEffect DEF Over
  <2> SUFFICES ASSUME NEW i \in DOMAIN cancellations'
               PROVE  /\ cancellations'[i][1] \in Serials
                      /\ pc'[cancellations'[i][1]] \in Over
                      /\ cancellations'[i][2] = ticket'[cancellations'[i][1]].cleanup
    BY DEF RecordsAreCleanups
  <2>2. \/ cancellations'[i] = <<s, cleanup>>
        \/ \E j \in DOMAIN cancellations : cancellations'[i] = cancellations[j]
    BY <1>2, <2>1, RecordedEntries
  <2>3. CASE cancellations'[i] = <<s, cleanup>>
    BY <2>1, <2>3
  <2>4. ASSUME NEW j \in DOMAIN cancellations, cancellations'[i] = cancellations[j]
        PROVE  /\ cancellations'[i][1] \in Serials
               /\ pc'[cancellations'[i][1]] \in Over
               /\ cancellations'[i][2] = ticket'[cancellations'[i][1]].cleanup
    BY <2>4, OverStays DEF RecordsAreCleanups
  <2> QED
    BY <2>2, <2>3, <2>4
<1> QED
  BY <1>1, <1>2, RecordStep

\* A recorded operation stays recorded, or the record is full from then on.
LEMMA RecordedStays ==
  ASSUME IInv, [Next]_vars, NEW s \in Serials, IsRecorded(s)
  PROVE  Full' \/ IsRecorded(s)'
<1>1. CASE Full
  BY <1>1, FullStays
<1>2. CASE cancellations' = cancellations
  BY <1>2 DEF IsRecorded
<1>3. ASSUME ~Full, NEW u \in Unended, NEW cleanup \in Cleanup,
             cancellations' = recorded(u, cleanup)
      PROVE  IsRecorded(s)'
  <2>1. PICK j \in DOMAIN cancellations : cancellations[j][1] = s
    BY DEF IsRecorded
  <2>2. \E i \in DOMAIN cancellations' : cancellations'[i] = cancellations[j]
    BY <1>3, RecordedEntries DEF Unended
  <2> QED
    BY <2>1, <2>2 DEF IsRecorded
<1> QED
  BY <1>1, <1>2, <1>3, RecordStep

LEMMA AwaitedStays ==
  ASSUME IInv, [Next]_vars, NEW s \in Serials, pc[s] # "idle", Awaited(s)
  PROVE  Awaited(s)'
<1>1. CASE s \notin Unended
  <2>1. pc[s] \in Over
    BY <1>1 DEF Unended, Over, IInv, TypeOK, PcTypes, OperationPcs
  <2>2. pc'[s] \in Over /\ ticket'[s].cleanup = ticket[s].cleanup
    BY <2>1, OverStays
  <2>3. s \notin Unended'
    BY <2>2 DEF Unended, Over
  <2>4. ticket[s].cleanup = None \/ Full \/ IsRecorded(s)
    BY <1>1 DEF Awaited
  <2> QED
    BY <2>2, <2>3, <2>4, FullStays, RecordedStays DEF Awaited
<1>2. CASE s \in Unended
  <2> DEFINE id == ticket[s].id
  <2>0. live[id].cancelled /\ id \in Ids /\ id \in LiveIds
    BY <1>2, OwnNames DEF Awaited, LiveIds
  <2>1. ASSUME live'[id].cancelled, ticket'[s].id = id, s \in Unended'
        PROVE  Awaited(s)'
    BY <2>1 DEF Awaited
  <2>2. ASSUME NEW i \in Ids, NEW transport \in BOOLEAN, Register(i, transport)
        PROVE  Awaited(s)'
    <3> DEFINE u == registered + 1
    <3>1. pc[u] = "idle" /\ i \notin LiveIds /\ Unended' = Unended \cup {u}
      BY <2>2, RegisterEffect
    <3>2. \A v \in Serials : v # u => ticket'[v] = ticket[v]
      BY <2>2, RegisterEffect
    <3>3. \A j \in Ids : j # i => live'[j] = live[j]
      BY <2>2, RegisterKeepsOthers
    <3> HIDE DEF u
    <3> QED
      BY <1>2, <2>0, <2>1, <3>1, <3>2, <3>3
  <2>3. ASSUME NEW u \in Unended, NEW cleanup \in Cleanup \cup {None},
               End(u, cleanup)
        PROVE  Awaited(s)'
    <3>1. /\ \A v \in Serials : v # u => ticket'[v] = ticket[v]
          /\ \A j \in Ids : j # ticket[u].id => live'[j] = live[j]
          /\ Unended' = Unended \ {u}
          /\ ticket'[u].cleanup = cleanup
          /\ cancellations' =
               IF cleanup # None /\ live[ticket[u].id].cancelled
               THEN recorded(u, cleanup) ELSE cancellations
      BY <2>3, EndEffect
    <3>2. CASE u # s
      <4>1. ticket[u].id # id
        BY <1>2, <3>2, OwnNames
      <4> QED
        BY <1>2, <2>0, <2>1, <3>1, <3>2, <4>1
    <3>3. CASE u = s /\ cleanup = None
      BY <3>1, <3>3 DEF Awaited
    <3>4. CASE u = s /\ cleanup # None
      <4>1. cleanup \in Cleanup /\ cancellations' = recorded(s, cleanup)
        BY <2>0, <3>1, <3>4
      <4>2. PICK i \in DOMAIN cancellations' : cancellations'[i] = <<s, cleanup>>
        BY <4>1, RecordedEntries
      <4>3. IsRecorded(s)'
        BY <4>2 DEF IsRecorded
      <4> QED
        BY <3>1, <3>4, <4>3 DEF Awaited
    <3> QED
      BY <3>2, <3>3, <3>4
  <2>4. ASSUME NEW u \in Serials, AdmitGranted(u)
        PROVE  Awaited(s)'
    <3>1. /\ \A j \in Ids : live'[j].cancelled = live[j].cancelled
          /\ \A v \in Serials : ticket'[v].id = ticket[v].id
          /\ Unended' = Unended
      BY <2>4, GrantEffect
    <3> QED
      BY <1>2, <2>0, <2>1, <3>1
  <2>5. ASSUME NEW u \in Serials, Looks(u)
        PROVE  Awaited(s)'
    <3>1. live' = live /\ ticket' = ticket /\ Unended' = Unended
      BY <2>5, LookEffect
    <3> QED
      BY <1>2, <2>0, <2>1, <3>1
  <2>6. ASSUME NEW c \in Callers, Begin(c) \/ Continue(c) \/ Expire(c)
        PROVE  Awaited(s)'
    <3>1. /\ \A j \in Ids : live[j].cancelled => live'[j].cancelled
          /\ ticket' = ticket /\ Unended' = Unended
      BY <2>6, CallEffect
    <3> QED
      BY <1>2, <2>0, <2>1, <3>1
  <2>7. CASE Wakes
    <3>1. live' = live /\ ticket' = ticket /\ Unended' = Unended
      BY <2>7 DEF Wakes, state, Unended
    <3> QED
      BY <1>2, <2>0, <2>1, <3>1
  <2> QED
    BY <2>2, <2>3, <2>4, <2>5, <2>6, <2>7, StepKinds
<1> QED
  BY <1>1, <1>2

LEMMA TrueAnswerStays ==
  ASSUME IInv, [Next]_vars, NEW s \in Serials, NEW cleanup, TrueAnswer(s, cleanup)
  PROVE  TrueAnswer(s, cleanup)'
<1>1. pc'[s] \in Over /\ ticket'[s].cleanup = ticket[s].cleanup
  BY OverStays DEF TrueAnswer
<1> QED
  BY <1>1, FullStays DEF TrueAnswer

\* A cancel that finds its operation ended answers with what it left.
LEMMA EndedAnswer ==
  ASSUME IInv, AimInv, AnswerInv, NEW c \in Callers, CancelEnded(c)
  PROVE  LET s == call[c].serial IN
         /\ s \in Serials /\ call'[c].serial = s
         /\ TrueAnswer(s, call'[c].report)
<1> DEFINE s == call[c].serial
           found == {i \in DOMAIN cancellations : cancellations[i][1] = s}
<1>1. pc[c] = "cancel_wait" /\ ~is_live(call[c].id, s)
  BY DEF CancelEnded, Goto
<1>2. s \in Serials /\ OnTransport(s) /\ call[c].id = ticket[s].id /\ Awaited(s)
  BY <1>1 DEF AimInv, AnswerInv, Finding
<1>3. s \notin Unended
  BY <1>1, <1>2, OwnNames DEF is_live
<1>4. pc[s] \in Over
  BY <1>2, <1>3
  DEF OnTransport, IInv, TicketHistory, Unended, Over
<1>5. ticket[s].cleanup = None \/ Full \/ IsRecorded(s)
  BY <1>2, <1>3 DEF Awaited
<1>6. \/ cancellation(s) = None /\ ~IsRecorded(s)
      \/ cancellation(s) # None /\ cancellation(s) = ticket[s].cleanup
  <2>1. CASE found = {}
    BY <2>1 DEF cancellation, IsRecorded
  <2>2. CASE found # {}
    <3>1. PICK i \in found : i = CHOOSE j \in found : TRUE
      BY <2>2
    <3>2. cancellation(s) = cancellations[i][2]
      BY <2>2, <3>1 DEF cancellation
    <3>3. cancellations[i][2] = ticket[s].cleanup
      BY <3>1 DEF AnswerInv, RecordsAreCleanups
    <3>4. cancellations[i] \in Serials \X Cleanup
      BY <3>1 DEF IInv, TypeOK, StateTypes
    <3> QED
      BY <3>2, <3>3, <3>4
  <2> QED
    BY <2>1, <2>2
<1> DEFINE answer == IF cancellation(s) = None THEN UNFINISHED ELSE cancellation(s)
<1>7. call'[c].report = answer /\ call'[c].serial = s
  BY DEF CancelEnded, Answers, IInv, TypeOK, Locals
<1> QED
  BY <1>2, <1>4, <1>5, <1>6, <1>7 DEF TrueAnswer

LEMMA AnswerStep ==
  ASSUME IInv, AimInv, AnswerInv, [Next]_vars
  PROVE  AnswerInv'
<1>1. RecordsAreCleanups'
  BY RecordsStep DEF AnswerInv
<1>2. ASSUME NEW c \in Callers, pc[c] \in Finding, NEW s, s = call[c].serial
      PROVE  s \in Serials /\ Awaited(s)'
  <2>1. s \in Serials /\ ticket[s].admitted /\ Awaited(s)
    BY <1>2 DEF AimInv, AnswerInv, OnTransport
  <2>2. pc[s] # "idle"
    BY <2>1 DEF IInv, TicketHistory
  <2> QED
    BY <2>1, <2>2, AwaitedStays
<1>3. ASSUME NEW c \in Callers, call[c].answer = "cancelled",
             NEW s, s = call[c].serial, NEW r, r = call[c].report
      PROVE  s \in Serials /\ TrueAnswer(s, r)'
  BY <1>3, TrueAnswerStays DEF AnswerInv
<1>4. ASSUME NEW c \in Callers, pc'[c] = pc[c], call'[c] = call[c]
      PROVE  /\ \A s : pc'[c] \in Finding /\ s = call'[c].serial => Awaited(s)'
             /\ \A s, r : /\ call'[c].answer = "cancelled"
                          /\ s = call'[c].serial /\ r = call'[c].report
                          => s \in Serials /\ TrueAnswer(s, r)'
  BY <1>2, <1>3, <1>4
<1>5. ASSUME NEW c \in Callers, Begin(c) \/ Continue(c) \/ Expire(c)
      PROVE  /\ \A s : pc'[c] \in Finding /\ s = call'[c].serial => Awaited(s)'
             /\ \A s, r : /\ call'[c].answer = "cancelled"
                          /\ s = call'[c].serial /\ r = call'[c].report
                          => s \in Serials /\ TrueAnswer(s, r)'
  <2>1. ASSUME NEW s, pc'[c] \in Finding, s = call'[c].serial
        PROVE  Awaited(s)'
    <3>1. CASE pc[c] \in Finding
      <4>1. call'[c].serial = call[c].serial
        BY <1>5, <3>1, LocalsEffect DEF Finding
      <4> QED
        BY <1>2, <2>1, <3>1, <4>1
    <3>2. ASSUME NEW id \in Ids, CancelRunning(c, id) PROVE Awaited(s)'
      <4>1. id \in LiveIds
        BY <3>2 DEF CancelRunning, LiveIds, NotLive
      <4>2. s = live[id].serial
        BY <2>1, <3>2 DEF CancelRunning, IInv, TypeOK, Locals
      <4>3. live'[id].cancelled
        BY <3>2, <4>1, LiveSerial DEF CancelRunning, IInv, TypeOK, StateTypes, LiveEntry
      <4>4. s \in Unended' /\ ticket'[s].id = id
        BY <1>5, <4>1, <4>2, LiveSerial, CallEffect
      <4> QED
        BY <4>3, <4>4 DEF Awaited
    <3> QED
      BY <1>5, <2>1, <3>1, <3>2, LocalsEffect
  <2>2. ASSUME NEW s, NEW r, call'[c].answer = "cancelled",
               s = call'[c].serial, r = call'[c].report
        PROVE  s \in Serials /\ TrueAnswer(s, r)'
    <3>1. CASE CancelEnded(c)
      <4>1. s \in Serials /\ TrueAnswer(s, r)
        BY <2>2, <3>1, EndedAnswer
      <4> QED
        BY <4>1, TrueAnswerStays
    <3>2. CASE call'[c].answer = call[c].answer /\ call'[c].report = call[c].report
      <4>1. pc[c] # "idle"
        BY <2>2, <3>2 DEF IInv, CancelMarks
      <4>2. call'[c].serial = call[c].serial
        BY <1>5, <4>1, LocalsEffect
      <4> QED
        BY <1>3, <2>2, <3>2, <4>2
    <3> QED
      BY <1>5, <2>2, <3>1, <3>2, LocalsEffect
  <2> QED
    BY <2>1, <2>2
<1>6. \/ \E c \in Callers : Begin(c) \/ Continue(c) \/ Expire(c)
      \/ \A c \in Callers : pc'[c] = pc[c] /\ call'[c] = call[c]
  BY OperationsLeaveCalls
<1>7. \A c \in Callers :
        /\ \A s : pc'[c] \in Finding /\ s = call'[c].serial => Awaited(s)'
        /\ \A s, r : /\ call'[c].answer = "cancelled"
                     /\ s = call'[c].serial /\ r = call'[c].report
                     => s \in Serials /\ TrueAnswer(s, r)'
  <2>1. ASSUME NEW d \in Callers, Begin(d) \/ Continue(d) \/ Expire(d),
               NEW c \in Callers, c # d
        PROVE  pc'[c] = pc[c] /\ call'[c] = call[c]
    BY <2>1, CallEffect, ThreadKinds DEF Moves, OwnLocals
  <2> QED
    BY <1>4, <1>5, <1>6, <2>1
<1> QED
  BY <1>1, <1>7 DEF AnswerInv, Awaited, TrueAnswer

LEMMA AnswerInvariant == Spec => []AnswerInv
<1>1. Init => AnswerInv
  BY ThreadKinds DEF Init, AnswerInv, RecordsAreCleanups, Finding
<1>2. IInv /\ AimInv /\ AnswerInv /\ [Next]_vars => AnswerInv'
  BY AnswerStep
<1> QED
  BY <1>1, <1>2, Invariance, AimInvariant, PTL DEF Spec

\* A cancel reaches and answers for its own operation, however its ID is used
\* again and whenever its canceller runs: no token is cancelled but those of
\* operations that a cancel or a close found running, and its answer is that
\* operation's cleanup, or UNFINISHED when there is none to be had.
THEOREM CancelsAreAimed == Spec => []CancelIsAimed
<1>1. AimInv => OnlyTheCancelledAreFired
  BY DEF AimInv, OnTransport, OnlyTheCancelledAreFired
<1>2. AnswerInv => CancelAnswersItsOperation
  BY DEF AnswerInv, TrueAnswer, Full, Over, CancelAnswersItsOperation
<1> QED
  BY <1>1, <1>2, AimInvariant, AnswerInvariant, PTL DEF CancelIsAimed
-----------------------------------------------------------------------------
(* Who wakes the sleepers.                                                  *)

SleeperPcs == {"waiting", "cancel_wait", "close_wait", "join_wait"}
Notifying == {"ended", "cancel_notify", "close_notify", "close_publish"}

\* A thread sleeps where the code waits, with something to do only while a
\* notify_all is still to come.
WakeInv == (\A t \in sleeping : pc[t] \in SleeperPcs) /\ NoLostWakeup

LEMMA PendingStays ==
  ASSUME NEW t \in Threads, Moves(t), pc[t] \notin Notifying \/ pc'[t] \in Notifying,
         NotifyPending
  PROVE  NotifyPending'
  BY DEF Moves, Notifying, NotifyPending

\* No sleeper moves or gains something to do in a step that gives none a reason.
LEMMA WakeStands ==
  ASSUME WakeInv, sleeping' \subseteq sleeping,
         \A t \in sleeping' : pc'[t] = pc[t] /\ (WouldAct(t)' => WouldAct(t)),
         NotifyPending => NotifyPending'
  PROVE  WakeInv'
<1>1. ASSUME NEW t \in sleeping', WouldAct(t)' PROVE NotifyPending'
  BY <1>1 DEF WakeInv, NoLostWakeup
<1>2. \A t \in sleeping' : pc'[t] \in SleeperPcs
  BY DEF WakeInv
<1> QED
  BY <1>1, <1>2 DEF WakeInv, NoLostWakeup

LEMMA SameReason ==
  ASSUME UNCHANGED <<live, running, closing, report, ticket>>,
         NEW t, pc'[t] = pc[t], t \in Callers => call'[t] = call[t]
  PROVE  WouldAct(t)' <=> WouldAct(t)
  BY DEF WouldAct, waits, refused, slotFree, is_live, is_idle, joined, LiveIds

\* A sleeping operation owns its entry and has no slot; a sleeping cancel waits
\* for an operation that it found.
LEMMA Sleepers ==
  ASSUME IInv, AimInv, WakeInv, NEW t \in sleeping
  PROVE  /\ t \in Threads
         /\ t \in Serials => /\ pc[t] = "waiting" /\ t \in Unended
                             /\ ticket[t].id \in LiveIds /\ ticket[t].id \in Ids
                             /\ live[ticket[t].id].serial = t
                             /\ ~live[ticket[t].id].running
         /\ t \in Callers /\ pc[t] = "cancel_wait" =>
              call[t].serial \in Serials /\ call[t].id \in Ids
<1>1. t \in Threads /\ pc[t] \in SleeperPcs
  BY DEF IInv, TypeOK, WakeInv
<1>2. ASSUME t \in Serials
      PROVE  /\ pc[t] = "waiting" /\ t \in Unended
             /\ ticket[t].id \in LiveIds /\ ticket[t].id \in Ids
             /\ live[ticket[t].id].serial = t
             /\ ~live[ticket[t].id].running
  <2>1. pc[t] = "waiting"
    BY <1>1, <1>2 DEF IInv, TypeOK, PcTypes, OperationPcs, SleeperPcs
  <2>2. t \in Unended
    BY <1>2, <2>1 DEF Unended
  <2> QED
    BY <2>1, <2>2, OwnNames DEF LiveIds, IInv, TicketsOwnLive
<1>3. ASSUME t \in Callers, pc[t] = "cancel_wait"
      PROVE  call[t].serial \in Serials /\ call[t].id \in Ids
  <2>1. /\ call[t].serial \in Serials /\ OnTransport(call[t].serial)
        /\ call[t].id = ticket[call[t].serial].id
    BY <1>3 DEF AimInv, Finding
  <2> QED
    BY <2>1 DEF OnTransport, IInv, TicketHistory
<1> QED
  BY <1>1, <1>2, <1>3

LEMMA WakeOfOperations ==
  ASSUME IInv, AimInv, WakeInv, [Next]_vars,
         ~ \E c \in Callers : Begin(c) \/ Continue(c) \/ Expire(c)
  PROVE  WakeInv'
<1>1. ASSUME NEW id \in Ids, NEW transport \in BOOLEAN, Register(id, transport)
      PROVE  WakeInv'
  <2> DEFINE s == registered + 1
  <2>1. /\ s \in Serials /\ id \notin LiveIds /\ pc[s] = "idle" /\ Moves(s)
        /\ \A u \in Serials : u # s => ticket'[u] = ticket[u]
        /\ \A i \in Ids : i # id => live'[i] = live[i]
        /\ LiveIds' = LiveIds \cup {id}
        /\ UNCHANGED <<running, closing, report, sleeping, call>>
    <3>1. s \in Serials /\ id \notin LiveIds /\ pc[s] = "idle" /\ Moves(s)
      BY <1>1, RegisterEffect
    <3>2. \A u \in Serials : u # s => ticket'[u] = ticket[u]
      BY <1>1, RegisterEffect
    <3>3. \A i \in Ids : i # id => live'[i] = live[i]
      BY <1>1, RegisterKeepsOthers
    <3>4. LiveIds' = LiveIds \cup {id}
      BY <1>1, RegisterEffect
    <3>5. UNCHANGED <<running, closing, report, sleeping, call>>
      BY <1>1, RegisterEffect
    <3> QED
      BY <3>1, <3>2, <3>3, <3>4, <3>5
  <2> HIDE DEF s
  <2>2. ASSUME NEW t \in sleeping
        PROVE  pc'[t] = pc[t] /\ (WouldAct(t)' => WouldAct(t))
    <3>1. t # s /\ pc'[t] = pc[t]
      BY <2>1, Sleepers DEF Moves, WakeInv, SleeperPcs
    <3>2. CASE t \in Serials
      <4>1. ticket'[t] = ticket[t] /\ live'[ticket[t].id] = live[ticket[t].id]
        BY <2>1, <3>1, <3>2, Sleepers
      <4>2. waits(t)' <=> waits(t)
        BY <2>1, <4>1 DEF waits, refused, slotFree
      <4> QED
        BY <3>1, <3>2, <4>2, ThreadKinds DEF WouldAct
    <3>3. CASE t \in Callers
      <4>1. ~is_idle'
        BY <2>1 DEF is_idle
      <4>2. joined(t)' => joined(t)
        BY <2>1, <4>1 DEF joined
      <4>3. ASSUME pc[t] = "cancel_wait", is_live(call[t].id, call[t].serial)
            PROVE  is_live(call[t].id, call[t].serial)'
        <5>1. call[t].serial \in Serials /\ call[t].id \in Ids
          BY <3>3, <4>3, Sleepers
        <5>2. call[t].id # id
          BY <2>1, <4>3, <5>1 DEF is_live, LiveIds, NotLive, Serials
        <5> QED
          BY <2>1, <4>3, <5>1, <5>2 DEF is_live
      <4> QED
        BY <3>1, <3>3, <4>1, <4>2, <4>3, ThreadKinds DEF WouldAct
    <3> QED
      BY <3>1, <3>2, <3>3, Sleepers DEF Threads
  <2>3. NotifyPending => NotifyPending'
    BY <2>1, PendingStays, ThreadKinds DEF Notifying
  <2> QED
    BY <2>1, <2>2, <2>3, WakeStands
<1>2. ASSUME NEW s \in Unended, NEW cleanup \in Cleanup \cup {None},
             End(s, cleanup)
      PROVE  WakeInv'
  <2>1. /\ s \in Serials /\ pc'[s] = "ended" /\ Moves(s) /\ s \notin sleeping
        /\ sleeping' = sleeping
    BY <1>2, EndEffect
  <2>2. NotifyPending'
    BY <2>1, ThreadKinds DEF NotifyPending
  <2>3. \A t \in sleeping' : pc'[t] \in SleeperPcs
    BY <2>1 DEF Moves, WakeInv, IInv, TypeOK
  <2> QED
    BY <2>2, <2>3 DEF WakeInv, NoLostWakeup
<1>3. ASSUME NEW s \in Serials, AdmitGranted(s)
      PROVE  WakeInv'
  <2>1. /\ pc[s] \in {"registered", "waiting"} /\ Moves(s) /\ s \notin sleeping
        /\ running' = running + 1
        /\ \A i \in Ids : /\ live'[i].serial = live[i].serial
                          /\ live'[i].cancelled = live[i].cancelled
        /\ \A u \in Serials : ticket'[u].id = ticket[u].id
        /\ LiveIds' = LiveIds
        /\ UNCHANGED <<closing, report, sleeping, call>>
    BY <1>3, GrantEffect
  <2>2. ASSUME NEW t \in sleeping
        PROVE  pc'[t] = pc[t] /\ (WouldAct(t)' => WouldAct(t))
    <3>1. pc'[t] = pc[t]
      BY <2>1, Sleepers DEF Moves
    <3>2. CASE t \in Serials
      <4>1. refused(t)' <=> refused(t)
        BY <2>1, <3>2, Sleepers DEF refused
      <4>2. slotFree' => slotFree
        BY <2>1 DEF slotFree, IInv, TypeOK, StateTypes
      <4> QED
        BY <3>1, <3>2, <4>1, <4>2, ThreadKinds DEF WouldAct, waits
    <3>3. CASE t \in Callers
      <4>1. joined(t)' <=> joined(t)
        BY <2>1 DEF joined, is_idle
      <4>2. is_idle' <=> is_idle
        BY <2>1 DEF is_idle
      <4>3. pc[t] = "cancel_wait" => (is_live(call[t].id, call[t].serial)'
                                        <=> is_live(call[t].id, call[t].serial))
        BY <2>1, <3>3, Sleepers DEF is_live
      <4> QED
        BY <3>1, <3>3, <4>1, <4>2, <4>3, ThreadKinds DEF WouldAct
    <3> QED
      BY <3>1, <3>2, <3>3, Sleepers DEF Threads
  <2>3. NotifyPending => NotifyPending'
    BY <2>1, PendingStays, ThreadKinds DEF Notifying
  <2> QED
    BY <2>1, <2>2, <2>3, WakeStands
<1>4. ASSUME NEW s \in Serials, Looks(s)
      PROVE  WakeInv'
  <2>1. /\ Moves(s) /\ s \notin sleeping /\ s \in Threads
        /\ UNCHANGED <<live, running, closing, report, ticket, call>>
    BY <1>4, LookEffect, ThreadKinds
  <2>2. CASE EndNotifies(s)
    BY <2>2 DEF EndNotifies, NotifyAll, WakeInv, NoLostWakeup
  <2>3. CASE AdmitRefused(s) \/ AdmitWaits(s)
    <3>1. \/ sleeping' = sleeping
          \/ sleeping' = sleeping \cup {s} /\ waits(s) /\ pc'[s] = "waiting"
      BY <2>3, GotoMoves, ThreadKinds DEF AdmitRefused, AdmitWaits, Sleep, IInv
    <3>2. NotifyPending => NotifyPending'
      BY <2>1, <2>3, PendingStays DEF Notifying, AdmitRefused, AdmitWaits, Admitting
    <3>3. \A t \in sleeping : pc'[t] = pc[t] /\ (WouldAct(t)' <=> WouldAct(t))
      BY <2>1, SameReason DEF Moves, IInv, TypeOK
    <3>4. waits(s)' <=> waits(s)
      BY <2>1 DEF waits, refused, slotFree
    <3>5. ASSUME NEW t \in sleeping', WouldAct(t)' PROVE NotifyPending'
      <4>1. CASE t \in sleeping
        BY <3>2, <3>3, <3>5, <4>1 DEF WakeInv, NoLostWakeup
      <4>2. CASE t \notin sleeping
        <5>1. t = s /\ waits(s)'
          BY <3>1, <3>4, <3>5, <4>2
        <5> QED
          BY <3>5, <5>1, ThreadKinds DEF WouldAct
      <4> QED
        BY <4>1, <4>2
    <3>6. \A t \in sleeping' : pc'[t] \in SleeperPcs
      BY <3>1, <3>3 DEF WakeInv, SleeperPcs
    <3> QED
      BY <3>5, <3>6 DEF WakeInv, NoLostWakeup
  <2> QED
    BY <1>4, <2>2, <2>3 DEF Looks
<1>5. CASE Wakes
  <2>1. /\ UNCHANGED <<live, running, closing, report, ticket, call, pc>>
        /\ sleeping' \subseteq sleeping
    BY <1>5 DEF Wakes, state, closeState
  <2>2. \A t : WouldAct(t)' <=> WouldAct(t)
    BY <2>1, SameReason
  <2>3. NotifyPending => NotifyPending'
    BY <2>1 DEF NotifyPending
  <2> QED
    BY <2>1, <2>2, <2>3, WakeStands
<1> QED
  BY <1>1, <1>2, <1>3, <1>4, <1>5, StepKinds

LEMMA WakeOfCalls ==
  ASSUME IInv, AimInv, WakeInv, NEW c \in Callers,
         Begin(c) \/ Continue(c) \/ Expire(c)
  PROVE  WakeInv'
<1>0. /\ c \in Threads /\ c \notin Serials /\ TypeOK
      /\ Moves(c) /\ OwnLocals(c) /\ ticket' = ticket /\ running' = running
      /\ LiveIds' = LiveIds
  BY CallEffect, ThreadKinds DEF IInv
<1>1. \A t \in sleeping : t # c => /\ t \in Threads /\ pc'[t] = pc[t]
                                   /\ t \in Callers => call'[t] = call[t]
  BY <1>0 DEF Moves, OwnLocals, TypeOK
\* The notifiers.
<1>2. ASSUME sleeping' = {} PROVE WakeInv'
  BY <1>2 DEF WakeInv, NoLostWakeup
\* A step after which a notify_all is to come.
<1>3. ASSUME sleeping' = sleeping, c \notin sleeping, pc'[c] \in Notifying
      PROVE  WakeInv'
  <2>1. NotifyPending'
    BY <1>0, <1>3 DEF NotifyPending, Notifying
  <2>2. \A t \in sleeping' : pc'[t] \in SleeperPcs
    BY <1>1, <1>3 DEF WakeInv
  <2> QED
    BY <2>1, <2>2 DEF WakeInv, NoLostWakeup
\* A step that no sleeper's reason is about.
<1>4. ASSUME UNCHANGED <<live, closing, report>>, sleeping' \subseteq sleeping \ {c},
             pc[c] \notin Notifying \/ pc'[c] \in Notifying
      PROVE  WakeInv'
  <2>1. \A t \in sleeping' : pc'[t] = pc[t] /\ (WouldAct(t)' <=> WouldAct(t))
    BY <1>0, <1>1, <1>4, SameReason
  <2>2. NotifyPending => NotifyPending'
    BY <1>0, <1>4, PendingStays
  <2> QED
    BY <1>4, <2>1, <2>2, WakeStands
\* The waits.
<1>5. ASSUME UNCHANGED <<live, closing, report, call, pc>>, sleeping' = sleeping \cup {c},
             ~WouldAct(c), pc[c] \in SleeperPcs
      PROVE  WakeInv'
  <2>1. \A t : WouldAct(t)' <=> WouldAct(t)
    BY <1>0, <1>5, SameReason
  <2>2. NotifyPending' <=> NotifyPending
    BY <1>5 DEF NotifyPending
  <2>3. ASSUME NEW t \in sleeping', WouldAct(t)' PROVE NotifyPending'
    BY <1>5, <2>1, <2>2, <2>3 DEF WakeInv, NoLostWakeup
  <2>4. \A t \in sleeping' : pc'[t] \in SleeperPcs
    BY <1>5 DEF WakeInv
  <2> QED
    BY <2>3, <2>4 DEF WakeInv, NoLostWakeup
<1>6. CASE CancelNotifies(c) \/ CloseNotifies(c) \/ ClosePublishes(c)
  BY <1>2, <1>6 DEF CancelNotifies, CloseNotifies, ClosePublishes, NotifyAll
<1>7. CASE \/ \E id \in Ids : CancelWaiting(c, id)
           \/ \E exit \in BOOLEAN : CloseFirst(c, exit)
           \/ CloseReports(c)
  <2>1. PICK from, to : Goto(c, from, to) /\ to \in Notifying /\ sleeping' = sleeping
    BY <1>7 DEF CancelWaiting, CloseFirst, CloseReports, Notifying
  <2>2. pc'[c] = to /\ c \notin sleeping
    BY <1>0, <2>1, GotoMoves
  <2> QED
    BY <1>3, <2>1, <2>2
<1>8. ASSUME NEW id \in Ids, CancelRunning(c, id)
      PROVE  WakeInv'
  <2>1. /\ pc[c] = "idle" /\ c \notin sleeping
        /\ live[id].running /\ UNCHANGED <<closing, report, sleeping>>
        /\ \A i \in Ids : i # id => live'[i] = live[i]
        /\ \A i \in Ids : live'[i].serial = live[i].serial
    BY <1>0, <1>8, GotoMoves, CallEffect DEF CancelRunning, closeState, TypeOK, StateTypes
  <2>2. ASSUME NEW t \in sleeping
        PROVE  pc'[t] = pc[t] /\ (WouldAct(t)' <=> WouldAct(t))
    <3>1. t # c /\ t \in Threads /\ pc'[t] = pc[t] /\ (t \in Callers => call'[t] = call[t])
      BY <1>1, <2>1
    <3>2. CASE t \in Serials
      <4>1. live'[ticket[t].id] = live[ticket[t].id]
        BY <2>1, <3>2, Sleepers
      <4>2. waits(t)' <=> waits(t)
        BY <1>0, <2>1, <4>1 DEF waits, refused, slotFree
      <4> QED
        BY <3>1, <3>2, <4>2, ThreadKinds DEF WouldAct
    <3>3. CASE t \in Callers
      <4>1. /\ joined(t)' <=> joined(t)
            /\ is_idle' <=> is_idle
        BY <1>0, <2>1, <3>1, <3>3 DEF joined, is_idle
      <4>2. pc[t] = "cancel_wait" => (is_live(call[t].id, call[t].serial)'
                                        <=> is_live(call[t].id, call[t].serial))
        BY <2>1, <3>1, <3>3, Sleepers DEF is_live
      <4> QED
        BY <3>1, <3>3, <4>1, <4>2, ThreadKinds DEF WouldAct
    <3> QED
      BY <3>1, <3>2, <3>3 DEF Threads
  <2>3. NotifyPending => NotifyPending'
    BY <1>0, <2>1, PendingStays DEF Notifying
  <2> QED
    BY <2>1, <2>2, <2>3, WakeStands
<1>9. CASE \/ \E id \in Ids : CancelFails(c, id)
           \/ \E exit \in BOOLEAN : CloseLater(c, exit)
           \/ CancelFires(c) \/ CancelEnded(c) \/ CancelTimesOut(c)
           \/ CloseFires(c) \/ CloseFired(c) \/ JoinReturns(c) \/ CloseReturns(c)
  <2>1. PICK from, to :
          /\ Goto(c, from, to) /\ from \notin Notifying
          /\ UNCHANGED <<live, closing, report, sleeping>>
    BY <1>9
    DEF CancelFails, CloseLater, CancelFires, CancelEnded, CancelTimesOut,
        CloseFires, CloseFired, JoinReturns, CloseReturns, Notifying, state,
        closeState
  <2>2. pc[c] = from /\ c \notin sleeping
    BY <1>0, <2>1, GotoMoves
  <2> QED
    BY <1>4, <2>1, <2>2
<1>10. CASE CancelWaits(c) \/ CloseWaits(c) \/ JoinWaits(c)
  <2>1. PICK at \in SleeperPcs : Goto(c, at, at)
    BY <1>10 DEF CancelWaits, CloseWaits, JoinWaits, SleeperPcs
  <2>2. pc[c] = at /\ pc' = pc
    BY <1>0, <2>1 DEF Goto, TypeOK, PcTypes
  <2>3. UNCHANGED <<live, closing, report, call>> /\ sleeping' = sleeping \cup {c}
    BY <1>10 DEF CancelWaits, CloseWaits, JoinWaits, Sleep, state, closeState
  <2>4. ~WouldAct(c)
    BY <1>0, <1>10 DEF CancelWaits, CloseWaits, JoinWaits, Goto, WouldAct
  <2> QED
    BY <1>5, <2>1, <2>2, <2>3, <2>4
<1>11. CASE Expire(c)
  <2>1. UNCHANGED <<live, closing, report, pc>> /\ sleeping' = sleeping \ {c}
    BY <1>11 DEF Expire, state, closeState
  <2> QED
    BY <1>4, <2>1
<1> QED
  BY <1>6, <1>7, <1>8, <1>9, <1>10, <1>11 DEF Begin, Continue

LEMMA WakeInvariant == Spec => []WakeInv
<1>1. Init => WakeInv
  BY DEF Init, WakeInv, NoLostWakeup
<1>2. IInv /\ AimInv /\ WakeInv /\ [Next]_vars => WakeInv'
  BY WakeOfOperations, WakeOfCalls
<1> QED
  BY <1>1, <1>2, Invariance, AimInvariant, PTL DEF Spec

\* No wakeup is lost, though notify_all comes after the unlock and one condition
\* variable serves operations, cancels and closes of every kind.
THEOREM NoWakeupIsLost == Spec => []NoLostWakeup
<1>1. WakeInv => NoLostWakeup
  BY DEF WakeInv
<1> QED
  BY <1>1, WakeInvariant, PTL
=============================================================================

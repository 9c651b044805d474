-------------------------- MODULE HostSlotsProofs ---------------------------
(***************************************************************************)
(* HostOperations implements NetworkSlots: each critical section of the    *)
(* host is one step of the promise or none.                                *)
(***************************************************************************)
EXTENDS HostOperationsProofs

\* An answer "waiting" is the last thing its call does.
WaitingIsFinal ==
  \A c \in Callers : call[c].answer = "waiting" => pc[c] \in {"cancel_notify", "returned"}

LEMMA CallerIsNoOperation ==
  ASSUME NEW c \in Callers
  PROVE  c \in Threads /\ c \notin Serials
<1>1. c \in Threads
  BY DEF Threads
<1>2. c \notin Serials
  BY HostAssumption
<1> QED
  BY <1>1, <1>2

\* What one step of a call does to it, unless it denies an operation: it gives
\* an answer of another kind, or leaves its answer alone.
Answered(c) ==
  /\ pc[c] \in {"idle", "cancel_wait", "close_wait", "join_wait"}
  /\ call'[c].answer # "waiting"
Silent(c) ==
  /\ call'[c].answer = call[c].answer /\ call'[c].serial = call[c].serial
  /\ pc[c] = "cancel_notify" => pc'[c] = "returned"
  /\ pc[c] # "returned"

LEMMA StepOfCall ==
  ASSUME IInv, NEW c \in Callers, Begin(c) \/ Continue(c) \/ Expire(c),
         ~ \E id \in Ids : CancelWaiting(c, id)
  PROVE  /\ \A d \in Callers : d # c => call'[d] = call[d]
         /\ \A t \in Threads : t # c => pc'[t] = pc[t]
         /\ Answered(c) \/ Silent(c)
         /\ ticket' = ticket
         /\ closing' = TRUE \/ closing' = closing
<1>1. c \in Threads /\ pc \in [Threads -> OperationPcs \cup CallPcs]
  BY CallerIsNoOperation DEF IInv, TypeOK, PcTypes
<1>2. call \in [Callers -> Locals]
  BY DEF IInv, TypeOK
<1>3. pc[c] = "idle" => call[c].answer = "none"
  BY DEF IInv, CancelMarks
<1>4. CASE \/ CancelNotifies(c) \/ CloseNotifies(c) \/ ClosePublishes(c)
           \/ CancelFires(c) \/ CloseFired(c) \/ CloseReturns(c)
           \/ CancelWaits(c) \/ CloseWaits(c) \/ JoinWaits(c)
  BY <1>1, <1>2, <1>4
  DEF CancelNotifies, CloseNotifies, ClosePublishes, CancelFires, CloseFired, CloseReturns,
      CancelWaits, CloseWaits, JoinWaits, NotifyAll, Sleep, Goto, Silent, state, closeState
<1>5. CASE \/ \E id \in Ids : CancelFails(c, id)
           \/ CancelEnded(c) \/ CancelTimesOut(c) \/ CloseReports(c) \/ JoinReturns(c)
  <2>1. PICK answer, cleanup, to :
          /\ answer \in {"InvalidRequest", "UnsupportedOperation", "cancelled", "timeout",
                         "closed", "joined"}
          /\ Answers(c, answer, cleanup) /\ Goto(c, pc[c], to)
          /\ pc[c] \in {"idle", "cancel_wait", "close_wait", "join_wait"}
          /\ ticket' = ticket /\ closing' = closing
    BY <1>5 DEF CancelFails, CancelEnded, CancelTimesOut, CloseReports, JoinReturns, Goto,
                state, closeState
  <2>2. call'[c].answer = answer /\ \A d \in Callers : d # c => call'[d] = call[d]
    BY <1>2, <2>1 DEF Answers, Locals
  <2>3. \A t \in Threads : t # c => pc'[t] = pc[t]
    BY <1>1, <2>1 DEF Goto
  <2>4. Answered(c)
    BY <2>1, <2>2 DEF Answered
  <2> QED
    BY <2>1, <2>2, <2>3, <2>4
<1>6. CASE \/ \E id \in Ids : CancelRunning(c, id)
           \/ \E exit \in BOOLEAN : CloseFirst(c, exit) \/ CloseLater(c, exit)
  <2>1. pc[c] = "idle" /\ call'[c].answer = call[c].answer
    <3>1. CASE \E id \in Ids : CancelRunning(c, id)
      BY <1>2, <3>1 DEF CancelRunning, Goto, Locals
    <3>2. CASE \E exit \in BOOLEAN : CloseLater(c, exit)
      BY <1>2, <3>2 DEF CloseLater, Goto, Locals
    <3>3. CASE \E exit \in BOOLEAN : CloseFirst(c, exit)
      <4>1. PICK exit, todo :
              call' = [call EXCEPT ![c].exit = exit, ![c].todo = todo]
        BY <3>3 DEF CloseFirst
      <4>2. call'[c].answer = call[c].answer
        BY <1>2, <4>1 DEF Locals
      <4> QED
        BY <3>3, <4>2 DEF CloseFirst, Goto
    <3> QED
      BY <1>6, <3>1, <3>2, <3>3
  <2>2. Answered(c)
    BY <1>3, <2>1 DEF Answered
  <2>3. /\ \A d \in Callers : d # c => call'[d] = call[d]
        /\ \A t \in Threads : t # c => pc'[t] = pc[t]
    BY <1>1, <1>2, <1>6 DEF CancelRunning, CloseFirst, CloseLater, Goto
  <2>4. ticket' = ticket /\ (closing' = TRUE \/ closing' = closing)
    BY <1>6 DEF CancelRunning, CloseFirst, CloseLater, closeState
  <2> QED
    BY <2>2, <2>3, <2>4
<1>7. CASE CloseFires(c) \/ Expire(c)
  <2>1. /\ call'[c].answer = call[c].answer /\ call'[c].serial = call[c].serial
        /\ \A d \in Callers : d # c => call'[d] = call[d]
    BY <1>2, <1>7 DEF CloseFires, Expire, Locals
  <2>2. pc' = pc /\ pc[c] \notin {"cancel_notify", "returned"}
    BY <1>1, <1>7 DEF CloseFires, Expire, Goto
  <2>3. ticket' = ticket /\ closing' = closing
    BY <1>7 DEF CloseFires, Expire, state, closeState
  <2> QED
    BY <2>1, <2>2, <2>3 DEF Silent
<1> QED
  BY <1>4, <1>5, <1>6, <1>7 DEF Begin, Continue

LEMMA WaitingStep == IInv /\ WaitingIsFinal /\ [Next]_vars => WaitingIsFinal'
<1> SUFFICES ASSUME IInv, WaitingIsFinal, [Next]_vars, NEW c \in Callers,
                    call'[c].answer = "waiting"
             PROVE  pc'[c] \in {"cancel_notify", "returned"}
  BY DEF WaitingIsFinal
<1>1. c \in Threads /\ c \notin Serials
  BY CallerIsNoOperation
<1>2. pc \in [Threads -> OperationPcs \cup CallPcs]
  BY DEF IInv, TypeOK, PcTypes
<1>3. call[c].answer = "waiting" => pc[c] \in {"cancel_notify", "returned"}
  BY DEF WaitingIsFinal
<1>4. ASSUME NEW d \in Callers, Begin(d) \/ Continue(d) \/ Expire(d)
      PROVE  pc'[c] \in {"cancel_notify", "returned"}
  <2>1. CASE \E id \in Ids : CancelWaiting(d, id)
    <3>1. Goto(d, "idle", "cancel_notify") /\ \A e \in Callers : e # d => call'[e] = call[e]
      BY <2>1 DEF CancelWaiting, IInv, TypeOK
    <3> QED
      BY <1>1, <1>2, <1>3, <3>1 DEF Goto
  <2>2. CASE ~ \E id \in Ids : CancelWaiting(d, id)
    BY <1>1, <1>3, <1>4, <2>2, StepOfCall DEF Answered, Silent
  <2> QED
    BY <2>1, <2>2
<1>5. CASE \E id \in Ids, transport \in BOOLEAN : Register(id, transport)
  <2>1. call' = call /\ Goto(registered + 1, "idle", "registered") /\ registered + 1 \in Serials
    BY <1>5 DEF Register, Serials, IInv, TypeOK, StateTypes
  <2> QED
    BY <1>1, <1>2, <1>3, <2>1 DEF Goto
<1>6. CASE \E s \in Serials : Operation(s)
  BY <1>1, <1>2, <1>3, <1>6
  DEF Operation, Admit, AdmitRefused, AdmitGranted, AdmitWaits, FinishRefused, FinishRan,
      Drop, End, EndNotifies, NotifyAll, Sleep, Goto
<1>7. CASE (\E t \in Threads : SpuriousWake(t)) \/ UNCHANGED vars
  BY <1>3, <1>7 DEF SpuriousWake, vars
<1> QED
  BY <1>4, <1>5, <1>6, <1>7 DEF Next

LEMMA WaitingInvariant == Spec => []WaitingIsFinal
<1>1. Init => WaitingIsFinal
  BY DEF Init, WaitingIsFinal
<1> QED
  BY <1>1, WaitingStep, Invariance, PTL DEF Spec

-----------------------------------------------------------------------------
\* The slots, names and stages that the promise speaks of.
LEMMA Mapped ==
  ASSUME IInv
  PROVE  /\ Promise!Of("running") = Holders
         /\ \A id : Promise!Named(id) = {s \in Unended : ticket[s].id = id}
         /\ \A s \in Serials : /\ Lives[s] = Life(s)
                               /\ s \in Unended <=> Life(s) \in {"waiting", "running"}
                               /\ Life(s) = "running" <=> pc[s] = "running"
                               /\ Life(s) = "unborn" <=> pc[s] = "idle"
<1>1. \A s \in Serials : pc[s] \in OperationPcs
  BY DEF IInv, TypeOK, PcTypes
<1>2. \A s \in Serials : /\ s \in Unended <=> Life(s) \in {"waiting", "running"}
                         /\ Life(s) = "running" <=> pc[s] = "running"
                         /\ Life(s) = "unborn" <=> pc[s] = "idle"
  BY <1>1 DEF Unended, Life, OperationPcs
<1> QED
  BY <1>2 DEF Promise!Of, Promise!Named, Holders, Lives, Names, Unended

\* A call that neither gives nor takes back an answer "waiting" denies nothing.
LEMMA DeniedSame ==
  ASSUME NEW c \in Callers, call \in [Callers -> Locals],
         \A d \in Callers : d # c => call'[d] = call[d],
         \/ call[c].answer # "waiting" /\ call'[c].answer # "waiting"
         \/ call'[c].answer = call[c].answer /\ call'[c].serial = call[c].serial
  PROVE  Denied' = Denied
  BY DEF Denied

\* Nothing that the promise sees changes.
LEMMA Unseen ==
  ASSUME \A s \in Serials : Life(s)' = Life(s), ticket' = ticket, closing' = closing,
         Denied' = Denied
  PROVE  UNCHANGED Promise!vars
  BY DEF Promise!vars, Lives, Names

\* One operation's stage changes, and nothing else.
LEMMA OneLife ==
  ASSUME IInv, NEW s \in Serials, NEW to, Goto(s, pc[s], to)
  PROVE  /\ \A t \in Serials : t # s => Life(t)' = Life(t)
         /\ pc'[s] = to
         /\ Lives' = [Lives EXCEPT ![s] = Life(s)']
<1>1. pc \in [Threads -> OperationPcs \cup CallPcs] /\ Serials \subseteq Threads
  BY DEF IInv, TypeOK, PcTypes, Threads
<1>2. pc'[s] = to /\ \A t \in Serials : t # s => pc'[t] = pc[t]
  BY <1>1 DEF Goto
<1>3. \A t \in Serials : t # s => Life(t)' = Life(t)
  BY <1>2 DEF Life
<1> QED
  BY <1>2, <1>3 DEF Lives

-----------------------------------------------------------------------------
LEMMA RegisterKeeps ==
  ASSUME IInv, NEW id \in Ids, NEW transport \in BOOLEAN, Register(id, transport),
         NEW s \in Serials, s = registered + 1
  PROVE  Promise!Register(s, id)
<1>1. pc[s] = "idle" /\ ~closing /\ live[id] = NotLive
  BY DEF Register, mayRegister, Goto
<1>2. Promise!Named(id) = {}
  <2> SUFFICES ASSUME NEW o \in Unended, ticket[o].id = id PROVE FALSE
    BY Mapped
  <2>1. o \in Serials /\ live[id].serial = o
    BY DEF Unended, IInv, TicketsOwnLive
  <2> QED
    BY <1>1, <2>1 DEF NotLive, Serials
<1>3. Lives' = [Lives EXCEPT ![s] = "waiting"]
  <2>1. Goto(s, pc[s], "registered")
    BY <1>1 DEF Register
  <2>2. pc'[s] = "registered" /\ Lives' = [Lives EXCEPT ![s] = Life(s)']
    BY <1>1, <2>1, OneLife
  <2> QED
    BY <2>2 DEF Life
<1>4. Names' = [Names EXCEPT ![s] = id]
  <2>1. ticket \in [Serials -> Tickets]
    BY DEF IInv, TypeOK
  <2>2. ticket' = [ticket EXCEPT ![s].id = id, ![s].transport = transport]
    BY DEF Register
  <2>3. ticket'[s].id = id /\ \A t \in Serials : t # s => ticket'[t].id = ticket[t].id
    BY <1>1, <2>1, <2>2 DEF Tickets
  <2> QED
    BY <1>1, <2>3 DEF Names
<1>5. closing' = closing /\ call' = call
  BY DEF Register, closeState
<1>6. Lives[s] = "unborn"
  BY <1>1, Mapped
<1> QED
  BY <1>1, <1>2, <1>3, <1>4, <1>5, <1>6 DEF Promise!Register, Denied

LEMMA StartKeeps ==
  ASSUME IInv, NEW s \in Serials, AdmitGranted(s)
  PROVE  Promise!Start(s)
<1>1. pc[s] \in {"registered", "waiting"} /\ ~refused(s) /\ running < LIMIT
  BY DEF AdmitGranted, Admitting, slotFree
<1>2. ~closing /\ ~live[ticket[s].id].cancelled
  BY <1>1 DEF refused
<1>3. s \notin Denied
  <2> SUFFICES ASSUME NEW c \in Callers, call[c].answer = "waiting", call[c].serial = s
               PROVE  FALSE
    BY DEF Denied
  <2>1. s \in Unended
    BY <1>1 DEF Unended
  <2> QED
    BY <1>2, <2>1 DEF IInv, CancelMarks
<1>4. Promise!Cardinality(Promise!Of("running")) < LIMIT
  <2>1. Promise!Cardinality(Holders) = Cardinality(Holders)
    BY DEF Promise!Cardinality, Cardinality
  <2> QED
    BY <1>1, <2>1, Mapped DEF IInv, SlotLimit
<1>5. Lives' = [Lives EXCEPT ![s] = "running"]
  <2>1. Goto(s, pc[s], "running")
    BY DEF AdmitGranted
  <2>2. pc'[s] = "running" /\ Lives' = [Lives EXCEPT ![s] = Life(s)']
    BY <2>1, OneLife
  <2> QED
    BY <2>2 DEF Life
<1>6. Lives[s] = "waiting"
  BY <1>1, Mapped DEF Unended
<1>7. Names' = Names
  BY DEF AdmitGranted, Names, IInv, TypeOK, Tickets
<1>8. closing' = closing /\ Denied' = Denied
  BY DEF AdmitGranted, closeState, Denied
<1> QED
  BY <1>2, <1>3, <1>4, <1>5, <1>6, <1>7, <1>8 DEF Promise!Start

LEMMA EndKeeps ==
  ASSUME IInv, NEW s \in Serials, s \in Unended, NEW cleanup, End(s, cleanup)
  PROVE  Promise!End(s)
<1>1. Lives' = [Lives EXCEPT ![s] = "over"]
  <2>1. Goto(s, pc[s], "ended")
    BY DEF End
  <2>2. pc'[s] = "ended" /\ Lives' = [Lives EXCEPT ![s] = Life(s)']
    BY <2>1, OneLife
  <2> QED
    BY <2>2 DEF Life
<1>2. Names' = Names
  BY DEF End, Names, IInv, TypeOK, Tickets
<1>3. closing' = closing /\ call' = call
  BY DEF End, closeState
<1>4. Lives[s] \in {"waiting", "running"}
  BY Mapped
<1> QED
  BY <1>1, <1>2, <1>3, <1>4 DEF Promise!End, Denied

\* What an operation's thread does between those.
LEMMA OperationKeeps ==
  ASSUME IInv, NEW s \in Serials, Operation(s)
  PROVE  Promise!Start(s) \/ Promise!End(s) \/ UNCHANGED Promise!vars
<1>1. CASE AdmitRefused(s) \/ AdmitWaits(s) \/ EndNotifies(s)
  <2>1. PICK to \in {"refused", "waiting", "done"} :
          /\ Goto(s, pc[s], to)
          /\ to = "done" <=> pc[s] = "ended"
          /\ pc[s] \in {"registered", "waiting", "ended"}
    BY <1>1 DEF AdmitRefused, AdmitWaits, EndNotifies, NotifyAll, Admitting, Goto
  <2>2. Life(s)' = Life(s) /\ \A t \in Serials : t # s => Life(t)' = Life(t)
    BY <2>1, OneLife DEF Life
  <2>3. ticket' = ticket /\ closing' = closing /\ Denied' = Denied
    BY <1>1 DEF AdmitRefused, AdmitWaits, EndNotifies, NotifyAll, Sleep, state, closeState,
                Denied
  <2> QED
    BY <2>2, <2>3, Unseen
<1>2. CASE AdmitGranted(s)
  BY <1>2, StartKeeps
<1>3. CASE FinishRefused(s) \/ FinishRan(s) \/ Drop(s)
  BY <1>3, EndKeeps DEF FinishRefused, FinishRan, Drop, Unended
<1> QED
  BY <1>1, <1>2, <1>3 DEF Operation, Admit

LEMMA DenyKeeps ==
  ASSUME IInv, NEW c \in Callers, NEW id \in Ids, CancelWaiting(c, id)
  PROVE  Promise!Refuse(live[id].serial)
<1> DEFINE s == live[id].serial
<1>1. s \in Unended /\ pc[s] # "running" /\ s \in Serials
  BY DEF CancelWaiting, IInv, TicketsOwnLive, LiveIds, Unended
<1>2. Lives[s] = "waiting"
  BY <1>1, Mapped
<1>3. call[c].answer # "waiting"
  BY DEF CancelWaiting, Goto, IInv, CancelMarks
<1>4. call'[c].answer = "waiting" /\ call'[c].serial = s
      /\ \A d \in Callers : d # c => call'[d] = call[d]
  BY DEF CancelWaiting, IInv, TypeOK, Locals
<1> HIDE DEF s
<1>5. Denied' = Denied \cup {s}
  BY <1>1, <1>3, <1>4 DEF Denied
<1>6. Lives' = Lives /\ Names' = Names /\ closing' = closing
  <2>1. \A t \in Serials : pc'[t] = pc[t]
    <3>1. pc \in [Threads -> OperationPcs \cup CallPcs] /\ Serials \subseteq Threads
      BY DEF IInv, TypeOK, PcTypes, Threads
    <3> QED
      BY <3>1, CallerIsNoOperation DEF CancelWaiting, Goto
  <2>2. ticket' = ticket /\ closing' = closing
    BY DEF CancelWaiting, closeState
  <2> QED
    BY <2>1, <2>2 DEF Lives, Names, Life
<1> QED
  BY <1>2, <1>5, <1>6 DEF Promise!Refuse, s

\* No other step of a call is seen, but the first close.
LEMMA CallKeeps ==
  ASSUME IInv, WaitingIsFinal, NEW c \in Callers, Begin(c) \/ Continue(c) \/ Expire(c)
  PROVE  \/ \E s \in Serials : Promise!Refuse(s)
         \/ Promise!Close \/ UNCHANGED Promise!vars
<1>1. CASE \E id \in Ids : CancelWaiting(c, id)
  <2>1. PICK id \in Ids : CancelWaiting(c, id)
    BY <1>1
  <2>2. live[id].serial \in Serials
    BY <2>1 DEF CancelWaiting, IInv, TicketsOwnLive, LiveIds, Unended
  <2> QED
    BY <2>1, <2>2, DenyKeeps
<1>2. CASE ~ \E id \in Ids : CancelWaiting(c, id)
  <2>1. /\ \A d \in Callers : d # c => call'[d] = call[d]
        /\ \A t \in Threads : t # c => pc'[t] = pc[t]
        /\ Answered(c) \/ Silent(c)
        /\ ticket' = ticket
        /\ closing' = TRUE \/ closing' = closing
    BY <1>2, StepOfCall
  <2>2. \A s \in Serials : pc'[s] = pc[s]
    BY <2>1, CallerIsNoOperation DEF Threads
  <2>3. Lives' = Lives /\ Names' = Names
    BY <2>1, <2>2 DEF Lives, Names, Life
  <2>4. Denied' = Denied
    <3>1. CASE Answered(c)
      <4>1. call[c].answer # "waiting"
        BY <3>1 DEF Answered, WaitingIsFinal, IInv, CancelMarks
      <4> QED
        BY <2>1, <3>1, <4>1, DeniedSame DEF Answered, IInv, TypeOK
    <3>2. CASE Silent(c)
      BY <2>1, <3>2, DeniedSame DEF Silent, IInv, TypeOK
    <3> QED
      BY <2>1, <3>1, <3>2
  <2> QED
    BY <2>1, <2>3, <2>4 DEF Promise!Close, Promise!vars
<1> QED
  BY <1>1, <1>2

-----------------------------------------------------------------------------
LEMMA StepKeeps == IInv /\ WaitingIsFinal /\ [Next]_vars => [Promise!Next]_Promise!vars
<1> SUFFICES ASSUME IInv, WaitingIsFinal, [Next]_vars PROVE [Promise!Next]_Promise!vars
  OBVIOUS
<1>1. CASE \E id \in Ids, transport \in BOOLEAN : Register(id, transport)
  <2>1. PICK id \in Ids, transport \in BOOLEAN : Register(id, transport)
    BY <1>1
  <2>2. registered + 1 \in Serials
    BY <2>1 DEF Register, Serials, IInv, TypeOK, StateTypes
  <2> QED
    BY <2>1, <2>2, RegisterKeeps DEF Promise!Next
<1>2. CASE \E s \in Serials : Operation(s)
  BY <1>2, OperationKeeps DEF Promise!Next
<1>3. CASE \E c \in Callers : Begin(c) \/ Continue(c) \/ Expire(c)
  BY <1>3, CallKeeps DEF Promise!Next
<1>4. CASE (\E t \in Threads : SpuriousWake(t)) \/ UNCHANGED vars
  BY <1>4 DEF SpuriousWake, vars, state, closeState, Promise!vars, Lives, Names, Denied, Life
<1> QED
  BY <1>1, <1>2, <1>3, <1>4 DEF Next

\* HostOperations implements NetworkSlots for every number of IDs, operations,
\* calls and slots: what callers see of the host is what the promise says.
THEOREM Refinement == Spec => KeepsThePromise
<1>1. Init => Promise!Init
  <2> SUFFICES ASSUME Init PROVE Promise!Init
    OBVIOUS
  <2>1. Lives = [s \in Serials |-> "unborn"]
    BY DEF Init, Lives, Life, Threads
  <2>2. Names = [s \in Serials |-> None] /\ Denied = {} /\ closing = FALSE
    BY DEF Init, Names, Denied
  <2> QED
    BY <2>1, <2>2 DEF Promise!Init
<1> QED
  BY <1>1, StepKeeps, Invariance, WaitingInvariant, PTL DEF Spec, KeepsThePromise, Promise!Spec
=============================================================================

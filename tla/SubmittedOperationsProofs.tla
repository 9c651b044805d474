---------------------- MODULE SubmittedOperationsProofs ----------------------
(***************************************************************************)
(* Proofs about SubmittedOperations, for any hosts, IDs, operations and    *)
(* LIMIT: a host's map, the store and the threads tell one story of each   *)
(* operation.                                                              *)
(***************************************************************************)
EXTENDS SubmittedOperationsProps, TLAPS

Pcs == {"idle", "registered", "begun", "dropping", "unspawned", "launched", "running",
        "handling", "handled", "late", "done"}
\* Where an operation's Ticket has not ended.
Ticketed == {"registered", "begun", "dropping", "launched", "running", "handling", "handled"}
Outcomes == {"none", "live"} \cup Over
Answers == {"nothing", "accepted", "refused", "value", "closed", "already running"}
Records == [kind : Kinds \cup {None}, host : Hosts \cup {None}, id : Ids \cup {None}]

Types ==
  /\ live \in [Hosts -> [Ids -> Operations \cup {None}]]
  /\ cancelled \subseteq Operations /\ denied \subseteq Operations
  /\ closing \in [Hosts -> BOOLEAN] /\ quiet \in [Hosts -> BOOLEAN]
  /\ store \in [Ids -> Operations \cup {None}]
  /\ outcome \in [Operations -> Outcomes]
  /\ op \in [Operations -> Records]
  /\ answered \subseteq admitted /\ admitted \subseteq Operations
  /\ pc \in [Operations -> Pcs]
  /\ told \in [Operations -> Answers]

\* How an operation's place, outcome and answer belong together.
Coherent(at, how, what, self, ran) ==
  /\ at = "idle" => self.host = None /\ what = "nothing"
  /\ at # "idle" => self.kind \in Kinds /\ self.host \in Hosts /\ self.id \in Ids
  /\ at \in {"idle", "registered", "running"} => how = "none"
  /\ at \in {"begun", "unspawned"} => how = "live"
  /\ at = "handling" => how = IF self.kind = "tag" THEN "none" ELSE "live"
  /\ self.kind = "tag" => how = "none"
  /\ at = "dropping" => how \in {"none", "refused"}
  /\ at \in {"registered", "begun", "dropping", "unspawned"} => self.kind = "submit"
  /\ at = "running" => self.kind # "submit"
  /\ at = "launched" => how = IF self.kind = "submit" THEN "live" ELSE "none"
  /\ at \in {"handled", "late"} =>
       how \in IF self.kind = "submit" THEN {"live", "result"} ELSE {"none", "refused", "result"}
  /\ at = "done" => how # "live"
  /\ what = "refused" /\ self.kind = "submit" => at = "done" /\ how \in {"none", "refused"}
  /\ what \in {"closed", "already running"} => at = "done"
  /\ at \in {"running", "handling", "handled"} \/ how = "result" \/ what = "value" => ran

OperationOK(o) == Coherent(pc[o], outcome[o], told[o], op[o], o \in admitted)

\* The map of each host and the Tickets agree.
Owned(o) == pc[o] \in Ticketed => live[op[o].host][op[o].id] = o
Entries(h, id) ==
  live[h][id] # None =>
    /\ pc[live[h][id]] \in Ticketed
    /\ op[live[h][id]].host = h /\ op[live[h][id]].id = id

\* A live record is the one that its ID names.
Current(o) == outcome[o] = "live" => store[op[o].id] = o

Marks ==
  /\ denied \subseteq cancelled /\ denied \cap admitted = {}
  /\ \A o \in denied : pc[o] # "idle"
  /\ \A h \in Hosts : quiet[h] => closing[h] /\ \A id \in Ids : live[h][id] = None

IInv ==
  /\ Types /\ Marks
  /\ \A o \in Operations : OperationOK(o) /\ Owned(o) /\ Current(o)
  /\ \A h \in Hosts, id \in Ids : Entries(h, id)

LEMMA InitInvariant == Init => IInv
<1> SUFFICES ASSUME Init
             PROVE  IInv
  OBVIOUS
<1>1. Types
  BY DEF Init, Types, Pcs, Outcomes, Over, Answers, Records
<1>2. Marks
  BY DEF Init, Marks
<1>3. \A o \in Operations : OperationOK(o) /\ Owned(o) /\ Current(o)
  BY DEF Init, OperationOK, Coherent, Owned, Current, Ticketed
<1>4. \A h \in Hosts, id \in Ids : Entries(h, id)
  BY DEF Init, Entries
<1> QED
  BY <1>1, <1>2, <1>3, <1>4 DEF IInv

-----------------------------------------------------------------------------
(* The steps of an operation's own threads.                                 *)

\* The operation o goes on to "at", with this outcome and answer.
Moves(o, at, how, what, ran) ==
  /\ pc' = [pc EXCEPT ![o] = at]
  /\ outcome' = [outcome EXCEPT ![o] = how]
  /\ told' = [told EXCEPT ![o] = what]
  /\ admitted' = IF ran THEN admitted \cup {o} ELSE admitted
  /\ answered' = answered \/ (answered' = answered \cup {o} /\ o \in admitted)
  /\ UNCHANGED <<cancelled, denied, closing, quiet, op>>

\* What it does to the store: nothing, or it begins its record.
Begins(o, how) ==
  \/ store' = store /\ (how = "live" => outcome[o] = "live")
  \/ /\ store' = [store EXCEPT ![op[o].id] = o]
     /\ ~IsLive(op[o].id)

\* What it does to its host's map: nothing, or it ends its Ticket.
Keeps(o, at) == live' = live /\ (at \in Ticketed <=> pc[o] \in Ticketed)
Frees(o, at) == live' = freed(o) /\ pc[o] \in Ticketed /\ at \notin Ticketed

LEMMA Step ==
  ASSUME IInv, NEW o \in Operations, NEW at \in Pcs \ {"idle"}, NEW how \in Outcomes,
         NEW what \in Answers, NEW ran \in BOOLEAN, pc[o] # "idle",
         Moves(o, at, how, what, ran),
         Begins(o, how), Keeps(o, at) \/ Frees(o, at),
         ran => o \notin cancelled,
         Coherent(at, how, what, op[o], ran \/ o \in admitted)
  PROVE  IInv'
<1>1. /\ op[o].kind \in Kinds /\ op[o].host \in Hosts /\ op[o].id \in Ids
      /\ op' = op
  BY DEF IInv, OperationOK, Coherent, Moves
<1>2. /\ pc' \in [Operations -> Pcs] /\ pc'[o] = at
      /\ \A p \in Operations \ {o} : pc'[p] = pc[p]
  BY DEF IInv, Types, Moves
<1>3. /\ outcome' \in [Operations -> Outcomes] /\ outcome'[o] = how
      /\ \A p \in Operations \ {o} : outcome'[p] = outcome[p]
  BY DEF IInv, Types, Moves
<1>4. /\ told' \in [Operations -> Answers] /\ told'[o] = what
      /\ \A p \in Operations \ {o} : told'[p] = told[p]
  BY DEF IInv, Types, Moves
<1>5. /\ admitted' \subseteq Operations
      /\ \A p \in Operations \ {o} : p \in admitted' <=> p \in admitted
      /\ o \in admitted' <=> ran \/ o \in admitted
      /\ answered' \subseteq admitted'
  BY DEF IInv, Types, Moves
<1>6. /\ store' \in [Ids -> Operations \cup {None}]
      /\ \A p \in Operations \ {o} : outcome[p] = "live" => store'[op[p].id] = p
      /\ how = "live" => store'[op[o].id] = o
  <2>1. CASE store' = store /\ (how = "live" => outcome[o] = "live")
    BY <2>1 DEF IInv, Types, Current
  <2>2. CASE store' = [store EXCEPT ![op[o].id] = o] /\ ~IsLive(op[o].id)
    <3>1. store' \in [Ids -> Operations \cup {None}] /\ store'[op[o].id] = o
      BY <1>1, <2>2 DEF IInv, Types
    <3>2. ASSUME NEW p \in Operations \ {o}, outcome[p] = "live"
          PROVE  store'[op[p].id] = p
      <4>1. store[op[p].id] = p /\ p # None
        BY <3>2, NoneAssumption DEF IInv, Current
      <4>2. op[p].id # op[o].id
        BY <2>2, <3>2, <4>1 DEF IsLive
      <4> QED
        BY <1>1, <2>2, <4>1, <4>2 DEF IInv, Types
    <3> QED
      BY <3>1, <3>2
  <2> QED
    BY <2>1, <2>2 DEF Begins
<1>7. /\ live' \in [Hosts -> [Ids -> Operations \cup {None}]]
      /\ \A h \in Hosts, id \in Ids : live'[h][id] \in {live[h][id], None}
      /\ \A h \in Hosts, id \in Ids : live[h][id] # o => live'[h][id] = live[h][id]
      /\ at \in Ticketed => live' = live /\ pc[o] \in Ticketed
      /\ at \notin Ticketed => \A h \in Hosts, id \in Ids : live'[h][id] # o
  <2>1. CASE Keeps(o, at)
    BY <2>1, NoneAssumption DEF Keeps, IInv, Types, Entries
  <2>2. CASE Frees(o, at)
    <3>1. live[op[o].host][op[o].id] = o
      BY <2>2 DEF Frees, IInv, Owned
    <3>2. live' = [live EXCEPT ![op[o].host][op[o].id] = None]
      BY <2>2, <3>1 DEF Frees, freed
    <3>3. \A h \in Hosts, id \in Ids : live[h][id] = o => h = op[o].host /\ id = op[o].id
      BY NoneAssumption DEF IInv, Entries
    <3>4. live \in [Hosts -> [Ids -> Operations \cup {None}]]
      BY DEF IInv, Types
    <3>5. live' \in [Hosts -> [Ids -> Operations \cup {None}]]
      BY <1>1, <3>2, <3>4
    <3>6. \A h \in Hosts, id \in Ids :
            live'[h][id] = IF h = op[o].host /\ id = op[o].id THEN None ELSE live[h][id]
      BY <1>1, <3>2, <3>4
    <3> QED
      BY <2>2, <3>1, <3>3, <3>5, <3>6, NoneAssumption DEF Frees
  <2> QED
    BY <2>1, <2>2
<1>8. Types'
  BY <1>2, <1>3, <1>4, <1>5, <1>6, <1>7 DEF Moves, IInv, Types
<1>9. Marks'
  <2>1. denied' \subseteq cancelled' /\ denied' \cap admitted' = {}
    BY <1>5 DEF Moves, IInv, Marks, Types
  <2>2. \A h \in Hosts : quiet'[h] => closing'[h] /\ \A id \in Ids : live'[h][id] = None
    BY <1>7 DEF Moves, IInv, Marks
  <2>3. \A p \in denied' : pc'[p] # "idle"
    BY <1>2 DEF Moves, IInv, Types, Marks
  <2> QED
    BY <2>1, <2>2, <2>3 DEF Marks
<1>10. ASSUME NEW p \in Operations
       PROVE  OperationOK(p)' /\ Owned(p)' /\ Current(p)'
  <2>1. OperationOK(p)'
    <3>1. CASE p = o
      <4>1. (o \in admitted') = (ran \/ o \in admitted)
        BY <1>5
      <4> QED
        BY <1>1, <1>2, <1>3, <1>4, <3>1, <4>1 DEF OperationOK
    <3>2. CASE p # o
      <4>1. (p \in admitted') = (p \in admitted)
        BY <1>5, <3>2
      <4> QED
        BY <1>1, <1>2, <1>3, <1>4, <3>2, <4>1 DEF IInv, OperationOK
    <3> QED
      BY <3>1, <3>2
  <2>2. Owned(p)'
    <3>1. SUFFICES ASSUME pc'[p] \in Ticketed
                   PROVE  live'[op[p].host][op[p].id] = p
      BY <1>1 DEF Owned
    <3>2. pc[p] \in Ticketed /\ (p = o => live' = live)
      BY <1>2, <1>7, <3>1
    <3>3. live[op[p].host][op[p].id] = p /\ op[p].host \in Hosts /\ op[p].id \in Ids
      BY <3>2 DEF IInv, Owned, OperationOK, Coherent, Ticketed
    <3> QED
      BY <1>7, <3>2, <3>3
  <2>3. Current(p)'
    BY <1>1, <1>3, <1>6 DEF Current
  <2> QED
    BY <2>1, <2>2, <2>3
<1>11. ASSUME NEW h \in Hosts, NEW id \in Ids
       PROVE  Entries(h, id)'
  <2>1. live'[h][id] # None => live'[h][id] = live[h][id] /\ live[h][id] \in Operations
    BY <1>7 DEF IInv, Types
  <2>2. live'[h][id] = o => at \in Ticketed
    BY <1>7
  <2> QED
    BY <1>1, <1>2, <2>1, <2>2 DEF IInv, Entries
<1> QED
  BY <1>8, <1>9, <1>10, <1>11 DEF IInv

\* The facts about o that every case below starts from.
LEMMA Before ==
  ASSUME IInv, NEW o \in Operations
  PROVE  /\ outcome[o] \in Outcomes /\ told[o] \in Answers
         /\ Coherent(pc[o], outcome[o], told[o], op[o], o \in admitted)
         /\ outcome = [outcome EXCEPT ![o] = outcome[o]]
         /\ told = [told EXCEPT ![o] = told[o]]
  BY DEF IInv, Types, OperationOK

\* A begin finds its ID free, and its record is current, or changes nothing.
LEMMA BeginStep ==
  ASSUME IInv, NEW o \in Operations, NEW begun \in Pcs, NEW refused \in Pcs,
         pc[o] \in Ticketed, begun \in Ticketed, refused \in Ticketed,
         outcome[o] = "none",
         Begin(o, begun, refused), UNCHANGED <<host, op, admitted, answered, told>>,
         Coherent(begun, "live", told[o], op[o], FALSE \/ o \in admitted),
         Coherent(refused, "none", told[o], op[o], FALSE \/ o \in admitted)
  PROVE  IInv'
<1> USE Before
<1>1. begun # "idle" /\ refused # "idle" /\ pc[o] # "idle"
  BY DEF Ticketed
<1>2. CASE mayBegin(op[o].id)
  <2>1. Moves(o, begun, "live", told[o], FALSE)
    BY <1>2 DEF Begin, Goto, Outcome, Moves, host
  <2>2. Begins(o, "live")
    BY <1>2 DEF Begin, Begins, mayBegin
  <2>3. Keeps(o, begun)
    BY DEF Keeps, host
  <2> QED
    BY <1>1, <2>1, <2>2, <2>3, Step DEF Outcomes
<1>3. CASE ~mayBegin(op[o].id)
  <2>1. Moves(o, refused, "none", told[o], FALSE)
    BY <1>3 DEF Begin, Goto, Moves, host, records
  <2>2. Begins(o, "none")
    BY <1>3 DEF Begin, Begins, records
  <2>3. Keeps(o, refused)
    BY DEF Keeps, host
  <2> QED
    BY <1>1, <2>1, <2>2, <2>3, Step DEF Outcomes
<1> QED
  BY <1>2, <1>3

LEMMA ThreadStep ==
  ASSUME IInv, NEW o \in Operations, Proceeds(o) \/ HandlerEnds(o)
  PROVE  IInv'
<1> USE Before
<1> USE DEF Ticketed, Pcs, Outcomes, Over, Answers
<1>1. CASE DecodeFails(o)
  <2>1. PICK at \in {"dropping", "handled"} :
          /\ pc[o] = IF at = "dropping" THEN "registered" ELSE "running"
          /\ pc' = [pc EXCEPT ![o] = at]
    BY <1>1 DEF DecodeFails, Goto
  <2>2. Moves(o, at, outcome[o], told[o], FALSE) /\ Begins(o, outcome[o]) /\ Keeps(o, at)
    BY <1>1, <2>1 DEF DecodeFails, Moves, Begins, Keeps, host, records
  <2>3. Coherent(at, outcome[o], told[o], op[o], FALSE \/ o \in admitted)
    BY <2>1 DEF Coherent
  <2> QED
    BY <2>1, <2>2, <2>3, Step
<1>2. CASE SubmitBegins(o)
  <2>1. pc[o] = "registered" /\ outcome[o] = "none"
    BY <1>2 DEF SubmitBegins, Coherent
  <2>2. /\ Coherent("begun", "live", told[o], op[o], FALSE \/ o \in admitted)
        /\ Coherent("dropping", "none", told[o], op[o], FALSE \/ o \in admitted)
    BY <2>1 DEF Coherent
  <2> QED
    BY <1>2, <2>1, <2>2, BeginStep DEF SubmitBegins
<1>3. CASE CallBegins(o)
  <2>1. pc[o] = "running" /\ outcome[o] = "none"
    BY <1>3 DEF CallBegins, Coherent
  <2>2. /\ Coherent("handling", "live", told[o], op[o], FALSE \/ o \in admitted)
        /\ Coherent("handled", "none", told[o], op[o], FALSE \/ o \in admitted)
    BY <1>3, <2>1 DEF CallBegins, HasRecord, Coherent
  <2> QED
    BY <1>3, <2>1, <2>2, BeginStep DEF CallBegins
<1>4. CASE AcceptFails(o)
  <2>1. pc[o] = "begun" /\ Moves(o, "dropping", "refused", told[o], FALSE)
        /\ Begins(o, "refused") /\ Keeps(o, "dropping")
    BY <1>4 DEF AcceptFails, Goto, Outcome, Moves, Begins, Keeps, host
  <2>2. Coherent("dropping", "refused", told[o], op[o], FALSE \/ o \in admitted)
    BY <2>1 DEF Coherent
  <2> QED
    BY <2>1, <2>2, Step
<1>5. CASE Launch(o)
  <2>1. pc[o] = "begun" /\ Moves(o, "launched", outcome[o], "accepted", FALSE)
        /\ Begins(o, outcome[o]) /\ Keeps(o, "launched")
    BY <1>5 DEF Launch, Goto, Tell, Moves, Begins, Keeps, host, records
  <2>2. Coherent("launched", outcome[o], "accepted", op[o], FALSE \/ o \in admitted)
    BY <2>1 DEF Coherent
  <2> QED
    BY <2>1, <2>2, Step
<1>6. CASE SubmitFails(o)
  <2>1. pc[o] = "dropping" /\ Moves(o, "done", outcome[o], "refused", FALSE)
        /\ Begins(o, outcome[o]) /\ Frees(o, "done")
    BY <1>6 DEF SubmitFails, EndTicket, Goto, Tell, Moves, Begins, Frees, records
  <2>2. Coherent("done", outcome[o], "refused", op[o], FALSE \/ o \in admitted)
    BY <2>1 DEF Coherent
  <2> QED
    BY <2>1, <2>2, Step
<1>7. CASE SpawnFails(o)
  <2>1. pc[o] = "begun" /\ Moves(o, "unspawned", outcome[o], told[o], FALSE)
        /\ Begins(o, outcome[o]) /\ Frees(o, "unspawned")
    BY <1>7 DEF SpawnFails, EndTicket, Goto, Moves, Begins, Frees, records
  <2>2. Coherent("unspawned", outcome[o], told[o], op[o], FALSE \/ o \in admitted)
    BY <2>1 DEF Coherent
  <2> QED
    BY <2>1, <2>2, Step
<1>8. CASE SpawnFailure(o)
  <2>1. pc[o] = "unspawned" /\ Moves(o, "done", "refused", "refused", FALSE)
        /\ Begins(o, "refused") /\ Keeps(o, "done")
    BY <1>8 DEF SpawnFailure, Goto, Tell, Outcome, Moves, Begins, Keeps, host
  <2>2. Coherent("done", "refused", "refused", op[o], FALSE \/ o \in admitted)
    BY <2>1 DEF Coherent
  <2> QED
    BY <2>1, <2>2, Step
<1>9. CASE AdmitRefused(o)
  <2>1. pc[o] = "launched" /\ Moves(o, "late", outcome[o], told[o], FALSE)
        /\ Begins(o, outcome[o]) /\ Frees(o, "late")
    BY <1>9 DEF AdmitRefused, EndTicket, Goto, Moves, Begins, Frees, records
  <2>2. Coherent("late", outcome[o], told[o], op[o], FALSE \/ o \in admitted)
    BY <2>1 DEF Coherent, Kinds
  <2> QED
    BY <2>1, <2>2, Step
<1>10. CASE Admit(o)
  <2> DEFINE at == IF op[o].kind = "submit" THEN "handling" ELSE "running"
  <2>1. pc[o] = "launched" /\ Moves(o, at, outcome[o], told[o], TRUE)
        /\ Begins(o, outcome[o]) /\ Keeps(o, at) /\ o \notin cancelled
    BY <1>10 DEF Admit, refuses, Goto, Moves, Begins, Keeps, host, records
  <2>2. Coherent(at, outcome[o], told[o], op[o], TRUE \/ o \in admitted)
    BY <2>1 DEF Coherent, Kinds
  <2> QED
    BY <2>1, <2>2, Step
<1>11. CASE Finish(o)
  <2>1. pc[o] = "handled" /\ Moves(o, "late", outcome[o], told[o], FALSE)
        /\ Begins(o, outcome[o]) /\ Frees(o, "late")
    BY <1>11 DEF Finish, EndTicket, Goto, Moves, Begins, Frees, records
  <2>2. Coherent("late", outcome[o], told[o], op[o], FALSE \/ o \in admitted)
    BY <2>1 DEF Coherent
  <2> QED
    BY <2>1, <2>2, Step
<1>12. CASE Report(o)
  <2> DEFINE submit == op[o].kind = "submit"
             how == IF submit THEN lateOutcome(o) ELSE outcome[o]
             what == IF submit THEN told[o]
                     ELSE IF o \in answered THEN "value" ELSE "refused"
  <2>1. pc[o] = "late" /\ Moves(o, "done", how, what, FALSE) /\ Keeps(o, "done")
    BY <1>12 DEF Report, Goto, Tell, Outcome, Moves, Keeps, host
  <2>2. Coherent("done", how, what, op[o], FALSE \/ o \in admitted)
    BY <2>1 DEF Coherent, lateOutcome, IInv, Types
  <2>3. Begins(o, how) /\ how \in Outcomes /\ what \in Answers
    BY <1>12, <2>2 DEF Report, Begins, lateOutcome, Coherent
  <2> QED
    BY <2>1, <2>2, <2>3, Step
<1>13. CASE HandlerSucceeds(o)
  <2> DEFINE how == IF HasRecord(o) THEN "result" ELSE outcome[o]
  <2>1. pc[o] = "handling" /\ o \in admitted /\ answered' = answered \cup {o}
    BY <1>13 DEF HandlerSucceeds, Goto, Coherent
  <2>2. Moves(o, "handled", how, told[o], FALSE) /\ Begins(o, how) /\ Keeps(o, "handled")
    BY <1>13, <2>1 DEF HandlerSucceeds, Goto, Outcome, Moves, Begins, Keeps, host
  <2>3. Coherent("handled", how, told[o], op[o], FALSE \/ o \in admitted)
    BY <2>1 DEF Coherent, HasRecord, Kinds
  <2> QED
    BY <2>1, <2>2, <2>3, Step
<1>14. CASE HandlerFails(o)
  <2> DEFINE how == IF op[o].kind = "call" THEN "refused" ELSE outcome[o]
  <2>1. pc[o] = "handling" /\ Moves(o, "handled", how, told[o], FALSE)
        /\ Begins(o, how) /\ Keeps(o, "handled")
    BY <1>14 DEF HandlerFails, Goto, Outcome, Moves, Begins, Keeps, host
  <2>2. Coherent("handled", how, told[o], op[o], FALSE \/ o \in admitted)
    BY <2>1 DEF Coherent, Kinds
  <2> QED
    BY <2>1, <2>2, Step
<1>15. CASE TagWorks(o)
  <2>1. pc[o] = "running" /\ Moves(o, "handling", outcome[o], told[o], FALSE)
        /\ Begins(o, outcome[o]) /\ Keeps(o, "handling")
    BY <1>15 DEF TagWorks, Goto, Moves, Begins, Keeps, host, records
  <2>2. Coherent("handling", outcome[o], told[o], op[o], FALSE \/ o \in admitted)
    BY <1>15, <2>1 DEF TagWorks, HasRecord, Coherent
  <2> QED
    BY <2>1, <2>2, Step
<1> QED
  BY <1>1, <1>2, <1>3, <1>4, <1>5, <1>6, <1>7, <1>8, <1>9, <1>10, <1>11, <1>12, <1>13, <1>14,
     <1>15
  DEF Proceeds, HandlerEnds

-----------------------------------------------------------------------------
(* Entering, cancelling and closing.                                        *)

LEMMA EnterStep ==
  ASSUME IInv, NEW o \in Operations, NEW h \in Hosts, NEW id \in Ids, NEW kind \in Kinds,
         Enter(o, h, id, kind)
  PROVE  IInv'
<1> USE DEF Ticketed
<1> DEFINE refused == closing[h] \/ live[h][id] # None
           at == IF refused THEN "done" ELSE IF kind = "submit" THEN "registered" ELSE "launched"
           what == IF ~refused THEN told[o] ELSE IF closing[h] THEN "closed" ELSE "already running"
           self == [kind |-> kind, host |-> h, id |-> id]
<1>1. pc[o] = "idle" /\ outcome[o] = "none" /\ outcome[o] # "live"
      /\ Coherent(pc[o], outcome[o], told[o], op[o], o \in admitted)
  BY DEF Enter, Goto, IInv, OperationOK, Coherent
<1>2. /\ pc' = [pc EXCEPT ![o] = at] /\ told' = [told EXCEPT ![o] = what]
      /\ op' = [op EXCEPT ![o] = self]
      /\ live' = IF refused THEN live ELSE [live EXCEPT ![h][id] = o]
      /\ UNCHANGED <<cancelled, denied, closing, quiet, store, outcome, admitted, answered>>
  BY DEF Enter, Goto, Tell, records, IInv, Types
<1>3. /\ pc' \in [Operations -> Pcs] /\ op' \in [Operations -> Records]
      /\ told' \in [Operations -> Answers]
      /\ pc'[o] = at /\ op'[o] = self /\ told'[o] = what
      /\ \A p \in Operations \ {o} : pc'[p] = pc[p] /\ op'[p] = op[p] /\ told'[p] = told[p]
  BY <1>2 DEF IInv, Types, Pcs, Answers, Records
<1>4. /\ live' \in [Hosts -> [Ids -> Operations \cup {None}]]
      /\ \A g \in Hosts, i \in Ids :
           live'[g][i] = IF ~refused /\ g = h /\ i = id THEN o ELSE live[g][i]
  BY <1>2 DEF IInv, Types
<1>5. \A g \in Hosts, i \in Ids : live[g][i] # o
  BY <1>1, NoneAssumption DEF IInv, Entries
<1>6. Types'
  BY <1>2, <1>3, <1>4 DEF IInv, Types
<1>7. Marks'
  <2>1. /\ denied \subseteq cancelled /\ denied \cap admitted = {}
        /\ \A p \in denied : pc'[p] # "idle"
    <3>1. /\ denied \subseteq cancelled /\ denied \cap admitted = {}
          /\ \A p \in denied : p \in Operations /\ pc[p] # "idle"
      BY DEF IInv, Types, Marks
    <3> QED
      BY <1>1, <1>3, <3>1
  <2>2. ASSUME NEW g \in Hosts, quiet[g]
        PROVE  closing[g] /\ \A i \in Ids : live'[g][i] = None
    <3>1. closing[g] /\ \A i \in Ids : live[g][i] = None
      BY <2>2 DEF IInv, Marks
    <3> QED
      BY <1>4, <3>1
  <2> QED
    BY <1>2, <2>1, <2>2 DEF Marks
<1>8. ASSUME NEW p \in Operations
      PROVE  OperationOK(p)' /\ Owned(p)' /\ Current(p)'
  <2>1. CASE p = o
    <3>1. Coherent(at, outcome[o], what, self, o \in admitted)
      BY <1>1 DEF Coherent, Kinds
    <3>2. OperationOK(o)' /\ Current(o)'
      BY <1>1, <1>2, <1>3, <3>1 DEF OperationOK, Current
    <3>3. Owned(o)'
      <4>1. CASE refused
        BY <1>3, <4>1 DEF Owned
      <4>2. CASE ~refused
        <5>1. live'[h][id] = o /\ op'[o].host = h /\ op'[o].id = id
          BY <1>3, <1>4, <4>2
        <5> QED
          BY <5>1 DEF Owned
      <4> QED
        BY <4>1, <4>2
    <3> QED
      BY <2>1, <3>2, <3>3
  <2>2. CASE p # o
    <3>1. OperationOK(p)' /\ Current(p)'
      BY <1>2, <1>3, <2>2 DEF IInv, OperationOK, Current
    <3>2. Owned(p)'
      <4>1. SUFFICES ASSUME pc[p] \in Ticketed
                     PROVE  live'[op[p].host][op[p].id] = p
        BY <1>3, <2>2 DEF Owned
      <4>2. live[op[p].host][op[p].id] = p /\ op[p].host \in Hosts /\ op[p].id \in Ids
        BY <4>1 DEF IInv, Owned, OperationOK, Coherent
      <4> QED
        BY <1>4, <4>2, NoneAssumption
    <3> QED
      BY <3>1, <3>2
  <2> QED
    BY <2>1, <2>2
<1>9. ASSUME NEW g \in Hosts, NEW i \in Ids
      PROVE  Entries(g, i)'
  <2>1. CASE ~refused /\ g = h /\ i = id
    <3>1. live'[g][i] = o /\ pc'[o] \in Ticketed /\ op'[o].host = g /\ op'[o].id = i
      BY <1>3, <1>4, <2>1
    <3> QED
      BY <3>1 DEF Entries
  <2>2. CASE ~(~refused /\ g = h /\ i = id)
    <3>1. live'[g][i] = live[g][i] /\ live[g][i] \in Operations \cup {None} /\ live[g][i] # o
      BY <1>4, <1>5, <2>2 DEF IInv, Types
    <3>2. live[g][i] # None => pc'[live[g][i]] = pc[live[g][i]] /\ op'[live[g][i]] = op[live[g][i]]
      BY <1>3, <3>1
    <3> QED
      BY <3>1, <3>2 DEF IInv, Entries
  <2> QED
    BY <2>1, <2>2
<1> QED
  BY <1>6, <1>7, <1>8, <1>9 DEF IInv

\* A step that leaves threads, map and store alone, and marks soundly.
LEMMA MarkStep ==
  ASSUME IInv, UNCHANGED <<live, records, op, admitted, answered, pc, told>>,
         cancelled' \subseteq Operations, denied' \subseteq cancelled',
         denied' \cap admitted = {}, \A o \in denied' : pc[o] # "idle",
         closing' \in [Hosts -> BOOLEAN], quiet' \in [Hosts -> BOOLEAN],
         \A h \in Hosts : quiet'[h] => closing'[h] /\ \A id \in Ids : live[h][id] = None
  PROVE  IInv'
<1>1. Types'
  BY DEF IInv, Types, records
<1>2. Marks'
  BY DEF Marks
<1>3. ASSUME NEW o \in Operations
      PROVE  OperationOK(o)' /\ Owned(o)' /\ Current(o)'
  BY DEF IInv, OperationOK, Owned, Current, records
<1>4. ASSUME NEW h \in Hosts, NEW id \in Ids
      PROVE  Entries(h, id)'
  BY DEF IInv, Entries
<1> QED
  BY <1>1, <1>2, <1>3, <1>4 DEF IInv

LEMMA HostStep ==
  ASSUME IInv, NEW h \in Hosts,
         (\E id \in Ids : Cancel(h, id)) \/ Close(h) \/ CloseIsQuiet(h)
  PROVE  IInv'
<1>1. CASE \E id \in Ids : Cancel(h, id)
  <2>1. PICK id \in Ids : Cancel(h, id)
    BY <1>1
  <2>2. live[h][id] \in Operations /\ pc[live[h][id]] # "idle"
    BY <2>1 DEF Cancel, IInv, Types, Entries, Ticketed
  <2>3. /\ cancelled' = cancelled \cup {live[h][id]}
        /\ denied' = IF live[h][id] \in admitted THEN denied ELSE denied \cup {live[h][id]}
        /\ UNCHANGED <<live, closing, quiet, records, op, admitted, answered, pc, told>>
    BY <2>1 DEF Cancel
  <2>4. /\ denied' \subseteq cancelled' /\ denied' \cap admitted = {}
        /\ \A o \in denied' : pc[o] # "idle"
    BY <2>2, <2>3 DEF IInv, Marks
  <2>5. cancelled' \subseteq Operations
    BY <2>2, <2>3 DEF IInv, Types
  <2> QED
    BY <2>3, <2>4, <2>5, MarkStep DEF IInv, Types, Marks
<1>2. CASE Close(h)
  <2>1. LiveIn(h) \subseteq Operations
    BY DEF LiveIn, IInv, Types
  <2>2. closing' \in [Hosts -> BOOLEAN] /\ \A g \in Hosts : closing[g] => closing'[g]
    BY <1>2 DEF Close, IInv, Types
  <2> QED
    BY <1>2, <2>1, <2>2, MarkStep DEF Close, IInv, Types, Marks
<1>3. CASE CloseIsQuiet(h)
  <2>1. \A id \in Ids : live[h][id] = None
    BY <1>3 DEF CloseIsQuiet, LiveIn
  <2> QED
    BY <1>3, <2>1, MarkStep DEF CloseIsQuiet, IInv, Types, Marks
<1> QED
  BY <1>1, <1>2, <1>3

LEMMA NextInvariant == IInv /\ [Next]_vars => IInv'
<1> SUFFICES ASSUME IInv, [Next]_vars
             PROVE  IInv'
  OBVIOUS
<1>1. CASE \E o \in Operations, h \in Hosts, id \in Ids, kind \in Kinds :
             Enter(o, h, id, kind)
  BY <1>1, EnterStep
<1>2. CASE \E o \in Operations : Proceeds(o) \/ HandlerEnds(o)
  BY <1>2, ThreadStep
<1>3. CASE \E h \in Hosts : (\E id \in Ids : Cancel(h, id)) \/ Close(h) \/ CloseIsQuiet(h)
  BY <1>3, HostStep
<1>4. CASE UNCHANGED vars
  BY <1>4, MarkStep DEF vars, host, records, IInv, Types, Marks
<1> QED
  BY <1>1, <1>2, <1>3, <1>4 DEF Next

\* The inductive invariant: places, outcomes and answers, Tickets and maps, the
\* store's current records and the marks of cancels and closes belong together.
THEOREM Invariance == Spec => []IInv
  BY InitInvariant, NextInvariant, PTL DEF Spec

\* Types, and a host knows an operation from its registration to its Ticket's end.
THEOREM TypeCorrectness == Spec => []TypeOK
<1>1. IInv => TypeOK
  <2> SUFFICES ASSUME IInv
               PROVE  TypeOK
    OBVIOUS
  <2>1. ASSUME NEW o \in Operations
        PROVE  pc[o] \in Ticketed
               <=> \E h \in Hosts, id \in Ids :
                      live[h][id] = o /\ op[o].host = h /\ op[o].id = id
    <3>1. ASSUME pc[o] \in Ticketed
          PROVE  /\ live[op[o].host][op[o].id] = o
                 /\ op[o].host \in Hosts /\ op[o].id \in Ids
      BY <3>1 DEF IInv, Owned, OperationOK, Coherent, Ticketed
    <3>2. ASSUME NEW h \in Hosts, NEW id \in Ids, live[h][id] = o
          PROVE  pc[o] \in Ticketed
      BY <3>2, NoneAssumption DEF IInv, Entries
    <3> QED
      BY <3>1, <3>2
  <2> QED
    BY <2>1 DEF IInv, Types, TypeOK, Outcomes, Answers, Records, Pcs, Ticketed
<1> QED
  BY <1>1, Invariance, PTL

\* Handlers of one ID work alone, a denied operation has no result, a failed
\* submit is gone, and a quiet host has no handler.
THEOREM OneStoryIsTold == Spec => []OneStory
<1>1. IInv => OneStory
  <2> SUFFICES ASSUME IInv
               PROVE  OneStory
    OBVIOUS
  <2>1. HandlersWorkAlone
    <3>1. ASSUME NEW o \in Working
          PROVE  /\ HasRecord(o) => store[op[o].id] = o /\ outcome[o] = "live"
                 /\ live[op[o].host][op[o].id] = o
      BY <3>1 DEF IInv, OperationOK, Coherent, Current, Owned, Ticketed, Working, HasRecord
    <3> QED
      BY <3>1 DEF HandlersWorkAlone
  <2>2. DeniedHasNoResult
    BY DEF IInv, Types, Marks, OperationOK, Coherent, DeniedHasNoResult
  <2>3. FailedSubmitIsGone
    <3>1. SUFFICES ASSUME NEW o \in Operations, told[o] = "refused", op[o].kind = "submit"
                   PROVE  /\ \A h \in Hosts, id \in Ids : live[h][id] # o
                          /\ outcome[o] \in {"none", "refused"}
      BY DEF FailedSubmitIsGone
    <3>2. pc[o] = "done" /\ outcome[o] \in {"none", "refused"}
      BY <3>1 DEF IInv, OperationOK, Coherent
    <3> QED
      BY <3>2, NoneAssumption DEF IInv, Entries, Ticketed
  <2>4. QuietHasNoHandler
    <3> SUFFICES ASSUME NEW o \in Operations, op[o].host # None, quiet[op[o].host]
                 PROVE  pc[o] \in {"unspawned", "late", "done"}
      BY DEF QuietHasNoHandler
    <3>1. pc[o] # "idle" /\ op[o].host \in Hosts /\ op[o].id \in Ids
      BY DEF IInv, OperationOK, Coherent
    <3>2. pc[o] \notin Ticketed
      BY <3>1, NoneAssumption DEF IInv, Marks, Owned
    <3> QED
      BY <3>1, <3>2 DEF IInv, Types, Pcs, Ticketed
  <2> QED
    BY <2>1, <2>2, <2>3, <2>4 DEF OneStory
<1> QED
  BY <1>1, Invariance, PTL

-----------------------------------------------------------------------------
(* Each host implements NetworkSlots: what Slots(h) makes of the state, and *)
(* the promise's steps in those terms.                                      *)

Lives(h) == [o \in Operations |-> IF op[o].host = h THEN Life(o) ELSE "unborn"]
Names(h) == [o \in Operations |->
               IF op[o].host = h /\ Life(o) # "unborn" THEN op[o].id ELSE None]
Denied(h) == {o \in denied : op[o].host = h}

LEMMA MayRegister ==
  ASSUME NEW h \in Hosts, NEW o \in Operations, NEW id \in Ids,
         ~closing[h], Lives(h)[o] = "unborn",
         \A p \in Operations : Lives(h)[p] \in {"waiting", "running"} => Names(h)[p] # id,
         Lives(h)' = [Lives(h) EXCEPT ![o] = "waiting"],
         Names(h)' = [Names(h) EXCEPT ![o] = id],
         Denied(h)' = Denied(h), closing' = closing
  PROVE  Slots(h)!Next
<1>1. Slots(h)!Named(id) = {}
  BY DEF Slots!Named, Slots!Of, Lives, Names
<1>2. Slots(h)!Register(o, id)
  BY <1>1 DEF Slots!Register, Lives, Names, Denied
<1> QED
  BY <1>2 DEF Slots!Next

LEMMA MayStart ==
  ASSUME NEW h \in Hosts, NEW o \in Operations,
         ~closing[h], Lives(h)[o] = "waiting", o \notin Denied(h),
         Cardinality({p \in Operations : Lives(h)[p] = "running"}) < LIMIT,
         Lives(h)' = [Lives(h) EXCEPT ![o] = "running"],
         Names(h)' = Names(h), Denied(h)' = Denied(h), closing' = closing
  PROVE  Slots(h)!Next
<1>1. Slots(h)!Of("running") = {p \in Operations : Lives(h)[p] = "running"}
  BY DEF Slots!Of, Lives
<1>2. Slots(h)!Cardinality(Slots(h)!Of("running")) < LIMIT
  <2>1. Slots(h)!Cardinality({p \in Operations : Lives(h)[p] = "running"})
        = Cardinality({p \in Operations : Lives(h)[p] = "running"})
    BY DEF Slots!Cardinality, Cardinality
  <2> QED
    BY <1>1, <2>1
<1>3. Slots(h)!Start(o)
  BY <1>2 DEF Slots!Start, Lives, Names, Denied
<1> QED
  BY <1>3 DEF Slots!Next

LEMMA MayEnd ==
  ASSUME NEW h \in Hosts, NEW o \in Operations,
         Lives(h)[o] \in {"waiting", "running"},
         Lives(h)' = [Lives(h) EXCEPT ![o] = "over"],
         Names(h)' = Names(h), Denied(h)' = Denied(h), closing' = closing
  PROVE  Slots(h)!Next
<1>1. Slots(h)!End(o)
  BY DEF Slots!End, Lives, Names, Denied
<1> QED
  BY <1>1 DEF Slots!Next

LEMMA MayRefuse ==
  ASSUME NEW h \in Hosts, NEW o \in Operations, Lives(h)[o] = "waiting",
         Lives(h)' = Lives(h), Names(h)' = Names(h),
         Denied(h)' = Denied(h) \cup {o}, closing' = closing
  PROVE  Slots(h)!Next
<1>1. Slots(h)!Refuse(o)
  BY DEF Slots!Refuse, Lives, Names, Denied
<1> QED
  BY <1>1 DEF Slots!Next

LEMMA MayStay ==
  ASSUME NEW h \in Hosts, Lives(h)' = Lives(h), Names(h)' = Names(h),
         Denied(h)' = Denied(h), closing'[h] = closing[h]
  PROVE  UNCHANGED Slots(h)!vars
  BY DEF Slots!vars, Lives, Names, Denied

LEMMA SlotsInit == Init => \A h \in Hosts : Slots(h)!Init
<1> SUFFICES ASSUME Init, NEW h \in Hosts
             PROVE  Slots(h)!Init
  OBVIOUS
<1>1. \A o \in Operations : op[o].host # h
  BY NoneAssumption DEF Init
<1> QED
  BY <1>1 DEF Init, Slots!Init

\* Which life each place in a thread's code is.
Waits == {"registered", "begun", "dropping", "launched"}
Runs  == {"running", "handling", "handled"}
LEMMA LifeOfPlace ==
  ASSUME IInv, NEW o \in Operations
  PROVE  /\ pc[o] = "idle" => Life(o) = "unborn"
         /\ pc[o] \in Waits <=> Life(o) = "waiting"
         /\ pc[o] \in Runs <=> Life(o) = "running"
         /\ pc[o] \in {"unspawned", "late"} => Life(o) = "over"
<1>1. pc[o] \in Pcs
  BY DEF IInv, Types
<1>2. told[o] \in {"closed", "already running"} => pc[o] = "done"
  BY DEF IInv, OperationOK, Coherent
<1> QED
  BY <1>1, <1>2 DEF Life, Waits, Runs, Pcs

\* What a thread of o does to the lives of its own host, and of any other.
LEMMA ThreadLives ==
  ASSUME IInv, NEW h \in Hosts, NEW o \in Operations, NEW at \in Pcs, NEW what \in Answers,
         pc' = [pc EXCEPT ![o] = at], told' = [told EXCEPT ![o] = what], op' = op,
         NEW to, Life(o)' = to, to # "unborn", Life(o) # "unborn"
  PROVE  /\ Names(h)' = Names(h)
         /\ Lives(h)' = IF op[o].host = h THEN [Lives(h) EXCEPT ![o] = to] ELSE Lives(h)
<1>1. \A p \in Operations \ {o} : Life(p)' = Life(p)
  BY DEF Life, IInv, Types
<1>2. Names(h)' = Names(h)
  <2>1. \A p \in Operations :
          (op'[p].host = h /\ Life(p)' # "unborn") <=> (op[p].host = h /\ Life(p) # "unborn")
    BY <1>1
  <2> QED
    BY <2>1 DEF Names
<1>3. Lives(h)' = [p \in Operations |->
                     IF op[p].host # h THEN "unborn" ELSE IF p = o THEN to ELSE Life(p)]
  <2>1. Lives(h)' = [p \in Operations |-> IF op[p].host = h THEN Life(p)' ELSE "unborn"]
    BY DEF Lives
  <2> QED
    BY <1>1, <2>1
<1>4. CASE op[o].host = h
  BY <1>2, <1>3, <1>4 DEF Lives
<1>5. CASE op[o].host # h
  BY <1>2, <1>3, <1>5 DEF Lives
<1> QED
  BY <1>4, <1>5

\* A thread's steps, but the one that admits it: its operation stays where it
\* was, or it ends.
LEMMA ThreadKeeps ==
  ASSUME IInv, NEW h \in Hosts, NEW o \in Operations,
         (Proceeds(o) \/ HandlerEnds(o)) /\ ~Admit(o)
  PROVE  [Slots(h)!Next]_(Slots(h)!vars)
<1>1. PICK at \in Pcs, what \in Answers :
        /\ pc' = [pc EXCEPT ![o] = at] /\ told' = [told EXCEPT ![o] = what]
        /\ op' = op /\ closing' = closing /\ denied' = denied
        /\ what \notin {"closed", "already running"} \/ what = told[o]
        /\ \/ pc[o] \in Waits /\ at \in Waits
           \/ pc[o] \in Runs /\ at \in Runs
           \/ pc[o] \in Waits \cup Runs /\ at \in {"unspawned", "late"}
           \/ pc[o] = "dropping" /\ at = "done" /\ what = "refused"
           \/ pc[o] \in {"unspawned", "late"} /\ at = "done"
  <2> USE DEF Waits, Runs, Pcs, Answers, Goto, Tell, EndTicket, host
  <2>1. told[o] \in Answers /\ told = [told EXCEPT ![o] = told[o]]
    BY DEF IInv, Types
  <2>2. CASE DecodeFails(o)
    BY <2>1, <2>2 DEF DecodeFails
  <2>3. CASE SubmitBegins(o)
    BY <2>1, <2>3 DEF SubmitBegins, Begin
  <2>4. CASE AcceptFails(o)
    BY <2>1, <2>4 DEF AcceptFails
  <2>5. CASE Launch(o)
    BY <2>1, <2>5 DEF Launch
  <2>6. CASE SubmitFails(o)
    BY <2>1, <2>6 DEF SubmitFails
  <2>7. CASE SpawnFails(o)
    BY <2>1, <2>7 DEF SpawnFails
  <2>8. CASE SpawnFailure(o)
    BY <2>1, <2>8 DEF SpawnFailure
  <2>9. CASE AdmitRefused(o)
    BY <2>1, <2>9 DEF AdmitRefused
  <2>10. CASE CallBegins(o) \/ TagWorks(o)
    BY <2>1, <2>10 DEF CallBegins, TagWorks, Begin
  <2>11. CASE Finish(o)
    BY <2>1, <2>11 DEF Finish
  <2>12. CASE Report(o)
    BY <2>1, <2>12 DEF Report
  <2>13. CASE HandlerEnds(o)
    BY <2>1, <2>13 DEF HandlerEnds, HandlerSucceeds, HandlerFails
  <2> QED
    BY <2>2, <2>3, <2>4, <2>5, <2>6, <2>7, <2>8, <2>9, <2>10, <2>11, <2>12, <2>13
    DEF Proceeds
<1>2. told[o] \notin {"closed", "already running"}
  BY <1>1 DEF IInv, OperationOK, Coherent, Waits, Runs
<1>3. PICK to : to = IF at \in Waits THEN "waiting" ELSE IF at \in Runs THEN "running" ELSE "over"
  OBVIOUS
<1>4. Life(o)' = to
  <2>1. pc'[o] = at /\ told'[o] \notin {"closed", "already running"} /\ at # "idle"
    BY <1>1, <1>2 DEF IInv, Types, Waits, Runs
  <2> QED
    BY <1>3, <2>1 DEF Life, Waits, Runs
<1>5. Life(o) # "unborn"
  BY <1>1, <1>2, LifeOfPlace DEF Life, Waits, Runs
<1>6. /\ Names(h)' = Names(h)
      /\ Lives(h)' = IF op[o].host = h THEN [Lives(h) EXCEPT ![o] = to] ELSE Lives(h)
  BY <1>1, <1>3, <1>4, <1>5, ThreadLives
<1>7. Denied(h)' = Denied(h)
  BY <1>1 DEF Denied
<1>8. CASE op[o].host # h \/ Life(o) = to
  <2>1. Lives(h)' = Lives(h)
    BY <1>6, <1>8 DEF Lives
  <2> QED
    BY <1>1, <1>6, <1>7, <2>1, MayStay
<1>9. CASE op[o].host = h /\ Life(o) # to
  <2>1. to = "over" /\ Life(o) \in {"waiting", "running"}
    BY <1>1, <1>2, <1>3, <1>9, LifeOfPlace DEF Life, Waits, Runs
  <2>2. Lives(h)[o] = Life(o)
    BY <1>9 DEF Lives
  <2> QED
    BY <1>1, <1>6, <1>7, <1>9, <2>1, <2>2, MayEnd
<1> QED
  BY <1>8, <1>9

LEMMA AdmitKeeps ==
  ASSUME IInv, NEW h \in Hosts, NEW o \in Operations, Admit(o)
  PROVE  [Slots(h)!Next]_(Slots(h)!vars)
<1> DEFINE at == IF op[o].kind = "submit" THEN "handling" ELSE "running"
<1>1. /\ pc[o] = "launched" /\ pc' = [pc EXCEPT ![o] = at]
      /\ UNCHANGED <<host, records, op, told>>
      /\ ~refuses(o) /\ Cardinality(Running(op[o].host)) < LIMIT
  BY DEF Admit, Goto
<1>2. told[o] \notin {"closed", "already running"} /\ told[o] \in Answers
      /\ told' = [told EXCEPT ![o] = told[o]]
  BY <1>1 DEF IInv, Types, OperationOK, Coherent
<1>3. Life(o) = "waiting" /\ Life(o)' = "running"
  <2>1. pc'[o] \in {"handling", "running"} /\ told'[o] = told[o]
    BY <1>1 DEF IInv, Types
  <2>2. Life(o) = "waiting"
    BY <1>1, LifeOfPlace DEF Waits
  <2>3. Life(o)' = "running"
    BY <1>2, <2>1 DEF Life
  <2> QED
    BY <2>2, <2>3
<1>4. /\ Names(h)' = Names(h)
      /\ Lives(h)' = IF op[o].host = h THEN [Lives(h) EXCEPT ![o] = "running"] ELSE Lives(h)
  <2>1. at \in Pcs
    BY DEF Pcs
  <2> QED
    BY <1>1, <1>2, <1>3, <2>1, ThreadLives
<1>5. Denied(h)' = Denied(h) /\ closing' = closing
  BY <1>1 DEF Denied, host
<1>6. CASE op[o].host # h
  BY <1>4, <1>5, <1>6, MayStay
<1>7. CASE op[o].host = h
  <2>1. Lives(h)[o] = "waiting"
    BY <1>3, <1>7 DEF Lives
  <2>2. ~closing[h] /\ o \notin Denied(h)
    BY <1>1, <1>7 DEF refuses, Denied, IInv, Marks
  <2>3. {p \in Operations : Lives(h)[p] = "running"} = Running(h)
    BY LifeOfPlace DEF Lives, Running, Runs
  <2> QED
    BY <1>1, <1>4, <1>5, <1>7, <2>1, <2>2, <2>3, MayStart
<1> QED
  BY <1>6, <1>7

LEMMA EnterKeeps ==
  ASSUME IInv, NEW h \in Hosts, NEW o \in Operations, NEW g \in Hosts, NEW id \in Ids,
         NEW kind \in Kinds, Enter(o, g, id, kind)
  PROVE  [Slots(h)!Next]_(Slots(h)!vars)
<1> DEFINE self == [kind |-> kind, host |-> g, id |-> id]
<1>1. /\ pc[o] = "idle" /\ op[o].host = None /\ op[o].host # h /\ told[o] = "nothing"
      /\ denied' = denied /\ closing' = closing
  BY NoneAssumption DEF Enter, Goto, IInv, OperationOK, Coherent
<1>2. /\ op' = [op EXCEPT ![o] = self] /\ op'[o].host = g /\ op'[o].id = id
      /\ \A p \in Operations \ {o} : op'[p] = op[p]
  BY DEF Enter, IInv, Types
<1>3. \A p \in Operations \ {o} : Life(p)' = Life(p)
  BY DEF Life, Enter, Goto, Tell, IInv, Types
<1>4. Life(o)' = IF closing[g] \/ live[g][id] # None THEN "unborn" ELSE "waiting"
  <2>1. CASE closing[g] \/ live[g][id] # None
    <3>1. told'[o] \in {"closed", "already running"} /\ pc'[o] = "done"
      BY <2>1 DEF Enter, Goto, Tell, IInv, Types
    <3> QED
      BY <2>1, <3>1 DEF Life
  <2>2. CASE ~(closing[g] \/ live[g][id] # None)
    <3>1. told'[o] = "nothing" /\ pc'[o] \in {"registered", "launched"}
      BY <1>1, <2>2 DEF Enter, Goto, IInv, Types
    <3> QED
      BY <2>2, <3>1 DEF Life
  <2> QED
    BY <2>1, <2>2
<1>5. Denied(h)' = Denied(h)
  <2>1. o \notin denied
    BY <1>1 DEF IInv, Marks
  <2> QED
    BY <1>1, <1>2, <2>1 DEF Denied, IInv, Types
<1>6. CASE g # h \/ closing[g] \/ live[g][id] # None
  <2>1. Lives(h)' = Lives(h)
    BY <1>1, <1>2, <1>3, <1>4, <1>6 DEF Lives
  <2>2. Names(h)' = Names(h)
    BY <1>1, <1>2, <1>3, <1>4, <1>6 DEF Names
  <2> QED
    BY <1>1, <1>5, <2>1, <2>2, MayStay
<1>7. CASE g = h /\ ~closing[g] /\ live[g][id] = None
  <2>1. Lives(h)' = [Lives(h) EXCEPT ![o] = "waiting"]
    BY <1>1, <1>2, <1>3, <1>4, <1>7 DEF Lives
  <2>2. Names(h)' = [Names(h) EXCEPT ![o] = id]
    <3>1. \A p \in Operations :
            /\ (op'[p].host = h /\ Life(p)' # "unborn")
                 <=> (p = o \/ (op[p].host = h /\ Life(p) # "unborn"))
            /\ op'[p].id = IF p = o THEN id ELSE op[p].id
      BY <1>1, <1>2, <1>3, <1>4, <1>7
    <3>2. Names(h)' = [p \in Operations |->
                         IF p = o THEN id
                         ELSE IF op[p].host = h /\ Life(p) # "unborn" THEN op[p].id ELSE None]
      BY <3>1 DEF Names
    <3> QED
      BY <3>2 DEF Names
  <2>3. Lives(h)[o] = "unborn"
    BY <1>1 DEF Lives
  <2>4. ASSUME NEW p \in Operations, Lives(h)[p] \in {"waiting", "running"}, Names(h)[p] = id
        PROVE  FALSE
    <3>1. op[p].host = h /\ Life(p) \in {"waiting", "running"} /\ op[p].id = id
      BY <2>4 DEF Lives, Names
    <3>2. pc[p] \in Ticketed
      BY <3>1, LifeOfPlace DEF Waits, Runs, Ticketed
    <3> QED
      BY <1>7, <3>1, <3>2, NoneAssumption DEF IInv, Owned
  <2> QED
    BY <1>1, <1>5, <1>7, <2>1, <2>2, <2>3, <2>4, MayRegister
<1> QED
  BY <1>6, <1>7

LEMMA HostKeeps ==
  ASSUME IInv, NEW h \in Hosts, NEW g \in Hosts,
         (\E id \in Ids : Cancel(g, id)) \/ Close(g) \/ CloseIsQuiet(g)
  PROVE  [Slots(h)!Next]_(Slots(h)!vars)
<1>1. op' = op /\ pc' = pc /\ told' = told
  BY DEF Cancel, Close, CloseIsQuiet
<1>2. Lives(h)' = Lives(h) /\ Names(h)' = Names(h)
  BY <1>1 DEF Lives, Names, Life
<1>3. CASE \E id \in Ids : Cancel(g, id)
  <2>1. PICK id \in Ids : Cancel(g, id)
    BY <1>3
  <2>2. /\ live[g][id] \in Operations /\ pc[live[g][id]] \in Ticketed
        /\ op[live[g][id]].host = g
    BY <2>1 DEF Cancel, IInv, Types, Entries
  <2>3. /\ denied' = IF live[g][id] \in admitted THEN denied ELSE denied \cup {live[g][id]}
        /\ closing' = closing
    BY <2>1 DEF Cancel
  <2>4. CASE live[g][id] \in admitted \/ g # h
    <3>1. Denied(h)' = Denied(h)
      BY <1>1, <2>2, <2>3, <2>4 DEF Denied
    <3> QED
      BY <1>2, <2>3, <3>1, MayStay
  <2>5. CASE live[g][id] \notin admitted /\ g = h
    <3>1. Denied(h)' = Denied(h) \cup {live[g][id]}
      BY <1>1, <2>2, <2>3, <2>5 DEF Denied
    <3>2. pc[live[g][id]] \in Waits
      BY <2>2, <2>5 DEF IInv, OperationOK, Coherent, Ticketed, Waits
    <3>3. Lives(h)[live[g][id]] = "waiting"
      BY <2>2, <2>5, <3>2, LifeOfPlace DEF Lives
    <3> QED
      BY <1>2, <2>2, <2>3, <3>1, <3>3, MayRefuse
  <2> QED
    BY <2>4, <2>5
<1>4. CASE Close(g)
  <2>1. Denied(h)' = Denied(h) /\ closing' = [closing EXCEPT ![g] = TRUE]
    BY <1>1, <1>4 DEF Close, Denied
  <2>2. CASE g = h
    <3>1. closing'[h] = TRUE
      BY <2>1, <2>2 DEF IInv, Types
    <3>2. Slots(h)!Close
      BY <1>2, <2>1, <3>1 DEF Slots!Close, Lives, Names, Denied
    <3> QED
      BY <3>2 DEF Slots!Next
  <2>3. CASE g # h
    <3>1. closing'[h] = closing[h]
      BY <2>1, <2>3 DEF IInv, Types
    <3> QED
      BY <1>2, <2>1, <3>1, MayStay
  <2> QED
    BY <2>2, <2>3
<1>5. CASE CloseIsQuiet(g)
  <2>1. Denied(h)' = Denied(h) /\ closing'[h] = closing[h]
    BY <1>1, <1>5 DEF CloseIsQuiet, Denied
  <2> QED
    BY <1>2, <2>1, MayStay
<1> QED
  BY <1>3, <1>4, <1>5

LEMMA StepKeeps == IInv /\ [Next]_vars => \A h \in Hosts : [Slots(h)!Next]_(Slots(h)!vars)
<1> SUFFICES ASSUME IInv, [Next]_vars, NEW h \in Hosts
             PROVE  [Slots(h)!Next]_(Slots(h)!vars)
  OBVIOUS
<1>1. CASE \E o \in Operations, g \in Hosts, id \in Ids, kind \in Kinds :
             Enter(o, g, id, kind)
  BY <1>1, EnterKeeps
<1>2. CASE \E o \in Operations : Proceeds(o) \/ HandlerEnds(o)
  BY <1>2, ThreadKeeps, AdmitKeeps
<1>3. CASE \E g \in Hosts : (\E id \in Ids : Cancel(g, id)) \/ Close(g) \/ CloseIsQuiet(g)
  BY <1>3, HostKeeps
<1>4. CASE UNCHANGED vars
  <2>1. op' = op /\ pc' = pc /\ told' = told /\ denied' = denied /\ closing' = closing
    BY <1>4 DEF vars, host
  <2>2. Lives(h)' = Lives(h) /\ Names(h)' = Names(h) /\ Denied(h)' = Denied(h)
    BY <2>1 DEF Lives, Names, Denied, Life
  <2> QED
    BY <2>1, <2>2, MayStay
<1> QED
  BY <1>1, <1>2, <1>3, <1>4 DEF Next

\* Whatever other Clients' operations and the store do, each host keeps to the
\* slots, names and refusals of NetworkSlots.
THEOREM SlotsRefinement == Spec => HostsKeepThePromise
<1>1. IInv /\ [Next]_vars => [\A h \in Hosts : [Slots(h)!Next]_(Slots(h)!vars)]_vars
  BY StepKeeps
<1> QED
  BY <1>1, SlotsInit, Invariance, PTL DEF Spec, HostsKeepThePromise

-----------------------------------------------------------------------------
(* The store.  The begin of a submit or a call is the promise's Begin, the   *)
(* first outcome its End; everything else is a stutter.                      *)

BeginsAs(o, id) ==
  /\ outcome[o] = "none" /\ mayBegin(id)
  /\ store' = [store EXCEPT ![id] = o]
  /\ outcome' = [outcome EXCEPT ![o] = "live"]

EndsAs(o, how) ==
  /\ outcome[o] = "live" /\ store' = store
  /\ outcome' = [outcome EXCEPT ![o] = how]

RecordsMove ==
  \/ UNCHANGED records
  \/ \E o \in Operations, id \in Ids : BeginsAs(o, id)
  \/ \E o \in Operations, how \in Over : EndsAs(o, how)

LEMMA RecordsMoveByThreads ==
  ASSUME IInv, NEW o \in Operations, Proceeds(o) \/ HandlerEnds(o)
  PROVE  RecordsMove
<1>1. /\ outcome[o] \in Outcomes
      /\ Coherent(pc[o], outcome[o], told[o], op[o], o \in admitted)
      /\ outcome = [outcome EXCEPT ![o] = outcome[o]]
  BY Before
<1>2. CASE UNCHANGED records
  BY <1>2 DEF RecordsMove
<1>3. ASSUME NEW begun, NEW refused, outcome[o] = "none", op[o].id \in Ids,
             Begin(o, begun, refused)
      PROVE  RecordsMove
  <2>1. BeginsAs(o, op[o].id) \/ UNCHANGED records
    BY <1>3 DEF Begin, Outcome, BeginsAs
  <2> QED
    BY <1>3, <2>1 DEF RecordsMove
<1>4. ASSUME NEW how \in Over, outcome[o] = "live", Outcome(o, how), store' = store
      PROVE  RecordsMove
  <2>1. EndsAs(o, how)
    BY <1>4 DEF Outcome, EndsAs
  <2> QED
    BY <2>1 DEF RecordsMove
<1>5. CASE SubmitBegins(o) \/ CallBegins(o)
  <2>1. outcome[o] = "none" /\ op[o].id \in Ids
    BY <1>1, <1>5 DEF SubmitBegins, CallBegins, Coherent
  <2> QED
    BY <1>3, <1>5, <2>1 DEF SubmitBegins, CallBegins
<1>6. CASE AcceptFails(o) \/ SpawnFailure(o)
  <2>1. outcome[o] = "live" /\ Outcome(o, "refused") /\ store' = store
    BY <1>1, <1>6 DEF AcceptFails, SpawnFailure, Goto, Coherent
  <2> QED
    BY <1>4, <2>1 DEF Over
<1>7. CASE HandlerSucceeds(o)
  <2>1. CASE HasRecord(o)
    <3>1. outcome[o] = "live" /\ Outcome(o, "result") /\ store' = store
      BY <1>1, <1>7, <2>1 DEF HandlerSucceeds, HasRecord, Goto, Coherent
    <3> QED
      BY <1>4, <3>1 DEF Over
  <2>2. CASE ~HasRecord(o)
    BY <1>2, <1>7, <2>2 DEF HandlerSucceeds, records
  <2> QED
    BY <2>1, <2>2
\* A call's failure ends the record it began, a submit's leaves it to its report.
<1>8. CASE HandlerFails(o)
  <2>1. CASE op[o].kind = "call"
    <3>1. outcome[o] = "live" /\ Outcome(o, "refused") /\ store' = store
      BY <1>1, <1>8, <2>1 DEF HandlerFails, Goto, Coherent
    <3> QED
      BY <1>4, <3>1 DEF Over
  <2>2. CASE op[o].kind # "call"
    BY <1>2, <1>8, <2>2 DEF HandlerFails, records
  <2> QED
    BY <2>1, <2>2
\* A submit's report ends a record that is still live, and leaves a result.
<1>9. CASE Report(o)
  <2>1. CASE op[o].kind = "submit" /\ outcome[o] = "live"
    <3>1. Outcome(o, "error") /\ store' = store
      BY <1>9, <2>1 DEF Report, lateOutcome
    <3> QED
      BY <1>4, <2>1, <3>1 DEF Over
  <2>2. CASE ~(op[o].kind = "submit" /\ outcome[o] = "live")
    <3>1. UNCHANGED records
      BY <1>1, <1>9, <2>2 DEF Report, lateOutcome, Outcome, records
    <3> QED
      BY <1>2, <3>1
  <2> QED
    BY <2>1, <2>2
<1> QED
  BY <1>2, <1>5, <1>6, <1>7, <1>8, <1>9
  DEF Proceeds, HandlerEnds, DecodeFails, Launch, SubmitFails, SpawnFails, AdmitRefused,
      Admit, TagWorks, Finish

LEMMA RecordsMoveByNext ==
  ASSUME IInv, [Next]_vars
  PROVE  RecordsMove
<1>1. CASE \E o \in Operations : Proceeds(o) \/ HandlerEnds(o)
  BY <1>1, RecordsMoveByThreads
<1>2. CASE UNCHANGED records
  BY <1>2 DEF RecordsMove
<1> QED
  BY <1>1, <1>2 DEF Next, Enter, Cancel, Close, CloseIsQuiet, vars

\* An ID names nothing, or an operation that has begun.
NamedHaveBegun ==
  \A id \in Ids : store[id] # None => outcome[store[id]] # "none"

LEMMA NamesInvariant ==
  IInv /\ NamedHaveBegun /\ [Next]_vars => NamedHaveBegun'
<1> SUFFICES ASSUME IInv, NamedHaveBegun, [Next]_vars, NEW i \in Ids, store'[i] # None
             PROVE  outcome'[store'[i]] # "none"
  BY DEF NamedHaveBegun
<1> USE DEF IInv, Types
<1>1. CASE UNCHANGED records
  BY <1>1 DEF records, NamedHaveBegun
<1>2. ASSUME NEW o \in Operations, NEW id \in Ids, BeginsAs(o, id)
      PROVE  outcome'[store'[i]] # "none"
  <2>1. store'[i] = o \/ store'[i] = store[i]
    BY <1>2 DEF BeginsAs
  <2>2. \A p \in Operations : outcome'[p] = IF p = o THEN "live" ELSE outcome[p]
    BY <1>2 DEF BeginsAs
  <2> QED
    BY <2>1, <2>2 DEF NamedHaveBegun
<1>3. ASSUME NEW o \in Operations, NEW how \in Over, EndsAs(o, how)
      PROVE  outcome'[store'[i]] # "none"
  <2>1. how # "none" /\ store' = store
    BY <1>3 DEF EndsAs, Over
  <2>2. \A p \in Operations : outcome'[p] = IF p = o THEN how ELSE outcome[p]
    BY <1>3 DEF EndsAs
  <2> QED
    BY <2>1, <2>2 DEF NamedHaveBegun
<1> QED
  BY <1>1, <1>2, <1>3, RecordsMoveByNext DEF RecordsMove

LEMMA StoreBegins ==
  ASSUME IInv, NamedHaveBegun, NEW o \in Operations, NEW id \in Ids, BeginsAs(o, id)
  PROVE  Store!Begin(o, id)
<1>1. Recorded[o] = "unborn" /\ Recorded' = [Recorded EXCEPT ![o] = "live"]
  BY DEF BeginsAs, Recorded, IInv, Types
<1>2. store[id] = None \/ Recorded[store[id]] \in Over
  <2> SUFFICES ASSUME store[id] # None
               PROVE  Recorded[store[id]] \in Over
    OBVIOUS
  <2>1. store[id] \in Operations /\ outcome[store[id]] \in Over
    BY DEF BeginsAs, mayBegin, IsLive, NamedHaveBegun, IInv, Types, Outcomes
  <2> QED
    BY <2>1 DEF Recorded, Over
<1> QED
  BY <1>1, <1>2 DEF BeginsAs, Store!Begin

LEMMA StoreEnds ==
  ASSUME IInv, NEW o \in Operations, NEW how \in Over, EndsAs(o, how)
  PROVE  Store!End(o, how)
<1>1. Recorded[o] = "live" /\ Recorded' = [Recorded EXCEPT ![o] = how]
  BY DEF EndsAs, Recorded, Over, IInv, Types
<1> QED
  BY <1>1 DEF EndsAs, Store!End

LEMMA StoreKeeps == IInv /\ NamedHaveBegun /\ [Next]_vars => [Store!Next]_(Store!vars)
<1> SUFFICES ASSUME IInv, NamedHaveBegun, [Next]_vars
             PROVE  [Store!Next]_(Store!vars)
  OBVIOUS
<1>1. CASE UNCHANGED records
  BY <1>1 DEF records, Recorded, Store!vars
<1>2. ASSUME NEW o \in Operations, NEW id \in Ids, BeginsAs(o, id)
      PROVE  Store!Next
  BY <1>2, StoreBegins DEF Store!Next
<1>3. ASSUME NEW o \in Operations, NEW how \in Over, EndsAs(o, how)
      PROVE  Store!Next
  BY <1>3, StoreEnds DEF Store!Next
<1> QED
  BY <1>1, <1>2, <1>3, RecordsMoveByNext DEF RecordsMove

\* Whichever hosts the operations come through, the store gives an ID to one live
\* operation at a time and each operation one outcome: it implements what
\* OperationRecords implements in detail.
THEOREM StoreRefinement == Spec => StoreKeepsThePromise
<1>1. Init => Store!Init /\ NamedHaveBegun
  BY DEF Init, Recorded, Store!Init, NamedHaveBegun
<1> QED
  BY <1>1, StoreKeeps, NamesInvariant, Invariance, PTL
     DEF Spec, StoreKeepsThePromise, Store!Spec

\* Hosts and store keep their promises together.
THEOREM BothArePromised == Spec => PromisesAreKept
  BY SlotsRefinement, StoreRefinement, PTL DEF PromisesAreKept
=============================================================================

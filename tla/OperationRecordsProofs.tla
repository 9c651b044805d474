----------------------- MODULE OperationRecordsProofs -----------------------
(***************************************************************************)
(* Proofs about OperationRecords, for any number of operations, events and *)
(* readers: what a record goes through from its begin to its last drop,    *)
(* and what its readers can have seen of it.                               *)
(***************************************************************************)
EXTENDS OperationRecordsProps, SequenceTheorems, TLAPS

USE RecordsAssumption

WriterTypes ==
  /\ store \in [Ids -> 0..MaxRecords]
  /\ begun \in 0..MaxRecords
  /\ rec \in [Records -> State]
  /\ stage \in [Records -> Stages]
  /\ clones \in [Records -> SUBSET Writers]
  /\ unlocked \in [Records -> SUBSET Writers]

\* The stages in which the operation's own thread holds a recorder.
AtWork == {"running", "finished", "failing", "panicked", "leaving"}

Live(state) == state.result = "none" /\ state.refusal = "none"

\* How a record's outcome, its operation's stage and the clones of its recorder
\* belong together.
RecordOK(state, at, holders) ==
  /\ state.kind \in Kinds
  /\ at # "none"
  /\ at \in {"begun", "unspawned", "running"} => Live(state)
  /\ at \in {"begun", "unspawned"} => holders = {"submitter"}
  /\ at = "unspawned" => state.kind = "submit"
  /\ at = "unstarted" => state.refusal = "IoError"
  /\ at \in AtWork => "worker" \in holders
  /\ at \in AtWork /\ "submitter" \in holders => state.kind = "submit"
  /\ at \in {"failing", "panicked"} => state.kind = "submit"
  /\ at \in {"finished", "ended"} => ~Live(state)
  /\ at = "leaving" /\ state.kind = "submit" => ~Live(state)
  /\ Live(state) => holders # {}
  /\ state.result = "none" \/ state.refusal = "none"
  /\ state.merge <=> state.result = "ok" /\ state.kind \in Merges

WriterInv ==
  /\ WriterTypes
  /\ \A id \in Ids : store[id] <= begun
  /\ \A r \in Begun : RecordOK(rec[r], stage[r], clones[r])
  /\ \A r \in Records \ Begun : rec[r] = Unused /\ stage[r] = "none" /\ clones[r] = {}
  /\ LiveIsCurrent

-----------------------------------------------------------------------------
(* What a step of a writer does to its record.                              *)

\* The record becomes "new": it stays as it is, or it was live, keeps its kind,
\* takes one event or has its outcome, and its change has a notify_all to come.
Written(r, new, writers) ==
  /\ new \in State /\ writers \subseteq Writers
  /\ rec' = [rec EXCEPT ![r] = new]
  /\ unlocked' = [unlocked EXCEPT ![r] = writers]
  /\ \/ new = rec[r] /\ writers = unlocked[r]
     \/ /\ is_live(r) /\ writers # {} /\ new.kind = rec[r].kind
        /\ \/ new.events = rec[r].events
           \/ new.events = rec[r].events + 1 /\ Live(new)

\* A step on one record, which leaves it in order.
WriterStep(r) ==
  \E new \in State, at \in Stages, holders \in SUBSET Writers, writers \in SUBSET Writers :
    /\ Written(r, new, writers)
    /\ stage' = [stage EXCEPT ![r] = at]
    /\ clones' = [clones EXCEPT ![r] = holders]
    /\ RecordOK(new, at, holders)
    /\ UNCHANGED <<store, begun, readers>>

LEMMA StaysWritten ==
  ASSUME WriterTypes, NEW r \in Records, UNCHANGED <<rec, unlocked>>
  PROVE  Written(r, rec[r], unlocked[r])
  BY DEF WriterTypes, Written

\* The first outcome stands.
LEMMA Publishes ==
  ASSUME WriterTypes, NEW r \in Records, NEW w \in Writers, NEW new \in State,
         new.kind = rec[r].kind, new.events = rec[r].events, publish(r, new, w)
  PROVE  \E state \in State, writers \in SUBSET Writers :
           /\ Written(r, state, writers)
           /\ state = IF is_live(r) THEN new ELSE rec[r]
<1>1. CASE is_live(r)
  <2>1. Written(r, new, unlocked[r] \cup {w})
    BY <1>1 DEF WriterTypes, Written, publish, State
  <2> QED
    BY <1>1, <2>1 DEF WriterTypes
<1>2. CASE ~is_live(r)
  <2>1. Written(r, rec[r], unlocked[r])
    BY <1>2, StaysWritten DEF publish
  <2> QED
    BY <1>2, <2>1 DEF WriterTypes
<1> QED
  BY <1>1, <1>2

LEMMA Refuses ==
  ASSUME WriterTypes, NEW r \in Records, NEW w \in Writers, NEW reason \in Refusals,
         refuse(r, reason, w)
  PROVE  \E state \in State, writers \in SUBSET Writers :
           /\ Written(r, state, writers)
           /\ state = IF is_live(r) THEN [rec[r] EXCEPT !.refusal = reason] ELSE rec[r]
<1> DEFINE new == [rec[r] EXCEPT !.refusal = reason]
<1>1. new \in State /\ new.kind = rec[r].kind /\ new.events = rec[r].events
  BY DEF WriterTypes, State
<1>2. publish(r, new, w)
  BY DEF refuse
<1> HIDE DEF new
<1>3. \E state \in State, writers \in SUBSET Writers :
        /\ Written(r, state, writers)
        /\ state = IF is_live(r) THEN new ELSE rec[r]
  BY <1>1, <1>2, Publishes
<1> QED
  BY <1>3 DEF new

LEMMA Completes ==
  ASSUME WriterTypes, NEW r \in Records, NEW result \in Results, NEW merge \in BOOLEAN,
         complete(r, result, merge)
  PROVE  \E state \in State, writers \in SUBSET Writers :
           /\ Written(r, state, writers)
           /\ state = IF is_live(r)
                      THEN [rec[r] EXCEPT !.result = result, !.merge = merge] ELSE rec[r]
<1> DEFINE new == [rec[r] EXCEPT !.result = result, !.merge = merge]
<1>1. new \in State /\ new.kind = rec[r].kind /\ new.events = rec[r].events
  BY DEF WriterTypes, State
<1>2. publish(r, new, "worker") /\ "worker" \in Writers
  BY DEF complete, Writers
<1> HIDE DEF new
<1>3. \E state \in State, writers \in SUBSET Writers :
        /\ Written(r, state, writers)
        /\ state = IF is_live(r) THEN new ELSE rec[r]
  BY <1>1, <1>2, Publishes
<1> QED
  BY <1>3 DEF new

\* A drop refuses a record only if its clone is the last.
LEMMA Drops ==
  ASSUME WriterTypes, NEW r \in Records, NEW w \in Writers, dropClone(r, w)
  PROVE  /\ clones' = [clones EXCEPT ![r] = clones[r] \ {w}]
         /\ \E state \in State, writers \in SUBSET Writers :
              /\ Written(r, state, writers)
              /\ state = IF is_live(r) /\ clones[r] = {w}
                         THEN [rec[r] EXCEPT !.refusal = "InternalError"] ELSE rec[r]
<1>1. CASE clones[r] = {w}
  <2>1. refuse(r, "InternalError", w) /\ "InternalError" \in Refusals
    BY <1>1 DEF dropClone, Refusals
  <2> QED
    BY <1>1, <2>1, Refuses DEF dropClone
<1>2. CASE clones[r] # {w}
  <2>1. UNCHANGED <<rec, unlocked>>
    BY <1>2 DEF dropClone
  <2>2. Written(r, rec[r], unlocked[r])
    BY <2>1, StaysWritten
  <2> QED
    BY <1>2, <2>2 DEF dropClone, WriterTypes
<1> QED
  BY <1>1, <1>2

-----------------------------------------------------------------------------
(* One lemma per group of actions of a writer.                              *)

\* What WriterInv says of a record that some writer has begun.
LEMMA BegunRecord ==
  ASSUME WriterInv, NEW r \in Records, stage[r] # "none" \/ clones[r] # {}
  PROVE  /\ r \in Begun /\ RecordOK(rec[r], stage[r], clones[r])
         /\ rec[r] \in State /\ stage[r] \in Stages /\ clones[r] \subseteq Writers
         /\ unlocked[r] \subseteq Writers /\ (is_live(r) <=> Live(rec[r]))
  BY DEF WriterInv, WriterTypes, is_live, Live

LEMMA StepMaker ==
  ASSUME WriterTypes, NEW r \in Records, NEW at \in Stages,
         NEW holders \in SUBSET Writers, NEW state \in State,
         NEW writers \in SUBSET Writers, Written(r, state, writers),
         stage' = [stage EXCEPT ![r] = at], clones' = [clones EXCEPT ![r] = holders],
         RecordOK(state, at, holders), UNCHANGED <<store, begun, readers>>
  PROVE  WriterStep(r)
  BY DEF WriterStep

LEMMA AcceptStep ==
  ASSUME WriterInv, NEW r \in Records, AcceptFails(r)
  PROVE  WriterStep(r)
<1>1. /\ RecordOK(rec[r], "begun", {"submitter"}) /\ rec[r] \in State
      /\ clones[r] = {"submitter"} /\ is_live(r)
  BY BegunRecord DEF AcceptFails, At, RecordOK, is_live, Live
<1>2. PICK state \in State, writers \in SUBSET Writers :
        Written(r, state, writers) /\ state = [rec[r] EXCEPT !.refusal = "InternalError"]
  BY <1>1, Drops DEF AcceptFails, WriterInv, Writers
<1>3. clones' = [clones EXCEPT ![r] = {}] /\ stage' = [stage EXCEPT ![r] = "ended"]
  BY <1>1, Drops DEF AcceptFails, Goto, WriterInv, Writers
<1>4. RecordOK(state, "ended", {})
  BY <1>1, <1>2 DEF RecordOK, Live, State, AtWork
<1> QED
  BY <1>2, <1>3, <1>4, StepMaker DEF AcceptFails, WriterInv, Stages

LEMMA SpawnStep ==
  ASSUME WriterInv, NEW r \in Records, Spawn(r)
  PROVE  WriterStep(r)
<1>1. RecordOK(rec[r], "begun", {"submitter"}) /\ rec[r] \in State /\ r \in Begun
  BY BegunRecord DEF Spawn, At, RecordOK
<1>2. /\ stage' = [stage EXCEPT ![r] = "running"]
      /\ clones' = [clones EXCEPT ![r] = {"worker"} \cup kept(r)]
      /\ {"worker"} \cup kept(r) \in SUBSET Writers
  BY DEF Spawn, Goto, kept, Writers
<1>3. Written(r, rec[r], unlocked[r]) /\ unlocked[r] \in SUBSET Writers
  BY StaysWritten DEF Spawn, WriterInv, WriterTypes
<1>4. RecordOK(rec[r], "running", {"worker"} \cup kept(r))
  BY <1>1 DEF RecordOK, Live, AtWork, kept
<1> QED
  BY <1>1, <1>2, <1>3, <1>4, StepMaker DEF Spawn, WriterInv, Stages

\* A submit that keeps a clone is still live when its closure is dropped; a
\* merge that keeps none is refused.
LEMMA SpawnFailsStep ==
  ASSUME WriterInv, NEW r \in Records, SpawnFails(r)
  PROVE  WriterStep(r)
<1>1. /\ RecordOK(rec[r], "begun", {"submitter"}) /\ rec[r] \in State
      /\ is_live(r) /\ unlocked[r] \in SUBSET Writers
  BY BegunRecord DEF SpawnFails, At, RecordOK, is_live, Live
<1>2. CASE rec[r].kind = "submit"
  <2>1. /\ stage' = [stage EXCEPT ![r] = "unspawned"]
        /\ clones' = [clones EXCEPT ![r] = {"submitter"}]
        /\ UNCHANGED <<rec, unlocked>>
    BY <1>2 DEF SpawnFails, Goto, kept
  <2>2. Written(r, rec[r], unlocked[r])
    BY <2>1, StaysWritten DEF WriterInv
  <2>3. RecordOK(rec[r], "unspawned", {"submitter"})
    BY <1>1, <1>2 DEF RecordOK, Live, AtWork
  <2> QED
    BY <1>1, <2>1, <2>2, <2>3, StepMaker DEF SpawnFails, WriterInv, Stages, Writers
<1>3. CASE rec[r].kind # "submit"
  <2>1. /\ stage' = [stage EXCEPT ![r] = "ended"]
        /\ clones' = [clones EXCEPT ![r] = {}]
        /\ refuse(r, "InternalError", "submitter")
    BY <1>3 DEF SpawnFails, Goto, kept
  <2>2. PICK state \in State, writers \in SUBSET Writers :
          Written(r, state, writers) /\ state = [rec[r] EXCEPT !.refusal = "InternalError"]
    BY <1>1, <2>1, Refuses DEF WriterInv, Writers, Refusals
  <2>3. RecordOK(state, "ended", {})
    BY <1>1, <2>2 DEF RecordOK, Live, State, AtWork
  <2> QED
    BY <2>1, <2>2, <2>3, StepMaker DEF SpawnFails, WriterInv, Stages
<1> QED
  BY <1>2, <1>3

LEMMA SpawnFailureStep ==
  ASSUME WriterInv, NEW r \in Records, SpawnFailure(r)
  PROVE  WriterStep(r)
<1>1. /\ RecordOK(rec[r], "unspawned", {"submitter"}) /\ rec[r] \in State
      /\ clones[r] = {"submitter"} /\ is_live(r)
  BY BegunRecord DEF SpawnFailure, RecordOK, is_live, Live
<1>2. PICK state \in State, writers \in SUBSET Writers :
        Written(r, state, writers) /\ state = [rec[r] EXCEPT !.refusal = "IoError"]
  BY <1>1, Refuses DEF SpawnFailure, WriterInv, Writers, Refusals
<1>3. RecordOK(state, "unstarted", {"submitter"})
  BY <1>1, <1>2 DEF RecordOK, Live, State, AtWork
<1>4. /\ stage' = [stage EXCEPT ![r] = "unstarted"]
      /\ clones' = [clones EXCEPT ![r] = {"submitter"}]
  BY <1>1 DEF SpawnFailure, Goto, WriterInv, WriterTypes
<1> QED
  BY <1>2, <1>3, <1>4, StepMaker DEF SpawnFailure, WriterInv, Stages, Writers

\* A submit that returns leaves its record to its worker, or leaves one that
\* has ended.
LEMMA SubmitReturnsStep ==
  ASSUME WriterInv, NEW r \in Records, SubmitReturns(r)
  PROVE  WriterStep(r)
<1> DEFINE at == IF stage[r] = "unstarted" THEN "ended" ELSE stage[r]
           holders == clones[r] \ {"submitter"}
<1>1. /\ RecordOK(rec[r], stage[r], clones[r]) /\ rec[r] \in State
      /\ stage[r] \in Stages /\ stage[r] \notin {"begun", "unspawned"}
      /\ clones[r] \subseteq Writers /\ "submitter" \in clones[r]
  BY BegunRecord DEF SubmitReturns
<1>2. PICK state \in State, writers \in SUBSET Writers :
        /\ Written(r, state, writers)
        /\ state = IF is_live(r) /\ clones[r] = {"submitter"}
                   THEN [rec[r] EXCEPT !.refusal = "InternalError"] ELSE rec[r]
  BY Drops DEF SubmitReturns, WriterInv, Writers
<1>3. state = rec[r]
  BY <1>1, <1>2 DEF RecordOK, is_live, Live, AtWork, Stages
<1>4. /\ clones' = [clones EXCEPT ![r] = holders]
      /\ stage' = [stage EXCEPT ![r] = at]
      /\ at \in Stages /\ holders \in SUBSET Writers
  BY <1>1, Drops DEF SubmitReturns, Goto, WriterInv, Writers, Stages
<1>5. RecordOK(rec[r], at, holders)
  BY <1>1 DEF RecordOK, Live, AtWork, Stages, Refusals, State
<1> QED
  BY <1>2, <1>3, <1>4, <1>5, StepMaker DEF SubmitReturns, WriterInv

LEMMA LaunchStep ==
  ASSUME WriterInv, NEW r \in Records, Launch(r)
  PROVE  WriterStep(r)
  BY AcceptStep, SpawnStep, SpawnFailsStep, SpawnFailureStep, SubmitReturnsStep
     DEF Launch

\* A thread at work, of a record that WriterInv holds of.
LEMMA AtWorkRecord ==
  ASSUME WriterInv, NEW r \in Records, NEW at \in AtWork, At(r, "worker", at)
  PROVE  /\ stage[r] = at /\ "worker" \in clones[r] /\ r \in Begun
         /\ RecordOK(rec[r], at, clones[r])
         /\ rec[r] \in State /\ clones[r] \in SUBSET Writers
         /\ unlocked[r] \in SUBSET Writers
         /\ is_live(r) <=> Live(rec[r])
         /\ clones = [clones EXCEPT ![r] = clones[r]]
<1>1. stage[r] = at /\ "worker" \in clones[r]
  BY DEF At
<1> QED
  BY <1>1, BegunRecord DEF WriterInv, WriterTypes

LEMMA DeliverStep ==
  ASSUME WriterInv, NEW r \in Records, Deliver(r)
  PROVE  WriterStep(r)
<1> DEFINE new == [rec[r] EXCEPT !.events = @ + 1]
           writers == unlocked[r] \cup {"worker"}
<1>1. /\ RecordOK(rec[r], "running", clones[r]) /\ rec[r] \in State
      /\ clones[r] \in SUBSET Writers /\ unlocked[r] \in SUBSET Writers
      /\ is_live(r) /\ stage[r] = "running" /\ clones = [clones EXCEPT ![r] = clones[r]]
  BY AtWorkRecord DEF Deliver, AtWork, RecordOK
<1>2. /\ new \in State /\ new.kind = rec[r].kind /\ new.events = rec[r].events + 1
      /\ new.result = rec[r].result /\ new.refusal = rec[r].refusal
      /\ new.merge = rec[r].merge /\ Live(new)
  BY <1>1 DEF Deliver, State, RecordOK, Live
<1>3. Written(r, new, writers) /\ writers \in SUBSET Writers
  BY <1>1, <1>2 DEF Deliver, Written, Writers
<1>4. RecordOK(new, "running", clones[r])
  BY <1>1, <1>2 DEF RecordOK, Live
<1>5. stage' = [stage EXCEPT ![r] = "running"] /\ UNCHANGED clones
  BY <1>1 DEF Deliver, WriterInv, WriterTypes
<1> HIDE DEF new, writers
<1> QED
  BY <1>1, <1>2, <1>3, <1>4, <1>5, StepMaker DEF Deliver, WriterInv, Stages

LEMMA HandlerFinishesStep ==
  ASSUME WriterInv, NEW r \in Records, HandlerFinishes(r)
  PROVE  WriterStep(r)
<1> DEFINE merge == rec[r].kind \in Merges
<1>1. /\ RecordOK(rec[r], "running", clones[r]) /\ rec[r] \in State
      /\ clones[r] \in SUBSET Writers /\ is_live(r)
      /\ clones = [clones EXCEPT ![r] = clones[r]]
  BY AtWorkRecord DEF HandlerFinishes, AtWork, RecordOK
<1>2. PICK state \in State, writers \in SUBSET Writers :
        /\ Written(r, state, writers)
        /\ state = [rec[r] EXCEPT !.result = "ok", !.merge = merge]
  <2> DEFINE new == [rec[r] EXCEPT !.result = "ok", !.merge = merge]
  <2>1. new \in State /\ new.kind = rec[r].kind /\ new.events = rec[r].events
    <3>1. merge \in BOOLEAN
      OBVIOUS
    <3> HIDE DEF merge
    <3> QED
      BY <1>1, <3>1 DEF State, Results
  <2>2. publish(r, new, "worker") /\ "worker" \in Writers
    BY DEF HandlerFinishes, complete, Writers
  <2> HIDE DEF new
  <2>3. \E state \in State, writers \in SUBSET Writers :
          Written(r, state, writers) /\ state = new
    BY <1>1, <2>1, <2>2, Publishes DEF WriterInv
  <2> QED
    BY <2>3 DEF new
<1>3. RecordOK(state, "finished", clones[r])
  BY <1>1, <1>2 DEF RecordOK, Live, State, AtWork
<1> QED
  BY <1>1, <1>2, <1>3, StepMaker DEF HandlerFinishes, Goto, WriterInv, Stages

\* A thread that goes on without a change of its record.
LEMMA MovesOn ==
  ASSUME WriterInv, NEW r \in Records, NEW at \in Stages, clones[r] \subseteq Writers,
         rec[r] \in State, RecordOK(rec[r], at, clones[r]), Goto(r, at),
         UNCHANGED <<store, begun, rec, clones, unlocked, readers>>
  PROVE  WriterStep(r)
<1>1. Written(r, rec[r], unlocked[r]) /\ unlocked[r] \in SUBSET Writers
  BY StaysWritten DEF WriterInv, WriterTypes
<1>2. clones' = [clones EXCEPT ![r] = clones[r]] /\ stage' = [stage EXCEPT ![r] = at]
  BY DEF Goto, WriterInv, WriterTypes
<1> QED
  BY <1>1, <1>2, StepMaker DEF WriterInv

LEMMA HandlerMisnamesStep ==
  ASSUME WriterInv, NEW r \in Records, HandlerMisnames(r)
  PROVE  WriterStep(r)
<1> DEFINE at == IF rec[r].kind = "submit" THEN "failing" ELSE "leaving"
<1>1. /\ RecordOK(rec[r], "running", clones[r]) /\ rec[r] \in State
      /\ clones[r] \in SUBSET Writers
  BY AtWorkRecord DEF HandlerMisnames, AtWork
<1>2. RecordOK(rec[r], at, clones[r]) /\ at \in Stages
  BY <1>1 DEF RecordOK, Live, AtWork, Stages
<1> QED
  BY <1>1, <1>2, MovesOn DEF HandlerMisnames

LEMMA HandlerFailsStep ==
  ASSUME WriterInv, NEW r \in Records, HandlerFails(r)
  PROVE  WriterStep(r)
<1> DEFINE at == IF rec[r].kind = "submit" THEN "failing" ELSE "leaving"
<1>1. /\ RecordOK(rec[r], "running", clones[r]) /\ rec[r] \in State
      /\ clones[r] \in SUBSET Writers /\ is_live(r)
      /\ clones = [clones EXCEPT ![r] = clones[r]] /\ at \in Stages
  BY AtWorkRecord DEF HandlerFails, AtWork, RecordOK, Stages
<1>2. CASE rec[r].kind = "submit"
  <2>1. RecordOK(rec[r], at, clones[r])
    BY <1>1, <1>2 DEF RecordOK, Live, AtWork
  <2> QED
    BY <1>1, <1>2, <2>1, MovesOn DEF HandlerFails
<1>3. CASE rec[r].kind = "call"
  <2>1. PICK state \in State, writers \in SUBSET Writers :
          Written(r, state, writers) /\ state = [rec[r] EXCEPT !.refusal = "failure"]
    BY <1>1, <1>3, Refuses DEF HandlerFails, WriterInv, Writers, Refusals
  <2>2. RecordOK(state, at, clones[r])
    BY <1>1, <1>3, <2>1 DEF RecordOK, Live, State, AtWork
  <2> QED
    BY <1>1, <2>1, <2>2, StepMaker DEF HandlerFails, Goto, WriterInv
<1>4. CASE rec[r].kind \in Merges
  <2>1. complete(r, "failed", FALSE) /\ "failed" \in Results
    BY <1>4 DEF HandlerFails, Merges, Results
  <2>2. PICK state \in State, writers \in SUBSET Writers :
          /\ Written(r, state, writers)
          /\ state = [rec[r] EXCEPT !.result = "failed", !.merge = FALSE]
    BY <1>1, <2>1, Completes DEF WriterInv
  <2>3. RecordOK(state, at, clones[r])
    BY <1>1, <1>4, <2>2 DEF RecordOK, Live, State, AtWork, Merges
  <2> QED
    BY <1>1, <2>2, <2>3, StepMaker DEF HandlerFails, Goto, WriterInv
<1> QED
  BY <1>1, <1>2, <1>3, <1>4 DEF RecordOK, Kinds, Merges

\* A panic after the outcome leaves it; one before it leaves a live record,
\* whose thread records it or drops the last recorder.
LEMMA PanicsStep ==
  ASSUME WriterInv, NEW r \in Records, Panics(r)
  PROVE  WriterStep(r)
<1> DEFINE at == IF rec[r].kind = "submit" THEN "panicked" ELSE "leaving"
<1>1. /\ RecordOK(rec[r], stage[r], clones[r]) /\ rec[r] \in State
      /\ clones[r] \in SUBSET Writers /\ stage[r] \in {"running", "finished"}
  BY AtWorkRecord DEF Panics, AtWork
<1>2. RecordOK(rec[r], at, clones[r]) /\ at \in Stages
  BY <1>1 DEF RecordOK, Live, AtWork, Stages
<1> QED
  BY <1>1, <1>2, MovesOn DEF Panics

LEMMA HandlerReturnsStep ==
  ASSUME WriterInv, NEW r \in Records, HandlerReturns(r)
  PROVE  WriterStep(r)
<1>1. PICK at \in {"leaving"} \cup IF rec[r].kind = "submit" THEN {"failing"} ELSE {} :
        Goto(r, at)
  BY DEF HandlerReturns
<1>2. /\ RecordOK(rec[r], "finished", clones[r]) /\ rec[r] \in State
      /\ clones[r] \in SUBSET Writers
  BY AtWorkRecord DEF HandlerReturns, AtWork
<1>3. RecordOK(rec[r], at, clones[r]) /\ at \in Stages
  BY <1>2 DEF RecordOK, Live, AtWork, Stages
<1> QED
  BY <1>1, <1>2, <1>3, MovesOn DEF HandlerReturns

LEMMA RecordStep ==
  ASSUME WriterInv, NEW r \in Records, Record(r)
  PROVE  WriterStep(r)
<1> DEFINE result == IF stage[r] = "failing" THEN "failed" ELSE "panicked"
<1>1. /\ RecordOK(rec[r], stage[r], clones[r]) /\ rec[r] \in State
      /\ clones[r] \in SUBSET Writers /\ stage[r] \in {"failing", "panicked"}
      /\ clones = [clones EXCEPT ![r] = clones[r]] /\ (is_live(r) <=> Live(rec[r]))
  BY AtWorkRecord DEF Record, AtWork
<1>2. complete(r, result, FALSE) /\ result \in Results /\ result # "ok" /\ result # "none"
  BY DEF Record, Results
<1> HIDE DEF result
<1>3. PICK state \in State, writers \in SUBSET Writers :
        /\ Written(r, state, writers)
        /\ state = IF is_live(r)
                   THEN [rec[r] EXCEPT !.result = result, !.merge = FALSE] ELSE rec[r]
  BY <1>2, Completes DEF WriterInv
<1>4. RecordOK(state, "leaving", clones[r])
  BY <1>1, <1>2, <1>3 DEF RecordOK, Live, State, AtWork
<1> QED
  BY <1>1, <1>3, <1>4, StepMaker DEF Record, Goto, WriterInv, Stages

LEMMA LeaveStep ==
  ASSUME WriterInv, NEW r \in Records, Leave(r)
  PROVE  WriterStep(r)
<1>1. /\ RecordOK(rec[r], "leaving", clones[r]) /\ rec[r] \in State
      /\ clones[r] \in SUBSET Writers /\ "worker" \in clones[r]
      /\ (is_live(r) <=> Live(rec[r]))
  BY AtWorkRecord DEF Leave, AtWork
<1>2. PICK state \in State, writers \in SUBSET Writers :
        /\ Written(r, state, writers)
        /\ state = IF is_live(r) /\ clones[r] = {"worker"}
                   THEN [rec[r] EXCEPT !.refusal = "InternalError"] ELSE rec[r]
  BY Drops DEF Leave, WriterInv, Writers
<1>3. clones' = [clones EXCEPT ![r] = clones[r] \ {"worker"}]
  BY Drops DEF Leave, WriterInv, Writers
<1>4. RecordOK(state, "ended", clones[r] \ {"worker"})
  BY <1>1, <1>2 DEF RecordOK, Live, State, AtWork, Writers
<1> QED
  BY <1>1, <1>2, <1>3, <1>4, StepMaker DEF Leave, Goto, WriterInv, Stages

LEMMA WorkStep ==
  ASSUME WriterInv, NEW r \in Records, Deliver(r) \/ HandlerEnds(r) \/ Finish(r)
  PROVE  WriterStep(r)
  BY DeliverStep, HandlerFinishesStep, HandlerMisnamesStep, HandlerFailsStep,
     PanicsStep, HandlerReturnsStep, RecordStep, LeaveStep DEF HandlerEnds, Finish

-----------------------------------------------------------------------------
(* The invariant of the records.                                            *)

LEMMA WriterInit == Init => WriterInv
<1> SUFFICES ASSUME Init
             PROVE  WriterInv
  OBVIOUS
<1>1. WriterTypes
  BY DEF Init, WriterTypes, Unused, State, Stages, Writers
<1>2. Begun = {}
  BY DEF Init, Begun
<1> QED
  BY <1>1, <1>2 DEF Init, WriterInv, LiveIsCurrent, Unused

\* A step of a writer changes its own record only, and no outcome.
LEMMA WriterStepKeeps ==
  ASSUME WriterInv, NEW r \in Records, WriterStep(r), r \in Begun
  PROVE  WriterInv'
<1>1. PICK new \in State, at \in Stages, holders \in SUBSET Writers,
           writers \in SUBSET Writers :
        /\ Written(r, new, writers)
        /\ stage' = [stage EXCEPT ![r] = at]
        /\ clones' = [clones EXCEPT ![r] = holders]
        /\ RecordOK(new, at, holders)
        /\ UNCHANGED <<store, begun, readers>>
  BY DEF WriterStep
<1>2. WriterTypes'
  BY <1>1 DEF WriterInv, WriterTypes, Written
<1>3. Begun' = Begun /\ Begun \subseteq Records
  BY <1>1 DEF Begun, WriterInv, WriterTypes, Records
<1>4. \A s \in Begun : s # r => rec'[s] = rec[s] /\ stage'[s] = stage[s] /\ clones'[s] = clones[s]
  BY <1>1, <1>3 DEF WriterInv, WriterTypes, Written
<1>5. rec'[r] = new /\ stage'[r] = at /\ clones'[r] = holders
  BY <1>1 DEF WriterInv, WriterTypes, Written
<1>6. \A s \in Begun' : RecordOK(rec'[s], stage'[s], clones'[s])
  BY <1>1, <1>3, <1>4, <1>5 DEF WriterInv
<1>7. \A s \in Records \ Begun' :
        rec'[s] = Unused /\ stage'[s] = "none" /\ clones'[s] = {}
  BY <1>1, <1>3 DEF WriterInv, WriterTypes, Written
<1>8. LiveIsCurrent'
  <2>1. \A s \in Begun : is_live(s)' => is_live(s)
    BY <1>1, <1>3, <1>4, <1>5 DEF Written, is_live
  <2> QED
    BY <2>1, <1>1, <1>3 DEF WriterInv, LiveIsCurrent
<1>9. \A id \in Ids : store'[id] <= begun'
  BY <1>1 DEF WriterInv
<1> QED
  BY <1>2, <1>6, <1>7, <1>8, <1>9 DEF WriterInv

\* A begin takes the next record and replaces one that has ended, or none.
LEMMA BeginKeeps ==
  ASSUME WriterInv, NEW id \in Ids, NEW kind \in Kinds, Begin(id, kind)
  PROVE  WriterInv'
<1> DEFINE r  == begun + 1
           at == IF kind \in Submits THEN "begun" ELSE "running"
           holder == IF kind \in Submits THEN {"submitter"} ELSE {"worker"}
           new == [Unused EXCEPT !.kind = kind]
<1>1. /\ r \in Records /\ begun' = r /\ Begun' = Begun \cup {r} /\ r \notin Begun
      /\ Begun' \subseteq Records
  BY DEF Begin, WriterInv, WriterTypes, Records, Begun
<1>2. rec[r] = Unused
  BY <1>1 DEF WriterInv
<1>3. /\ store' = [store EXCEPT ![id] = r]
      /\ rec' = [rec EXCEPT ![r] = new]
      /\ stage' = [stage EXCEPT ![r] = at]
      /\ clones' = [clones EXCEPT ![r] = holder]
      /\ UNCHANGED unlocked
  BY <1>2 DEF Begin, Goto
<1>4. new \in State /\ at \in Stages /\ holder \in SUBSET Writers
  <2>1. Unused \in State
    BY DEF Unused, State
  <2>2. new \in State
    BY <2>1 DEF State
  <2>3. at \in Stages /\ holder \in SUBSET Writers
    BY DEF Stages, Writers
  <2> QED
    BY <2>2, <2>3
<1>5. RecordOK(new, at, holder)
  BY DEF RecordOK, Unused, Live, AtWork, Kinds, Submits, Merges
<1> HIDE DEF new, at, holder
<1>6. WriterTypes'
  BY <1>1, <1>3, <1>4 DEF WriterInv, WriterTypes, Records
<1>7. \A s \in Begun' : RecordOK(rec'[s], stage'[s], clones'[s])
  BY <1>1, <1>3, <1>5 DEF WriterInv, WriterTypes
<1>8. \A s \in Records \ Begun' :
        rec'[s] = Unused /\ stage'[s] = "none" /\ clones'[s] = {}
  BY <1>1, <1>3 DEF WriterInv, WriterTypes
<1>9. LiveIsCurrent'
  <2> SUFFICES ASSUME NEW s \in Begun', is_live(s)'
               PROVE  \E i \in Ids : store'[i] = s
    BY DEF LiveIsCurrent
  <2>1. CASE s = r
    BY <2>1, <1>3 DEF WriterInv, WriterTypes
  <2>2. CASE s # r
    <3>1. s \in Begun /\ is_live(s)
      BY <2>2, <1>1, <1>3 DEF WriterInv, WriterTypes, is_live
    <3>2. PICK i \in Ids : store[i] = s
      BY <3>1 DEF WriterInv, LiveIsCurrent
    <3>3. i # id
      BY <3>1, <3>2 DEF Begin, mayBegin, Begun
    <3> QED
      BY <3>2, <3>3, <1>3 DEF WriterInv, WriterTypes
  <2> QED
    BY <2>1, <2>2
<1>10. \A i \in Ids : store'[i] <= begun'
  BY <1>1, <1>3 DEF WriterInv, WriterTypes
<1> QED
  BY <1>6, <1>7, <1>8, <1>9, <1>10 DEF WriterInv

LEMMA WriterSteps ==
  ASSUME WriterInv, NEW r \in Records,
         Launch(r) \/ Deliver(r) \/ HandlerEnds(r) \/ Finish(r)
  PROVE  r \in Begun /\ WriterStep(r)
<1>1. stage[r] # "none" \/ clones[r] # {}
  BY DEF Launch, AcceptFails, Spawn, SpawnFails, SpawnFailure, SubmitReturns,
     Deliver, HandlerEnds, HandlerFinishes, HandlerMisnames, HandlerFails, Panics,
     Finish, HandlerReturns, Record, Leave, At
<1> QED
  BY <1>1, BegunRecord, LaunchStep, WorkStep

\* What Next does to the records: a begin, a step of a writer, a notify_all,
\* or nothing.
LEMMA NextSteps ==
  ASSUME WriterInv, [Next]_vars
  PROVE  \/ \E id \in Ids, kind \in Kinds : Begin(id, kind)
         \/ \E r \in Begun : WriterStep(r)
         \/ \E r \in Records, w \in Writers : Notify(r, w)
         \/ UNCHANGED records
<1>1. ASSUME NEW r \in Records, Launch(r) \/ Deliver(r) \/ HandlerEnds(r) \/ Finish(r)
      PROVE  r \in Begun /\ WriterStep(r)
  BY <1>1, WriterSteps
<1>2. ASSUME NEW x \in Readers, Read(x) \/ EventsTimeOut(x) \/ SpuriousWake(x)
      PROVE  UNCHANGED records
  BY <1>2 DEF Read, Lookup, EventsReturn, EventsWait, ResultReturns, ResultWaits,
     EventsTimeOut, SpuriousWake, ReturnEvents
<1>3. ASSUME NEW x \in Readers, NEW id \in Ids, NEW stream \in BOOLEAN,
             NEW merge \in BOOLEAN, ReaderBegins(x, id, stream, merge)
      PROVE  UNCHANGED records
  BY <1>3 DEF ReaderBegins
<1>4. CASE UNCHANGED vars
  BY <1>4 DEF vars, records
<1> QED
  BY <1>1, <1>2, <1>3, <1>4 DEF Next

LEMMA WriterNext == WriterInv /\ [Next]_vars => WriterInv'
<1> SUFFICES ASSUME WriterInv, [Next]_vars
             PROVE  WriterInv'
  OBVIOUS
<1>1. ASSUME NEW r \in Begun, WriterStep(r)
      PROVE  WriterInv'
  <2>1. r \in Records
    BY DEF Begun, Records, WriterInv, WriterTypes
  <2> QED
    BY <1>1, <2>1, WriterStepKeeps
<1>2. ASSUME NEW r \in Records, NEW w \in Writers, Notify(r, w)
      PROVE  WriterInv'
  BY <1>2 DEF Notify, WriterInv, WriterTypes, Begun, LiveIsCurrent, is_live
<1>3. CASE UNCHANGED records
  BY <1>3 DEF records, WriterInv, WriterTypes, Begun, LiveIsCurrent, is_live
<1> QED
  BY <1>1, <1>2, <1>3, BeginKeeps, NextSteps

\* The inductive invariant of the records: at each stage of its operation a
\* record is live or ended as its handler, its launch and its drops left it.
THEOREM RecordsInvariance == Spec => []WriterInv
  BY WriterInit, WriterNext, PTL DEF Spec

\* Every operation has one outcome, and only a merge's success a response.
THEOREM OutcomesAreOne == Spec => []OneOutcome
<1>1. WriterInv => OneOutcome
  BY DEF WriterInv, OneOutcome, RecordOK, Begun, Unused
<1> QED
  BY <1>1, RecordsInvariance, PTL

\* No begin replaces the record of a live operation.
THEOREM LiveAreCurrent == Spec => []LiveIsCurrent
  BY RecordsInvariance, PTL DEF WriterInv

\* Every live record has a recorder that can end it.
THEOREM LiveHaveWriters == Spec => []LiveHasWriter
<1>1. WriterInv => LiveHasWriter
  BY DEF WriterInv, LiveHasWriter, RecordOK, Live, is_live
<1> QED
  BY <1>1, RecordsInvariance, PTL

\* A submit whose thread does not start is refused with that failure.
THEOREM SpawnFailures == Spec => []SpawnFailureReported
<1>1. WriterInv => SpawnFailureReported
  BY DEF WriterInv, SpawnFailureReported, RecordOK
<1> QED
  BY <1>1, RecordsInvariance, PTL

\* An outcome stands, and its record takes no further event.
THEOREM OutcomesStand == Spec => OutcomeStands
<1> DEFINE Stand == \A r \in Begun : ~is_live(r) => rec'[r] = rec[r]
<1>1. WriterInv /\ [Next]_vars => Stand
  <2> SUFFICES ASSUME WriterInv, [Next]_vars, NEW r \in Begun, ~is_live(r)
               PROVE  rec'[r] = rec[r]
    OBVIOUS
  <2>1. r \in Records
    BY DEF Begun, Records, WriterInv, WriterTypes
  <2>2. ASSUME NEW id \in Ids, NEW kind \in Kinds, Begin(id, kind)
        PROVE  rec'[r] = rec[r]
    BY <2>1, <2>2 DEF Begin, Begun, WriterInv, WriterTypes
  <2>3. ASSUME NEW s \in Begun, WriterStep(s)
        PROVE  rec'[r] = rec[r]
    BY <2>1, <2>3 DEF WriterStep, Written, WriterInv, WriterTypes
  <2>4. ASSUME NEW s \in Records, NEW w \in Writers, Notify(s, w)
        PROVE  rec'[r] = rec[r]
    BY <2>4 DEF Notify
  <2>5. CASE UNCHANGED records
    BY <2>5 DEF records
  <2> QED
    BY <2>2, <2>3, <2>4, <2>5, NextSteps
<1>2. WriterInv /\ [Next]_vars => [Stand]_vars
  BY <1>1
<1> QED
  BY RecordsInvariance, <1>2, PTL DEF Spec, OutcomeStands

-----------------------------------------------------------------------------
(* Readers.                                                                 *)

ReaderTypes ==
  /\ reader \in [Readers -> Locals]
  /\ rpc \in [Readers -> ReaderPcs]
  /\ sleeping \subseteq Readers

\* A stream is past its rounds.
PastStream == {"lookup", "result", "returned"}

\* What a reader with locals l that has looked up one record only has of it.
SeenOf(l, at, r) ==
  /\ Len(l.seen) = l.next /\ l.next <= rec[r].events
  /\ \A i \in 1..Len(l.seen) : l.seen[i] = <<r, i - 1>>
  /\ l.stream /\ at \in PastStream => l.next = rec[r].events /\ ~is_live(r)

\* How a reader's locals belong to its program counter and to the records.
LocalsOK(l, at) ==
  /\ l.record \in {0} \cup Begun /\ l.looked \subseteq Begun
  /\ at # "idle" => l.id \in Ids /\ store[l.id] # 0
  /\ at = "idle" => l.looked = {}
  /\ at \in {"events", "result", "returned"} => l.record \in Begun
  /\ at \in {"events_lookup", "events"} => l.stream
  /\ at = "events" => l.record \in l.looked
  /\ at # "returned" => l.answer = "none"
  /\ l.looked = {} => l.seen = <<>> /\ l.next = 0
  /\ \A r \in Begun : l.looked = {r} => SeenOf(l, at, r)
  /\ l.answer = "no response" =>
       /\ ~is_live(l.record)
       /\ rec[l.record].kind \in Merges => rec[l.record].result # "ok"

SleepOK(x) ==
  x \in sleeping =>
    /\ rpc[x] \in {"events", "result"}
    /\ WouldReturn(x) => unlocked[reader[x].record] # {}

ReaderInv ==
  ReaderTypes /\ \A x \in Readers : LocalsOK(reader[x], rpc[x]) /\ SleepOK(x)

LEMMA ReaderInit == Init => ReaderInv
<1> SUFFICES ASSUME Init
             PROVE  ReaderInv
  OBVIOUS
<1>1. ReaderTypes
  BY DEF Init, ReaderTypes, Locals, ReaderPcs
<1>2. \A x \in Readers : LocalsOK(reader[x], rpc[x]) /\ SleepOK(x)
  BY DEF Init, LocalsOK, SleepOK
<1> QED
  BY <1>1, <1>2 DEF ReaderInv

\* The batch of a wait: what the record has from the reader's next event on.
LEMMA Batch ==
  ASSUME WriterInv, ReaderTypes, NEW x \in Readers, reader[x].record \in Begun
  PROVE  LET r == reader[x].record
             n == reader[x].next
             e == rec[r].events
         IN  /\ unseen(x) \in Seq(Records \X (0..MaxEvents))
             /\ Len(unseen(x)) = IF e > n THEN e - n ELSE 0
             /\ \A i \in 1..Len(unseen(x)) : unseen(x)[i] = <<r, n + i - 1>>
             /\ nextSequence(x, unseen(x)) = IF e > n THEN e ELSE n
             /\ unseen(x) # <<>> <=> e > n
             /\ n \in 0..MaxEvents /\ e \in 0..MaxEvents
<1> DEFINE r == reader[x].record
           n == reader[x].next
           e == rec[r].events
           k == IF e > n THEN e - n ELSE 0
<1>1. r \in Records /\ n \in 0..MaxEvents /\ e \in 0..MaxEvents
  <2>1. r \in Records
    BY DEF WriterInv, WriterTypes, Begun, Records
  <2>2. reader[x] \in Locals /\ rec[r] \in State
    BY <2>1 DEF WriterInv, WriterTypes, ReaderTypes
  <2> QED
    BY <2>1, <2>2 DEF Locals, State
<1>2. unseen(x) = [i \in 1..k |-> <<r, n + i - 1>>] /\ k \in Nat
  BY <1>1 DEF unseen
<1> HIDE DEF r, n, e
<1>3. \A i \in 1..k : <<r, n + i - 1>> \in Records \X (0..MaxEvents)
  BY <1>1
<1>4. unseen(x) \in [1..k -> Records \X (0..MaxEvents)]
  BY <1>2, <1>3
<1> HIDE DEF k
<1>5. unseen(x) \in Seq(Records \X (0..MaxEvents)) /\ Len(unseen(x)) = k
  BY <1>2, <1>4, SeqDef
<1>6. unseen(x) # <<>> <=> e > n
  BY <1>1, <1>5 DEF k
<1>7. nextSequence(x, unseen(x)) = IF e > n THEN e ELSE n
  <2>1. CASE e > n
    <3>1. k \in 1..k /\ unseen(x)[k] = <<r, e - 1>>
      BY <2>1, <1>1, <1>2 DEF k
    <3> QED
      BY <2>1, <3>1, <1>1, <1>5, <1>6 DEF nextSequence, Last
  <2>2. CASE ~(e > n)
    BY <2>2, <1>6 DEF nextSequence, n
  <2> QED
    BY <2>1, <2>2
<1> QED
  BY <1>1, <1>2, <1>5, <1>6, <1>7 DEF r, n, e, k

\* What the steps of writers leave to readers: records only grow until they
\* end, and a change that a sleeping reader has not been woken for has its
\* notify_all to come.
Grown ==
  /\ Begun \subseteq Begun'
  /\ \A id \in Ids : store[id] # 0 => store'[id] # 0
  /\ \A r \in Begun :
       /\ rec'[r].kind = rec[r].kind /\ rec'[r].events >= rec[r].events
       /\ ~is_live(r) => rec'[r] = rec[r]
       /\ rec'[r] # rec[r] => unlocked'[r] # {}
       /\ unlocked[r] # {} =>
            unlocked'[r] # {} \/ \A x \in sleeping' : reader[x].record # r
  /\ UNCHANGED <<reader, rpc>>
  /\ sleeping' \subseteq sleeping

LEMMA BegunTypes ==
  ASSUME WriterInv, NEW r \in Begun
  PROVE  r \in Records /\ rec[r] \in State /\ rec[r].events \in 0..MaxEvents
<1>1. r \in Records
  BY DEF WriterInv, WriterTypes, Begun, Records
<1> QED
  BY <1>1 DEF WriterInv, WriterTypes, State

LEMMA BeginGrows ==
  ASSUME WriterInv, NEW id \in Ids, NEW kind \in Kinds, Begin(id, kind)
  PROVE  Grown
<1>1. /\ begun \in Nat /\ begun' = begun + 1 /\ UNCHANGED <<unlocked, readers>>
      /\ store' = [store EXCEPT ![id] = begun + 1]
  BY DEF Begin, WriterInv, WriterTypes
<1>2. \A r \in Begun : rec'[r] = rec[r] /\ rec[r].events \in 0..MaxEvents
  BY <1>1, BegunTypes DEF Begin, Begun, WriterInv, WriterTypes
<1> QED
  BY <1>1, <1>2 DEF Grown, Begun, readers, WriterInv, WriterTypes

LEMMA WriterGrows ==
  ASSUME WriterInv, NEW s \in Begun, WriterStep(s)
  PROVE  Grown
<1>1. PICK new \in State, writers \in SUBSET Writers :
        /\ Written(s, new, writers)
        /\ UNCHANGED <<store, begun, readers>>
  BY DEF WriterStep
<1>2. \A r \in Begun : r # s => rec'[r] = rec[r] /\ unlocked'[r] = unlocked[r]
  BY <1>1, BegunTypes DEF Written, WriterInv, WriterTypes
<1>3. rec'[s] = new /\ unlocked'[s] = writers
  BY <1>1, BegunTypes DEF Written, WriterInv, WriterTypes
<1>4. \A r \in Begun :
       /\ rec'[r].kind = rec[r].kind /\ rec'[r].events >= rec[r].events
       /\ ~is_live(r) => rec'[r] = rec[r]
       /\ rec'[r] # rec[r] => unlocked'[r] # {}
       /\ unlocked[r] # {} => unlocked'[r] # {}
  BY <1>1, <1>2, <1>3, BegunTypes DEF Written
<1> QED
  BY <1>1, <1>4 DEF Grown, Begun, readers

LEMMA NotifyGrows ==
  ASSUME WriterInv, NEW s \in Records, NEW w \in Writers, Notify(s, w)
  PROVE  Grown
<1>1. /\ UNCHANGED <<store, begun, rec, stage, clones, reader, rpc>>
      /\ unlocked' = [unlocked EXCEPT ![s] = @ \ {w}]
      /\ sleeping' = {x \in sleeping : reader[x].record # s}
  BY DEF Notify
<1>2. \A r \in Begun : r # s => unlocked'[r] = unlocked[r]
  BY <1>1, BegunTypes DEF WriterInv, WriterTypes
<1>3. \A r \in Begun : rec[r].events \in 0..MaxEvents
  BY BegunTypes
<1> QED
  BY <1>1, <1>2, <1>3 DEF Grown, Begun

LEMMA ReaderLocals ==
  ASSUME WriterInv, ReaderInv, NEW x \in Readers
  PROVE  /\ reader[x] \in Locals /\ rpc[x] \in ReaderPcs /\ reader[x].next \in 0..MaxEvents
         /\ reader[x].seen \in Seq(Records \X (0..MaxEvents))
         /\ LocalsOK(reader[x], rpc[x]) /\ SleepOK(x)
         /\ begun \in 0..MaxRecords
<1>1. /\ reader[x] \in Locals /\ rpc[x] \in ReaderPcs /\ LocalsOK(reader[x], rpc[x])
      /\ SleepOK(x) /\ begun \in 0..MaxRecords
  BY DEF ReaderInv, ReaderTypes, WriterInv, WriterTypes
<1> QED
  BY <1>1 DEF Locals

\* No step of a writer takes from a reader what ReaderInv says of it.
LEMMA ReadersStand ==
  ASSUME WriterInv, WriterInv', ReaderInv, Grown
  PROVE  ReaderInv'
<1>1. ReaderTypes'
  BY DEF Grown, ReaderInv, ReaderTypes
<1>2. ASSUME NEW x \in Readers
      PROVE  LocalsOK(reader[x], rpc[x])' /\ SleepOK(x)'
  <2> DEFINE l == reader[x]
  <2>1. /\ LocalsOK(l, rpc[x]) /\ SleepOK(x) /\ l.next \in 0..MaxEvents
        /\ reader'[x] = l /\ rpc'[x] = rpc[x] /\ (x \in sleeping' => x \in sleeping)
    BY ReaderLocals DEF Grown
  <2>2. /\ l.record \in {0} \cup Begun' /\ l.looked \subseteq Begun'
        /\ rpc[x] # "idle" => l.id \in Ids /\ store'[l.id] # 0
        /\ rpc[x] \in {"events", "result", "returned"} => l.record \in Begun'
    BY <2>1 DEF LocalsOK, Grown
  <2>3. ASSUME NEW r \in Begun', l.looked = {r}
        PROVE  SeenOf(l, rpc[x], r)'
    <3>1. r \in Begun /\ SeenOf(l, rpc[x], r)
      BY <2>1, <2>3 DEF LocalsOK
    <3>2. rec[r].events \in Nat /\ rec'[r].events \in Nat
      <4>1. r \in Records /\ rec[r] \in State /\ rec'[r] \in State
        BY <3>1, BegunTypes DEF WriterInv, WriterTypes
      <4> QED
        BY <4>1 DEF State
    <3>3. rec'[r].events >= rec[r].events /\ (~is_live(r) => rec'[r] = rec[r])
      BY <3>1 DEF Grown
    <3> QED
      BY <3>1, <3>2, <3>3, <2>1 DEF SeenOf, is_live
  <2>4. SleepOK(x)'
    <3> SUFFICES ASSUME x \in sleeping', WouldReturn(x)'
                 PROVE  unlocked'[l.record] # {}
      BY <2>1 DEF SleepOK
    <3>1. l.record \in Begun
      BY <2>1 DEF LocalsOK, SleepOK
    <3>2. CASE rec'[l.record] # rec[l.record]
      BY <3>1, <3>2 DEF Grown
    <3>3. CASE rec'[l.record] = rec[l.record]
      <4>1. WouldReturn(x)
        BY <2>1, <3>3 DEF WouldReturn, unseen, isComplete, Answer, is_live
      <4> QED
        BY <2>1, <3>1, <4>1 DEF SleepOK, Grown
    <3> QED
      BY <3>2, <3>3
  <2>5. l.answer = "no response" =>
          /\ ~(is_live(l.record)')
          /\ rec'[l.record].kind \in Merges => rec'[l.record].result # "ok"
    <3> SUFFICES ASSUME l.answer = "no response"
                 PROVE  rec'[l.record] = rec[l.record]
      BY <2>1 DEF LocalsOK, is_live
    <3>1. l.record \in Begun /\ ~is_live(l.record)
      BY <2>1 DEF LocalsOK
    <3> QED
      BY <3>1 DEF Grown
  <2> QED
    BY <2>1, <2>2, <2>3, <2>4, <2>5 DEF LocalsOK
<1> QED
  BY <1>1, <1>2 DEF ReaderInv

-----------------------------------------------------------------------------
(* One lemma per action of a reader.                                        *)

LEMMA SeenKept ==
  ASSUME NEW l, NEW new, NEW at, NEW to, NEW r, SeenOf(l, at, r),
         new.seen = l.seen, new.next = l.next, new.stream = l.stream,
         to \in PastStream => at \in PastStream
  PROVE  SeenOf(new, to, r)
  BY DEF SeenOf

\* A reader that goes on, awake, with its locals in order.
LEMMA ReaderStep ==
  ASSUME WriterInv, ReaderInv, NEW x \in Readers, NEW new \in Locals,
         NEW to \in ReaderPcs, UNCHANGED records,
         reader' = [reader EXCEPT ![x] = new], rpc' = [rpc EXCEPT ![x] = to],
         sleeping' = sleeping \ {x}, LocalsOK(new, to)
  PROVE  ReaderInv'
<1>1. ReaderTypes'
  BY DEF ReaderInv, ReaderTypes
<1>2. ASSUME NEW y \in Readers
      PROVE  LocalsOK(reader[y], rpc[y])'
  <2>1. LocalsOK(reader'[y], rpc'[y])
    BY DEF ReaderInv, ReaderTypes
  <2>2. store' = store /\ begun' = begun /\ rec' = rec
    BY DEF records
  <2>3. ASSUME NEW r \in Begun, reader'[y].looked = {r}
        PROVE  SeenOf(reader[y], rpc[y], r)'
    <3>1. SeenOf(reader'[y], rpc'[y], r)
      BY <2>1, <2>3 DEF LocalsOK
    <3> QED
      BY <2>2, <3>1 DEF SeenOf, is_live
  <2>4. Begun' = Begun
    BY <2>2 DEF Begun
  <2>5. \A r \in Begun : reader'[y].looked = {r} => SeenOf(reader[y], rpc[y], r)'
    BY <2>3
  <2> DEFINE l == reader[y]
             at == rpc[y]
  <2>6. /\ l'.record \in {0} \cup Begun /\ l'.looked \subseteq Begun
        /\ at' # "idle" => l'.id \in Ids /\ store[l'.id] # 0
        /\ at' = "idle" => l'.looked = {}
        /\ at' \in {"events", "result", "returned"} => l'.record \in Begun
        /\ at' \in {"events_lookup", "events"} => l'.stream
        /\ at' = "events" => l'.record \in l'.looked
        /\ at' # "returned" => l'.answer = "none"
        /\ l'.looked = {} => l'.seen = <<>> /\ l'.next = 0
        /\ l'.answer = "no response" =>
             /\ ~is_live(l'.record)
             /\ rec[l'.record].kind \in Merges => rec[l'.record].result # "ok"
    BY <2>1 DEF LocalsOK
  <2> QED
    BY <2>2, <2>4, <2>5, <2>6 DEF LocalsOK, is_live
<1>3. ASSUME NEW y \in Readers
      PROVE  SleepOK(y)'
  <2>1. CASE y = x
    BY <2>1 DEF SleepOK
  <2>2. CASE y # x
    <3>1. reader'[y] = reader[y] /\ rpc'[y] = rpc[y] /\ SleepOK(y)
      BY <2>2 DEF ReaderInv, ReaderTypes
    <3>2. WouldReturn(y)' => WouldReturn(y)
      BY <3>1 DEF records, WouldReturn, unseen, isComplete, Answer, is_live
    <3> QED
      BY <3>1, <3>2 DEF SleepOK, records
  <2> QED
    BY <2>1, <2>2
<1> QED
  BY <1>1, <1>2, <1>3 DEF ReaderInv

LEMMA ReaderBeginsStep ==
  ASSUME WriterInv, ReaderInv, NEW x \in Readers, NEW id \in Ids,
         NEW stream \in BOOLEAN, NEW merge \in BOOLEAN,
         ReaderBegins(x, id, stream, merge)
  PROVE  ReaderInv'
<1> DEFINE l   == reader[x]
           new == [l EXCEPT !.id = id, !.stream = stream, !.merge = merge]
           to  == IF stream THEN "events_lookup" ELSE "lookup"
<1>1. /\ rpc[x] = "idle" /\ sleeping' = sleeping \ {x} /\ store[id] # 0
      /\ rpc' = [rpc EXCEPT ![x] = to] /\ UNCHANGED records
  BY DEF ReaderBegins, Awake, RGoto, known
<1>2. LocalsOK(l, "idle") /\ l \in Locals
  BY <1>1, ReaderLocals
<1>3. reader' = [reader EXCEPT ![x] = new]
  BY <1>2 DEF ReaderBegins, ReaderInv, ReaderTypes, Locals
<1>4. /\ new \in Locals /\ new.id = id /\ new.stream = stream
      /\ new.record = l.record /\ new.looked = l.looked
      /\ new.seen = l.seen /\ new.next = l.next /\ new.answer = l.answer
  BY <1>2 DEF Locals
<1> HIDE DEF new, l
<1>5. LocalsOK(new, to) /\ to \in ReaderPcs
  BY <1>1, <1>2, <1>4 DEF LocalsOK, ReaderPcs
<1> HIDE DEF to
<1> QED
  BY <1>1, <1>3, <1>4, <1>5, ReaderStep

\* A record that a reader looks up is one that its ID named.
LEMMA LookedUp ==
  ASSUME WriterInv, NEW id \in Ids, store[id] # 0
  PROVE  store[id] \in Begun /\ store[id] \in Records /\ store[id] \in 0..MaxRecords
<1>1. store[id] \in 0..MaxRecords /\ store[id] <= begun
  BY DEF WriterInv, WriterTypes
<1> QED
  BY <1>1 DEF Begun, Records, WriterInv, WriterTypes

\* A stream's look-up finds the one record it has looked up, or a second one.
LEMMA EventsLookupStep ==
  ASSUME WriterInv, ReaderInv, NEW x \in Readers, Lookup(x, "events_lookup", "events")
  PROVE  ReaderInv'
<1> DEFINE l   == reader[x]
           r   == store[l.id]
           new == [l EXCEPT !.record = r, !.looked = l.looked \cup {r}]
<1>1. /\ rpc[x] = "events_lookup" /\ sleeping' = sleeping \ {x}
      /\ rpc' = [rpc EXCEPT ![x] = "events"] /\ UNCHANGED records
  BY DEF Lookup, Awake, RGoto
<1>2. LocalsOK(l, "events_lookup") /\ l \in Locals /\ l.stream
  BY <1>1, ReaderLocals DEF LocalsOK
<1>3. r \in Begun /\ r \in Records /\ r \in 0..MaxRecords
  BY <1>2, LookedUp DEF LocalsOK
<1>4. reader' = [reader EXCEPT ![x] = new]
  BY <1>2 DEF Lookup, ReaderInv, ReaderTypes, Locals
<1>5. /\ new \in Locals /\ new.id = l.id /\ new.stream = l.stream
      /\ new.record = r /\ new.looked = l.looked \cup {r}
      /\ new.seen = l.seen /\ new.next = l.next /\ new.answer = l.answer
  BY <1>2, <1>3 DEF Locals
<1> HIDE DEF new
<1>6. ASSUME NEW s \in Begun, new.looked = {s}
      PROVE  SeenOf(new, "events", s)
  <2>1. s = r /\ rec[s].events \in 0..MaxEvents
    BY <1>5, <1>6, BegunTypes
  <2>2. CASE l.looked = {}
    <3>1. new.seen = <<>> /\ new.next = 0 /\ "events" \notin PastStream
      BY <2>2, <1>2, <1>5 DEF LocalsOK, PastStream
    <3> QED
      BY <3>1, <2>1 DEF SeenOf
  <2>3. CASE l.looked = {s}
    <3>1. SeenOf(l, "events_lookup", s) /\ "events" \notin PastStream
      BY <2>1, <2>3, <1>2 DEF LocalsOK, PastStream
    <3> QED
      BY <3>1, <1>5, SeenKept
  <2> QED
    BY <2>1, <2>2, <2>3, <1>5, <1>6
<1>7. LocalsOK(new, "events") /\ "events" \in ReaderPcs
  BY <1>2, <1>3, <1>5, <1>6 DEF LocalsOK, ReaderPcs
<1> QED
  BY <1>1, <1>4, <1>5, <1>7, ReaderStep

LEMMA ResultLookupStep ==
  ASSUME WriterInv, ReaderInv, NEW x \in Readers, Lookup(x, "lookup", "result")
  PROVE  ReaderInv'
<1> DEFINE l   == reader[x]
           r   == store[l.id]
           new == [l EXCEPT !.record = r]
<1>1. /\ rpc[x] = "lookup" /\ sleeping' = sleeping \ {x}
      /\ rpc' = [rpc EXCEPT ![x] = "result"] /\ UNCHANGED records
  BY DEF Lookup, Awake, RGoto
<1>2. LocalsOK(l, "lookup") /\ l \in Locals
  BY <1>1, ReaderLocals
<1>3. r \in Begun /\ r \in Records /\ r \in 0..MaxRecords
  BY <1>2, LookedUp DEF LocalsOK
<1>4. reader' = [reader EXCEPT ![x] = new]
  BY <1>2 DEF Lookup, ReaderInv, ReaderTypes, Locals
<1>5. /\ new \in Locals /\ new.id = l.id /\ new.stream = l.stream
      /\ new.record = r /\ new.looked = l.looked
      /\ new.seen = l.seen /\ new.next = l.next /\ new.answer = l.answer
  BY <1>2, <1>3 DEF Locals
<1> HIDE DEF new
<1>6. \A s \in Begun : new.looked = {s} => SeenOf(new, "result", s)
  <2>1. "lookup" \in PastStream
    BY DEF PastStream
  <2> QED
    BY <2>1, <1>2, <1>5, SeenKept DEF LocalsOK
<1>7. LocalsOK(new, "result") /\ "result" \in ReaderPcs
  BY <1>2, <1>3, <1>5, <1>6 DEF LocalsOK, ReaderPcs
<1> QED
  BY <1>1, <1>4, <1>5, <1>7, ReaderStep

\* A sequence of r's events, from its n-th on.
EventsOf(a, r, n) == \A i \in 1..Len(a) : a[i] = <<r, n + i - 1>>

\* The events of r from the n-th on continue its first n.
LEMMA Continues ==
  ASSUME NEW S, NEW a \in Seq(S), NEW b \in Seq(S), NEW r, NEW n \in Nat, Len(a) = n,
         EventsOf(a, r, 0), EventsOf(b, r, n)
  PROVE  EventsOf(a \o b, r, 0)
<1>1. /\ Len(b) \in Nat /\ Len(a \o b) = n + Len(b)
      /\ \A i \in 1..n + Len(b) : (a \o b)[i] = IF i <= n THEN a[i] ELSE b[i - n]
  BY ConcatProperties, LenProperties
<1> SUFFICES ASSUME NEW i \in 1..n + Len(b)
             PROVE  (a \o b)[i] = <<r, 0 + i - 1>>
  BY <1>1 DEF EventsOf
<1>2. CASE i <= n
  <2>1. i \in 1..n
    BY <1>1, <1>2
  <2> QED
    BY <1>1, <1>2, <2>1 DEF EventsOf
<1>3. CASE ~(i <= n)
  <2>1. i - n \in 1..Len(b) /\ n + (i - n) - 1 = 0 + i - 1
    BY <1>1, <1>3
  <2>2. b[i - n] = <<r, n + (i - n) - 1>>
    BY <2>1 DEF EventsOf
  <2> QED
    BY <1>1, <1>3, <2>1, <2>2
<1> QED
  BY <1>2, <1>3

\* A batch continues what a stream has seen of its record; the one that comes
\* with the completion brings all that is left of it.
LEMMA ReturnEventsStep ==
  ASSUME WriterInv, ReaderInv, NEW x \in Readers, rpc[x] = "events",
         ReturnEvents(x), sleeping' = sleeping \ {x}
  PROVE  ReaderInv'
<1> DEFINE l   == reader[x]
           r   == l.record
           u   == unseen(x)
           e   == rec[r].events
           new == [l EXCEPT !.seen = l.seen \o u, !.next = nextSequence(x, u)]
           to  == IF isComplete(x) THEN "lookup" ELSE "events_lookup"
<1>1. rpc' = [rpc EXCEPT ![x] = to] /\ UNCHANGED records
  BY DEF ReturnEvents, RGoto
<1>2. /\ LocalsOK(l, "events") /\ l \in Locals /\ l.stream /\ r \in Begun
      /\ l.seen \in Seq(Records \X (0..MaxEvents)) /\ l.next \in 0..MaxEvents
  BY ReaderLocals DEF LocalsOK
<1>3. /\ u \in Seq(Records \X (0..MaxEvents)) /\ e \in 0..MaxEvents
      /\ Len(u) = IF e > l.next THEN e - l.next ELSE 0
      /\ \A i \in 1..Len(u) : u[i] = <<r, l.next + i - 1>>
      /\ nextSequence(x, u) = IF e > l.next THEN e ELSE l.next
  BY <1>2, Batch DEF ReaderInv
<1>4. /\ l.seen \o u \in Seq(Records \X (0..MaxEvents))
      /\ Len(l.seen \o u) = Len(l.seen) + Len(u) /\ Len(l.seen) \in Nat
      /\ \A i \in 1..Len(l.seen) + Len(u) :
           (l.seen \o u)[i] = IF i <= Len(l.seen) THEN l.seen[i] ELSE u[i - Len(l.seen)]
  <2>1. l.seen \in Seq(Records \X (0..MaxEvents)) /\ u \in Seq(Records \X (0..MaxEvents))
    BY <1>2, <1>3
  <2> HIDE DEF u, l
  <2> QED
    BY <2>1, ConcatProperties, LenProperties
<1>5. reader' = [reader EXCEPT ![x] = new]
  BY <1>2 DEF ReturnEvents, ReaderInv, ReaderTypes, Locals
<1>6. /\ new \in Locals /\ new.id = l.id /\ new.stream = l.stream
      /\ new.record = r /\ new.looked = l.looked /\ new.answer = l.answer
      /\ new.seen = l.seen \o u /\ new.next = IF e > l.next THEN e ELSE l.next
  <2>1. nextSequence(x, u) \in 0..MaxEvents
    BY <1>2, <1>3
  <2> HIDE DEF u
  <2> QED
    BY <2>1, <1>2, <1>3, <1>4 DEF Locals
<1> HIDE DEF new, u
<1>7. ASSUME NEW s \in Begun, new.looked = {s}
      PROVE  SeenOf(new, to, s)
  <2>1. s = r /\ SeenOf(l, "events", s)
    BY <1>2, <1>6, <1>7 DEF LocalsOK
  <2>2. Len(l.seen) = l.next /\ l.next <= e
    BY <2>1 DEF SeenOf
  <2>3. Len(new.seen) = e /\ new.next = e
    BY <2>2, <1>2, <1>3, <1>4, <1>6
  <2>4. \A i \in 1..Len(new.seen) : new.seen[i] = <<s, i - 1>>
    <3>1. EventsOf(l.seen, r, 0) /\ EventsOf(u, r, l.next)
      BY <2>1, <2>2, <1>2, <1>3 DEF SeenOf, EventsOf
    <3>2. /\ l.next \in Nat /\ Len(l.seen) = l.next
          /\ l.seen \in Seq(Records \X (0..MaxEvents)) /\ u \in Seq(Records \X (0..MaxEvents))
      BY <2>2, <1>2, <1>3
    <3>3. EventsOf(l.seen \o u, r, 0)
      BY <3>1, <3>2, Continues
    <3>4. \A i \in 1..Len(l.seen \o u) : (l.seen \o u)[i] = <<r, 0 + i - 1>>
      BY <3>3 DEF EventsOf
    <3>5. s = r /\ new.seen = l.seen \o u
      BY <2>1, <1>6
    <3>6. \A i \in 1..Len(new.seen) : 0 + i - 1 = i - 1
      BY <2>3, <1>3
    <3> QED
      BY <3>4, <3>5, <3>6
  <2>5. to \in PastStream => ~is_live(s)
    BY <2>1 DEF isComplete, PastStream
  <2> QED
    BY <2>1, <2>3, <2>4, <2>5, <1>3 DEF SeenOf
<1>8. LocalsOK(new, to) /\ to \in ReaderPcs
  BY <1>2, <1>6, <1>7 DEF LocalsOK, ReaderPcs
<1> HIDE DEF to
<1> QED
  BY <1>1, <1>5, <1>6, <1>8, ReaderStep

\* Of a merge that ended well the records have the response.
LEMMA ResultReturnsStep ==
  ASSUME WriterInv, ReaderInv, NEW x \in Readers, ResultReturns(x)
  PROVE  ReaderInv'
<1> DEFINE l   == reader[x]
           new == [l EXCEPT !.answer = Answer(x)]
<1>1. /\ rpc[x] = "result" /\ sleeping' = sleeping \ {x} /\ Answer(x) # "none"
      /\ rpc' = [rpc EXCEPT ![x] = "returned"] /\ UNCHANGED records
      /\ reader' = [reader EXCEPT ![x].answer = Answer(x)]
  BY DEF ResultReturns, Awake, RGoto
<1>2. /\ LocalsOK(l, "result") /\ l \in Locals /\ l.record \in Begun
      /\ RecordOK(rec[l.record], stage[l.record], clones[l.record])
      /\ rec[l.record] \in State
  BY <1>1, ReaderLocals, BegunTypes DEF LocalsOK, WriterInv
<1>3. reader' = [reader EXCEPT ![x] = new]
  BY <1>1, <1>2 DEF ReaderInv, ReaderTypes, Locals
<1>4. /\ Answer(x) \in Results \cup Refusals \cup {"none", "response", "no response"}
      /\ Answer(x) = "no response" =>
           /\ ~is_live(l.record)
           /\ rec[l.record].kind \in Merges => rec[l.record].result # "ok"
  <2> DEFINE state == rec[l.record]
  <2>1. /\ state.result \in Results \cup {"none"} /\ state.refusal \in Refusals \cup {"none"}
        /\ "no response" \notin Results \cup Refusals
        /\ state.merge <=> state.result = "ok" /\ state.kind \in Merges
    BY <1>2 DEF RecordOK, State, Results, Refusals
  <2>2. is_live(l.record) <=> state.result = "none" /\ state.refusal = "none"
    BY DEF is_live
  <2>3. CASE ~l.merge
    <3>1. Answer(x) = IF state.result # "none" THEN state.result ELSE state.refusal
      BY <2>3 DEF Answer
    <3> QED
      BY <3>1, <2>1
  <2>4. CASE l.merge /\ state.merge
    <3>1. Answer(x) = "response"
      BY <2>4 DEF Answer
    <3> QED
      BY <3>1
  <2>5. CASE l.merge /\ ~state.merge
    <3>1. /\ state.refusal # "none" => Answer(x) = state.refusal
          /\ state.refusal = "none" /\ state.result # "none" => Answer(x) = "no response"
          /\ state.refusal = "none" /\ state.result = "none" => Answer(x) = "none"
      BY <2>5 DEF Answer
    <3> QED
      BY <3>1, <2>1, <2>2, <2>5
  <2> QED
    BY <2>3, <2>4, <2>5
<1>5. /\ new \in Locals /\ new.id = l.id /\ new.stream = l.stream
      /\ new.record = l.record /\ new.looked = l.looked
      /\ new.seen = l.seen /\ new.next = l.next /\ new.answer = Answer(x)
  BY <1>2, <1>4 DEF Locals
<1> HIDE DEF new
<1>6. \A s \in Begun : new.looked = {s} => SeenOf(new, "returned", s)
  <2>1. "result" \in PastStream
    BY DEF PastStream
  <2> QED
    BY <2>1, <1>2, <1>5, SeenKept DEF LocalsOK
<1>7. LocalsOK(new, "returned") /\ "returned" \in ReaderPcs
  BY <1>2, <1>4, <1>5, <1>6 DEF LocalsOK, ReaderPcs
<1> QED
  BY <1>1, <1>3, <1>5, <1>7, ReaderStep

\* A reader goes to sleep only on a record that has nothing for it.
LEMMA SleepStep ==
  ASSUME WriterInv, ReaderInv, NEW x \in Readers,
         EventsWait(x) \/ ResultWaits(x) \/ SpuriousWake(x)
  PROVE  ReaderInv'
<1>1. /\ UNCHANGED <<records, reader, rpc>>
      /\ sleeping' \subseteq sleeping \cup {x} /\ sleeping' \subseteq Readers
  BY DEF EventsWait, ResultWaits, SpuriousWake, ReaderInv, ReaderTypes
<1>2. ReaderTypes'
  BY <1>1 DEF ReaderInv, ReaderTypes
<1>3. ASSUME NEW y \in Readers
      PROVE  LocalsOK(reader[y], rpc[y])' /\ SleepOK(y)'
  <2>1. LocalsOK(reader[y], rpc[y]) /\ SleepOK(y)
    BY DEF ReaderInv
  <2>2. LocalsOK(reader[y], rpc[y])'
    BY <1>1, <2>1 DEF records, LocalsOK, SeenOf, is_live, Begun
  <2>3. WouldReturn(y)' => WouldReturn(y)
    BY <1>1 DEF records, WouldReturn, unseen, isComplete, Answer, is_live
  <2>4. y \in sleeping' /\ y \notin sleeping =>
          rpc[y] \in {"events", "result"} /\ ~WouldReturn(y)
    BY <1>1 DEF EventsWait, ResultWaits, SpuriousWake, Awake, WouldReturn
  <2>5. SleepOK(y)'
    BY <1>1, <2>1, <2>3, <2>4 DEF SleepOK, records
  <2> QED
    BY <2>2, <2>5
<1> QED
  BY <1>2, <1>3 DEF ReaderInv

LEMMA ReaderNext == WriterInv /\ WriterInv' /\ ReaderInv /\ [Next]_vars => ReaderInv'
<1> SUFFICES ASSUME WriterInv, WriterInv', ReaderInv, [Next]_vars
             PROVE  ReaderInv'
  OBVIOUS
<1>1. CASE Grown
  BY <1>1, ReadersStand
<1>a. ASSUME NEW id \in Ids, NEW kind \in Kinds, Begin(id, kind)
      PROVE  ReaderInv'
  BY <1>a, <1>1, BeginGrows
<1>b. ASSUME NEW r \in Records, Launch(r) \/ Deliver(r) \/ HandlerEnds(r) \/ Finish(r)
      PROVE  ReaderInv'
  BY <1>b, <1>1, WriterSteps, WriterGrows
<1>c. ASSUME NEW r \in Records, NEW w \in Writers, Notify(r, w)
      PROVE  ReaderInv'
  BY <1>c, <1>1, NotifyGrows
<1>2. ASSUME NEW x \in Readers, NEW id \in Ids, NEW stream \in BOOLEAN,
             NEW merge \in BOOLEAN, ReaderBegins(x, id, stream, merge)
      PROVE  ReaderInv'
  BY <1>2, ReaderBeginsStep
<1>3. ASSUME NEW x \in Readers, Read(x) \/ EventsTimeOut(x) \/ SpuriousWake(x)
      PROVE  ReaderInv'
  <2>1. ASSUME EventsReturn(x) \/ EventsTimeOut(x)
        PROVE  ReaderInv'
    <3>1. rpc[x] = "events" /\ ReturnEvents(x) /\ sleeping' = sleeping \ {x}
      BY <2>1 DEF EventsReturn, EventsTimeOut, Awake
    <3> QED
      BY <3>1, ReturnEventsStep
  <2> QED
    BY <1>3, <2>1, EventsLookupStep, ResultLookupStep, ResultReturnsStep, SleepStep
       DEF Read
<1>4. CASE UNCHANGED vars
  <2>1. UNCHANGED <<records, reader, rpc, sleeping>>
    BY <1>4 DEF vars, records
  <2>2. Grown
    BY <2>1, BegunTypes DEF records, Grown, Begun
  <2> QED
    BY <2>2, ReadersStand
<1> QED
  BY <1>a, <1>b, <1>c, <1>2, <1>3, <1>4 DEF Next

-----------------------------------------------------------------------------
(* The theorems about readers.                                              *)

\* The inductive invariant of records and readers: what a reader has seen, and
\* whether it may sleep, is decided by the record it looked up.
THEOREM ReadersInvariance == Spec => []ReaderInv
  BY WriterInit, WriterNext, ReaderInit, ReaderNext, PTL DEF Spec

\* Every variable keeps its type.
THEOREM TypeCorrectness == Spec => []TypeOK
<1>1. WriterInv /\ ReaderInv => TypeOK
  BY DEF WriterInv, WriterTypes, ReaderInv, ReaderTypes, TypeOK
<1> QED
  BY <1>1, RecordsInvariance, ReadersInvariance, PTL

\* A stream that stays on one record yields every event once and in sequence.
THEOREM StreamsAreWhole == Spec => []StreamIsWhole
<1>1. WriterInv /\ ReaderInv => StreamIsWhole
  <2> SUFFICES ASSUME WriterInv, ReaderInv, NEW x \in Readers, OneRecord(x)
               PROVE  /\ \A i \in 1..Len(reader[x].seen) :
                           reader[x].seen[i] = <<reader[x].record, i - 1>>
                      /\ rpc[x] \in PastStream =>
                           Len(reader[x].seen) = rec[reader[x].record].events
    BY DEF StreamIsWhole, PastStream
  <2>1. LocalsOK(reader[x], rpc[x])
    BY ReaderLocals
  <2>2. SeenOf(reader[x], rpc[x], reader[x].record) /\ reader[x].stream
    BY <2>1 DEF OneRecord, LocalsOK
  <2> QED
    BY <2>2 DEF SeenOf
<1> QED
  BY <1>1, RecordsInvariance, ReadersInvariance, PTL

\* No reader of a merge that succeeded is told that it has no response.
THEOREM ResponsesAreSeen == Spec => []MergeResponseIsSeen
<1>1. ReaderInv => MergeResponseIsSeen
  BY DEF ReaderInv, LocalsOK, MergeResponseIsSeen
<1> QED
  BY <1>1, ReadersInvariance, PTL

\* No wakeup of a stream or of a result reader is lost.
THEOREM NoLostWakeup == Spec => []NoReaderLeftAsleep
<1>1. ReaderInv => NoReaderLeftAsleep
  BY DEF ReaderInv, ReaderTypes, SleepOK, NoReaderLeftAsleep
<1> QED
  BY <1>1, ReadersInvariance, PTL

\* Each operation's outcome is one, and the right one without a thread.
THEOREM OutcomesAreSure == Spec => []OutcomeIsSure
  BY OutcomesAreOne, SpawnFailures, PTL DEF OutcomeIsSure

\* A live operation keeps its record and has a recorder that can end it.
THEOREM LiveAreHeld == Spec => []LiveIsHeld
  BY LiveAreCurrent, LiveHaveWriters, PTL DEF LiveIsHeld

\* No reader misses an event of its record, or a merge's response.
THEOREM NothingMissed == Spec => []NothingIsMissed
  BY StreamsAreWhole, ResponsesAreSeen, PTL DEF NothingIsMissed

-----------------------------------------------------------------------------
(* The refinement.  A begin is the promise's Begin, a delivery its Deliver,  *)
(* the first outcome its End, a lookup its Ask and the return of a result    *)
(* its Tell; whatever else the threads do is a stutter.                      *)

\* An operation that has begun is live until it has a result or a refusal.
LEMMA OutcomeKinds ==
  ASSUME WriterInv, NEW r \in Begun
  PROVE  /\ is_live(r) <=> Outcome(r) = "live"
         /\ ~is_live(r) => Outcome(r) = OutcomeOf(r) /\ OutcomeOf(r) \in Results \cup Refusals
         /\ r \in Records /\ Recorded[r] = Outcome(r)
<1>1. r \in Records /\ rec[r] \in State
  BY BegunTypes
<1>2. /\ rec[r].result \in Results \cup {"none"}
      /\ rec[r].refusal \in Refusals \cup {"none"}
  BY <1>1 DEF State
<1>3. ~is_live(r) => OutcomeOf(r) \in Results \cup Refusals
  BY <1>2 DEF is_live, OutcomeOf
<1> QED
  BY <1>1, <1>3 DEF Outcome, Recorded, Results, Refusals

\* Only what has begun is named.
LEMMA NamesBegun ==
  ASSUME WriterInv, NEW id \in Ids
  PROVE  store[id] = 0 \/ store[id] \in Begun
  BY DEF WriterInv, WriterTypes, Begun

LEMMA AsksStay ==
  ASSUME UNCHANGED reader
  PROVE  UNCHANGED <<Asked, Answered>>
  BY DEF Asked, Answered, Told

LEMMA RecordsStay ==
  ASSUME UNCHANGED <<begun, rec>>
  PROVE  UNCHANGED <<Recorded, Delivered>>
  BY DEF Recorded, Delivered, Outcome, OutcomeOf, is_live, Begun

LEMMA BeginKept ==
  ASSUME WriterInv, NEW id \in Ids, NEW kind \in Kinds, Begin(id, kind)
  PROVE  Promise!Begin(begun + 1, id) /\ begun + 1 \in Records
<1> DEFINE r == begun + 1
<1>1. /\ r \in Records /\ Begun' = Begun \cup {r} /\ r \notin Begun
      /\ UNCHANGED <<reader, rpc, sleeping>> /\ store' = [store EXCEPT ![id] = r]
  BY DEF Begin, WriterInv, WriterTypes, Records, Begun, readers
<1>2. rec[r] = Unused /\ rec' = [rec EXCEPT ![r].kind = kind] /\ rec \in [Records -> State]
  BY <1>1 DEF Begin, WriterInv, WriterTypes
<1> HIDE DEF r
<1>3. /\ \A s \in Records : s # r => rec'[s] = rec[s]
      /\ rec'[r] = [Unused EXCEPT !.kind = kind]
  BY <1>1, <1>2
<1>4. Recorded' = [Recorded EXCEPT ![r] = "live"]
  <2>1. ASSUME NEW s \in Records
        PROVE  Outcome(s)' = IF s = r THEN "live" ELSE Outcome(s)
    <3>1. CASE s = r
      BY <3>1, <1>1, <1>3 DEF Outcome, is_live, Unused
    <3>2. CASE s # r
      BY <3>2, <1>1, <1>3 DEF Outcome, OutcomeOf, is_live
    <3> QED
      BY <3>1, <3>2
  <2> QED
    BY <2>1 DEF Recorded
<1>5. Delivered' = Delivered
  BY <1>2, <1>3 DEF Delivered, Unused
<1>6. Recorded[r] = "unborn"
  BY <1>1 DEF Recorded, Outcome
<1>7. store[id] = 0 \/ Recorded[store[id]] \in Results \cup Refusals
  <2> SUFFICES ASSUME store[id] # 0
               PROVE  Recorded[store[id]] \in Results \cup Refusals
    OBVIOUS
  <2>1. store[id] \in Begun /\ ~is_live(store[id])
    BY NamesBegun DEF Begin, mayBegin
  <2> QED
    BY <2>1, OutcomeKinds
<1>8. UNCHANGED <<Asked, Answered>>
  BY <1>1, AsksStay
<1> QED
  BY <1>1, <1>4, <1>5, <1>6, <1>7, <1>8 DEF Promise!Begin, r

\* A writer delivers an event, gives the operation its outcome, or does neither.
LEMMA WriterKept ==
  ASSUME WriterInv, NEW r \in Begun, WriterStep(r)
  PROVE  \/ Promise!Deliver(r)
         \/ \E how \in Results \cup Refusals : Promise!End(r, how)
         \/ UNCHANGED Promise!vars
<1>1. PICK new \in State, writers \in SUBSET Writers :
        Written(r, new, writers) /\ UNCHANGED <<store, begun, readers>>
  BY DEF WriterStep
<1>2. /\ r \in Records /\ rec \in [Records -> State] /\ Begun' = Begun
      /\ rec' = [rec EXCEPT ![r] = new]
  BY <1>1, BegunTypes DEF Written, WriterInv, WriterTypes, Begun
<1>3. UNCHANGED <<store, Asked, Answered>>
  BY <1>1, AsksStay DEF readers
<1>4. CASE new = rec[r]
  <2>1. UNCHANGED <<begun, rec>>
    BY <1>1, <1>2, <1>4
  <2> QED
    BY <2>1, <1>3, RecordsStay DEF Promise!vars
<1>5. CASE is_live(r) /\ \/ new.events = rec[r].events
                         \/ new.events = rec[r].events + 1 /\ Live(new)
  <2>1. /\ rec'[r] = new /\ \A s \in Records : s # r => rec'[s] = rec[s]
    BY <1>2
  <2>2. /\ \A s \in Records : s # r => Outcome(s)' = Outcome(s)
        /\ Outcome(r)' = IF Live(new) THEN "live"
                         ELSE IF new.result # "none" THEN new.result ELSE new.refusal
        /\ Outcome(r) = "live"
    BY <1>2, <1>5, <2>1 DEF Outcome, OutcomeOf, is_live, Live
  <2>3. /\ Recorded' = [Recorded EXCEPT ![r] = Outcome(r)']
        /\ Delivered' = [Delivered EXCEPT ![r] = new.events]
        /\ Recorded[r] = "live" /\ Delivered[r] = rec[r].events
    BY <1>2, <2>1, <2>2 DEF Recorded, Delivered
  <2>4. CASE Live(new)
    <3>1. Recorded' = Recorded
      BY <2>2, <2>3, <2>4 DEF Recorded
    <3>2. CASE new.events = rec[r].events
      <4>1. Delivered' = Delivered
        BY <2>3, <3>2 DEF Delivered
      <4> QED
        BY <3>1, <4>1, <1>3 DEF Promise!vars
    <3>3. CASE new.events = rec[r].events + 1
      BY <1>3, <2>3, <3>1, <3>3 DEF Promise!Deliver
    <3> QED
      BY <1>5, <3>2, <3>3
  <2>5. CASE ~Live(new)
    <3>1. Outcome(r)' \in Results \cup Refusals
      <4>1. /\ new.result \in Results \cup {"none"}
            /\ new.refusal \in Refusals \cup {"none"}
        BY DEF State
      <4> QED
        BY <4>1, <2>2, <2>5 DEF Live
    <3>2. Delivered' = Delivered
      BY <1>5, <2>3, <2>5 DEF Delivered
    <3>3. Promise!End(r, Outcome(r)')
      BY <1>3, <2>3, <3>2 DEF Promise!End
    <3> QED
      BY <3>1, <3>3
  <2> QED
    BY <2>4, <2>5
<1> QED
  BY <1>1, <1>4, <1>5 DEF Written

\* A lookup asks of the operation that the ID names.
LEMMA LookupKept ==
  ASSUME WriterInv, ReaderInv, NEW x \in Readers, NEW from \in {"events_lookup", "lookup"},
         NEW to, Lookup(x, from, to)
  PROVE  \E id \in Ids : Promise!Ask(x, id)
<1> DEFINE id == reader[x].id
<1>1. /\ LocalsOK(reader[x], rpc[x]) /\ reader \in [Readers -> Locals] /\ reader[x] \in Locals
      /\ rpc[x] = from /\ UNCHANGED records
  BY ReaderLocals DEF Lookup, Awake, ReaderInv, ReaderTypes
<1>2. id \in Ids /\ store[id] # 0 /\ reader[x].answer = "none"
  BY <1>1 DEF LocalsOK
<1>3. /\ \A y \in Readers : y # x => reader'[y] = reader[y]
      /\ reader'[x].record = store[id]
      /\ reader'[x].merge = reader[x].merge /\ reader'[x].answer = reader[x].answer
  BY <1>1 DEF Lookup, Locals
<1>4. Asked' = [Asked EXCEPT ![x] = store[id]] /\ Answered' = Answered
  BY <1>3 DEF Asked, Answered, Told
<1>5. Answered[x] = "nothing"
  BY <1>2 DEF Answered, Told
<1>6. UNCHANGED <<store, Recorded, Delivered>>
  BY <1>1, RecordsStay DEF records
<1> QED
  BY <1>2, <1>4, <1>5, <1>6 DEF Promise!Ask

\* A result that returns tells of the operation that was looked up.
LEMMA ResultKept ==
  ASSUME WriterInv, ReaderInv, NEW x \in Readers, ResultReturns(x)
  PROVE  Promise!Tell(x) \/ UNCHANGED Promise!vars
<1> DEFINE r == reader[x].record
<1>1. /\ LocalsOK(reader[x], "result") /\ reader \in [Readers -> Locals]
      /\ reader[x] \in Locals /\ UNCHANGED records
      /\ reader' = [reader EXCEPT ![x].answer = Answer(x)] /\ Answer(x) # "none"
  BY ReaderLocals DEF ResultReturns, Awake, ReaderInv, ReaderTypes
<1>2. /\ \A y \in Readers : y # x => reader'[y] = reader[y]
      /\ reader'[x].record = r /\ reader'[x].merge = reader[x].merge
      /\ reader'[x].answer = Answer(x)
  BY <1>1 DEF Locals
<1>3. r \in Begun /\ reader[x].answer = "none"
  BY <1>1 DEF LocalsOK
<1>4. UNCHANGED <<store, Recorded, Delivered>>
  BY <1>1, RecordsStay DEF records
<1>5. Asked' = Asked /\ Asked[x] = r
  BY <1>2 DEF Asked
<1>6. CASE reader[x].merge
  <2>1. Answered' = Answered
    BY <1>2, <1>6 DEF Answered, Told
  <2> QED
    BY <2>1, <1>4, <1>5 DEF Promise!vars
<1>7. CASE ~reader[x].merge
  <2>1. Answer(x) = OutcomeOf(r)
    BY <1>7 DEF Answer, OutcomeOf
  <2>2. ~is_live(r)
    BY <1>1, <2>1 DEF OutcomeOf, is_live
  <2>3. /\ Recorded[r] = OutcomeOf(r) /\ Recorded[r] \in Results \cup Refusals
        /\ r # 0
    BY <1>3, <2>2, OutcomeKinds DEF Begun
  <2>4. Answered' = [Answered EXCEPT ![x] = Recorded[r]]
    BY <1>1, <1>2, <1>7, <2>1, <2>3 DEF Answered, Told
  <2>5. Answered[x] = "nothing"
    BY <1>3 DEF Answered, Told
  <2> QED
    BY <1>4, <1>5, <2>3, <2>4, <2>5 DEF Promise!Tell
<1> QED
  BY <1>6, <1>7

\* Nothing else that a reader does is seen of the promise.
LEMMA ReaderKept ==
  ASSUME WriterInv, ReaderInv, NEW x \in Readers, UNCHANGED records,
         \/ EventsReturn(x) \/ EventsTimeOut(x)
         \/ EventsWait(x) \/ ResultWaits(x) \/ SpuriousWake(x)
         \/ \E id \in Ids, stream \in BOOLEAN, merge \in BOOLEAN :
              ReaderBegins(x, id, stream, merge)
  PROVE  UNCHANGED Promise!vars
<1>1. /\ LocalsOK(reader[x], rpc[x]) /\ reader \in [Readers -> Locals] /\ reader[x] \in Locals
  BY ReaderLocals DEF ReaderInv, ReaderTypes
<1>2. /\ \A y \in Readers : y # x => reader'[y] = reader[y]
      /\ reader'[x].record = reader[x].record /\ reader'[x].answer = reader[x].answer
      /\ reader'[x].merge = reader[x].merge \/ reader[x].answer = "none"
  <2>1. CASE EventsReturn(x) \/ EventsTimeOut(x)
    <3> DEFINE seen == reader[x].seen \o unseen(x)
               next == nextSequence(x, unseen(x))
    <3>1. reader' = [reader EXCEPT ![x].seen = seen, ![x].next = next]
      BY <2>1 DEF EventsReturn, EventsTimeOut, ReturnEvents
    <3> HIDE DEF seen, next
    <3> QED
      BY <1>1, <3>1 DEF Locals
  <2>2. CASE EventsWait(x) \/ ResultWaits(x) \/ SpuriousWake(x)
    BY <2>2 DEF EventsWait, ResultWaits, SpuriousWake
  <2>3. ASSUME NEW id \in Ids, NEW stream \in BOOLEAN, NEW merge \in BOOLEAN,
               ReaderBegins(x, id, stream, merge)
        PROVE  /\ \A y \in Readers : y # x => reader'[y] = reader[y]
               /\ reader'[x].record = reader[x].record /\ reader'[x].answer = reader[x].answer
               /\ reader[x].answer = "none"
    BY <1>1, <2>3 DEF ReaderBegins, Awake, LocalsOK, Locals
  <2> QED
    BY <2>1, <2>2, <2>3
<1>3. UNCHANGED <<Asked, Answered>>
  BY <1>2 DEF Asked, Answered, Told
<1> QED
  BY <1>3, RecordsStay DEF records, Promise!vars

LEMMA StepKept == WriterInv /\ ReaderInv /\ [Next]_vars => [Promise!Next]_Promise!vars
<1> SUFFICES ASSUME WriterInv, ReaderInv, [Next]_vars
             PROVE  [Promise!Next]_Promise!vars
  OBVIOUS
<1>1. ASSUME NEW id \in Ids, NEW kind \in Kinds, Begin(id, kind)
      PROVE  Promise!Next
  BY <1>1, BeginKept DEF Promise!Next
<1>2. ASSUME NEW r \in Records, Launch(r) \/ Deliver(r) \/ HandlerEnds(r) \/ Finish(r)
      PROVE  [Promise!Next]_Promise!vars
  BY <1>2, WriterSteps, WriterKept DEF Promise!Next
<1>3. ASSUME NEW r \in Records, NEW w \in Writers, Notify(r, w)
      PROVE  UNCHANGED Promise!vars
  BY <1>3, AsksStay, RecordsStay DEF Notify, Promise!vars
<1>4. ASSUME NEW x \in Readers, NEW id \in Ids, NEW stream \in BOOLEAN,
             NEW merge \in BOOLEAN, ReaderBegins(x, id, stream, merge)
      PROVE  UNCHANGED Promise!vars
  <2>1. UNCHANGED records
    BY <1>4 DEF ReaderBegins
  <2> QED
    BY <1>4, <2>1, ReaderKept
<1>5. ASSUME NEW x \in Readers, Read(x) \/ EventsTimeOut(x) \/ SpuriousWake(x)
      PROVE  [Promise!Next]_Promise!vars
  <2>1. CASE Lookup(x, "events_lookup", "events") \/ Lookup(x, "lookup", "result")
    BY <2>1, LookupKept DEF Promise!Next
  <2>2. CASE ResultReturns(x)
    BY <2>2, ResultKept DEF Promise!Next
  <2>3. CASE \/ EventsReturn(x) \/ EventsTimeOut(x)
             \/ EventsWait(x) \/ ResultWaits(x) \/ SpuriousWake(x)
    <3>1. UNCHANGED records
      BY <2>3 DEF EventsReturn, EventsTimeOut, ReturnEvents, EventsWait, ResultWaits,
         SpuriousWake
    <3> QED
      BY <2>3, <3>1, ReaderKept
  <2> QED
    BY <1>5, <2>1, <2>2, <2>3 DEF Read
<1>6. CASE UNCHANGED vars
  BY <1>6, AsksStay, RecordsStay DEF vars, Promise!vars
<1> QED
  BY <1>1, <1>2, <1>3, <1>4, <1>5, <1>6 DEF Next

\* OperationRecords implements OperationOutcomes for every number of IDs,
\* operations, events and readers: what is recorded and answered is what the
\* store has promised.
THEOREM RecordsRefinement == Spec => RecordsKeepThePromise
<1>1. Init => Promise!Init
  <2> SUFFICES ASSUME Init
               PROVE  Promise!Init
    OBVIOUS
  <2>1. /\ Recorded = [r \in Records |-> "unborn"]
        /\ Delivered = [r \in Records |-> 0]
    BY DEF Init, Recorded, Delivered, Outcome, Begun, Unused
  <2>2. /\ Asked = [x \in Readers |-> 0]
        /\ Answered = [x \in Readers |-> "nothing"]
    BY DEF Init, Asked, Answered, Told
  <2> QED
    BY <2>1, <2>2 DEF Init, Promise!Init
<1> QED
  BY <1>1, StepKept, RecordsInvariance, ReadersInvariance, PTL
     DEF Spec, RecordsKeepThePromise, Promise!Spec
=============================================================================

-------------------------- MODULE OperationRecords --------------------------
(***************************************************************************)
(* The records of operations, native/src/operations.rs: who begins one,    *)
(* who writes its events and its outcome, who drops it, and how the        *)
(* subscribers and result readers of the Python bridge wait on it.         *)
(*                                                                         *)
(* A record is written by the thread that runs its operation ("worker")    *)
(* and, while it launches that thread, by the thread of its submit         *)
(* ("submitter"); each holds a clone of the OperationRecorder.  Kinds of   *)
(* operation differ in who records what:                                   *)
(*   submit       dispatch/mod.rs submit_accepted and spawn_call           *)
(*   call         shims.rs backend_with_events, on the caller's thread     *)
(*   merge_submit dispatch/merge.rs submit                                 *)
(*   merge_call   dispatch/merge.rs call                                   *)
(*                                                                         *)
(* Every change notifies the record's condition variable after its lock is *)
(* dropped.  gwz-core numbers an operation's events 0, 1, ... and delivers *)
(* them in that order, so a record's events are their count.               *)
(***************************************************************************)
EXTENDS Naturals, Sequences, SequencesExt

CONSTANTS
  Ids,        \* operation IDs
  Readers,    \* stream, result and merge-response calls
  MaxRecords, \* bound: how many operations ever begin
  MaxEvents   \* bound: events of one operation

ASSUME RecordsAssumption == MaxRecords \in Nat /\ MaxEvents \in Nat

Records == 1..MaxRecords
Writers == {"worker", "submitter"}
Kinds == {"submit", "call", "merge_submit", "merge_call"}
Merges == {"merge_submit", "merge_call"}
Submits == {"submit", "merge_submit"}

VARIABLES
  store,    \* store[id]: the record of id, 0 for none
  begun,    \* the last record begun
  rec,      \* rec[r]: OperationState, and the operation it is of
  stage,    \* stage[r]: how far the operation of r has come
  clones,   \* clones[r]: the writers that hold a clone of its recorder
  unlocked, \* unlocked[r]: the writers between their unlock and notify_all
  reader,   \* reader[x]: the locals of the reader x
  rpc,
  sleeping  \* the readers that wait on their record's condition variable

vars == <<store, begun, rec, stage, clones, unlocked, reader, rpc, sleeping>>

Unused == [kind |-> "none", events |-> 0, result |-> "none", merge |-> FALSE,
           refusal |-> "none"]

\* OperationRecord::is_live
is_live(r) == rec[r].result = "none" /\ rec[r].refusal = "none"

\* A writer's step at "from"; a writer that has just changed the record
\* notifies first.
At(r, w, from) == stage[r] = from /\ w \in clones[r] /\ w \notin unlocked[r]

Goto(r, to) == stage' = [stage EXCEPT ![r] = to]

\* Mutated publish: the outcome replaces one that is already recorded.
publish_Again(r, new, w) ==
  /\ rec' = [rec EXCEPT ![r] = new]
  /\ unlocked' = [unlocked EXCEPT ![r] = @ \cup {w}]

\* complete, finish_panic_error, refuse and abandon: the first outcome stands.
publish(r, new, w) ==
  IF is_live(r)
  THEN /\ rec' = [rec EXCEPT ![r] = new]
       /\ unlocked' = [unlocked EXCEPT ![r] = @ \cup {w}]
  ELSE UNCHANGED <<rec, unlocked>>

\* Mutated complete: the result is published without its merge response.
complete_ResultFirst(r, result, merge) ==
  publish(r, [rec[r] EXCEPT !.result = result], "worker")

\* complete, by the thread that runs the operation.
complete(r, result, merge) ==
  publish(r, [rec[r] EXCEPT !.result = result, !.merge = merge], "worker")

refuse(r, reason, w) == publish(r, [rec[r] EXCEPT !.refusal = reason], w)

\* Mutated dropClone: the last clone to go leaves the record as it is.
dropClone_Leaves(r, w) ==
  /\ clones' = [clones EXCEPT ![r] = @ \ {w}]
  /\ UNCHANGED <<rec, unlocked>>

\* A clone goes; the last takes the Writer with it, which abandons the record.
dropClone(r, w) ==
  /\ clones' = [clones EXCEPT ![r] = @ \ {w}]
  /\ IF clones[r] = {w} THEN refuse(r, "InternalError", w)
                        ELSE UNCHANGED <<rec, unlocked>>

readers == <<reader, rpc, sleeping>>

Init ==
  /\ store = [id \in Ids |-> 0]
  /\ begun = 0
  /\ rec = [r \in Records |-> Unused]
  /\ stage = [r \in Records |-> "none"]
  /\ clones = [r \in Records |-> {}]
  /\ unlocked = [r \in Records |-> {}]
  /\ reader = [x \in Readers |-> [stream |-> FALSE, merge |-> FALSE, id |-> 0,
                                  record |-> 0, next |-> 0, seen |-> <<>>,
                                  looked |-> {}, answer |-> "none"]]
  /\ rpc = [x \in Readers |-> "idle"]
  /\ sleeping = {}

-----------------------------------------------------------------------------
(* Begin and launch.                                                        *)

\* OperationStore::begin refuses the ID of a live operation.
mayBegin(id) == store[id] # 0 => ~is_live(store[id])

Begin(id, kind) ==
  LET r == begun + 1 IN
  /\ r <= MaxRecords
  /\ mayBegin(id)
  /\ begun' = r
  /\ store' = [store EXCEPT ![id] = r]
  /\ rec' = [rec EXCEPT ![r].kind = kind]
  /\ Goto(r, IF kind \in Submits THEN "begun" ELSE "running")
  /\ clones' = [clones EXCEPT ![r] = IF kind \in Submits THEN {"submitter"}
                                                         ELSE {"worker"}]
  /\ UNCHANGED <<unlocked, readers>>

\* The accepted response does not encode: the submit fails.
AcceptFails(r) ==
  /\ At(r, "submitter", "begun")
  /\ Goto(r, "ended")
  /\ dropClone(r, "submitter")
  /\ UNCHANGED <<store, begun, readers>>

\* What the submitter keeps across the launch: spawn_call's failure_recorder.
kept(r) == IF rec[r].kind = "submit" THEN {"submitter"} ELSE {}

Spawn(r) ==
  /\ At(r, "submitter", "begun")
  /\ Goto(r, "running")
  /\ clones' = [clones EXCEPT ![r] = {"worker"} \cup kept(r)]
  /\ UNCHANGED <<store, begun, rec, unlocked, readers>>

\* The thread does not start: its closure, and the clone in it, is dropped.  A
\* merge's thread::spawn then panics; spawn_call goes on to its failure.
SpawnFails(r) ==
  /\ At(r, "submitter", "begun")
  /\ Goto(r, IF rec[r].kind = "submit" THEN "unspawned" ELSE "ended")
  /\ clones' = [clones EXCEPT ![r] = kept(r)]
  /\ IF kept(r) = {} THEN refuse(r, "InternalError", "submitter")
                     ELSE UNCHANGED <<rec, unlocked>>
  /\ UNCHANGED <<store, begun, readers>>

\* worker_spawn_failure
SpawnFailure(r) ==
  /\ stage[r] = "unspawned" /\ "submitter" \notin unlocked[r]
  /\ Goto(r, "unstarted")
  /\ refuse(r, "IoError", "submitter")
  /\ UNCHANGED <<store, begun, clones, readers>>

\* The submit returns and drops the clone it kept, whatever its worker does.
SubmitReturns(r) ==
  /\ stage[r] \notin {"begun", "unspawned"}
  /\ "submitter" \in clones[r] \ unlocked[r]
  /\ dropClone(r, "submitter")
  /\ Goto(r, IF stage[r] = "unstarted" THEN "ended" ELSE stage[r])
  /\ UNCHANGED <<store, begun, readers>>

-----------------------------------------------------------------------------
(* The operation's own thread.                                              *)

Deliver(r) ==
  /\ At(r, "worker", "running")
  /\ rec[r].events < MaxEvents
  /\ rec' = [rec EXCEPT ![r].events = @ + 1]
  /\ unlocked' = [unlocked EXCEPT ![r] = @ \cup {"worker"}]
  /\ UNCHANGED <<store, begun, stage, clones, readers>>

\* The handler's response: finish, or finish_merge.
HandlerFinishes(r) ==
  /\ At(r, "worker", "running")
  /\ complete(r, "ok", rec[r].kind \in Merges)
  /\ Goto(r, "finished")
  /\ UNCHANGED <<store, begun, clones, readers>>

\* A response without the operation's ID is an error and records nothing.
HandlerMisnames(r) ==
  /\ At(r, "worker", "running")
  /\ Goto(r, IF rec[r].kind = "submit" THEN "failing" ELSE "leaving")
  /\ UNCHANGED <<store, begun, rec, clones, unlocked, readers>>

\* The handler fails, or its route refuses it: a call refuses its record, a
\* merge finishes it, and a submit's thread has it recorded on its way out.
HandlerFails(r) ==
  /\ At(r, "worker", "running")
  /\ CASE rec[r].kind = "submit" -> UNCHANGED <<rec, unlocked>>
       [] rec[r].kind = "call"   -> refuse(r, "failure", "worker")
       [] OTHER                  -> complete(r, "failed", FALSE)
  /\ Goto(r, IF rec[r].kind = "submit" THEN "failing" ELSE "leaving")
  /\ UNCHANGED <<store, begun, clones, readers>>

\* What follows the outcome, the encoding of the response, may fail.
HandlerReturns(r) ==
  /\ At(r, "worker", "finished")
  /\ \E to \in {"leaving"} \cup IF rec[r].kind = "submit" THEN {"failing"} ELSE {} :
       Goto(r, to)
  /\ UNCHANGED <<store, begun, rec, clones, unlocked, readers>>

\* Only the thread of a submit catches its panic.
Panics(r) ==
  /\ At(r, "worker", stage[r]) /\ stage[r] \in {"running", "finished"}
  /\ Goto(r, IF rec[r].kind = "submit" THEN "panicked" ELSE "leaving")
  /\ UNCHANGED <<store, begun, rec, clones, unlocked, readers>>

\* Mutated Record: a panic after the outcome replaces it.
Record_LatePanic(r) ==
  /\ At(r, "worker", stage[r]) /\ stage[r] \in {"failing", "panicked"}
  /\ rec' = [rec EXCEPT ![r].result = "panicked"]
  /\ unlocked' = [unlocked EXCEPT ![r] = @ \cup {"worker"}]
  /\ Goto(r, "leaving")
  /\ UNCHANGED <<store, begun, clones, readers>>

\* record(): a failure by finish_error or finish_model_error, a panic by
\* finish_panic_error.  An outcome that the handler recorded stands.
Record(r) ==
  /\ At(r, "worker", stage[r]) /\ stage[r] \in {"failing", "panicked"}
  /\ complete(r, IF stage[r] = "failing" THEN "failed" ELSE "panicked", FALSE)
  /\ Goto(r, "leaving")
  /\ UNCHANGED <<store, begun, clones, readers>>

\* The thread drops its clone and ends.
Leave(r) ==
  /\ At(r, "worker", "leaving")
  /\ Goto(r, "ended")
  /\ dropClone(r, "worker")
  /\ UNCHANGED <<store, begun, readers>>

\* Mutated Notify: notify_one.
Notify_One(r, w) ==
  /\ w \in unlocked[r]
  /\ unlocked' = [unlocked EXCEPT ![r] = @ \ {w}]
  /\ LET asleep == {x \in sleeping : reader[x].record = r}
     IN  IF asleep = {} THEN UNCHANGED sleeping
         ELSE \E x \in asleep : sleeping' = sleeping \ {x}
  /\ UNCHANGED <<store, begun, rec, stage, clones, reader, rpc>>

Notify(r, w) ==
  /\ w \in unlocked[r]
  /\ unlocked' = [unlocked EXCEPT ![r] = @ \ {w}]
  /\ sleeping' = {x \in sleeping : reader[x].record # r}
  /\ UNCHANGED <<store, begun, rec, stage, clones, reader, rpc>>

-----------------------------------------------------------------------------
(* Readers: bridge.py subscribe_events and client.py _stream_call and       *)
(* MergeOperationHandle, over wait_events, result and merge_response.  A    *)
(* native call looks its record up by ID, once, before it waits.            *)

records == <<store, begun, rec, stage, clones, unlocked>>

Awake(x, from) == rpc[x] = from /\ x \notin sleeping

RGoto(x, to) == rpc' = [rpc EXCEPT ![x] = to]

\* Mutated known: a read of an ID that names no record.
known_Any(id) == TRUE

\* Any ID that no operation has begun under is "not found".
known(id) == store[id] # 0

ReaderBegins(x, id, stream, merge) ==
  /\ Awake(x, "idle")
  /\ known(id)
  /\ reader' = [reader EXCEPT ![x].id = id, ![x].stream = stream,
                              ![x].merge = merge]
  /\ RGoto(x, IF stream THEN "events_lookup" ELSE "lookup")
  /\ UNCHANGED <<records, sleeping>>

Lookup(x, from, to) ==
  /\ Awake(x, from)
  /\ reader' = [reader EXCEPT
                  ![x].record = store[reader[x].id],
                  ![x].looked = IF reader[x].stream /\ to = "events"
                                THEN @ \cup {store[reader[x].id]} ELSE @]
  /\ RGoto(x, to)
  /\ UNCHANGED <<records, sleeping>>

\* unseen_events, as <<record, sequence>> pairs.
unseen(x) ==
  LET r == reader[x].record
      n == reader[x].next
  IN  [i \in 1..(IF rec[r].events > n THEN rec[r].events - n ELSE 0) |->
         <<r, n + i - 1>>]

\* Mutated isComplete: a refused operation's stream goes on.
isComplete_Result(x) == rec[reader[x].record].result # "none"

isComplete(x) == ~is_live(reader[x].record)

nextSequence(x, batch) ==
  IF batch = <<>> THEN reader[x].next ELSE Last(batch)[2] + 1

\* wait_events returns, and the bridge yields its batch and goes round again
\* until a return that says "complete".
ReturnEvents(x) ==
  /\ reader' = [reader EXCEPT ![x].seen = @ \o unseen(x),
                              ![x].next = nextSequence(x, unseen(x))]
  /\ RGoto(x, IF isComplete(x) THEN "lookup" ELSE "events_lookup")
  /\ UNCHANGED records

EventsReturn(x) ==
  /\ Awake(x, "events")
  /\ unseen(x) # <<>> \/ isComplete(x)
  /\ ReturnEvents(x)
  /\ UNCHANGED sleeping

EventsWait(x) ==
  /\ Awake(x, "events")
  /\ unseen(x) = <<>> /\ ~isComplete(x)
  /\ sleeping' = sleeping \cup {x}
  /\ UNCHANGED <<records, reader, rpc>>

\* The bound of a wait passes: it returns what there is, if anything.
EventsTimeOut(x) ==
  /\ rpc[x] = "events" /\ x \in sleeping
  /\ sleeping' = sleeping \ {x}
  /\ ReturnEvents(x)

\* What result, or merge_response, answers; "none" while it waits.
Answer(x) ==
  LET state == rec[reader[x].record] IN
  IF reader[x].merge /\ state.merge                   THEN "response"
  ELSE IF reader[x].merge /\ state.refusal # "none"   THEN state.refusal
  ELSE IF reader[x].merge /\ state.result # "none"    THEN "no response"
  ELSE IF state.result # "none" THEN state.result ELSE state.refusal

ResultReturns(x) ==
  /\ Awake(x, "result")
  /\ Answer(x) # "none"
  /\ reader' = [reader EXCEPT ![x].answer = Answer(x)]
  /\ RGoto(x, "returned")
  /\ UNCHANGED <<records, sleeping>>

ResultWaits(x) ==
  /\ Awake(x, "result")
  /\ Answer(x) = "none"
  /\ sleeping' = sleeping \cup {x}
  /\ UNCHANGED <<records, reader, rpc>>

SpuriousWake(x) ==
  /\ x \in sleeping
  /\ sleeping' = sleeping \ {x}
  /\ UNCHANGED <<records, reader, rpc>>

-----------------------------------------------------------------------------
Launch(r) ==
  AcceptFails(r) \/ Spawn(r) \/ SpawnFails(r) \/ SpawnFailure(r) \/ SubmitReturns(r)

HandlerEnds(r) ==
  HandlerFinishes(r) \/ HandlerMisnames(r) \/ HandlerFails(r) \/ Panics(r)

Finish(r) == HandlerReturns(r) \/ Record(r) \/ Leave(r)

Read(x) ==
  \/ Lookup(x, "events_lookup", "events") \/ Lookup(x, "lookup", "result")
  \/ EventsReturn(x) \/ EventsWait(x) \/ ResultReturns(x) \/ ResultWaits(x)

Next ==
  \/ \E id \in Ids, kind \in Kinds : Begin(id, kind)
  \/ \E r \in Records : Launch(r) \/ Deliver(r) \/ HandlerEnds(r) \/ Finish(r)
  \/ \E r \in Records, w \in Writers : Notify(r, w)
  \/ \E x \in Readers, id \in Ids, stream \in BOOLEAN, merge \in BOOLEAN :
       ReaderBegins(x, id, stream, merge)
  \/ \E x \in Readers : Read(x) \/ EventsTimeOut(x) \/ SpuriousWake(x)

Spec == Init /\ [][Next]_vars

\* A thread that can go on does; nothing bounds how long a handler runs, so
\* none is assumed of HandlerEnds.
Fairness ==
  /\ \A r \in Records : /\ WF_vars(Launch(r)) /\ WF_vars(Finish(r))
                        /\ \A w \in Writers : WF_vars(Notify(r, w))
  /\ \A x \in Readers : WF_vars(Read(x))

FairSpec == Spec /\ Fairness
=============================================================================

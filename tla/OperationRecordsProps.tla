----------------------- MODULE OperationRecordsProps -----------------------
(***************************************************************************)
(* What OperationRecords promises: one outcome per operation, one live     *)
(* operation per ID, streams that lose nothing, and readers that return.   *)
(***************************************************************************)
EXTENDS OperationRecords

Begun == 1..begun

Results == {"ok", "failed", "panicked"}
Refusals == {"IoError", "InternalError", "failure"}

State == [kind : Kinds \cup {"none"}, events : 0..MaxEvents,
          result : Results \cup {"none"}, merge : BOOLEAN,
          refusal : Refusals \cup {"none"}]

Stages == {"none", "begun", "unspawned", "unstarted", "running", "finished",
           "failing", "panicked", "leaving", "ended"}
ReaderPcs == {"idle", "events_lookup", "events", "lookup", "result", "returned"}

Locals == [stream : BOOLEAN, merge : BOOLEAN, id : Ids \cup {0},
           record : 0..MaxRecords, next : 0..MaxEvents,
           seen : Seq(Records \X (0..MaxEvents)), looked : SUBSET Records,
           answer : Results \cup Refusals \cup {"none", "response", "no response"}]

\* Every variable has the type its declaration in operations.rs gives it.
TypeOK ==
  /\ store \in [Ids -> 0..MaxRecords]
  /\ begun \in 0..MaxRecords
  /\ rec \in [Records -> State]
  /\ stage \in [Records -> Stages]
  /\ clones \in [Records -> SUBSET Writers]
  /\ unlocked \in [Records -> SUBSET Writers]
  /\ reader \in [Readers -> Locals]
  /\ rpc \in [Readers -> ReaderPcs]
  /\ sleeping \subseteq Readers

\* An operation has one outcome: a result or a refusal, never both, whichever of
\* its handler, its thread's record(), a panic, a failed launch and the drop of
\* its last recorder comes first and whatever follows; only a merge's success
\* has a merge response.
OneOutcome ==
  \A r \in Records :
    /\ rec[r].result = "none" \/ rec[r].refusal = "none"
    /\ rec[r].merge => rec[r].result = "ok" /\ rec[r].kind \in Merges

\* An outcome stands, and its record takes no further event: what a reader was
\* told is what every later reader is told.
OutcomeStands == [][\A r \in Begun : ~is_live(r) => rec'[r] = rec[r]]_vars

\* An operation that may still record is the one its ID names: no begin
\* replaces a live operation's record, and each ID has one at most.
LiveIsCurrent ==
  \A r \in Begun : is_live(r) => \E id \in Ids : store[id] = r

\* Somebody who can end it holds every live record, through failed launches,
\* panics and drops: no ID stays taken, and no reader waits, for nobody.
LiveHasWriter == \A r \in Begun : is_live(r) => clones[r] # {}

\* A submit whose thread did not start is refused with the failure to start it,
\* though the closure that is dropped first held the operation's own recorder.
SpawnFailureReported ==
  \A r \in Begun : stage[r] = "unstarted" => rec[r].refusal = "IoError"

\* Every live record is the one its ID names and has somebody who can end it.
LiveIsHeld == LiveIsCurrent /\ LiveHasWriter

\* What the store has promised: operations that have begun, their outcomes and
\* the operations and outcomes that readers were given.  A merge_response answers
\* with the response instead, of which MergeResponseIsSeen.
OutcomeOf(r) == IF rec[r].result # "none" THEN rec[r].result ELSE rec[r].refusal

Outcome(r) == CASE r \notin Begun -> "unborn"
                [] r \in Begun /\ is_live(r) -> "live"
                [] OTHER -> OutcomeOf(r)

Told(x) == IF reader[x].merge \/ reader[x].answer = "none" THEN "nothing"
           ELSE reader[x].answer

Recorded  == [r \in Records |-> Outcome(r)]
Delivered == [r \in Records |-> rec[r].events]
Asked     == [x \in Readers |-> reader[x].record]
Answered  == [x \in Readers |-> Told(x)]

Promise == INSTANCE OperationOutcomes WITH
  Operations <- Records, Askers <- Readers, Outcomes <- Results \cup Refusals,
  None <- 0, named <- store,
  outcome <- Recorded, events <- Delivered, asks <- Asked, told <- Answered

\* Whatever launches, handlers, panics, drops and waits come in between, all that
\* is recorded and answered is within the promise of OperationOutcomes.
RecordsKeepThePromise == Promise!Spec

\* Each operation's outcome is one, and the right one when its thread failed.
OutcomeIsSure == OneOutcome /\ SpawnFailureReported

\* A reader that looked its stream's record up once only.
OneRecord(x) == reader[x].stream /\ reader[x].looked = {reader[x].record}

\* A stream that stays on one record yields its events in sequence, each once,
\* and has them all when it is told that the operation is complete, however
\* waits time out and wake.
StreamIsWhole ==
  \A x \in Readers : OneRecord(x) =>
    LET n == Len(reader[x].seen) IN
    /\ \A i \in 1..n : reader[x].seen[i] = <<reader[x].record, i - 1>>
    /\ rpc[x] \in {"lookup", "result", "returned"} =>
         n = rec[reader[x].record].events

\* The stronger reading of "Yield each merge event once in native sequence
\* order", which is said of the handle of a submitted merge: a stream that began on
\* one has every event of it by the time it is complete.
StreamYieldsEachEvent ==
  \A x \in Readers :
    reader[x].stream /\ rpc[x] \in {"lookup", "result", "returned"} =>
      \A r \in reader[x].looked : rec[r].kind = "merge_submit" =>
        \A n \in 0..rec[r].events - 1 :
          \E i \in DOMAIN reader[x].seen : reader[x].seen[i] = <<r, n>>

\* No reader of a merge that succeeded is told that it has no response: the
\* response is published with the result.
MergeResponseIsSeen ==
  \A x \in Readers :
    reader[x].answer = "no response" /\ rec[reader[x].record].kind \in Merges =>
      rec[reader[x].record].result # "ok"

\* No reader misses an event or a response of the operation it reads.
NothingIsMissed == StreamIsWhole /\ MergeResponseIsSeen

\* The wait that a reader sleeps in would return now.
WouldReturn(x) ==
  CASE rpc[x] = "events" -> unseen(x) # <<>> \/ isComplete(x)
    [] rpc[x] = "result" -> Answer(x) # "none"

\* No wakeup is lost: a reader asleep on a record that has something for it
\* has a notify_all still to come, by a writer that has unlocked the record.
NoReaderLeftAsleep ==
  \A x \in sleeping : WouldReturn(x) => unlocked[reader[x].record] # {}

\* If handlers return or panic, every reader's call returns: no outcome goes
\* unrecorded, and a stream's rounds come to an end.
EveryReaderReturns ==
  (\A r \in Records : stage[r] = "running" ~> stage[r] # "running") =>
    \A x \in Readers : rpc[x] # "idle" ~> rpc[x] = "returned"
=============================================================================

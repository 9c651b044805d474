---------------------- MODULE SubmittedOperationsProps ----------------------
(***************************************************************************)
(* What a caller of call() and submit() may rely on although two parts     *)
(* keep what is known of its operation.                                    *)
(***************************************************************************)
EXTENDS SubmittedOperations

Working == {o \in Operations : pc[o] = "handling"}

\* Every variable has its type; a host knows an operation from its registration
\* until its Ticket ends, under its own ID.
TypeOK ==
  /\ live \in [Hosts -> [Ids -> Operations \cup {None}]]
  /\ cancelled \subseteq Operations /\ denied \subseteq Operations
  /\ closing \in [Hosts -> BOOLEAN] /\ quiet \in [Hosts -> BOOLEAN]
  /\ store \in [Ids -> Operations \cup {None}]
  /\ outcome \in [Operations -> {"none", "live"} \cup Over]
  /\ op \in [Operations -> [kind : Kinds \cup {None}, host : Hosts \cup {None},
                            id : Ids \cup {None}]]
  /\ answered \subseteq admitted /\ admitted \subseteq Operations
  /\ pc \in [Operations -> {"idle", "registered", "begun", "dropping", "unspawned",
                            "launched", "running", "handling", "handled", "late", "done"}]
  /\ told \in [Operations -> {"nothing", "accepted", "refused", "value", "closed",
                              "already running"}]
  /\ \A o \in Operations :
       pc[o] \in {"registered", "begun", "dropping", "launched", "running",
                  "handling", "handled"}
       <=> \E h \in Hosts, id \in Ids :
              live[h][id] = o /\ op[o].host = h /\ op[o].id = id

\* Handlers that report events work alone, whichever Client they came through and
\* whether they were called or submitted: "refused before any effect while
\* another operation with this request ID is live" (dispatch/mod.rs:467), and the
\* events of each go to the record its ID names.  A tag reports none.  Its Client
\* keeps its ID to itself, so that one handler of an ID works beside another only
\* if one of the two is a tag and they came through two Clients.
HandlersWorkAlone ==
  /\ \A o \in Working : HasRecord(o) => store[op[o].id] = o /\ outcome[o] = "live"
  /\ \A o, p \in Working : o # p /\ op[o].id = op[p].id =>
       op[o].host # op[p].host /\ ~(HasRecord(o) /\ HasRecord(p))

\* A cancel that was told (0, FALSE), "built nothing", is not belied by the
\* operation's answer or record, though the cancel may have come before that
\* record began, or before its begin was refused.
DeniedHasNoResult ==
  \A o \in denied :
    o \notin admitted /\ told[o] # "value" /\ outcome[o] # "result"

\* A submit that failed has left nothing behind: its host knows it no more, so
\* that no cancel finds it, and a record that it began has ended.
FailedSubmitIsGone ==
  \A o \in Operations : told[o] = "refused" /\ op[o].kind = "submit" =>
    /\ \A h \in Hosts, id \in Ids : live[h][id] # o
    /\ outcome[o] \in {"none", "refused"}

\* After a close that found nothing pending no handler of that Client works any
\* more: what is left to come is the report of a failure.
QuietHasNoHandler ==
  \A o \in Operations : op[o].host # None /\ quiet[op[o].host] =>
    pc[o] \in {"unspawned", "late", "done"}

\* Host and record tell one story of each operation.
OneStory ==
  HandlersWorkAlone /\ DeniedHasNoResult /\ FailedSubmitIsGone /\ QuietHasNoHandler

\* Each host's part is within the promise that HostOperations implements.
Life(o) ==
  CASE pc[o] = "idle" \/ told[o] \in {"closed", "already running"} -> "unborn"
    [] pc[o] \in {"registered", "begun", "dropping", "launched"} -> "waiting"
    [] pc[o] \in {"running", "handling", "handled"} -> "running"
    [] OTHER -> "over"

Slots(h) == INSTANCE NetworkSlots WITH
  Nameless <- None,
  life <- [o \in Operations |-> IF op[o].host = h THEN Life(o) ELSE "unborn"],
  name <- [o \in Operations |->
             IF op[o].host = h /\ Life(o) # "unborn" THEN op[o].id ELSE None],
  denied <- {o \in denied : op[o].host = h},
  closed <- closing[h]

\* Every Client has the slots, names and refusals it was promised, whatever the
\* operations of other Clients, and the store they share, do meanwhile.
HostsKeepThePromise ==
  /\ \A h \in Hosts : Slots(h)!Init
  /\ [][\A h \in Hosts : [Slots(h)!Next]_(Slots(h)!vars)]_vars

\* The store of SubmittedOperations, of which nobody asks, as the promise that
\* OperationRecords implements.
Recorded == [o \in Operations |-> IF outcome[o] = "none" THEN "unborn" ELSE outcome[o]]

Store == INSTANCE OperationOutcomes WITH
  Askers <- {}, Outcomes <- Over, named <- store, outcome <- Recorded,
  events <- [o \in Operations |-> 0],
  asks <- [x \in {} |-> None], told <- [x \in {} |-> "nothing"]

\* Whichever hosts its operations come through, and however they end, the store
\* gives each ID to one live operation at a time, and each operation one outcome.
StoreKeepsThePromise == Store!Spec

\* Both parts that know an operation by its ID keep their promises together.
PromisesAreKept == HostsKeepThePromise /\ StoreKeepsThePromise

\* Every record gets an outcome, if handlers end: refused, cancelled, closed
\* upon, without a thread or failed, a submit's readers return.
EveryRecordEnds ==
  []<>(Working = {}) =>
    \A o \in Operations : outcome[o] = "live" ~> outcome[o] \in Over

-----------------------------------------------------------------------------
\* native/src/operations.rs:14-19: a request ID is unique among live operations,
\* and one that matches an ended operation's begins a fresh record.  So whoever
\* has an operation's result may use its ID again.
ResultFreesTheId ==
  [][\A o \in Operations :
       told[o] = "nothing" /\ told'[o] = "already running" =>
         \E p \in Operations \ {o} :
           /\ op[p].id = op'[o].id
           /\ pc[p] # "idle" /\ outcome[p] # "result"]_vars
=============================================================================

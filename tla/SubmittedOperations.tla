------------------------ MODULE SubmittedOperations ------------------------
(***************************************************************************)
(* Network operations from their native entry to their outcome, over the   *)
(* two parts of the extension that know them by their ID: the host of each *)
(* Client, which registers, admits, cancels and closes them, and the one   *)
(* store of the process, whose records they report to.                     *)
(*                                                                         *)
(* The host is taken at the grain of NetworkSlots, the store at that of    *)
(* begin and of the outcome; HostOperations and OperationRecords have the  *)
(* locks and the waits of each.  What is at stake here is the order in     *)
(* which one operation uses the two: it is registered before its record    *)
(* begins, a success is recorded before its Ticket ends, and a failure     *)
(* after.                                                                  *)
(***************************************************************************)
EXTENDS Naturals, FiniteSets

CONSTANTS
  Hosts,       \* one ClientHost per Client
  Ids,         \* operation IDs, as request IDs name them
  Operations,  \* calls of call() and submit() with a network operation
  LIMIT,       \* how many operations of one host run at once
  None

ASSUME LimitAssumption == LIMIT \in Nat \ {0}
ASSUME NoneAssumption == None \notin Hosts \cup Ids \cup Operations

VARIABLES
  \* The hosts.
  live,       \* live[h][id]: the operation that h knows by that ID
  cancelled,  \* operations marked by a cancel or a close
  denied,     \* ... whose cancellers were told that they had not run
  closing,    \* closing[h]
  quiet,      \* quiet[h]: a close of h reported nothing pending
  \* The store.
  store,      \* store[id]: whose record the ID names
  outcome,    \* outcome[o]: "none" before begin, "live", or how it ended
  \* The threads.
  op,         \* op[o]: its kind, host and ID
  admitted,   \* operations that were given a slot
  answered,   \* operations whose handler succeeded
  pc,
  told        \* told[o]: what its caller was told

host == <<live, cancelled, denied, closing, quiet>>
records == <<store, outcome>>
vars == <<host, records, op, admitted, answered, pc, told>>

Kinds == {"submit", "call", "tag"}
Over == {"result", "error", "refused"}

\* A tag is called with a backend but without events, and so without a record.
HasRecord(o) == op[o].kind # "tag"

IsLive(id) == store[id] # None /\ outcome[store[id]] = "live"

\* Who holds a slot of h: admitted, and its Ticket has not ended.
Running(h) ==
  {o \in Operations : op[o].host = h /\ pc[o] \in {"running", "handling", "handled"}}

Init ==
  /\ live = [h \in Hosts |-> [id \in Ids |-> None]]
  /\ cancelled = {} /\ denied = {}
  /\ closing = [h \in Hosts |-> FALSE] /\ quiet = [h \in Hosts |-> FALSE]
  /\ store = [id \in Ids |-> None]
  /\ outcome = [o \in Operations |-> "none"]
  /\ op = [o \in Operations |-> [kind |-> None, host |-> None, id |-> None]]
  /\ admitted = {} /\ answered = {}
  /\ pc = [o \in Operations |-> "idle"]
  /\ told = [o \in Operations |-> "nothing"]

Goto(o, from, to) == pc[o] = from /\ pc' = [pc EXCEPT ![o] = to]
Tell(o, what) == told' = [told EXCEPT ![o] = what]
Outcome(o, how) == outcome' = [outcome EXCEPT ![o] = how]

-----------------------------------------------------------------------------
(* The native entry: ClientHost::network, then dispatch.                    *)

\* Operations::register, on the caller's thread.
Enter(o, h, id, kind) ==
  /\ op' = [op EXCEPT ![o] = [kind |-> kind, host |-> h, id |-> id]]
  /\ IF closing[h] \/ live[h][id] # None
     THEN /\ Goto(o, "idle", "done")
          /\ Tell(o, IF closing[h] THEN "closed" ELSE "already running")
          /\ UNCHANGED live
     ELSE /\ Goto(o, "idle", IF kind = "submit" THEN "registered" ELSE "launched")
          /\ live' = [live EXCEPT ![h][id] = o]
          /\ UNCHANGED told
  /\ UNCHANGED <<cancelled, denied, closing, quiet, records, admitted, answered>>

\* Mutated mayBegin: a live operation's record is replaced.
mayBegin_Always(id) == TRUE

mayBegin(id) == ~IsLive(id)

\* OperationStore::begin, by a submit before it launches its thread ("begun"),
\* and by the handler of a call that reports events ("handling").  Refused, the
\* submit drops its Scope and the handler does not run.
Begin(o, begun, refused) ==
  LET id == op[o].id IN
  IF mayBegin(id)
  THEN /\ Goto(o, pc[o], begun)
       /\ store' = [store EXCEPT ![id] = o]
       /\ Outcome(o, "live")
  ELSE Goto(o, pc[o], refused) /\ UNCHANGED records

\* What comes before begin fails: the request does not decode.
DecodeFails(o) ==
  /\ Goto(o, "registered", "dropping") \/ Goto(o, "running", "handled")
  /\ UNCHANGED <<host, records, op, admitted, answered, told>>

SubmitBegins(o) ==
  /\ pc[o] = "registered"
  /\ Begin(o, "begun", "dropping")
  /\ UNCHANGED <<host, op, admitted, answered, told>>

\* The accepted response cannot be encoded: the last recorder is dropped.
AcceptFails(o) ==
  /\ Goto(o, "begun", "dropping")
  /\ Outcome(o, "refused")
  /\ UNCHANGED <<host, store, op, admitted, answered, told>>

\* spawn_call.
Launch(o) ==
  /\ Goto(o, "begun", "launched")
  /\ Tell(o, "accepted")
  /\ UNCHANGED <<host, records, op, admitted, answered>>

\* What is live in its host when the Ticket of o has ended.
freed(o) ==
  IF live[op[o].host][op[o].id] = o
  THEN [live EXCEPT ![op[o].host][op[o].id] = None] ELSE live

\* Ticket::end, by finish or by a drop.
EndTicket(o, from, to) ==
  /\ Goto(o, from, to)
  /\ live' = freed(o)
  /\ UNCHANGED <<cancelled, denied, closing, quiet>>

\* The submit's Scope is dropped before its error reaches the caller.
SubmitFails(o) ==
  /\ EndTicket(o, "dropping", "done")
  /\ Tell(o, "refused")
  /\ UNCHANGED <<records, op, admitted, answered>>

\* No thread: its closure is dropped, with the Ticket, and only then is the
\* record refused.
SpawnFails(o) ==
  /\ EndTicket(o, "begun", "unspawned")
  /\ UNCHANGED <<records, op, admitted, answered, told>>

SpawnFailure(o) ==
  /\ Goto(o, "unspawned", "done")
  /\ Outcome(o, "refused") /\ Tell(o, "refused")
  /\ UNCHANGED <<host, store, op, admitted, answered>>

-----------------------------------------------------------------------------
(* Network::run, on the submit's thread or on the call's own.               *)

\* Mutated refuses: a mark made before the thread came to admit is not seen.
refuses_Closing(o) == closing[op[o].host]

refuses(o) == o \in cancelled \/ closing[op[o].host]

AdmitRefused(o) ==
  /\ EndTicket(o, "launched", "late")
  /\ refuses(o)
  /\ UNCHANGED <<records, op, admitted, answered, told>>

Admit(o) ==
  /\ Goto(o, "launched", IF op[o].kind = "submit" THEN "handling" ELSE "running")
  /\ ~refuses(o)
  /\ Cardinality(Running(op[o].host)) < LIMIT
  /\ admitted' = admitted \cup {o}
  /\ UNCHANGED <<host, records, op, answered, told>>

\* The handler of a call that reports events begins the record they go to; that
\* of a submit has one.
CallBegins(o) ==
  /\ pc[o] = "running" /\ HasRecord(o)
  /\ Begin(o, "handling", "handled")
  /\ UNCHANGED <<host, op, admitted, answered, told>>

\* The handler of a tag works at once: nothing asks whether its ID is live in the
\* store.
TagWorks(o) ==
  /\ Goto(o, "running", "handling")
  /\ ~HasRecord(o)
  /\ UNCHANGED <<host, records, op, admitted, answered, told>>

\* A success is recorded by the handler's entry, inside the route's run.
HandlerSucceeds(o) ==
  /\ Goto(o, "handling", "handled")
  /\ answered' = answered \cup {o}
  /\ IF HasRecord(o) THEN Outcome(o, "result") ELSE UNCHANGED outcome
  /\ UNCHANGED <<host, store, op, admitted, told>>

\* A handler that fails, or panics: a call refuses or abandons the record it
\* began, a submit leaves its own to `record`.
HandlerFails(o) ==
  /\ Goto(o, "handling", "handled")
  /\ IF op[o].kind = "call" THEN Outcome(o, "refused") ELSE UNCHANGED outcome
  /\ UNCHANGED <<host, store, op, admitted, answered, told>>

\* Mutated Finish: the operation is reported before its Ticket ends.
Finish_Reported(o) ==
  /\ Goto(o, "handled", "late")
  /\ UNCHANGED <<host, records, op, admitted, answered, told>>

Finish(o) ==
  /\ EndTicket(o, "handled", "late")
  /\ UNCHANGED <<records, op, admitted, answered, told>>

\* Mutated lateOutcome: the refusal of a waiting operation is dropped.
lateOutcome_Ran(o) == IF o \in admitted /\ outcome[o] = "live" THEN "error" ELSE outcome[o]

\* `record`: a submit's failure is recorded when its Ticket has ended, unless
\* its handler recorded a result.
lateOutcome(o) == IF outcome[o] = "live" THEN "error" ELSE outcome[o]

Report(o) ==
  /\ Goto(o, "late", "done")
  /\ IF op[o].kind = "submit"
     THEN Outcome(o, lateOutcome(o)) /\ UNCHANGED told
     ELSE Tell(o, IF o \in answered THEN "value" ELSE "refused") /\ UNCHANGED outcome
  /\ UNCHANGED <<host, store, op, admitted, answered>>

-----------------------------------------------------------------------------
(* Cancel and close.                                                        *)

Cancel(h, id) ==
  LET o == live[h][id] IN
  /\ o # None
  /\ cancelled' = cancelled \cup {o}
  /\ denied' = IF o \in admitted THEN denied ELSE denied \cup {o}
  /\ UNCHANGED <<live, closing, quiet, records, op, admitted, answered, pc, told>>

LiveIn(h) == {live[h][id] : id \in Ids} \ {None}

Close(h) ==
  /\ ~closing[h]
  /\ closing' = [closing EXCEPT ![h] = TRUE]
  /\ cancelled' = cancelled \cup LiveIn(h)
  /\ UNCHANGED <<live, denied, quiet, records, op, admitted, answered, pc, told>>

\* A close that finds its host idle within its bound.
CloseIsQuiet(h) ==
  /\ closing[h] /\ LiveIn(h) = {}
  /\ quiet' = [quiet EXCEPT ![h] = TRUE]
  /\ UNCHANGED <<live, cancelled, denied, closing, records, op, admitted, answered, pc, told>>

-----------------------------------------------------------------------------
\* What the operation's own threads do, the handler's end excepted.
Proceeds(o) ==
  \/ DecodeFails(o) \/ SubmitBegins(o) \/ AcceptFails(o) \/ Launch(o) \/ SubmitFails(o)
  \/ SpawnFails(o) \/ SpawnFailure(o)
  \/ AdmitRefused(o) \/ Admit(o) \/ CallBegins(o) \/ TagWorks(o) \/ Finish(o)
  \/ Report(o)

HandlerEnds(o) == HandlerSucceeds(o) \/ HandlerFails(o)

Next ==
  \/ \E o \in Operations :
       \/ \E h \in Hosts, id \in Ids, kind \in Kinds : Enter(o, h, id, kind)
       \/ Proceeds(o) \/ HandlerEnds(o)
  \/ \E h \in Hosts : (\E id \in Ids : Cancel(h, id)) \/ Close(h) \/ CloseIsQuiet(h)

Spec == Init /\ [][Next]_vars

\* The threads go on; how long a handler runs nothing bounds.
Fairness == \A o \in Operations : WF_vars(Proceeds(o))
FairSpec == Spec /\ Fairness
=============================================================================

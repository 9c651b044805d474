------------------------- MODULE OperationOutcomes -------------------------
(***************************************************************************)
(* What the one operation store of a process promises to those who record  *)
(* and to those who ask, with neither locks, recorders, threads nor        *)
(* wakeups: an ID names the last operation that began under it, and none   *)
(* begins under the ID of a live one; an operation takes events until it   *)
(* has its outcome, which is its only one; and who asks by an ID is told   *)
(* the outcome of the operation that it named when it was asked of.        *)
(* OperationRecords implements it, and so does the store of                *)
(* SubmittedOperations.                                                    *)
(***************************************************************************)
EXTENDS Naturals

CONSTANTS
  Ids,         \* operation IDs
  Operations,  \* what may ever begin
  Askers,      \* who may ask
  Outcomes,    \* how an operation may end; neither "unborn" nor "live"
  None         \* no operation

VARIABLES
  named,    \* named[id]: the last operation that began under id, or None
  outcome,  \* outcome[o]: "unborn", "live", or how it ended
  events,   \* events[o]: how many events it took
  asks,     \* asks[x]: the operation x asked of last, or None
  told      \* told[x]: the outcome x was told, or "nothing"

vars == <<named, outcome, events, asks, told>>

Init ==
  /\ named = [id \in Ids |-> None]
  /\ outcome = [o \in Operations |-> "unborn"]
  /\ events = [o \in Operations |-> 0]
  /\ asks = [x \in Askers |-> None]
  /\ told = [x \in Askers |-> "nothing"]

Begin(o, id) ==
  /\ outcome[o] = "unborn"
  /\ named[id] = None \/ outcome[named[id]] \in Outcomes
  /\ outcome' = [outcome EXCEPT ![o] = "live"]
  /\ named' = [named EXCEPT ![id] = o]
  /\ UNCHANGED <<events, asks, told>>

Deliver(o) ==
  /\ outcome[o] = "live"
  /\ events' = [events EXCEPT ![o] = @ + 1]
  /\ UNCHANGED <<named, outcome, asks, told>>

End(o, how) ==
  /\ outcome[o] = "live"
  /\ outcome' = [outcome EXCEPT ![o] = how]
  /\ UNCHANGED <<named, events, asks, told>>

\* A stream asks again at each of its rounds, and once more for the outcome.
Ask(x, id) ==
  /\ told[x] = "nothing" /\ named[id] # None
  /\ asks' = [asks EXCEPT ![x] = named[id]]
  /\ UNCHANGED <<named, outcome, events, told>>

Tell(x) ==
  /\ told[x] = "nothing" /\ asks[x] # None /\ outcome[asks[x]] \in Outcomes
  /\ told' = [told EXCEPT ![x] = outcome[asks[x]]]
  /\ UNCHANGED <<named, outcome, events, asks>>

Next ==
  \/ \E o \in Operations : \/ \E id \in Ids : Begin(o, id)
                           \/ Deliver(o)
                           \/ \E how \in Outcomes : End(o, how)
  \/ \E x \in Askers : (\E id \in Ids : Ask(x, id)) \/ Tell(x)

Spec == Init /\ [][Next]_vars
=============================================================================

---------------------------- MODULE NetworkSlots ----------------------------
(***************************************************************************)
(* What the host promises about the network operations of one Client, with *)
(* neither lock, condition variable, map of live operations nor count: an  *)
(* ID names one operation at a time, LIMIT of them run at once, one whose  *)
(* canceller was told that it had not run never runs, and a closed host    *)
(* starts nothing.  HostOperations implements it.                          *)
(***************************************************************************)
EXTENDS Naturals, FiniteSets

CONSTANTS
  Ids,         \* operation IDs
  Operations,  \* what may ever be registered
  LIMIT,       \* how many run at once
  Nameless     \* what an unborn operation is called

VARIABLES
  life,     \* life[o]: "unborn", "waiting", "running" or "over"
  name,     \* name[o]: the ID of o, when it is born
  denied,   \* the operations whose cancellers were told that they never ran
  closed

vars == <<life, name, denied, closed>>

Of(stage) == {o \in Operations : life[o] = stage}
Named(id) == {o \in Of("waiting") \cup Of("running") : name[o] = id}

Init ==
  /\ life = [o \in Operations |-> "unborn"]
  /\ name = [o \in Operations |-> Nameless]
  /\ denied = {}
  /\ closed = FALSE

Register(o, id) ==
  /\ ~closed /\ life[o] = "unborn" /\ Named(id) = {}
  /\ life' = [life EXCEPT ![o] = "waiting"]
  /\ name' = [name EXCEPT ![o] = id]
  /\ UNCHANGED <<denied, closed>>

Start(o) ==
  /\ ~closed /\ life[o] = "waiting" /\ o \notin denied
  /\ Cardinality(Of("running")) < LIMIT
  /\ life' = [life EXCEPT ![o] = "running"]
  /\ UNCHANGED <<name, denied, closed>>

\* An operation ends, or is dropped before it ran.
End(o) ==
  /\ life[o] \in {"waiting", "running"}
  /\ life' = [life EXCEPT ![o] = "over"]
  /\ UNCHANGED <<name, denied, closed>>

\* A cancel tells its caller that the operation had not run, and never will.
Refuse(o) ==
  /\ life[o] = "waiting"
  /\ denied' = denied \cup {o}
  /\ UNCHANGED <<life, name, closed>>

Close == closed' = TRUE /\ UNCHANGED <<life, name, denied>>

Next ==
  \/ \E o \in Operations : \/ \E id \in Ids : Register(o, id)
                           \/ Start(o) \/ End(o) \/ Refuse(o)
  \/ Close

Spec == Init /\ [][Next]_vars
=============================================================================

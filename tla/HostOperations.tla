--------------------------- MODULE HostOperations ---------------------------
(***************************************************************************)
(* The network operations of one Client: native/src/client_host/           *)
(* operations.rs, the two ends of Network::run that hold a Ticket          *)
(* (native/src/client_host.rs) and the exit hook of ClientHost::close.     *)
(*                                                                         *)
(* One mutex guards the state and one condition variable, "changed", wakes *)
(* every waiter.  An action is one critical section, or one step outside   *)
(* the lock that another thread can see: notify_all runs after the lock is *)
(* dropped, and a canceller runs outside it.                               *)
(*                                                                         *)
(* Threads are the operations' own threads, named by the serial number of  *)
(* their registration, and the Callers, each of which makes one call of    *)
(* cancel, close or the exit hook.                                         *)
(***************************************************************************)
EXTENDS Naturals, Sequences, FiniteSets

CONSTANTS
  Ids,                    \* operation IDs
  LIMIT,                  \* slots: 8 in the code
  RECORDED_CANCELLATIONS, \* length of the record of cancellations: 64
  Callers,                \* calls of cancel_operation, close and the exit hook
  MaxRegistrations,       \* bound: how many operations ever register
  MaxPending,             \* bound: local work one operation can leave pending
  None                    \* Option::None

Serials == 1..MaxRegistrations
Threads == Serials \cup Callers

ASSUME HostAssumption ==
  /\ IsFiniteSet(Ids)
  /\ LIMIT \in Nat \ {0}
  /\ RECORDED_CANCELLATIONS \in Nat \ {0}
  /\ MaxRegistrations \in Nat
  /\ MaxPending \in Nat
  /\ Callers \cap Serials = {}

Cleanup == [pending_local_work : Nat, peer_cleanup_confirmed : BOOLEAN]

ASSUME NoneAssumption == None \notin Cleanup

\* What a route's cleanup can be, with pending work cut at MaxPending.
RouteCleanup ==
  [pending_local_work : 0..MaxPending, peer_cleanup_confirmed : BOOLEAN]

\* Cleanup::default, what a cancelled waiting operation reports.
NothingBuilt == [pending_local_work |-> 0, peer_cleanup_confirmed |-> FALSE]
UNFINISHED   == [pending_local_work |-> 1, peer_cleanup_confirmed |-> FALSE]

VARIABLES
  \* State, behind the mutex.
  live,          \* live[id]: the Live entry of id, or NotLive
  running,       \* how many hold a slot
  registered,    \* the last registration's serial number
  closing,
  exiting,
  report,        \* the first close's report
  aggregate,
  cancellations, \* completed cancellations, oldest first
  \* The threads.
  pc,
  sleeping,      \* the threads in a wait on "changed"
  ticket,        \* ticket[s]: the Ticket of registration s
  call,          \* call[c]: the locals of the call c
  \* What the host's threads act on.
  fired,         \* the registrations whose token was cancelled
  hook           \* the atexit callback is still registered

closeState == <<closing, exiting, report>>
ended      == <<aggregate, cancellations>>
state      == <<live, running, registered, closeState, ended>>
vars == <<state, pc, sleeping, ticket, call, fired, hook>>

\* The entry of an ID that is not in the map: no registration has serial 0.
NotLive == [serial |-> 0, running |-> FALSE, cancelled |-> FALSE,
            canceller |-> FALSE]

LiveIds == {id \in Ids : live[id] # NotLive}

\* Mutated is_idle: a close that never asks.
is_idle_Always == TRUE

is_idle == LiveIds = {}

\* State::is_live
is_live(id, s) == live[id].serial = s

\* Aggregate::add
add(agg, cleanup) ==
  [confirmed   |-> agg.confirmed
                     + IF cleanup.peer_cleanup_confirmed THEN 1 ELSE 0,
   unconfirmed |-> agg.unconfirmed
                     + IF cleanup.peer_cleanup_confirmed THEN 0 ELSE 1,
   pending_local_work |-> agg.pending_local_work + cleanup.pending_local_work]

\* Mutated report_of: an unfinished operation no longer withholds confirmation.
report_of_ForgetsUnfinished(agg, unfinished) ==
  [pending_local_work |-> agg.pending_local_work
                            + unfinished * UNFINISHED.pending_local_work,
   peer_cleanup_confirmed |-> agg.confirmed > 0 /\ agg.unconfirmed = 0]

\* Aggregate::report
report_of(agg, unfinished) ==
  [pending_local_work |-> agg.pending_local_work
                            + unfinished * UNFINISHED.pending_local_work,
   peer_cleanup_confirmed |-> /\ agg.confirmed > 0
                              /\ agg.unconfirmed = 0
                              /\ unfinished = 0]

\* Mutated cancellation: the newest record, whichever operation it is of.
cancellation_Newest(s) ==
  IF cancellations = <<>> THEN None ELSE cancellations[Len(cancellations)][2]

\* State::cancellation: the record of s, or None.  A registration ends, and is
\* recorded, once at most, so the order of the search tells nothing apart.
cancellation(s) ==
  LET found == {i \in DOMAIN cancellations : cancellations[i][1] = s}
  IN  IF found = {} THEN None ELSE cancellations[CHOOSE i \in found : TRUE][2]

\* The bounded record after one more completed cancellation.
recorded(s, cleanup) ==
  Append(IF Len(cancellations) = RECORDED_CANCELLATIONS
         THEN Tail(cancellations) ELSE cancellations,
         <<s, cleanup>>)

Goto(t, from, to) ==
  /\ pc[t] = from
  /\ t \notin sleeping
  /\ pc' = [pc EXCEPT ![t] = to]

\* Mutated NotifyAll: notify_one.
NotifyAll_One(t, from, to) ==
  /\ Goto(t, from, to)
  /\ IF sleeping = {} THEN sleeping' = {}
     ELSE \E woken \in sleeping : sleeping' = sleeping \ {woken}
  /\ UNCHANGED <<state, ticket, call, fired, hook>>

\* notify_all by thread t, which runs on from "from" to "to".
NotifyAll(t, from, to) ==
  /\ Goto(t, from, to)
  /\ sleeping' = {}
  /\ UNCHANGED <<state, ticket, call, fired, hook>>

\* The thread t finds nothing to do and waits on "changed".
Sleep(t) ==
  /\ sleeping' = sleeping \cup {t}
  /\ UNCHANGED <<state, ticket, call, fired, hook>>

Init ==
  /\ live = [id \in Ids |-> NotLive]
  /\ running = 0
  /\ registered = 0
  /\ closing = FALSE
  /\ exiting = FALSE
  /\ report = None
  /\ aggregate = [confirmed |-> 0, unconfirmed |-> 0, pending_local_work |-> 0]
  /\ cancellations = <<>>
  /\ pc = [t \in Threads |-> "idle"]
  /\ sleeping = {}
  /\ ticket = [s \in Serials |-> [id |-> None, transport |-> FALSE,
                                  admitted |-> FALSE, cleanup |-> None]]
  /\ call = [c \in Callers |-> [exit |-> FALSE, id |-> None, serial |-> 0,
                                todo |-> {}, expired |-> FALSE,
                                answer |-> "none", report |-> None]]
  /\ fired = {}
  /\ hook = TRUE

-----------------------------------------------------------------------------
(* Operations: Operations::register, Ticket::admit, Ticket::end.            *)

\* Mutated mayRegister: no check that the ID is free; no check for a close.
mayRegister_AnyId(id) == ~closing
mayRegister_WhileClosing(id) == live[id] = NotLive

\* A closing host, or an ID that is live, refuses and changes nothing.
mayRegister(id) == ~closing /\ live[id] = NotLive

Register(id, transport) ==
  LET s == registered + 1 IN
  /\ s <= MaxRegistrations
  /\ mayRegister(id)
  /\ registered' = s
  /\ live' = [live EXCEPT ![id] = [serial |-> s, running |-> FALSE,
                                   cancelled |-> FALSE,
                                   canceller |-> transport]]
  /\ Goto(s, "idle", "registered")
  /\ ticket' = [ticket EXCEPT ![s].id = id, ![s].transport = transport]
  /\ UNCHANGED <<running, closeState, ended, sleeping, call, fired, hook>>

\* Mutated refused: a woken operation does not look at its cancelled flag.
refused_IgnoresCancel(s) == live[ticket[s].id].serial # s \/ closing

\* admit refuses an operation that is not live, cancelled, or whose host closes;
\* it waits for a slot when it does not refuse and none is free.
refused(s) ==
  LET l == live[ticket[s].id] IN l.serial # s \/ l.cancelled \/ closing

\* Mutated slotFree: one slot too many.
slotFree_OneMore == running <= LIMIT

slotFree == running < LIMIT

waits(s) == ~refused(s) /\ ~slotFree

\* A thread in admit's loop that is awake.
Admitting(s) == pc[s] \in {"registered", "waiting"}

AdmitRefused(s) ==
  /\ Admitting(s) /\ Goto(s, pc[s], "refused")
  /\ refused(s)
  /\ UNCHANGED <<state, sleeping, ticket, call, fired, hook>>

AdmitGranted(s) ==
  /\ Admitting(s) /\ Goto(s, pc[s], "running")
  /\ ~refused(s) /\ slotFree
  /\ live' = [live EXCEPT ![ticket[s].id].running = TRUE]
  /\ running' = running + 1
  /\ ticket' = [ticket EXCEPT ![s].admitted = TRUE]
  /\ UNCHANGED <<registered, closeState, ended, sleeping, call, fired, hook>>

AdmitWaits(s) ==
  /\ Admitting(s) /\ Goto(s, pc[s], "waiting")
  /\ waits(s)
  /\ Sleep(s)

\* Mutated slotsAfter: an operation that never ran frees a slot too.
slotsAfter_Always(s) == running - 1

slotsAfter(s) == IF ticket[s].admitted THEN running - 1 ELSE running

\* Ticket::end, with the cleanup of what the operation built, or None.
End(s, cleanup) ==
  LET id == ticket[s].id
      mine == is_live(id, s)
      cancelled == mine /\ live[id].cancelled
  IN
  /\ Goto(s, pc[s], "ended")
  /\ live' = IF mine THEN [live EXCEPT ![id] = NotLive] ELSE live
  /\ running' = slotsAfter(s)
  /\ aggregate' = IF cleanup = None THEN aggregate ELSE add(aggregate, cleanup)
  /\ cancellations' = IF cleanup # None /\ cancelled
                      THEN recorded(s, cleanup) ELSE cancellations
  /\ ticket' = [ticket EXCEPT ![s].cleanup = cleanup]
  /\ UNCHANGED <<registered, closeState, sleeping, call, fired, hook>>

\* Network::run ends a refused operation without a cleanup, an operation on
\* the transport with its runtime's and one on the native route without one.
FinishRefused(s) == pc[s] = "refused" /\ End(s, None)

FinishRan(s) ==
  /\ pc[s] = "running"
  /\ \E cleanup \in IF ticket[s].transport THEN RouteCleanup ELSE {None} :
       End(s, cleanup)

\* Drop for Ticket: a submit that failed after it registered, or a panic
\* that unwinds through the operation.
Drop(s) == pc[s] \in {"registered", "running"} /\ End(s, None)

\* Mutated EndNotifies: an operation that ends wakes nobody.
EndNotifies_Silent(s) ==
  Goto(s, "ended", "done") /\ UNCHANGED <<state, sleeping, ticket, call, fired, hook>>

EndNotifies(s) == NotifyAll(s, "ended", "done")

-----------------------------------------------------------------------------
(* Operations::cancel                                                       *)

Answers(c, answer, cleanup) ==
  call' = [call EXCEPT ![c].answer = answer, ![c].report = cleanup]

\* An ID that is not live, and an operation on the native route, which has no
\* canceller: the cancel fails and cancels nothing.
CancelFails(c, id) ==
  /\ Goto(c, "idle", "returned")
  /\ live[id] = NotLive \/ (live[id].running /\ ~live[id].canceller)
  /\ Answers(c, IF live[id] = NotLive THEN "InvalidRequest"
                ELSE "UnsupportedOperation", None)
  /\ UNCHANGED <<state, sleeping, ticket, fired, hook>>

CancelWaiting(c, id) ==
  /\ Goto(c, "idle", "cancel_notify")
  /\ live[id] # NotLive /\ ~live[id].running
  /\ live' = [live EXCEPT ![id].cancelled = TRUE]
  /\ call' = [call EXCEPT ![c].id = id, ![c].serial = live[id].serial,
                          ![c].answer = "waiting", ![c].report = NothingBuilt]
  /\ UNCHANGED <<running, registered, closeState, ended, sleeping, ticket,
                 fired, hook>>

CancelRunning(c, id) ==
  /\ Goto(c, "idle", "cancel_fire")
  /\ live[id].running /\ live[id].canceller
  /\ live' = [live EXCEPT ![id].cancelled = TRUE]
  /\ call' = [call EXCEPT ![c].id = id, ![c].serial = live[id].serial]
  /\ UNCHANGED <<running, registered, closeState, ended, sleeping, ticket,
                 fired, hook>>

CancelNotifies(c) == NotifyAll(c, "cancel_notify", "returned")

\* The canceller cancel cloned under the lock: its own operation's.
tokenToFire(c) == {call[c].serial}

CancelFires(c) ==
  /\ Goto(c, "cancel_fire", "cancel_wait")
  /\ fired' = fired \cup tokenToFire(c)
  /\ UNCHANGED <<state, sleeping, ticket, call, hook>>

CancelEnded(c) ==
  LET recordedCleanup == cancellation(call[c].serial) IN
  /\ Goto(c, "cancel_wait", "returned")
  /\ ~is_live(call[c].id, call[c].serial)
  /\ Answers(c, "cancelled", IF recordedCleanup = None THEN UNFINISHED
                             ELSE recordedCleanup)
  /\ UNCHANGED <<state, sleeping, ticket, fired, hook>>

CancelWaits(c) ==
  /\ Goto(c, "cancel_wait", "cancel_wait")
  /\ is_live(call[c].id, call[c].serial) /\ ~call[c].expired
  /\ Sleep(c)

CancelTimesOut(c) ==
  /\ Goto(c, "cancel_wait", "returned")
  /\ is_live(call[c].id, call[c].serial) /\ call[c].expired
  /\ Answers(c, "timeout", UNFINISHED)
  /\ UNCHANGED <<state, sleeping, ticket, fired, hook>>

-----------------------------------------------------------------------------
(* Operations::close, ClientHost::close and the exit hook.  The hook calls  *)
(* close(true) while it is registered, once in the life of the interpreter. *)

MayClose(exit) == exit => hook /\ ~exiting

CloseFirst(c, exit) ==
  /\ Goto(c, "idle", "close_notify")
  /\ MayClose(exit) /\ ~closing
  /\ closing' = TRUE
  /\ exiting' = (exiting \/ exit)
  /\ live' = [id \in Ids |-> IF id \in LiveIds
                             THEN [live[id] EXCEPT !.cancelled = TRUE]
                             ELSE NotLive]
  /\ call' = [call EXCEPT ![c].exit = exit,
                          ![c].todo = {live[id].serial : id \in
                                         {i \in LiveIds : /\ live[i].running
                                                          /\ live[i].canceller}}]
  /\ UNCHANGED <<running, registered, report, ended, sleeping, ticket, fired,
                 hook>>

CloseNotifies(c) == NotifyAll(c, "close_notify", "close_fire")

CloseFires(c) ==
  /\ Goto(c, "close_fire", "close_fire")
  /\ \E s \in call[c].todo :
       /\ fired' = fired \cup {s}
       /\ call' = [call EXCEPT ![c].todo = @ \ {s}]
  /\ UNCHANGED <<state, sleeping, ticket, hook>>

CloseFired(c) ==
  /\ Goto(c, "close_fire", "close_wait")
  /\ call[c].todo = {}
  /\ UNCHANGED <<state, sleeping, ticket, call, fired, hook>>

CloseWaits(c) ==
  /\ Goto(c, "close_wait", "close_wait")
  /\ ~is_idle /\ ~call[c].expired
  /\ Sleep(c)

CloseReports(c) ==
  LET first == report_of(aggregate, Cardinality(LiveIds)) IN
  /\ Goto(c, "close_wait", "close_publish")
  /\ is_idle \/ call[c].expired
  /\ report' = first
  /\ Answers(c, "closed", first)
  /\ UNCHANGED <<live, running, registered, closing, exiting, ended, sleeping,
                 ticket, fired, hook>>

ClosePublishes(c) == NotifyAll(c, "close_publish", "close_done")

CloseLater(c, exit) ==
  /\ Goto(c, "idle", "join_wait")
  /\ MayClose(exit) /\ closing
  /\ exiting' = (exiting \/ exit)
  /\ call' = [call EXCEPT ![c].exit = exit]
  /\ UNCHANGED <<live, running, registered, closing, report, ended, sleeping,
                 ticket, fired, hook>>

joined(c) == report # None /\ (~call[c].exit \/ is_idle)

JoinWaits(c) ==
  /\ Goto(c, "join_wait", "join_wait")
  /\ ~joined(c) /\ ~call[c].expired
  /\ Sleep(c)

mayJoin(c) == joined(c) \/ call[c].expired

laterReport == IF report # None THEN report
               ELSE report_of(aggregate, Cardinality(LiveIds))

JoinReturns(c) ==
  /\ Goto(c, "join_wait", "close_done")
  /\ mayJoin(c)
  /\ Answers(c, IF joined(c) THEN "joined" ELSE "timeout", laterReport)
  /\ UNCHANGED <<state, sleeping, ticket, fired, hook>>

\* ClientHost::close takes the hook once the host is idle; the hook itself
\* returns what close returns.
CloseReturns(c) ==
  /\ Goto(c, "close_done", "returned")
  /\ hook' = (hook /\ (call[c].exit \/ ~is_idle))
  /\ UNCHANGED <<state, sleeping, ticket, call, fired>>

-----------------------------------------------------------------------------
(* Time and the condition variable.                                         *)

\* Mutated Expire: only a close is bounded.
Expire_Close(c) ==
  /\ pc[c] \in {"close_notify", "close_fire", "close_wait", "join_wait"}
  /\ ~call[c].expired
  /\ call' = [call EXCEPT ![c].expired = TRUE]
  /\ sleeping' = sleeping \ {c}
  /\ UNCHANGED <<state, pc, ticket, fired, hook>>

\* The bound of a call passes, which ends its timed wait too.
Expire(c) ==
  /\ pc[c] \in {"cancel_fire", "cancel_wait", "close_notify", "close_fire",
                "close_wait", "join_wait"}
  /\ ~call[c].expired
  /\ call' = [call EXCEPT ![c].expired = TRUE]
  /\ sleeping' = sleeping \ {c}
  /\ UNCHANGED <<state, pc, ticket, fired, hook>>

\* A wait on a condition variable may return without a notification.
SpuriousWake(t) ==
  /\ t \in sleeping
  /\ sleeping' = sleeping \ {t}
  /\ UNCHANGED <<state, pc, ticket, call, fired, hook>>

-----------------------------------------------------------------------------
Admit(s) == AdmitRefused(s) \/ AdmitGranted(s) \/ AdmitWaits(s)

Operation(s) ==
  \/ Admit(s) \/ FinishRefused(s) \/ FinishRan(s) \/ Drop(s) \/ EndNotifies(s)

\* The steps a caller takes once its call has begun.
Continue(c) ==
  \/ CancelNotifies(c) \/ CancelFires(c) \/ CancelEnded(c) \/ CancelWaits(c)
  \/ CancelTimesOut(c)
  \/ CloseNotifies(c) \/ CloseFires(c) \/ CloseFired(c) \/ CloseWaits(c)
  \/ CloseReports(c) \/ ClosePublishes(c)
  \/ JoinWaits(c) \/ JoinReturns(c) \/ CloseReturns(c)

Begin(c) ==
  \/ \E id \in Ids : \/ CancelFails(c, id) \/ CancelWaiting(c, id)
                     \/ CancelRunning(c, id)
  \/ \E exit \in BOOLEAN : CloseFirst(c, exit) \/ CloseLater(c, exit)

Next ==
  \/ \E id \in Ids, transport \in BOOLEAN : Register(id, transport)
  \/ \E s \in Serials : Operation(s)
  \/ \E c \in Callers : Begin(c) \/ Continue(c) \/ Expire(c)
  \/ \E t \in Threads : SpuriousWake(t)

Spec == Init /\ [][Next]_vars

\* Fairness: a thread that can take a step of its own takes it, and a bound
\* passes.  Nothing in this repository bounds how long a running operation runs,
\* so no fairness is assumed of FinishRan or Drop.
Fairness ==
  /\ \A s \in Serials : /\ WF_vars(Admit(s) \/ FinishRefused(s))
                        /\ WF_vars(EndNotifies(s))
  /\ \A c \in Callers : WF_vars(Continue(c)) /\ WF_vars(Expire(c))

FairSpec == Spec /\ Fairness

=============================================================================

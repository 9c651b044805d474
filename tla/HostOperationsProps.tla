------------------------ MODULE HostOperationsProps ------------------------
(***************************************************************************)
(* What HostOperations promises its callers: type correctness, the limit,  *)
(* cancellation, close, and progress.                                      *)
(***************************************************************************)
EXTENDS HostOperations

LiveEntry == [serial : Serials, running : BOOLEAN, cancelled : BOOLEAN,
              canceller : BOOLEAN]

OperationPcs == {"idle", "registered", "waiting", "refused", "running",
                 "ended", "done"}
CallPcs == {"idle", "returned", "cancel_notify", "cancel_fire", "cancel_wait",
            "close_notify", "close_fire", "close_wait", "close_publish",
            "close_done", "join_wait"}
Answer == {"none", "InvalidRequest", "UnsupportedOperation", "waiting",
           "cancelled", "timeout", "closed", "joined"}

Counts == [confirmed : Nat, unconfirmed : Nat, pending_local_work : Nat]
Tickets == [id : Ids \cup {None}, transport : BOOLEAN, admitted : BOOLEAN,
            cleanup : Cleanup \cup {None}]
Locals == [exit : BOOLEAN, id : Ids \cup {None}, serial : 0..MaxRegistrations,
           todo : SUBSET Serials, expired : BOOLEAN, answer : Answer,
           report : Cleanup \cup {None}]

\* The state behind the mutex.
StateTypes ==
  /\ live \in [Ids -> LiveEntry \cup {NotLive}]
  /\ running \in Nat
  /\ registered \in 0..MaxRegistrations
  /\ closing \in BOOLEAN /\ exiting \in BOOLEAN
  /\ report \in Cleanup \cup {None}
  /\ aggregate \in Counts
  /\ cancellations \in Seq(Serials \X Cleanup)
  /\ Len(cancellations) <= RECORDED_CANCELLATIONS

PcTypes ==
  /\ pc \in [Threads -> OperationPcs \cup CallPcs]
  /\ \A s \in Serials : pc[s] \in OperationPcs
  /\ \A c \in Callers : pc[c] \in CallPcs

\* Every variable has the type its declaration in operations.rs gives it.
TypeOK ==
  /\ StateTypes /\ PcTypes
  /\ ticket \in [Serials -> Tickets]
  /\ call \in [Callers -> Locals]
  /\ sleeping \subseteq Threads
  /\ fired \subseteq Serials
  /\ hook \in BOOLEAN

Holders == {s \in Serials : pc[s] = "running"}
Unended == {s \in Serials : pc[s] \in {"registered", "waiting", "refused",
                                      "running"}}

\* The limit: the count of held slots is the number of operations that run,
\* whatever order they are admitted, cancelled, dropped and ended in, and it
\* never passes LIMIT (operations.rs "at most 8 network operations run").
SlotLimit == running = Cardinality(Holders) /\ running <= LIMIT

\* The map of live operations and the tickets agree: each unended ticket owns
\* the entry of its ID, and each entry belongs to one unended ticket.  An ID
\* that is used again never takes over an older operation's entry.
TicketsOwnLive ==
  /\ \A s \in Unended : /\ live[ticket[s].id].serial = s
                        /\ live[ticket[s].id].running <=> pc[s] = "running"
  /\ \A id \in LiveIds : /\ live[id].serial \in Unended
                         /\ ticket[live[id].serial].id = id

\* A cancel that answered for a waiting operation, "refused with Cancelled and
\* built nothing", speaks the truth for ever: that operation is never
\* admitted, even when a slot frees before its thread looks again.
CancelledWaitingNeverRuns ==
  \A c \in Callers :
    call[c].answer = "waiting" => ~ticket[call[c].serial].admitted

\* A canceller runs outside the lock, when the operation it was fetched for may
\* have ended and its ID may be live again: it still cancels only the token of
\* an operation that a cancel found, or that a close found running.
OnlyTheCancelledAreFired ==
  \A s \in fired :
    /\ ticket[s].transport /\ ticket[s].admitted
    /\ closing \/ \E c \in Callers : call[c].serial = s

\* A cancel that saw its operation end answers with that operation's own
\* cleanup, never with a later operation's of the same ID; without one it
\* answers UNFINISHED, when the operation left none or the bounded record has
\* let it go.
CancelAnswersItsOperation ==
  \A c \in Callers : call[c].answer = "cancelled" =>
    LET t == ticket[call[c].serial] IN
    /\ pc[call[c].serial] \in {"ended", "done"}
    /\ \/ call[c].report = t.cleanup
       \/ /\ call[c].report = UNFINISHED
          /\ t.cleanup = None \/ Len(cancellations) = RECORDED_CANCELLATIONS

\* A cancel reaches, and answers for, the operation it was asked about and no
\* other of its ID.
CancelIsAimed == OnlyTheCancelledAreFired /\ CancelAnswersItsOperation

\* Every close that waited for it returns the first close's report, however
\* closes overlap and whatever ends after the report was made.
CloseAnswersAgree ==
  \A c \in Callers :
    call[c].answer \in {"closed", "joined"} => call[c].report = report

\* A report that confirms the peer cleanup speaks for the whole host: nothing
\* is live, no operation reported an unconfirmed cleanup, and one confirmed.
ConfirmedIsWhole ==
  report # None /\ report.peer_cleanup_confirmed =>
    /\ Unended = {}
    /\ \E s \in Serials : ticket[s].cleanup # None
    /\ \A s \in Serials : ticket[s].cleanup # None =>
                              ticket[s].cleanup.peer_cleanup_confirmed

\* What closes report: one report, that confirms nothing but the truth.
CloseReportIsSound == CloseAnswersAgree /\ ConfirmedIsWhole

\* The stronger reading of "confirmed": no operation that ran on the transport
\* ended without confirming its cleanup.
ConfirmedByEveryOperation ==
  report # None /\ report.peer_cleanup_confirmed =>
    \A s \in Serials : ticket[s].admitted /\ ticket[s].transport =>
      /\ ticket[s].cleanup # None
      /\ ticket[s].cleanup.peer_cleanup_confirmed

\* ClientHost::close unregisters the exit hook only from a host that has
\* nothing left to wait for and never will have.
HookKeptWhileLive == ~hook => closing /\ Unended = {}

\* The threads that would act if they looked at the state now.
WouldAct(t) ==
  \/ t \in Serials /\ ~waits(t)
  \/ t \in Callers /\ \/ pc[t] = "cancel_wait" /\ ~is_live(call[t].id, call[t].serial)
                      \/ pc[t] = "close_wait" /\ is_idle
                      \/ pc[t] = "join_wait" /\ joined(t)
NotifyPending ==
  \E t \in Threads : pc[t] \in {"ended", "cancel_notify", "close_notify",
                                 "close_publish"}

\* No wakeup is lost: a thread that sleeps on "changed" has nothing to do, or
\* a notify_all is still to come.  One condition variable serves operations,
\* cancels and closes, and notify_all comes after the unlock.
NoLostWakeup == \A t \in sleeping : WouldAct(t) => NotifyPending

\* Once closing, the host registers nothing and admits nothing.
NothingStartsAfterClose ==
  [][closing => /\ registered' = registered
                /\ \A s \in Serials : ticket'[s].admitted = ticket[s].admitted]_vars

\* The host implements the promise of NetworkSlots: a Ticket that is refused or
\* has ended and not yet notified is already out of its slot and its ID.
Life(s) ==
  CASE pc[s] = "idle" -> "unborn"
    [] pc[s] = "running" -> "running"
    [] pc[s] \in {"ended", "done"} -> "over"
    [] OTHER -> "waiting"

Lives  == [s \in Serials |-> Life(s)]
Names  == [s \in Serials |-> ticket[s].id]
Denied == {s \in Serials : \E c \in Callers :
             call[c].answer = "waiting" /\ call[c].serial = s}

Promise == INSTANCE NetworkSlots WITH
  Operations <- Serials, Nameless <- None,
  life <- Lives, name <- Names, denied <- Denied, closed <- closing

\* Whatever interleaving of register, admit, cancel, close and end the lock and
\* the wakeups allow, callers see the slots, names and refusals of NetworkSlots.
KeepsThePromise == Promise!Spec

\* Every cancel and every close returns, though no running operation ever ends.
EveryCallReturns ==
  \A c \in Callers : pc[c] # "idle" ~> pc[c] = "returned"

\* A cancelled waiting operation leaves, and a closed host's waiting
\* operations leave, though every slot stays taken.
WaitingLeaves ==
  /\ \A c \in Callers : call[c].answer = "waiting" ~>
       call[c].serial \in Serials /\ pc[call[c].serial] = "done"
  /\ \A s \in Serials : closing /\ pc[s] = "waiting" ~> pc[s] = "done"

\* Every registered operation ends, if running operations do: none waits for
\* ever beside a free slot.
EveryOperationEnds ==
  (\A s \in Serials : pc[s] = "running" ~> pc[s] # "running") =>
    \A s \in Serials : pc[s] = "registered" ~> pc[s] = "done"

\* Operations leave: those that may not run, and those that may.
OperationsLeave == WaitingLeaves /\ EveryOperationEnds
=============================================================================

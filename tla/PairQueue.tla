------------------------------ MODULE PairQueue ------------------------------
(***************************************************************************)
(* One direction of neuro::ipc::EndpointPair: the Queue of capacity        *)
(* Capacity, its mutex and its two condition variables, and every send and *)
(* receive operation of Side on it (src/include/neuro/ipc/endpoint_pair.hpp*)
(* ).  A caller is a thread, or a coroutine that awaits send() or recv().  *)
(*                                                                         *)
(* A critical section of the mutex is one step, and parking on a condition *)
(* variable is atomic with releasing the mutex.  What the code does after  *)
(* it unlocked (the notify_one of a send or of a timed receive) is a step  *)
(* of its own, and so is each half of a co_await.                          *)
(***************************************************************************)
EXTENDS Naturals, Sequences, FiniteSets

CONSTANTS
  Callers,     \* the threads and coroutines that use this direction
  Message,     \* what they send
  NoMsg,       \* not a message
  Capacity,    \* Queue::capacity
  MaxSends     \* bound: messages accepted or held by a sender in a behaviour

ASSUME PairQueueAssumption ==
  /\ Capacity \in Nat
  /\ MaxSends \in Nat
  /\ NoMsg \notin Message

\* Needed to count wake-ups only.
ASSUME FiniteCallers == IsFiniteSet(Callers)

VARIABLES
  q,           \* Queue::q
  closed,      \* Queue::closed
  pc,          \* where each caller is, see PCs
  msg,         \* the message a blocked or suspended sender holds
  accepted,    \* history: every message pushed
  delivered    \* history: every message popped

vars == <<q, closed, pc, msg, accepted, delivered>>

\* Parked on cv_not_empty: in try_recv_for, in the recv_awaiter's await_suspend,
\* and in recv_blocking, which alone waits without a predicate.
OnNotEmpty == {"recv_parked", "co_recv_parked", "blocking_parked"}

\* Parked on cv_not_full: in try_send_for.
OnNotFull == {"send_parked"}

\* Where a caller goes on once its condition variable has let it out.
WokenOf == [recv_parked     |-> "recv_woken",
            co_recv_parked  |-> "co_recv_woken",
            blocking_parked |-> "blocking_woken",
            send_parked     |-> "send_woken"]

\* Where a timed wait goes on once its deadline has passed.
ExpiredOf == [recv_parked |-> "recv_expired", send_parked |-> "send_expired"]

PCs == {"idle",
        "notify_not_empty",       \* pushed and unlocked, cv_not_empty not yet notified
        "notify_not_empty_co",    \* the same, from the send_awaiter's await_suspend
        "notify_not_full",        \* popped and unlocked, cv_not_full not yet notified
        "send_parked", "send_woken", "send_expired",
        "recv_parked", "recv_woken", "recv_expired",
        "co_recv_suspend",        \* recv_awaiter not ready, await_suspend not yet entered
        "co_recv_parked", "co_recv_woken",
        "co_recv_resume",         \* recv_awaiter ready, await_resume not yet entered
        "co_send_suspend", "co_send_resume",
        "blocking_gap",           \* recv_blocking found nothing and has not locked again
        "blocking_parked", "blocking_woken",
        "suspended"}              \* a coroutine whose handle nobody kept

Init ==
  /\ q = <<>>
  /\ closed = FALSE
  /\ pc = [t \in Callers |-> "idle"]
  /\ msg = [t \in Callers |-> NoMsg]
  /\ accepted = <<>>
  /\ delivered = <<>>

HasSpace == Len(q) < Capacity

\* The bound on a behaviour: guards the start of a send, never its continuation.
WithinBound == Len(accepted) + Cardinality({t \in Callers : msg[t] # NoMsg}) < MaxSends

-----------------------------------------------------------------------------
(* Condition variables.                                                    *)

\* notify_one: some thread parked there runs on; nothing if none is.
NotifyOne(f, where) ==
  LET parked == {u \in Callers : f[u] \in where}
  IN  IF parked = {} THEN {f}
      ELSE {[f EXCEPT ![u] = WokenOf[f[u]]] : u \in parked}

\* Slip, for the mutants: the senders are forgotten.
NotifyAll_ReceiversOnly(f) ==
  [u \in Callers |-> IF f[u] \in OnNotEmpty THEN WokenOf[f[u]] ELSE f[u]]

NotifyAll(f) ==
  [u \in Callers |-> IF f[u] \in OnNotEmpty \cup OnNotFull THEN WokenOf[f[u]] ELSE f[u]]

Goto(t, where) == pc' = [pc EXCEPT ![t] = where]

\* A condition variable may let a thread out without a notification.
SpuriousWake(t) ==
  /\ pc[t] \in OnNotEmpty \cup OnNotFull
  /\ Goto(t, WokenOf[pc[t]])
  /\ UNCHANGED <<q, closed, msg, accepted, delivered>>

\* The deadline of a wait_for passes: the thread leaves the wait set, and once
\* it has the mutex again it looks at the predicate one last time.
Expire(t) ==
  /\ pc[t] \in {"recv_parked", "send_parked"}
  /\ Goto(t, ExpiredOf[pc[t]])
  /\ UNCHANGED <<q, closed, msg, accepted, delivered>>

-----------------------------------------------------------------------------
(* Sending.                                                                *)

\* Slip: push_front for push_back.
Push_Front(t, m, next) ==
  /\ q' = <<m>> \o q
  /\ accepted' = Append(accepted, m)
  /\ msg' = [msg EXCEPT ![t] = NoMsg]
  /\ Goto(t, next)
  /\ UNCHANGED <<closed, delivered>>

Push(t, m, next) ==
  /\ q' = Append(q, m)
  /\ accepted' = Append(accepted, m)
  /\ msg' = [msg EXCEPT ![t] = NoMsg]
  /\ Goto(t, next)
  /\ UNCHANGED <<closed, delivered>>

\* Slip: a sender that gives up still holds its message.
GiveUpSend_Keeps(t, next) ==
  /\ Goto(t, next)
  /\ UNCHANGED <<q, closed, msg, accepted, delivered>>

\* The call returns without sending.
GiveUpSend(t, next) ==
  /\ msg' = [msg EXCEPT ![t] = NoMsg]
  /\ Goto(t, next)
  /\ UNCHANGED <<q, closed, accepted, delivered>>

Hold(t, m, next) ==
  /\ msg' = [msg EXCEPT ![t] = m]
  /\ Goto(t, next)
  /\ UNCHANGED <<q, closed, accepted, delivered>>

\* A send_nowait that finds the queue full or closed returns false and changes
\* nothing.
SendNowait(t, m) ==
  /\ pc[t] = "idle"
  /\ WithinBound
  /\ ~closed /\ HasSpace
  /\ Push(t, m, "notify_not_empty")

TrySendFor(t, m) ==
  /\ pc[t] = "idle"
  /\ WithinBound
  /\ ~closed
  /\ IF HasSpace THEN Push(t, m, "notify_not_empty")
                 ELSE Hold(t, m, "send_parked")

\* Slip: closed is not looked at again after the wait.
TrySendForResumed_NoRecheck(t) ==
  /\ pc[t] \in {"send_woken", "send_expired"}
  /\ IF HasSpace THEN Push(t, msg[t], "notify_not_empty")
     ELSE IF closed \/ pc[t] = "send_expired" THEN GiveUpSend(t, "idle")
     ELSE Hold(t, msg[t], "send_parked")

\* The rest of try_send_for, with the mutex held again: after a wake-up the wait
\* goes on while the queue is open and full, after the deadline it does not.
TrySendForResumed(t) ==
  /\ pc[t] \in {"send_woken", "send_expired"}
  /\ IF closed THEN GiveUpSend(t, "idle")
     ELSE IF HasSpace THEN Push(t, msg[t], "notify_not_empty")
     ELSE IF pc[t] = "send_expired" THEN GiveUpSend(t, "idle")
     ELSE Hold(t, msg[t], "send_parked")

\* Slip: a receiver is notified only when the queue was empty before the push.
NotifyNotEmpty_OnlyFirst(t) ==
  /\ \/ /\ pc[t] = "notify_not_empty"
        /\ pc' \in IF Len(q) > 1 THEN {[pc EXCEPT ![t] = "idle"]}
                    ELSE NotifyOne([pc EXCEPT ![t] = "idle"], OnNotEmpty)
     \/ /\ pc[t] = "notify_not_empty_co"
        /\ pc' \in NotifyOne([pc EXCEPT ![t] = "suspended"], OnNotEmpty)
  /\ UNCHANGED <<q, closed, msg, accepted, delivered>>

\* Slip: the other condition variable.
NotifyNotEmpty_WrongCv(t) ==
  /\ \/ /\ pc[t] = "notify_not_empty"
        /\ pc' \in NotifyOne([pc EXCEPT ![t] = "idle"], OnNotFull)
     \/ /\ pc[t] = "notify_not_empty_co"
        /\ pc' \in NotifyOne([pc EXCEPT ![t] = "suspended"], OnNotFull)
  /\ UNCHANGED <<q, closed, msg, accepted, delivered>>

NotifyNotEmpty(t) ==
  /\ \/ /\ pc[t] = "notify_not_empty"
        /\ pc' \in NotifyOne([pc EXCEPT ![t] = "idle"], OnNotEmpty)
     \/ /\ pc[t] = "notify_not_empty_co"
        /\ pc' \in NotifyOne([pc EXCEPT ![t] = "suspended"], OnNotEmpty)
  /\ UNCHANGED <<q, closed, msg, accepted, delivered>>

\* co_await send(m): the lock is released between await_ready and what follows.
CoSendReady(t, m) ==
  /\ pc[t] = "idle"
  /\ WithinBound
  /\ Hold(t, m, IF closed \/ HasSpace THEN "co_send_resume" ELSE "co_send_suspend")

\* await_resume calls send_nowait and ignores what it answers.
CoSendResume(t) ==
  /\ pc[t] = "co_send_resume"
  /\ IF ~closed /\ HasSpace THEN Push(t, msg[t], "notify_not_empty")
                            ELSE GiveUpSend(t, "idle")

\* await_suspend does the same; it returns void and keeps no handle, so the
\* coroutine stays suspended.
CoSendSuspend(t) ==
  /\ pc[t] = "co_send_suspend"
  /\ IF ~closed /\ HasSpace THEN Push(t, msg[t], "notify_not_empty_co")
                            ELSE GiveUpSend(t, "suspended")

-----------------------------------------------------------------------------
(* Receiving.                                                              *)

\* Slip: pop_back for pop_front.
PopTo_Back(t, pcs) ==
  /\ q # <<>>
  /\ delivered' = Append(delivered, q[Len(q)])
  /\ q' = SubSeq(q, 1, Len(q) - 1)
  /\ pc' \in pcs
  /\ UNCHANGED <<closed, msg, accepted>>

PopTo(t, pcs) ==
  /\ q # <<>>
  /\ delivered' = Append(delivered, Head(q))
  /\ q' = Tail(q)
  /\ pc' \in pcs
  /\ UNCHANGED <<closed, msg, accepted>>

\* Nothing taken, and nothing changed but where the caller goes on.
Leave(t, next) == Goto(t, next) /\ UNCHANGED <<q, closed, msg, accepted, delivered>>

\* try_recv notifies before it unlocks.  On an empty queue it changes nothing.
TryRecv(t) ==
  /\ pc[t] = "idle"
  /\ PopTo(t, NotifyOne(pc, OnNotFull))

\* try_recv_for: with a message there, or closed, it does not wait at all.
TryRecvFor(t) ==
  /\ pc[t] = "idle"
  /\ \/ PopTo(t, {[pc EXCEPT ![t] = "notify_not_full"]})
     \/ q = <<>> /\ ~closed /\ Leave(t, "recv_parked")

TryRecvForResumed(t) ==
  /\ pc[t] \in {"recv_woken", "recv_expired"}
  /\ \/ PopTo(t, {[pc EXCEPT ![t] = "notify_not_full"]})
     \/ /\ q = <<>>
        /\ Leave(t, IF closed \/ pc[t] = "recv_expired" THEN "idle" ELSE "recv_parked")

\* Slip: the other condition variable.
NotifyNotFull_WrongCv(t) ==
  /\ pc[t] = "notify_not_full"
  /\ pc' \in NotifyOne([pc EXCEPT ![t] = "idle"], OnNotEmpty)
  /\ UNCHANGED <<q, closed, msg, accepted, delivered>>

NotifyNotFull(t) ==
  /\ pc[t] = "notify_not_full"
  /\ pc' \in NotifyOne([pc EXCEPT ![t] = "idle"], OnNotFull)
  /\ UNCHANGED <<q, closed, msg, accepted, delivered>>

\* recv_blocking calls try_recv, from the start and after every wake-up.
BlockingPoll(t) ==
  /\ pc[t] \in {"idle", "blocking_woken"}
  /\ \/ PopTo(t, NotifyOne([pc EXCEPT ![t] = "idle"], OnNotFull))
     \/ q = <<>> /\ Leave(t, "blocking_gap")

\* ... then locks again and waits, whatever the queue holds by now.
BlockingPark(t) ==
  /\ pc[t] = "blocking_gap"
  /\ Leave(t, "blocking_parked")

\* co_await recv(): await_ready looks and takes nothing.
CoRecvReady(t) ==
  /\ pc[t] = "idle"
  /\ Leave(t, IF closed \/ q # <<>> THEN "co_recv_resume" ELSE "co_recv_suspend")

\* await_resume reads `out`, which nothing has filled when await_ready answered
\* true: what the caller gets is no message of the queue, which keeps its own.
CoRecvResume(t) ==
  /\ pc[t] = "co_recv_resume"
  /\ Leave(t, "idle")

\* await_suspend waits on the condition variable, takes a message into `out`,
\* notifies before it unlocks, and leaves the coroutine suspended for good.
CoRecvSuspend(t) ==
  /\ pc[t] \in {"co_recv_suspend", "co_recv_woken"}
  /\ \/ PopTo(t, NotifyOne([pc EXCEPT ![t] = "suspended"], OnNotFull))
     \/ q = <<>> /\ Leave(t, IF closed THEN "suspended" ELSE "co_recv_parked")

-----------------------------------------------------------------------------
(* Closing, by the destructor of any EndpointPair that shares the queue.   *)

Close ==
  /\ closed' = TRUE
  /\ pc' = NotifyAll(pc)
  /\ UNCHANGED <<q, msg, accepted, delivered>>

-----------------------------------------------------------------------------
Call(t) ==
  \/ \E m \in Message : SendNowait(t, m) \/ TrySendFor(t, m) \/ CoSendReady(t, m)
  \/ TryRecv(t) \/ TryRecvFor(t) \/ CoRecvReady(t)
  \/ pc[t] = "idle" /\ BlockingPoll(t)

\* What a caller that holds the processor does next, without being called.
Run(t) ==
  \/ TrySendForResumed(t) \/ CoSendResume(t) \/ CoSendSuspend(t) \/ NotifyNotEmpty(t)
  \/ TryRecvForResumed(t) \/ CoRecvResume(t) \/ CoRecvSuspend(t) \/ NotifyNotFull(t)
  \/ pc[t] # "idle" /\ BlockingPoll(t)
  \/ BlockingPark(t)

Next ==
  \/ \E t \in Callers : Call(t) \/ Run(t) \/ SpuriousWake(t) \/ Expire(t)
  \/ Close

Spec == Init /\ [][Next]_vars

\* A thread that is not parked runs on, and gets the mutex.  No deadline needs
\* to pass, nobody has to call, and nothing wakes without cause.
FairSpec == Spec /\ \A t \in Callers : WF_vars(Run(t))

-----------------------------------------------------------------------------
(* Properties.                                                             *)

Holding == {"send_parked", "send_woken", "send_expired", "co_send_suspend", "co_send_resume"}

\* Type correctness; a sender holds a message exactly from its call until it has
\* pushed or given up, so no parked try_send_for can push anything else.
TypeOK ==
  /\ q \in Seq(Message)
  /\ closed \in BOOLEAN
  /\ pc \in [Callers -> PCs]
  /\ msg \in [Callers -> Message \cup {NoMsg}]
  /\ \A t \in Callers : msg[t] # NoMsg <=> pc[t] \in Holding
  /\ accepted \in Seq(Message)
  /\ delivered \in Seq(Message)

\* What was accepted is what was delivered followed by what is queued: whichever
\* of the send and receive operations interleave, no message is lost, duplicated
\* or overtaken, and the queue never outgrows its capacity.
FifoInv ==
  /\ delivered \o q = accepted
  /\ Len(q) <= Capacity

\* The wake-ups under way: a send that has pushed and not yet notified, and a
\* receiver that was let out and has not yet looked at the queue.
MessageWakeups ==
  {t \in Callers : pc[t] \in {"notify_not_empty", "notify_not_empty_co",
                              "recv_woken", "co_recv_woken", "blocking_woken"}}

SpaceWakeups == {t \in Callers : pc[t] \in {"notify_not_full", "send_woken"}}

\* No lost wake-up for a receiver that waits with a predicate (try_recv_for, the
\* recv_awaiter): while it is parked, every queued message has a wake-up of its
\* own on the way, although senders notify after they have unlocked and a woken
\* receiver may find its message taken by another.
NoLostMessage ==
  (\E t \in Callers : pc[t] \in {"recv_parked", "co_recv_parked"})
    => Len(q) <= Cardinality(MessageWakeups)

\* The same for try_send_for: while a sender is parked, every free slot has a
\* wake-up on the way.
NoLostSpace ==
  (\E t \in Callers : pc[t] \in OnNotFull)
    => Capacity - Len(q) <= Cardinality(SpaceWakeups)

\* Nothing is accepted once the queue is closed, not even from a sender that was
\* waiting for space, or between await_ready and await_resume, when it closed.
NothingAcceptedAfterClose == [][closed => accepted' = accepted]_vars

\* close() releases every try_send_for, try_recv_for and recv_awaiter that is
\* parked, and none parks again, without the help of a deadline.
CloseReleases ==
  closed ~> [](\A t \in Callers : pc[t] \notin {"send_parked", "recv_parked", "co_recv_parked"})

\* A message does not lie in the queue for good while a receiver that waits with
\* a predicate stays parked.
MessageReachesWaiter ==
  \A t \in Callers :
    (q # <<>> /\ pc[t] \in {"recv_parked", "co_recv_parked"})
      ~> (q = <<>> \/ pc[t] \notin {"recv_parked", "co_recv_parked"})

\* The queue is a bounded FIFO channel.
Fifo == INSTANCE FifoChannel
          WITH Backlogs <- 0..Capacity, sent <- accepted, rcvd <- delivered, shut <- closed

ImplementsFifo == Fifo!Spec

\* What the comment in ~EndpointPair says of close(): threads in recv_blocking
\* can return as well.
CloseReleasesBlocking ==
  \A t \in Callers :
    (closed /\ pc[t] \in {"blocking_gap", "blocking_parked", "blocking_woken"}) ~> pc[t] = "idle"
=============================================================================

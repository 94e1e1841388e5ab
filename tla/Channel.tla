------------------------------- MODULE Channel -------------------------------
(***************************************************************************)
(* neuro::net::Channel (src/include/neuro/net/channel.hpp): an unbounded   *)
(* queue with a mutex and a condition variable, whose send notifies one    *)
(* waiter and whose close notifies all.  Every operation is one critical   *)
(* section, left only by a receiver that waits.  Values are numbered as    *)
(* they are sent.  A call that throws, or finds nothing, changes nothing.  *)
(***************************************************************************)
EXTENDS Naturals, Sequences, FiniteSets

CONSTANTS
  Receivers,
  MaxSends       \* bound: values sent

VARIABLES
  queue,       \* queue_
  closed,      \* closed_
  waiting,     \* cv_: the receivers that wait and have not been notified
  woken,       \* those that have, or have timed out, and not locked mu_ yet
  timed,       \* those of them that are in recv_for
  sent, got    \* history: how many were sent; what was received, in order

vars == <<queue, closed, waiting, woken, timed, sent, got>>

Init ==
  /\ queue = << >>
  /\ closed = FALSE
  /\ waiting = {} /\ woken = {} /\ timed = {}
  /\ sent = 0 /\ got = << >>

Idle == Receivers \ (waiting \cup woken)

\* notify_one: any waiter, when there is one.
NotifyOne ==
  IF waiting = {} THEN UNCHANGED <<waiting, woken>>
  ELSE \E r \in waiting : waiting' = waiting \ {r} /\ woken' = woken \cup {r}

\* Slip: only the value that finds the queue empty is announced.
Send_NotifyWhenEmpty ==
  /\ ~closed /\ sent < MaxSends
  /\ sent' = sent + 1
  /\ queue' = Append(queue, sent')
  /\ IF queue = << >> THEN NotifyOne ELSE UNCHANGED <<waiting, woken>>
  /\ UNCHANGED <<closed, timed, got>>

Send ==
  /\ ~closed /\ sent < MaxSends
  /\ sent' = sent + 1
  /\ queue' = Append(queue, sent')
  /\ NotifyOne
  /\ UNCHANGED <<closed, timed, got>>

\* Slip: the value that came last is given out.
Pop_Back ==
  /\ queue # << >>
  /\ got' = Append(got, queue[Len(queue)])
  /\ queue' = SubSeq(queue, 1, Len(queue) - 1)

Pop ==
  /\ queue # << >>
  /\ got' = Append(got, Head(queue))
  /\ queue' = Tail(queue)

TryRecv == Pop /\ UNCHANGED <<closed, waiting, woken, timed, sent>>

\* recv and recv_for, called: both take at once what there is.
RecvAtOnce(r) == r \in Idle /\ TryRecv

RecvWaits(r, limit) ==
  /\ r \in Idle
  /\ queue = << >> /\ ~closed
  /\ waiting' = waiting \cup {r}
  /\ timed' = IF limit THEN timed \cup {r} ELSE timed \ {r}
  /\ UNCHANGED <<queue, closed, woken, sent, got>>

TimeOut(r) ==
  /\ r \in waiting \cap timed
  /\ waiting' = waiting \ {r} /\ woken' = woken \cup {r}
  /\ UNCHANGED <<queue, closed, timed, sent, got>>

\* The predicate is tried again under the lock, after a timeout too.  A waiter that
\* finds nothing waits on, throws because of close, or throws because its time is up.
RecvTakes(r) ==
  /\ r \in woken
  /\ Pop
  /\ woken' = woken \ {r}
  /\ UNCHANGED <<closed, waiting, timed, sent>>

RecvFindsNothing(r) ==
  /\ r \in woken /\ queue = << >>
  /\ woken' = woken \ {r}
  /\ \/ ~closed /\ waiting' = waiting \cup {r}
     \/ (closed \/ r \in timed) /\ UNCHANGED waiting
  /\ UNCHANGED <<queue, closed, timed, sent, got>>

Close ==
  /\ closed' = TRUE
  /\ woken' = woken \cup waiting /\ waiting' = {}
  /\ UNCHANGED <<queue, timed, sent, got>>

Next ==
  \/ Send \/ TryRecv \/ Close
  \/ \E r \in Receivers :
       \/ RecvAtOnce(r) \/ TimeOut(r) \/ RecvTakes(r) \/ RecvFindsNothing(r)
       \/ \E limit \in BOOLEAN : RecvWaits(r, limit)

Spec == Init /\ [][Next]_vars

-----------------------------------------------------------------------------
\* The channel is the abstract one, unbounded, and without hand-over to a waiter.
Fifo == INSTANCE FifoChannel WITH
  Message <- 1..MaxSends, Backlogs <- 1..MaxSends,
  sent <- [i \in 1..sent |-> i], rcvd <- got, shut <- closed

\* Whoever sends, polls, waits, times out or closes, values are received in the order
\* they were sent, once, and none is taken in after close.
ChannelIsFifo == Fifo!Spec

\* notify_one is enough: while a receiver waits, every value in the queue has a receiver
\* on its way to it; and none waits on a closed channel.
ReceiverOnItsWay ==
  waiting # {} => ~closed /\ Len(queue) <= Cardinality(woken)
=============================================================================

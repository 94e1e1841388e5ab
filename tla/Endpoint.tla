------------------------------- MODULE Endpoint -------------------------------
(***************************************************************************)
(* neuro::ipc::Endpoint (src/include/neuro/ipc/endpoint.hpp): an unbounded *)
(* message queue on which coroutines await recv() and threads poll.        *)
(*                                                                         *)
(* send_nowait and close resume the coroutines they release themselves: the*)
(* coroutine runs inside the call, and the caller goes on only once it has *)
(* suspended again or ended.  send_nowait does so after it has unlocked,   *)
(* close while it holds the mutex.  A critical section is one step, except *)
(* that of close, which is held across steps in `holder`; entering a call  *)
(* is a step before it, so that a caller can be seen waiting for the mutex.*)
(*                                                                         *)
(* The n-th message accepted is the number n; 0 is the empty Message.      *)
(***************************************************************************)
EXTENDS Naturals, Sequences, FiniteSets, SequencesExt

CONSTANTS
  Threads,      \* callers of the synchronous operations
  Coroutines,   \* callers that may also co_await recv()
  Nobody,       \* neither
  MaxSends      \* bound: sends begun or accepted in a behaviour

ASSUME EndpointAssumption ==
  /\ MaxSends \in Nat
  /\ Threads \cap Coroutines = {}
  /\ Nobody \notin Threads \cup Coroutines

Actors == Threads \cup Coroutines
Empty == 0

VARIABLES
  queue,      \* queue_
  waiters,    \* waiters_: the coroutines parked in recv(), first come first
  closed,     \* closed_
  holder,     \* the actor inside close(), which holds mu_, or Nobody
  pc,         \* where each actor is, see PCs
  child,      \* the coroutine an actor is resuming, or about to resume
  result,     \* recv_awaiter::result of a coroutine whose await is not over
  last,       \* the number of messages accepted
  taken,      \* history: <<receiver, message>>, in the order taken or handed over
  got         \* history: the messages each receiver was returned, in order

vars == <<queue, waiters, closed, holder, pc, child, result, last, taken, got>>

PCs == {"idle",          \* between calls; a coroutine: running
        "send", "try_recv", "close",   \* called, mutex not yet taken
        "recv",          \* co_await recv(): await_ready not yet locked
        "recv_missed",   \* await_ready found nothing, await_suspend not yet locked
        "parked",        \* registered in waiters_
        "handed",        \* result filled and taken off waiters_, not yet resumed
        "blocking",      \* in recv_blocking, closed_ not yet read
        "blocking_open", \* closed_ read as false, try_recv not yet locked
        "resume",        \* send_nowait unlocked, about to resume child
        "driving",       \* inside the resume() of child
        "closing",       \* in close()'s loop
        "ended"}         \* a coroutine that has run to its end

NoChild == [a \in Actors |-> Nobody]

Init ==
  /\ queue = <<>> /\ waiters = <<>> /\ closed = FALSE /\ holder = Nobody
  /\ pc = [a \in Actors |-> "idle"]
  /\ child = NoChild
  /\ result = [c \in Coroutines |-> Empty]
  /\ last = 0 /\ taken = <<>>
  /\ got = [a \in Actors |-> <<>>]

Locks(a, at) == pc[a] = at /\ holder = Nobody

Goto(a, at) == pc' = [pc EXCEPT ![a] = at]

\* An empty Message that a recv() returns is not recorded.
Returns(a, m) == got' = IF m = Empty THEN got ELSE [got EXCEPT ![a] = Append(@, m)]

\* Coroutine c suspends or ends, at `at`: whoever was resuming it goes on.
Yield(c, at) ==
  LET drivers == {a \in Actors : pc[a] = "driving" /\ child[a] = c}
  IN  /\ pc' = [a \in Actors |-> IF a = c THEN at
                                 ELSE IF a \notin drivers THEN pc[a]
                                 ELSE IF holder = a THEN "closing" ELSE "idle"]
      /\ child' = [a \in Actors |-> IF a \in drivers THEN Nobody ELSE child[a]]

SendsBegun == last + Cardinality({a \in Actors : pc[a] = "send"})

\* An actor that runs calls an operation.  co_await send() is always ready, and
\* its await_resume calls send_nowait: it is a "send" like any other.
Call(a) ==
  /\ pc[a] = "idle"
  /\ \E op \in {"send", "try_recv", "close", "recv", "blocking"} :
       /\ op = "send" => SendsBegun < MaxSends
       /\ op = "recv" => a \in Coroutines
       /\ Goto(a, op)
  /\ UNCHANGED <<queue, waiters, closed, holder, child, result, last, taken, got>>

\* A coroutine runs to its end.
End(c) ==
  /\ c \in Coroutines
  /\ pc[c] = "idle"
  /\ Yield(c, "ended")
  /\ UNCHANGED <<queue, waiters, closed, holder, result, last, taken, got>>

-----------------------------------------------------------------------------
(* send_nowait.                                                            *)

\* Slip: the waiter stays registered while its sender is about to resume it.
SendToWaiter_Kept(a) ==
  /\ Locks(a, "send")
  /\ waiters # <<>>
  /\ LET c == Head(waiters) IN
       /\ result' = [result EXCEPT ![c] = last + 1]
       /\ taken' = Append(taken, <<c, last + 1>>)
       /\ child' = [child EXCEPT ![a] = c]
       /\ pc' = [pc EXCEPT ![a] = "resume", ![c] = "handed"]
  /\ last' = last + 1
  /\ UNCHANGED <<queue, waiters, closed, holder, got>>

\* A waiter gets the message at once; it is resumed after the mutex is released.
SendToWaiter(a) ==
  /\ Locks(a, "send")
  /\ waiters # <<>>
  /\ LET c == Head(waiters) IN
       /\ result' = [result EXCEPT ![c] = last + 1]
       /\ taken' = Append(taken, <<c, last + 1>>)
       /\ child' = [child EXCEPT ![a] = c]
       /\ pc' = [pc EXCEPT ![a] = "resume", ![c] = "handed"]
  /\ waiters' = Tail(waiters)
  /\ last' = last + 1
  /\ UNCHANGED <<queue, closed, holder, got>>

\* Slip: a closed endpoint goes on queueing.
SendToQueue_Closed(a) ==
  /\ Locks(a, "send")
  /\ waiters = <<>>
  /\ queue' = Append(queue, last + 1)
  /\ last' = last + 1
  /\ Goto(a, "idle")
  /\ UNCHANGED <<waiters, closed, holder, child, result, taken, got>>

SendToQueue(a) ==
  /\ Locks(a, "send")
  /\ waiters = <<>> /\ ~closed
  /\ queue' = Append(queue, last + 1)
  /\ last' = last + 1
  /\ Goto(a, "idle")
  /\ UNCHANGED <<waiters, closed, holder, child, result, taken, got>>

\* Closed, and nobody parked: the message is dropped.
SendDropped(a) ==
  /\ Locks(a, "send")
  /\ waiters = <<>> /\ closed
  /\ Goto(a, "idle")
  /\ UNCHANGED <<queue, waiters, closed, holder, child, result, last, taken, got>>

\* Slip: the handle is not resumed once the mutex is released.
Resume_Forgotten(a) ==
  /\ pc[a] = "resume"
  /\ Goto(a, "idle")
  /\ child' = [child EXCEPT ![a] = Nobody]
  /\ UNCHANGED <<queue, waiters, closed, holder, result, last, taken, got>>

\* resume(): the coroutine's await_resume returns what `result` holds.
Resume(a) ==
  /\ pc[a] = "resume"
  /\ LET c == child[a] IN
       /\ pc' = [pc EXCEPT ![a] = "driving", ![c] = "idle"]
       /\ Returns(c, result[c])
       /\ result' = [result EXCEPT ![c] = Empty]
  /\ UNCHANGED <<queue, waiters, closed, holder, child, last, taken>>

-----------------------------------------------------------------------------
(* Receiving.                                                              *)

\* Takes the first message of the queue and returns it.
Take(a) ==
  /\ queue # <<>>
  /\ queue' = Tail(queue)
  /\ taken' = Append(taken, <<a, Head(queue)>>)
  /\ Returns(a, Head(queue))
  /\ Goto(a, "idle")
  /\ UNCHANGED <<waiters, closed, holder, child, result, last>>

Leave(a, at) ==
  /\ Goto(a, at)
  /\ UNCHANGED <<queue, waiters, closed, holder, child, result, last, taken, got>>

TryRecv(a) ==
  /\ Locks(a, "try_recv")
  /\ Take(a) \/ (queue = <<>> /\ Leave(a, "idle"))

\* recv_blocking reads closed_ without the mutex; it throws, or goes on to poll.
BlockingReadClosed(a) ==
  /\ pc[a] = "blocking"
  /\ Leave(a, IF closed THEN "idle" ELSE "blocking_open")

BlockingPoll(a) ==
  /\ Locks(a, "blocking_open")
  /\ Take(a) \/ (queue = <<>> /\ Leave(a, "blocking"))

\* await_ready: takes a message that is there already.
RecvReady(c) ==
  /\ Locks(c, "recv")
  /\ Take(c) \/ (queue = <<>> /\ Leave(c, "recv_missed"))

\* Slip: await_suspend registers without looking at closed_.
RecvSuspend_IgnoresClosed(c) ==
  /\ Locks(c, "recv_missed")
  /\ \/ Take(c)
     \/ /\ queue = <<>>
        /\ waiters' = Append(waiters, c)
        /\ Yield(c, "parked")
        /\ UNCHANGED <<queue, closed, holder, result, last, taken, got>>

\* Slip: await_suspend registers without looking at the queue again.
RecvSuspend_IgnoresQueue(c) ==
  /\ Locks(c, "recv_missed")
  /\ \/ /\ closed
        /\ Returns(c, Empty)
        /\ Goto(c, "idle")
        /\ UNCHANGED <<queue, waiters, closed, holder, child, result, last, taken>>
     \/ /\ ~closed
        /\ waiters' = Append(waiters, c)
        /\ Yield(c, "parked")
        /\ UNCHANGED <<queue, closed, holder, result, last, taken, got>>

\* await_suspend looks at the queue again, then at closed_, then registers.
RecvSuspend(c) ==
  /\ Locks(c, "recv_missed")
  /\ \/ Take(c)
     \/ /\ queue = <<>> /\ closed
        /\ Returns(c, Empty)
        /\ Goto(c, "idle")
        /\ UNCHANGED <<queue, waiters, closed, holder, child, result, last, taken>>
     \/ /\ queue = <<>> /\ ~closed
        /\ waiters' = Append(waiters, c)
        /\ Yield(c, "parked")
        /\ UNCHANGED <<queue, closed, holder, result, last, taken, got>>

-----------------------------------------------------------------------------
(* close: the mutex is held until the last waiter has been resumed.        *)

CloseBegin(a) ==
  /\ Locks(a, "close")
  /\ closed' = TRUE
  /\ holder' = a
  /\ Goto(a, "closing")
  /\ UNCHANGED <<queue, waiters, child, result, last, taken, got>>

\* The code clears waiters_ after the loop; nobody else can look at it before.
CloseResume(a) ==
  /\ pc[a] = "closing"
  /\ waiters # <<>>
  /\ LET c == Head(waiters) IN
       /\ child' = [child EXCEPT ![a] = c]
       /\ pc' = [pc EXCEPT ![a] = "driving", ![c] = "idle"]
       /\ result' = [result EXCEPT ![c] = Empty]
       /\ Returns(c, Empty)
  /\ waiters' = Tail(waiters)
  /\ UNCHANGED <<queue, closed, holder, last, taken>>

CloseEnd(a) ==
  /\ pc[a] = "closing"
  /\ waiters = <<>>
  /\ holder' = Nobody
  /\ Goto(a, "idle")
  /\ UNCHANGED <<queue, waiters, closed, child, result, last, taken, got>>

-----------------------------------------------------------------------------
\* What an actor does inside a call, without being asked again.
Run(a) ==
  \/ SendToWaiter(a) \/ SendToQueue(a) \/ SendDropped(a) \/ Resume(a)
  \/ TryRecv(a) \/ BlockingReadClosed(a) \/ BlockingPoll(a)
  \/ RecvReady(a) \/ RecvSuspend(a)
  \/ CloseBegin(a) \/ CloseResume(a) \/ CloseEnd(a)

Next == \E a \in Actors : Call(a) \/ End(a) \/ Run(a)

Spec == Init /\ [][Next]_vars

\* Every actor inside a call goes on when it can, and a coroutine that runs goes
\* on to its next call or to its end.
FairSpec ==
  Spec /\ \A a \in Actors : WF_vars(Run(a))
       /\ \A c \in Coroutines : WF_vars(Call(c) \/ End(c))

-----------------------------------------------------------------------------
(* Properties.                                                             *)

\* Nobody is parked beside a message: the waiters are the parked coroutines, each
\* registered once, and there is none while the queue holds anything, although
\* await_ready and await_suspend lock separately.
NoStrandedWaiter ==
  /\ waiters # <<>> => queue = <<>>
  /\ ToSet(waiters) = {c \in Coroutines : pc[c] = "parked"}
  /\ Len(waiters) = Cardinality(ToSet(waiters))

\* Once close() has returned nobody is parked, nor ever will be: a recv() that was
\* between await_ready and await_suspend sees that the endpoint is closed.
NobodyParkedOnClosed == closed /\ holder = Nobody => waiters = <<>>

\* What a has been returned, and what is about to be.
Returned(a) == IF pc[a] = "handed" THEN Append(got[a], result[a]) ELSE got[a]

\* What every receiver is returned is what it took or was handed, each message once
\* and in that order: the message a send put into `result` outlives the mutex, other
\* sends and close().
ReceiversGetWhatTheyTook ==
  \A a \in Actors :
    /\ ToSet(Returned(a)) = {taken[i][2] : i \in {n \in DOMAIN taken : taken[n][1] = a}}
    /\ \A j, k \in DOMAIN Returned(a) : \A m, n \in DOMAIN taken :
         j < k /\ taken[m][2] = Returned(a)[j] /\ taken[n][2] = Returned(a)[k] => m < n

\* Whether through the queue or from hand to hand, messages are received once,
\* in the order in which they were accepted.
Fifo == INSTANCE FifoChannel
          WITH Message  <- 1..MaxSends,
               Backlogs <- Nat,
               sent     <- [i \in 1..last |-> i],
               rcvd     <- [i \in 1..Len(taken) |-> taken[i][2]],
               shut     <- closed

ImplementsFifo == Fifo!Spec

\* A coroutine that was handed a message is resumed with it, even when the
\* endpoint is closed between the unlock and the resume() of its sender.
HandedIsResumed == \A c \in Coroutines : pc[c] = "handed" ~> pc[c] = "idle"

\* What the comment in close() says of the coroutines it resumes, that they can
\* observe the closed state: whatever they do next, close() returns.
CloseReturns == \A a \in Actors : pc[a] = "closing" ~> pc[a] = "idle"
=============================================================================

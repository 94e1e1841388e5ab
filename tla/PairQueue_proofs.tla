--------------------------- MODULE PairQueue_proofs ---------------------------
(***************************************************************************)
(* Theorems about PairQueue for any finite set of callers, any messages    *)
(* and any capacity: its types, the FIFO order, what closing does, that it *)
(* implements the abstract channel, and that no wake-up is lost.           *)
(***************************************************************************)
EXTENDS PairQueue, SequenceTheorems, FiniteSetTheorems, TLAPS

\* Waking a caller keeps it where it is in the sense of Holding.
LEMMA NotifyOneType ==
  ASSUME NEW f \in [Callers -> PCs],
         NEW where \in {OnNotEmpty, OnNotFull},
         NEW g \in NotifyOne(f, where)
  PROVE  /\ g \in [Callers -> PCs]
         /\ \A t \in Callers : g[t] \in Holding <=> f[t] \in Holding
<1>1. CASE {u \in Callers : f[u] \in where} = {}
  BY <1>1 DEF NotifyOne
<1>2. CASE {u \in Callers : f[u] \in where} # {}
  <2>1. PICK u \in Callers : f[u] \in where /\ g = [f EXCEPT ![u] = WokenOf[f[u]]]
    BY <1>2 DEF NotifyOne
  <2>2. /\ WokenOf[f[u]] \in PCs
        /\ WokenOf[f[u]] \in Holding <=> f[u] \in Holding
    BY <2>1 DEF WokenOf, OnNotEmpty, OnNotFull, PCs, Holding
  <2> QED BY <2>1, <2>2
<1> QED BY <1>1, <1>2

LEMMA NotifyAllType ==
  ASSUME NEW f \in [Callers -> PCs]
  PROVE  /\ NotifyAll(f) \in [Callers -> PCs]
         /\ \A t \in Callers : NotifyAll(f)[t] \in Holding <=> f[t] \in Holding
<1>1. \A u \in Callers : f[u] \in OnNotEmpty \cup OnNotFull =>
        /\ WokenOf[f[u]] \in PCs
        /\ WokenOf[f[u]] \in Holding <=> f[u] \in Holding
  BY DEF WokenOf, OnNotEmpty, OnNotFull, PCs, Holding
<1> QED BY <1>1 DEF NotifyAll

-----------------------------------------------------------------------------
(* Every step is one of four things, as far as the messages go.            *)

PushKind ==
  \E m \in Message :
    /\ ~closed /\ HasSpace
    /\ q' = Append(q, m)
    /\ accepted' = Append(accepted, m)
    /\ UNCHANGED <<closed, delivered>>

PopKind ==
  /\ q # <<>>
  /\ q' = Tail(q)
  /\ delivered' = Append(delivered, Head(q))
  /\ UNCHANGED <<closed, accepted>>

CloseKind == closed' = TRUE /\ UNCHANGED <<q, accepted, delivered>>

QuietKind == UNCHANGED <<q, closed, accepted, delivered>>

\* What a step leaves behind of the callers.
CallersOK ==
  /\ pc \in [Callers -> PCs]
  /\ msg \in [Callers -> Message \cup {NoMsg}]
  /\ \A t \in Callers : msg[t] # NoMsg <=> pc[t] \in Holding

Kinds == PushKind \/ PopKind \/ CloseKind \/ QuietKind

LEMMA PushIsPush ==
  ASSUME CallersOK, NEW t \in Callers, NEW m \in Message, NEW next \in PCs \ Holding,
         ~closed, HasSpace, Push(t, m, next)
  PROVE  CallersOK' /\ PushKind
BY PairQueueAssumption DEF CallersOK, Push, Goto, PushKind

LEMMA GiveUpIsQuiet ==
  ASSUME CallersOK, NEW t \in Callers, NEW next \in PCs \ Holding, GiveUpSend(t, next)
  PROVE  CallersOK' /\ QuietKind
BY PairQueueAssumption DEF CallersOK, GiveUpSend, Goto, QuietKind

LEMMA HoldIsQuiet ==
  ASSUME CallersOK, NEW t \in Callers, NEW m \in Message, NEW next \in PCs \cap Holding,
         Hold(t, m, next)
  PROVE  CallersOK' /\ QuietKind
BY PairQueueAssumption DEF CallersOK, Hold, Goto, QuietKind

LEMMA LeaveIsQuiet ==
  ASSUME CallersOK, NEW t \in Callers, pc[t] \notin Holding, NEW next \in PCs \ Holding,
         Leave(t, next)
  PROVE  CallersOK' /\ QuietKind
BY DEF CallersOK, Leave, Goto, QuietKind

LEMMA PopIsPop ==
  ASSUME CallersOK, NEW t \in Callers, NEW pcs, PopTo(t, pcs),
         \A g \in pcs : /\ g \in [Callers -> PCs]
                        /\ \A u \in Callers : g[u] \in Holding <=> pc[u] \in Holding
  PROVE  CallersOK' /\ PopKind
BY DEF CallersOK, PopTo, PopKind

\* The pcs a caller that leaves for `next` may notify from.
LEMMA NotifyFrom ==
  ASSUME CallersOK, NEW t \in Callers, pc[t] \notin Holding, NEW next \in PCs \ Holding,
         NEW where \in {OnNotEmpty, OnNotFull}
  PROVE  \A g \in NotifyOne([pc EXCEPT ![t] = next], where) :
           /\ g \in [Callers -> PCs]
           /\ \A u \in Callers : g[u] \in Holding <=> pc[u] \in Holding
<1> DEFINE f == [pc EXCEPT ![t] = next]
<1>1. /\ f \in [Callers -> PCs]
      /\ \A u \in Callers : f[u] \in Holding <=> pc[u] \in Holding
  BY DEF CallersOK
<1> HIDE DEF f
<1>2. \A g \in NotifyOne(f, where) :
        /\ g \in [Callers -> PCs]
        /\ \A u \in Callers : g[u] \in Holding <=> f[u] \in Holding
  BY <1>1, NotifyOneType
<1>3. \A g \in NotifyOne(f, where) :
        /\ g \in [Callers -> PCs]
        /\ \A u \in Callers : g[u] \in Holding <=> pc[u] \in Holding
  BY <1>1, <1>2
<1> QED BY <1>3 DEF f

-----------------------------------------------------------------------------
LEMMA SendSteps ==
  ASSUME CallersOK, NEW t \in Callers,
         \/ \E m \in Message : SendNowait(t, m) \/ TrySendFor(t, m) \/ CoSendReady(t, m)
         \/ TrySendForResumed(t) \/ CoSendResume(t) \/ CoSendSuspend(t)
  PROVE  CallersOK' /\ Kinds
<1> USE DEF Kinds
<1>0. /\ "notify_not_empty" \in PCs \ Holding /\ "notify_not_empty_co" \in PCs \ Holding
      /\ "idle" \in PCs \ Holding /\ "suspended" \in PCs \ Holding
      /\ "send_parked" \in PCs \cap Holding
      /\ "co_send_resume" \in PCs \cap Holding /\ "co_send_suspend" \in PCs \cap Holding
  BY DEF PCs, Holding
<1>1. ASSUME NEW m \in Message, SendNowait(t, m) PROVE CallersOK' /\ Kinds
  BY <1>0, <1>1, PushIsPush DEF SendNowait
<1>2. ASSUME NEW m \in Message, TrySendFor(t, m) PROVE CallersOK' /\ Kinds
  <2>1. CASE HasSpace  BY <1>0, <1>2, <2>1, PushIsPush DEF TrySendFor
  <2>2. CASE ~HasSpace  BY <1>0, <1>2, <2>2, HoldIsQuiet DEF TrySendFor
  <2> QED BY <2>1, <2>2
<1>3. ASSUME NEW m \in Message, CoSendReady(t, m) PROVE CallersOK' /\ Kinds
  BY <1>0, <1>3, HoldIsQuiet DEF CoSendReady
<1>4. CASE TrySendForResumed(t)
  <2>0. msg[t] \in Message
    BY <1>4 DEF TrySendForResumed, CallersOK, Holding
  <2>1. CASE closed  BY <1>0, <1>4, <2>1, GiveUpIsQuiet DEF TrySendForResumed
  <2>2. CASE ~closed /\ HasSpace
    BY <1>0, <1>4, <2>0, <2>2, PushIsPush DEF TrySendForResumed
  <2>3. CASE ~closed /\ ~HasSpace /\ pc[t] = "send_expired"
    BY <1>0, <1>4, <2>3, GiveUpIsQuiet DEF TrySendForResumed
  <2>4. CASE ~closed /\ ~HasSpace /\ pc[t] # "send_expired"
    BY <1>0, <1>4, <2>0, <2>4, HoldIsQuiet DEF TrySendForResumed
  <2> QED BY <2>1, <2>2, <2>3, <2>4
<1>5. CASE CoSendResume(t)
  <2>0. msg[t] \in Message
    BY <1>5 DEF CoSendResume, CallersOK, Holding
  <2>1. CASE ~closed /\ HasSpace
    BY <1>0, <1>5, <2>0, <2>1, PushIsPush DEF CoSendResume
  <2>2. CASE ~(~closed /\ HasSpace)
    BY <1>0, <1>5, <2>2, GiveUpIsQuiet DEF CoSendResume
  <2> QED BY <2>1, <2>2
<1>6. CASE CoSendSuspend(t)
  <2>0. msg[t] \in Message
    BY <1>6 DEF CoSendSuspend, CallersOK, Holding
  <2>1. CASE ~closed /\ HasSpace
    BY <1>0, <1>6, <2>0, <2>1, PushIsPush DEF CoSendSuspend
  <2>2. CASE ~(~closed /\ HasSpace)
    BY <1>0, <1>6, <2>2, GiveUpIsQuiet DEF CoSendSuspend
  <2> QED BY <2>1, <2>2
<1> QED BY <1>1, <1>2, <1>3, <1>4, <1>5, <1>6

LEMMA ReceiveSteps ==
  ASSUME CallersOK, NEW t \in Callers,
         \/ TryRecv(t) \/ TryRecvFor(t) \/ TryRecvForResumed(t) \/ BlockingPoll(t)
         \/ CoRecvSuspend(t)
  PROVE  CallersOK' /\ Kinds
<1> USE DEF Kinds
<1>0. /\ "idle" \in PCs \ Holding /\ "suspended" \in PCs \ Holding
      /\ "notify_not_full" \in PCs \ Holding /\ "recv_parked" \in PCs \ Holding
      /\ "blocking_gap" \in PCs \ Holding /\ "co_recv_parked" \in PCs \ Holding
      /\ OnNotFull \in {OnNotEmpty, OnNotFull}
  BY DEF PCs, Holding
<1>1. pc[t] \notin Holding
  BY DEF TryRecv, TryRecvFor, TryRecvForResumed, BlockingPoll, CoRecvSuspend, Holding
<1>2. \A next \in PCs \ Holding :
        \A g \in {[pc EXCEPT ![t] = next]} :
          /\ g \in [Callers -> PCs]
          /\ \A u \in Callers : g[u] \in Holding <=> pc[u] \in Holding
  BY <1>1 DEF CallersOK
<1>3. \A g \in NotifyOne(pc, OnNotFull) :
        /\ g \in [Callers -> PCs]
        /\ \A u \in Callers : g[u] \in Holding <=> pc[u] \in Holding
  BY <1>0, NotifyOneType DEF CallersOK
<1>4. CASE TryRecv(t)
  BY <1>3, <1>4, PopIsPop DEF TryRecv
<1>5. CASE TryRecvFor(t)
  <2>1. CASE PopTo(t, {[pc EXCEPT ![t] = "notify_not_full"]})
    BY <1>0, <1>2, <2>1, PopIsPop
  <2>2. CASE Leave(t, "recv_parked")
    BY <1>0, <1>1, <2>2, LeaveIsQuiet
  <2> QED BY <1>5, <2>1, <2>2 DEF TryRecvFor
<1>6. CASE TryRecvForResumed(t)
  <2>1. CASE PopTo(t, {[pc EXCEPT ![t] = "notify_not_full"]})
    BY <1>0, <1>2, <2>1, PopIsPop
  <2>2. CASE Leave(t, IF closed \/ pc[t] = "recv_expired" THEN "idle" ELSE "recv_parked")
    BY <1>0, <1>1, <2>2, LeaveIsQuiet
  <2> QED BY <1>6, <2>1, <2>2 DEF TryRecvForResumed
<1>7. CASE BlockingPoll(t)
  <2>1. CASE PopTo(t, NotifyOne([pc EXCEPT ![t] = "idle"], OnNotFull))
    BY <1>0, <1>1, <2>1, NotifyFrom, PopIsPop
  <2>2. CASE Leave(t, "blocking_gap")
    BY <1>0, <1>1, <2>2, LeaveIsQuiet
  <2> QED BY <1>7, <2>1, <2>2 DEF BlockingPoll
<1>8. CASE CoRecvSuspend(t)
  <2>1. CASE PopTo(t, NotifyOne([pc EXCEPT ![t] = "suspended"], OnNotFull))
    BY <1>0, <1>1, <2>1, NotifyFrom, PopIsPop
  <2>2. CASE Leave(t, IF closed THEN "suspended" ELSE "co_recv_parked")
    BY <1>0, <1>1, <2>2, LeaveIsQuiet
  <2> QED BY <1>8, <2>1, <2>2 DEF CoRecvSuspend
<1> QED BY <1>4, <1>5, <1>6, <1>7, <1>8

\* The steps that move a caller and no message.
LEMMA OtherSteps ==
  ASSUME CallersOK, NEW t \in Callers,
         \/ NotifyNotEmpty(t) \/ NotifyNotFull(t) \/ BlockingPark(t)
         \/ CoRecvReady(t) \/ CoRecvResume(t) \/ SpuriousWake(t) \/ Expire(t)
  PROVE  CallersOK' /\ QuietKind
<1>0. /\ "idle" \in PCs \ Holding /\ "suspended" \in PCs \ Holding
      /\ "co_recv_resume" \in PCs \ Holding /\ "co_recv_suspend" \in PCs \ Holding
      /\ "blocking_parked" \in PCs \ Holding
  BY DEF PCs, Holding
<1>1. CASE NotifyNotEmpty(t)
  <2>1. pc[t] \notin Holding
    BY <1>1 DEF NotifyNotEmpty, Holding
  <2>2. PICK next \in {"idle", "suspended"} :
          pc' \in NotifyOne([pc EXCEPT ![t] = next], OnNotEmpty)
    BY <1>1 DEF NotifyNotEmpty
  <2> QED BY <1>0, <1>1, <2>1, <2>2, NotifyFrom DEF NotifyNotEmpty, CallersOK, QuietKind
<1>2. CASE NotifyNotFull(t)
  <2>1. pc[t] \notin Holding /\ pc' \in NotifyOne([pc EXCEPT ![t] = "idle"], OnNotFull)
    BY <1>2 DEF NotifyNotFull, Holding
  <2> QED BY <1>0, <1>2, <2>1, NotifyFrom DEF NotifyNotFull, CallersOK, QuietKind
<1>3. CASE BlockingPark(t) \/ CoRecvResume(t) \/ CoRecvReady(t)
  <2>1. pc[t] \notin Holding
    BY <1>3 DEF BlockingPark, CoRecvResume, CoRecvReady, Holding
  <2>2. PICK next \in PCs \ Holding : Leave(t, next)
    BY <1>0, <1>3 DEF BlockingPark, CoRecvResume, CoRecvReady
  <2> QED BY <2>1, <2>2, LeaveIsQuiet
<1>4. CASE SpuriousWake(t) \/ Expire(t)
  <2>1. PICK next \in PCs : /\ pc' = [pc EXCEPT ![t] = next]
                            /\ next \in Holding <=> pc[t] \in Holding
                            /\ UNCHANGED <<q, closed, msg, accepted, delivered>>
    BY <1>4 DEF SpuriousWake, Expire, Goto, WokenOf, ExpiredOf, OnNotEmpty, OnNotFull,
                PCs, Holding
  <2> QED BY <2>1 DEF CallersOK, QuietKind
<1> QED BY <1>1, <1>2, <1>3, <1>4

\* A step of the queue pushes, pops, closes or leaves the messages alone.
LEMMA StepKinds ==
  ASSUME CallersOK, [Next]_vars
  PROVE  CallersOK' /\ Kinds
<1>1. CASE UNCHANGED vars
  BY <1>1 DEF vars, CallersOK, Kinds, QuietKind
<1>2. CASE Close
  BY <1>2, NotifyAllType DEF Close, CallersOK, Kinds, CloseKind
<1>3. ASSUME NEW t \in Callers, Call(t) \/ Run(t) \/ SpuriousWake(t) \/ Expire(t)
      PROVE  CallersOK' /\ Kinds
  BY <1>3, SendSteps, ReceiveSteps, OtherSteps DEF Call, Run, Kinds
<1> QED BY <1>1, <1>2, <1>3 DEF Next

-----------------------------------------------------------------------------
(* The inductive invariant is the type invariant with the FIFO property.   *)

IInv == TypeOK /\ FifoInv

LEMMA InitIInv == Init => IInv
<1> SUFFICES ASSUME Init PROVE IInv
  OBVIOUS
<1>1. TypeOK
  <2>1. <<>> \in Seq(Message)
    BY EmptySeq
  <2>2. \A t \in Callers : msg[t] = NoMsg /\ pc[t] = "idle" /\ pc[t] \notin Holding
    BY DEF Init, Holding
  <2> QED BY <2>1, <2>2 DEF Init, TypeOK, PCs
<1>2. delivered \o q = accepted /\ Len(q) = 0
  BY ConcatEmptySeq, EmptySeq DEF Init
<1> QED BY <1>1, <1>2, PairQueueAssumption DEF IInv, FifoInv

\* Taking the head of the queue continues the delivered history.
LEMMA MoveHead ==
  ASSUME NEW S, NEW d \in Seq(S), NEW s \in Seq(S), s # <<>>
  PROVE  /\ Append(d, Head(s)) \o Tail(s) = d \o s
         /\ Len(d) < Len(d \o s)
         /\ (d \o s)[Len(d) + 1] = Head(s)
<1>1. Len(s) \in Nat /\ Len(s) > 0 /\ Len(d) \in Nat /\ Head(s) = s[1] /\ Head(s) \in S
  BY EmptySeq, LenProperties
<1>2. /\ Tail(s) \in Seq(S) /\ Len(Tail(s)) = Len(s) - 1
      /\ \A i \in 1 .. Len(s) - 1 : Tail(s)[i] = s[i + 1]
  BY HeadTailProperties
<1>3. Append(d, Head(s)) \in Seq(S) /\ Len(Append(d, Head(s))) = Len(d) + 1
  BY <1>1
<1>4. Append(d, Head(s)) \o Tail(s) \in Seq(S) /\ d \o s \in Seq(S)
  BY <1>2, <1>3
<1>5. /\ Len(Append(d, Head(s)) \o Tail(s)) = Len(d) + Len(s)
      /\ Len(d \o s) = Len(d) + Len(s)
  BY <1>1, <1>2, <1>3
<1>6. \A i \in 1 .. Len(d) + Len(s) : (Append(d, Head(s)) \o Tail(s))[i] = (d \o s)[i]
  BY <1>1, <1>2, <1>3
<1>7. Append(d, Head(s)) \o Tail(s) = d \o s
  BY <1>4, <1>5, <1>6, SeqEqual
<1> QED BY <1>1, <1>5, <1>7

LEMMA NextIInv == IInv /\ [Next]_vars => IInv'
<1> SUFFICES ASSUME IInv, [Next]_vars PROVE IInv'
  OBVIOUS
<1>0. CallersOK' /\ Kinds
  BY StepKinds DEF IInv, TypeOK, CallersOK
<1>1. CASE PushKind
  <2>1. PICK m \in Message : /\ Len(q) < Capacity
                             /\ q' = Append(q, m) /\ accepted' = Append(accepted, m)
                             /\ UNCHANGED <<closed, delivered>>
    BY <1>1 DEF PushKind, HasSpace
  <2>2. /\ q' \in Seq(Message) /\ accepted' \in Seq(Message) /\ Len(q') <= Capacity
    BY <2>1, PairQueueAssumption DEF IInv, TypeOK
  <2>3. delivered \o Append(q, m) = Append(delivered \o q, m)
    BY DEF IInv, TypeOK
  <2> QED BY <1>0, <2>1, <2>2, <2>3 DEF IInv, TypeOK, FifoInv, CallersOK
<1>2. CASE PopKind
  <2>1. delivered' \o q' = accepted'
    BY <1>2, MoveHead DEF PopKind, IInv, TypeOK, FifoInv
  <2>2. q' \in Seq(Message) /\ delivered' \in Seq(Message) /\ Len(q') <= Capacity
    BY <1>2, PairQueueAssumption, HeadTailProperties DEF PopKind, IInv, TypeOK, FifoInv
  <2> QED BY <1>0, <1>2, <2>1, <2>2 DEF IInv, TypeOK, FifoInv, CallersOK, PopKind
<1>3. CASE CloseKind
  BY <1>0, <1>3 DEF CloseKind, IInv, TypeOK, FifoInv, CallersOK
<1>4. CASE QuietKind
  BY <1>0, <1>4 DEF QuietKind, IInv, TypeOK, FifoInv, CallersOK
<1> QED BY <1>0, <1>1, <1>2, <1>3, <1>4 DEF Kinds

LEMMA Invariance == Spec => []IInv
BY InitIInv, NextIInv, PTL DEF Spec

-----------------------------------------------------------------------------
\* The state of the queue and of its callers is always well formed, and a sender
\* holds its message as long as it may still have to push it.
THEOREM TypeCorrect == Spec => []TypeOK
<1>1. IInv => TypeOK
  BY DEF IInv
<1> QED BY Invariance, <1>1, PTL

\* Exactly-once, in-order delivery within the capacity, for any number of senders
\* and receivers using any mix of the operations of Side.
THEOREM FifoDelivery == Spec => []FifoInv
<1>1. IInv => FifoInv
  BY DEF IInv
<1> QED BY Invariance, <1>1, PTL

\* Once the queue is closed nothing more is accepted.
THEOREM ClosedIsFinal == Spec => NothingAcceptedAfterClose
<1>1. IInv /\ [Next]_vars => [closed => accepted' = accepted]_vars
  <2> SUFFICES ASSUME IInv, [Next]_vars, closed PROVE accepted' = accepted
    OBVIOUS
  <2>1. Kinds
    BY StepKinds DEF IInv, TypeOK, CallersOK
  <2> QED BY <2>1 DEF Kinds, PushKind, PopKind, CloseKind, QuietKind
<1> QED BY Invariance, <1>1, PTL DEF Spec, NothingAcceptedAfterClose

\* The queue implements the FIFO channel whose backlog is the capacity.
THEOREM Implementation == Spec => ImplementsFifo
<1>1. Init => Fifo!Init
  BY DEF Init, Fifo!Init
<1>2. IInv /\ [Next]_vars => [Fifo!Next]_(Fifo!vars)
  <2> SUFFICES ASSUME IInv, [Next]_vars PROVE [Fifo!Next]_(Fifo!vars)
    OBVIOUS
  <2>0. Kinds
    BY StepKinds DEF IInv, TypeOK, CallersOK
  <2>1. CASE PushKind
    <3>1. PICK m \in Message : /\ ~closed /\ Len(q) < Capacity
                               /\ accepted' = Append(accepted, m)
                               /\ UNCHANGED <<closed, delivered>>
      BY <2>1 DEF PushKind, HasSpace
    <3>2. Len(accepted) - Len(delivered) = Len(q)
      BY DEF IInv, TypeOK, FifoInv
    <3>3. Len(accepted) + 1 - Len(delivered) \in 0 .. Capacity
      BY <3>1, <3>2, PairQueueAssumption, LenProperties DEF IInv, TypeOK
    <3>4. Fifo!Send(m)
      BY <3>1, <3>3 DEF Fifo!Send
    <3> QED BY <3>4 DEF Fifo!Next
  <2>2. CASE PopKind
    <3>1. Len(delivered) < Len(accepted) /\ accepted[Len(delivered) + 1] = Head(q)
      BY <2>2, MoveHead DEF PopKind, IInv, TypeOK, FifoInv
    <3>2. Fifo!Receive
      BY <2>2, <3>1 DEF PopKind, Fifo!Receive
    <3> QED BY <3>2 DEF Fifo!Next
  <2>3. CASE CloseKind
    BY <2>3 DEF CloseKind, Fifo!Next, Fifo!Shut
  <2>4. CASE QuietKind
    BY <2>4 DEF QuietKind, Fifo!vars
  <2> QED BY <2>0, <2>1, <2>2, <2>3, <2>4 DEF Kinds
<1> QED BY Invariance, <1>1, <1>2, PTL DEF Spec, ImplementsFifo, Fifo!Spec

-----------------------------------------------------------------------------
(* No wake-up is lost.  Both properties say that a number n (of messages,  *)
(* of free slots) is covered by the callers in some places W while any     *)
(* caller is in some places P: first what the moves of callers do to       *)
(* Covered, then the actions.                                              *)

In(f, W) == {t \in Callers : f[t] \in W}

Covered(f, n, P, W) == (\E t \in Callers : f[t] \in P) => n <= Cardinality(In(f, W))

LEMMA InFinite ==
  ASSUME NEW f, NEW W
  PROVE  IsFiniteSet(In(f, W)) /\ Cardinality(In(f, W)) \in Nat
BY FiniteCallers, FS_Subset, FS_CardinalityType DEF In

\* Nothing to cover, or nobody to cover it for.
LEMMA NothingToCover ==
  ASSUME NEW f, NEW P, NEW W, NEW n \in Int, n <= 0
  PROVE  Covered(f, n, P, W)
BY InFinite DEF Covered

\* A caller moves to a place outside P and leaves W only for W.
LEMMA MoveAside ==
  ASSUME NEW f \in [Callers -> PCs], NEW t \in Callers, NEW next \in PCs,
         NEW P, NEW W, NEW n \in Int, NEW m \in Int,
         Covered(f, n, P, W), next \notin P, f[t] \in W => next \in W, m <= n
  PROVE  Covered([f EXCEPT ![t] = next], m, P, W)
<1> DEFINE g == [f EXCEPT ![t] = next]
<1>1. In(f, W) \subseteq In(g, W)
  BY DEF In
<1>2. Cardinality(In(f, W)) <= Cardinality(In(g, W))
  BY <1>1, InFinite, FS_Subset
<1>3. (\E u \in Callers : g[u] \in P) => (\E u \in Callers : f[u] \in P)
  OBVIOUS
<1> QED BY <1>2, <1>3, InFinite DEF Covered

\* A caller moves to a place in W from one outside: one more is covered.
LEMMA MoveInto ==
  ASSUME NEW f \in [Callers -> PCs], NEW t \in Callers, NEW next \in PCs,
         NEW P, NEW W, NEW n \in Int, NEW m \in Int,
         Covered(f, n, P, W), next \notin P, f[t] \notin W, next \in W, m <= n + 1
  PROVE  Covered([f EXCEPT ![t] = next], m, P, W)
<1> DEFINE g == [f EXCEPT ![t] = next]
<1>1. In(g, W) = In(f, W) \cup {t} /\ t \notin In(f, W)
  BY DEF In
<1>2. Cardinality(In(g, W)) = Cardinality(In(f, W)) + 1
  BY <1>1, InFinite, FS_AddElement
<1>3. (\E u \in Callers : g[u] \in P) => (\E u \in Callers : f[u] \in P)
  OBVIOUS
<1> QED BY <1>2, <1>3, InFinite DEF Covered

\* A caller moves anywhere outside P: at most one less is covered.
LEMMA MoveOut ==
  ASSUME NEW f \in [Callers -> PCs], NEW t \in Callers, NEW next \in PCs,
         NEW P, NEW W, NEW n \in Int, NEW m \in Int,
         Covered(f, n, P, W), next \notin P, m <= n - 1
  PROVE  Covered([f EXCEPT ![t] = next], m, P, W)
<1> DEFINE g == [f EXCEPT ![t] = next]
<1>1. In(f, W) \ {t} \subseteq In(g, W)
  <2>1. \A u \in Callers : u # t => g[u] = f[u]
    OBVIOUS
  <2> QED BY <2>1 DEF In
<1>2. Cardinality(In(f, W) \ {t}) >= Cardinality(In(f, W)) - 1
  <2>1. IsFiniteSet(In(f, W)) /\ Cardinality(In(f, W)) \in Nat
    BY InFinite
  <2>2. Cardinality(In(f, W) \ {t}) = IF t \in In(f, W) THEN Cardinality(In(f, W)) - 1
                                      ELSE Cardinality(In(f, W))
    BY <2>1, FS_RemoveElement
  <2> QED BY <2>1, <2>2
<1>3. Cardinality(In(f, W) \ {t}) <= Cardinality(In(g, W))
  BY <1>1, InFinite, FS_Subset
<1>4. Cardinality(In(f, W) \ {t}) \in Nat
  BY InFinite, FS_RemoveElement, FS_CardinalityType
<1>5. (\E u \in Callers : g[u] \in P) => (\E u \in Callers : f[u] \in P)
  OBVIOUS
<1> QED BY <1>2, <1>3, <1>4, <1>5, InFinite DEF Covered

\* notify_one on the condition variable the callers in P are parked on: it wakes
\* one, so that one more is covered, or there is nobody left to cover anything for.
LEMMA Wake ==
  ASSUME NEW f \in [Callers -> PCs], NEW where, NEW P, NEW W,
         NEW n \in Int, NEW m \in Int,
         NEW g \in NotifyOne(f, where),
         P \subseteq where, where \cap W = {},
         \A x \in where : WokenOf[x] \in (PCs \cap W) \ P,
         Covered(f, n, P, W), m <= n + 1
  PROVE  Covered(g, m, P, W)
<1>1. CASE {u \in Callers : f[u] \in where} = {}
  BY <1>1 DEF NotifyOne, Covered
<1>2. CASE {u \in Callers : f[u] \in where} # {}
  <2>1. PICK u \in Callers : f[u] \in where /\ g = [f EXCEPT ![u] = WokenOf[f[u]]]
    BY <1>2 DEF NotifyOne
  <2> QED BY <2>1, MoveInto
<1> QED BY <1>1, <1>2

\* notify_one on another condition variable.
LEMMA WakeOther ==
  ASSUME NEW f \in [Callers -> PCs], NEW where, NEW P, NEW W, NEW n \in Int,
         NEW g \in NotifyOne(f, where),
         where \cap W = {},
         \A x \in where : WokenOf[x] \in PCs \ P,
         Covered(f, n, P, W)
  PROVE  Covered(g, n, P, W)
<1>1. CASE {u \in Callers : f[u] \in where} = {}
  BY <1>1 DEF NotifyOne
<1>2. CASE {u \in Callers : f[u] \in where} # {}
  <2>1. PICK u \in Callers : f[u] \in where /\ g = [f EXCEPT ![u] = WokenOf[f[u]]]
    BY <1>2 DEF NotifyOne
  <2>2. WokenOf[f[u]] \in PCs /\ WokenOf[f[u]] \notin P /\ (f[u] \in W => WokenOf[f[u]] \in W)
    BY <2>1
  <2>3. n <= n
    OBVIOUS
  <2>4. Covered([f EXCEPT ![u] = WokenOf[f[u]]], n, P, W)
    BY <2>2, <2>3, MoveAside, f \in [Callers -> PCs], u \in Callers, n \in Int, Covered(f, n, P, W)
  <2> QED BY <2>1, <2>4
<1> QED BY <1>1, <1>2

-----------------------------------------------------------------------------
(* Messages and free slots.                                                *)

Waiting == {"recv_parked", "co_recv_parked"}

MessageWaker == {"notify_not_empty", "notify_not_empty_co",
                 "recv_woken", "co_recv_woken", "blocking_woken"}

SpaceWaker == {"notify_not_full", "send_woken"}

MessageCovered(f, n) == Covered(f, n, Waiting, MessageWaker)

SpaceCovered(f, n) == Covered(f, n, OnNotFull, SpaceWaker)

\* No sender is parked on a closed queue: the one wake-up a close gives each is
\* all it needs.
SendersReleased == closed => \A t \in Callers : pc[t] \notin OnNotFull

WakeInv ==
  /\ MessageCovered(pc, Len(q))
  /\ SpaceCovered(pc, Capacity - Len(q))
  /\ SendersReleased

\* What a step establishes.
WakeInvNext ==
  /\ MessageCovered(pc', Len(q'))
  /\ SpaceCovered(pc', Capacity - Len(q'))
  /\ closed' => \A t \in Callers : pc'[t] \notin OnNotFull

QueueOK == CallersOK /\ q \in Seq(Message)

LEMMA Numbers ==
  ASSUME QueueOK
  PROVE  Len(q) \in Nat /\ Capacity - Len(q) \in Int /\ Len(q) \in Int
BY PairQueueAssumption DEF QueueOK

\* A notification on cv_not_empty after a caller went from pc to f.
LEMMA NotifyReceiver ==
  ASSUME NEW f \in [Callers -> PCs], NEW n \in Int, NEW m \in Int,
         MessageCovered(f, n - 1), SpaceCovered(f, m),
         NEW g \in NotifyOne(f, OnNotEmpty)
  PROVE  MessageCovered(g, n) /\ SpaceCovered(g, m)
<1>1. \A x \in OnNotEmpty : WokenOf[x] \in (PCs \cap MessageWaker) \ (Waiting \cup OnNotFull)
  BY DEF OnNotEmpty, OnNotFull, WokenOf, PCs, MessageWaker, Waiting
<1>2. /\ Waiting \subseteq OnNotEmpty /\ OnNotEmpty \cap MessageWaker = {}
      /\ OnNotEmpty \cap SpaceWaker = {}
  BY DEF Waiting, OnNotEmpty, MessageWaker, SpaceWaker
<1>3. n - 1 \in Int /\ n <= (n - 1) + 1
  OBVIOUS
<1>4. MessageCovered(g, n)
  BY <1>1, <1>2, <1>3, Wake DEF MessageCovered
<1>5. SpaceCovered(g, m)
  BY <1>1, <1>2, WakeOther DEF SpaceCovered
<1> QED BY <1>4, <1>5

\* A notification on cv_not_full.
LEMMA NotifySender ==
  ASSUME NEW f \in [Callers -> PCs], NEW n \in Int, NEW m \in Int,
         MessageCovered(f, n), SpaceCovered(f, m - 1),
         NEW g \in NotifyOne(f, OnNotFull)
  PROVE  MessageCovered(g, n) /\ SpaceCovered(g, m)
<1>1. \A x \in OnNotFull : WokenOf[x] \in (PCs \cap SpaceWaker) \ (Waiting \cup OnNotFull)
  BY DEF OnNotFull, WokenOf, PCs, SpaceWaker, Waiting
<1>2. /\ OnNotFull \cap MessageWaker = {} /\ OnNotFull \cap SpaceWaker = {}
      /\ OnNotFull \subseteq OnNotFull
  BY DEF OnNotFull, MessageWaker, SpaceWaker
<1>3. m - 1 \in Int /\ m <= (m - 1) + 1
  OBVIOUS
<1>4. SpaceCovered(g, m)
  <2>1. \A x \in OnNotFull : WokenOf[x] \in (PCs \cap SpaceWaker) \ OnNotFull
    BY <1>1
  <2>2. Covered(f, m - 1, OnNotFull, SpaceWaker)
    BY DEF SpaceCovered
  <2>3. Covered(g, m, OnNotFull, SpaceWaker)
    BY <1>2, <1>3, <2>1, <2>2, Wake
  <2> QED BY <2>3 DEF SpaceCovered
<1>5. MessageCovered(g, n)
  BY <1>1, <1>2, WakeOther DEF MessageCovered
<1> QED BY <1>4, <1>5

\* A notification parks nobody.
LEMMA NotifyReleases ==
  ASSUME NEW f \in [Callers -> PCs], NEW where \in {OnNotEmpty, OnNotFull},
         NEW g \in NotifyOne(f, where), \A t \in Callers : f[t] \notin OnNotFull
  PROVE  \A t \in Callers : g[t] \notin OnNotFull
<1>1. \A x \in where : WokenOf[x] \notin OnNotFull
  BY DEF OnNotEmpty, OnNotFull, WokenOf
<1>2. CASE {u \in Callers : f[u] \in where} = {}
  BY <1>2 DEF NotifyOne
<1>3. CASE {u \in Callers : f[u] \in where} # {}
  <2>1. PICK u \in Callers : f[u] \in where /\ g = [f EXCEPT ![u] = WokenOf[f[u]]]
    BY <1>3 DEF NotifyOne
  <2> QED BY <1>1, <2>1
<1> QED BY <1>2, <1>3

-----------------------------------------------------------------------------
(* What each kind of action does.                                          *)

\* A caller moves aside: it parks nowhere and cancels no wake-up.
LEMMA AsideCovers ==
  ASSUME QueueOK, WakeInv, NEW t \in Callers, NEW next \in PCs \ (Waiting \cup OnNotFull),
         pc' = [pc EXCEPT ![t] = next], UNCHANGED <<q, closed>>,
         pc[t] \in MessageWaker => next \in MessageWaker,
         pc[t] \in SpaceWaker => next \in SpaceWaker
  PROVE  WakeInvNext
<1> USE DEF QueueOK, CallersOK, WakeInv, MessageCovered, SpaceCovered
<1>1. Covered(pc', Len(q), Waiting, MessageWaker)
  <2>1. Len(q) <= Len(q)
    BY Numbers
  <2> QED BY <2>1, Numbers, MoveAside
<1>2. Covered(pc', Capacity - Len(q), OnNotFull, SpaceWaker)
  <2>1. Capacity - Len(q) <= Capacity - Len(q)
    BY Numbers
  <2> QED BY <2>1, Numbers, MoveAside
<1> QED BY <1>1, <1>2 DEF WakeInvNext, SendersReleased

LEMMA PushCovers ==
  ASSUME QueueOK, WakeInv, NEW t \in Callers, NEW m \in Message,
         NEW next \in {"notify_not_empty", "notify_not_empty_co"},
         pc[t] \notin MessageWaker, Push(t, m, next)
  PROVE  WakeInvNext
<1> USE DEF QueueOK, CallersOK, WakeInv, MessageCovered, SpaceCovered
<1>1. /\ next \in PCs /\ next \in MessageWaker
      /\ next \notin Waiting /\ next \notin OnNotFull
  BY DEF PCs, MessageWaker, Waiting, OnNotFull
<1>2. /\ pc' = [pc EXCEPT ![t] = next] /\ UNCHANGED closed
      /\ Len(q') = Len(q) + 1
  BY DEF Push, Goto
<1>3. Covered(pc', Len(q'), Waiting, MessageWaker)
  <2>1. Len(q') \in Int /\ Len(q') <= Len(q) + 1
    BY <1>2, Numbers
  <2> QED BY <1>1, <1>2, <2>1, Numbers, MoveInto
<1>4. Covered(pc', Capacity - Len(q'), OnNotFull, SpaceWaker)
  <2>1. Capacity - Len(q') \in Int /\ Capacity - Len(q') <= Capacity - Len(q) - 1
    BY <1>2, Numbers, PairQueueAssumption
  <2> QED BY <1>1, <1>2, <2>1, Numbers, MoveOut
<1> QED BY <1>1, <1>2, <1>3, <1>4 DEF WakeInvNext, SendersReleased

\* A pop after which the caller notifies, or is about to.  The caller is at f.
LEMMA PopCovers ==
  ASSUME QueueOK, WakeInv, NEW t \in Callers,
         NEW f \in [Callers -> PCs],
         MessageCovered(f, Len(q) - 1), SpaceCovered(f, Capacity - Len(q)),
         \A u \in Callers : f[u] \in OnNotFull => pc[u] \in OnNotFull,
         PopTo(t, NotifyOne(f, OnNotFull))
  PROVE  WakeInvNext
<1>1. /\ pc' \in NotifyOne(f, OnNotFull) /\ UNCHANGED closed
      /\ Len(q') = Len(q) - 1
  BY HeadTailProperties DEF PopTo, QueueOK
<1>2. /\ Len(q') \in Int /\ Capacity - Len(q') \in Int
      /\ (Capacity - Len(q')) - 1 = Capacity - Len(q)
  BY <1>1, Numbers, PairQueueAssumption
<1>3. MessageCovered(pc', Len(q')) /\ SpaceCovered(pc', Capacity - Len(q'))
  BY <1>1, <1>2, NotifySender
<1>4. ASSUME closed PROVE \A u \in Callers : pc'[u] \notin OnNotFull
  BY <1>1, <1>4, NotifyReleases DEF WakeInv, SendersReleased
<1> QED BY <1>1, <1>3, <1>4 DEF WakeInvNext

\* A timed receiver pops, and will notify.
LEMMA TimedPopCovers ==
  ASSUME QueueOK, WakeInv, NEW t \in Callers, pc[t] \notin SpaceWaker,
         PopTo(t, {[pc EXCEPT ![t] = "notify_not_full"]})
  PROVE  WakeInvNext
<1> USE DEF QueueOK, CallersOK, WakeInv, MessageCovered, SpaceCovered
<1>1. /\ "notify_not_full" \in PCs /\ "notify_not_full" \in SpaceWaker
      /\ "notify_not_full" \notin Waiting /\ "notify_not_full" \notin OnNotFull
  BY DEF PCs, SpaceWaker, Waiting, OnNotFull
<1>2. /\ pc' = [pc EXCEPT ![t] = "notify_not_full"] /\ UNCHANGED closed
      /\ Len(q') = Len(q) - 1
  BY HeadTailProperties DEF PopTo
<1>3. Len(q') \in Int /\ Len(q') <= Len(q) - 1 /\ Capacity - Len(q') \in Int
      /\ Capacity - Len(q') <= (Capacity - Len(q)) + 1
  BY <1>2, Numbers, PairQueueAssumption
<1>4. Covered(pc', Len(q'), Waiting, MessageWaker)
  BY <1>1, <1>2, <1>3, Numbers, MoveOut
<1>5. Covered(pc', Capacity - Len(q'), OnNotFull, SpaceWaker)
  BY <1>1, <1>2, <1>3, Numbers, MoveInto
<1> QED BY <1>1, <1>2, <1>4, <1>5 DEF WakeInvNext, SendersReleased

\* A receiver finds the queue empty, and goes where it may be parked.
LEMMA EmptyCovers ==
  ASSUME QueueOK, WakeInv, NEW t \in Callers, NEW next \in PCs \ OnNotFull,
         q = <<>>, pc[t] \notin SpaceWaker, Leave(t, next)
  PROVE  WakeInvNext
<1> USE DEF QueueOK, CallersOK, WakeInv, MessageCovered, SpaceCovered
<1>1. pc' = [pc EXCEPT ![t] = next] /\ UNCHANGED <<q, closed>>
  BY DEF Leave, Goto
<1>2. Covered(pc', Len(q'), Waiting, MessageWaker)
  BY <1>1, NothingToCover
<1>3. Covered(pc', Capacity - Len(q'), OnNotFull, SpaceWaker)
  <2>1. Capacity - Len(q) <= Capacity - Len(q)
    BY Numbers
  <2> QED BY <1>1, <2>1, Numbers, MoveAside
<1> QED BY <1>1, <1>2, <1>3 DEF WakeInvNext, SendersReleased

\* A sender finds the queue open and full, and parks or gives up.
LEMMA FullCovers ==
  ASSUME QueueOK, WakeInv, NEW t \in Callers, NEW next \in PCs \ Waiting,
         ~closed, ~HasSpace, pc[t] \notin MessageWaker,
         pc' = [pc EXCEPT ![t] = next], UNCHANGED <<q, closed>>
  PROVE  WakeInvNext
<1> USE DEF QueueOK, CallersOK, WakeInv, MessageCovered, SpaceCovered
<1>1. Covered(pc', Len(q'), Waiting, MessageWaker)
  <2>1. Len(q) <= Len(q)
    BY Numbers
  <2> QED BY <2>1, Numbers, MoveAside
<1>2. Capacity - Len(q') \in Int /\ Capacity - Len(q') <= 0
  BY Numbers, PairQueueAssumption DEF HasSpace
<1>3. Covered(pc', Capacity - Len(q'), OnNotFull, SpaceWaker)
  BY <1>2, NothingToCover
<1> QED BY <1>1, <1>3 DEF WakeInvNext

\* A sender finds the queue closed, and gives up: no other is parked.
LEMMA ClosedCovers ==
  ASSUME QueueOK, WakeInv, NEW t \in Callers, closed,
         pc[t] \notin MessageWaker, GiveUpSend(t, "idle")
  PROVE  WakeInvNext
<1> USE DEF QueueOK, CallersOK, WakeInv, MessageCovered, SpaceCovered
<1>1. pc' = [pc EXCEPT ![t] = "idle"] /\ UNCHANGED <<q, closed>>
  BY DEF GiveUpSend, Goto
<1>2. "idle" \in PCs /\ "idle" \notin Waiting /\ "idle" \notin OnNotFull
  BY DEF PCs, Waiting, OnNotFull
<1>3. \A u \in Callers : pc'[u] \notin OnNotFull
  BY <1>1, <1>2 DEF SendersReleased
<1>4. Covered(pc', Len(q'), Waiting, MessageWaker)
  <2>1. Len(q) <= Len(q)
    BY Numbers
  <2> QED BY <1>1, <1>2, <2>1, Numbers, MoveAside
<1> QED BY <1>3, <1>4 DEF WakeInvNext, Covered

-----------------------------------------------------------------------------
(* The actions.                                                            *)

\* All the places a caller may be, and what each of them is.
LEMMA Places ==
  /\ {"idle", "suspended", "notify_not_empty", "notify_not_empty_co", "notify_not_full",
      "send_woken", "send_expired", "recv_woken", "recv_expired", "co_recv_woken",
      "co_recv_suspend", "co_recv_resume", "co_send_suspend", "co_send_resume",
      "blocking_gap", "blocking_parked", "blocking_woken"}
       \subseteq PCs \ (Waiting \cup OnNotFull)
  /\ Waiting \subseteq PCs \ OnNotFull
  /\ OnNotFull \subseteq PCs \ Waiting
BY DEF PCs, Waiting, OnNotFull

LEMMA SendCovers ==
  ASSUME QueueOK, WakeInv, NEW t \in Callers,
         \/ \E m \in Message : SendNowait(t, m) \/ TrySendFor(t, m) \/ CoSendReady(t, m)
         \/ TrySendForResumed(t) \/ CoSendResume(t) \/ CoSendSuspend(t)
  PROVE  WakeInvNext
<1>0. pc[t] \notin MessageWaker
  BY DEF SendNowait, TrySendFor, CoSendReady, TrySendForResumed, CoSendResume, CoSendSuspend,
         MessageWaker
<1>1. ASSUME NEW m \in Message, SendNowait(t, m) PROVE WakeInvNext
  BY <1>0, <1>1, PushCovers DEF SendNowait
<1>2. ASSUME NEW m \in Message, TrySendFor(t, m) PROVE WakeInvNext
  <2>1. CASE HasSpace
    BY <1>0, <1>2, <2>1, PushCovers DEF TrySendFor
  <2>2. CASE ~HasSpace
    <3>1. ~closed /\ pc' = [pc EXCEPT ![t] = "send_parked"] /\ UNCHANGED <<q, closed>>
      BY <1>2, <2>2 DEF TrySendFor, Hold, Goto
    <3>2. "send_parked" \in PCs \ Waiting
      BY DEF PCs, Waiting
    <3> QED BY <1>0, <2>2, <3>1, <3>2, FullCovers
  <2> QED BY <2>1, <2>2
<1>3. ASSUME NEW m \in Message, CoSendReady(t, m) PROVE WakeInvNext
  <2>1. PICK next \in {"co_send_resume", "co_send_suspend"} :
          pc' = [pc EXCEPT ![t] = next] /\ UNCHANGED <<q, closed>>
    BY <1>3 DEF CoSendReady, Hold, Goto
  <2>2. next \in PCs \ (Waiting \cup OnNotFull)
    BY Places
  <2>3. pc[t] \notin SpaceWaker
    BY <1>3 DEF CoSendReady, SpaceWaker
  <2> QED BY <1>0, <2>1, <2>2, <2>3, AsideCovers
<1>4. CASE TrySendForResumed(t)
  <2>0. msg[t] \in Message
    BY <1>4 DEF TrySendForResumed, QueueOK, CallersOK, Holding
  <2>1. CASE closed
    BY <1>0, <1>4, <2>1, ClosedCovers DEF TrySendForResumed
  <2>2. CASE ~closed /\ HasSpace
    BY <1>0, <1>4, <2>0, <2>2, PushCovers DEF TrySendForResumed
  <2>3. CASE ~closed /\ ~HasSpace
    <3>1. PICK next \in {"idle", "send_parked"} :
            pc' = [pc EXCEPT ![t] = next] /\ UNCHANGED <<q, closed>>
      BY <1>4, <2>3 DEF TrySendForResumed, GiveUpSend, Hold, Goto
    <3>2. next \in PCs \ Waiting
      BY DEF PCs, Waiting
    <3> QED BY <1>0, <2>3, <3>1, <3>2, FullCovers
  <2> QED BY <2>1, <2>2, <2>3
<1>5. CASE CoSendResume(t) \/ CoSendSuspend(t)
  <2>0. msg[t] \in Message
    BY <1>5 DEF CoSendResume, CoSendSuspend, QueueOK, CallersOK, Holding
  <2>1. CASE ~closed /\ HasSpace
    BY <1>0, <1>5, <2>0, <2>1, PushCovers DEF CoSendResume, CoSendSuspend
  <2>2. CASE ~(~closed /\ HasSpace)
    <3>1. PICK next \in {"idle", "suspended"} :
            pc' = [pc EXCEPT ![t] = next] /\ UNCHANGED <<q, closed>>
      BY <1>5, <2>2 DEF CoSendResume, CoSendSuspend, GiveUpSend, Goto
    <3>2. next \in PCs \ (Waiting \cup OnNotFull)
      BY Places
    <3>3. pc[t] \notin SpaceWaker
      BY <1>5 DEF CoSendResume, CoSendSuspend, SpaceWaker
    <3> QED BY <1>0, <3>1, <3>2, <3>3, AsideCovers
  <2> QED BY <2>1, <2>2
<1> QED BY <1>1, <1>2, <1>3, <1>4, <1>5

LEMMA ReceiveCovers ==
  ASSUME QueueOK, WakeInv, NEW t \in Callers,
         \/ TryRecv(t) \/ TryRecvFor(t) \/ TryRecvForResumed(t) \/ BlockingPoll(t)
         \/ CoRecvSuspend(t)
  PROVE  WakeInvNext
<1>0. pc[t] \notin SpaceWaker /\ pc[t] \notin OnNotFull
  BY DEF TryRecv, TryRecvFor, TryRecvForResumed, BlockingPoll, CoRecvSuspend, SpaceWaker, OnNotFull
<1>1. pc \in [Callers -> PCs]
  BY DEF QueueOK, CallersOK
<1>2. ASSUME NEW next \in {"idle", "suspended"},
             PopTo(t, NotifyOne([pc EXCEPT ![t] = next], OnNotFull))
      PROVE  WakeInvNext
  <2> DEFINE f == [pc EXCEPT ![t] = next]
  <2>1. next \in PCs /\ next \notin Waiting /\ next \notin OnNotFull
    BY Places
  <2>2. /\ Len(q) - 1 \in Int /\ Len(q) - 1 <= Len(q) - 1
        /\ Capacity - Len(q) <= Capacity - Len(q)
    BY Numbers
  <2>3. MessageCovered(f, Len(q) - 1)
    BY <1>1, <2>1, <2>2, Numbers, MoveOut DEF WakeInv, MessageCovered
  <2>4. SpaceCovered(f, Capacity - Len(q))
    BY <1>0, <1>1, <2>1, <2>2, Numbers, MoveAside DEF WakeInv, SpaceCovered
  <2>5. f \in [Callers -> PCs] /\ \A u \in Callers : f[u] \in OnNotFull => pc[u] \in OnNotFull
    BY <1>1, <2>1
  <2> QED BY <1>2, <2>3, <2>4, <2>5, PopCovers
<1>3. CASE TryRecv(t)
  <2>1. pc = [pc EXCEPT ![t] = "idle"] /\ PopTo(t, NotifyOne(pc, OnNotFull))
    BY <1>1, <1>3 DEF TryRecv
  <2> QED BY <1>2, <2>1
<1>4. CASE TryRecvFor(t) \/ TryRecvForResumed(t)
  <2>1. CASE PopTo(t, {[pc EXCEPT ![t] = "notify_not_full"]})
    BY <1>0, <2>1, TimedPopCovers
  <2>2. CASE ~PopTo(t, {[pc EXCEPT ![t] = "notify_not_full"]})
    <3>1. PICK next \in {"idle", "recv_parked"} : q = <<>> /\ Leave(t, next)
      BY <1>4, <2>2 DEF TryRecvFor, TryRecvForResumed
    <3>2. next \in PCs \ OnNotFull
      BY Places DEF Waiting
    <3> QED BY <1>0, <3>1, <3>2, EmptyCovers
  <2> QED BY <2>1, <2>2
<1>5. CASE BlockingPoll(t)
  <2>1. CASE PopTo(t, NotifyOne([pc EXCEPT ![t] = "idle"], OnNotFull))
    BY <1>2, <2>1
  <2>2. CASE q = <<>> /\ Leave(t, "blocking_gap")
    BY <1>0, <2>2, Places, EmptyCovers
  <2> QED BY <1>5, <2>1, <2>2 DEF BlockingPoll
<1>6. CASE CoRecvSuspend(t)
  <2>1. CASE PopTo(t, NotifyOne([pc EXCEPT ![t] = "suspended"], OnNotFull))
    BY <1>2, <2>1
  <2>2. CASE ~PopTo(t, NotifyOne([pc EXCEPT ![t] = "suspended"], OnNotFull))
    <3>1. PICK next \in {"suspended", "co_recv_parked"} : q = <<>> /\ Leave(t, next)
      BY <1>6, <2>2 DEF CoRecvSuspend
    <3>2. next \in PCs \ OnNotFull
      BY Places DEF Waiting
    <3> QED BY <1>0, <3>1, <3>2, EmptyCovers
  <2> QED BY <2>1, <2>2
<1> QED BY <1>3, <1>4, <1>5, <1>6

LEMMA NotifyCovers ==
  ASSUME QueueOK, WakeInv, NEW t \in Callers, NotifyNotEmpty(t) \/ NotifyNotFull(t)
  PROVE  WakeInvNext
<1>0. UNCHANGED <<q, closed>> /\ pc \in [Callers -> PCs]
  BY DEF NotifyNotEmpty, NotifyNotFull, QueueOK, CallersOK
<1>1. /\ Len(q) - 1 \in Int /\ Len(q) - 1 <= Len(q) - 1
      /\ (Capacity - Len(q)) - 1 \in Int
      /\ (Capacity - Len(q)) - 1 <= (Capacity - Len(q)) - 1
      /\ Len(q) <= Len(q) /\ Capacity - Len(q) <= Capacity - Len(q)
  BY Numbers
<1>2. CASE NotifyNotEmpty(t)
  <2>1. PICK next \in {"idle", "suspended"} :
          pc' \in NotifyOne([pc EXCEPT ![t] = next], OnNotEmpty)
    BY <1>2 DEF NotifyNotEmpty
  <2> DEFINE f == [pc EXCEPT ![t] = next]
  <2>2. next \in PCs /\ next \notin Waiting /\ next \notin OnNotFull
    BY Places
  <2>3. pc[t] \notin SpaceWaker
    BY <1>2 DEF NotifyNotEmpty, SpaceWaker
  <2>4. MessageCovered(f, Len(q) - 1)
    BY <1>0, <1>1, <2>2, Numbers, MoveOut DEF WakeInv, MessageCovered
  <2>5. SpaceCovered(f, Capacity - Len(q))
    BY <1>0, <1>1, <2>2, <2>3, Numbers, MoveAside DEF WakeInv, SpaceCovered
  <2>6. f \in [Callers -> PCs]
    BY <1>0, <2>2
  <2>7. MessageCovered(pc', Len(q)) /\ SpaceCovered(pc', Capacity - Len(q))
    BY <2>1, <2>4, <2>5, <2>6, Numbers, NotifyReceiver
  <2>8. ASSUME closed PROVE \A u \in Callers : pc'[u] \notin OnNotFull
    <3>1. \A u \in Callers : f[u] \notin OnNotFull
      BY <1>0, <2>2, <2>8 DEF WakeInv, SendersReleased
    <3> QED BY <2>1, <2>6, <3>1, NotifyReleases
  <2> QED BY <1>0, <2>7, <2>8 DEF WakeInvNext
<1>3. CASE NotifyNotFull(t)
  <2>1. pc' \in NotifyOne([pc EXCEPT ![t] = "idle"], OnNotFull)
    BY <1>3 DEF NotifyNotFull
  <2> DEFINE f == [pc EXCEPT ![t] = "idle"]
  <2>2. "idle" \in PCs /\ "idle" \notin Waiting /\ "idle" \notin OnNotFull
    BY Places
  <2>3. pc[t] \notin MessageWaker
    BY <1>3 DEF NotifyNotFull, MessageWaker
  <2>4. MessageCovered(f, Len(q))
    BY <1>0, <1>1, <2>2, <2>3, Numbers, MoveAside DEF WakeInv, MessageCovered
  <2>5. SpaceCovered(f, (Capacity - Len(q)) - 1)
    BY <1>0, <1>1, <2>2, Numbers, MoveOut DEF WakeInv, SpaceCovered
  <2>6. f \in [Callers -> PCs]
    BY <1>0, <2>2
  <2>7. MessageCovered(pc', Len(q)) /\ SpaceCovered(pc', Capacity - Len(q))
    BY <2>1, <2>4, <2>5, <2>6, Numbers, NotifySender
  <2>8. ASSUME closed PROVE \A u \in Callers : pc'[u] \notin OnNotFull
    <3>1. \A u \in Callers : f[u] \notin OnNotFull
      BY <1>0, <2>2, <2>8 DEF WakeInv, SendersReleased
    <3> QED BY <2>1, <2>6, <3>1, NotifyReleases
  <2> QED BY <1>0, <2>7, <2>8 DEF WakeInvNext
<1> QED BY <1>2, <1>3

LEMMA MoveCovers ==
  ASSUME QueueOK, WakeInv, NEW t \in Callers,
         \/ BlockingPark(t) \/ CoRecvReady(t) \/ CoRecvResume(t)
         \/ SpuriousWake(t) \/ Expire(t)
  PROVE  WakeInvNext
<1>1. PICK next \in PCs \ (Waiting \cup OnNotFull) :
        pc' = [pc EXCEPT ![t] = next] /\ UNCHANGED <<q, closed>>
  <2>1. CASE BlockingPark(t) \/ CoRecvReady(t) \/ CoRecvResume(t)
    BY <2>1, Places DEF BlockingPark, CoRecvReady, CoRecvResume, Leave, Goto
  <2>2. CASE SpuriousWake(t) \/ Expire(t)
    BY <2>2, Places DEF SpuriousWake, Expire, Goto, WokenOf, ExpiredOf, OnNotEmpty, OnNotFull
  <2> QED BY <2>1, <2>2
<1>2. pc[t] \notin MessageWaker /\ pc[t] \notin SpaceWaker
  BY DEF BlockingPark, CoRecvReady, CoRecvResume, SpuriousWake, Expire,
         OnNotEmpty, OnNotFull, MessageWaker, SpaceWaker
<1> QED BY <1>1, <1>2, AsideCovers

LEMMA CloseCovers ==
  ASSUME QueueOK, Close
  PROVE  WakeInvNext
<1>1. pc' = NotifyAll(pc)
  BY DEF Close
<1>2. \A t \in Callers : pc'[t] \notin OnNotFull /\ pc'[t] \notin Waiting
  BY <1>1 DEF NotifyAll, WokenOf, OnNotEmpty, OnNotFull, Waiting
<1> QED BY <1>2 DEF WakeInvNext, MessageCovered, SpaceCovered, Covered

LEMMA NextWakeInv == IInv /\ WakeInv /\ [Next]_vars => WakeInv'
<1> SUFFICES ASSUME IInv, WakeInv, [Next]_vars PROVE WakeInv'
  OBVIOUS
<1>0. QueueOK
  BY DEF IInv, TypeOK, QueueOK, CallersOK
<1>1. WakeInvNext
  <2>1. CASE UNCHANGED vars
    BY <2>1 DEF vars, WakeInv, WakeInvNext, SendersReleased
  <2>2. CASE Close
    BY <1>0, <2>2, CloseCovers
  <2>3. ASSUME NEW t \in Callers, Call(t) \/ Run(t) \/ SpuriousWake(t) \/ Expire(t)
        PROVE  WakeInvNext
    BY <1>0, <2>3, SendCovers, ReceiveCovers, NotifyCovers, MoveCovers DEF Call, Run
  <2> QED BY <2>1, <2>2, <2>3 DEF Next
<1> QED BY <1>1 DEF WakeInvNext, WakeInv, SendersReleased, MessageCovered, SpaceCovered, Covered, In

LEMMA InitWakeInv == Init => WakeInv
<1> SUFFICES ASSUME Init PROVE WakeInv
  OBVIOUS
<1>1. \A t \in Callers : pc[t] \notin OnNotFull /\ pc[t] \notin Waiting
  BY DEF Init, OnNotFull, Waiting
<1> QED BY <1>1 DEF WakeInv, SendersReleased, MessageCovered, SpaceCovered, Covered

LEMMA WakeInvariance == Spec => []WakeInv
BY Invariance, InitWakeInv, NextWakeInv, PTL DEF Spec

-----------------------------------------------------------------------------
\* While a try_recv_for or a recv_awaiter is parked, every queued message has a
\* wake-up of its own under way.
THEOREM NoMessageIsLost == Spec => []NoLostMessage
<1>1. WakeInv => NoLostMessage
  BY DEF WakeInv, MessageCovered, Covered, In, Waiting, MessageWaker,
         NoLostMessage, MessageWakeups
<1> QED BY WakeInvariance, <1>1, PTL

\* While a try_send_for is parked, every free slot has a wake-up under way.
THEOREM NoSpaceIsLost == Spec => []NoLostSpace
<1>1. WakeInv => NoLostSpace
  BY DEF WakeInv, SpaceCovered, Covered, In, SpaceWaker, NoLostSpace, SpaceWakeups
<1> QED BY WakeInvariance, <1>1, PTL

\* No try_send_for is parked once the queue is closed, whether it was parked when
\* close() notified or was about to park.
THEOREM CloseFreesSenders == Spec => []SendersReleased
<1>1. WakeInv => SendersReleased
  BY DEF WakeInv
<1> QED BY WakeInvariance, <1>1, PTL
=============================================================================

---------------------------- MODULE Endpoint_proofs ----------------------------
(***************************************************************************)
(* Theorems about Endpoint for any threads and coroutines and any bound on *)
(* the sends.                                                              *)
(***************************************************************************)
EXTENDS Endpoint, FiniteSetTheorems, SequenceTheorems, TLAPS

-----------------------------------------------------------------------------
(* Who is parked, and who is about to be resumed.                          *)

PlacesOK ==
  /\ waiters \in Seq(Coroutines)
  /\ pc \in [Actors -> PCs]
  /\ child \in [Actors -> Coroutines \cup {Nobody}]

\* Only coroutines await.
AwaitersOK ==
  \A a \in Actors : pc[a] \in {"recv", "recv_missed", "parked", "handed"} => a \in Coroutines

\* The waiters are the parked coroutines, each registered once.
WaitersOK ==
  /\ \A c \in Coroutines : pc[c] = "parked" <=> \E i \in 1..Len(waiters) : waiters[i] = c
  /\ \A i, j \in 1..Len(waiters) : waiters[i] = waiters[j] => i = j

\* A coroutine that is about to be resumed has left the waiters, and has one resumer.
ResumersOK ==
  \A a \in Actors : pc[a] = "resume" =>
    /\ child[a] \in Coroutines
    /\ pc[child[a]] = "handed"
    /\ \A b \in Actors : pc[b] = "resume" /\ child[b] = child[a] => b = a

Parking == PlacesOK /\ AwaitersOK /\ WaitersOK /\ ResumersOK

\* Where an actor is neither registered nor about to be resumed or to resume.
Elsewhere == PCs \ {"parked", "handed", "resume"}

LEMMA GotoParks ==
  ASSUME Parking, NEW a \in Actors, pc[a] \in Elsewhere, NEW at \in Elsewhere,
         at \in {"recv", "recv_missed"} => a \in Coroutines,
         Goto(a, at), UNCHANGED <<waiters, child>>
  PROVE  Parking'
<1>0. /\ pc' \in [Actors -> PCs] /\ pc'[a] = at
      /\ \A b \in Actors : b # a => pc'[b] = pc[b]
  BY DEF Goto, Parking, PlacesOK, Elsewhere
<1>1. PlacesOK'
  BY <1>0 DEF Parking, PlacesOK
<1>2. AwaitersOK'
  BY <1>0 DEF Parking, AwaitersOK, Elsewhere
<1>3. WaitersOK'
  BY <1>0 DEF Parking, WaitersOK, Elsewhere, Actors
<1>4. ResumersOK'
  BY <1>0 DEF Parking, ResumersOK, Elsewhere, Actors
<1> QED BY <1>1, <1>2, <1>3, <1>4 DEF Parking

LEMMA YieldPcs ==
  ASSUME Parking, NEW c \in Coroutines, NEW at \in PCs, Yield(c, at)
  PROVE  /\ pc' \in [Actors -> PCs] /\ pc'[c] = at
         /\ child' \in [Actors -> Coroutines \cup {Nobody}]
         /\ \A b \in Actors : b # c /\ pc[b] # "driving" => pc'[b] = pc[b]
         /\ \A b \in Actors : b # c /\ pc[b] = "driving" => pc'[b] \in {"driving", "closing", "idle"}
         /\ \A b \in Actors : pc[b] = "resume" => child'[b] = child[b]
<1>1. /\ \A b \in Actors : pc'[b] \in PCs
      /\ \A b \in Actors : child'[b] \in Coroutines \cup {Nobody}
  BY DEF Yield, Parking, PlacesOK, PCs
<1>2. pc' = [b \in Actors |-> pc'[b]] /\ child' = [b \in Actors |-> child'[b]]
  BY DEF Yield
<1>3. pc' \in [Actors -> PCs] /\ child' \in [Actors -> Coroutines \cup {Nobody}]
  BY <1>1, <1>2
<1> QED BY <1>3 DEF Yield, Actors

LEMMA EndParks ==
  ASSUME Parking, NEW c \in Coroutines, End(c)
  PROVE  Parking'
<1>0. pc[c] = "idle" /\ waiters' = waiters /\ Yield(c, "ended") /\ "ended" \in PCs /\ c \in Actors
  BY DEF End, PCs, Actors
<1>1. PlacesOK'
  BY <1>0, YieldPcs DEF Parking, PlacesOK
<1>2. AwaitersOK'
  BY <1>0, YieldPcs DEF Parking, AwaitersOK
<1>3. WaitersOK'
  BY <1>0, YieldPcs DEF Parking, WaitersOK, Actors
<1>4. ResumersOK'
  BY <1>0, YieldPcs DEF Parking, ResumersOK, Actors
<1> QED BY <1>1, <1>2, <1>3, <1>4 DEF Parking

\* What Append and Tail do to the registrations.
LEMMA Registered ==
  ASSUME NEW w \in Seq(Coroutines),
         \A i, j \in 1..Len(w) : w[i] = w[j] => i = j,
         NEW d \in Coroutines
  PROVE  /\ (~ \E i \in 1..Len(w) : w[i] = d) =>
              /\ \A c \in Coroutines :
                   (\E i \in 1..Len(Append(w, d)) : Append(w, d)[i] = c)
                     <=> c = d \/ \E i \in 1..Len(w) : w[i] = c
              /\ \A i, j \in 1..Len(Append(w, d)) : Append(w, d)[i] = Append(w, d)[j] => i = j
         /\ w # <<>> =>
              /\ Head(w) \in Coroutines /\ \E i \in 1..Len(w) : w[i] = Head(w)
              /\ Tail(w) \in Seq(Coroutines)
              /\ \A c \in Coroutines :
                   (\E i \in 1..Len(Tail(w)) : Tail(w)[i] = c)
                     <=> c # Head(w) /\ \E i \in 1..Len(w) : w[i] = c
              /\ \A i, j \in 1..Len(Tail(w)) : Tail(w)[i] = Tail(w)[j] => i = j
<1>1. ASSUME ~ \E i \in 1..Len(w) : w[i] = d
      PROVE  /\ \A c \in Coroutines :
                  (\E i \in 1..Len(Append(w, d)) : Append(w, d)[i] = c)
                    <=> c = d \/ \E i \in 1..Len(w) : w[i] = c
             /\ \A i, j \in 1..Len(Append(w, d)) : Append(w, d)[i] = Append(w, d)[j] => i = j
  <2>1. /\ Len(w) \in Nat /\ Len(Append(w, d)) = Len(w) + 1
        /\ \A i \in 1..Len(w) : Append(w, d)[i] = w[i]
        /\ Append(w, d)[Len(w) + 1] = d
    BY AppendProperties
  <2> QED BY <1>1, <2>1
<1>2. ASSUME w # <<>>
      PROVE  /\ Head(w) \in Coroutines /\ \E i \in 1..Len(w) : w[i] = Head(w)
             /\ Tail(w) \in Seq(Coroutines)
             /\ \A c \in Coroutines :
                  (\E i \in 1..Len(Tail(w)) : Tail(w)[i] = c)
                    <=> c # Head(w) /\ \E i \in 1..Len(w) : w[i] = c
             /\ \A i, j \in 1..Len(Tail(w)) : Tail(w)[i] = Tail(w)[j] => i = j
  <2>1. /\ Len(w) \in Nat \ {0} /\ Head(w) = w[1] /\ Head(w) \in Coroutines
        /\ Tail(w) \in Seq(Coroutines) /\ Len(Tail(w)) = Len(w) - 1
        /\ \A i \in 1..(Len(w) - 1) : Tail(w)[i] = w[i + 1]
    BY <1>2, EmptySeq, HeadTailProperties
  <2>2. \A c \in Coroutines :
          (\E i \in 1..Len(Tail(w)) : Tail(w)[i] = c) =>
            c # Head(w) /\ \E i \in 1..Len(w) : w[i] = c
    BY <2>1
  <2>3. ASSUME NEW c \in Coroutines, c # Head(w), NEW i \in 1..Len(w), w[i] = c
        PROVE  \E j \in 1..Len(Tail(w)) : Tail(w)[j] = c
    <3>1. i - 1 \in 1..(Len(w) - 1) /\ Tail(w)[i - 1] = w[i]
      BY <2>1, <2>3
    <3> QED BY <2>1, <2>3, <3>1
  <2> QED BY <2>1, <2>2, <2>3
<1> QED BY <1>1, <1>2

LEMMA SuspendParks ==
  ASSUME Parking, NEW c \in Coroutines, pc[c] = "recv_missed",
         waiters' = Append(waiters, c), Yield(c, "parked")
  PROVE  Parking'
<1>0. c \in Actors /\ "parked" \in PCs
  BY DEF Actors, PCs
<1>1. ~ \E i \in 1..Len(waiters) : waiters[i] = c
  BY DEF Parking, WaitersOK
<1>2. PlacesOK'
  BY <1>0, YieldPcs DEF Parking, PlacesOK
<1>3. AwaitersOK'
  BY <1>0, YieldPcs DEF Parking, AwaitersOK
<1>4. WaitersOK'
  <2>1. /\ \A d \in Coroutines :
             (\E i \in 1..Len(waiters') : waiters'[i] = d)
               <=> d = c \/ \E i \in 1..Len(waiters) : waiters[i] = d
        /\ \A i, j \in 1..Len(waiters') : waiters'[i] = waiters'[j] => i = j
    BY <1>1, Registered DEF Parking, PlacesOK, WaitersOK
  <2>2. \A d \in Coroutines : pc'[d] = "parked" <=> d = c \/ pc[d] = "parked"
    BY <1>0, YieldPcs DEF Actors
  <2>3. \A d \in Coroutines : pc[d] = "parked" <=> \E i \in 1..Len(waiters) : waiters[i] = d
    BY DEF Parking, WaitersOK
  <2> QED BY <2>1, <2>2, <2>3 DEF WaitersOK
<1>5. ResumersOK'
  BY <1>0, YieldPcs DEF Parking, ResumersOK, Actors
<1> QED BY <1>2, <1>3, <1>4, <1>5 DEF Parking

\* The head of the waiters, which a call takes off, is parked; the caller is not.
LEMMA HeadIsParked ==
  ASSUME Parking, waiters # <<>>
  PROVE  /\ Head(waiters) \in Coroutines /\ Head(waiters) \in Actors
         /\ pc[Head(waiters)] = "parked"
         /\ Tail(waiters) \in Seq(Coroutines)
         /\ \A c \in Coroutines :
              (\E i \in 1..Len(Tail(waiters)) : Tail(waiters)[i] = c)
                <=> c # Head(waiters) /\ pc[c] = "parked"
         /\ \A i, j \in 1..Len(Tail(waiters)) : Tail(waiters)[i] = Tail(waiters)[j] => i = j
<1>1. /\ waiters \in Seq(Coroutines)
      /\ \A i, j \in 1..Len(waiters) : waiters[i] = waiters[j] => i = j
      /\ \A c \in Coroutines : pc[c] = "parked" <=> \E i \in 1..Len(waiters) : waiters[i] = c
  BY DEF Parking, PlacesOK, WaitersOK
<1>2. Head(waiters) \in Coroutines
  BY <1>1, HeadTailProperties
<1> QED BY <1>1, <1>2, Registered DEF Actors

LEMMA SendToWaiterParks ==
  ASSUME Parking, NEW a \in Actors, SendToWaiter(a)
  PROVE  Parking'
<1> DEFINE c == Head(waiters)
<1>0. /\ c \in Coroutines /\ c \in Actors /\ pc[c] = "parked" /\ pc[a] = "send" /\ a # c
      /\ waiters # <<>> /\ waiters' = Tail(waiters)
      /\ pc \in [Actors -> PCs]
  BY HeadIsParked DEF SendToWaiter, Locks, Parking, PlacesOK
<1>1. /\ pc'[a] = "resume" /\ pc'[c] = "handed"
      /\ \A b \in Actors \ {a, c} : pc'[b] = pc[b]
      /\ child'[a] = c
      /\ \A b \in Actors \ {a} : child'[b] = child[b]
  BY <1>0 DEF SendToWaiter, Parking, PlacesOK
<1>2. PlacesOK'
  BY <1>0, HeadIsParked DEF SendToWaiter, Parking, PlacesOK, PCs
<1> HIDE DEF c
<1>3. AwaitersOK'
  BY <1>0, <1>1 DEF Parking, AwaitersOK
<1>4. WaitersOK'
  <2>1. /\ \A d \in Coroutines : (\E i \in 1..Len(waiters') : waiters'[i] = d) <=> d # c /\ pc[d] = "parked"
        /\ \A i, j \in 1..Len(waiters') : waiters'[i] = waiters'[j] => i = j
    BY <1>0, HeadIsParked DEF c
  <2>2. \A d \in Coroutines : pc'[d] = "parked" <=> d # c /\ pc[d] = "parked"
    BY <1>0, <1>1 DEF Actors
  <2> QED BY <2>1, <2>2 DEF WaitersOK
<1>5. ResumersOK'
  <2>1. \A b \in Actors \ {a} : pc'[b] = "resume" => pc[b] = "resume" /\ child'[b] = child[b] /\ child[b] # c
    BY <1>0, <1>1 DEF Parking, ResumersOK
  <2>2. \A b \in Actors : pc[b] = "resume" => pc'[child[b]] = "handed" /\ child[b] \in Coroutines
    BY <1>0, <1>1 DEF Parking, ResumersOK, Actors
  <2>3. \A b, d \in Actors : pc[b] = "resume" /\ pc[d] = "resume" /\ child[b] = child[d] => b = d
    BY DEF Parking, ResumersOK
  <2> QED BY <1>0, <1>1, <2>1, <2>2, <2>3 DEF ResumersOK
<1> QED BY <1>2, <1>3, <1>4, <1>5 DEF Parking

LEMMA ResumeParks ==
  ASSUME Parking, NEW a \in Actors, Resume(a)
  PROVE  Parking'
<1> DEFINE c == child[a]
<1>0. /\ c \in Coroutines /\ c \in Actors /\ pc[c] = "handed" /\ pc[a] = "resume" /\ a # c
      /\ waiters' = waiters /\ child' = child
      /\ \A b \in Actors : pc[b] = "resume" /\ child[b] = c => b = a
  BY DEF Resume, Parking, ResumersOK, Actors
<1>1. /\ pc'[a] = "driving" /\ pc'[c] = "idle"
      /\ \A b \in Actors \ {a, c} : pc'[b] = pc[b]
      /\ pc' \in [Actors -> PCs]
  BY <1>0 DEF Resume, Parking, PlacesOK, PCs
<1> HIDE DEF c
<1>2. PlacesOK'
  BY <1>0, <1>1 DEF Parking, PlacesOK
<1>3. AwaitersOK'
  BY <1>0, <1>1 DEF Parking, AwaitersOK
<1>4. WaitersOK'
  BY <1>0, <1>1 DEF Parking, WaitersOK, Actors
<1>5. ResumersOK'
  <2>1. \A b \in Actors : pc'[b] = "resume" => pc[b] = "resume" /\ child[b] # c
    BY <1>0, <1>1
  <2>2. \A b \in Actors : pc[b] = "resume" /\ child[b] # c
          => child[b] \in Coroutines /\ pc'[child[b]] = "handed"
    BY <1>0, <1>1 DEF Parking, ResumersOK, Actors
  <2> QED BY <1>0, <2>1, <2>2 DEF ResumersOK, Parking
<1> QED BY <1>2, <1>3, <1>4, <1>5 DEF Parking

LEMMA CloseResumeParks ==
  ASSUME Parking, NEW a \in Actors, CloseResume(a)
  PROVE  Parking'
<1> DEFINE c == Head(waiters)
<1>0. /\ c \in Coroutines /\ c \in Actors /\ pc[c] = "parked" /\ pc[a] = "closing" /\ a # c
      /\ waiters # <<>> /\ waiters' = Tail(waiters)
  BY HeadIsParked DEF CloseResume
<1>1. /\ pc'[a] = "driving" /\ pc'[c] = "idle"
      /\ \A b \in Actors \ {a, c} : pc'[b] = pc[b]
      /\ \A b \in Actors \ {a} : child'[b] = child[b]
  BY <1>0 DEF CloseResume, Parking, PlacesOK
<1>2. PlacesOK'
  BY <1>0, HeadIsParked DEF CloseResume, Parking, PlacesOK, PCs
<1> HIDE DEF c
<1>3. AwaitersOK'
  BY <1>0, <1>1 DEF Parking, AwaitersOK
<1>4. WaitersOK'
  <2>1. /\ \A d \in Coroutines : (\E i \in 1..Len(waiters') : waiters'[i] = d) <=> d # c /\ pc[d] = "parked"
        /\ \A i, j \in 1..Len(waiters') : waiters'[i] = waiters'[j] => i = j
    BY <1>0, HeadIsParked DEF c
  <2>2. \A d \in Coroutines : pc'[d] = "parked" <=> d # c /\ pc[d] = "parked"
    BY <1>0, <1>1 DEF Actors
  <2> QED BY <2>1, <2>2 DEF WaitersOK
<1>5. ResumersOK'
  <2>1. \A b \in Actors : pc'[b] = "resume" => pc[b] = "resume" /\ child'[b] = child[b]
    BY <1>0, <1>1
  <2>2. \A b \in Actors : pc[b] = "resume"
          => child[b] \in Coroutines /\ pc'[child[b]] = "handed"
    BY <1>0, <1>1 DEF Parking, ResumersOK, Actors
  <2> QED BY <2>1, <2>2 DEF ResumersOK, Parking
<1> QED BY <1>2, <1>3, <1>4, <1>5 DEF Parking

LEMMA ParkingKept == Parking /\ [Next]_vars => Parking'
<1> SUFFICES ASSUME Parking, [Next]_vars PROVE Parking'
  OBVIOUS
<1>0. {"idle", "send", "try_recv", "close", "recv", "recv_missed", "blocking",
       "blocking_open", "closing"} \subseteq Elsewhere
  BY DEF Elsewhere, PCs
<1>1. CASE UNCHANGED vars
  BY <1>1 DEF vars, Parking, PlacesOK, AwaitersOK, WaitersOK, ResumersOK
<1>2. ASSUME NEW a \in Actors, Call(a) PROVE Parking'
  BY <1>0, <1>2, GotoParks DEF Call
<1>3. ASSUME NEW a \in Actors, End(a) PROVE Parking'
  BY <1>3, EndParks DEF End
<1>4. ASSUME NEW a \in Actors, Run(a) PROVE Parking'
  <2>1. CASE SendToWaiter(a)  BY <2>1, SendToWaiterParks
  <2>2. CASE Resume(a)  BY <2>2, ResumeParks
  <2>3. CASE CloseResume(a)  BY <2>3, CloseResumeParks
  <2>4. CASE SendToQueue(a) \/ SendDropped(a)
    BY <1>0, <2>4, GotoParks DEF SendToQueue, SendDropped, Locks
  <2>5. CASE TryRecv(a) \/ BlockingReadClosed(a) \/ BlockingPoll(a)
    BY <1>0, <2>5, GotoParks DEF TryRecv, BlockingReadClosed, BlockingPoll, Locks, Take, Leave
  <2>6. CASE RecvReady(a)
    <3>1. a \in Coroutines
      BY <2>6 DEF RecvReady, Locks, Parking, AwaitersOK
    <3> QED BY <1>0, <2>6, <3>1, GotoParks DEF RecvReady, Locks, Take, Leave
  <2>7. CASE RecvSuspend(a)
    <3>1. a \in Coroutines /\ pc[a] = "recv_missed"
      BY <2>7 DEF RecvSuspend, Locks, Parking, AwaitersOK
    <3>2. CASE Goto(a, "idle") /\ UNCHANGED <<waiters, child>>
      BY <1>0, <3>1, <3>2, GotoParks
    <3>3. CASE waiters' = Append(waiters, a) /\ Yield(a, "parked")
      BY <3>1, <3>3, SuspendParks
    <3> QED BY <2>7, <3>2, <3>3 DEF RecvSuspend, Take
  <2>8. CASE CloseBegin(a) \/ CloseEnd(a)
    BY <1>0, <2>8, GotoParks DEF CloseBegin, CloseEnd, Locks
  <2> QED BY <1>4, <2>1, <2>2, <2>3, <2>4, <2>5, <2>6, <2>7, <2>8 DEF Run
<1> QED BY <1>1, <1>2, <1>3, <1>4 DEF Next

-----------------------------------------------------------------------------
(* The bound on the sends.                                                 *)

Senders == {a \in Actors : pc[a] = "send"}

\* Every send that has begun is still within the bound when it is accepted.
Budget == last \in Nat /\ IsFiniteSet(Senders) /\ last + Cardinality(Senders) <= MaxSends

LEMMA BudgetSteps ==
  ASSUME Budget, NEW a \in Actors,
         \/ Senders' = Senders /\ last' = last
         \/ Senders' = Senders \cup {a} /\ last' = last /\ SendsBegun < MaxSends
         \/ a \in Senders /\ Senders' = Senders \ {a} /\ last' \in {last, last + 1}
  PROVE  Budget'
<1>1. Cardinality(Senders) \in Nat
  BY FS_CardinalityType DEF Budget
<1>2. CASE Senders' = Senders /\ last' = last
  BY <1>2 DEF Budget
<1>3. CASE Senders' = Senders \cup {a} /\ last' = last /\ SendsBegun < MaxSends
  <2>1. IsFiniteSet(Senders') /\ Cardinality(Senders') \in {Cardinality(Senders), Cardinality(Senders) + 1}
    BY <1>3, FS_AddElement DEF Budget
  <2> QED BY <1>1, <1>3, <2>1, EndpointAssumption DEF Budget, SendsBegun, Senders
<1>4. CASE a \in Senders /\ Senders' = Senders \ {a} /\ last' \in {last, last + 1}
  <2>1. IsFiniteSet(Senders') /\ Cardinality(Senders') = Cardinality(Senders) - 1
    BY <1>4, FS_RemoveElement DEF Budget
  <2> QED BY <1>1, <1>4, <2>1, EndpointAssumption DEF Budget
<1> QED BY <1>2, <1>3, <1>4

\* An actor that goes from one place to another, neither of which is a send.
LEMMA GotoSends ==
  ASSUME Parking, NEW a \in Actors, pc[a] # "send", NEW at, at # "send", Goto(a, at)
  PROVE  Senders' = Senders
BY DEF Parking, PlacesOK, Goto, Senders

LEMMA BudgetKept == Parking /\ Budget /\ [Next]_vars => Budget'
<1> SUFFICES ASSUME Parking, Budget, [Next]_vars PROVE Budget'
  OBVIOUS
<1>1. CASE UNCHANGED vars
  BY <1>1 DEF vars, Budget, Senders
<1>2. ASSUME NEW a \in Actors, Call(a) PROVE Budget'
  <2>1. PICK op \in {"send", "try_recv", "close", "recv", "blocking"} :
          pc[a] = "idle" /\ Goto(a, op) /\ last' = last /\ (op = "send" => SendsBegun < MaxSends)
    BY <1>2 DEF Call
  <2>2. CASE op = "send"
    <3>1. Senders' = Senders \cup {a}
      BY <2>1, <2>2 DEF Parking, PlacesOK, Goto, Senders
    <3> QED BY <2>1, <2>2, <3>1, BudgetSteps
  <2>3. CASE op # "send"
    BY <2>1, <2>3, GotoSends, BudgetSteps
  <2> QED BY <2>2, <2>3
<1>3. ASSUME NEW a \in Actors, End(a) PROVE Budget'
  <2>1. a \in Coroutines /\ "ended" \in PCs /\ Yield(a, "ended") /\ pc[a] = "idle" /\ last' = last
    BY <1>3 DEF End, PCs
  <2>2. Senders' = Senders
    BY <2>1, YieldPcs DEF Senders, Actors
  <2> QED BY <2>1, <2>2, BudgetSteps
<1>4. ASSUME NEW a \in Actors, Run(a) PROVE Budget'
  <2>1. CASE SendToWaiter(a) \/ SendToQueue(a) \/ SendDropped(a)
    <3>1. a \in Senders /\ last' \in {last, last + 1}
      BY <2>1 DEF SendToWaiter, SendToQueue, SendDropped, Locks, Senders
    <3>2. CASE SendToWaiter(a)
      <4>1. waiters # <<>> /\ pc[a] = "send"
            /\ pc' = [pc EXCEPT ![a] = "resume", ![Head(waiters)] = "handed"]
        BY <3>2 DEF SendToWaiter, Locks
      <4>2. Senders' = Senders \ {a}
        BY <4>1, HeadIsParked DEF Parking, PlacesOK, Senders
      <4> QED BY <3>1, <4>2, BudgetSteps
    <3>3. CASE SendToQueue(a) \/ SendDropped(a)
      <4>1. Senders' = Senders \ {a}
        BY <3>1, <3>3 DEF SendToQueue, SendDropped, Goto, Senders, Parking, PlacesOK
      <4> QED BY <3>1, <4>1, BudgetSteps
    <3> QED BY <2>1, <3>2, <3>3
  <2>2. CASE Resume(a)
    <3>1. /\ pc[a] = "resume" /\ pc[child[a]] = "handed" /\ last' = last
          /\ pc' = [pc EXCEPT ![a] = "driving", ![child[a]] = "idle"]
      BY <2>2 DEF Resume, Parking, ResumersOK
    <3>2. Senders' = Senders
      BY <3>1 DEF Senders, Parking, PlacesOK
    <3> QED BY <3>1, <3>2, BudgetSteps
  <2>3. CASE CloseResume(a)
    <3>1. /\ pc[a] = "closing" /\ waiters # <<>> /\ last' = last
          /\ pc' = [pc EXCEPT ![a] = "driving", ![Head(waiters)] = "idle"]
      BY <2>3 DEF CloseResume
    <3>2. Senders' = Senders
      BY <3>1, HeadIsParked DEF Senders, Parking, PlacesOK
    <3> QED BY <3>1, <3>2, BudgetSteps
  <2>4. CASE RecvSuspend(a)
    <3>1. a \in Coroutines /\ pc[a] = "recv_missed" /\ last' = last /\ "parked" \in PCs
      BY <2>4 DEF RecvSuspend, Locks, Parking, AwaitersOK, Take, PCs
    <3>2. CASE Goto(a, "idle")
      BY <3>1, <3>2, GotoSends, BudgetSteps
    <3>3. CASE Yield(a, "parked")
      <4>1. Senders' = Senders
        BY <3>1, <3>3, YieldPcs DEF Senders, Actors
      <4> QED BY <3>1, <4>1, BudgetSteps
    <3> QED BY <2>4, <3>2, <3>3 DEF RecvSuspend, Take
  <2>5. CASE TryRecv(a) \/ BlockingReadClosed(a) \/ BlockingPoll(a) \/ RecvReady(a)
             \/ CloseBegin(a) \/ CloseEnd(a)
    <3>1. last' = last /\ pc[a] # "send" /\ \E at : at # "send" /\ Goto(a, at)
      BY <2>5 DEF TryRecv, BlockingReadClosed, BlockingPoll, RecvReady, CloseBegin, CloseEnd,
                  Take, Leave, Locks
    <3> QED BY <3>1, GotoSends, BudgetSteps
  <2> QED BY <1>4, <2>1, <2>2, <2>3, <2>4, <2>5 DEF Run
<1> QED BY <1>1, <1>2, <1>3, <1>4 DEF Next

-----------------------------------------------------------------------------
(* What a step does to the messages.                                       *)

Enqueue ==
  /\ ~closed /\ waiters = <<>>
  /\ queue' = Append(queue, last + 1) /\ last' = last + 1
  /\ UNCHANGED <<waiters, closed, taken, holder>>

HandOver ==
  /\ waiters # <<>> /\ holder = Nobody
  /\ \E c \in Actors : taken' = Append(taken, <<c, last + 1>>)
  /\ last' = last + 1 /\ waiters' = Tail(waiters)
  /\ UNCHANGED <<queue, closed, holder>>

Dequeue ==
  /\ queue # <<>>
  /\ \E a \in Actors : taken' = Append(taken, <<a, Head(queue)>>)
  /\ queue' = Tail(queue)
  /\ UNCHANGED <<waiters, closed, last, holder>>

Park ==
  /\ queue = <<>> /\ ~closed
  /\ waiters' # <<>>
  /\ UNCHANGED <<queue, closed, taken, last, holder>>

Still ==
  /\ \/ waiters' = waiters
     \/ waiters # <<>> /\ waiters' = Tail(waiters) /\ holder' = holder
  /\ \/ UNCHANGED <<closed, holder>>
     \/ closed' = TRUE /\ holder' # Nobody
     \/ waiters' = <<>> /\ UNCHANGED closed
  /\ UNCHANGED <<queue, taken, last>>

LEMMA StepKinds ==
  ASSUME Parking, Next
  PROVE  Enqueue \/ HandOver \/ Dequeue \/ Park \/ Still
<1>1. ASSUME NEW a \in Actors, Call(a) \/ End(a) PROVE Still
  BY <1>1 DEF Call, End, Still
<1>2. ASSUME NEW a \in Actors, Run(a)
      PROVE  Enqueue \/ HandOver \/ Dequeue \/ Park \/ Still
  <2>1. CASE SendToWaiter(a)
    BY <2>1, HeadIsParked DEF SendToWaiter, HandOver, Locks
  <2>2. CASE SendToQueue(a)
    BY <2>2 DEF SendToQueue, Enqueue
  <2>3. CASE SendDropped(a) \/ Resume(a) \/ BlockingReadClosed(a)
    BY <2>3 DEF SendDropped, Resume, BlockingReadClosed, Leave, Still
  <2>4. CASE TryRecv(a) \/ BlockingPoll(a) \/ RecvReady(a)
    BY <2>4 DEF TryRecv, BlockingPoll, RecvReady, Take, Leave, Dequeue, Still
  <2>5. CASE RecvSuspend(a)
    <3>1. a \in Coroutines /\ waiters \in Seq(Coroutines)
      BY <2>5 DEF RecvSuspend, Locks, Parking, PlacesOK, AwaitersOK
    <3>2. Append(waiters, a) # <<>>
      BY <3>1, AppendProperties
    <3> QED BY <2>5, <3>2 DEF RecvSuspend, Take, Dequeue, Park, Still
  <2>6. CASE CloseBegin(a)
    <3>1. a # Nobody
      BY EndpointAssumption DEF Actors
    <3> QED BY <2>6, <3>1 DEF CloseBegin, Still
  <2>7. CASE CloseResume(a) \/ CloseEnd(a)
    BY <2>7 DEF CloseResume, CloseEnd, Still
  <2> QED BY <1>2, <2>1, <2>2, <2>3, <2>4, <2>5, <2>6, <2>7 DEF Run
<1> QED BY <1>1, <1>2 DEF Next

-----------------------------------------------------------------------------
(* The inductive invariant.                                                *)

\* The messages taken and those in the queue are the messages accepted, in order.
MessagesOK ==
  /\ queue \in Seq(Nat) /\ taken \in Seq(Actors \X Nat)
  /\ last \in Nat /\ Len(taken) + Len(queue) = last
  /\ \A i \in 1..Len(taken) : taken[i][2] = i
  /\ \A i \in 1..Len(queue) : queue[i] = Len(taken) + i

NobodyBeside == waiters # <<>> => queue = <<>>

IInv == Parking /\ Budget /\ MessagesOK /\ NobodyBeside /\ NobodyParkedOnClosed

LEMMA InitIInv == Init => IInv
<1> SUFFICES ASSUME Init PROVE IInv
  OBVIOUS
<1>0. /\ \A S : <<>> \in Seq(S)
      /\ Len(<<>>) = 0
      /\ \A a \in Actors : pc[a] = "idle"
  BY EmptySeq DEF Init
<1>1. Parking
  BY <1>0 DEF Init, Parking, PlacesOK, AwaitersOK, WaitersOK, ResumersOK, PCs, NoChild, Actors
<1>2. Budget
  <2>1. Senders = {}
    BY <1>0 DEF Senders
  <2> QED BY <2>1, FS_EmptySet, EndpointAssumption DEF Budget, Init
<1>3. MessagesOK /\ NobodyBeside /\ NobodyParkedOnClosed
  BY <1>0 DEF Init, MessagesOK, NobodyBeside, NobodyParkedOnClosed
<1> QED BY <1>1, <1>2, <1>3 DEF IInv

\* A message joins those taken, whether it comes from the queue or not.
LEMMA TakenGrows ==
  ASSUME MessagesOK, NEW a \in Actors
  PROVE  LET now == Append(taken, <<a, Len(taken) + 1>>)
         IN  /\ now \in Seq(Actors \X Nat) /\ Len(now) = Len(taken) + 1
             /\ \A i \in 1..Len(now) : now[i][2] = i
<1>1. <<a, Len(taken) + 1>> \in Actors \X Nat /\ Len(taken) \in Nat
  BY DEF MessagesOK
<1>2. LET now == Append(taken, <<a, Len(taken) + 1>>)
      IN  /\ now \in Seq(Actors \X Nat) /\ Len(now) = Len(taken) + 1
          /\ \A i \in 1..Len(taken) : now[i] = taken[i]
          /\ now[Len(taken) + 1] = <<a, Len(taken) + 1>>
  BY <1>1, AppendProperties DEF MessagesOK
<1> QED BY <1>1, <1>2 DEF MessagesOK

LEMMA EnqueueKeeps ==
  ASSUME MessagesOK, Enqueue
  PROVE  MessagesOK'
<1>1. /\ Len(queue) \in Nat /\ Len(taken) \in Nat /\ last + 1 \in Nat
      /\ last + 1 = Len(taken) + Len(queue) + 1
  BY DEF MessagesOK
<1>2. /\ queue' \in Seq(Nat) /\ Len(queue') = Len(queue) + 1
      /\ \A i \in 1..Len(queue) : queue'[i] = queue[i]
      /\ queue'[Len(queue) + 1] = last + 1
  BY <1>1, AppendProperties DEF MessagesOK, Enqueue
<1>3. \A i \in 1..Len(queue') : queue'[i] = Len(taken') + i
  <2>1. taken' = taken /\ \A i \in 1..Len(queue) : queue[i] = Len(taken) + i
    BY DEF MessagesOK, Enqueue
  <2>2. \A i \in 1..Len(queue') : i \in 1..Len(queue) \/ i = Len(queue) + 1
    BY <1>1, <1>2
  <2> QED BY <1>1, <1>2, <2>1, <2>2, SMTT(30)
<1> QED BY <1>1, <1>2, <1>3 DEF MessagesOK, Enqueue

LEMMA HandOverKeeps ==
  ASSUME MessagesOK, NobodyBeside, HandOver
  PROVE  MessagesOK' /\ last = Len(taken)
<1>1. queue = <<>> /\ last = Len(taken) /\ Len(taken) \in Nat
  BY DEF MessagesOK, NobodyBeside, HandOver
<1>2. PICK c \in Actors : taken' = Append(taken, <<c, Len(taken) + 1>>)
  BY <1>1 DEF HandOver
<1> QED BY <1>1, <1>2, TakenGrows DEF MessagesOK, HandOver

LEMMA DequeueKeeps ==
  ASSUME MessagesOK, Dequeue
  PROVE  MessagesOK' /\ Len(taken) < last /\ Head(queue) = Len(taken) + 1
<1>1. /\ Len(queue) \in Nat \ {0} /\ Len(taken) \in Nat
      /\ Head(queue) = Len(taken) + 1
      /\ Tail(queue) \in Seq(Nat) /\ Len(Tail(queue)) = Len(queue) - 1
      /\ \A i \in 1..(Len(queue) - 1) : Tail(queue)[i] = queue[i + 1]
  BY EmptySeq, HeadTailProperties DEF MessagesOK, Dequeue
<1>2. PICK a \in Actors : taken' = Append(taken, <<a, Len(taken) + 1>>)
  BY <1>1 DEF Dequeue
<1>3. \A i \in 1..Len(queue') : queue'[i] = Len(taken') + i
  BY <1>1, <1>2, TakenGrows DEF MessagesOK, Dequeue
<1>4. /\ Len(taken') = Len(taken) + 1 /\ taken' \in Seq(Actors \X Nat)
      /\ \A i \in 1..Len(taken') : taken'[i][2] = i
  BY <1>2, TakenGrows
<1>5. /\ queue' = Tail(queue) /\ last' = last /\ last \in Nat
      /\ Len(taken) + Len(queue) = last
  BY DEF MessagesOK, Dequeue
<1>6. MessagesOK'
  <2>1. queue' \in Seq(Nat) /\ Len(taken') + Len(queue') = last' /\ last' \in Nat
    BY <1>1, <1>4, <1>5
  <2> QED BY <1>3, <1>4, <2>1 DEF MessagesOK
<1> QED BY <1>1, <1>5, <1>6

LEMMA NextIInv == IInv /\ [Next]_vars => IInv'
<1> SUFFICES ASSUME IInv, [Next]_vars PROVE IInv'
  OBVIOUS
<1>0. Parking' /\ Budget'
  BY ParkingKept, BudgetKept DEF IInv
<1>1. CASE UNCHANGED vars
  BY <1>0, <1>1 DEF vars, IInv, MessagesOK, NobodyBeside, NobodyParkedOnClosed
<1>2. CASE Enqueue
  <2>1. NobodyBeside' /\ NobodyParkedOnClosed'
    BY <1>2 DEF Enqueue, NobodyBeside, NobodyParkedOnClosed
  <2> QED BY <1>0, <1>2, <2>1, EnqueueKeeps DEF IInv
<1>3. CASE HandOver
  <2>1. NobodyBeside' /\ NobodyParkedOnClosed'
    BY <1>3 DEF HandOver, IInv, NobodyBeside, NobodyParkedOnClosed
  <2> QED BY <1>0, <1>3, <2>1, HandOverKeeps DEF IInv
<1>4. CASE Dequeue
  <2>1. NobodyBeside' /\ NobodyParkedOnClosed'
    BY <1>4 DEF Dequeue, IInv, NobodyBeside, NobodyParkedOnClosed
  <2> QED BY <1>0, <1>4, <2>1, DequeueKeeps DEF IInv
<1>5. CASE Park
  BY <1>0, <1>5 DEF Park, IInv, MessagesOK, NobodyBeside, NobodyParkedOnClosed
<1>6. CASE Still
  <2>1. MessagesOK'
    BY <1>6 DEF Still, IInv, MessagesOK
  <2>2. waiters' # <<>> => waiters # <<>>
    BY <1>6 DEF Still
  <2>3. NobodyBeside' /\ NobodyParkedOnClosed'
    BY <1>6, <2>2 DEF Still, IInv, NobodyBeside, NobodyParkedOnClosed
  <2> QED BY <1>0, <2>1, <2>3 DEF IInv
<1> QED BY <1>1, <1>2, <1>3, <1>4, <1>5, <1>6, StepKinds DEF IInv

LEMMA Invariance == Spec => []IInv
BY InitIInv, NextIInv, PTL DEF Spec

-----------------------------------------------------------------------------
(* What receivers are returned.                                            *)

\* s has, in order, the numbers of the places of t at which a took.
Delivery(s, a, t) ==
  /\ s \in Seq(1..Len(t))
  /\ \A j, k \in 1..Len(s) : j < k => s[j] < s[k]
  /\ \A i \in 1..Len(t) : t[i][1] = a <=> \E k \in 1..Len(s) : s[k] = i

Delivered ==
  /\ result \in [Coroutines -> Nat] /\ got \in [Actors -> Seq(Nat)]
  /\ \A a \in Actors : Delivery(Returned(a), a, taken)

LEMMA DeliveryGrows ==
  ASSUME NEW t \in Seq(Actors \X Nat), NEW a \in Actors, NEW b \in Actors, NEW m \in Nat,
         NEW s, Delivery(s, a, t)
  PROVE  Delivery(IF a = b THEN Append(s, Len(t) + 1) ELSE s, a, Append(t, <<b, m>>))
<1> DEFINE n == Len(t)
           u == Append(t, <<b, m>>)
           r == Append(s, n + 1)
<1>1. /\ n \in Nat /\ Len(u) = n + 1 /\ u[n + 1] = <<b, m>>
      /\ \A i \in 1..n : u[i] = t[i]
  BY AppendProperties
<1>2. s \in Seq(1..n) /\ Len(s) \in Nat /\ \A k \in 1..Len(s) : s[k] \in 1..n
  BY DEF Delivery
<1>3. /\ \A j, k \in 1..Len(s) : j < k => s[j] < s[k]
      /\ \A i \in 1..n : t[i][1] = a <=> \E k \in 1..Len(s) : s[k] = i
  BY DEF Delivery
<1>4. s \in Seq(1..n + 1)
  BY <1>1, <1>2
<1>5. CASE a # b
  <2> HIDE DEF n, u
  <2>1. ASSUME NEW i \in 1..n + 1 PROVE u[i][1] = a <=> \E k \in 1..Len(s) : s[k] = i
    <3>1. CASE i = n + 1
      BY <1>1, <1>2, <1>5, <3>1
    <3>2. CASE i \in 1..n
      BY <1>1, <1>3, <3>2
    <3> QED
      BY <1>1, <3>1, <3>2
  <2>2. Delivery(s, a, u)
    BY <1>1, <1>3, <1>4, <2>1 DEF Delivery
  <2> QED
    BY <1>5, <2>2 DEF u
<1>6. CASE a = b
  <2>1. /\ r \in Seq(1..n + 1) /\ Len(r) = Len(s) + 1 /\ r[Len(s) + 1] = n + 1
        /\ \A k \in 1..Len(s) : r[k] = s[k]
    BY <1>1, <1>4, AppendProperties
  <2> HIDE DEF n, u, r
  <2>2. \A j, k \in 1..Len(r) : j < k => r[j] < r[k]
    <3> SUFFICES ASSUME NEW j \in 1..Len(r), NEW k \in 1..Len(r), j < k PROVE r[j] < r[k]
      OBVIOUS
    <3>1. j \in 1..Len(s) /\ r[j] = s[j] /\ s[j] \in 1..n
      BY <1>2, <2>1
    <3>2. CASE k \in 1..Len(s)
      BY <1>3, <2>1, <3>1, <3>2
    <3>3. CASE k = Len(s) + 1
      BY <1>1, <2>1, <3>1, <3>3
    <3>4. k \in 1..Len(s) \/ k = Len(s) + 1
      <4>1. Len(s) \in Nat /\ Len(r) = Len(s) + 1
        BY <1>2, <2>1
      <4> QED
        BY <4>1
    <3> QED
      BY <3>2, <3>3, <3>4
  <2>3. \A i \in 1..n + 1 : u[i][1] = a <=> \E k \in 1..Len(r) : r[k] = i
    <3> SUFFICES ASSUME NEW i \in 1..n + 1
                 PROVE  u[i][1] = a <=> \E k \in 1..Len(r) : r[k] = i
      OBVIOUS
    <3>1. CASE i = n + 1
      <4>1. Len(s) + 1 \in 1..Len(r)
        BY <1>2, <2>1
      <4> QED
        BY <1>1, <1>6, <2>1, <3>1, <4>1
    <3>2. CASE i \in 1..n
      <4>0. \A k : k \in 1..Len(r) <=> k \in 1..Len(s) \/ k = Len(s) + 1
        <5>1. Len(s) \in Nat /\ Len(r) = Len(s) + 1
          BY <1>2, <2>1
        <5> QED
          BY <5>1
      <4>1. (\E k \in 1..Len(r) : r[k] = i) <=> \E k \in 1..Len(s) : s[k] = i
        <5>1. r[Len(s) + 1] # i
          BY <1>1, <2>1, <3>2
        <5> QED
          BY <2>1, <4>0, <5>1
      <4> QED
        BY <1>1, <1>3, <3>2, <4>1
    <3> QED
      BY <1>1, <3>1, <3>2
  <2>4. Delivery(r, a, u)
    BY <1>1, <2>1, <2>2, <2>3 DEF Delivery
  <2> QED
    BY <1>6, <2>4 DEF u, r, n
<1> QED
  BY <1>5, <1>6

\* A step that returns nothing, and one that lets b have the next message.
LEMMA NothingReturned ==
  ASSUME Delivered, taken' = taken,
         result' \in [Coroutines -> Nat], got' \in [Actors -> Seq(Nat)],
         \A a \in Actors : Returned(a)' = Returned(a)
  PROVE  Delivered'
  BY DEF Delivered

LEMMA NextReturned ==
  ASSUME Delivered, MessagesOK, NEW b \in Actors, taken' = Append(taken, <<b, Len(taken) + 1>>),
         result' \in [Coroutines -> Nat], got' \in [Actors -> Seq(Nat)],
         \A a \in Actors :
           Returned(a)' = IF a = b THEN Append(Returned(a), Len(taken) + 1) ELSE Returned(a)
  PROVE  Delivered'
<1>1. taken \in Seq(Actors \X Nat) /\ Len(taken) + 1 \in Nat
  BY DEF MessagesOK
<1>2. ASSUME NEW a \in Actors PROVE Delivery(Returned(a)', a, taken')
  BY <1>1, DeliveryGrows DEF Delivered
<1> QED
  BY <1>2 DEF Delivered

LEMMA SameCalls ==
  ASSUME Delivered, UNCHANGED <<taken, got, result>>,
         \A a \in Actors : pc'[a] = "handed" <=> pc[a] = "handed"
  PROVE  Delivered'
<1>1. \A a \in Actors : Returned(a)' = Returned(a)
  BY DEF Returned
<1> QED
  BY <1>1, NothingReturned DEF Delivered

LEMMA TakeDelivers ==
  ASSUME IInv, Delivered, NEW a \in Actors, pc[a] # "handed", Take(a)
  PROVE  Delivered'
<1>1. Head(queue) = Len(taken) + 1 /\ Len(taken) \in Nat /\ Head(queue) # 0
  <2>1. Dequeue
    BY DEF Take, Dequeue
  <2> QED
    BY <2>1, DequeueKeeps DEF IInv, MessagesOK
<1>2. /\ got' = [got EXCEPT ![a] = Append(got[a], Len(taken) + 1)]
      /\ taken' = Append(taken, <<a, Len(taken) + 1>>) /\ result' = result
  BY <1>1 DEF Take, Returns, Empty
<1>3. got' \in [Actors -> Seq(Nat)]
  <2>1. Append(got[a], Len(taken) + 1) \in Seq(Nat)
    BY <1>1, AppendProperties DEF Delivered
  <2> QED
    BY <1>2, <2>1 DEF Delivered
<1>4. \A b \in Actors : pc'[b] = "handed" <=> pc[b] = "handed"
  BY DEF Take, Goto, IInv, Parking, PlacesOK
<1>5. \A b \in Actors :
        Returned(b)' = IF b = a THEN Append(Returned(b), Len(taken) + 1) ELSE Returned(b)
  BY <1>2, <1>4 DEF Returned, Delivered
<1> QED
  BY <1>2, <1>3, <1>5, NextReturned DEF IInv, Delivered

LEMMA SendToWaiterDelivers ==
  ASSUME IInv, Delivered, NEW a \in Actors, SendToWaiter(a)
  PROVE  Delivered'
<1> DEFINE c == Head(waiters)
<1>0. /\ c \in Coroutines /\ c \in Actors /\ pc[c] = "parked" /\ pc[a] = "send"
      /\ waiters # <<>> /\ pc \in [Actors -> PCs]
  BY HeadIsParked DEF SendToWaiter, Locks, IInv, Parking, PlacesOK
<1>1. last = Len(taken) /\ Len(taken) \in Nat
  <2>1. HandOver
    BY <1>0 DEF SendToWaiter, Locks, HandOver
  <2> QED
    BY <2>1, HandOverKeeps DEF IInv, MessagesOK
<1> HIDE DEF c
<1>2. /\ result' = [result EXCEPT ![c] = Len(taken) + 1] /\ got' = got
      /\ taken' = Append(taken, <<c, Len(taken) + 1>>)
      /\ pc' = [pc EXCEPT ![a] = "resume", ![c] = "handed"]
  BY <1>1 DEF SendToWaiter, c
<1>3. result' \in [Coroutines -> Nat] /\ result'[c] = Len(taken) + 1
  BY <1>0, <1>1, <1>2 DEF Delivered
<1>4. /\ pc'[c] = "handed"
      /\ \A b \in Actors \ {c} : /\ pc'[b] = "handed" <=> pc[b] = "handed"
                                 /\ pc'[b] = "handed" => result'[b] = result[b]
  <2>1. \A b \in Actors : pc[b] = "handed" => b \in Coroutines
    BY DEF IInv, Parking, AwaitersOK
  <2> QED
    BY <1>0, <1>2, <2>1 DEF Delivered
<1>5. \A b \in Actors :
        Returned(b)' = IF b = c THEN Append(Returned(b), Len(taken) + 1) ELSE Returned(b)
  BY <1>0, <1>2, <1>3, <1>4 DEF Returned
<1> QED
  BY <1>0, <1>2, <1>3, <1>5, NextReturned DEF IInv, Delivered

\* What the coroutine finds in its result is what it is returned.
LEMMA ResumeDelivers ==
  ASSUME IInv, Delivered, NEW a \in Actors, Resume(a)
  PROVE  Delivered'
<1> DEFINE c == child[a]
<1>0. /\ c \in Coroutines /\ c \in Actors /\ pc[c] = "handed" /\ pc[a] = "resume" /\ a # c
      /\ pc \in [Actors -> PCs]
  BY DEF Resume, IInv, Parking, PlacesOK, ResumersOK, Actors
<1>1. result[c] \in Nat /\ got[c] \in Seq(Nat) /\ result[c] # Empty
  <2>1. result[c] \in Nat /\ got[c] \in Seq(Nat)
    BY <1>0 DEF Delivered
  <2>2. Append(got[c], result[c]) \in Seq(1..Len(taken))
    BY <1>0 DEF Delivered, Delivery, Returned
  <2>3. Append(got[c], result[c])[Len(got[c]) + 1] = result[c]
        /\ Len(Append(got[c], result[c])) = Len(got[c]) + 1 /\ Len(got[c]) \in Nat
    BY <2>1, AppendProperties
  <2>4. result[c] \in 1..Len(taken)
    BY <2>2, <2>3
  <2> QED
    BY <2>1, <2>4 DEF Empty
<1> HIDE DEF c
<1>2. /\ got' = [got EXCEPT ![c] = Append(got[c], result[c])] /\ taken' = taken
      /\ result' = [result EXCEPT ![c] = Empty]
      /\ pc' = [pc EXCEPT ![a] = "driving", ![c] = "idle"]
  BY <1>1 DEF Resume, Returns, c
<1>3. got' \in [Actors -> Seq(Nat)] /\ result' \in [Coroutines -> Nat]
  <2>1. Append(got[c], result[c]) \in Seq(Nat) /\ Empty \in Nat
    BY <1>1, AppendProperties DEF Empty
  <2> QED
    BY <1>2, <2>1 DEF Delivered
<1>4. \A b \in Actors \ {c} : /\ pc'[b] = "handed" <=> pc[b] = "handed"
                              /\ pc'[b] = "handed" => result'[b] = result[b]
                              /\ got'[b] = got[b]
  <2>1. \A b \in Actors : pc[b] = "handed" => b \in Coroutines
    BY DEF IInv, Parking, AwaitersOK
  <2> QED
    BY <1>0, <1>2, <2>1 DEF Delivered
<1>5. pc'[c] = "idle" /\ got'[c] = Append(got[c], result[c])
  BY <1>0, <1>2 DEF Delivered
<1>6. \A b \in Actors : Returned(b)' = Returned(b)
  BY <1>0, <1>4, <1>5 DEF Returned
<1> QED
  BY <1>2, <1>3, <1>6, NothingReturned

\* close() returns nothing but the empty message.
LEMMA CloseResumeDelivers ==
  ASSUME IInv, Delivered, NEW a \in Actors, CloseResume(a)
  PROVE  Delivered'
<1> DEFINE c == Head(waiters)
<1>0. /\ c \in Coroutines /\ c \in Actors /\ pc[c] = "parked" /\ pc[a] = "closing"
      /\ pc \in [Actors -> PCs]
  BY HeadIsParked DEF CloseResume, IInv, Parking, PlacesOK
<1> HIDE DEF c
<1>1. /\ got' = got /\ taken' = taken /\ result' = [result EXCEPT ![c] = Empty]
      /\ pc' = [pc EXCEPT ![a] = "driving", ![c] = "idle"]
  BY DEF CloseResume, Returns, c
<1>2. result' \in [Coroutines -> Nat]
  BY <1>1 DEF Delivered, Empty
<1>3. \A b \in Actors : /\ pc'[b] = "handed" <=> pc[b] = "handed"
                        /\ pc'[b] = "handed" => result'[b] = result[b]
  <2>1. \A b \in Actors : pc[b] = "handed" => b \in Coroutines /\ b # c
    BY <1>0 DEF IInv, Parking, AwaitersOK
  <2> QED
    BY <1>0, <1>1, <2>1 DEF Delivered
<1>4. ASSUME NEW b \in Actors PROVE Returned(b)' = Returned(b)
  <2>1. CASE pc[b] = "handed"
    <3>1. pc'[b] = "handed" /\ result'[b] = result[b] /\ got'[b] = got[b]
      BY <1>1, <1>3, <2>1
    <3> QED
      BY <2>1, <3>1 DEF Returned
  <2>2. CASE pc[b] # "handed"
    BY <1>1, <1>3, <2>2 DEF Returned
  <2> QED
    BY <2>1, <2>2
<1> QED
  BY <1>1, <1>2, <1>4, NothingReturned DEF Delivered

LEMMA InitDelivered == Init => Delivered
<1> SUFFICES ASSUME Init PROVE Delivered
  OBVIOUS
<1>1. result \in [Coroutines -> Nat] /\ got \in [Actors -> Seq(Nat)] /\ taken = <<>>
  BY EmptySeq DEF Init, Empty
<1>2. \A a \in Actors : Returned(a) = <<>>
  BY DEF Init, Returned
<1>3. ASSUME NEW a \in Actors PROVE Delivery(<<>>, a, <<>>)
  <2>1. <<>> \in Seq(1..0) /\ Len(<<>>) = 0 /\ 1..0 = {}
    BY EmptySeq
  <2> QED
    BY <2>1 DEF Delivery
<1> QED
  BY <1>1, <1>2, <1>3 DEF Delivered

LEMMA NextDelivered == IInv /\ Delivered /\ [Next]_vars => Delivered'
<1> SUFFICES ASSUME IInv, Delivered, [Next]_vars PROVE Delivered'
  OBVIOUS
<1>0. pc \in [Actors -> PCs] /\ Parking
  BY DEF IInv, Parking, PlacesOK
<1>1. CASE UNCHANGED vars
  BY <1>1, SameCalls DEF vars
<1>2. ASSUME NEW a \in Actors, NEW at \in PCs \ {"handed"}, pc[a] # "handed", Goto(a, at),
             UNCHANGED <<taken, got, result>>
      PROVE  Delivered'
  <2>1. \A b \in Actors : pc'[b] = "handed" <=> pc[b] = "handed"
    BY <1>0, <1>2 DEF Goto
  <2> QED
    BY <1>2, <2>1, SameCalls
<1>3. ASSUME NEW c \in Coroutines, NEW at \in PCs \ {"handed"}, pc[c] # "handed", Yield(c, at),
             UNCHANGED <<taken, got, result>>
      PROVE  Delivered'
  <2>1. \A b \in Actors : pc'[b] = "handed" <=> pc[b] = "handed"
    BY <1>0, <1>3, YieldPcs
  <2> QED
    BY <1>3, <2>1, SameCalls
<1>4. ASSUME NEW a \in Actors, Call(a) PROVE Delivered'
  BY <1>2, <1>4 DEF Call, PCs
<1>5. ASSUME NEW a \in Actors, End(a) PROVE Delivered'
  BY <1>3, <1>5 DEF End, PCs
<1>6. ASSUME NEW a \in Actors, NEW at \in PCs \ {"handed"}, pc[a] # "handed", Leave(a, at)
      PROVE  Delivered'
  BY <1>2, <1>6 DEF Leave
<1>7. ASSUME NEW a \in Actors, SendToQueue(a) \/ SendDropped(a) \/ CloseBegin(a) \/ CloseEnd(a)
      PROVE  Delivered'
  BY <1>2, <1>7 DEF SendToQueue, SendDropped, CloseBegin, CloseEnd, Locks, PCs
<1>8. ASSUME NEW a \in Actors,
             TryRecv(a) \/ BlockingReadClosed(a) \/ BlockingPoll(a) \/ RecvReady(a)
      PROVE  Delivered'
  BY <1>6, <1>8, TakeDelivers
     DEF TryRecv, BlockingReadClosed, BlockingPoll, RecvReady, Locks, PCs
<1>9. ASSUME NEW a \in Actors, RecvSuspend(a) PROVE Delivered'
  <2>1. a \in Coroutines /\ pc[a] = "recv_missed"
    BY <1>0, <1>9 DEF RecvSuspend, Locks, Parking, AwaitersOK
  <2>2. CASE Take(a)
    BY <2>1, <2>2, TakeDelivers
  <2>3. CASE Returns(a, Empty) /\ Goto(a, "idle") /\ UNCHANGED <<result, taken>>
    BY <1>2, <2>1, <2>3 DEF Returns, PCs
  <2>4. CASE Yield(a, "parked") /\ UNCHANGED <<result, taken, got>>
    BY <1>3, <2>1, <2>4 DEF PCs
  <2> QED
    BY <1>9, <2>2, <2>3, <2>4 DEF RecvSuspend
<1> QED
  BY <1>1, <1>4, <1>5, <1>7, <1>8, <1>9, SendToWaiterDelivers, ResumeDelivers,
     CloseResumeDelivers DEF Next, Run

-----------------------------------------------------------------------------
\* No coroutine is parked beside a message, and the waiters are the parked coroutines,
\* each registered once, whoever sends, receives or closes at the same time.
THEOREM NobodyIsStranded == Spec => []NoStrandedWaiter
<1>1. ASSUME IInv PROVE NoStrandedWaiter
  <2>1. /\ waiters \in Seq(Coroutines) /\ Len(waiters) \in Nat /\ DOMAIN waiters = 1..Len(waiters)
        /\ \A i \in 1..Len(waiters) : waiters[i] \in Coroutines
    BY <1>1, LenProperties DEF IInv, Parking, PlacesOK
  <2>2. ToSet(waiters) = {c \in Coroutines : pc[c] = "parked"}
    BY <1>1, <2>1 DEF ToSet, IInv, Parking, WaitersOK
  <2>3. Len(waiters) = Cardinality(ToSet(waiters))
    <3>1. [i \in 1..Len(waiters) |-> waiters[i]] \in Bijection(1..Len(waiters), ToSet(waiters))
      BY <1>1, <2>1 DEF ToSet, IInv, Parking, WaitersOK, Bijection, Injection, Surjection, IsInjective
    <3>2. IsFiniteSet(1..Len(waiters)) /\ Cardinality(1..Len(waiters)) = Len(waiters)
      <4>1. \A n \in Int : IsFiniteSet(1..n) /\ Cardinality(1..n) = IF 1 > n THEN 0 ELSE n - 1 + 1
        BY FS_Interval
      <4> QED BY <2>1, <4>1
    <3> QED BY <3>1, <3>2, FS_Bijection DEF ExistsBijection
  <2> QED BY <1>1, <2>2, <2>3 DEF NoStrandedWaiter, IInv, NobodyBeside
<1> QED BY Invariance, <1>1, PTL

\* Once close() has returned nobody is parked, also if it was on its way to park.
THEOREM CloseReleasesEverybody == Spec => []NobodyParkedOnClosed
<1>1. IInv => NobodyParkedOnClosed
  BY DEF IInv
<1> QED BY Invariance, <1>1, PTL

\* The endpoint implements an unbounded FIFO channel: through the queue or from hand
\* to hand, every message accepted is received once and in order.
THEOREM EndpointIsFifo == Spec => ImplementsFifo
<1> DEFINE sent == [i \in 1..last |-> i]
           rcvd == [i \in 1..Len(taken) |-> taken[i][2]]
<1>1. Init => Fifo!Init
  BY EmptySeq DEF Init, Fifo!Init
<1>2. ASSUME MessagesOK
      PROVE  /\ Len(sent) = last /\ Len(rcvd) = Len(taken) /\ Len(taken) \in Nat
             /\ rcvd = [i \in 1..Len(taken) |-> i]
  BY <1>2 DEF MessagesOK
<1>3. \A n \in Nat : [i \in 1..(n + 1) |-> i] = Append([i \in 1..n |-> i], n + 1)
  OBVIOUS
<1>4. ASSUME IInv, IInv', [Next]_vars PROVE [Fifo!Next]_(Fifo!vars)
  <2>0. /\ MessagesOK /\ MessagesOK' /\ last \in Nat
        /\ last' = last + 1 => last + 1 \in 1..MaxSends
    <3>1. Cardinality(Senders') \in Nat
      BY <1>4, FS_CardinalityType DEF IInv, Budget
    <3> QED BY <1>4, <3>1, EndpointAssumption DEF IInv, Budget
  <2>1. CASE Enqueue
    <3>1. sent' = Append(sent, last + 1) /\ rcvd' = rcvd
      BY <1>3, <2>0, <2>1 DEF Enqueue
    <3>2. Len(sent) + 1 - Len(rcvd) \in Nat
      BY <1>2, <2>0 DEF MessagesOK
    <3>3. PICK m \in 1..MaxSends : m = last + 1
      BY <2>0, <2>1 DEF Enqueue
    <3>4. Fifo!Send(m)
      BY <2>1, <3>1, <3>2, <3>3 DEF Enqueue, Fifo!Send
    <3> QED BY <3>4 DEF Fifo!Next
  <2>2. CASE HandOver
    <3>1. last = Len(taken) /\ Len(taken') = last + 1 /\ last' = last + 1
      BY <1>4, <2>2, HandOverKeeps, TakenGrows DEF IInv, HandOver
    <3>2. sent' = Append(sent, last + 1) /\ rcvd' = Append(rcvd, last + 1)
      BY <1>2, <1>3, <2>0, <3>1 DEF MessagesOK
    <3>3. PICK m \in 1..MaxSends : m = last + 1
      BY <2>0, <3>1
    <3>4. ~closed /\ Len(sent) = Len(rcvd)
      BY <1>2, <1>4, <2>0, <2>2, <3>1 DEF HandOver, IInv, NobodyParkedOnClosed
    <3>5. Fifo!Pass(m)
      BY <2>2, <3>2, <3>3, <3>4 DEF HandOver, Fifo!Pass
    <3> QED BY <3>5 DEF Fifo!Next
  <2>3. CASE Dequeue
    <3>1. Len(taken) < last /\ Len(taken') = Len(taken) + 1 /\ last' = last
      BY <1>4, <2>3, DequeueKeeps, TakenGrows DEF IInv, Dequeue
    <3>2. rcvd' = Append(rcvd, Len(taken) + 1)
      BY <1>2, <1>3, <2>0, <3>1 DEF MessagesOK
    <3>3. sent[Len(taken) + 1] = Len(taken) + 1
      BY <1>2, <2>0, <3>1
    <3>4. Fifo!Receive
      BY <1>2, <2>0, <2>3, <3>1, <3>2, <3>3 DEF Dequeue, Fifo!Receive
    <3> QED BY <3>4 DEF Fifo!Next
  <2>4. CASE Park \/ UNCHANGED vars
    BY <2>4 DEF Park, vars, Fifo!vars
  <2>5. CASE Still
    BY <2>5, <1>4 DEF Still, Fifo!Next, Fifo!Shut, Fifo!vars
  <2> QED BY <1>4, <2>1, <2>2, <2>3, <2>4, <2>5, StepKinds DEF IInv
<1> QED BY Invariance, <1>1, <1>4, PTL DEF Spec, ImplementsFifo, Fifo!Spec

\* What a receiver is returned is what it took or was handed, once and in that order: no
\* other send, receive or close() reaches the message that send_nowait left in `result`
\* before the coroutine is resumed.
THEOREM EverybodyGetsTheirs == Spec => []ReceiversGetWhatTheyTook
<1>1. ASSUME IInv, Delivered PROVE ReceiversGetWhatTheyTook
  <2> SUFFICES ASSUME NEW a \in Actors
               PROVE  /\ ToSet(Returned(a)) =
                           {taken[i][2] : i \in {n \in DOMAIN taken : taken[n][1] = a}}
                      /\ \A j, k \in DOMAIN Returned(a) : \A m, n \in DOMAIN taken :
                           j < k /\ taken[m][2] = Returned(a)[j] /\ taken[n][2] = Returned(a)[k]
                             => m < n
    BY DEF ReceiversGetWhatTheyTook
  <2> DEFINE s == Returned(a)
  <2>1. /\ s \in Seq(1..Len(taken)) /\ \A j, k \in 1..Len(s) : j < k => s[j] < s[k]
        /\ \A i \in 1..Len(taken) : taken[i][1] = a <=> \E k \in 1..Len(s) : s[k] = i
    BY <1>1 DEF Delivered, Delivery
  <2>2. DOMAIN taken = 1..Len(taken) /\ \A i \in 1..Len(taken) : taken[i][2] = i
    BY <1>1 DEF IInv, MessagesOK
  <2> HIDE DEF s
  <2>3. DOMAIN s = 1..Len(s) /\ \A k \in 1..Len(s) : s[k] \in 1..Len(taken)
    BY <2>1
  <2>4. ToSet(s) = {taken[i][2] : i \in {n \in DOMAIN taken : taken[n][1] = a}}
    <3>1. ToSet(s) = {s[k] : k \in 1..Len(s)}
      BY <2>3 DEF ToSet
    <3>2. {taken[i][2] : i \in {n \in DOMAIN taken : taken[n][1] = a}} =
          {i \in 1..Len(taken) : taken[i][1] = a}
      BY <2>2
    <3>3. ASSUME NEW k \in 1..Len(s) PROVE s[k] \in 1..Len(taken) /\ taken[s[k]][1] = a
      BY <2>1, <2>3
    <3>4. {s[k] : k \in 1..Len(s)} = {i \in 1..Len(taken) : taken[i][1] = a}
      <4>1. {s[k] : k \in 1..Len(s)} \subseteq {i \in 1..Len(taken) : taken[i][1] = a}
        BY <3>3
      <4>2. {i \in 1..Len(taken) : taken[i][1] = a} \subseteq {s[k] : k \in 1..Len(s)}
        BY <2>1
      <4> QED
        BY <4>1, <4>2
    <3> QED
      BY <3>1, <3>2, <3>4
  <2>5. \A j, k \in DOMAIN s : \A m, n \in DOMAIN taken :
          j < k /\ taken[m][2] = s[j] /\ taken[n][2] = s[k] => m < n
    BY <2>1, <2>2, <2>3
  <2> QED
    BY <2>4, <2>5 DEF s
<1>2. Spec => [](IInv /\ Delivered)
  <2>1. Init => IInv /\ Delivered
    BY InitIInv, InitDelivered
  <2>2. IInv /\ Delivered /\ [Next]_vars => (IInv /\ Delivered)'
    BY NextIInv, NextDelivered
  <2> QED
    BY <2>1, <2>2, PTL DEF Spec
<1> QED
  BY <1>1, <1>2, PTL
=============================================================================

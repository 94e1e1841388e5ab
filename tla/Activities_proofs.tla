-------------------------- MODULE Activities_proofs --------------------------
(***************************************************************************)
(* What the runs check of threads, work stealing, interrupts, the channel, *)
(* the cluster and the multilevel scheduler, for every set of actors and   *)
(* any number of operations; and of metrics, the log, the optimizer, audio *)
(* and compiled code, for every code, nesting of scopes, number of stages  *)
(* and so on.                                                              *)
(***************************************************************************)
EXTENDS Kernel, Lemmas, SequenceTheorems

\* A step of all the activities is a step of each or leaves it as it is, so that each
\* behaves as its own specification says.
LEMMA Separate ==
  ASSUME [ActivitiesNext]_activities
  PROVE  /\ [Thread!Next]_Thread!vars
         /\ [WorkStealing!Next]_WorkStealing!vars
         /\ [IrqSource!Next]_IrqSource!vars
         /\ [Channel!Next]_Channel!vars
         /\ [Cluster!Next]_Cluster!vars
         /\ [Multilevel!Next]_Multilevel!vars
  BY DEF ActivitiesNext, ThreadStep, StealingStep, IrqStep, ChannelStep, ClusterStep,
         LevelsStep, activities, thread, stealing, irq, channel, cluster, levels,
         Thread!vars, WorkStealing!vars, IrqSource!vars, Channel!vars, Cluster!vars,
         Multilevel!vars

LEMMA Alone ==
  ActivitiesSpec => /\ Thread!Spec /\ WorkStealing!Spec /\ IrqSource!Spec
                    /\ Channel!Spec /\ Cluster!Spec /\ Multilevel!Spec
  BY Separate, PTL DEF ActivitiesSpec, ActivitiesInit, Thread!Spec, WorkStealing!Spec,
     IrqSource!Spec, Channel!Spec, Cluster!Spec, Multilevel!Spec

LEMMA OneLonger ==
  ASSUME NEW n \in Nat
  PROVE  \A i \in 1..n + 1 : i \in 1..n \/ i = n + 1
  OBVIOUS

-----------------------------------------------------------------------------
(* Threads.                                                                *)

ThreadPlaces == {"out", "start", "launch", "join", "poll"}

ThreadCalls == [launched : Nat, calls : [Thread!Actors -> Nat]]

ThreadTyped ==
  /\ state \in {"Ready", "Running", "Zombie", "Terminated"}
  /\ done \in BOOLEAN
  /\ os \in {"none", "joinable", "joined"}
  /\ body \in {"none", "entry", "locked", "zombie", "stored", "over"}
  /\ at \in [Thread!Actors -> ThreadPlaces]
  /\ starts \in ThreadCalls

\* The exchange of start lets one caller through: until it has, there is no OS thread, and
\* as long as that caller is on its way there is none either.
ThreadOneLauncher ==
  /\ \A a \in Thread!Actors : at[a] = "launch" => body = "none" /\ state = "Running"
  /\ \A a, b \in Thread!Actors : at[a] = "launch" /\ at[b] = "launch" => a = b
  /\ state = "Ready" => body = "none"
  /\ starts.launched = IF body = "none" THEN 0 ELSE 1

\* What the OS thread has stored, by how far it is.
ThreadStored ==
  /\ body = "none" <=> os = "none"
  /\ body \in {"entry", "locked"} => state = "Running"
  /\ body \in {"zombie", "stored", "over"} => state \in {"Zombie", "Terminated"}
  /\ done <=> body \in {"stored", "over"}
  /\ state = "Terminated" => os = "joined" /\ body = "over"
  /\ ended # {} => done
  /\ at[Owner] = "join" => os # "none"

ThreadIInv == ThreadTyped /\ ThreadOneLauncher /\ ThreadStored

-----------------------------------------------------------------------------
LEMMA ThreadInitIInv == Thread!Init => ThreadIInv
<1> SUFFICES ASSUME Thread!Init PROVE ThreadIInv
  OBVIOUS
<1>1. at \in [Thread!Actors -> ThreadPlaces] /\ \A a \in Thread!Actors : at[a] = "out"
  BY DEF Thread!Init, ThreadPlaces
<1>2. starts \in ThreadCalls /\ starts.launched = 0
  BY DEF Thread!Init, ThreadCalls
<1>3. Owner \in Thread!Actors
  BY DEF Thread!Actors
<1> QED
  BY <1>1, <1>2, <1>3 DEF Thread!Init, ThreadIInv, ThreadTyped, ThreadOneLauncher,
     ThreadStored

\* A step of the OS thread.
LEMMA ThreadBodySteps ==
  ASSUME ThreadIInv,
         Thread!EntryReturns \/ Thread!StoreZombie \/ Thread!StoreDone \/ Thread!Exit
  PROVE  ThreadIInv'
<1> USE DEF Thread!EntryReturns, Thread!StoreZombie, Thread!StoreDone, Thread!Exit
<1>1. ThreadTyped'
  BY DEF ThreadIInv, ThreadTyped
<1>2. \A a \in Thread!Actors : at[a] # "launch"
  BY DEF ThreadIInv, ThreadOneLauncher
<1>3. ThreadOneLauncher'
  BY <1>2 DEF ThreadIInv, ThreadTyped, ThreadOneLauncher, ThreadStored
<1>4. ThreadStored'
  BY DEF ThreadIInv, ThreadTyped, ThreadStored
<1> QED
  BY <1>1, <1>3, <1>4 DEF ThreadIInv

\* Enter and Go move one actor, and Enter counts its call.
ThreadMoved(a, to) ==
  /\ at' \in [Thread!Actors -> ThreadPlaces] /\ at'[a] = to
  /\ \A b \in Thread!Actors : b # a => at'[b] = at[b]

LEMMA ThreadEnters ==
  ASSUME ThreadTyped, NEW a \in Thread!Actors, NEW to \in ThreadPlaces,
         Thread!Enter(a, to)
  PROVE  ThreadMoved(a,
     to) /\ starts' \in ThreadCalls /\ starts'.launched = starts.launched
<1>1. starts.launched \in Nat /\ starts.calls \in [Thread!Actors -> Nat]
  BY DEF ThreadTyped, ThreadCalls
<1> DEFINE counted == [starts.calls EXCEPT ![a] = starts.calls[a] + 1]
<1>2. counted \in [Thread!Actors -> Nat]
  BY <1>1
<1>3. starts' = [starts EXCEPT !.calls = counted]
  BY Zenon DEF Thread!Enter
<1> HIDE DEF counted
<1>4. starts' = [launched |-> starts.launched, calls |-> counted]
  BY <1>3 DEF ThreadTyped, ThreadCalls
<1>5. ThreadMoved(a, to)
  BY DEF ThreadTyped, Thread!Enter, ThreadMoved
<1> QED
  BY <1>1, <1>2, <1>4, <1>5 DEF ThreadCalls

LEMMA ThreadGoes ==
  ASSUME ThreadTyped, NEW a \in Thread!Actors, NEW from, NEW to \in ThreadPlaces,
         Thread!Go(a, from, to)
  PROVE  ThreadMoved(a, to) /\ at[a] = from
  BY DEF ThreadTyped, Thread!Go, ThreadMoved

\* A move that only changes where an actor is.
LEMMA ThreadOnlyMoves ==
  ASSUME ThreadIInv, NEW a \in Thread!Actors, NEW to \in ThreadPlaces,
         to # "launch", ThreadMoved(a, to),
         to = "join" => os # "none", ended' # {} => done,
         starts' \in ThreadCalls, starts'.launched = starts.launched,
         UNCHANGED <<state, done, os, body>>
  PROVE  ThreadIInv'
<1>1. \A b \in Thread!Actors : at'[b] = "launch" => at[b] = "launch"
  BY DEF ThreadMoved
<1>2. ThreadTyped'
  BY DEF ThreadIInv, ThreadTyped, ThreadMoved
<1>3. ThreadOneLauncher'
  BY <1>1 DEF ThreadIInv, ThreadOneLauncher
<1>4. at'[Owner] = "join" => at[Owner] = "join" \/ to = "join"
  BY DEF ThreadMoved, Thread!Actors
<1>5. ThreadStored'
  BY <1>4 DEF ThreadIInv, ThreadStored
<1> QED
  BY <1>2, <1>3, <1>5 DEF ThreadIInv

LEMMA ThreadJoinSteps ==
  ASSUME ThreadIInv, Thread!CallJoin \/ Thread!Join
  PROVE  ThreadIInv'
<1>0. Owner \in Thread!Actors /\ ThreadTyped
  BY DEF Thread!Actors, ThreadIInv
<1>1. CASE Thread!CallJoin
  <2>1. PICK to \in {"join", "out"} : Thread!Enter(Owner, to) /\ (to = "join" => os = "joinable")
    BY <1>1 DEF Thread!CallJoin
  <2>2. to \in ThreadPlaces
    BY <2>1 DEF ThreadPlaces
  <2> QED
    BY <1>0, <1>1, <2>1, <2>2, ThreadEnters DEF ThreadMoved, Thread!CallJoin,
       ThreadIInv, ThreadTyped, ThreadOneLauncher, ThreadStored
<1>2. CASE Thread!Join
  <2>1. Thread!Go(Owner, "join", "out") /\ "out" \in ThreadPlaces
    BY <1>2 DEF Thread!Join, ThreadPlaces
  <2>2. /\ at[Owner] = "join" /\ at' \in [Thread!Actors -> ThreadPlaces] /\ at'[Owner] = "out"
        /\ \A b \in Thread!Actors : b # Owner => at'[b] = at[b]
    BY <1>0, <2>1, ThreadGoes DEF ThreadMoved
  <2> QED
    BY <1>0, <1>2, <2>2 DEF Thread!Join, ThreadIInv, ThreadTyped, ThreadOneLauncher,
       ThreadStored
<1> QED
  BY <1>1, <1>2

LEMMA ThreadActorSteps ==
  ASSUME ThreadIInv, NEW a \in Thread!Actors,
         Thread!CallStart(a) \/ Thread!Exchange(a) \/ Thread!Launch(a) \/ Thread!CallJoinFor(a) \/ Thread!Poll(a) \/ Thread!Wake(a)
  PROVE  ThreadIInv'
<1>0. ThreadTyped /\ (ended # {} => done)
  BY DEF ThreadIInv, ThreadStored
<1>1. CASE Thread!CallStart(a)
  <2>1. Thread!Enter(a, "start") /\ "start" \in ThreadPlaces
    BY <1>1 DEF Thread!CallStart, ThreadPlaces
  <2> QED
    BY <1>0, <1>1, <2>1, ThreadEnters, ThreadOnlyMoves DEF Thread!CallStart
<1>2. CASE Thread!Exchange(a)
  <2>1. PICK to \in {"launch", "out"} : Thread!Go(a, "start", to) /\ (to = "launch" <=> state = "Ready")
    BY <1>2 DEF Thread!Exchange
  <2>2. to \in ThreadPlaces
    BY <2>1 DEF ThreadPlaces
  <2>3. /\ at[a] = "start" /\ at' \in [Thread!Actors -> ThreadPlaces] /\ at'[a] = to
        /\ \A b \in Thread!Actors : b # a => at'[b] = at[b]
    BY <1>0, <2>1, <2>2, ThreadGoes DEF ThreadMoved
  <2> QED
    BY <1>0, <1>2, <2>1, <2>3 DEF Thread!Exchange, ThreadIInv, ThreadTyped,
       ThreadOneLauncher, ThreadStored, Thread!Actors
<1>3. CASE Thread!Launch(a)
  <2>1. Thread!Go(a, "launch", "out") /\ "out" \in ThreadPlaces
    BY <1>3 DEF Thread!Launch, ThreadPlaces
  <2>2. /\ at[a] = "launch" /\ at' \in [Thread!Actors -> ThreadPlaces] /\ at'[a] = "out"
        /\ \A b \in Thread!Actors : b # a => at'[b] = at[b]
    BY <1>0, <2>1, ThreadGoes DEF ThreadMoved
  <2>3. starts' \in ThreadCalls /\ starts'.launched = 1
    BY <1>0, <1>3, <2>2 DEF Thread!Launch, ThreadIInv, ThreadTyped,
       ThreadOneLauncher, ThreadCalls
  <2> QED
    BY <1>0, <1>3, <2>2, <2>3 DEF Thread!Launch, ThreadIInv, ThreadTyped,
       ThreadOneLauncher, ThreadStored, Thread!Actors
<1>4. CASE Thread!CallJoinFor(a)
  <2>1. PICK to \in {"poll", "out"} : Thread!Enter(a, to)
    BY <1>4 DEF Thread!CallJoinFor
  <2>2. to \in ThreadPlaces
    BY <2>1 DEF ThreadPlaces
  <2> QED
    BY <1>0, <1>4, <2>1, <2>2, ThreadEnters, ThreadOnlyMoves DEF Thread!CallJoinFor
<1>5. CASE Thread!Poll(a)
  <2>1. Thread!Go(a, "poll", "out") /\ "out" \in ThreadPlaces
    BY <1>5 DEF Thread!Poll, ThreadPlaces
  <2>2. /\ at[a] = "poll" /\ at' \in [Thread!Actors -> ThreadPlaces] /\ at'[a] = "out"
        /\ \A b \in Thread!Actors : b # a => at'[b] = at[b]
    BY <1>0, <2>1, ThreadGoes DEF ThreadMoved
  <2> QED
    BY <1>0, <1>5, <2>2 DEF Thread!Poll, ThreadIInv, ThreadTyped, ThreadOneLauncher,
       ThreadStored, Thread!Actors
<1>6. CASE Thread!Wake(a)
  <2>1. Thread!Enter(a, "out") /\ "out" \in ThreadPlaces
    BY <1>6 DEF Thread!Wake, ThreadPlaces
  <2>2. state' = state
    BY <1>0, <1>6 DEF Thread!Wake, ThreadTyped
  <2> QED
    BY <1>0, <1>6, <2>1, <2>2, ThreadEnters, ThreadOnlyMoves DEF Thread!Wake
<1> QED
  BY <1>1, <1>2, <1>3, <1>4, <1>5, <1>6

LEMMA ThreadNextIInv == ThreadIInv /\ [Thread!Next]_Thread!vars => ThreadIInv'
<1> SUFFICES ASSUME ThreadIInv, [Thread!Next]_Thread!vars PROVE ThreadIInv'
  OBVIOUS
<1>1. CASE UNCHANGED Thread!vars
  BY <1>1 DEF Thread!vars, ThreadIInv, ThreadTyped, ThreadOneLauncher, ThreadStored
<1>2. CASE Thread!Next
  BY <1>2, ThreadBodySteps, ThreadJoinSteps, ThreadActorSteps DEF Thread!Next
<1> QED
  BY <1>1, <1>2

\* Whoever is told of the end of a thread, by join, join_for or its state, is told the
\* truth; however many threads call start at once, one OS thread is launched.
THEOREM EndIsTold == ActivitiesSpec => []ThreadsEnd
<1>1. ThreadIInv => ThreadsEnd
  BY DEF ThreadIInv, ThreadTyped, ThreadOneLauncher, ThreadStored, Thread!ThreadsEnd, ThreadsEnd
<1> QED
  BY <1>1, ThreadInitIInv, ThreadNextIInv, Alone, PTL DEF Thread!Spec

-----------------------------------------------------------------------------
(* Work stealing.                                                          *)

LEMMA StealingCardinality == \A S : WorkStealing!Cardinality(S) = Cardinality(S)
  BY DEF Cardinality, WorkStealing!Cardinality

StealingPlaces == {"unborn", "loop", "get", "resume", "exited"}

StealingTyped ==
  /\ global \in Seq(Nat) /\ ran \in Seq(Nat) /\ posts \in Nat
  /\ stop \in BOOLEAN
  /\ worker \in [Workers -> StealingPlaces]
  /\ hand \in [Workers -> Nat]
  /\ joined \in Nat

\* What was taken and what is queued are the coroutines posted, in order.
StealingInOrder ==
  /\ Len(ran) + Len(global) = posts
  /\ \A i \in 1..Len(ran) : ran[i] = i
  /\ \A i \in 1..Len(global) : global[i] = Len(ran) + i

\* Only a worker that resumes has a coroutine in hand, and joined workers have exited.
StealingStopped ==
  /\ \A w \in Workers : hand[w] # 0 => worker[w] = "resume"
  /\ joined <= Cardinality(Workers)
  /\ \A w \in Workers : w <= joined => worker[w] = "exited"

StealingIInv == StealingTyped /\ StealingInOrder /\ StealingStopped

-----------------------------------------------------------------------------
(* Every step appends a coroutine, takes one, or leaves both sequences.    *)

StealingTakes ==
  /\ global # << >>
  /\ ran' = Append(ran, Head(global)) /\ global' = Tail(global) /\ posts' = posts

StealingKeeps == UNCHANGED <<global, ran, posts>>

StealingAppends ==
  /\ posts' = posts + 1 /\ global' = Append(global, posts + 1) /\ ran' = ran

LEMMA StealingStepKinds ==
  ASSUME [WorkStealing!Next]_WorkStealing!vars
  PROVE  StealingAppends \/ StealingTakes \/ StealingKeeps
<1>1. WorkStealing!PostFromOutside \/ WorkStealing!PostFromCoroutine => StealingAppends
  BY DEF WorkStealing!PostFromOutside, WorkStealing!PostFromCoroutine,
     WorkStealing!Post, StealingAppends
<1>2. WorkStealing!Spawn \/ WorkStealing!StopAll \/ WorkStealing!JoinNext \/ UNCHANGED WorkStealing!vars => StealingKeeps
  BY DEF WorkStealing!Spawn, WorkStealing!StopAll, WorkStealing!JoinNext,
     WorkStealing!vars, StealingKeeps
<1>3. ASSUME NEW w \in Workers
      PROVE  /\ WorkStealing!CheckStop(w) \/ WorkStealing!Resumed(w) => StealingKeeps
             /\ WorkStealing!TryGet(w) => StealingTakes \/ StealingKeeps
  BY DEF WorkStealing!CheckStop, WorkStealing!Resumed, WorkStealing!TryGet,
     StealingTakes, StealingKeeps
<1> QED
  BY <1>1, <1>2, <1>3 DEF WorkStealing!Next

StealingOrdered == global \in Seq(Nat) /\ ran \in Seq(Nat) /\ posts \in Nat /\ StealingInOrder

LEMMA StealingOrderKept ==
  ASSUME StealingOrdered, StealingAppends \/ StealingTakes \/ StealingKeeps
  PROVE  StealingOrdered'
<1>0. Len(global) \in Nat /\ Len(ran) \in Nat /\ Len(ran) + Len(global) = posts
  BY DEF StealingOrdered, StealingInOrder
<1>1. CASE StealingAppends
  <2>1. global' = Append(global, posts + 1) /\ posts' = posts + 1 /\ ran' = ran
    BY <1>1 DEF StealingAppends
  <2>2. global' \in Seq(Nat) /\ Len(global') = Len(global) + 1
    BY <2>1 DEF StealingOrdered
  <2>3. /\ global'[Len(global) + 1] = posts + 1
        /\ \A i \in 1..Len(global) : global'[i] = global[i]
    BY <1>0, <2>1 DEF StealingOrdered
  <2>4. SUFFICES ASSUME NEW i \in 1..Len(global) + 1
                 PROVE  global'[i] = Len(ran) + i
    BY <1>0, <2>1, <2>2 DEF StealingOrdered, StealingInOrder
  <2>5. CASE i = Len(global) + 1
    BY <1>0, <2>3, <2>5
  <2>6. CASE i # Len(global) + 1
    <3>1. i \in 1..Len(global)
      BY <1>0, <2>6
    <3> QED
      BY <2>3, <3>1 DEF StealingOrdered, StealingInOrder
  <2> QED
    BY <2>5, <2>6
<1>2. CASE StealingTakes
  <2>1. Len(global) > 0 /\ Head(global) = Len(ran) + 1
    BY <1>0, <1>2 DEF StealingTakes, StealingOrdered, StealingInOrder
  <2>2. ran' = Append(ran, Len(ran) + 1) /\ global' = Tail(global) /\ posts' = posts
    BY <1>2, <2>1 DEF StealingTakes
  <2>3. /\ global' \in Seq(Nat) /\ ran' \in Seq(Nat)
        /\ Len(global') = Len(global) - 1 /\ Len(ran') = Len(ran) + 1
    BY <1>0, <2>1, <2>2 DEF StealingOrdered
  <2>4. \A i \in 1..Len(ran') : ran'[i] = i
    <3>1. /\ ran'[Len(ran) + 1] = Len(ran) + 1
          /\ \A i \in 1..Len(ran) : ran'[i] = ran[i]
      BY <1>0, <2>2 DEF StealingOrdered
    <3>2. \A i \in 1..Len(ran') : i \in 1..Len(ran) \/ i = Len(ran) + 1
      BY <1>0, <2>3
    <3> QED
      BY <3>1, <3>2 DEF StealingOrdered, StealingInOrder
  <2>5. \A i \in 1..Len(global') : global'[i] = global[i + 1]
    BY <1>0, <2>1, <2>2, <2>3 DEF StealingOrdered
  <2>6. \A i \in 1..Len(global') : global'[i] = Len(ran') + i
    BY <1>0, <2>3, <2>5, SMTT(30) DEF StealingOrdered, StealingInOrder
  <2>7. StealingInOrder'
    BY <1>0, <2>2, <2>3, <2>4, <2>6 DEF StealingInOrder
  <2> QED
    BY <2>2, <2>3, <2>7 DEF StealingOrdered
<1>3. CASE StealingKeeps
  BY <1>3 DEF StealingKeeps, StealingOrdered, StealingInOrder
<1> QED
  BY <1>1, <1>2, <1>3

-----------------------------------------------------------------------------
(* The workers.                                                            *)

StealingWorking ==
  /\ stop \in BOOLEAN /\ joined \in Nat
  /\ worker \in [Workers -> StealingPlaces] /\ hand \in [Workers -> Nat]
  /\ StealingStopped

LEMMA StealingWorkersStop ==
  ASSUME StealingIInv, [WorkStealing!Next]_WorkStealing!vars
  PROVE  StealingWorking'
<1>0. /\ StealingWorking
      /\ Cardinality(Workers) \in Nat /\ Workers = 1..Cardinality(Workers)
      /\ WorkStealing!Cardinality(Workers) = Cardinality(Workers)
  BY WorkersAssumption, FS_CardinalityType, StealingCardinality
  DEF StealingIInv, StealingTyped, StealingWorking
<1>1. CASE WorkStealing!Spawn
  BY <1>0, <1>1 DEF WorkStealing!Spawn, StealingWorking, StealingStopped,
     StealingPlaces, WorkStealing!Go
<1>2. CASE WorkStealing!PostFromOutside \/ WorkStealing!PostFromCoroutine \/ UNCHANGED WorkStealing!vars
  BY <1>0, <1>2 DEF WorkStealing!PostFromOutside, WorkStealing!PostFromCoroutine,
     WorkStealing!Post, WorkStealing!vars, StealingWorking, StealingStopped
<1>3. CASE WorkStealing!StopAll
  BY <1>0, <1>3 DEF WorkStealing!StopAll, StealingWorking, StealingStopped
<1>4. CASE WorkStealing!JoinNext
  BY <1>0, <1>4 DEF WorkStealing!JoinNext, StealingWorking, StealingStopped
<1>5. ASSUME NEW w \in Workers, WorkStealing!CheckStop(w) PROVE StealingWorking'
  <2>1. worker[w] = "loop" /\ hand[w] = 0
    BY <1>0, <1>5 DEF WorkStealing!CheckStop, WorkStealing!Go, StealingWorking,
       StealingStopped
  <2> QED
    BY <1>0, <1>5, <2>1 DEF WorkStealing!CheckStop, WorkStealing!Go,
       StealingWorking, StealingStopped, StealingPlaces
<1>6. ASSUME NEW w \in Workers, WorkStealing!TryGet(w) PROVE StealingWorking'
  <2>1. worker[w] = "get" /\ ~ (w <= joined)
    BY <1>0, <1>6 DEF WorkStealing!TryGet, StealingWorking, StealingStopped
  <2>2. CASE WorkStealing!Go(w, "get", "loop") /\ UNCHANGED <<hand, stop, joined>>
    BY <1>0, <2>1, <2>2 DEF WorkStealing!Go, StealingWorking, StealingStopped,
       StealingPlaces
  <2>3. CASE WorkStealing!Go(w, "get", "resume") /\ UNCHANGED <<stop, joined>> /\ global # << >>
             /\ hand' = [hand EXCEPT ![w] = Head(global)]
    <3>1. Head(global) \in Nat
      BY <2>3 DEF StealingIInv, StealingTyped
    <3> QED
      BY <1>0, <2>1, <2>3, <3>1 DEF WorkStealing!Go, StealingWorking,
         StealingStopped, StealingPlaces
  <2> QED
    BY <1>6, <2>2, <2>3 DEF WorkStealing!TryGet
<1>7. ASSUME NEW w \in Workers, WorkStealing!Resumed(w) PROVE StealingWorking'
  BY <1>0, <1>7 DEF WorkStealing!Resumed, WorkStealing!Go, StealingWorking,
     StealingStopped, StealingPlaces
<1> QED
  BY <1>1, <1>2, <1>3, <1>4, <1>5, <1>6, <1>7 DEF WorkStealing!Next

-----------------------------------------------------------------------------
\* Elementwise order is the order of the histories.
LEMMA StealingConcatenated ==
  ASSUME StealingIInv
  PROVE  ran \o global = [i \in 1..posts |-> i]
<1>1. /\ global \in Seq(Nat) /\ ran \in Seq(Nat) /\ posts \in Nat
      /\ Len(global) \in Nat /\ Len(ran) \in Nat /\ Len(ran) + Len(global) = posts
  BY DEF StealingIInv, StealingTyped, StealingInOrder
<1>2. ran \o global \in Seq(Nat) /\ Len(ran \o global) = posts
  BY <1>1
<1> DEFINE all == [i \in 1..posts |-> i]
<1>3. all \in Seq(Nat) /\ Len(all) = posts
  BY <1>1
<1>4. ASSUME NEW i \in 1..posts PROVE (ran \o global)[i] = i
  <2>1. CASE i <= Len(ran)
    BY <1>1, <2>1 DEF StealingIInv, StealingInOrder
  <2>2. CASE i > Len(ran)
    <3>1. i - Len(ran) \in 1..Len(global)
      BY <1>1, <2>2
    <3>2. global[i - Len(ran)] = Len(ran) + (i - Len(ran))
      BY <3>1 DEF StealingIInv, StealingInOrder
    <3>3. (ran \o global)[i] = global[i - Len(ran)]
      BY <1>1, <2>2
    <3> QED
      BY <1>1, <3>2, <3>3
  <2> QED
    BY <1>1, <2>1, <2>2
<1> QED
  BY <1>2, <1>3, <1>4, SeqEqual

\* What was posted is taken once and in the order of the posts or is still queued, and no
\* worker has anything in hand once stop_all has joined them all.
LEMMA TakenInOrder == WorkStealing!Spec => []WorkStealing!TakenOnceInOrder
<1>0. Cardinality(Workers) \in Nat /\ Workers = 1..Cardinality(Workers)
  BY WorkersAssumption, FS_CardinalityType
<1>1. WorkStealing!Init => StealingIInv
  <2> SUFFICES ASSUME WorkStealing!Init PROVE StealingIInv
    OBVIOUS
  <2>1. global = << >> /\ ran = << >> /\ << >> \in Seq(Nat) /\ Len(<< >>) = 0
    BY DEF WorkStealing!Init
  <2>2. StealingTyped
    BY <2>1 DEF WorkStealing!Init, StealingTyped, StealingPlaces
  <2>3. StealingInOrder
    BY <2>1 DEF WorkStealing!Init, StealingInOrder
  <2>4. StealingStopped
    BY <1>0 DEF WorkStealing!Init, StealingStopped
  <2> QED
    BY <2>2, <2>3, <2>4 DEF StealingIInv
<1>2. StealingIInv /\ [WorkStealing!Next]_WorkStealing!vars => StealingIInv'
  BY StealingStepKinds, StealingOrderKept, StealingWorkersStop
  DEF StealingIInv, StealingOrdered, StealingWorking, StealingTyped
<1>3. StealingIInv => WorkStealing!TakenOnceInOrder
  <2> SUFFICES ASSUME StealingIInv PROVE WorkStealing!TakenOnceInOrder
    OBVIOUS
  <2>1. ASSUME joined = Cardinality(Workers), NEW w \in Workers PROVE hand[w] = 0
    BY <1>0, <2>1, SMTT(30) DEF StealingIInv, StealingTyped, StealingStopped
  <2> QED
    BY <2>1, StealingConcatenated, StealingCardinality DEF WorkStealing!TakenOnceInOrder
<1> QED
  BY <1>1, <1>2, <1>3, PTL DEF WorkStealing!Spec

-----------------------------------------------------------------------------
(* The interrupt source: what a fire has called and what it still calls    *)
(* are the handlers there were when it began, which rise.                  *)

Rising(s) == \A i, j \in 1..Len(s) : i < j => s[i] < s[j]

Split(c, l, b) ==
  /\ c \in Seq(Nat) /\ l \in Seq(Nat) /\ b \in Seq(Nat)
  /\ Len(c) + Len(l) = Len(b)
  /\ \A i \in 1..Len(c) : c[i] = b[i]
  /\ \A i \in 1..Len(l) : l[i] = b[Len(c) + i]
  /\ Rising(b)

IrqAttached ==
  /\ handlers \in Seq(Nat) /\ Rising(handlers)
  /\ count \in [attached : Nat, fired : Nat]
  /\ \A i \in 1..Len(handlers) : handlers[i] <= count.attached

IrqFiring ==
  /\ DOMAIN called = DOMAIN left /\ DOMAIN began = DOMAIN left
  /\ \A t \in DOMAIN left : Split(called[t], left[t], began[t])

IrqIInv == IrqAttached /\ IrqFiring

LEMMA SplitAtFirst ==
  ASSUME NEW s \in Seq(Nat), Rising(s)
  PROVE  Split(<< >>, s, s)
<1>1. << >> \in Seq(Nat) /\ Len(<< >>) = 0 /\ Len(s) \in Nat
  OBVIOUS
<1> QED
  BY <1>1 DEF Split

LEMMA SplitMoves ==
  ASSUME NEW c, NEW l, NEW b, Split(c, l, b), l # << >>
  PROVE  Split(Append(c, Head(l)), Tail(l), b)
<1> DEFINE n == Len(c) + 1
           called2 == Append(c, Head(l))
           left2 == Tail(l)
<1>1. /\ c \in Seq(Nat) /\ l \in Seq(Nat) /\ b \in Seq(Nat)
      /\ Len(c) \in Nat /\ Len(l) \in Nat \ {0} /\ Len(b) = Len(c) + Len(l)
  BY DEF Split
<1>2. Head(l) = b[n] /\ Head(l) \in Nat
  <2>1. 1 \in 1..Len(l) /\ Head(l) = l[1] /\ l[1] \in Nat
    BY <1>1
  <2>2. l[1] = b[Len(c) + 1]
    BY <2>1 DEF Split
  <2> QED
    BY <2>1, <2>2
<1>3. called2 \in Seq(Nat) /\ left2 \in Seq(Nat) /\ Len(called2) = n /\ Len(left2) = Len(l) - 1
  <2>1. called2 \in Seq(Nat) /\ Len(called2) = n
    BY <1>1, <1>2, AppendProperties
  <2>2. left2 \in Seq(Nat) /\ Len(left2) = Len(l) - 1
    BY <1>1, HeadTailProperties
  <2> QED
    BY <2>1, <2>2
<1>4. \A i \in 1..n : called2[i] = b[i]
  <2>1. called2[n] = Head(l) /\ \A i \in 1..Len(c) : called2[i] = c[i]
    BY <1>1, <1>2
  <2>2. \A i \in 1..n : i \in 1..Len(c) \/ i = n
    BY <1>1, OneLonger
  <2> QED
    BY <1>2, <2>1, <2>2 DEF Split
<1>5. \A i \in 1..Len(left2) : left2[i] = b[n + i]
  <2>1. SUFFICES ASSUME NEW i \in 1..Len(l) - 1 PROVE left2[i] = b[n + i]
    BY <1>3
  <2>2. left2[i] = l[i + 1] /\ i + 1 \in 1..Len(l)
    BY <1>1
  <2>3. l[i + 1] = b[Len(c) + (i + 1)]
    BY <2>2 DEF Split
  <2>4. Len(c) + (i + 1) = n + i
    BY <1>1
  <2> QED
    BY <2>2, <2>3, <2>4
<1> HIDE DEF called2, left2
<1>6. Rising(b)
  BY DEF Split
<1> QED
  BY <1>1, <1>3, <1>4, <1>5, <1>6 DEF Split, called2, left2

LEMMA IrqAttaches ==
  ASSUME IrqIInv, [IrqSource!Next]_IrqSource!vars
  PROVE  IrqAttached'
<1>0. /\ handlers \in Seq(Nat) /\ Rising(handlers) /\ Len(handlers) \in Nat
      /\ count.attached \in Nat /\ count.fired \in Nat
      /\ count = [attached |-> count.attached, fired |-> count.fired]
  BY DEF IrqIInv, IrqAttached
<1>1. CASE IrqSource!Attach
  <2> DEFINE n == count.attached + 1
  <2>1. count' = [attached |-> n, fired |-> count.fired] /\ handlers' = Append(handlers, n)
    BY <1>0, <1>1 DEF IrqSource!Attach
  <2>2. /\ handlers' \in Seq(Nat) /\ Len(handlers') = Len(handlers) + 1
        /\ handlers'[Len(handlers) + 1] = n
        /\ \A i \in 1..Len(handlers) : handlers'[i] = handlers[i]
    BY <1>0, <2>1
  <2>3. \A i \in 1..Len(handlers) : handlers[i] \in Nat /\ handlers[i] < n
    BY <1>0 DEF IrqIInv, IrqAttached
  <2>4. \A i \in 1..Len(handlers') : i \in 1..Len(handlers) \/ i = Len(handlers) + 1
    BY <1>0, <2>2, OneLonger
  <2>5. Rising(handlers')
    <3>1. ASSUME NEW i \in 1..Len(handlers'), NEW j \in 1..Len(handlers'), i < j
          PROVE  handlers'[i] < handlers'[j]
      <4>1. i \in 1..Len(handlers)
        BY <1>0, <2>2, <2>4, <3>1
      <4>2. CASE j = Len(handlers) + 1
        BY <2>2, <2>3, <4>1, <4>2
      <4>3. CASE j \in 1..Len(handlers)
        BY <1>0, <2>2, <3>1, <4>1, <4>3 DEF Rising
      <4> QED
        BY <2>4, <4>2, <4>3
    <3> QED
      BY <3>1 DEF Rising
  <2> QED
    BY <1>0, <2>1, <2>2, <2>3, <2>4, <2>5 DEF IrqAttached
<1>2. CASE IrqSource!Clear
  BY <1>0, <1>2 DEF IrqSource!Clear, IrqAttached, IrqIInv, Rising
<1>3. ASSUME NEW t \in Firers, IrqSource!Fire(t) PROVE IrqAttached'
  BY <1>0, <1>3 DEF IrqSource!Fire, IrqAttached, IrqIInv, Rising
<1>4. CASE UNCHANGED <<handlers, count>>
  BY <1>4 DEF IrqAttached, IrqIInv, Rising
<1> QED
  BY <1>1, <1>2, <1>3, <1>4 DEF IrqSource!Next, IrqSource!Call, IrqSource!FireReturns, IrqSource!vars

LEMMA IrqFires ==
  ASSUME IrqIInv, [IrqSource!Next]_IrqSource!vars
  PROVE  IrqFiring'
<1>1. CASE UNCHANGED <<left, called, began>>
  BY <1>1 DEF IrqFiring, IrqIInv
<1>2. ASSUME NEW t \in Firers, IrqSource!Fire(t) PROVE IrqFiring'
  <2>1. Split(<< >>, handlers, handlers)
    BY SplitAtFirst DEF IrqIInv, IrqAttached
  <2> QED
    BY <1>2, <2>1 DEF IrqSource!Fire, IrqSource!With, IrqFiring, IrqIInv
<1>3. ASSUME NEW t \in Firers, IrqSource!Call(t) PROVE IrqFiring'
  <2>1. t \in DOMAIN left /\ Split(Append(called[t], Head(left[t])), Tail(left[t]), began[t])
    BY <1>3, SplitMoves DEF IrqSource!Call, IrqSource!Firing, IrqFiring, IrqIInv
  <2> QED
    BY <1>3, <2>1 DEF IrqSource!Call, IrqFiring, IrqIInv
<1>4. ASSUME NEW t \in Firers, IrqSource!FireReturns(t) PROVE IrqFiring'
  BY <1>4 DEF IrqSource!FireReturns, IrqSource!Without, IrqFiring, IrqIInv
<1> QED
  BY <1>1, <1>2, <1>3, <1>4
  DEF IrqSource!Next, IrqSource!Attach, IrqSource!Clear, IrqSource!vars

\* What a fire calls are the handlers it began with, in order.
LEMMA FiresCallAll ==
  IrqSource!Spec => []IrqSource!CallsWhatItBeganWith
<1>1. IrqSource!Init => IrqIInv
  <2> SUFFICES ASSUME IrqSource!Init PROVE IrqIInv
    OBVIOUS
  <2>1. /\ handlers \in Seq(Nat) /\ Len(handlers) = 0 /\ DOMAIN left = {}
        /\ called = left /\ began = left /\ count \in [attached : Nat, fired : Nat]
    BY DEF IrqSource!Init
  <2> QED
    BY <2>1 DEF IrqIInv, IrqAttached, IrqFiring, Rising
<1>2. IrqIInv /\ [IrqSource!Next]_IrqSource!vars => IrqIInv'
  BY IrqAttaches, IrqFires DEF IrqIInv
<1>3. IrqIInv => IrqSource!CallsWhatItBeganWith
  <2> SUFFICES ASSUME IrqIInv, NEW t \in DOMAIN left
               PROVE  /\ called[t] \o left[t] = began[t]
                      /\ \A i, j \in DOMAIN called[t] : i < j => called[t][i] < called[t][j]
    BY DEF IrqSource!CallsWhatItBeganWith, IrqSource!Firing
  <2> DEFINE c == called[t]
             l == left[t]
             b == began[t]
  <2>1. Split(c, l, b)
    BY DEF IrqIInv, IrqFiring
  <2> HIDE DEF c, l, b
  <2>2. /\ c \in Seq(Nat) /\ l \in Seq(Nat) /\ b \in Seq(Nat)
        /\ Len(c) \in Nat /\ Len(l) \in Nat /\ Len(b) = Len(c) + Len(l)
    BY <2>1 DEF Split
  <2>3. c \o l = b
    <3>1. c \o l \in Seq(Nat) /\ Len(c \o l) = Len(b)
      BY <2>2
    <3>2. ASSUME NEW i \in 1..Len(b) PROVE (c \o l)[i] = b[i]
      <4>1. CASE i <= Len(c)
        BY <2>1, <2>2, <4>1 DEF Split
      <4>2. CASE i > Len(c)
        <5>1. i - Len(c) \in 1..Len(l) /\ Len(c) + (i - Len(c)) = i
          BY <2>2, <4>2
        <5>2. l[i - Len(c)] = b[i]
          BY <2>1, <5>1 DEF Split
        <5>3. (c \o l)[i] = l[i - Len(c)]
          BY <2>2, <4>2
        <5> QED
          BY <5>2, <5>3
      <4> QED
        BY <2>2, <4>1, <4>2
    <3> QED
      BY <2>2, <3>1, <3>2, SeqEqual
  <2>4. \A i, j \in DOMAIN c : i < j => c[i] < c[j]
    <3>1. \A i \in DOMAIN c : i \in 1..Len(c) /\ i \in 1..Len(b)
      BY <2>2
    <3>2. \A i \in DOMAIN c : c[i] = b[i]
      BY <2>1, <3>1 DEF Split
    <3> QED
      BY <2>1, <3>1, <3>2 DEF Split, Rising
  <2> QED
    BY <2>3, <2>4 DEF c, l, b
<1> QED
  BY <1>1, <1>2, <1>3, PTL DEF IrqSource!Spec

\* Every coroutine posted, from outside or by a coroutine, during the shutdown too, is
\* taken once and in the order of the posts or is still queued; none is in hand once
\* stop_all has joined the workers; and a fire calls each handler there was when it
\* began once, in order, whatever is attached, cleared or fired meanwhile.
THEOREM EachOneOnce == ActivitiesSpec => []EachOnce
<1>1. WorkStealing!TakenOnceInOrder /\ IrqSource!CallsWhatItBeganWith => EachOnce
  BY DEF EachOnce
<1> QED
  BY <1>1, TakenInOrder, FiresCallAll, Alone, PTL

-----------------------------------------------------------------------------
(* The channel.                                                            *)

LEMMA ChannelCardinality == \A S : Channel!Cardinality(S) = Cardinality(S)
  BY DEF Cardinality, Channel!Cardinality, IsFiniteSet, Channel!IsFiniteSet

ChannelTyped ==
  /\ queue \in Seq(Nat) /\ got \in Seq(Nat) /\ sent \in Nat
  /\ closed \in BOOLEAN
  /\ waiting \in SUBSET Receivers /\ woken \in SUBSET Receivers
  /\ waiting \cap woken = {}

\* What was received and what is queued are the values sent, in order.
ChannelInOrder ==
  /\ Len(got) + Len(queue) = sent
  /\ \A i \in 1..Len(got) : got[i] = i
  /\ \A i \in 1..Len(queue) : queue[i] = Len(got) + i

OnItsWay == waiting # {} => ~closed /\ Len(queue) <= Cardinality(woken)

ChannelIInv == ChannelTyped /\ ChannelInOrder /\ OnItsWay

-----------------------------------------------------------------------------
(* Every step appends a value, takes one, or leaves both sequences alone.  *)

ChannelAppends ==
  /\ ~closed /\ closed' = closed /\ sent < MaxSends
  /\ sent' = sent + 1
  /\ queue' = Append(queue, sent + 1)
  /\ got' = got

ChannelTakes == Channel!Pop /\ closed' = closed /\ sent' = sent

ChannelKeeps ==
  /\ UNCHANGED <<queue, got, sent>>
  /\ closed' = closed \/ closed' = TRUE

LEMMA ChannelStepKinds ==
  ASSUME [Channel!Next]_Channel!vars
  PROVE  ChannelAppends \/ ChannelTakes \/ ChannelKeeps
<1>1. Channel!Send => ChannelAppends
  BY DEF Channel!Send, ChannelAppends
<1>2. Channel!TryRecv => ChannelTakes
  BY DEF Channel!TryRecv, ChannelTakes
<1>3. Channel!Close \/ UNCHANGED Channel!vars => ChannelKeeps
  BY DEF Channel!Close, ChannelKeeps, Channel!vars
<1>4. ASSUME NEW r \in Receivers
      PROVE  /\ Channel!RecvAtOnce(r) \/ Channel!RecvTakes(r) => ChannelTakes
             /\ Channel!TimeOut(r) \/ Channel!RecvFindsNothing(r) => ChannelKeeps
             /\ \A limit \in BOOLEAN : Channel!RecvWaits(r, limit) => ChannelKeeps
  BY <1>2 DEF Channel!RecvAtOnce, Channel!RecvTakes, Channel!TimeOut,
     Channel!RecvFindsNothing, Channel!RecvWaits, ChannelTakes, ChannelKeeps
<1> QED
  BY <1>1, <1>2, <1>3, <1>4 DEF Channel!Next

LEMMA ChannelOrderKept ==
  ASSUME ChannelTyped, ChannelInOrder,
         ChannelAppends \/ ChannelTakes \/ ChannelKeeps
  PROVE  /\ queue' \in Seq(Nat) /\ got' \in Seq(Nat) /\ sent' \in Nat
         /\ closed' \in BOOLEAN
         /\ ChannelInOrder'
<1>1. CASE ChannelAppends
  <2>1. Len(queue) \in Nat /\ Len(got) \in Nat /\ sent \in Nat /\ queue \in Seq(Nat)
    BY DEF ChannelTyped
  <2>2. queue' = Append(queue, sent + 1) /\ sent' = sent + 1 /\ got' = got
    BY <1>1 DEF ChannelAppends
  <2>3. queue' \in Seq(Nat) /\ Len(queue') = Len(queue) + 1
    BY <2>1, <2>2
  <2>4. Len(got) + Len(queue) = sent
    BY DEF ChannelInOrder
  <2>5. /\ queue'[Len(queue) + 1] = sent + 1
        /\ \A i \in 1..Len(queue) : queue'[i] = queue[i]
    BY <2>1, <2>2
  <2>6. \A i \in 1..Len(queue') : queue'[i] = Len(got') + i
    <3>1. \A i \in 1..Len(queue) : queue[i] = Len(got) + i
      BY DEF ChannelInOrder
    <3>2. SUFFICES ASSUME NEW i \in 1..Len(queue) + 1
                   PROVE  queue'[i] = Len(got) + i
      BY <2>1, <2>2, <2>3
    <3>3. CASE i = Len(queue) + 1
      BY <2>1, <2>4, <2>5, <3>3
    <3>4. CASE i # Len(queue) + 1
      <4>1. i \in 1..Len(queue)
        BY <2>1, <3>4
      <4> QED
        BY <2>5, <3>1, <4>1
    <3> QED
      BY <3>3, <3>4
  <2>7. ChannelInOrder'
    BY <2>1, <2>2, <2>3, <2>4, <2>6 DEF ChannelInOrder
  <2> QED
    BY <1>1, <2>2, <2>3, <2>7 DEF ChannelAppends, ChannelTyped
<1>2. CASE ChannelTakes
  <2>1. Len(queue) \in Nat \ {0} /\ Len(got) \in Nat
    BY <1>2 DEF ChannelTakes, Channel!Pop, ChannelTyped
  <2>2. Head(queue) = Len(got) + 1
    BY <1>2, <2>1 DEF ChannelTakes, Channel!Pop, ChannelTyped, ChannelInOrder
  <2>3. got' = Append(got, Len(got) + 1) /\ queue' = Tail(queue)
    BY <1>2, <2>2 DEF ChannelTakes, Channel!Pop
  <2>4. queue' \in Seq(Nat) /\ got' \in Seq(Nat)
    BY <2>1, <2>3 DEF ChannelTyped
  <2>5. Len(queue') = Len(queue) - 1 /\ Len(got') = Len(got) + 1
    BY <2>1, <2>3 DEF ChannelTyped
  <2>6. \A i \in 1..Len(got') : got'[i] = i
    BY <2>1, <2>3, <2>5 DEF ChannelTyped, ChannelInOrder
  <2>7. \A i \in 1..Len(queue') : queue'[i] = queue[i + 1]
    BY <2>1, <2>3, <2>5 DEF ChannelTyped
  <2>8. \A i \in 1..Len(queue') : queue'[i] = Len(got') + i
    BY <2>1, <2>5, <2>7 DEF ChannelInOrder
  <2>9. ChannelInOrder'
    <3>1. sent' = sent /\ Len(got) + Len(queue) = sent
      BY <1>2 DEF ChannelTakes, ChannelInOrder
    <3> QED
      BY <2>1, <2>5, <2>6, <2>8, <3>1 DEF ChannelInOrder
  <2> QED
    BY <1>2, <2>1, <2>4, <2>9 DEF ChannelTakes, ChannelTyped
<1>3. CASE ChannelKeeps
  BY <1>3 DEF ChannelKeeps, ChannelTyped, ChannelInOrder
<1> QED
  BY <1>1, <1>2, <1>3

-----------------------------------------------------------------------------
(* A receiver joins or leaves those that are on their way.                 *)

LEMMA ChannelOneMore ==
  ASSUME IsFiniteSet(Receivers), ChannelTyped, NEW r \in waiting
  PROVE  /\ woken \cup {r} \in SUBSET Receivers
         /\ Cardinality(woken \cup {r}) = Cardinality(woken) + 1
         /\ Cardinality(woken) \in Nat
<1>1. IsFiniteSet(woken) /\ r \notin woken
  BY FS_Subset DEF ChannelTyped
<1>2. woken \cup {r} \in SUBSET Receivers
  BY DEF ChannelTyped
<1>3. Cardinality(woken) \in Nat /\ Cardinality(woken \cup {r}) = Cardinality(woken) + 1
  BY <1>1, FS_AddElement, FS_CardinalityType
<1> QED
  BY <1>2, <1>3

LEMMA ChannelOneLess ==
  ASSUME IsFiniteSet(Receivers), ChannelTyped, NEW r \in woken
  PROVE  /\ Cardinality(woken \ {r}) = Cardinality(woken) - 1
         /\ Cardinality(woken) \in Nat
<1>1. IsFiniteSet(woken)
  BY FS_Subset DEF ChannelTyped
<1> QED
  BY <1>1, FS_RemoveElement, FS_CardinalityType DEF ChannelTyped

ChannelParking == waiting \in SUBSET Receivers /\ woken \in SUBSET Receivers /\ waiting \cap woken = {}

LEMMA ChannelSendWakes ==
  ASSUME IsFiniteSet(Receivers), ChannelIInv, Channel!Send
  PROVE  ChannelParking' /\ OnItsWay'
<1>1. ChannelTyped /\ Len(queue') = Len(queue) + 1 /\ Len(queue) \in Nat
  BY DEF ChannelIInv, ChannelTyped, Channel!Send
<1>2. CASE waiting = {}
  BY <1>1, <1>2 DEF Channel!Send, Channel!NotifyOne, ChannelTyped, ChannelParking,
     OnItsWay
<1>3. CASE waiting # {}
  <2>1. PICK r \in waiting : waiting' = waiting \ {r} /\ woken' = woken \cup {r}
    BY <1>3 DEF Channel!Send, Channel!NotifyOne
  <2>2. Cardinality(woken') = Cardinality(woken) + 1 /\ Cardinality(woken) \in Nat
    BY <1>1, <2>1, ChannelOneMore
  <2>3. Len(queue) <= Cardinality(woken) /\ ~closed /\ ~closed'
    BY <1>3 DEF ChannelIInv, OnItsWay, Channel!Send
  <2> QED
    BY <1>1, <2>1, <2>2, <2>3 DEF ChannelTyped, ChannelParking,
       OnItsWay
<1> QED
  BY <1>2, <1>3

LEMMA ChannelReceiverSteps ==
  ASSUME IsFiniteSet(Receivers), ChannelIInv, NEW r \in Receivers,
         \/ Channel!TimeOut(r) \/ Channel!RecvTakes(r) \/ Channel!RecvFindsNothing(r)
         \/ \E limit \in BOOLEAN : Channel!RecvWaits(r, limit)
  PROVE  ChannelParking' /\ OnItsWay'
<1>0. ChannelTyped /\ Len(queue) \in Nat /\ IsFiniteSet(woken)
  BY FS_Subset DEF ChannelIInv, ChannelTyped
<1>1. CASE Channel!TimeOut(r)
  <2>1. Cardinality(woken') = Cardinality(woken) + 1 /\ Cardinality(woken) \in Nat
    BY <1>0, <1>1, ChannelOneMore DEF Channel!TimeOut
  <2> QED
    BY <1>0, <1>1, <2>1 DEF Channel!TimeOut, ChannelIInv, ChannelTyped,
       ChannelParking, OnItsWay
<1>2. CASE Channel!RecvTakes(r)
  <2>1. Cardinality(woken') = Cardinality(woken) - 1 /\ Cardinality(woken) \in Nat
    BY <1>0, <1>2, ChannelOneLess DEF Channel!RecvTakes
  <2>2. Len(queue') = Len(queue) - 1
    BY <1>0, <1>2 DEF Channel!RecvTakes, Channel!Pop, ChannelTyped
  <2> QED
    BY <1>0, <1>2, <2>1, <2>2 DEF Channel!RecvTakes, ChannelIInv, ChannelTyped,
       ChannelParking, OnItsWay
<1>3. CASE Channel!RecvFindsNothing(r)
  <2>1. Len(queue') = 0 /\ woken' = woken \ {r} /\ closed' = closed
    BY <1>3 DEF Channel!RecvFindsNothing
  <2>2. IsFiniteSet(woken') /\ Cardinality(woken') \in Nat
    BY <1>0, <2>1, FS_RemoveElement, FS_CardinalityType
  <2> QED
    BY <1>0, <1>3, <2>1, <2>2 DEF Channel!RecvFindsNothing, ChannelIInv,
       ChannelTyped, ChannelParking, OnItsWay
<1>4. CASE \E limit \in BOOLEAN : Channel!RecvWaits(r, limit)
  <2>1. Len(queue') = 0 /\ woken' = woken /\ closed' = closed /\ Cardinality(woken) \in Nat
    BY <1>0, <1>4, FS_CardinalityType DEF Channel!RecvWaits
  <2> QED
    BY <1>0, <1>4, <2>1 DEF Channel!RecvWaits, Channel!Idle, ChannelIInv,
       ChannelTyped, ChannelParking, OnItsWay
<1> QED
  BY <1>1, <1>2, <1>3, <1>4

LEMMA ChannelOtherSteps ==
  ASSUME IsFiniteSet(Receivers), ChannelIInv,
         Channel!TryRecv \/ Channel!Close \/ UNCHANGED Channel!vars
  PROVE  ChannelParking' /\ OnItsWay'
<1>1. ChannelTyped /\ Cardinality(woken) \in Nat /\ Len(queue) \in Nat
  BY FS_Subset, FS_CardinalityType DEF ChannelIInv, ChannelTyped
<1>2. CASE Channel!TryRecv
  <2>1. Len(queue') = Len(queue) - 1
    BY <1>1, <1>2 DEF Channel!TryRecv, Channel!Pop, ChannelTyped
  <2> QED
    BY <1>1, <1>2, <2>1 DEF Channel!TryRecv, ChannelIInv, ChannelTyped,
       ChannelParking, OnItsWay
<1>3. CASE Channel!Close
  BY <1>1, <1>3 DEF Channel!Close, ChannelTyped, ChannelParking,
     OnItsWay
<1>4. CASE UNCHANGED Channel!vars
  BY <1>1, <1>4 DEF Channel!vars, ChannelIInv, ChannelTyped, ChannelParking,
     OnItsWay
<1> QED
  BY <1>2, <1>3, <1>4

-----------------------------------------------------------------------------
LEMMA ChannelInvariance ==
  ASSUME IsFiniteSet(Receivers)
  PROVE  Channel!Spec => []ChannelIInv
<1>1. Channel!Init => ChannelIInv
  <2> SUFFICES ASSUME Channel!Init PROVE ChannelIInv
    OBVIOUS
  <2>1. ChannelTyped /\ Len(queue) = 0 /\ Len(got) = 0
    <3>1. queue = << >> /\ got = << >> /\ waiting = {} /\ woken = {}
      BY DEF Channel!Init
    <3>2. << >> \in Seq(Nat) /\ Len(<< >>) = 0
      OBVIOUS
    <3> QED
      BY <3>1, <3>2 DEF Channel!Init, ChannelTyped
  <2>2. ChannelInOrder
    BY <2>1 DEF Channel!Init, ChannelInOrder
  <2> QED
    BY <2>1, <2>2 DEF Channel!Init, ChannelIInv, OnItsWay
<1>2. ChannelIInv /\ [Channel!Next]_Channel!vars => ChannelIInv'
  <2> SUFFICES ASSUME ChannelIInv, [Channel!Next]_Channel!vars PROVE ChannelIInv'
    OBVIOUS
  <2>1. /\ queue' \in Seq(Nat) /\ got' \in Seq(Nat) /\ sent' \in Nat
        /\ closed' \in BOOLEAN
        /\ ChannelInOrder'
    BY ChannelStepKinds, ChannelOrderKept DEF ChannelIInv
  <2>2. ChannelParking' /\ OnItsWay'
    BY ChannelSendWakes, ChannelReceiverSteps, ChannelOtherSteps DEF Channel!Next,
       Channel!RecvAtOnce
  <2> QED
    BY <2>1, <2>2 DEF ChannelIInv, ChannelTyped, ChannelParking
<1> QED
  BY <1>1, <1>2, PTL DEF Channel!Spec

\* One notify_one per value is enough, whoever times out, polls or finds the value gone:
\* a receiver that waits has as many others on their way as there are values, and none
\* waits on a closed channel.
THEOREM NoValueIsLeft == ActivitiesSpec => []ReceiverOnItsWay
<1>1. ChannelIInv => ReceiverOnItsWay
  BY ChannelCardinality
  DEF ChannelIInv, OnItsWay, ReceiverOnItsWay, Channel!ReceiverOnItsWay
<1>2. Channel!Spec => []ChannelIInv
  BY ReceiversAssumption, ChannelInvariance
<1> QED
  BY <1>1, <1>2, Alone, PTL

\* The channel implements the abstract FIFO channel: values are received in the order
\* they were sent, once each, and none is taken in after close.
THEOREM ImplementsFifo == ActivitiesSpec => ChannelIsFifo
<1>0. MaxSends \in Nat
  BY ReceiversAssumption
<1>1. Channel!Init => Channel!Fifo!Init
  BY DEF Channel!Init, Channel!Fifo!Init
<1>2. ChannelIInv /\ [Channel!Next]_Channel!vars => [Channel!Fifo!Next]_Channel!Fifo!vars
  <2> SUFFICES ASSUME ChannelIInv, [Channel!Next]_Channel!vars PROVE [Channel!Fifo!Next]_Channel!Fifo!vars
    OBVIOUS
  <2> DEFINE history == [i \in 1..sent |-> i]
  <2>0. history \in Seq(Nat) /\ Len(history) = sent /\ sent \in Nat /\ Len(got) \in Nat
    BY DEF ChannelIInv, ChannelTyped
  <2>1. Len(got) + Len(queue) = sent /\ Len(queue) \in Nat
    BY DEF ChannelIInv, ChannelTyped, ChannelInOrder
  <2>2. CASE ChannelAppends
    <3>1. [i \in 1..sent |-> i]' = Append(history, sent + 1)
      BY <2>0, <2>2 DEF ChannelAppends
    <3>2. Len(history) + 1 - Len(got) \in 1..MaxSends /\ sent + 1 \in 1..MaxSends
      BY <1>0, <2>0, <2>1, <2>2 DEF ChannelAppends
    <3>3. PICK m \in 1..MaxSends : m = sent + 1
      BY <3>2
    <3>4. Channel!Fifo!Send(m)
      BY <2>2, <3>1, <3>2, <3>3 DEF ChannelAppends, Channel!Fifo!Send
    <3> QED
      BY <3>4 DEF Channel!Fifo!Next
  <2>3. CASE ChannelTakes
    <3>1. Len(queue) > 0 /\ Head(queue) = Len(got) + 1
      BY <2>1, <2>3 DEF ChannelTakes, Channel!Pop, ChannelIInv, ChannelTyped,
         ChannelInOrder
    <3>2. Len(got) < Len(history) /\ history[Len(got) + 1] = Len(got) + 1
      BY <2>0, <2>1, <3>1
    <3>3. got' = Append(got, history[Len(got) + 1])
      BY <2>3, <3>1, <3>2 DEF ChannelTakes, Channel!Pop
    <3>4. [i \in 1..sent |-> i]' = history
      BY <2>3 DEF ChannelTakes
    <3>5. Channel!Fifo!Receive
      BY <2>3, <3>2, <3>3, <3>4 DEF ChannelTakes, Channel!Fifo!Receive
    <3> QED
      BY <3>5 DEF Channel!Fifo!Next
  <2>4. CASE ChannelKeeps
    <3>1. [i \in 1..sent |-> i]' = history /\ got' = got
      BY <2>4 DEF ChannelKeeps
    <3> QED
      BY <2>4, <3>1 DEF ChannelKeeps, Channel!Fifo!Next, Channel!Fifo!Shut,
         Channel!Fifo!vars
  <2> QED
    BY <2>2, <2>3, <2>4, ChannelStepKinds
<1>3. Channel!Spec => []ChannelIInv
  BY ReceiversAssumption, ChannelInvariance
<1> QED
  BY <1>1, <1>2, <1>3, Alone, PTL
  DEF Channel!Spec, ChannelIsFifo, Channel!ChannelIsFifo, Channel!Fifo!Spec

-----------------------------------------------------------------------------
(* The cluster.  What the callbacks told is told step by step.             *)

Peer == [status : Cluster!Statuses, incarnation : Nat, seen : Nat]

Telling == [status : Cluster!Statuses, revivals : Nat, missed : BOOLEAN]

ClusterTyped ==
  /\ peers \in [DOMAIN peers -> Peer] /\ told \in [DOMAIN peers -> Telling]
  /\ clock \in Nat

\* One peer, and what was told of it.
Told(m, t) ==
  ~t.missed => /\ m.status \notin {"Leaving", "Left"} => t.status = m.status
               /\ m.incarnation = 1 + t.revivals

ClusterIInv == ClusterTyped /\ \A p \in DOMAIN peers : Told(peers[p], told[p])

Hooked(s) == s \in DOMAIN Cluster!Hook /\ Cluster!Hook[s] \in hooks

LEMMA Hooks == Cluster!Hook = [Alive |-> "revive", Suspect |-> "suspect", Dead |-> "leave"]
  BY DEF Cluster!Hook

LEMMA HookNames == DOMAIN Cluster!Hook = {"Alive", "Suspect", "Dead"}
  BY DEF Cluster!Hook

\* What is told of a peer whose status becomes s.
Retold(t, s) ==
  IF s \notin DOMAIN Cluster!Hook THEN t
  ELSE IF Hooked(s)
  THEN [status |-> s, revivals |-> IF s = "Alive" THEN t.revivals + 1 ELSE t.revivals,
        missed |-> t.missed]
  ELSE [status |-> t.status, revivals |-> t.revivals, missed |-> TRUE]

LEMMA TellsRetold ==
  ASSUME NEW p, NEW s
  PROVE  Cluster!Tells(p, s) = [told EXCEPT ![p] = Retold(told[p], s)]
<1>1. CASE s \notin DOMAIN Cluster!Hook
  BY <1>1 DEF Cluster!Tells, Retold
<1>2. CASE s \in DOMAIN Cluster!Hook /\ Cluster!Hook[s] \in hooks
  BY <1>2 DEF Cluster!Tells, Retold, Hooked
<1>3. CASE s \in DOMAIN Cluster!Hook /\ Cluster!Hook[s] \notin hooks
  BY <1>3 DEF Cluster!Tells, Retold, Hooked
<1> QED
  BY <1>1, <1>2, <1>3

\* A change of status as ping and mark make it: a revival counts, unless mark makes it
\* with no callback to tell it, which is one that is missed.
LEMMA TellingKeepsTold ==
  ASSUME NEW m \in Peer, NEW t \in Telling, Told(m, t), NEW s \in Cluster!Statuses,
         NEW seen \in Nat, NEW n \in Nat,
         \/ n = IF s = "Alive" THEN m.incarnation + 1 ELSE m.incarnation
         \/ s = "Alive" /\ ~Hooked(s)
  PROVE  LET m2 == [status |-> s, seen |-> seen, incarnation |-> n]
         IN  m2 \in Peer /\ Retold(t, s) \in Telling /\ Told(m2, Retold(t, s))
<1> DEFINE m2 == [status |-> s, seen |-> seen, incarnation |-> n]
<1>1. m2 \in Peer /\ m.incarnation \in Nat /\ t.revivals \in Nat
  BY DEF Peer, Telling
<1>2. CASE s \notin DOMAIN Cluster!Hook
  <2>1. s \in {"Leaving", "Left"} /\ n = m.incarnation /\ Retold(t, s) = t
    BY <1>2, HookNames DEF Retold, Cluster!Statuses
  <2> QED
    BY <1>1, <2>1 DEF Told
<1>3. CASE Hooked(s)
  <2>1. n = IF s = "Alive" THEN m.incarnation + 1 ELSE m.incarnation
    BY <1>3
  <2>2. Retold(t, s) =
          [status |-> s, revivals |-> IF s = "Alive" THEN t.revivals + 1 ELSE t.revivals,
           missed |-> t.missed]
    BY <1>3 DEF Retold, Hooked
  <2> QED
    BY <1>1, <2>1, <2>2 DEF Told, Telling
<1>4. CASE s \in DOMAIN Cluster!Hook /\ ~Hooked(s)
  <2>1. Retold(t, s) = [status |-> t.status, revivals |-> t.revivals, missed |-> TRUE]
    BY <1>4 DEF Retold
  <2> QED
    BY <1>1, <2>1 DEF Told, Telling
<1> QED
  BY <1>2, <1>3, <1>4 DEF Hooked

\* A step that changes one peer, or none, keeps the invariant if it does for that peer.
LEMMA OnePeer ==
  ASSUME ClusterIInv, NEW p \in DOMAIN peers, NEW m \in Peer, NEW t \in Telling, Told(m, t),
         peers' = [peers EXCEPT ![p] = m], told' = [told EXCEPT ![p] = t], clock' = clock
  PROVE  ClusterIInv'
  BY DEF ClusterIInv, ClusterTyped

\* An operation on one peer: ping, or suspect, dead, leave and the like.
LEMMA PeerSteps ==
  ASSUME ClusterIInv, NEW p, Cluster!Ping(p) \/ \E s \in Cluster!Statuses : Cluster!Mark(p, s)
  PROVE  ClusterIInv'
<1> DEFINE m == peers[p]
           t == told[p]
<1>1. p \in DOMAIN peers /\ m \in Peer /\ t \in Telling /\ Told(m, t) /\ clock \in Nat
  BY DEF ClusterIInv, ClusterTyped, Cluster!Ping, Cluster!Mark, Cluster!MayRevive, Cluster!Known
<1>2. told = [told EXCEPT ![p] = t]
  BY <1>1 DEF ClusterIInv, ClusterTyped
<1>3. CASE Cluster!Ping(p) /\ m.status \in {"Suspect", "Dead"}
  <2> DEFINE m2 == [status |-> "Alive", seen |-> clock, incarnation |-> m.incarnation + 1]
             t2 == Retold(t, "Alive")
  <2>1. peers' = [peers EXCEPT ![p] = m2]
    BY <1>1, <1>3 DEF Cluster!Ping, Peer, ClusterIInv, ClusterTyped
  <2>2. told' = [told EXCEPT ![p] = t2]
    BY <1>1, <1>3, TellsRetold DEF Cluster!Ping, ClusterIInv, ClusterTyped
  <2>3. clock' = clock /\ "Alive" \in Cluster!Statuses
    BY <1>3 DEF Cluster!Ping, Cluster!Statuses
  <2>4. m.incarnation + 1 \in Nat
    BY <1>1 DEF Peer
  <2>5. m2 \in Peer /\ t2 \in Telling /\ Told(m2, t2)
    BY <1>1, <2>3, <2>4, TellingKeepsTold
  <2> HIDE DEF m2, t2
  <2> QED
    BY <1>1, <2>1, <2>2, <2>3, <2>5, OnePeer
<1>4. CASE Cluster!Ping(p) /\ m.status \notin {"Suspect", "Dead"}
  <2>1. peers' = [peers EXCEPT ![p] = [status |-> m.status, seen |-> clock,
                                       incarnation |-> m.incarnation]]
    BY <1>1, <1>4 DEF Cluster!Ping, Peer, ClusterIInv, ClusterTyped
  <2>2. told' = told /\ clock' = clock
    BY <1>4 DEF Cluster!Ping
  <2> DEFINE m2 == [status |-> m.status, seen |-> clock, incarnation |-> m.incarnation]
  <2>3. m2 \in Peer /\ Told(m2, t)
    BY <1>1 DEF Peer, Told
  <2> QED
    BY <1>1, <1>2, <2>1, <2>2, <2>3, OnePeer
<1>5. ASSUME NEW s \in Cluster!Statuses, Cluster!Mark(p, s) PROVE ClusterIInv'
  <2> DEFINE n == IF s = "Alive" /\ "revive" \in hooks THEN m.incarnation + 1 ELSE m.incarnation
             m2 == [status |-> s, seen |-> m.seen, incarnation |-> n]
             t2 == Retold(t, s)
  <2>1. peers' = [peers EXCEPT ![p] = m2]
    BY <1>1, <1>5 DEF Cluster!Mark, Peer, ClusterIInv, ClusterTyped
  <2>2. told' = [told EXCEPT ![p] = t2]
    BY <1>1, <1>5, TellsRetold DEF Cluster!Mark, ClusterIInv, ClusterTyped
  <2>3. clock' = clock /\ m.seen \in Nat /\ n \in Nat
    BY <1>1, <1>5 DEF Cluster!Mark, Peer
  <2>4. \/ n = IF s = "Alive" THEN m.incarnation + 1 ELSE m.incarnation
        \/ s = "Alive" /\ ~Hooked(s)
    BY Hooks DEF Hooked
  <2> HIDE DEF n
  <2>5. m2 \in Peer /\ t2 \in Telling /\ Told(m2, t2)
    BY <1>1, <2>3, <2>4, TellingKeepsTold
  <2> HIDE DEF m2, t2
  <2> QED
    BY <1>1, <2>1, <2>2, <2>3, <2>5, OnePeer
<1> QED
  BY <1>1, <1>3, <1>4, <1>5

LEMMA ClusterSteps ==
  ASSUME ClusterIInv, [Cluster!Next]_Cluster!vars
  PROVE  ClusterIInv'
<1>1. CASE Cluster!Local \/ Cluster!Stop \/ UNCHANGED Cluster!vars
           \/ \E t \in Timeouts : Cluster!Configure(t)
  <2>1. UNCHANGED <<peers, told, clock>>
    BY <1>1 DEF Cluster!Local, Cluster!Stop, Cluster!Configure, Cluster!vars
  <2> QED
    BY <2>1 DEF ClusterIInv, ClusterTyped
<1>2. CASE Cluster!Tick
  BY <1>2 DEF Cluster!Tick, ClusterIInv, ClusterTyped
<1>3. ASSUME NEW D \in SUBSET Others, NEW s \in {"Alive", "Suspect"},
             NEW H \in HookSets, Cluster!Start([p \in D |-> s], H)
      PROVE  ClusterIInv'
  <2> DEFINE all == DOMAIN peers \cup D
             m == [status |-> s, incarnation |-> 1, seen |-> clock]
             t == [status |-> s, revivals |-> 0, missed |-> "join" \notin H]
  <2>1. /\ peers' = [p \in all |-> IF p \in D THEN m ELSE peers[p]]
        /\ told' = [p \in all |-> IF p \in D THEN t ELSE told[p]]
        /\ clock' = clock
    BY <1>3 DEF Cluster!Start, Cluster!Member, Cluster!Known
  <2>2. m \in Peer /\ t \in Telling /\ Told(m, t) /\ clock \in Nat
    BY DEF Peer, Telling, Told, ClusterIInv, ClusterTyped, Cluster!Statuses
  <2> HIDE DEF m, t
  <2> QED
    BY <2>1, <2>2 DEF ClusterIInv, ClusterTyped
<1>4. ASSUME NEW dt, Cluster!Advance(dt) PROVE ClusterIInv'
  <2>1. ASSUME NEW p \in DOMAIN peers
        PROVE  /\ peers'[p] \in Peer /\ told'[p] \in Telling
               /\ Told(peers'[p], told'[p])
    <3> DEFINE m == peers[p]
               t == told[p]
               s == Cluster!Aged(p, dt)
    <3>1. m \in Peer /\ t \in Telling /\ Told(m, t)
      BY DEF ClusterIInv, ClusterTyped
    <3>2. s \in {"Dead", "Suspect", m.status}
      BY DEF Cluster!Aged
    <3>3. peers'[p] = [m EXCEPT !.status = s]
      BY <1>4 DEF Cluster!Advance, Cluster!Known
    <3>4. CASE s = m.status
      <4>1. told'[p] = t /\ peers'[p] = m
        BY <1>4, <3>1, <3>3, <3>4 DEF Cluster!Advance, Cluster!Known, Peer
      <4> QED
        BY <3>1, <4>1
    <3>5. CASE s # m.status
      <4>1. told'[p] = Cluster!Tells(p, s)[p]
        BY <1>4, <3>5 DEF Cluster!Advance, Cluster!Known
      <4>2. /\ s \in {"Dead", "Suspect"} /\ s \in Cluster!Statuses /\ p \in DOMAIN told
            /\ m.seen \in Nat /\ m.incarnation \in Nat
        BY <3>1, <3>2, <3>5 DEF ClusterIInv, ClusterTyped, Cluster!Statuses, Peer
      <4> HIDE DEF s
      <4>3. told'[p] = Retold(t, s)
        BY <3>1, <4>1, <4>2, TellsRetold
      <4>4. peers'[p] = [status |-> s, seen |-> m.seen, incarnation |-> m.incarnation]
        BY <3>1, <3>3 DEF Peer
      <4>5. m.incarnation = IF s = "Alive" THEN m.incarnation + 1 ELSE m.incarnation
        BY <4>2
      <4> HIDE DEF m, t
      <4> QED
        BY <3>1, <4>2, <4>3, <4>4, <4>5, TellingKeepsTold
    <3> QED
      BY <3>4, <3>5
  <2>2. /\ peers' = [p \in DOMAIN peers |-> peers'[p]] /\ told' = [p \in DOMAIN peers |-> told'[p]]
        /\ clock' = clock
    BY <1>4 DEF Cluster!Advance, Cluster!Known
  <2> QED
    BY <2>1, <2>2 DEF ClusterIInv, ClusterTyped
<1> QED
  BY <1>1, <1>2, <1>3, <1>4, PeerSteps DEF Cluster!Next

\* Whatever is pinged, marked, overwritten, aged and revived, in whatever order, and with
\* whatever callbacks are set: whoever has missed none of what happened to a peer knows its
\* status, unless it is Leaving or Left (for which HostCluster::mark has no callback), and
\* can count its incarnations.
THEOREM CallbacksTellTheStatus == ActivitiesSpec => []CallbacksTell
<1>1. Cluster!Init => ClusterIInv
  BY DEF Cluster!Init, ClusterIInv, ClusterTyped
<1>2. ClusterIInv => CallbacksTell
  BY HookNames DEF ClusterIInv, Told, CallbacksTell, Cluster!CallbacksTell, Cluster!Known
<1> QED
  BY <1>1, <1>2, ClusterSteps, Alone, PTL DEF Cluster!Spec

-----------------------------------------------------------------------------
(* The multilevel scheduler.  A submitter holds a node that is the best it *)
(* has read, with the load it read there.  The node has been given, or may *)
(* still be given by those that hold it at a load of at most v, no more    *)
(* than v and one for each submitter, whatever v is at or above what any   *)
(* other node has been given and one for each submitter.                   *)

Many == Cardinality(Submitters)

Flights == {"chosen", "queued", "posted", "unqueued"}
Scans == {"pick", "add"}

Best == [next : Nat, seen : Nat, node : Nat, load : Nat]

LevelsTyped ==
  /\ queued \in [Nodes -> Nat] /\ given \in [Nodes -> Nat] /\ posted \in [Nodes -> Nat]
  /\ stage \in [Submitters -> Flights \cup Scans \cup {"idle"}]
  /\ best \in [Submitters -> Best]

\* The submitters that are in one of the stages P with node n.
In(P, n) == {s \in Submitters : stage[s] \in P /\ best[s].node = n}

Holders(n, v) ==
  {s \in Submitters : stage[s] \in Scans /\ best[s].node = n /\ best[s].load <= v}

\* What a node was given: what runs there, and the submissions on their way to that.
Total(n) == given[n] + Cardinality(In(Flights, n))

Scanning ==
  \A s \in Submitters :
    /\ stage[s] \in Flights => best[s].node \in Nodes
    /\ stage[s] \in Scans =>
         /\ best[s].next \in Nodes
         /\ best[s].node < best[s].next
         /\ best[s].node = 0 <=> best[s].next = 1
    /\ stage[s] = "idle" => best[s].node = 0
    /\ stage[s] = "add" => best[s].seen <= Many

Counted ==
  \A n \in Nodes :
    /\ queued[n] = Cardinality(In({"queued", "posted"}, n))
    /\ posted[n] = given[n] + Cardinality(In({"posted", "unqueued"}, n))

\* The best load is not above that of any node read, miscounted by one for each submitter.
NoneWasBetter ==
  \A s \in Submitters, m \in Nodes :
    stage[s] \in Scans /\ m < best[s].next => best[s].load <= Total(m) + Many

KeptInBounds ==
  \A n \in Nodes \ PinnedNodes, m \in Nodes, v \in Nat :
    v >= Total(m) + Many => Total(n) + Cardinality(Holders(n, v)) <= v + Many

LevelsIInv == LevelsTyped /\ Scanning /\ Counted /\ NoneWasBetter /\ KeptInBounds

LEMMA LevelsCardinality == \A S : Multilevel!Cardinality(S) = Cardinality(S)
  BY DEF Cardinality, Multilevel!Cardinality

LEMMA SubmittersCounted ==
  /\ Many \in Nat
  /\ \A S \in SUBSET Submitters :
       IsFiniteSet(S) /\ Cardinality(S) \in Nat /\ Cardinality(S) <= Many
  BY LevelsAssumption, FS_Subset, FS_CardinalityType DEF Many

One(condition) == IF condition THEN 1 ELSE 0

LEMMA OneChanges ==
  ASSUME NEW S \in SUBSET Submitters, NEW T \in SUBSET Submitters, NEW s \in Submitters,
         S \ {s} = T \ {s}
  PROVE  Cardinality(T) = Cardinality(S) + One(s \in T) - One(s \in S)
<1>1. IsFiniteSet(S) /\ IsFiniteSet(T) /\ Cardinality(S) \in Nat /\ Cardinality(T) \in Nat
  BY SubmittersCounted
<1>2. s \in S => Cardinality(S \ {s}) = Cardinality(S) - 1
  BY <1>1, FS_RemoveElement
<1>3. s \in T => Cardinality(T \ {s}) = Cardinality(T) - 1
  BY <1>1, FS_RemoveElement
<1>4. (s \notin S => S \ {s} = S) /\ (s \notin T => T \ {s} = T)
  OBVIOUS
<1>5. CASE s \in S /\ s \in T
  <2>1. Cardinality(S) - 1 = Cardinality(T) - 1
    BY <1>2, <1>3, <1>5
  <2> QED
    BY <2>1, <1>1, <1>5 DEF One
<1>6. CASE s \in S /\ s \notin T
  <2>1. Cardinality(S) - 1 = Cardinality(T)
    BY <1>2, <1>4, <1>6
  <2> QED
    BY <2>1, <1>1, <1>6 DEF One
<1>7. CASE s \notin S /\ s \in T
  <2>1. Cardinality(S) = Cardinality(T) - 1
    BY <1>3, <1>4, <1>7
  <2> QED
    BY <2>1, <1>1, <1>7 DEF One
<1>8. CASE s \notin S /\ s \notin T
  <2>1. S = T
    BY <1>4, <1>8
  <2> QED
    BY <2>1, <1>1, <1>8 DEF One
<1> QED
  BY <1>5, <1>6, <1>7, <1>8

\* Submitter s goes to a stage with a record b; all others are where they were.
Moves(s, to, b) ==
  /\ stage' = [stage EXCEPT ![s] = to] /\ best' = [best EXCEPT ![s] = b]
  /\ to \in Flights \cup Scans \cup {"idle"} /\ b \in Best

LEMMA CountMoves ==
  ASSUME LevelsTyped, NEW s \in Submitters, NEW to, NEW b, Moves(s, to, b), NEW P, NEW n
  PROVE  /\ Cardinality(In(P, n)) \in Nat
         /\ Cardinality(In(P, n))' = Cardinality(In(P, n)) + One(to \in P /\ b.node = n)
                                       - One(stage[s] \in P /\ best[s].node = n)
<1>1. In(P, n) \in SUBSET Submitters /\ In(P, n)' \in SUBSET Submitters
  BY DEF In
<1>2. In(P, n) \ {s} = In(P, n)' \ {s}
  BY DEF In, Moves, LevelsTyped
<1>3. /\ s \in In(P, n) <=> stage[s] \in P /\ best[s].node = n
      /\ s \in In(P, n)' <=> to \in P /\ b.node = n
  BY DEF In, Moves, LevelsTyped
<1> QED
  BY <1>1, <1>2, <1>3, OneChanges, SubmittersCounted DEF One

LEMMA HoldersMove ==
  ASSUME LevelsTyped, NEW s \in Submitters, NEW to, NEW b, Moves(s, to, b), NEW n, NEW v
  PROVE  /\ Cardinality(Holders(n, v)) \in Nat
         /\ Cardinality(Holders(n, v))' =
              Cardinality(Holders(n, v)) + One(to \in Scans /\ b.node = n /\ b.load <= v)
                - One(stage[s] \in Scans /\ best[s].node = n /\ best[s].load <= v)
<1>1. Holders(n, v) \in SUBSET Submitters /\ Holders(n, v)' \in SUBSET Submitters
  BY DEF Holders
<1>2. Holders(n, v) \ {s} = Holders(n, v)' \ {s}
  BY DEF Holders, Moves, LevelsTyped
<1>3. /\ s \in Holders(n, v) <=> stage[s] \in Scans /\ best[s].node = n /\ best[s].load <= v
      /\ s \in Holders(n, v)' <=> to \in Scans /\ b.node = n /\ b.load <= v
  BY DEF Holders, Moves, LevelsTyped
<1> QED
  BY <1>1, <1>2, <1>3, OneChanges, SubmittersCounted DEF One

\* Nobody is on the way to a node and holds it as well.
LEMMA AtMostAll ==
  ASSUME NEW n, NEW v
  PROVE  Cardinality(In(Flights, n)) + Cardinality(Holders(n, v)) <= Many
<1> DEFINE F == In(Flights, n)
           H == Holders(n, v)
<1>1. F \in SUBSET Submitters /\ H \in SUBSET Submitters /\ F \cap H = {}
  BY DEF In, Holders, Flights, Scans
<1> HIDE DEF F, H
<1>2. Cardinality(F \cup H) = Cardinality(F) + Cardinality(H) - Cardinality(F \cap H)
  BY <1>1, SubmittersCounted, FS_Union
<1>3. Cardinality(F \cap H) = 0
  BY <1>1, FS_EmptySet
<1>4. F \cup H \in SUBSET Submitters
  BY <1>1
<1>5. /\ Cardinality(F) \in Nat /\ Cardinality(H) \in Nat /\ Many \in Nat
      /\ Cardinality(F \cup H) <= Many
  BY <1>1, <1>4, SubmittersCounted
<1>6. Cardinality(F) + Cardinality(H) <= Many
  BY <1>2, <1>3, <1>5
<1> QED
  BY <1>6 DEF F, H

\* The nodes are counted from 1.
LEMMA NodesFromOne ==
  /\ Nodes \subseteq Nat \ {0} /\ 1 \in Nodes
  /\ \A n \in Nodes : 1..n \subseteq Nodes
  /\ \A n, m \in Nodes : m < n + 1 /\ n + 1 \notin Nodes => m <= n
<1>1. Cardinality(Nodes) \in Nat /\ Nodes = 1..Cardinality(Nodes) /\ Nodes # {}
  BY LevelsAssumption, FS_CardinalityType
<1> QED
  BY <1>1

\* What the submitter holds when it has compared with the node it looks at.
Compared(s) ==
  LET b == best[s]
      load == b.seen + given[b.next]
  IN  [next |-> b.next + 1, seen |-> 0,
       node |-> IF b.node = 0 \/ load < b.load THEN b.next ELSE b.node,
       load |-> IF b.node = 0 \/ load < b.load THEN load ELSE b.load]

LEMMA ComparedOf ==
  ASSUME LevelsTyped, Scanning, NEW s \in Submitters, stage[s] = "add"
  PROVE  /\ Compared(s) \in Best
         /\ Compared(s).next = best[s].next + 1 /\ Compared(s).next \in Nat /\ Compared(s).next > 1
         /\ Compared(s).node \in Nodes /\ Compared(s).node < Compared(s).next
         /\ \/ /\ Compared(s).node = best[s].next
               /\ Compared(s).load = best[s].seen + given[best[s].next]
               /\ best[s].node = 0 \/ Compared(s).load < best[s].load
            \/ /\ Compared(s).node = best[s].node /\ Compared(s).load = best[s].load
               /\ best[s].load <= best[s].seen + given[best[s].next]
         /\ best[s] \in Best /\ best[s].next \in Nodes /\ best[s].seen <= Many
         /\ best[s].node < best[s].next /\ (best[s].node = 0 => best[s].next = 1)
<1>1. /\ best[s] \in Best /\ best[s].next \in Nodes /\ best[s].seen <= Many
      /\ best[s].node < best[s].next /\ (best[s].node = 0 <=> best[s].next = 1)
  BY DEF LevelsTyped, Scanning, Scans
<1>2. best[s].next \in Nat \ {0} /\ best[s].next \in Nodes
  BY <1>1, NodesFromOne
<1>3. given[best[s].next] \in Nat
  BY <1>2 DEF LevelsTyped
<1>4. best[s].node # 0 => best[s].node \in Nodes
  BY <1>1, <1>2, NodesFromOne DEF Best
<1>5. best[s].node \in Nat /\ best[s].load \in Nat /\ best[s].seen \in Nat
  BY <1>1 DEF Best
<1> QED
  BY <1>1, <1>2, <1>3, <1>4, <1>5 DEF Compared, Best

LEMMA LevelsInit == Multilevel!Init => LevelsIInv
<1> SUFFICES ASSUME Multilevel!Init PROVE LevelsIInv
  OBVIOUS
<1> USE DEF Multilevel!Init, Multilevel!Fresh
<1>1. LevelsTyped
  BY DEF LevelsTyped, Best
<1>2. Scanning /\ NoneWasBetter
  BY DEF Scanning, NoneWasBetter, Flights, Scans
<1>3. \A P, n : "idle" \notin P => Cardinality(In(P, n)) = 0
  BY FS_EmptySet DEF In
<1>4. \A n, v : Cardinality(Holders(n, v)) = 0
  BY FS_EmptySet DEF Holders, Scans
<1>5. Counted
  BY <1>3 DEF Counted
<1>6. \A n \in Nodes : Total(n) = 0
  BY <1>3 DEF Total, Flights
<1>7. KeptInBounds
  BY <1>4, <1>6, SubmittersCounted DEF KeptInBounds
<1> QED
  BY <1>1, <1>2, <1>5, <1>7 DEF LevelsIInv

\* What each step does: s moves, and at most one count of one node is changed.
Counts(dq, dg, dp) ==
  /\ queued' \in [Nodes -> Int] /\ given' \in [Nodes -> Int] /\ posted' \in [Nodes -> Int]
  /\ \A n \in Nodes : /\ queued'[n] = queued[n] + dq[n]
                      /\ given'[n] = given[n] + dg[n]
                      /\ posted'[n] = posted[n] + dp[n]

None == [n \in Nodes |-> 0]
Just(k, d) == [n \in Nodes |-> IF n = k THEN d ELSE 0]

Step(s, from, to, b, dq, dg, dp) ==
  stage[s] = from /\ Moves(s, to, b) /\ Counts(dq, dg, dp)

StepOf(s) ==
  LET b == best[s]
  IN  \/ Step(s, "idle", "pick", Multilevel!Fresh, None, None, None)
      \/ \E n \in PinnedNodes :
           Step(s, "idle", "chosen", [Multilevel!Fresh EXCEPT !.node = n], None, None, None)
      \/ Step(s, "pick", "add", [b EXCEPT !.seen = queued[b.next]], None, None, None)
      \/ /\ b.next + 1 \in Nodes
         /\ Step(s, "add", "pick", Compared(s), None, None, None)
      \/ /\ b.next + 1 \notin Nodes
         /\ Step(s, "add", "chosen", Compared(s), None, None, None)
      \/ Step(s, "chosen", "queued", b, Just(b.node, 1), None, None)
      \/ Step(s, "queued", "posted", b, None, None, Just(b.node, 1))
      \/ Step(s, "posted", "unqueued", b, Just(b.node, -1), None, None)
      \/ Step(s, "unqueued", "idle", Multilevel!Fresh, None, Just(b.node, 1), None)

LEMMA StepsOf ==
  ASSUME LevelsTyped, Scanning, Multilevel!Next
  PROVE  \E s \in Submitters : StepOf(s)
<1> PICK s \in Submitters :
      \/ Multilevel!Submit(s) \/ \E n \in PinnedNodes : Multilevel!SubmitTo(s, n)
      \/ Multilevel!LoadQueued(s) \/ Multilevel!LoadRunning(s) \/ Multilevel!Queue(s)
      \/ Multilevel!Post(s) \/ Multilevel!Unqueue(s) \/ Multilevel!Run(s)
  BY DEF Multilevel!Next
<1>1. Multilevel!Fresh \in Best /\ best[s] \in Best /\ best = [best EXCEPT ![s] = best[s]]
  BY DEF Multilevel!Fresh, Best, LevelsTyped
<1>2. /\ UNCHANGED queued => /\ queued' \in [Nodes -> Int]
                             /\ \A n \in Nodes : queued'[n] = queued[n] + None[n]
      /\ UNCHANGED given => /\ given' \in [Nodes -> Int]
                            /\ \A n \in Nodes : given'[n] = given[n] + None[n]
      /\ UNCHANGED posted => /\ posted' \in [Nodes -> Int]
                             /\ \A n \in Nodes : posted'[n] = posted[n] + None[n]
  BY DEF None, LevelsTyped
<1>3. UNCHANGED <<queued, given, posted>> => Counts(None, None, None)
  BY <1>2 DEF Counts
<1>4. ASSUME Multilevel!Submit(s) PROVE StepOf(s)
  <2>1. Step(s, "idle", "pick", Multilevel!Fresh, None, None, None)
    BY <1>1, <1>3, <1>4 DEF Multilevel!Submit, Multilevel!Go, Step, Moves, Scans
  <2> QED
    BY <2>1 DEF StepOf
<1>5. ASSUME NEW n \in PinnedNodes, Multilevel!SubmitTo(s, n) PROVE StepOf(s)
  <2>1. n \in Nat
    BY LevelsAssumption, NodesFromOne
  <2>2. [Multilevel!Fresh EXCEPT !.node = n] \in Best
    BY <2>1 DEF Multilevel!Fresh, Best
  <2>3. Step(s, "idle", "chosen", [Multilevel!Fresh EXCEPT !.node = n], None, None, None)
    BY <2>2, <1>3, <1>5 DEF Multilevel!SubmitTo, Multilevel!Go, Step, Moves, Flights
  <2> QED
    BY <2>3 DEF StepOf
<1>6. ASSUME Multilevel!LoadQueued(s) PROVE StepOf(s)
  <2>1. stage[s] = "pick"
    BY <1>6 DEF Multilevel!LoadQueued, Multilevel!Go
  <2>2. queued[best[s].next] \in Nat
    BY <2>1 DEF LevelsTyped, Scanning, Scans
  <2>3. [best[s] EXCEPT !.seen = queued[best[s].next]] \in Best
    BY <2>2, <1>1 DEF Best
  <2>4. best' = [best EXCEPT ![s] = [best[s] EXCEPT !.seen = queued[best[s].next]]]
    BY <1>6 DEF Multilevel!LoadQueued, LevelsTyped
  <2>5. Step(s, "pick", "add", [best[s] EXCEPT !.seen = queued[best[s].next]], None, None, None)
    BY <2>3, <2>4, <1>3, <1>6 DEF Multilevel!LoadQueued, Multilevel!Go, Step, Moves, Scans
  <2> QED
    BY <2>5 DEF StepOf
<1>7. ASSUME Multilevel!LoadRunning(s) PROVE StepOf(s)
  <2>1. stage[s] = "add"
    BY <1>7 DEF Multilevel!LoadRunning, Multilevel!Go
  <2>2. best' = [best EXCEPT ![s] = Compared(s)]
    BY <1>7 DEF Multilevel!LoadRunning, Multilevel!Better, Compared
  <2>3. Compared(s) \in Best
    BY <2>1, ComparedOf
  <2>4. CASE best[s].next + 1 \in Nodes
    <3>1. Step(s, "add", "pick", Compared(s), None, None, None)
      BY <2>2, <2>3, <2>4, <1>3, <1>7 DEF Multilevel!LoadRunning, Multilevel!Go, Step, Moves, Scans
    <3> QED
      BY <3>1, <2>4 DEF StepOf
  <2>5. CASE best[s].next + 1 \notin Nodes
    <3>1. Step(s, "add", "chosen", Compared(s), None, None, None)
      BY <2>2, <2>3, <2>5, <1>3, <1>7 DEF Multilevel!LoadRunning, Multilevel!Go, Step, Moves, Flights
    <3> QED
      BY <3>1, <2>5 DEF StepOf
  <2> QED
    BY <2>4, <2>5
<1>8. ASSUME Multilevel!Queue(s) PROVE StepOf(s)
  <2>1. Counts(Just(best[s].node, 1), None, None)
    BY <1>2, <1>8 DEF Multilevel!Queue, Counts, Just, LevelsTyped
  <2>2. Step(s, "chosen", "queued", best[s], Just(best[s].node, 1), None, None)
    BY <2>1, <1>1, <1>8 DEF Multilevel!Queue, Multilevel!Go, Step, Moves, Flights
  <2> QED
    BY <2>2 DEF StepOf
<1>9. ASSUME Multilevel!Post(s) PROVE StepOf(s)
  <2>1. Counts(None, None, Just(best[s].node, 1))
    BY <1>2, <1>9 DEF Multilevel!Post, Counts, Just, LevelsTyped
  <2>2. Step(s, "queued", "posted", best[s], None, None, Just(best[s].node, 1))
    BY <2>1, <1>1, <1>9 DEF Multilevel!Post, Multilevel!Go, Step, Moves, Flights
  <2> QED
    BY <2>2 DEF StepOf
<1>10. ASSUME Multilevel!Unqueue(s) PROVE StepOf(s)
  <2>1. Counts(Just(best[s].node, -1), None, None)
    BY <1>2, <1>10 DEF Multilevel!Unqueue, Counts, Just, LevelsTyped
  <2>2. Step(s, "posted", "unqueued", best[s], Just(best[s].node, -1), None, None)
    BY <2>1, <1>1, <1>10 DEF Multilevel!Unqueue, Multilevel!Go, Step, Moves, Flights
  <2> QED
    BY <2>2 DEF StepOf
<1>11. ASSUME Multilevel!Run(s) PROVE StepOf(s)
  <2>1. Counts(None, Just(best[s].node, 1), None)
    BY <1>2, <1>11 DEF Multilevel!Run, Counts, Just, LevelsTyped
  <2>2. Step(s, "unqueued", "idle", Multilevel!Fresh, None, Just(best[s].node, 1), None)
    BY <2>1, <1>1, <1>11 DEF Multilevel!Run, Multilevel!Go, Step, Moves
  <2> QED
    BY <2>2 DEF StepOf
<1> QED
  BY <1>4, <1>5, <1>6, <1>7, <1>8, <1>9, <1>10, <1>11

\* What s is counted for before and after it moves, where only the stages in P count.
Change(s, to, b, P, n) ==
  One(to \in P /\ b.node = n) - One(stage[s] \in P /\ best[s].node = n)

LEMMA CountedIf ==
  ASSUME LevelsTyped, Counted, NEW s \in Submitters, NEW to, NEW b, Moves(s, to, b),
         NEW dq, NEW dg, NEW dp, Counts(dq, dg, dp),
         \A n \in Nodes : /\ dg[n] \in Nat
                          /\ dq[n] = Change(s, to, b, {"queued", "posted"}, n)
                          /\ dp[n] = dg[n] + Change(s, to, b, {"posted", "unqueued"}, n)
  PROVE  Counted' /\ LevelsTyped'
<1> DEFINE Q(n) == Cardinality(In({"queued", "posted"}, n))
           R(n) == Cardinality(In({"posted", "unqueued"}, n))
<1>1. \A n : /\ Q(n) \in Nat /\ Q(n)' = Q(n) + Change(s, to, b, {"queued", "posted"}, n)
             /\ R(n) \in Nat /\ R(n)' = R(n) + Change(s, to, b, {"posted", "unqueued"}, n)
  <2> TAKE n
  <2>1. /\ Q(n) \in Nat
        /\ Q(n)' = Q(n) + One(to \in {"queued", "posted"} /\ b.node = n)
                     - One(stage[s] \in {"queued", "posted"} /\ best[s].node = n)
    BY CountMoves
  <2>2. /\ R(n) \in Nat
        /\ R(n)' = R(n) + One(to \in {"posted", "unqueued"} /\ b.node = n)
                     - One(stage[s] \in {"posted", "unqueued"} /\ best[s].node = n)
    BY CountMoves
  <2> HIDE DEF Q, R
  <2> QED
    BY <2>1, <2>2 DEF Change, One
<1>2. \A n : Q(n)' \in Nat /\ R(n)' \in Nat
  <2> TAKE n
  <2>1. In({"queued", "posted"}, n)' \in SUBSET Submitters
    BY DEF In
  <2>2. In({"posted", "unqueued"}, n)' \in SUBSET Submitters
    BY DEF In
  <2> QED
    BY <2>1, <2>2, SubmittersCounted
<1>3. \A n \in Nodes : queued[n] = Q(n) /\ posted[n] = given[n] + R(n) /\ given[n] \in Nat
  BY DEF Counted, LevelsTyped
<1> HIDE DEF Q, R
<1>4. ASSUME NEW n \in Nodes
      PROVE  queued'[n] = Q(n)' /\ posted'[n] = given'[n] + R(n)' /\ given'[n] \in Nat
  <2>1. /\ dg[n] \in Nat /\ dq[n] = Change(s, to, b, {"queued", "posted"}, n)
        /\ dp[n] = dg[n] + Change(s, to, b, {"posted", "unqueued"}, n)
    OBVIOUS
  <2>2. /\ queued'[n] = queued[n] + dq[n] /\ given'[n] = given[n] + dg[n]
        /\ posted'[n] = posted[n] + dp[n]
    BY DEF Counts
  <2>3. \A P : Change(s, to, b, P, n) \in Int
    BY DEF Change, One
  <2> QED
    BY <2>1, <2>2, <2>3, <1>1, <1>3
<1>5. Counted'
  BY <1>4 DEF Counted, Q, R
<1>6. \A n \in Nodes : queued'[n] \in Nat /\ given'[n] \in Nat /\ posted'[n] \in Nat
  BY <1>2, <1>4
<1>7. queued' \in [Nodes -> Nat] /\ given' \in [Nodes -> Nat] /\ posted' \in [Nodes -> Nat]
  BY <1>6 DEF Counts
<1> QED
  BY <1>5, <1>7 DEF LevelsTyped, Moves

LEMMA CountedKept ==
  ASSUME LevelsTyped, Counted, NEW s \in Submitters, StepOf(s)
  PROVE  Counted' /\ LevelsTyped'
<1> USE DEF None, Just, Step, Change, One
<1>1. CASE Step(s, "idle", "pick", Multilevel!Fresh, None, None, None)
  BY <1>1, CountedIf
<1>2. ASSUME NEW n \in PinnedNodes,
             Step(s, "idle", "chosen", [Multilevel!Fresh EXCEPT !.node = n], None, None, None)
      PROVE  Counted' /\ LevelsTyped'
  BY <1>2, CountedIf
<1>3. CASE Step(s, "pick", "add", [best[s] EXCEPT !.seen = queued[best[s].next]],
                None, None, None)
  BY <1>3, CountedIf
<1>4. CASE Step(s, "add", "pick", Compared(s), None, None, None)
  BY <1>4, CountedIf
<1>5. CASE Step(s, "add", "chosen", Compared(s), None, None, None)
  BY <1>5, CountedIf
<1>6. CASE Step(s, "chosen", "queued", best[s], Just(best[s].node, 1), None, None)
  BY <1>6, CountedIf
<1>7. CASE Step(s, "queued", "posted", best[s], None, None, Just(best[s].node, 1))
  BY <1>7, CountedIf
<1>8. CASE Step(s, "posted", "unqueued", best[s], Just(best[s].node, -1), None, None)
  BY <1>8, CountedIf
<1>9. CASE Step(s, "unqueued", "idle", Multilevel!Fresh, None, Just(best[s].node, 1), None)
  BY <1>9, CountedIf
<1> QED
  BY <1>1, <1>2, <1>3, <1>4, <1>5, <1>6, <1>7, <1>8, <1>9 DEF StepOf

LEMMA ScanningKept ==
  ASSUME LevelsTyped, Scanning, Counted, NEW s \in Submitters, StepOf(s)
  PROVE  Scanning'
<1>1. \A n \in Nodes : queued[n] <= Many
  <2> TAKE n \in Nodes
  <2>1. In({"queued", "posted"}, n) \in SUBSET Submitters
    BY DEF In
  <2> QED
    BY <2>1, SubmittersCounted DEF Counted
<1> SUFFICES ASSUME NEW q \in Submitters
             PROVE  /\ stage'[q] \in Flights => best'[q].node \in Nodes
                    /\ stage'[q] \in Scans =>
                         /\ best'[q].next \in Nodes
                         /\ best'[q].node < best'[q].next
                         /\ best'[q].node = 0 <=> best'[q].next = 1
                    /\ stage'[q] = "idle" => best'[q].node = 0
                    /\ stage'[q] = "add" => best'[q].seen <= Many
  BY SubmittersCounted DEF Scanning
<1>2. CASE q # s
  <2>1. stage'[q] = stage[q] /\ best'[q] = best[q]
    BY <1>2 DEF StepOf, Step, Moves, LevelsTyped
  <2> QED
    BY <2>1 DEF Scanning
<1>3. CASE q = s
  <2>0. ASSUME NEW to, NEW b, Moves(s, to, b) PROVE stage'[s] = to /\ best'[s] = b
    BY <2>0 DEF Moves, LevelsTyped
  <2>1. CASE Step(s, "idle", "pick", Multilevel!Fresh, None, None, None)
    BY <2>0, <2>1, <1>3, NodesFromOne DEF Step, Multilevel!Fresh, Flights
  <2>2. ASSUME NEW n \in PinnedNodes,
               Step(s, "idle", "chosen", [Multilevel!Fresh EXCEPT !.node = n], None, None, None)
        PROVE  stage'[s] = "chosen" /\ best'[s].node \in Nodes
    BY <2>0, <2>2, LevelsAssumption DEF Step, Multilevel!Fresh
  <2>3. CASE Step(s, "pick", "add", [best[s] EXCEPT !.seen = queued[best[s].next]],
                  None, None, None)
    <3>1. best[s] \in Best /\ best[s].next \in Nodes /\ queued[best[s].next] <= Many
      BY <2>3, <1>1 DEF LevelsTyped, Scanning, Step, Scans
    <3>2. /\ stage'[s] = "add" /\ best'[s].next = best[s].next
          /\ best'[s].node = best[s].node /\ best'[s].seen = queued[best[s].next]
      BY <2>0, <2>3, <3>1 DEF Step, Best
    <3> QED
      BY <3>1, <3>2, <2>3, <1>3 DEF Scanning, Step, Flights, Scans
  <2>4. CASE best[s].next + 1 \in Nodes /\ Step(s, "add", "pick", Compared(s), None, None, None)
    <3>1. stage'[s] = "pick" /\ best'[s] = Compared(s) /\ stage[s] = "add"
      BY <2>0, <2>4 DEF Step
    <3>2. /\ Compared(s).next \in Nodes /\ Compared(s).node < Compared(s).next
          /\ Compared(s).node # 0 /\ Compared(s).next # 1
      BY <2>4, <3>1, ComparedOf, NodesFromOne
    <3> QED
      BY <3>1, <3>2, <1>3 DEF Flights
  <2>5. CASE Step(s, "add", "chosen", Compared(s), None, None, None)
    <3>1. stage'[s] = "chosen" /\ best'[s] = Compared(s) /\ stage[s] = "add"
      BY <2>0, <2>5 DEF Step
    <3> QED
      BY <3>1, <1>3, ComparedOf DEF Scans
  <2>6. ASSUME NEW from \in Flights, NEW to \in Flights, NEW dq, NEW dp,
               Step(s, from, to, best[s], dq, None, dp)
        PROVE  stage'[s] = to /\ best'[s].node \in Nodes
    BY <2>0, <2>6 DEF Step, Scanning
  <2>7. CASE Step(s, "unqueued", "idle", Multilevel!Fresh, None, Just(best[s].node, 1), None)
    BY <2>0, <2>7, <1>3 DEF Step, Multilevel!Fresh, Flights, Scans
  <2>8. CASE \E n \in PinnedNodes :
               Step(s, "idle", "chosen", [Multilevel!Fresh EXCEPT !.node = n], None, None, None)
    BY <2>2, <2>8, <1>3 DEF Scans
  <2>9. CASE Step(s, "chosen", "queued", best[s], Just(best[s].node, 1), None, None)
    BY <2>6, <2>9, <1>3 DEF Scans, Flights
  <2>10. CASE Step(s, "queued", "posted", best[s], None, None, Just(best[s].node, 1))
    BY <2>6, <2>10, <1>3 DEF Scans, Flights
  <2>11. CASE Step(s, "posted", "unqueued", best[s], Just(best[s].node, -1), None, None)
    BY <2>6, <2>11, <1>3 DEF Scans, Flights
  <2> QED
    BY <2>1, <2>3, <2>4, <2>5, <2>7, <2>8, <2>9, <2>10, <2>11 DEF StepOf
<1> QED
  BY <1>2, <1>3

\* A step gives a node to s when s has chosen it, and takes it from no node.
LEMMA TotalsMove ==
  ASSUME LevelsTyped, Scanning, NEW s \in Submitters, StepOf(s), NEW n \in Nodes
  PROVE  /\ Total(n) \in Nat /\ Total(n)' \in Nat
         /\ Total(n)' = Total(n) + One(stage[s] \notin Flights /\ stage'[s] = "chosen"
                                       /\ best'[s].node = n)
<1>0. given[n] \in Nat
  BY DEF LevelsTyped
<1>1. ASSUME NEW from, NEW to, NEW b, NEW dq, NEW dg, NEW dp, Step(s, from, to, b, dq, dg, dp)
      PROVE  /\ stage[s] = from /\ stage'[s] = to /\ best'[s] = b
             /\ Total(n) \in Nat /\ given'[n] = given[n] + dg[n] /\ given'[n] \in Int
             /\ Total(n)' = given'[n] + (Cardinality(In(Flights, n))
                  + One(to \in Flights /\ b.node = n)
                  - One(from \in Flights /\ best[s].node = n))
  <2>1. stage'[s] = to /\ best'[s] = b
    BY <1>1 DEF Step, Moves, LevelsTyped
  <2>2. /\ Cardinality(In(Flights, n)) \in Nat
        /\ Cardinality(In(Flights, n))' = Cardinality(In(Flights, n))
             + One(to \in Flights /\ b.node = n) - One(from \in Flights /\ best[s].node = n)
    BY <1>1, CountMoves DEF Step
  <2>3. given'[n] = given[n] + dg[n] /\ given'[n] \in Int
    BY <1>1 DEF Step, Counts
  <2> QED
    BY <1>0, <1>1, <2>1, <2>2, <2>3 DEF Total, Step
<1> DEFINE F == Cardinality(In(Flights, n))
           Gives == One(stage[s] \notin Flights /\ stage'[s] = "chosen" /\ best'[s].node = n)
<1>2. F \in Nat /\ Total(n) = given[n] + F
  BY SubmittersCounted DEF In, Total
<1> HIDE DEF F
<1> SUFFICES Total(n) \in Nat /\ Total(n)' = Total(n) + Gives
  BY DEF One
<1>3. ASSUME NEW from \in {"idle", "pick", "add"}, NEW to \in {"pick", "add", "chosen"}, NEW b,
             Step(s, from, to, b, None, None, None)
      PROVE  Total(n)' = Total(n) + Gives
  <2>1. /\ stage[s] = from /\ stage'[s] = to /\ best'[s] = b /\ given'[n] = given[n] + None[n]
        /\ Total(n)' = given'[n] + (F + One(to \in Flights /\ b.node = n)
                                      - One(from \in Flights /\ best[s].node = n))
    BY <1>1, <1>3 DEF F
  <2> QED
    BY <2>1, <1>0, <1>2 DEF None, One, Flights
<1>4. ASSUME NEW from \in Flights, NEW to \in Flights \ {"chosen"}, NEW dq, NEW dp,
             Step(s, from, to, best[s], dq, None, dp)
      PROVE  Total(n)' = Total(n) + Gives
  <2>1. /\ stage[s] = from /\ stage'[s] = to /\ given'[n] = given[n] + None[n]
        /\ Total(n)' = given'[n] + (F + One(to \in Flights /\ best[s].node = n)
                                      - One(from \in Flights /\ best[s].node = n))
    BY <1>1, <1>4 DEF F
  <2> QED
    BY <2>1, <1>0, <1>2 DEF None, One, Flights
<1>5. CASE Step(s, "unqueued", "idle", Multilevel!Fresh, None, Just(best[s].node, 1), None)
  <2>1. /\ stage[s] = "unqueued" /\ stage'[s] = "idle"
        /\ given'[n] = given[n] + Just(best[s].node, 1)[n]
        /\ Total(n)' = given'[n] + (F + One("idle" \in Flights /\ Multilevel!Fresh.node = n)
                                      - One("unqueued" \in Flights /\ best[s].node = n))
    BY <1>1, <1>5 DEF F
  <2> QED
    BY <2>1, <1>0, <1>2 DEF Just, One, Flights
<1>6. Total(n) \in Nat
  BY <1>0, <1>2
<1>7. Total(n)' = Total(n) + Gives
  <2> HIDE DEF Gives
  <2>1. CASE Step(s, "chosen", "queued", best[s], Just(best[s].node, 1), None, None)
    BY <1>4, <2>1 DEF Flights
  <2>2. CASE Step(s, "queued", "posted", best[s], None, None, Just(best[s].node, 1))
    BY <1>4, <2>2 DEF Flights
  <2>3. CASE Step(s, "posted", "unqueued", best[s], Just(best[s].node, -1), None, None)
    BY <1>4, <2>3 DEF Flights
  <2> QED
    BY <1>3, <1>5, <2>1, <2>2, <2>3 DEF StepOf
<1> QED
  BY <1>6, <1>7

\* The node it holds then is no worse than those it has looked at.
LEMMA ComparedIsNotWorse ==
  ASSUME LevelsTyped, Scanning, NoneWasBetter, NEW s \in Submitters, stage[s] = "add",
         NEW m \in Nodes, m < best[s].next + 1
  PROVE  Compared(s).load <= Total(m) + Many
<1>1. /\ best[s].next \in Nat /\ best[s].load \in Nat /\ best[s].seen \in Nat
      /\ best[s].seen <= Many /\ best[s].next \in Nodes
      /\ Compared(s).load \in Nat /\ m \in Nat \ {0}
  BY ComparedOf, NodesFromOne DEF Best
<1>2. /\ Compared(s).load <= best[s].seen + given[best[s].next]
      /\ best[s].node # 0 => Compared(s).load <= best[s].load
  BY <1>1, ComparedOf DEF LevelsTyped
<1>3. Cardinality(In(Flights, m)) \in Nat /\ given[m] \in Nat /\ Many \in Nat
  BY SubmittersCounted DEF In, LevelsTyped
<1>4. CASE m = best[s].next
  BY <1>1, <1>2, <1>3, <1>4 DEF Total
<1>5. CASE m < best[s].next
  <2>1. best[s].node # 0
    BY <1>1, <1>5, ComparedOf
  <2>2. best[s].load <= Total(m) + Many
    BY <1>5 DEF NoneWasBetter, Scans
  <2>3. Total(m) \in Nat
    BY <1>3 DEF Total
  <2> QED
    BY <2>1, <2>2, <2>3, <1>1, <1>2, <1>3
<1> QED
  BY <1>1, <1>4, <1>5

LEMMA NoneWasBetterKept ==
  ASSUME LevelsTyped, Scanning, NoneWasBetter, NEW s \in Submitters, StepOf(s)
  PROVE  NoneWasBetter'
<1> SUFFICES ASSUME NEW q \in Submitters, NEW m \in Nodes,
                    stage'[q] \in Scans, m < best'[q].next
             PROVE  best'[q].load <= Total(m)' + Many
  BY SubmittersCounted DEF NoneWasBetter
<1>1. Total(m) \in Nat /\ Total(m)' \in Nat /\ Total(m)' >= Total(m) /\ Many \in Nat
  BY TotalsMove, SubmittersCounted DEF One
<1>2. m \in Nat \ {0}
  BY NodesFromOne
<1>3. best'[q].load \in Nat
  <2>1. PICK to, b : Moves(s, to, b)
    BY DEF StepOf, Step
  <2>2. best'[q] \in Best
    BY <2>1 DEF Moves, LevelsTyped
  <2> QED
    BY <2>2 DEF Best
<1>4. ASSUME best'[q].load = best[q].load, m < best[q].next, stage[q] \in Scans
      PROVE  best'[q].load <= Total(m)' + Many
  BY <1>1, <1>3, <1>4 DEF NoneWasBetter
<1>5. CASE q # s
  <2>1. stage'[q] = stage[q] /\ best'[q] = best[q]
    BY <1>5 DEF StepOf, Step, Moves, LevelsTyped
  <2> QED
    BY <2>1, <1>4
<1>6. CASE q = s
  <2>0. ASSUME NEW to, NEW b, Moves(s, to, b) PROVE stage'[s] = to /\ best'[s] = b
    BY <2>0 DEF Moves, LevelsTyped
  <2>1. CASE stage'[s] = "pick" /\ best'[s] = Multilevel!Fresh
    BY <2>1, <1>2, <1>6 DEF Multilevel!Fresh
  <2>2. CASE Step(s, "pick", "add", [best[s] EXCEPT !.seen = queued[best[s].next]],
                  None, None, None)
    <3>1. /\ stage[s] = "pick" /\ best'[s].next = best[s].next
          /\ best'[s].load = best[s].load
      BY <2>0, <2>2 DEF Step, LevelsTyped, Best
    <3> QED
      BY <3>1, <1>4, <1>6 DEF Scans
  <2>3. CASE Step(s, "add", "pick", Compared(s), None, None, None)
    <3>1. stage[s] = "add" /\ best'[s] = Compared(s)
      BY <2>0, <2>3 DEF Step
    <3>2. Compared(s).load <= Total(m) + Many
      BY <3>1, <1>6, ComparedOf, ComparedIsNotWorse
    <3> QED
      BY <3>1, <3>2, <1>1, <1>3, <1>6
  <2>4. ASSUME NEW from, NEW to \in Flights \cup {"idle"}, NEW b, NEW dq, NEW dg, NEW dp,
               Step(s, from, to, b, dq, dg, dp)
        PROVE  stage'[s] \notin Scans
    BY <2>0, <2>4 DEF Step, Flights, Scans
  <2>5. CASE Step(s, "idle", "pick", Multilevel!Fresh, None, None, None)
    BY <2>0, <2>1, <2>5 DEF Step
  <2>6. stage'[s] \in Scans
    BY <1>6
  <2> QED
    BY <2>2, <2>3, <2>4, <2>5, <2>6 DEF StepOf, Flights
<1> QED
  BY <1>5, <1>6

LEMMA KeptInBoundsKept ==
  ASSUME LevelsTyped, Scanning, NoneWasBetter, KeptInBounds, NEW s \in Submitters, StepOf(s),
         LevelsTyped'
  PROVE  KeptInBounds'
<1> SUFFICES ASSUME NEW n \in Nodes \ PinnedNodes, NEW m \in Nodes, NEW v \in Nat,
                    v >= Total(m)' + Many
             PROVE  Total(n)' + Cardinality(Holders(n, v))' <= v + Many
  BY SubmittersCounted DEF KeptInBounds
<1> DEFINE H == Cardinality(Holders(n, v))
           F == Cardinality(In(Flights, n))
<1>1. /\ Total(m) \in Nat /\ Total(m)' \in Nat /\ Total(m)' >= Total(m) /\ Many \in Nat
      /\ Total(n) \in Nat /\ Total(n)' \in Nat
  BY TotalsMove, SubmittersCounted DEF One
<1>2. /\ H \in Nat /\ H' \in Nat /\ F' \in Nat
      /\ given'[n] \in Nat /\ Total(n)' = given'[n] + F' /\ F' + H' <= Many
  <2>1. Holders(n, v) \in SUBSET Submitters /\ Holders(n, v)' \in SUBSET Submitters
    BY DEF Holders
  <2>2. In(Flights, n)' \in SUBSET Submitters
    BY DEF In
  <2>3. (Cardinality(In(Flights, n)) + Cardinality(Holders(n, v)) <= Many)'
    BY AtMostAll, PTL
  <2> QED
    BY <2>1, <2>2, <2>3, SubmittersCounted DEF Total, LevelsTyped
<1>3. Total(n) + H <= v + Many
  BY <1>1 DEF KeptInBounds
<1> SUFFICES given'[n] <= v \/ Total(n)' + H' <= Total(n) + H
  BY <1>1, <1>2, <1>3
<1>4. ASSUME NEW to, NEW b, Moves(s, to, b)
      PROVE  /\ stage'[s] = to /\ best'[s] = b
             /\ H' = H + One(to \in Scans /\ b.node = n /\ b.load <= v)
                       - One(stage[s] \in Scans /\ best[s].node = n /\ best[s].load <= v)
  <2>1. stage'[s] = to /\ best'[s] = b
    BY <1>4 DEF Moves, LevelsTyped
  <2>2. H' = H + One(to \in Scans /\ b.node = n /\ b.load <= v)
               - One(stage[s] \in Scans /\ best[s].node = n /\ best[s].load <= v)
    BY <1>4, HoldersMove
  <2> QED
    BY <2>1, <2>2
<1>5. Total(n)' = Total(n) + One(stage[s] \notin Flights /\ stage'[s] = "chosen"
                                 /\ best'[s].node = n)
  BY TotalsMove
<1>6. n # 0 /\ n \notin PinnedNodes
  BY NodesFromOne
<1> HIDE DEF H, F
<1>7. CASE Step(s, "idle", "pick", Multilevel!Fresh, None, None, None)
  BY <1>1, <1>2, <1>4, <1>5, <1>6, <1>7 DEF Step, Multilevel!Fresh, One, Scans
<1>8. ASSUME NEW p \in PinnedNodes,
             Step(s, "idle", "chosen", [Multilevel!Fresh EXCEPT !.node = p], None, None, None)
      PROVE  Total(n)' + H' <= Total(n) + H
  BY <1>1, <1>2, <1>4, <1>5, <1>6, <1>8 DEF Step, Multilevel!Fresh, One, Scans
<1>9. CASE Step(s, "pick", "add", [best[s] EXCEPT !.seen = queued[best[s].next]],
                None, None, None)
  <2>1. best[s] \in Best
    BY DEF LevelsTyped
  <2>2. /\ stage[s] = "pick" /\ stage'[s] = "add"
        /\ best'[s].node = best[s].node /\ best'[s].load = best[s].load
    BY <1>4, <1>9, <2>1 DEF Step, Best
  <2> QED
    BY <1>1, <1>2, <1>4, <1>5, <1>9, <2>2 DEF Step, One, Scans
<1>10. ASSUME NEW from, NEW to, NEW b, NEW dq, NEW dp, Step(s, from, to, b, dq, None, dp)
       PROVE  given'[n] = given[n]
  BY <1>10 DEF Step, Counts, None, LevelsTyped
<1>11. CASE /\ stage[s] = "add" /\ Moves(s, stage'[s], Compared(s))
            /\ stage'[s] \in {"pick", "chosen"} /\ given'[n] = given[n]
            /\ stage'[s] = "chosen" => best[s].next + 1 \notin Nodes
  <2>1. best'[s] = Compared(s)
    BY <1>4, <1>11
  <2>2. CASE Compared(s).node # n
    BY <1>1, <1>2, <1>4, <1>5, <1>11, <2>1, <2>2 DEF One, Scans
  <2>3. stage'[s] = "chosen" => Compared(s).load <= v
    <3>1. ASSUME stage'[s] = "chosen" PROVE m < best[s].next + 1
      BY <3>1, <1>11, ComparedOf, NodesFromOne
    <3>2. Compared(s).load \in Nat
      BY <1>11, ComparedOf DEF Best
    <3> QED
      BY <3>1, <3>2, <1>1, <1>11, ComparedIsNotWorse
  <2>4. CASE /\ Compared(s).node = n /\ n = best[s].next
             /\ Compared(s).load = best[s].seen + given[n]
    <3>1. best[s].node < n /\ n \in Nat /\ best[s].node \in Nat /\ best[s].seen \in Nat
      BY <2>4, <1>11, ComparedOf DEF Best
    <3>2. given[n] = given'[n]
      BY <1>11
    <3>3. Compared(s).load <= v => given'[n] <= v
      BY <2>4, <3>1, <3>2, <1>2
    <3>4. ASSUME ~(Compared(s).load <= v) PROVE Total(n)' + H' <= Total(n) + H
      BY <1>1, <1>2, <1>4, <1>5, <1>11, <2>1, <2>3, <2>4, <3>1, <3>4 DEF One
    <3> QED
      BY <3>3, <3>4
  <2>5. CASE Compared(s).node = n /\ best[s].node = n /\ Compared(s).load = best[s].load
    <3>1. CASE stage'[s] = "pick"
      BY <1>1, <1>2, <1>4, <1>5, <1>11, <2>1, <2>5, <3>1 DEF One, Scans
    <3>2. CASE stage'[s] = "chosen"
      <4>1. best[s].load <= v
        BY <2>3, <2>5, <3>2
      <4> QED
        BY <1>1, <1>2, <1>4, <1>5, <1>11, <2>1, <2>5, <3>2, <4>1 DEF One, Scans, Flights
    <3> QED
      BY <3>1, <3>2, <1>11
  <2> QED
    BY <2>2, <2>4, <2>5, <1>11, ComparedOf
<1>12. CASE /\ best[s].next + 1 \in Nodes
            /\ Step(s, "add", "pick", Compared(s), None, None, None)
  BY <1>4, <1>11, <1>12, <1>10 DEF Step
<1>13. CASE /\ best[s].next + 1 \notin Nodes
            /\ Step(s, "add", "chosen", Compared(s), None, None, None)
  BY <1>4, <1>11, <1>13, <1>10 DEF Step
<1>14. ASSUME NEW from \in Flights, NEW to \in Flights \ {"chosen"}, NEW dq, NEW dp,
              Step(s, from, to, best[s], dq, None, dp)
      PROVE  Total(n)' + H' <= Total(n) + H
  BY <1>1, <1>2, <1>4, <1>5, <1>14 DEF Step, One, Flights, Scans
<1>15. CASE Step(s, "unqueued", "idle", Multilevel!Fresh, None, Just(best[s].node, 1), None)
  BY <1>1, <1>2, <1>4, <1>5, <1>15 DEF Step, One, Flights, Scans
<1>16. CASE \/ Step(s, "chosen", "queued", best[s], Just(best[s].node, 1), None, None)
            \/ Step(s, "queued", "posted", best[s], None, None, Just(best[s].node, 1))
            \/ Step(s, "posted", "unqueued", best[s], Just(best[s].node, -1), None, None)
  BY <1>14, <1>16 DEF Flights
<1> QED
  BY <1>7, <1>8, <1>9, <1>12, <1>13, <1>15, <1>16 DEF StepOf

LEMMA LevelsKept == LevelsIInv /\ [Multilevel!Next]_Multilevel!vars => LevelsIInv'
<1> SUFFICES ASSUME LevelsIInv, [Multilevel!Next]_Multilevel!vars PROVE LevelsIInv'
  OBVIOUS
<1> USE DEF LevelsIInv
<1>1. CASE Multilevel!Next
  <2> PICK s \in Submitters : StepOf(s)
    BY <1>1, StepsOf
  <2>1. Counted' /\ LevelsTyped'
    BY CountedKept
  <2>2. Scanning'
    BY ScanningKept
  <2>3. NoneWasBetter'
    BY NoneWasBetterKept
  <2>4. KeptInBounds'
    BY <2>1, KeptInBoundsKept
  <2> QED
    BY <2>1, <2>2, <2>3, <2>4
<1>2. CASE UNCHANGED Multilevel!vars
  <2>1. UNCHANGED <<queued, given, posted, stage, best, Many>>
    BY <1>2, SubmittersCounted DEF Multilevel!vars
  <2>2. \A P, n : In(P, n)' = In(P, n)
    BY <2>1 DEF In
  <2>3. \A n, v : Holders(n, v)' = Holders(n, v)
    BY <2>1 DEF Holders
  <2>4. \A n : Total(n)' = Total(n)
    BY <2>1, <2>2 DEF Total
  <2>5. LevelsTyped'
    BY <2>1 DEF LevelsTyped
  <2>6. Scanning'
    BY <2>1 DEF Scanning
  <2>7. Counted'
    BY <2>1, <2>2 DEF Counted
  <2>8. NoneWasBetter'
    BY <2>1, <2>4 DEF NoneWasBetter
  <2>9. KeptInBounds'
    BY <2>1, <2>3, <2>4 DEF KeptInBounds
  <2> QED
    BY <2>5, <2>6, <2>7, <2>8, <2>9
<1> QED
  BY <1>1, <1>2

\* With v the most another node can be taken for: what a node was given is Total of it.
LEMMA LevelsAreKept == LevelsIInv => KeptLevel
<1> SUFFICES ASSUME LevelsIInv PROVE KeptLevel
  OBVIOUS
<1> USE DEF LevelsIInv
<1>1. Multilevel!LoadsCounted
  <2>1. \A n \in Nodes :
          /\ {s \in Submitters : best[s].node = n /\ stage[s] \in {"queued", "posted"}}
               = In({"queued", "posted"}, n)
          /\ {s \in Submitters : best[s].node = n /\ stage[s] \in {"posted", "unqueued"}}
               = In({"posted", "unqueued"}, n)
    BY DEF In
  <2> QED
    BY <2>1, LevelsCardinality DEF Counted, Multilevel!LoadsCounted
<1>2. ASSUME NEW n \in Nodes PROVE Multilevel!Given(n) = Total(n) /\ Total(n) \in Nat
  <2> DEFINE A == In({"chosen", "queued"}, n)
             B == In({"posted", "unqueued"}, n)
  <2>1. /\ A \in SUBSET Submitters /\ B \in SUBSET Submitters
        /\ A \cap B = {} /\ A \cup B = In(Flights, n)
        /\ A = {s \in Submitters : best[s].node = n /\ stage[s] \in {"chosen", "queued"}}
    BY DEF In, Flights
  <2>2. posted[n] = given[n] + Cardinality(B) /\ given[n] \in Nat
    BY DEF Counted, LevelsTyped
  <2>3. Multilevel!Given(n) = posted[n] + Cardinality(A)
    BY <2>1, LevelsCardinality DEF Multilevel!Given
  <2> HIDE DEF A, B
  <2>4. Cardinality(A) \in Nat /\ Cardinality(B) \in Nat /\ Cardinality(A \cap B) = 0
    BY <2>1, SubmittersCounted, FS_EmptySet
  <2>5. Cardinality(A \cup B) = Cardinality(A) + Cardinality(B) - Cardinality(A \cap B)
    BY <2>1, SubmittersCounted, FS_Union
  <2> QED
    BY <2>1, <2>2, <2>3, <2>4, <2>5 DEF Total
<1>3. ASSUME NEW n \in Nodes \ PinnedNodes, NEW m \in Nodes
      PROVE  Multilevel!Given(n) <= Multilevel!Given(m) + 2 * Multilevel!Cardinality(Submitters)
  <2>1. Total(n) \in Nat /\ Total(m) \in Nat /\ Many \in Nat
    BY <1>2, SubmittersCounted
  <2>2. Total(n) + Cardinality(Holders(n, Total(m) + Many)) <= Total(m) + Many + Many
    BY <2>1 DEF KeptInBounds
  <2>3. Cardinality(Holders(n, Total(m) + Many)) \in Nat
    BY SubmittersCounted DEF Holders
  <2>4. Multilevel!Cardinality(Submitters) = Many
    BY LevelsCardinality DEF Many
  <2> QED
    BY <2>1, <2>2, <2>3, <2>4, <1>2
<1> QED
  BY <1>1, <1>3 DEF KeptLevel, Multilevel!KeptLevel

\* submit() with any number of submitters that read the loads while others change them
\* (multilevel.hpp pick_node): no node is given more above any other than twice the number
\* of submitters, and the loads count what is queued, posted and running.
THEOREM NodesKeptLevel == ActivitiesSpec => []KeptLevel
<1>1. LevelsIInv /\ [ActivitiesNext]_activities => LevelsIInv'
  BY Separate, LevelsKept
<1>2. ActivitiesInit => LevelsIInv
  BY LevelsInit DEF ActivitiesInit
<1> QED
  BY <1>1, <1>2, LevelsAreKept, PTL DEF ActivitiesSpec

-----------------------------------------------------------------------------
(* The metrics.                                                            *)

NotAbove(n) == {i \in DOMAIN observed : observed[i] <= Bounds[n]}

MetricsIInv ==
  /\ gauge = ideal
  /\ buckets \in [1..Len(Bounds) + 1 -> Nat] /\ observed \in Seq(Int)
  /\ SumOf(buckets, 1..Len(Bounds) + 1) = Len(observed)
  /\ \A n \in 1..Len(Bounds) : SumOf(buckets, 1..n) = Cardinality(NotAbove(n))

\* The bucket of a value is the first whose bound is not below it: among those up to the
\* n-th exactly if the n-th bound is not below it, for bounds in order.
LEMMA Bucketed ==
  ASSUME NEW v \in Int
  PROVE  /\ Metrics!Bucket(v) \in 1..Len(Bounds) + 1
         /\ \A n \in 1..Len(Bounds) : Metrics!Bucket(v) \in 1..n <=> v <= Bounds[n]
<1> DEFINE fit == {i \in 1..Len(Bounds) : v <= Bounds[i]}
<1>1. /\ Len(Bounds) \in Nat /\ DOMAIN Bounds = 1..Len(Bounds)
      /\ \A i \in 1..Len(Bounds) : Bounds[i] \in Int
      /\ \A i, j \in 1..Len(Bounds) : i < j => Bounds[i] <= Bounds[j]
  BY MetricsAssumption
<1>2. CASE fit = {}
  <2>1. Metrics!Bucket(v) = Len(Bounds) + 1
    BY <1>2 DEF Metrics!Bucket
  <2>2. \A n \in 1..Len(Bounds) : ~(v <= Bounds[n])
    BY <1>2
  <2> QED
    BY <1>1, <2>1, <2>2
<1>3. CASE fit # {}
  <2>1. fit \subseteq Nat
    OBVIOUS
  <2> DEFINE b == Metrics!Bucket(v)
  <2>2. b = CHOOSE x \in fit : \A y \in fit : x <= y
    BY <1>3 DEF Metrics!Bucket, Metrics!Min
  <2>3. b \in fit /\ \A y \in fit : b <= y
    <3> HIDE DEF fit, b
    <3>1. \E x \in fit : \A y \in fit : x <= y
      BY <1>3, <2>1, LeastNatural
    <3> QED
      BY <2>2, <3>1
  <2> HIDE DEF b
  <2>4. ASSUME NEW n \in 1..Len(Bounds) PROVE b \in 1..n <=> v <= Bounds[n]
    <3>1. ASSUME b \in 1..n PROVE v <= Bounds[n]
      <4>1. v <= Bounds[b] /\ b \in 1..Len(Bounds)
        BY <2>3
      <4>2. Bounds[b] <= Bounds[n] /\ Bounds[b] \in Int /\ Bounds[n] \in Int
        BY <1>1, <3>1, <4>1
      <4> QED
        BY <4>1, <4>2
    <3>2. ASSUME v <= Bounds[n] PROVE b \in 1..n
      <4>1. n \in fit /\ b \in 1..Len(Bounds)
        BY <2>3, <3>2
      <4> QED
        BY <2>3, <4>1
    <3> QED
      BY <3>1, <3>2
  <2> QED
    BY <1>1, <2>3, <2>4 DEF b
<1> QED
  BY <1>2, <1>3

LEMMA MetricsInit == Metrics!Init => MetricsIInv
<1> SUFFICES ASSUME Metrics!Init PROVE MetricsIInv
  OBVIOUS
<1>1. /\ gauge = ideal /\ buckets = [i \in 1..Len(Bounds) + 1 |-> 0] /\ observed = << >>
      /\ Len(Bounds) \in Nat
  BY MetricsAssumption DEF Metrics!Init
<1>2. ASSUME NEW n \in 1..Len(Bounds) + 1 PROVE SumOf(buckets, 1..n) = 0
  <2>1. IsFiniteSet(1..n) /\ \A x \in 1..n : buckets[x] = 0
    BY <1>1, FS_Interval
  <2> QED
    BY <2>1, SumOfZeros
<1>3. \A n \in 1..Len(Bounds) : Cardinality(NotAbove(n)) = 0
  <2>1. \A n : NotAbove(n) = {}
    BY <1>1 DEF NotAbove
  <2> QED
    BY <2>1, FS_EmptySet
<1> QED
  BY <1>1, <1>2, <1>3 DEF MetricsIInv

LEMMA MetricsObserve ==
  ASSUME MetricsIInv, NEW v \in Observations, Metrics!Observe(v)
  PROVE  MetricsIInv'
<1> DEFINE b == Metrics!Bucket(v)
           m == Len(Bounds)
<1>0. v \in Int /\ m \in Nat
  BY MetricsAssumption
<1>1. /\ v \in Int /\ m \in Nat /\ b \in 1..m + 1
      /\ \A n \in 1..m : b \in 1..n <=> v <= Bounds[n]
  BY <1>0, Bucketed
<1>2. /\ buckets \in [1..m + 1 -> Nat] /\ observed \in Seq(Int)
      /\ buckets' = [buckets EXCEPT ![b] = @ + 1] /\ observed' = Append(observed, v)
      /\ gauge' = ideal'
  BY DEF MetricsIInv, Metrics!Observe
<1> HIDE DEF b, m
<1>3. /\ buckets' \in [1..m + 1 -> Nat] /\ observed' \in Seq(Int)
      /\ Len(observed') = Len(observed) + 1 /\ DOMAIN observed' = 1..Len(observed) + 1
      /\ DOMAIN observed = 1..Len(observed) /\ Len(observed) \in Nat
      /\ observed'[Len(observed) + 1] = v
      /\ \A i \in 1..Len(observed) : observed'[i] = observed[i]
  BY <1>1, <1>2
<1>4. ASSUME NEW n \in 1..m + 1
      PROVE  SumOf(buckets', 1..n) = SumOf(buckets, 1..n) + (IF b \in 1..n THEN 1 ELSE 0)
  <2>0. n \in Int /\ 1..n \subseteq 1..m + 1 /\ \A x \in 1..m + 1 : buckets[x] \in Int
    BY <1>1, <1>2
  <2>1. IsFiniteSet(1..n) /\ Numbers(buckets, 1..n, Int) /\ 1 \in Int /\ 0 \in Int
    BY <2>0, FS_Interval DEF Numbers
  <2>2. CASE b \in 1..n
    <3>1. buckets'[b] = buckets[b] + 1 /\ \A x \in 1..n \ {b} : buckets'[x] = buckets[x]
      BY <1>1, <1>2
    <3> QED
      BY <2>1, <2>2, <3>1, SumChanges
  <2>3. CASE b \notin 1..n
    <3>1. 1 \in 1..n /\ buckets'[1] = buckets[1] + 0
          /\ \A x \in 1..n \ {1} : buckets'[x] = buckets[x]
      BY <1>1, <1>2, <2>3
    <3> QED
      BY <2>1, <2>3, <3>1, SumChanges
  <2> QED
    BY <2>2, <2>3
<1>5. ASSUME NEW n \in 1..m
      PROVE  Cardinality(NotAbove(n)') = Cardinality(NotAbove(n)) + (IF b \in 1..n THEN 1 ELSE 0)
  <2> DEFINE old == NotAbove(n)
             new == Len(observed) + 1
  <2>1. IsFiniteSet(old) /\ Cardinality(old) \in Nat /\ new \notin old
    <3>1. old \subseteq 1..Len(observed) /\ IsFiniteSet(1..Len(observed))
      BY <1>3, FS_Interval DEF NotAbove
    <3> QED
      BY <1>3, <3>1, FS_Subset, FS_CardinalityType
  <2>2. NotAbove(n)' = IF v <= Bounds[n] THEN old \cup {new} ELSE old
    <3>1. \A i \in 1..Len(observed) + 1 : i \in 1..Len(observed) \/ i = Len(observed) + 1
      BY <1>3
    <3> QED
      BY <1>3, <3>1 DEF NotAbove
  <2> HIDE DEF old, new
  <2>3. Cardinality(old \cup {new}) = Cardinality(old) + 1
    BY <2>1, FS_AddElement
  <2> QED
    BY <1>1, <2>1, <2>2, <2>3 DEF old
<1>6. /\ SumOf(buckets, 1..m + 1) = Len(observed)
      /\ \A n \in 1..m : SumOf(buckets, 1..n) = Cardinality(NotAbove(n))
  BY DEF MetricsIInv, m
<1>7. SumOf(buckets', 1..m + 1) = Len(observed')
  BY <1>1, <1>3, <1>4, <1>6
<1>8. \A n \in 1..m : SumOf(buckets', 1..n) = Cardinality(NotAbove(n)')
  BY <1>1, <1>4, <1>5, <1>6
<1> QED
  BY <1>2, <1>3, <1>7, <1>8 DEF MetricsIInv, m

LEMMA MetricsKept == MetricsIInv /\ [Metrics!Next]_Metrics!vars => MetricsIInv'
<1> SUFFICES ASSUME MetricsIInv, [Metrics!Next]_Metrics!vars PROVE MetricsIInv'
  OBVIOUS
<1>1. ASSUME UNCHANGED <<buckets, observed>>, gauge' = ideal' PROVE MetricsIInv'
  BY <1>1 DEF MetricsIInv, NotAbove
<1>2. CASE UNCHANGED Metrics!vars
  BY <1>1, <1>2 DEF Metrics!vars, MetricsIInv
<1>3. CASE Metrics!CounterInc
  BY <1>1, <1>3 DEF Metrics!CounterInc, MetricsIInv
<1>4. ASSUME NEW t, NEW k, Metrics!Register(k, t) PROVE MetricsIInv'
  BY <1>1, <1>4 DEF Metrics!Register, MetricsIInv
<1>5. ASSUME NEW t, NEW v, Metrics!GaugeLoad(t, v) PROVE MetricsIInv'
  BY <1>1, <1>5 DEF Metrics!GaugeLoad, MetricsIInv
<1>6. ASSUME NEW v, Metrics!GaugeSet(v) PROVE MetricsIInv'
  BY <1>1, <1>6 DEF Metrics!GaugeSet
<1>7. ASSUME NEW t, Metrics!GaugeExchange(t) PROVE MetricsIInv'
  BY <1>1, <1>7 DEF Metrics!GaugeExchange, MetricsIInv
<1>8. ASSUME NEW t, Metrics!GaugeRetry(t) PROVE MetricsIInv'
  BY <1>1, <1>8 DEF Metrics!GaugeRetry, MetricsIInv
<1> QED
  BY <1>2, <1>3, <1>4, <1>5, <1>6, <1>7, <1>8, MetricsObserve DEF Metrics!Next

LEMMA MetricsCounts == \A S : Metrics!Cardinality(S) = Cardinality(S)
  BY DEF Metrics!Cardinality, Cardinality

LEMMA MetricsAgree == MetricsIInv => Metrics!CountsAgree
<1> SUFFICES ASSUME MetricsIInv, "histogram" \in DOMAIN help PROVE Metrics!CountsAgree
  BY DEF MetricsIInv, Metrics!CountsAgree
<1> DEFINE h == Metrics!Scrape["histogram"]
           upTo(n) == Metrics!FoldSet(LAMBDA i, sum : h.le[i] + sum, 0, 1..n)
<1>1. h.le = buckets /\ h.count = Len(observed)
  BY DEF Metrics!Scrape
<1> HIDE DEF h
<1>2. \A n : upTo(n) = SumOf(buckets, 1..n)
  BY <1>1 DEF Metrics!FoldSet, Metrics!MapThenFoldSet, SumOf, Added, First
<1> HIDE DEF upTo
<1>3. Len(h.le) = Len(Bounds) + 1
  BY <1>1, MetricsAssumption DEF MetricsIInv
<1>4. upTo(Len(h.le)) = h.count
  BY <1>1, <1>2, <1>3 DEF MetricsIInv
<1>5. \A n \in 1..Len(Bounds) :
        upTo(n) = Cardinality({i \in DOMAIN observed : observed[i] <= Bounds[n]})
  BY <1>2 DEF MetricsIInv, NotAbove
<1> QED
  BY <1>4, <1>5, MetricsCounts DEF Metrics!CountsAgree, MetricsIInv, upTo, h

-----------------------------------------------------------------------------
(* The audio graph.                                                        *)

ThroughTurns(gs, x, t) == [i \in 0..Len(gs) |-> IF i = 0 THEN x ELSE t[i - 1] * gs[i]]

\* A sample through the first gains of gs, by their number.
Through(gs, x) == CHOOSE t : t = ThroughTurns(gs, x, t)

AudioIInv ==
  /\ chain \in Seq(Nat) /\ played \in Seq(Nat) /\ input \in Nat
  /\ Len(played) <= Len(chain) /\ \A i \in 1..Len(played) : played[i] = chain[i]
  /\ io \in [1..Len(played) -> Nat]
  /\ \A i \in 1..Len(played) : io[i] = Through(played, input)[i]
  /\ Len(played) = 0 => input = 0

LEMMA ThroughGains ==
  ASSUME NEW gs \in Seq(Nat), NEW x \in Nat
  PROVE  /\ Through(gs, x)[0] = x /\ \A i \in 0..Len(gs) : Through(gs, x)[i] \in Nat
         /\ \A i \in 1..Len(gs) : Through(gs, x)[i] = Through(gs, x)[i - 1] * gs[i]
<1> DEFINE n == Len(gs)
           step == [i \in 1..n |-> [y \in Nat |-> y * gs[i]]]
           t == Through(gs, x)
<1>1. /\ n \in Nat /\ \A i \in 1..n : gs[i] \in Nat
      /\ \A i \in 1..n : i - 1 \in 0..n /\ i \in 0..n /\ i # 0
  OBVIOUS
<1>2. /\ step \in [1..n -> [Nat -> Nat]]
      /\ \A i \in 1..n : \A y \in Nat : step[i][y] = y * gs[i]
  BY <1>1
<1> HIDE DEF step
<1>3. PICK f : Stepping(f, Nat, step, x, n)
  BY <1>1, <1>2, Steppings
<1>4. f = ThroughTurns(gs, x, f)
  <2>1. f \in [0..n -> Nat] /\ f[0] = x /\ \A i \in 1..n : f[i] = f[i - 1] * gs[i]
    <3> HIDE DEF n
    <3> QED
      BY <1>1, <1>2, <1>3 DEF Stepping
  <2> QED
    BY <1>1, <2>1 DEF ThroughTurns
<1>5. t = ThroughTurns(gs, x, t)
  BY <1>4 DEF Through
<1>6. t[0] = x /\ \A i \in 1..n : t[i] = t[i - 1] * gs[i]
  <2> HIDE DEF t
  <2> QED
    BY <1>1, <1>5 DEF ThroughTurns
<1> DEFINE T == {i \in 0..n : t[i] \in Nat}
<1>7. \A i \in 0..n : i \in T
  <2> HIDE DEF t
  <2>1. ASSUME NEW i \in 1..n, i - 1 \in T PROVE i \in T
    <3>1. t[i - 1] \in Nat /\ gs[i] \in Nat /\ t[i] = t[i - 1] * gs[i]
      BY <1>1, <1>6, <2>1
    <3> QED
      BY <1>1, <3>1
  <2>2. 0 \in T
    BY <1>1, <1>6
  <2> HIDE DEF T
  <2> QED
    BY <1>1, <2>1, <2>2, UpTo
<1> QED
  BY <1>6, <1>7

LEMMA AudioInit == AudioGraph!Init => AudioIInv
  BY DEF AudioGraph!Init, AudioIInv

\* What node i makes of the buffers.
Became(bufs, i, first) == IF i = 1 THEN first ELSE chain[i] * AudioGraph!InputOf(bufs, i)

After(bufs, i, first) == [bufs EXCEPT ![i] = Became(bufs, i, first)]

RenderTurns(first, t) ==
  [i \in 0..Len(chain) |->
     IF i = 0 THEN AudioGraph!Resized ELSE After(t[i - 1], i, first)]

Rendering(first) == CHOOSE t : t = RenderTurns(first, t)

\* Each turn of render_block fills its node's buffer from the one before.
LEMMA Rendered ==
  ASSUME chain \in Seq(Nat), chain # << >>, AudioGraph!Resized \in [1..Len(chain) -> Nat],
         NEW x \in Nat, NEW first \in Nat, first = x * chain[1]
  PROVE  /\ Rendering(first)[Len(chain)] \in [1..Len(chain) -> Nat]
         /\ \A i \in 1..Len(chain) :
              Rendering(first)[Len(chain)][i] = Through(chain, x)[i]
<1> DEFINE n == Len(chain)
           S == [1..n -> Nat]
           becomes(bufs, i) == Became(bufs, i, first)
           step == [i \in 1..n |-> [bufs \in S |-> After(bufs, i, first)]]
           t == Rendering(first)
           thru == Through(chain, x)
<1>1. /\ n \in Nat \ {0} /\ \A i \in 1..n : chain[i] \in Nat
      /\ \A i \in 1..n : i - 1 \in 0..n /\ i \in 0..n /\ i # 0
  OBVIOUS
<1>2. ASSUME NEW i \in 1..n, NEW bufs \in S
      PROVE  /\ After(bufs, i, first) \in S
             /\ After(bufs, i, first)[i] = becomes(bufs, i)
             /\ \A j \in 1..n \ {i} : After(bufs, i, first)[j] = bufs[j]
  <2>1. becomes(bufs, i) \in Nat
    <3>1. CASE i = 1
      BY <3>1 DEF Became
    <3>2. CASE i # 1
      <4>1. i - 1 \in 1..n
        BY <1>1, <3>2
      <4>2. bufs[i - 1] \in Nat /\ chain[i] \in Nat
        BY <1>1, <4>1
      <4> QED
        BY <3>2, <4>2 DEF Became, AudioGraph!InputOf
    <3> QED
      BY <3>1, <3>2
  <2> QED
    BY <2>1 DEF After
<1>3. /\ step \in [1..n -> [S -> S]]
      /\ \A i \in 1..n : \A bufs \in S : step[i][bufs] = After(bufs, i, first)
  BY <1>2
<1> HIDE DEF step
<1>4. PICK f : Stepping(f, S, step, AudioGraph!Resized, n)
  <2>1. AudioGraph!Resized \in S
    OBVIOUS
  <2> HIDE DEF S
  <2> QED
    BY <1>1, <1>3, <2>1, Steppings
<1>5. f = RenderTurns(first, f)
  <2>1. /\ f \in [0..n -> S] /\ f[0] = AudioGraph!Resized
        /\ \A i \in 1..n : f[i] = After(f[i - 1], i, first)
    <3> HIDE DEF S, n
    <3>1. \A i \in 1..n : f[i - 1] \in S
      BY <1>1, <1>4 DEF Stepping
    <3> QED
      BY <1>1, <1>3, <1>4, <3>1 DEF Stepping
  <2> HIDE DEF S
  <2> QED
    BY <1>1, <2>1 DEF RenderTurns
<1>6. t = RenderTurns(first, t)
  BY <1>5 DEF Rendering
<1>7. /\ t[0] = AudioGraph!Resized
      /\ \A i \in 1..n : t[i] = After(t[i - 1], i, first)
  <2> HIDE DEF t
  <2>1. /\ RenderTurns(first, t)[0] = AudioGraph!Resized
        /\ \A i \in 1..n : RenderTurns(first, t)[i] = After(t[i - 1], i, first)
    BY <1>1 DEF RenderTurns
  <2> QED
    BY <1>6, <2>1
<1> HIDE DEF t, thru
<1>8. /\ thru[0] = x /\ \A i \in 0..n : thru[i] \in Nat
      /\ \A i \in 1..n : thru[i] = thru[i - 1] * chain[i]
  BY ThroughGains DEF thru
<1> DEFINE T == {i \in 0..n : t[i] \in S /\ \A j \in 1..i : t[i][j] = thru[j]}
<1>9. 0 \in T
  BY <1>1, <1>7
<1>10. ASSUME NEW i \in 1..n, i - 1 \in T PROVE i \in T
  <2> DEFINE bufs == t[i - 1]
  <2>1. bufs \in S /\ \A j \in 1..(i - 1) : bufs[j] = thru[j]
    BY <1>10
  <2> HIDE DEF bufs
  <2>2. t[i] = After(bufs, i, first)
    BY <1>7 DEF bufs
  <2>3. t[i] \in S /\ t[i][i] = becomes(bufs, i) /\ \A j \in 1..n \ {i} : t[i][j] = bufs[j]
    <3> HIDE DEF becomes, S
    <3> QED
      BY <1>2, <2>1, <2>2
  <2>4. becomes(bufs, i) = thru[i]
    <3>1. CASE i = 1
      <4>1. thru[1] = x * chain[1]
        BY <1>1, <1>8, <3>1
      <4> QED
        BY <3>1, <4>1 DEF Became
    <3>2. CASE i # 1
      <4>1. i - 1 \in 1..(i - 1) /\ i - 1 \in 0..n
        BY <1>1, <3>2
      <4>2. bufs[i - 1] = thru[i - 1] /\ thru[i - 1] \in Nat /\ chain[i] \in Nat
        BY <1>1, <1>8, <2>1, <4>1
      <4>3. thru[i] = thru[i - 1] * chain[i] /\ becomes(bufs, i) = chain[i] * thru[i - 1]
        BY <1>8, <3>2, <4>2 DEF Became, AudioGraph!InputOf
      <4> QED
        BY <4>2, <4>3
    <3> QED
      BY <3>1, <3>2
  <2>5. \A j \in 1..i : j = i \/ (j \in 1..(i - 1) /\ j \in 1..n \ {i})
    BY <1>1
  <2> HIDE DEF becomes, S
  <2>6. \A j \in 1..i : t[i][j] = thru[j]
    BY <2>1, <2>3, <2>4, <2>5
  <2>7. i \in 0..n
    BY <1>1
  <2> QED
    BY <2>3, <2>6, <2>7
<1> HIDE DEF T
<1>11. \A i \in 0..n : i \in T
  BY <1>1, <1>9, <1>10, UpTo
<1>12. n \in T
  BY <1>1, <1>11
<1> QED
  BY <1>12 DEF T, t, thru

LEMMA AudioRender ==
  ASSUME AudioIInv, NEW in \in {{}} \cup {{x} : x \in Samples}, AudioGraph!RenderBlock(in)
  PROVE  AudioIInv'
<1> DEFINE x == IF in = {} THEN input ELSE CHOOSE y \in in : TRUE
           first == IF in = {} THEN AudioGraph!Resized[1]
                    ELSE chain[1] * (CHOOSE y \in in : TRUE)
           n == Len(chain)
<1>1. /\ chain \in Seq(Nat) /\ chain # << >> /\ n \in Nat \ {0} /\ chain[1] \in Nat
      /\ 1 \in 1..n /\ DOMAIN chain = 1..n
  BY DEF AudioIInv, AudioGraph!RenderBlock
<1>2. x \in Nat
  BY AudioAssumption DEF AudioIInv
<1>3. AudioGraph!Resized \in [1..n -> Nat]
  BY <1>1 DEF AudioIInv, AudioGraph!Resized
<1>4. first \in Nat /\ first = x * chain[1]
  <2>1. CASE in # {}
    BY <1>1, <1>2, <2>1
  <2>2. CASE in = {} /\ Len(played) = 0
    BY <1>1, <1>2, <2>2 DEF AudioIInv, AudioGraph!Resized
  <2>3. CASE in = {} /\ Len(played) # 0
    <3>1. 1 \in 1..Len(played) /\ played \in Seq(Nat) /\ input \in Nat /\ x = input
      BY <2>3 DEF AudioIInv
    <3>2. first = Through(played, input)[1] /\ played[1] = chain[1]
      BY <1>1, <2>3, <3>1 DEF AudioIInv, AudioGraph!Resized
    <3>3. Through(played, input)[1] = input * played[1]
      BY <3>1, ThroughGains
    <3> QED
      BY <1>1, <3>1, <3>2, <3>3
  <2> QED
    BY <2>1, <2>2, <2>3
<1>5. io' = Rendering(first)[n] /\ input' = x /\ played' = chain /\ chain' = chain
  BY DEF AudioGraph!RenderBlock, Rendering, RenderTurns, After, Became
<1> HIDE DEF x, first
<1>6. /\ io' \in [1..n -> Nat]
      /\ \A i \in 1..n : io'[i] = Through(chain, x)[i]
  BY <1>1, <1>2, <1>3, <1>4, <1>5, Rendered
<1> QED
  BY <1>1, <1>2, <1>5, <1>6 DEF AudioIInv

LEMMA AudioKept == AudioIInv /\ [AudioGraph!Next]_AudioGraph!vars => AudioIInv'
<1> SUFFICES ASSUME AudioIInv, [AudioGraph!Next]_AudioGraph!vars PROVE AudioIInv'
  OBVIOUS
<1>1. ASSUME UNCHANGED <<chain, io, input, played>> PROVE AudioIInv'
  BY <1>1 DEF AudioIInv
<1>2. ASSUME NEW g \in Gains, AudioGraph!AddNode(g) PROVE AudioIInv'
  <2>1. /\ chain \in Seq(Nat) /\ g \in Nat /\ chain' = Append(chain, g) /\ played \in Seq(Nat)
        /\ Len(played) <= Len(chain) /\ UNCHANGED <<io, input, played>>
    BY <1>2, AudioAssumption DEF AudioIInv, AudioGraph!AddNode
  <2>2. /\ chain' \in Seq(Nat) /\ Len(chain') = Len(chain) + 1
        /\ \A i \in 1..Len(chain) : chain'[i] = chain[i]
    BY <2>1
  <2>3. Len(played) <= Len(chain') /\ 1..Len(played) \subseteq 1..Len(chain)
    BY <2>1, <2>2
  <2> QED
    BY <2>1, <2>2, <2>3 DEF AudioIInv
<1> QED
  BY <1>1, <1>2, AudioRender DEF AudioGraph!Next, AudioGraph!vars, AudioGraph!PrepareAll,
     AudioGraph!PrepareFails, AudioGraph!RenderNothing

LEMMA AudioAgrees == AudioIInv => AudioGraph!BlocksGoThrough
  BY DEF AudioIInv, AudioGraph!BlocksGoThrough, Through, ThroughTurns

-----------------------------------------------------------------------------
(* The optimizer.                                                          *)

SumTurns(w, i, t) ==
  [n \in 0..Len(w) |-> IF n = 0 THEN 0 ELSE t[n - 1] + Optimizer!Component(w[n], i)]

\* The sums of the i-th components of the first gradients of w, by their number.
Sums(w, i) == CHOOSE t : t = SumTurns(w, i, t)

SteppedTurns(ws, i, t) ==
  [n \in 0..(Len(ws) - 1) |-> IF n = 0 THEN Initial[i] ELSE t[n - 1] - Optimizer!Average(ws[n], i)]

\* The i-th parameter after the first steps, by their number.
Stepped(ws, i) == CHOOSE t : t = SteppedTurns(ws, i, t)

Window == Seq(Seq(Int))

\* The last window is the one that no step has taken yet.
Windows(ws) ==
  ws \in Seq(Window) /\ Len(ws) > 0 /\ \A n \in 1..(Len(ws) - 1) : Len(ws[n]) > 0

OptimizerIInv ==
  /\ params \in [DOMAIN Initial -> Int] /\ buf \in [DOMAIN Initial -> Int]
  /\ Windows(windows)
  /\ pending = Len(windows[Len(windows)])
  /\ \A i \in DOMAIN Initial : /\ buf[i] = Optimizer!Sum(windows[Len(windows)], i)
                             /\ params[i] = Stepped(windows, i)[Len(windows) - 1]

LEMMA ComponentIsInt ==
  ASSUME NEW g \in Seq(Int), NEW i
  PROVE  Optimizer!Component(g, i) \in Int
  BY DEF Optimizer!Component

LEMMA SummedUp ==
  ASSUME NEW w \in Window, NEW i
  PROVE  /\ Sums(w, i)[0] = 0 /\ \A n \in 0..Len(w) : Sums(w, i)[n] \in Int
         /\ \A n \in 1..Len(w) :
              Sums(w, i)[n] = Sums(w, i)[n - 1] + Optimizer!Component(w[n], i)
         /\ Optimizer!Sum(w, i) = Sums(w, i)[Len(w)]
<1> DEFINE m == Len(w)
           step == [n \in 1..m |-> [y \in Int |-> y + Optimizer!Component(w[n], i)]]
           t == Sums(w, i)
<1>1. /\ m \in Nat /\ \A n \in 1..m : w[n] \in Seq(Int)
      /\ \A n \in 1..m : n - 1 \in 0..m /\ n \in 0..m /\ n # 0
  BY DEF Window
<1>2. \A n \in 1..m : Optimizer!Component(w[n], i) \in Int
  BY <1>1, ComponentIsInt
<1>3. /\ step \in [1..m -> [Int -> Int]]
      /\ \A n \in 1..m : \A y \in Int : step[n][y] = y + Optimizer!Component(w[n], i)
  BY <1>2
<1> HIDE DEF step
<1>4. PICK f : Stepping(f, Int, step, 0, m)
  <2> HIDE DEF m
  <2> QED
    BY <1>1, <1>3, Steppings, 0 \in Int
<1>5. f = SumTurns(w, i, f)
  <2>1. /\ f \in [0..m -> Int] /\ f[0] = 0
        /\ \A n \in 1..m : f[n] = f[n - 1] + Optimizer!Component(w[n], i)
    <3> HIDE DEF m
    <3> QED
      BY <1>1, <1>3, <1>4 DEF Stepping
  <2> QED
    BY <1>1, <2>1 DEF SumTurns
<1>6. t = SumTurns(w, i, t)
  BY <1>5 DEF Sums
<1>7. t[0] = 0 /\ \A n \in 1..m : t[n] = t[n - 1] + Optimizer!Component(w[n], i)
  <2> HIDE DEF t
  <2>1. /\ SumTurns(w, i, t)[0] = 0
        /\ \A n \in 1..m : SumTurns(w, i, t)[n] = t[n - 1] + Optimizer!Component(w[n], i)
    BY <1>1 DEF SumTurns
  <2> QED
    BY <1>6, <2>1
<1> DEFINE T == {n \in 0..m : t[n] \in Int}
<1>8. \A n \in 0..m : n \in T
  <2> HIDE DEF t, m
  <2>1. 0 \in T /\ \A n \in 1..m : n - 1 \in T => n \in T
    BY <1>1, <1>2, <1>7
  <2> HIDE DEF T
  <2> QED
    BY <1>1, <2>1, UpTo
<1>9. Optimizer!Sum(w, i) = t[m]
  BY DEF Optimizer!Sum, Sums, SumTurns
<1> QED
  BY <1>7, <1>8, <1>9

LEMMA OneMoreGradient ==
  ASSUME NEW w \in Window, NEW g \in Seq(Int), NEW i
  PROVE  /\ Append(w, g) \in Window
         /\ Optimizer!Sum(Append(w, g), i) = Optimizer!Sum(w, i) + Optimizer!Component(g, i)
<1> DEFINE v == Append(w, g)
           m == Len(w)
<1>1. /\ v \in Window /\ m \in Nat /\ Len(v) = m + 1 /\ v[m + 1] = g
      /\ \A n \in 1..m : v[n] = w[n]
  BY DEF Window
<1> DEFINE a == Sums(w, i)
           b == Sums(v, i)
           T == {n \in 0..m : a[n] = b[n]}
<1> HIDE DEF v, m
<1>2. /\ a[0] = 0 /\ b[0] = 0
      /\ \A n \in 1..m : a[n] = a[n - 1] + Optimizer!Component(w[n], i)
      /\ \A n \in 1..(m + 1) : b[n] = b[n - 1] + Optimizer!Component(v[n], i)
      /\ Optimizer!Sum(w, i) = a[m] /\ Optimizer!Sum(v, i) = b[m + 1]
  BY <1>1, SummedUp DEF m
<1> HIDE DEF a, b
<1>3. 0 \in T /\ \A n \in 1..m : n - 1 \in T => n \in T
  BY <1>1, <1>2
<1> HIDE DEF T
<1>4. m \in T
  <2>1. \A k \in 0..m : k \in T
    BY <1>1, <1>3, UpTo
  <2> QED
    BY <1>1, <2>1
<1>5. b[m + 1] = a[m] + Optimizer!Component(g, i)
  <2>1. b[m + 1] = b[m + 1 - 1] + Optimizer!Component(g, i) /\ m + 1 - 1 = m
    BY <1>1, <1>2
  <2> QED
    BY <1>4, <2>1 DEF T
<1> QED
  BY <1>1, <1>2, <1>5 DEF v

LEMMA AverageIsInt ==
  ASSUME NEW w \in Window, Len(w) > 0, NEW i
  PROVE  Optimizer!Average(w, i) \in Int
<1>1. Optimizer!Sum(w, i) \in Int /\ Len(w) \in Nat \ {0}
  <2>1. Len(w) \in Nat \ {0} /\ Len(w) \in 0..Len(w)
    BY DEF Window
  <2> QED
    BY <2>1, SummedUp
<1> QED
  BY <1>1 DEF Optimizer!Average

LEMMA SteppedBy ==
  ASSUME NEW ws, Windows(ws), NEW i \in DOMAIN Initial
  PROVE  /\ Stepped(ws, i)[0] = Initial[i] /\ \A n \in 0..(Len(ws) - 1) : Stepped(ws, i)[n] \in Int
         /\ \A n \in 1..(Len(ws) - 1) :
              Stepped(ws, i)[n] = Stepped(ws, i)[n - 1] - Optimizer!Average(ws[n], i)
<1> DEFINE m == Len(ws) - 1
           step == [n \in 1..m |-> [y \in Int |-> y - Optimizer!Average(ws[n], i)]]
           t == Stepped(ws, i)
<1>1. /\ m \in Nat /\ \A n \in 1..m : ws[n] \in Window /\ Len(ws[n]) > 0
      /\ \A n \in 1..m : n - 1 \in 0..m /\ n \in 0..m /\ n # 0
  BY DEF Windows
<1>2. \A n \in 1..m : Optimizer!Average(ws[n], i) \in Int
  BY <1>1, AverageIsInt
<1>3. /\ step \in [1..m -> [Int -> Int]]
      /\ \A n \in 1..m : \A y \in Int : step[n][y] = y - Optimizer!Average(ws[n], i)
  <2> HIDE DEF m
  <2> QED
    BY <1>2
<1>4. Initial[i] \in Int
  BY OptimizerAssumption
<1> HIDE DEF step
<1>5. PICK f : Stepping(f, Int, step, Initial[i], m)
  BY <1>1, <1>3, <1>4, Steppings
<1>6. f = SteppedTurns(ws, i, f)
  <2>1. /\ f \in [0..m -> Int] /\ f[0] = Initial[i]
        /\ \A n \in 1..m : f[n] = f[n - 1] - Optimizer!Average(ws[n], i)
    <3> HIDE DEF m
    <3> QED
      BY <1>1, <1>3, <1>5 DEF Stepping
  <2> QED
    BY <1>1, <2>1 DEF SteppedTurns
<1>7. t = SteppedTurns(ws, i, t)
  BY <1>6 DEF Stepped
<1>8. t[0] = Initial[i] /\ \A n \in 1..m : t[n] = t[n - 1] - Optimizer!Average(ws[n], i)
  <2> HIDE DEF t
  <2>1. /\ SteppedTurns(ws, i, t)[0] = Initial[i]
        /\ \A n \in 1..m : SteppedTurns(ws, i, t)[n] = t[n - 1] - Optimizer!Average(ws[n], i)
    BY <1>1 DEF SteppedTurns
  <2> QED
    BY <1>7, <2>1
<1> DEFINE T == {n \in 0..m : t[n] \in Int}
<1>9. \A n \in 0..m : n \in T
  <2> HIDE DEF t, m
  <2>1. 0 \in T /\ \A n \in 1..m : n - 1 \in T => n \in T
    BY <1>1, <1>2, <1>4, <1>8
  <2> HIDE DEF T
  <2> QED
    BY <1>1, <2>1, UpTo
<1> QED
  BY <1>8, <1>9

\* The steps up to one depend on the windows up to it only.
LEMMA SteppedAlike ==
  ASSUME NEW ws, Windows(ws), NEW vs, Windows(vs), NEW i \in DOMAIN Initial,
         NEW m \in Nat, m < Len(ws), m < Len(vs), \A n \in 1..m : ws[n] = vs[n]
  PROVE  Stepped(ws, i)[m] = Stepped(vs, i)[m]
<1> DEFINE a == Stepped(ws, i)
           b == Stepped(vs, i)
           T == {n \in 0..m : a[n] = b[n]}
<1>1. Len(ws) \in Nat /\ Len(vs) \in Nat
  BY DEF Windows
<1>2. /\ a[0] = b[0]
      /\ \A n \in 1..(Len(ws) - 1) : a[n] = a[n - 1] - Optimizer!Average(ws[n], i)
      /\ \A n \in 1..(Len(vs) - 1) : b[n] = b[n - 1] - Optimizer!Average(vs[n], i)
  BY SteppedBy
<1> HIDE DEF a, b
<1>3. 0 \in T /\ \A n \in 1..m : n - 1 \in T => n \in T
  BY <1>1, <1>2
<1> HIDE DEF T
<1>4. m \in T
  <2>1. \A k \in 0..m : k \in T
    BY <1>3, UpTo
  <2> QED
    BY <2>1
<1> QED
  BY <1>4 DEF T, a, b

LEMMA OptimizerInit == Optimizer!Init => OptimizerIInv
<1> SUFFICES ASSUME Optimizer!Init PROVE OptimizerIInv
  OBVIOUS
<1>1. /\ params = Initial /\ buf = [i \in DOMAIN Initial |-> 0] /\ pending = 0
      /\ windows = << << >> >> /\ << >> \in Window
  BY DEF Optimizer!Init, Optimizer!Zeros, Window
<1>2. Initial \in [DOMAIN Initial -> Int]
  BY OptimizerAssumption
<1>3. Windows(windows) /\ Len(windows) = 1 /\ windows[1] = << >>
  BY <1>1 DEF Windows
<1>4. \A i : Optimizer!Sum(<< >>, i) = 0
  <2>1. Len(<< >>) = 0
    OBVIOUS
  <2> QED
    BY <1>1, <2>1, SummedUp
<1>5. \A i \in DOMAIN Initial : Stepped(windows, i)[0] = Initial[i]
  BY <1>3, SteppedBy
<1> QED
  BY <1>1, <1>2, <1>3, <1>4, <1>5 DEF OptimizerIInv

LEMMA OptimizerObserve ==
  ASSUME OptimizerIInv, NEW g \in Gradients, Optimizer!ObserveGradient(g)
  PROVE  OptimizerIInv'
<1> DEFINE m == Len(windows)
           w == windows[m]
<1>1. /\ windows \in Seq(Window) /\ m \in Nat /\ m > 0 /\ w \in Window /\ g \in Seq(Int)
      /\ \A n \in 1..(m - 1) : Len(windows[n]) > 0
  BY OptimizerAssumption DEF OptimizerIInv, Windows
<1>2. /\ windows' = [windows EXCEPT ![m] = Append(w, g)]
      /\ params' = params /\ pending' = pending + 1
      /\ buf' = [i \in DOMAIN Initial |-> buf[i] + Optimizer!Component(g, i)]
  BY DEF OptimizerIInv, Optimizer!ObserveGradient
<1>3. /\ Append(w, g) \in Window /\ Len(Append(w, g)) = Len(w) + 1
      /\ \A i : Optimizer!Sum(Append(w, g), i) = Optimizer!Sum(w, i) + Optimizer!Component(g, i)
  BY <1>1, OneMoreGradient DEF Window
<1> HIDE DEF w
<1>4. /\ windows' \in Seq(Window) /\ Len(windows') = m /\ windows'[m] = Append(w, g)
      /\ \A n \in 1..(m - 1) : windows'[n] = windows[n]
  BY <1>1, <1>2, <1>3
<1>5. Windows(windows')
  BY <1>1, <1>4 DEF Windows
<1>6. \A i \in DOMAIN Initial : Stepped(windows', i)[m - 1] = Stepped(windows, i)[m - 1]
  <2>1. m - 1 \in Nat /\ m - 1 < Len(windows) /\ m - 1 < Len(windows') /\ Windows(windows)
    BY <1>1, <1>4 DEF OptimizerIInv
  <2> HIDE DEF m
  <2> QED
    BY <1>4, <1>5, <2>1, SteppedAlike
<1>7. buf' \in [DOMAIN Initial -> Int]
  <2>1. \A i \in DOMAIN Initial : buf[i] \in Int /\ Optimizer!Component(g, i) \in Int
    BY <1>1, ComponentIsInt DEF OptimizerIInv
  <2> QED
    BY <1>2, <2>1
<1> QED
  BY <1>1, <1>2, <1>3, <1>4, <1>5, <1>6, <1>7 DEF OptimizerIInv, w

LEMMA OptimizerStepped ==
  ASSUME OptimizerIInv, Optimizer!ProposeStep
  PROVE  OptimizerIInv'
<1> DEFINE m == Len(windows)
           w == windows[m]
<1>1. /\ windows \in Seq(Window) /\ m \in Nat /\ m > 0 /\ w \in Window /\ Len(w) > 0
      /\ \A n \in 1..(m - 1) : Len(windows[n]) > 0
      /\ pending = Len(w)
  BY DEF OptimizerIInv, Windows, Optimizer!ProposeStep
<1>2. /\ windows' = Append(windows, << >>) /\ pending' = 0
      /\ params' = [i \in DOMAIN Initial |-> params[i] - (buf[i] \div pending)]
      /\ buf' = [i \in DOMAIN Initial |-> 0]
  BY DEF OptimizerIInv, Optimizer!ProposeStep, Optimizer!Zeros
<1> HIDE DEF w
<1>3. << >> \in Window /\ Len(<< >>) = 0
  BY DEF Window
<1>4. /\ windows' \in Seq(Window) /\ Len(windows') = m + 1 /\ windows'[m + 1] = << >>
      /\ \A n \in 1..m : windows'[n] = windows[n]
  BY <1>1, <1>2, <1>3
<1>5. Windows(windows')
  <2>1. \A n \in 1..m : n \in 1..(m - 1) \/ n = m
    BY <1>1
  <2> QED
    BY <1>1, <1>4, <2>1 DEF Windows, w
<1>6. ASSUME NEW i \in DOMAIN Initial
      PROVE  /\ Stepped(windows', i)[m] = params[i] - Optimizer!Average(w, i)
             /\ params[i] - Optimizer!Average(w, i) \in Int
             /\ Optimizer!Average(w, i) = buf[i] \div pending
  <2>1. /\ m - 1 \in Nat /\ m - 1 < Len(windows) /\ m - 1 < Len(windows') /\ Windows(windows)
        /\ m \in 1..(Len(windows') - 1)
        /\ \A n \in 1..(m - 1) : windows'[n] = windows[n]
    BY <1>1, <1>4 DEF OptimizerIInv
  <2>2. Stepped(windows', i)[m - 1] = Stepped(windows, i)[m - 1]
    <3> HIDE DEF m
    <3> QED
      BY <1>5, <2>1, SteppedAlike
  <2>3. Stepped(windows', i)[m] = Stepped(windows', i)[m - 1] - Optimizer!Average(windows'[m], i)
    BY <1>5, <2>1, SteppedBy
  <2>4. params[i] = Stepped(windows, i)[m - 1] /\ params[i] \in Int /\ windows'[m] = w
    <3>1. m \in 1..m
      BY <1>1
    <3> QED
      BY <1>4, <3>1 DEF OptimizerIInv, w
  <2>5. Optimizer!Average(w, i) \in Int
    BY <1>1, AverageIsInt
  <2>6. Optimizer!Average(w, i) = buf[i] \div pending
    BY <1>1 DEF OptimizerIInv, Optimizer!Average, w
  <2> QED
    BY <2>2, <2>3, <2>4, <2>5, <2>6
<1>7. \A i : Optimizer!Sum(<< >>, i) = 0
  BY <1>3, SummedUp
<1>8. params' \in [DOMAIN Initial -> Int] /\ buf' \in [DOMAIN Initial -> Int]
  BY <1>2, <1>6
<1> QED
  BY <1>1, <1>2, <1>3, <1>4, <1>5, <1>6, <1>7, <1>8 DEF OptimizerIInv

LEMMA OptimizerKept == OptimizerIInv /\ [Optimizer!Next]_Optimizer!vars => OptimizerIInv'
<1> SUFFICES ASSUME OptimizerIInv, [Optimizer!Next]_Optimizer!vars PROVE OptimizerIInv'
  OBVIOUS
<1>1. ASSUME UNCHANGED <<params, buf, pending, windows>> PROVE OptimizerIInv'
  BY <1>1 DEF OptimizerIInv
<1> QED
  BY <1>1, OptimizerObserve, OptimizerStepped DEF Optimizer!Next, Optimizer!vars,
     Optimizer!ProposeUnchanged, Optimizer!ObserveWorkers, Optimizer!HostPropose

LEMMA OptimizerAgrees == OptimizerIInv => Optimizer!StepsByTheAverage
<1> SUFFICES ASSUME OptimizerIInv, NEW i \in DOMAIN params
             PROVE  params[i] = Stepped(windows, i)[Len(windows) - 1]
  BY DEF Optimizer!StepsByTheAverage, Stepped, SteppedTurns
<1> QED
  BY DEF OptimizerIInv

-----------------------------------------------------------------------------
(* The log.                                                                *)

Pointers == Sinks \cup {"null", "stderr"}

Frame ==
  [kind : {"sink"}, previous : Pointers]
    \cup [kind : {"context"}, previous : Nat, field : Keys \X Values]

\* l[i] fields and r[i] sinks asked for belong to the first i scopes; each scope remembers
\* what there was before it.
Nested(scopes, fields, asked, l, r) ==
  /\ l \in [0..Len(scopes) -> Nat] /\ r \in [0..Len(scopes) -> Nat]
  /\ l[0] = 0 /\ l[Len(scopes)] = Len(fields)
  /\ r[0] = 1 /\ r[Len(scopes)] = Len(asked)
  /\ \A i, j \in 0..Len(scopes) : i <= j => l[i] <= l[j] /\ r[i] <= r[j]
  /\ \A i \in 1..Len(scopes) :
       \/ /\ scopes[i].kind = "sink" /\ l[i] = l[i - 1] /\ r[i] = r[i - 1] + 1
          /\ Log!Effective(scopes[i].previous) = Log!Effective(asked[r[i - 1]])
       \/ /\ scopes[i].kind = "context" /\ l[i] = l[i - 1] + 1 /\ r[i] = r[i - 1]
          /\ scopes[i].previous = l[i - 1] /\ fields[l[i]] = scopes[i].field

LogTyped ==
  /\ frames \in Seq(Frame) /\ context \in Seq(Keys \X Values)
  /\ wanted \in Seq(Pointers) /\ sink \in Pointers

LogIInv ==
  /\ LogTyped /\ \E l, r : Nested(frames, context, wanted, l, r)
  /\ Log!Effective(sink) = Log!Effective(wanted[Len(wanted)])
  /\ records = due

-----------------------------------------------------------------------------
(* The values of the context, one field after the other, are those of the  *)
(* innermost scopes.                                                       *)

FieldTurns(fields, t) ==
  [n \in 0..Len(context) |-> IF n = 0 THEN fields ELSE Log!WithField(t[n - 1], context[n])]

Fields(fields) == CHOOSE t : t = FieldTurns(fields, t)

Records == UNION {[D -> Values] : D \in SUBSET Keys}

LEMMA FieldAdded ==
  ASSUME NEW rec \in Records, NEW e \in Keys \X Values
  PROVE  Log!WithField(rec, e) \in Records
<1>1. PICK D \in SUBSET Keys : rec \in [D -> Values]
  BY DEF Records
<1>2. Log!WithField(rec, e) \in [D \cup {e[1]} -> Values]
  BY <1>1 DEF Log!WithField
<1>3. D \cup {e[1]} \in SUBSET Keys
  BY <1>1
<1> QED
  BY <1>2, <1>3 DEF Records

LEMMA FieldsAdded ==
  ASSUME LogTyped, NEW fields \in Records
  PROVE  /\ Fields(fields)[0] = fields
         /\ \A n \in 1..Len(context) :
              Fields(fields)[n] = Log!WithField(Fields(fields)[n - 1], context[n])
         /\ Log!WithContext(fields) = Fields(fields)[Len(context)]
<1> DEFINE m == Len(context)
           step == [n \in 1..m |-> [rec \in Records |-> Log!WithField(rec, context[n])]]
           t == Fields(fields)
<1>1. /\ m \in Nat /\ \A n \in 1..m : context[n] \in Keys \X Values
      /\ \A n \in 1..m : n - 1 \in 0..m /\ n \in 0..m /\ n # 0
  BY DEF LogTyped
<1>2. /\ step \in [1..m -> [Records -> Records]]
      /\ \A n \in 1..m : \A rec \in Records : step[n][rec] = Log!WithField(rec, context[n])
  BY <1>1, FieldAdded
<1> HIDE DEF step
<1>3. PICK f : Stepping(f, Records, step, fields, m)
  <2> HIDE DEF m
  <2> QED
    BY <1>1, <1>2, Steppings
<1>4. f = FieldTurns(fields, f)
  <2>1. /\ f \in [0..m -> Records] /\ f[0] = fields
        /\ \A n \in 1..m : f[n] = Log!WithField(f[n - 1], context[n])
    <3> HIDE DEF m
    <3>1. \A n \in 1..m : f[n - 1] \in Records
      BY <1>1, <1>3 DEF Stepping
    <3> QED
      BY <1>1, <1>2, <1>3, <3>1 DEF Stepping
  <2> QED
    BY <1>1, <2>1 DEF FieldTurns
<1>5. t = FieldTurns(fields, t)
  BY <1>4 DEF Fields
<1>6. t[0] = fields /\ \A n \in 1..m : t[n] = Log!WithField(t[n - 1], context[n])
  <2> HIDE DEF t
  <2>1. /\ FieldTurns(fields, t)[0] = fields
        /\ \A n \in 1..m : FieldTurns(fields, t)[n] = Log!WithField(t[n - 1], context[n])
    BY <1>1 DEF FieldTurns
  <2> QED
    BY <1>5, <2>1
<1>7. Log!WithContext(fields) = t[m]
  BY DEF Log!WithContext, Fields, FieldTurns
<1> QED
  BY <1>6, <1>7

\* Of the first i scopes, those with a key.
ScopesUpTo(k, i) == {j \in 1..i : frames[j].kind = "context" /\ frames[j].field[1] = k}

InnermostUpTo(fields, i) ==
  [k \in DOMAIN fields \cup {k \in Keys : ScopesUpTo(k, i) # {}} |->
     IF ScopesUpTo(k, i) = {} THEN fields[k] ELSE frames[Log!Max(ScopesUpTo(k, i))].field[2]]

LEMMA LastIsMax ==
  ASSUME NEW i \in Nat, NEW S \in SUBSET (1..i), i \in S
  PROVE  Log!Max(S) = i
<1>1. \A x \in S : (\A y \in S : x >= y) <=> x = i
  OBVIOUS
<1> QED
  BY <1>1 DEF Log!Max

LEMMA InnermostNext ==
  ASSUME LogTyped, NEW fields, NEW i \in 1..Len(frames)
  PROVE  InnermostUpTo(fields, i)
           = IF frames[i].kind = "context"
             THEN Log!WithField(InnermostUpTo(fields, i - 1), frames[i].field)
             ELSE InnermostUpTo(fields, i - 1)
<1>1. /\ Len(frames) \in Nat /\ i \in Nat
      /\ \A j \in 1..i : j \in 1..(i - 1) \/ j = i
      /\ \A j \in 1..(i - 1) : j \in 1..i /\ j # i
  BY DEF LogTyped
<1>2. CASE frames[i].kind # "context"
  <2>1. \A k : ScopesUpTo(k, i) = ScopesUpTo(k, i - 1)
    BY <1>1, <1>2 DEF ScopesUpTo
  <2> QED
    BY <1>2, <2>1 DEF InnermostUpTo
<1>3. CASE frames[i].kind = "context"
  <2> DEFINE e == frames[i].field
             old == InnermostUpTo(fields, i - 1)
             new == Log!WithField(old, e)
  <2>1. e \in Keys \X Values
    BY <1>3 DEF LogTyped, Frame
  <2>2. /\ \A k : k # e[1] => ScopesUpTo(k, i) = ScopesUpTo(k, i - 1)
        /\ i \in ScopesUpTo(e[1], i) /\ ScopesUpTo(e[1], i) \in SUBSET (1..i)
    BY <1>1, <1>3 DEF ScopesUpTo
  <2>3. Log!Max(ScopesUpTo(e[1], i)) = i
    BY <1>1, <2>2, LastIsMax
  <2>4. DOMAIN fields \cup {k \in Keys : ScopesUpTo(k, i) # {}} = DOMAIN old \cup {e[1]}
    <3>1. e[1] \in Keys
      BY <2>1
    <3>2. DOMAIN old = DOMAIN fields \cup {k \in Keys : ScopesUpTo(k, i - 1) # {}}
      BY DEF InnermostUpTo
    <3>3. \A k : ScopesUpTo(k, i - 1) \subseteq ScopesUpTo(k, i)
      BY <1>1 DEF ScopesUpTo
    <3> HIDE DEF old
    <3> QED
      BY <2>2, <3>1, <3>2, <3>3
  <2>5. ASSUME NEW k \in DOMAIN old \cup {e[1]}
        PROVE  new[k] = IF ScopesUpTo(k, i) = {} THEN fields[k]
                        ELSE frames[Log!Max(ScopesUpTo(k, i))].field[2]
    <3>1. CASE k = e[1]
      BY <2>2, <2>3, <3>1 DEF Log!WithField
    <3>2. CASE k # e[1]
      <4>1. k \in DOMAIN old /\ new[k] = old[k] /\ ScopesUpTo(k, i) = ScopesUpTo(k, i - 1)
        BY <2>2, <3>2 DEF Log!WithField
      <4> QED
        BY <4>1 DEF InnermostUpTo
    <3> QED
      BY <3>1, <3>2
  <2>6. new = [k \in DOMAIN old \cup {e[1]} |-> new[k]]
    BY DEF Log!WithField
  <2> HIDE DEF new, old, e
  <2>7. InnermostUpTo(fields, i) = new
    BY <2>4, <2>5, <2>6 DEF InnermostUpTo
  <2> QED
    BY <1>3, <2>7 DEF new, old, e
<1> QED
  BY <1>2, <1>3

LEMMA InnermostIsLast ==
  ASSUME LogIInv, NEW fields \in Records
  PROVE  Log!WithContext(fields) = Log!Innermost(fields)
<1> DEFINE n == Len(frames)
           t == Fields(fields)
<1>1. PICK l, r : Nested(frames, context, wanted, l, r)
  BY DEF LogIInv
<1>2. /\ n \in Nat /\ Len(context) \in Nat
      /\ t[0] = fields /\ Log!WithContext(fields) = t[Len(context)]
      /\ \A m \in 1..Len(context) : t[m] = Log!WithField(t[m - 1], context[m])
  BY FieldsAdded DEF LogIInv, LogTyped
<1> HIDE DEF t, n
<1> DEFINE T == {i \in 0..n : t[l[i]] = InnermostUpTo(fields, i)}
<1>3. 0 \in T
  <2>1. \A k : ScopesUpTo(k, 0) = {}
    BY DEF ScopesUpTo
  <2>2. InnermostUpTo(fields, 0) = [k \in DOMAIN fields |-> fields[k]]
    BY <2>1 DEF InnermostUpTo
  <2>3. fields = [k \in DOMAIN fields |-> fields[k]]
    BY DEF Records
  <2> QED
    BY <1>1, <1>2, <2>2, <2>3 DEF Nested
<1>4. ASSUME NEW i \in 1..n, i - 1 \in T PROVE i \in T
  <2>0. i \in 0..n /\ i - 1 \in 0..n /\ i - 1 <= i /\ i <= n /\ n \in 0..n
    BY <1>2
  <2>1. CASE frames[i].kind = "context"
    <3>1. /\ l[i] = l[i - 1] + 1 /\ context[l[i]] = frames[i].field
          /\ l[i] <= Len(context) /\ l[i - 1] \in Nat
      BY <1>1, <2>0, <2>1 DEF Nested, n
    <3>2. l[i] \in 1..Len(context) /\ l[i] - 1 = l[i - 1]
      BY <1>2, <3>1
    <3>3. t[l[i]] = Log!WithField(t[l[i - 1]], frames[i].field)
      BY <1>2, <3>1, <3>2
    <3> QED
      BY <1>4, <2>0, <2>1, <3>3, InnermostNext DEF LogIInv, n
  <2>2. CASE frames[i].kind # "context"
    <3>1. l[i] = l[i - 1]
      BY <1>1, <2>2 DEF Nested, n
    <3> QED
      BY <1>4, <2>0, <2>2, <3>1, InnermostNext DEF LogIInv, n
  <2> QED
    BY <2>1, <2>2
<1> HIDE DEF T
<1>5. n \in T
  <2>1. \A i \in 0..n : i \in T
    BY <1>2, <1>3, <1>4, UpTo
  <2> QED
    BY <1>2, <2>1
<1>6. Log!WithContext(fields) = InnermostUpTo(fields, n)
  BY <1>1, <1>2, <1>5 DEF T, Nested, n
<1>7. \A k : Log!Scopes(k) = ScopesUpTo(k, n)
  BY DEF Log!Scopes, ScopesUpTo, LogIInv, LogTyped, n
<1> QED
  BY <1>6, <1>7 DEF InnermostUpTo, Log!Innermost

-----------------------------------------------------------------------------
(* The scopes.                                                             *)

LEMMA Effected ==
  /\ \A s \in Pointers : Log!Effective(s) \in Pointers
  /\ \A s : Log!Effective(Log!Effective(s)) = Log!Effective(s)
  BY DEF Log!Effective, Pointers

LEMMA LogInit == Log!Init => LogIInv
<1> SUFFICES ASSUME Log!Init PROVE LogIInv
  OBVIOUS
<1>1. /\ frames = << >> /\ context = << >> /\ wanted = <<"null">> /\ sink = "null" /\ records = due
  BY DEF Log!Init
<1>2. LogTyped /\ Len(frames) = 0 /\ Len(context) = 0 /\ Len(wanted) = 1
  BY <1>1 DEF LogTyped, Pointers
<1>3. Nested(frames, context, wanted, [i \in 0..0 |-> 0], [i \in 0..0 |-> 1])
  BY <1>2 DEF Nested
<1> QED
  BY <1>1, <1>2, <1>3 DEF LogIInv

LEMMA LogOpens ==
  ASSUME LogIInv,
         \/ \E s \in Sinks \cup {"null"} : Log!OpenSink(s)
         \/ \E k \in Keys, v \in Values : Log!OpenContext(k, v)
  PROVE  LogIInv'
<1> DEFINE n == Len(frames)
<1>1. PICK l, r : Nested(frames, context, wanted, l, r)
  BY DEF LogIInv
<1>2. /\ frames \in Seq(Frame) /\ n \in Nat /\ context \in Seq(Keys \X Values)
      /\ wanted \in Seq(Pointers) /\ sink \in Pointers
      /\ Len(context) \in Nat /\ Len(wanted) \in Nat
      /\ \A i \in 0..n : i \in 0..(n + 1) /\ i # n + 1 /\ 0 <= i /\ i <= n
      /\ 0 \in 0..n
      /\ \A i \in 0..(n + 1) : i \in 0..n \/ i = n + 1
      /\ \A i \in 1..n : i \in 0..n /\ i - 1 \in 0..n /\ i \in 1..(n + 1)
      /\ \A i \in 1..(n + 1) : i \in 1..n \/ i = n + 1
      /\ n \in 0..n /\ n + 1 \in 1..(n + 1) /\ n + 1 \in 0..(n + 1) /\ ~(n + 1 <= n) /\ n + 1 - 1 = n
  BY DEF LogIInv, LogTyped
<1>3. ASSUME NEW s \in Sinks \cup {"null"}, Log!OpenSink(s) PROVE LogIInv'
  <2> DEFINE frame == [kind |-> "sink", previous |-> sink]
             l1 == [i \in 0..(n + 1) |-> IF i = n + 1 THEN Len(context) ELSE l[i]]
             r1 == [i \in 0..(n + 1) |-> IF i = n + 1 THEN Len(wanted) + 1 ELSE r[i]]
  <2>1. /\ frames' = Append(frames, frame) /\ wanted' = Append(wanted, s)
        /\ sink' = Log!Effective(s) /\ UNCHANGED <<context, records, due>>
        /\ frame \in Frame /\ s \in Pointers
    BY <1>2, <1>3 DEF Log!OpenSink, Log!Opened, Frame, Pointers
  <2> HIDE DEF frame
  <2>2. /\ frames' \in Seq(Frame) /\ Len(frames') = n + 1 /\ frames'[n + 1] = frame
        /\ \A i \in 1..n : frames'[i] = frames[i]
        /\ wanted' \in Seq(Pointers) /\ Len(wanted') = Len(wanted) + 1
        /\ wanted'[Len(wanted) + 1] = s
        /\ \A i \in 1..Len(wanted) : wanted'[i] = wanted[i]
    BY <1>2, <2>1
  <2>3. LogTyped'
    BY <1>2, <2>1, <2>2, Effected DEF LogTyped
  <2>4. ASSUME NEW i \in 0..n PROVE r[i] \in 1..Len(wanted) /\ l[i] <= Len(context)
    <3>1. r[i] \in Nat /\ r[0] <= r[i] /\ r[i] <= r[n] /\ l[i] <= l[n]
      BY <1>1, <1>2 DEF Nested
    <3>2. r[0] = 1 /\ r[n] = Len(wanted) /\ l[n] = Len(context)
      BY <1>1 DEF Nested
    <3> HIDE DEF n
    <3> QED
      BY <1>2, <3>1, <3>2
  <2>5. /\ frame.kind = "sink"
        /\ Log!Effective(frame.previous) = Log!Effective(wanted[Len(wanted)])
    BY DEF frame, LogIInv
  <2>6. Nested(frames', context', wanted', l1, r1)
    <3>1. /\ l1 \in [0..(n + 1) -> Nat] /\ r1 \in [0..(n + 1) -> Nat]
          /\ l1[0] = 0 /\ l1[n + 1] = Len(context) /\ r1[0] = 1 /\ r1[n + 1] = Len(wanted) + 1
          /\ \A i \in 0..n : l1[i] = l[i] /\ r1[i] = r[i]
      BY <1>1, <1>2 DEF Nested
    <3> HIDE DEF l1, r1
    <3>2. ASSUME NEW i \in 0..(n + 1), NEW j \in 0..(n + 1), i <= j
          PROVE  l1[i] <= l1[j] /\ r1[i] <= r1[j]
      <4>1. CASE j = n + 1 /\ i = n + 1
        BY <1>2, <3>1, <4>1
      <4>2. CASE j = n + 1 /\ i \in 0..n
        <5>1. /\ l1[i] = l[i] /\ r1[i] = r[i] /\ l[i] <= Len(context) /\ r[i] \in 1..Len(wanted)
              /\ l1[j] = Len(context) /\ r1[j] = Len(wanted) + 1
          BY <2>4, <3>1, <4>2
        <5> QED
          BY <1>2, <5>1
      <4>3. CASE j \in 0..n
        <5>1. i \in 0..n
          BY <1>2, <3>2, <4>3
        <5> QED
          BY <1>1, <3>1, <3>2, <4>3, <5>1 DEF Nested
      <4> QED
        BY <1>2, <4>1, <4>2, <4>3
    <3>3. ASSUME NEW i \in 1..(n + 1)
          PROVE  \/ /\ frames'[i].kind = "sink" /\ l1[i] = l1[i - 1] /\ r1[i] = r1[i - 1] + 1
                    /\ Log!Effective(frames'[i].previous) = Log!Effective(wanted'[r1[i - 1]])
                 \/ /\ frames'[i].kind = "context" /\ l1[i] = l1[i - 1] + 1 /\ r1[i] = r1[i - 1]
                    /\ frames'[i].previous = l1[i - 1] /\ context'[l1[i]] = frames'[i].field
      <4>1. CASE i = n + 1
        <5>1. /\ i - 1 = n /\ l1[i - 1] = Len(context) /\ r1[i - 1] = Len(wanted)
              /\ wanted'[Len(wanted)] = wanted[Len(wanted)]
          BY <1>1, <1>2, <2>2, <2>4, <3>1, <4>1 DEF Nested
        <5> QED
          BY <2>2, <2>5, <3>1, <4>1, <5>1
      <4>2. CASE i \in 1..n
        <5>1. /\ frames'[i] = frames[i] /\ l1[i] = l[i] /\ r1[i] = r[i]
              /\ l1[i - 1] = l[i - 1] /\ r1[i - 1] = r[i - 1]
              /\ wanted'[r[i - 1]] = wanted[r[i - 1]] /\ context' = context
          BY <1>2, <2>1, <2>2, <2>4, <3>1, <4>2
        <5> QED
          BY <1>1, <4>2, <5>1 DEF Nested
      <4> QED
        BY <1>2, <4>1, <4>2
    <3> QED
      BY <2>1, <2>2, <3>1, <3>2, <3>3 DEF Nested
  <2>7. Log!Effective(sink') = Log!Effective(wanted'[Len(wanted')])
    BY <2>1, <2>2, Effected
  <2> QED
    BY <2>1, <2>3, <2>6, <2>7 DEF LogIInv
<1>4. ASSUME NEW k \in Keys, NEW v \in Values, Log!OpenContext(k, v) PROVE LogIInv'
  <2> DEFINE e == <<k, v>>
             frame == [kind |-> "context", previous |-> Len(context), field |-> e]
             l1 == [i \in 0..(n + 1) |-> IF i = n + 1 THEN Len(context) + 1 ELSE l[i]]
             r1 == [i \in 0..(n + 1) |-> IF i = n + 1 THEN Len(wanted) ELSE r[i]]
  <2>1. /\ frames' = Append(frames, frame) /\ context' = Append(context, e)
        /\ UNCHANGED <<sink, wanted, records, due>>
        /\ frame \in Frame /\ e \in Keys \X Values
    BY <1>2, <1>4 DEF Log!OpenContext, Log!Opened, Frame
  <2>2. /\ frames' \in Seq(Frame) /\ Len(frames') = n + 1 /\ frames'[n + 1] = frame
        /\ \A i \in 1..n : frames'[i] = frames[i]
        /\ context' \in Seq(Keys \X Values) /\ Len(context') = Len(context) + 1
        /\ context'[Len(context) + 1] = e
        /\ \A i \in 1..Len(context) : context'[i] = context[i]
    <3> HIDE DEF frame, e
    <3> QED
      BY <1>2, <2>1
  <2>3. LogTyped'
    BY <1>2, <2>1, <2>2 DEF LogTyped
  <2>4. ASSUME NEW i \in 0..n PROVE r[i] <= Len(wanted) /\ l[i] \in 0..Len(context)
    <3>1. l[i] \in Nat /\ r[i] <= r[n] /\ l[i] <= l[n]
      BY <1>1, <1>2 DEF Nested
    <3>2. r[n] = Len(wanted) /\ l[n] = Len(context)
      BY <1>1 DEF Nested
    <3> HIDE DEF n
    <3> QED
      BY <1>2, <3>1, <3>2
  <2>5. frame.kind = "context" /\ frame.previous = Len(context) /\ frame.field = e
    OBVIOUS
  <2> HIDE DEF frame, e
  <2>6. Nested(frames', context', wanted', l1, r1)
    <3>1. /\ l1 \in [0..(n + 1) -> Nat] /\ r1 \in [0..(n + 1) -> Nat]
          /\ l1[0] = 0 /\ l1[n + 1] = Len(context) + 1 /\ r1[0] = 1 /\ r1[n + 1] = Len(wanted)
          /\ \A i \in 0..n : l1[i] = l[i] /\ r1[i] = r[i]
      BY <1>1, <1>2 DEF Nested
    <3> HIDE DEF l1, r1
    <3>2. ASSUME NEW i \in 0..(n + 1), NEW j \in 0..(n + 1), i <= j
          PROVE  l1[i] <= l1[j] /\ r1[i] <= r1[j]
      <4>1. CASE j = n + 1 /\ i = n + 1
        BY <1>2, <3>1, <4>1
      <4>2. CASE j = n + 1 /\ i \in 0..n
        <5>1. /\ l1[i] = l[i] /\ r1[i] = r[i] /\ l[i] \in 0..Len(context) /\ r[i] <= Len(wanted)
              /\ l1[j] = Len(context) + 1 /\ r1[j] = Len(wanted)
          BY <2>4, <3>1, <4>2
        <5> QED
          BY <1>2, <5>1
      <4>3. CASE j \in 0..n
        <5>1. i \in 0..n
          BY <1>2, <3>2, <4>3
        <5> QED
          BY <1>1, <3>1, <3>2, <4>3, <5>1 DEF Nested
      <4> QED
        BY <1>2, <4>1, <4>2, <4>3
    <3>3. ASSUME NEW i \in 1..(n + 1)
          PROVE  \/ /\ frames'[i].kind = "sink" /\ l1[i] = l1[i - 1] /\ r1[i] = r1[i - 1] + 1
                    /\ Log!Effective(frames'[i].previous) = Log!Effective(wanted'[r1[i - 1]])
                 \/ /\ frames'[i].kind = "context" /\ l1[i] = l1[i - 1] + 1 /\ r1[i] = r1[i - 1]
                    /\ frames'[i].previous = l1[i - 1] /\ context'[l1[i]] = frames'[i].field
      <4>1. CASE i = n + 1
        <5>1. i - 1 = n /\ l1[i - 1] = Len(context) /\ r1[i - 1] = Len(wanted)
          BY <1>1, <1>2, <3>1, <4>1 DEF Nested
        <5> QED
          BY <2>2, <2>5, <3>1, <4>1, <5>1
      <4>2. CASE i \in 1..n
        <5>1. /\ frames'[i] = frames[i] /\ l1[i] = l[i] /\ r1[i] = r[i]
              /\ l1[i - 1] = l[i - 1] /\ r1[i - 1] = r[i - 1] /\ wanted' = wanted
              /\ l[i] \in 0..Len(context) /\ l[i - 1] \in Nat
          BY <1>1, <1>2, <2>1, <2>2, <2>4, <3>1, <4>2 DEF Nested
        <5>2. l[i] = l[i - 1] + 1 => context'[l[i]] = context[l[i]]
          <6>1. l[i] = l[i - 1] + 1 => l[i] \in 1..Len(context)
            BY <1>2, <5>1
          <6> QED
            BY <2>2, <6>1
        <5> QED
          BY <1>1, <4>2, <5>1, <5>2 DEF Nested
      <4> QED
        BY <1>2, <4>1, <4>2
    <3> QED
      BY <2>1, <2>2, <3>1, <3>2, <3>3 DEF Nested
  <2> QED
    BY <2>1, <2>3, <2>6 DEF LogIInv
<1> QED
  BY <1>3, <1>4

LEMMA SeqCut ==
  ASSUME NEW S, NEW seq \in Seq(S), NEW m \in Nat, m <= Len(seq)
  PROVE  /\ SubSeq(seq, 1, m) \in Seq(S) /\ Len(SubSeq(seq, 1, m)) = m
         /\ \A i \in 1..m : SubSeq(seq, 1, m)[i] = seq[i]
OBVIOUS

LEMMA LogCloses ==
  ASSUME LogIInv, Log!CloseSink \/ Log!CloseContext
  PROVE  LogIInv'
<1> DEFINE n == Len(frames)
<1>1. PICK l, r : Nested(frames, context, wanted, l, r)
  BY DEF LogIInv
<1>2. /\ frames \in Seq(Frame) /\ n \in Nat \ {0} /\ context \in Seq(Keys \X Values)
      /\ wanted \in Seq(Pointers) /\ sink \in Pointers /\ records = due
      /\ Len(context) \in Nat /\ Len(wanted) \in Nat
      /\ frames' = SubSeq(frames, 1, n - 1) /\ UNCHANGED <<records, due>>
  BY DEF LogIInv, LogTyped, Log!CloseSink, Log!CloseContext, Log!Front
<1>3. /\ n - 1 \in 0..n /\ n \in 1..n /\ n \in 0..n /\ n - 1 \in Nat
      /\ \A i \in 0..(n - 1) : i \in 0..n /\ i <= n - 1
      /\ \A i \in 1..(n - 1) : i \in 0..(n - 1) /\ i - 1 \in 0..(n - 1) /\ i \in 1..n
  BY <1>2
<1>4. /\ frames' \in Seq(Frame) /\ Len(frames') = n - 1
      /\ \A i \in 1..(n - 1) : frames'[i] = frames[i]
  <2>1. n - 1 \in Nat /\ n - 1 <= Len(frames)
    BY <1>2
  <2>2. /\ SubSeq(frames, 1, n - 1) \in Seq(Frame) /\ Len(SubSeq(frames, 1, n - 1)) = n - 1
        /\ \A i \in 1..(n - 1) : SubSeq(frames, 1, n - 1)[i] = frames[i]
    <3> DEFINE m == n - 1
    <3> HIDE DEF m
    <3>1. /\ SubSeq(frames, 1, m) \in Seq(Frame) /\ Len(SubSeq(frames, 1, m)) = m
          /\ \A i \in 1..m : SubSeq(frames, 1, m)[i] = frames[i]
      BY <1>2, <2>1, SeqCut DEF m
    <3> QED
      BY <3>1 DEF m
  <2> QED
    BY <1>2, <2>2
<1> DEFINE l1 == [i \in 0..(n - 1) |-> l[i]]
           r1 == [i \in 0..(n - 1) |-> r[i]]
           last == frames[n]
<1>5. /\ l \in [0..n -> Nat] /\ r \in [0..n -> Nat] /\ l[0] = 0 /\ r[0] = 1
      /\ l[n] = Len(context) /\ r[n] = Len(wanted)
      /\ \A i, j \in 0..n : i <= j => l[i] <= l[j] /\ r[i] <= r[j]
  BY <1>1 DEF Nested
<1>6. \/ /\ last.kind = "sink" /\ l[n] = l[n - 1] /\ r[n] = r[n - 1] + 1
         /\ Log!Effective(last.previous) = Log!Effective(wanted[r[n - 1]])
      \/ /\ last.kind = "context" /\ l[n] = l[n - 1] + 1 /\ r[n] = r[n - 1]
         /\ last.previous = l[n - 1] /\ context[l[n]] = last.field
  BY <1>1, <1>3 DEF Nested
<1>7. last.kind = "sink" => last.previous \in Pointers
  <2>1. last \in Frame
    BY <1>2, <1>3
  <2> HIDE DEF last
  <2> QED
    BY <2>1 DEF Frame
<1> HIDE DEF last, n
<1>8. /\ l1 \in [0..(n - 1) -> Nat] /\ r1 \in [0..(n - 1) -> Nat]
      /\ l1[0] = 0 /\ l1[n - 1] = l[n - 1] /\ r1[0] = 1 /\ r1[n - 1] = r[n - 1]
      /\ \A i \in 0..(n - 1) : l1[i] = l[i] /\ r1[i] = r[i]
      /\ \A i \in 0..(n - 1) : l[i] <= l[n - 1] /\ r[i] <= r[n - 1] /\ 1 <= r[i] /\ l[i] \in Nat /\ r[i] \in Nat
  BY <1>2, <1>3, <1>5
<1> HIDE DEF l1, r1
<1>9. ASSUME Len(context') = l[n - 1], Len(wanted') = r[n - 1],
             \A i \in 1..l[n - 1] : context'[i] = context[i],
             \A i \in 0..(n - 1) : r[i] < r[n - 1] => wanted'[r[i]] = wanted[r[i]]
      PROVE  Nested(frames', context', wanted', l1, r1)
  <2>1. ASSUME NEW i \in 0..(n - 1), NEW j \in 0..(n - 1), i <= j
        PROVE  l1[i] <= l1[j] /\ r1[i] <= r1[j]
    BY <1>3, <1>5, <1>8, <2>1
  <2>2. ASSUME NEW i \in 1..(n - 1)
        PROVE  \/ /\ frames'[i].kind = "sink" /\ l1[i] = l1[i - 1] /\ r1[i] = r1[i - 1] + 1
                  /\ Log!Effective(frames'[i].previous) = Log!Effective(wanted'[r1[i - 1]])
               \/ /\ frames'[i].kind = "context" /\ l1[i] = l1[i - 1] + 1 /\ r1[i] = r1[i - 1]
                  /\ frames'[i].previous = l1[i - 1] /\ context'[l1[i]] = frames'[i].field
    <3>1. /\ frames'[i] = frames[i] /\ l1[i] = l[i] /\ r1[i] = r[i] /\ i \in 1..n
          /\ l1[i - 1] = l[i - 1] /\ r1[i - 1] = r[i - 1]
          /\ i \in 0..(n - 1) /\ i - 1 \in 0..(n - 1)
      BY <1>3, <1>4, <1>8
    <3>2. CASE frames[i].kind = "sink"
      <4>1. /\ l[i] = l[i - 1] /\ r[i] = r[i - 1] + 1
            /\ Log!Effective(frames[i].previous) = Log!Effective(wanted[r[i - 1]])
        BY <1>1, <3>1, <3>2 DEF Nested, n
      <4>2. r[i - 1] < r[n - 1]
        BY <1>3, <1>8, <3>1, <4>1
      <4> QED
        BY <1>9, <3>1, <3>2, <4>1, <4>2
    <3>3. CASE frames[i].kind # "sink"
      <4>1. /\ frames[i].kind = "context" /\ l[i] = l[i - 1] + 1 /\ r[i] = r[i - 1]
            /\ frames[i].previous = l[i - 1] /\ context[l[i]] = frames[i].field
        BY <1>1, <3>1, <3>3 DEF Nested, n
      <4>2. l[i] \in 1..l[n - 1]
        BY <1>3, <1>8, <3>1, <4>1
      <4> QED
        BY <1>9, <3>1, <4>1, <4>2
    <3> QED
      BY <3>2, <3>3
  <2> QED
    BY <1>4, <1>8, <1>9, <2>1, <2>2 DEF Nested
<1>10. CASE Log!CloseSink
  <2>1. /\ last.kind = "sink" /\ sink' = Log!Effective(last.previous)
        /\ wanted' = SubSeq(wanted, 1, Len(wanted) - 1) /\ context' = context
    BY <1>10 DEF Log!CloseSink, Log!Last, Log!Front, last, n
  <2>2. /\ r[n - 1] = Len(wanted) - 1 /\ l[n - 1] = Len(context) /\ 1 <= r[n - 1]
        /\ Log!Effective(last.previous) = Log!Effective(wanted[r[n - 1]])
    <3>1. /\ l[n] = l[n - 1] /\ r[n] = r[n - 1] + 1
          /\ Log!Effective(last.previous) = Log!Effective(wanted[r[n - 1]])
      BY <1>6, <2>1
    <3>2. r[n - 1] \in Nat /\ 1 <= r[n - 1]
      BY <1>3, <1>8
    <3> QED
      BY <1>2, <1>5, <3>1, <3>2
  <2>3. /\ wanted' \in Seq(Pointers) /\ Len(wanted') = r[n - 1]
        /\ \A i \in 1..r[n - 1] : wanted'[i] = wanted[i]
    BY <1>2, <1>3, <1>8, <2>1, <2>2, SeqCut
  <2>4. Nested(frames', context', wanted', l1, r1)
    <3>1. \A i \in 0..(n - 1) : r[i] \in 1..r[n - 1]
      BY <1>3, <1>8
    <3> QED
      BY <1>9, <2>1, <2>2, <2>3, <3>1
  <2>5. LogTyped'
    BY <1>2, <1>4, <1>7, <2>1, <2>3, Effected DEF LogTyped
  <2>6. Log!Effective(sink') = Log!Effective(wanted'[Len(wanted')])
    <3>1. r[n - 1] \in 1..r[n - 1]
      BY <1>3, <1>8, <2>2
    <3>2. wanted'[Len(wanted')] = wanted[r[n - 1]]
      BY <2>3, <3>1
    <3> QED
      BY <2>1, <2>2, <3>2, Effected
  <2> QED
    BY <1>2, <2>4, <2>5, <2>6 DEF LogIInv
<1>11. CASE Log!CloseContext
  <2>1. /\ last.kind = "context" /\ context' = SubSeq(context, 1, last.previous)
        /\ UNCHANGED <<sink, wanted>>
    BY <1>11 DEF Log!CloseContext, Log!Last, last, n
  <2>2. /\ l[n - 1] + 1 = Len(context) /\ r[n - 1] = Len(wanted) /\ l[n - 1] \in Nat
        /\ last.previous = l[n - 1]
    BY <1>2, <1>3, <1>5, <1>6, <1>8, <2>1
  <2>3. /\ context' \in Seq(Keys \X Values) /\ Len(context') = l[n - 1]
        /\ \A i \in 1..l[n - 1] : context'[i] = context[i]
    BY <1>2, <2>1, <2>2, SeqCut
  <2>4. Nested(frames', context', wanted', l1, r1)
    BY <1>9, <2>1, <2>2, <2>3
  <2>5. LogTyped'
    BY <1>2, <1>4, <2>1, <2>3 DEF LogTyped
  <2> QED
    BY <1>2, <2>1, <2>4, <2>5 DEF LogIInv
<1> QED
  BY <1>10, <1>11

LEMMA LogSetsSink ==
  ASSUME LogIInv, NEW s \in Sinks \cup {"null"}, Log!SetSink(s)
  PROVE  LogIInv'
<1> DEFINE n == Len(frames)
           m == Len(wanted)
<1>1. PICK l, r : Nested(frames, context, wanted, l, r)
  BY DEF LogIInv
<1>2. /\ frames \in Seq(Frame) /\ n \in Nat /\ context \in Seq(Keys \X Values)
      /\ wanted \in Seq(Pointers) /\ m \in Nat /\ s \in Pointers /\ records = due
      /\ sink' = Log!Effective(s) /\ wanted' = [wanted EXCEPT ![m] = s]
      /\ UNCHANGED <<context, frames, records, due>>
  BY DEF LogIInv, LogTyped, Log!SetSink, Pointers
<1>3. m \in 1..m
  <2>1. r[n] = m /\ r[0] = 1 /\ r[0] <= r[n]
    BY <1>1, <1>2 DEF Nested
  <2> QED
    BY <1>2, <2>1
<1>4. /\ wanted' \in Seq(Pointers) /\ Len(wanted') = m /\ wanted'[m] = s
      /\ \A i \in 1..m : i # m => wanted'[i] = wanted[i]
  BY <1>2, <1>3
<1>5. LogTyped'
  BY <1>2, <1>4, Effected DEF LogTyped
<1>6. Nested(frames', context', wanted', l, r)
  <2>1. ASSUME NEW i \in 1..n, r[i] = r[i - 1] + 1
        PROVE  wanted'[r[i - 1]] = wanted[r[i - 1]]
    <3>1. i \in 0..n /\ i - 1 \in 0..n /\ n \in 0..n /\ 0 \in 0..n /\ i <= n /\ 0 <= i - 1
      BY <1>2
    <3>2. r[i] <= m /\ r[i - 1] \in Nat /\ 1 <= r[i - 1]
      BY <1>1, <3>1 DEF Nested
    <3>3. r[i - 1] \in 1..m /\ r[i - 1] # m
      BY <1>2, <2>1, <3>2
    <3> QED
      BY <1>4, <3>3
  <2>2. \A i \in 1..n : r[i] = r[i - 1] + 1 => wanted'[r[i - 1]] = wanted[r[i - 1]]
    BY <2>1
  <2> QED
    BY <1>1, <1>2, <1>4, <2>2 DEF Nested
<1>7. Log!Effective(sink') = Log!Effective(wanted'[Len(wanted')])
  BY <1>2, <1>4, Effected
<1> QED
  BY <1>2, <1>5, <1>6, <1>7 DEF LogIInv

LEMMA LogEmits ==
  ASSUME LogIInv, NEW lev, NEW k \in Keys, NEW v \in Values, Log!Emit(lev, [x \in {k} |-> v])
  PROVE  LogIInv'
<1> DEFINE fields == [x \in {k} |-> v]
<1>1. fields \in Records
  BY DEF Records
<1>2. Log!WithContext(fields) = Log!Innermost(fields)
  BY <1>1, InnermostIsLast
<1> HIDE DEF fields
<1>3. /\ sink' = Log!Effective(sink)
      /\ records' = Log!Added(records, sink', Log!WithContext(fields))
      /\ due' = Log!Added(due, Log!Effective(wanted[Len(wanted)]), Log!Innermost(fields))
      /\ UNCHANGED <<context, frames, wanted>>
  BY DEF Log!Emit, Log!Last, fields
<1>4. records' = due'
  BY <1>2, <1>3 DEF LogIInv
<1>5. LogTyped' /\ Log!Effective(sink') = Log!Effective(wanted'[Len(wanted')])
  BY <1>3, Effected DEF LogIInv, LogTyped
<1>6. \E l, r : Nested(frames', context', wanted', l, r)
  <2>1. PICK l, r : Nested(frames, context, wanted, l, r)
    BY DEF LogIInv
  <2>2. Nested(frames', context', wanted', l, r)
    BY <1>3, <2>1
  <2> QED
    BY <2>2
<1> QED
  BY <1>4, <1>5, <1>6 DEF LogIInv

LEMMA LogKept == LogIInv /\ [Log!Next]_Log!vars => LogIInv'
<1> SUFFICES ASSUME LogIInv, [Log!Next]_Log!vars PROVE LogIInv'
  OBVIOUS
<1>1. ASSUME UNCHANGED <<sink, context, frames, wanted>>, records' = due' PROVE LogIInv'
  <2>1. PICK l, r : Nested(frames, context, wanted, l, r)
    BY DEF LogIInv
  <2>2. Nested(frames', context', wanted', l, r)
    BY <1>1, <2>1
  <2> QED
    BY <1>1, <2>2 DEF LogIInv, LogTyped
<1>2. CASE UNCHANGED Log!vars
  BY <1>1, <1>2 DEF Log!vars, LogIInv
<1>3. ASSUME NEW lev, Log!SetLevel(lev) PROVE LogIInv'
  BY <1>1, <1>3 DEF Log!SetLevel, LogIInv
<1>4. ASSUME NEW lev, Log!EmitFiltered(lev) PROVE LogIInv'
  BY <1>2, <1>4 DEF Log!EmitFiltered
<1>5. ASSUME NEW s, Log!ClearQueue(s) PROVE LogIInv'
  BY <1>1, <1>5 DEF Log!ClearQueue, LogIInv
<1> QED
  BY <1>2, <1>3, <1>4, <1>5, LogOpens, LogCloses, LogSetsSink, LogEmits DEF Log!Next

LEMMA LogAgrees == LogIInv => Log!LogSeesItsScopes
  BY DEF LogIInv, Log!LogSeesItsScopes

-----------------------------------------------------------------------------
(* The machine.                                                            *)

Machine ==
  [op : {"push8", "mov", "push", "pop", "Add", "Sub", "Mul", "load", "store", "ret"},
   x : Int \cup {"rax", "rbx"}]

LEMMA Agreeing ==
  ASSUME NEW n \in Nat, NEW t, NEW u, t[0] = u[0],
         \A k \in 1..n : t[k - 1] = u[k - 1] => t[k] = u[k]
  PROVE  t[n] = u[n]
<1> DEFINE T == {k \in 0..n : t[k] = u[k]}
<1>1. 0 \in T /\ n \in 0..n
  OBVIOUS
<1>2. \A k \in 1..n : k - 1 \in T => k \in T
  OBVIOUS
<1> HIDE DEF T
<1>3. \A k \in 0..n : k \in T
  BY <1>1, <1>2, UpTo
<1> QED
  BY <1>1, <1>3 DEF T

RunTurns(start, code, t) ==
  [n \in 0..Len(code) |-> IF n = 0 THEN start ELSE Jit!Processor(t[n - 1], code[n])]

Runs(start, code) == CHOOSE t : t = RunTurns(start, code, t)

LEMMA RunsTurn ==
  ASSUME NEW start, NEW code \in Seq(Machine)
  PROVE  /\ Runs(start, code)[0] = start
         /\ \A n \in 1..Len(code) :
              Runs(start, code)[n] = Jit!Processor(Runs(start, code)[n - 1], code[n])
         /\ Jit!Run(start, code) = Runs(start, code)[Len(code)]
<1> DEFINE m == Len(code)
           Is(t, n) == t[0] = start /\ \A k \in 1..n : t[k] = Jit!Processor(t[k - 1], code[k])
           T == {n \in 0..m : \E t : Is(t, n)}
<1>1. m \in Nat /\ m \in 0..m /\ 0 \in 0..m
  OBVIOUS
<1> HIDE DEF m
<1>2. 0 \in T
  <2>1. Is([k \in 0..0 |-> start], 0)
    OBVIOUS
  <2> QED
    BY <1>1, <2>1
<1>3. ASSUME NEW n \in 1..m, n - 1 \in T PROVE n \in T
  <2>1. PICK t : Is(t, n - 1)
    BY <1>3
  <2> DEFINE u == [k \in 0..n |-> IF k = n THEN Jit!Processor(t[n - 1], code[n]) ELSE t[k]]
  <2>2. /\ n \in 0..m /\ n - 1 \in 0..n /\ 0 \in 0..n /\ 0 # n /\ n \in 0..n /\ n - 1 # n
        /\ \A k \in 1..n : k = n \/ k \in 1..(n - 1)
        /\ \A k \in 1..(n - 1) : k \in 0..n /\ k - 1 \in 0..n /\ k # n /\ k - 1 # n
    BY <1>1
  <2>3. u[0] = start
    BY <2>1, <2>2
  <2>4. ASSUME NEW k \in 1..n PROVE u[k] = Jit!Processor(u[k - 1], code[k])
    BY <2>1, <2>2
  <2> HIDE DEF u
  <2>5. Is(u, n)
    BY <2>3, <2>4
  <2> QED
    BY <2>2, <2>5
<1> HIDE DEF T
<1>4. \A n \in 0..m : n \in T
  <2>1. \A n \in 1..m : n - 1 \in T => n \in T
    BY <1>3
  <2> QED
    BY <1>1, <1>2, <2>1, UpTo
<1>5. PICK t : Is(t, m)
  BY <1>1, <1>4 DEF T
<1> DEFINE u == [k \in 0..m |-> t[k]]
<1>6. u = RunTurns(start, code, u)
  <2>1. \A k \in 0..m : k # 0 => k \in 1..m /\ k - 1 \in 0..m
    BY <1>1
  <2> QED
    BY <1>5, <2>1 DEF RunTurns, m
<1> HIDE DEF u
<1> DEFINE w == Runs(start, code)
<1>7. w = RunTurns(start, code, w)
  BY <1>6 DEF Runs
<1> HIDE DEF w
<1>8. /\ RunTurns(start, code, w)[0] = start
      /\ \A n \in 1..m : RunTurns(start, code, w)[n] = Jit!Processor(w[n - 1], code[n])
  BY <1>1 DEF RunTurns, m
<1>9. w[0] = start /\ \A n \in 1..m : w[n] = Jit!Processor(w[n - 1], code[n])
  BY <1>7, <1>8
<1>10. Jit!Run(start, code) = w[m]
  BY DEF Jit!Run, w, m, Runs, RunTurns
<1> QED
  BY <1>9, <1>10 DEF w, m

\* A processor that has stopped stays as it is.
LEMMA Halted ==
  ASSUME NEW cpu, cpu.end # "no", NEW code PROVE Jit!Processor(cpu, code) = cpu
  BY DEF Jit!Processor

LEMMA RunNothing == ASSUME NEW start PROVE Jit!Run(start, << >>) = start
<1> DEFINE none == << >>
<1>1. none \in Seq(Machine) /\ Len(none) = 0
  OBVIOUS
<1> HIDE DEF none
<1>2. Jit!Run(start, none) = Runs(start, none)[Len(none)] /\ Runs(start, none)[0] = start
  BY <1>1, RunsTurn
<1> QED
  BY <1>1, <1>2 DEF none

LEMMA RunAppend ==
  ASSUME NEW start, NEW code \in Seq(Machine), NEW i \in Machine
  PROVE  Jit!Run(start, Append(code, i)) = Jit!Processor(Jit!Run(start, code), i)
<1> DEFINE longer == Append(code, i)
           n == Len(code)
           t == Runs(start, code)
           u == Runs(start, longer)
<1>1. /\ longer \in Seq(Machine) /\ n \in Nat /\ Len(longer) = n + 1 /\ longer[n + 1] = i
      /\ \A k \in 1..n : longer[k] = code[k]
      /\ n + 1 \in 1..(n + 1) /\ n + 1 - 1 = n /\ \A k \in 1..n : k \in 1..(n + 1)
  OBVIOUS
<1> HIDE DEF longer
<1>2. /\ t[0] = start /\ \A k \in 1..n : t[k] = Jit!Processor(t[k - 1], code[k])
      /\ Jit!Run(start, code) = t[n]
  BY RunsTurn
<1>3. /\ u[0] = start /\ \A k \in 1..(n + 1) : u[k] = Jit!Processor(u[k - 1], longer[k])
      /\ Jit!Run(start, longer) = u[n + 1]
  BY <1>1, RunsTurn
<1> HIDE DEF t, u, n
<1>4. t[n] = u[n]
  <2>1. \A k \in 1..n : t[k - 1] = u[k - 1] => t[k] = u[k]
    BY <1>1, <1>2, <1>3
  <2> QED
    BY <1>1, <1>2, <1>3, <2>1, Agreeing
<1>5. u[n + 1] = Jit!Processor(u[n], i)
  BY <1>1, <1>3
<1> QED
  BY <1>2, <1>3, <1>4, <1>5 DEF longer

LEMMA RunDone ==
  ASSUME NEW start, NEW code \in Seq(Machine), NEW more \in Seq(Machine),
         Jit!Run(start, code).end # "no"
  PROVE  Jit!Run(start, code \o more) = Jit!Run(start, code)
<1> DEFINE all == code \o more
           m == Len(code)
           n == Len(more)
           t == Runs(start, code)
           u == Runs(start, all)
           cpu == Jit!Run(start, code)
<1>1. /\ all \in Seq(Machine) /\ m \in Nat /\ n \in Nat /\ Len(all) = m + n
      /\ \A k \in 1..m : all[k] = code[k] /\ k \in 1..(m + n)
      /\ \A k \in 1..n : m + k \in 1..(m + n) /\ m + k - 1 = m + (k - 1)
      /\ m + 0 = m /\ n \in 0..n /\ 0 \in 0..n /\ \A k \in 1..n : k \in 0..n
  OBVIOUS
<1> HIDE DEF all
<1>2. /\ t[0] = start /\ \A k \in 1..m : t[k] = Jit!Processor(t[k - 1], code[k])
      /\ cpu = t[m]
  BY RunsTurn
<1>3. /\ u[0] = start /\ \A k \in 1..(m + n) : u[k] = Jit!Processor(u[k - 1], all[k])
      /\ Jit!Run(start, all) = u[m + n]
  <2>1. /\ u[0] = start /\ \A k \in 1..Len(all) : u[k] = Jit!Processor(u[k - 1], all[k])
        /\ Jit!Run(start, all) = u[Len(all)]
    <3>1. all \in Seq(Machine)
      BY <1>1
    <3> HIDE DEF m, n
    <3> QED
      BY <3>1, RunsTurn
  <2> QED
    BY <1>1, <2>1
<1> HIDE DEF t, u, n, m, cpu
<1>4. u[m] = cpu
  <2>1. \A k \in 1..m : t[k - 1] = u[k - 1] => t[k] = u[k]
    BY <1>1, <1>2, <1>3
  <2> QED
    BY <1>1, <1>2, <1>3, <2>1, Agreeing
<1> DEFINE T == {k \in 0..n : u[m + k] = cpu}
<1>5. 0 \in T
  BY <1>1, <1>4
<1>6. ASSUME NEW k \in 1..n, k - 1 \in T PROVE k \in T
  <2>1. u[m + k] = Jit!Processor(u[m + (k - 1)], all[m + k]) /\ u[m + (k - 1)] = cpu
    BY <1>1, <1>3, <1>6, SMTT(30)
  <2>2. cpu.end # "no"
    BY DEF cpu
  <2>3. Jit!Processor(cpu, all[m + k]) = cpu
    BY <2>2 DEF Jit!Processor
  <2> QED
    BY <1>1, <2>1, <2>3
<1> HIDE DEF T
<1>7. \A k \in 0..n : k \in T
  <2>1. \A k \in 1..n : k - 1 \in T => k \in T
    BY <1>6
  <2> QED
    BY <1>1, <1>5, <2>1, UpTo
<1>8. u[m + n] = cpu
  BY <1>1, <1>7 DEF T
<1> QED
  BY <1>3, <1>8 DEF all, cpu

-----------------------------------------------------------------------------
(* What is written, one instruction after the other.                       *)

Operations == {"Const", "Add", "Sub", "Mul", "Load", "Store", "Ret", "Call"}

Instruction == [op : Operations, x : Int]

Return == Jit!Instr("ret", "rax")

LEMMA Encoded ==
  ASSUME NEW i \in Instruction, i.op # "Call"
  PROVE  Jit!EmitInstr(i) \in Seq(Machine)
<1>1. /\ i.x \in Int /\ i.x % 256 \in Int
      /\ \/ i.op = "Const" \/ i.op \in {"Add", "Sub", "Mul"} \/ i.op = "Load" \/ i.op = "Store"
         \/ i.op = "Ret"
  BY DEF Instruction, Operations
<1>2. \A op \in {"push8", "mov", "push", "pop", "Add", "Sub", "Mul", "load", "store", "ret"} :
        \A x \in Int \cup {"rax", "rbx"} : Jit!Instr(op, x) \in Machine
  BY DEF Jit!Instr, Machine
<1>3. Jit!PopBoth \in Seq(Machine)
  BY DEF Jit!PopBoth, Jit!Instr, Machine
<1>4. CASE i.op = "Const"
  BY <1>1, <1>2, <1>4 DEF Jit!EmitInstr, Jit!EmitConst
<1>5. CASE i.op \in {"Add", "Sub", "Mul"}
  <2>1. <<Jit!Instr(i.op, "rax"), Jit!Instr("push", "rax")>> \in Seq(Machine)
    BY <1>5 DEF Jit!Instr, Machine
  <2>2. Jit!EmitInstr(i) = Jit!PopBoth \o <<Jit!Instr(i.op, "rax"), Jit!Instr("push", "rax")>>
    BY <1>5 DEF Jit!EmitInstr
  <2> QED
    BY <1>3, <2>1, <2>2
<1>6. CASE i.op = "Load"
  BY <1>2, <1>6 DEF Jit!EmitInstr
<1>7. CASE i.op = "Store"
  <2>1. <<Jit!Instr("store", "rax")>> \in Seq(Machine)
    BY DEF Jit!Instr, Machine
  <2>2. Jit!EmitInstr(i) = Jit!PopBoth \o <<Jit!Instr("store", "rax")>>
    BY <1>7 DEF Jit!EmitInstr
  <2> QED
    BY <1>3, <2>1, <2>2
<1>8. CASE i.op = "Ret"
  BY <1>2, <1>8 DEF Jit!EmitInstr
<1> QED
  BY <1>1, <1>4, <1>5, <1>6, <1>7, <1>8

Then(code, i) == code \o Jit!EmitInstr(i)

BodyTurns(f, t) ==
  [n \in 0..Len(f) |-> IF n = 0 THEN << >> ELSE Then(t[n - 1], f[n])]

Bodies(f) == CHOOSE t : t = BodyTurns(f, t)

Body(f) == Bodies(f)[Len(f)]

LEMMA BodiesTurn ==
  ASSUME NEW f \in Seq(Instruction), Jit!Lowers(f)
  PROVE  /\ Bodies(f) \in [0..Len(f) -> Seq(Machine)] /\ Bodies(f)[0] = << >>
         /\ \A n \in 1..Len(f) : Bodies(f)[n] = Then(Bodies(f)[n - 1], f[n])
         /\ Jit!EmitFunction(f) = Body(f) \o <<Return>>
<1> DEFINE m == Len(f)
           step == [n \in 1..m |-> [code \in Seq(Machine) |-> Then(code, f[n])]]
           t == Bodies(f)
<1>1. /\ m \in Nat /\ 0 \in 0..m /\ \A n \in 1..m : n - 1 \in 0..m /\ n \in 0..m /\ n # 0
      /\ \A n \in 1..m : \A code \in Seq(Machine) : Then(code, f[n]) \in Seq(Machine)
  <2>1. ASSUME NEW n \in 1..m, NEW code \in Seq(Machine) PROVE Then(code, f[n]) \in Seq(Machine)
    <3>1. f[n] \in Instruction /\ f[n].op # "Call"
      BY DEF Jit!Lowers
    <3>2. Jit!EmitInstr(f[n]) \in Seq(Machine)
      BY <3>1, Encoded
    <3> QED
      BY <3>2 DEF Then
  <2> QED
    BY <2>1
<1>2. /\ step \in [1..m -> [Seq(Machine) -> Seq(Machine)]] /\ << >> \in Seq(Machine)
      /\ \A n \in 1..m : \A code \in Seq(Machine) : step[n][code] = Then(code, f[n])
  <2> HIDE DEF m
  <2> QED
    BY <1>1
<1> HIDE DEF step, m
<1>3. PICK g : Stepping(g, Seq(Machine), step, << >>, m)
  BY <1>1, <1>2, Steppings
<1>4. g = BodyTurns(f, g)
  <2>1. /\ g \in [0..m -> Seq(Machine)] /\ g[0] = << >>
        /\ \A n \in 1..m : g[n] = Then(g[n - 1], f[n])
    <3>1. \A n \in 1..m : g[n - 1] \in Seq(Machine)
      BY <1>1, <1>3 DEF Stepping
    <3> QED
      BY <1>1, <1>2, <1>3, <3>1 DEF Stepping
  <2>2. \A n \in 0..m : n = 0 \/ n \in 1..m
    BY <1>1
  <2> QED
    BY <1>1, <2>1, <2>2 DEF BodyTurns, m
<1> HIDE DEF t
<1>5. t = BodyTurns(f, t)
  BY <1>4 DEF Bodies, t
<1>6. /\ BodyTurns(f, t)[0] = << >> /\ DOMAIN BodyTurns(f, t) = 0..m
      /\ \A n \in 1..m : BodyTurns(f, t)[n] = Then(t[n - 1], f[n])
      /\ BodyTurns(f, t) = [n \in 0..m |-> BodyTurns(f, t)[n]]
  BY <1>1 DEF BodyTurns, m
<1>7. /\ t[0] = << >> /\ \A n \in 1..m : t[n] = Then(t[n - 1], f[n])
      /\ t = [n \in 0..m |-> t[n]]
  BY <1>5, <1>6
<1>8. \A n \in 0..m : t[n] \in Seq(Machine)
  <2> DEFINE T == {n \in 0..m : t[n] \in Seq(Machine)}
  <2>1. 0 \in T
    BY <1>1, <1>2, <1>7
  <2>2. ASSUME NEW n \in 1..m, n - 1 \in T PROVE n \in T
    BY <1>1, <1>7, <2>2
  <2> HIDE DEF T
  <2>3. \A n \in 0..m : n \in T
    <3>1. \A n \in 1..m : n - 1 \in T => n \in T
      BY <2>2
    <3> QED
      BY <1>1, <2>1, <3>1, UpTo
  <2> QED
    BY <2>3 DEF T
<1>9. t \in [0..m -> Seq(Machine)]
  BY <1>7, <1>8
<1>10. Jit!EmitFunction(f) = t[m] \o <<Return>>
  BY DEF Jit!EmitFunction, t, m, Bodies, BodyTurns, Return, Then
<1> QED
  BY <1>7, <1>9, <1>10 DEF t, m, Body

LEMMA BodyNothing == Body(<< >>) = << >>
<1>1. << >> \in Seq(Instruction) /\ Len(<< >>) = 0 /\ Jit!Lowers(<< >>)
  BY DEF Jit!Lowers
<1> QED
  BY <1>1, BodiesTurn DEF Body

LEMMA BodyAppend ==
  ASSUME NEW f \in Seq(Instruction), Jit!Lowers(f), NEW i \in Instruction, i.op # "Call"
  PROVE  Body(Append(f, i)) = Body(f) \o Jit!EmitInstr(i)
<1> DEFINE longer == Append(f, i)
           n == Len(f)
           t == Bodies(f)
           u == Bodies(longer)
<1>1. /\ longer \in Seq(Instruction) /\ n \in Nat /\ Len(longer) = n + 1 /\ longer[n + 1] = i
      /\ \A k \in 1..n : longer[k] = f[k]
      /\ n + 1 \in 1..(n + 1) /\ n + 1 - 1 = n /\ \A k \in 1..n : k \in 1..(n + 1)
      /\ \A k \in 1..(n + 1) : k \in 1..n \/ k = n + 1
  OBVIOUS
<1> HIDE DEF longer
<1>2. Jit!Lowers(longer)
  <2>1. \A k \in 1..n : f[k].op # "Call"
    BY DEF Jit!Lowers
  <2>2. DOMAIN longer = 1..(n + 1)
    BY <1>1
  <2> HIDE DEF n
  <2> QED
    BY <1>1, <2>1, <2>2 DEF Jit!Lowers
<1>3. t[0] = << >> /\ \A k \in 1..n : t[k] = Then(t[k - 1], f[k])
  BY BodiesTurn
<1>4. u[0] = << >> /\ \A k \in 1..(n + 1) : u[k] = Then(u[k - 1], longer[k])
  <2>1. u[0] = << >> /\ \A k \in 1..Len(longer) : u[k] = Then(u[k - 1], longer[k])
    BY <1>1, <1>2, BodiesTurn
  <2> QED
    BY <1>1, <2>1
<1> HIDE DEF t, u
<1>5. t[n] = u[n]
  <2> HIDE DEF n
  <2>1. ASSUME NEW k \in 1..n, t[k - 1] = u[k - 1] PROVE t[k] = u[k]
    <3>1. t[k] = Then(t[k - 1], f[k]) /\ u[k] = Then(u[k - 1], longer[k]) /\ longer[k] = f[k]
      BY <1>1, <1>3, <1>4
    <3> QED
      BY <2>1, <3>1
  <2>2. \A k \in 1..n : t[k - 1] = u[k - 1] => t[k] = u[k]
    BY <2>1
  <2>3. n \in Nat /\ t[0] = u[0]
    BY <1>1, <1>3, <1>4
  <2> QED
    BY <2>2, <2>3, Agreeing
<1>6. u[n + 1] = Then(u[n], i)
  <2> HIDE DEF n
  <2> QED
    BY <1>1, <1>4
<1>7. Body(f) = t[n] /\ Body(longer) = u[n + 1]
  BY <1>1 DEF Body, t, u
<1> QED
  BY <1>5, <1>6, <1>7 DEF longer, Then

MeaningTurns(f, t) ==
  [n \in 0..Len(f) |-> IF n = 0 THEN Jit!Start ELSE Jit!Does(t[n - 1], f[n])]

Means(f) == CHOOSE t : t = MeaningTurns(f, t)

LEMMA MeansTurn ==
  ASSUME NEW f \in Seq(Instruction)
  PROVE  /\ Means(f)[0] = Jit!Start
         /\ \A n \in 1..Len(f) :
              Means(f)[n] = Jit!Does(Means(f)[n - 1], f[n])
         /\ Jit!Meaning(f) = Means(f)[Len(f)]
<1> DEFINE m == Len(f)
           Is(t, n) == t[0] = Jit!Start /\ \A k \in 1..n : t[k] = Jit!Does(t[k - 1], f[k])
           T == {n \in 0..m : \E t : Is(t, n)}
<1>1. m \in Nat /\ m \in 0..m /\ 0 \in 0..m
  OBVIOUS
<1> HIDE DEF m
<1>2. 0 \in T
  <2>1. Is([k \in 0..0 |-> Jit!Start], 0)
    OBVIOUS
  <2> QED
    BY <1>1, <2>1
<1>3. ASSUME NEW n \in 1..m, n - 1 \in T PROVE n \in T
  <2>1. PICK t : Is(t, n - 1)
    BY <1>3
  <2> DEFINE u == [k \in 0..n |-> IF k = n THEN Jit!Does(t[n - 1], f[n]) ELSE t[k]]
  <2>2. /\ n \in 0..m /\ n - 1 \in 0..n /\ 0 \in 0..n /\ 0 # n /\ n \in 0..n /\ n - 1 # n
        /\ \A k \in 1..n : k = n \/ k \in 1..(n - 1)
        /\ \A k \in 1..(n - 1) : k \in 0..n /\ k - 1 \in 0..n /\ k # n /\ k - 1 # n
    BY <1>1
  <2>3. u[0] = Jit!Start
    BY <2>1, <2>2
  <2>4. ASSUME NEW k \in 1..n PROVE u[k] = Jit!Does(u[k - 1], f[k])
    BY <2>1, <2>2
  <2> HIDE DEF u
  <2>5. Is(u, n)
    BY <2>3, <2>4
  <2> QED
    BY <2>2, <2>5
<1> HIDE DEF T
<1>4. \A n \in 0..m : n \in T
  <2>1. \A n \in 1..m : n - 1 \in T => n \in T
    BY <1>3
  <2> QED
    BY <1>1, <1>2, <2>1, UpTo
<1>5. PICK t : Is(t, m)
  BY <1>1, <1>4 DEF T
<1> DEFINE u == [k \in 0..m |-> t[k]]
<1>6. u = MeaningTurns(f, u)
  <2>1. \A k \in 0..m : k # 0 => k \in 1..m /\ k - 1 \in 0..m
    BY <1>1
  <2> QED
    BY <1>5, <2>1 DEF MeaningTurns, m
<1> HIDE DEF u
<1> DEFINE w == Means(f)
<1>7. w = MeaningTurns(f, w)
  BY <1>6 DEF Means
<1> HIDE DEF w
<1>8. /\ MeaningTurns(f, w)[0] = Jit!Start
      /\ \A n \in 1..m : MeaningTurns(f, w)[n] = Jit!Does(w[n - 1], f[n])
  BY <1>1 DEF MeaningTurns, m
<1>9. w[0] = Jit!Start /\ \A n \in 1..m : w[n] = Jit!Does(w[n - 1], f[n])
  BY <1>7, <1>8
<1>10. Jit!Meaning(f) = w[m]
  BY DEF Jit!Meaning, w, m, Means, MeaningTurns
<1> QED
  BY <1>9, <1>10 DEF w, m

LEMMA MeaningNothing == Jit!Meaning(<< >>) = Jit!Start
<1>1. << >> \in Seq(Instruction) /\ Len(<< >>) = 0
  OBVIOUS
<1> QED
  BY <1>1, MeansTurn

LEMMA MeaningAppend ==
  ASSUME NEW f \in Seq(Instruction), NEW i \in Instruction
  PROVE  Jit!Meaning(Append(f, i)) = Jit!Does(Jit!Meaning(f), i)
<1> DEFINE longer == Append(f, i)
           n == Len(f)
           t == Means(f)
           u == Means(longer)
<1>1. /\ longer \in Seq(Instruction) /\ n \in Nat /\ Len(longer) = n + 1 /\ longer[n + 1] = i
      /\ \A k \in 1..n : longer[k] = f[k]
      /\ n + 1 \in 1..(n + 1) /\ n + 1 - 1 = n /\ \A k \in 1..n : k \in 1..(n + 1)
  OBVIOUS
<1> HIDE DEF longer
<1>2. /\ t[0] = Jit!Start /\ \A k \in 1..n : t[k] = Jit!Does(t[k - 1], f[k])
      /\ Jit!Meaning(f) = t[n]
  BY MeansTurn
<1>3. /\ u[0] = Jit!Start /\ \A k \in 1..(n + 1) : u[k] = Jit!Does(u[k - 1], longer[k])
      /\ Jit!Meaning(longer) = u[n + 1]
  BY <1>1, MeansTurn
<1> HIDE DEF t, u, n
<1>4. t[n] = u[n]
  <2>1. \A k \in 1..n : t[k - 1] = u[k - 1] => t[k] = u[k]
    BY <1>1, <1>2, <1>3
  <2> QED
    BY <1>1, <1>2, <1>3, <2>1, Agreeing
<1>5. u[n + 1] = Jit!Does(u[n], i)
  BY <1>1, <1>3
<1> QED
  BY <1>2, <1>3, <1>4, <1>5 DEF longer

DepthTurns(f, t) ==
  [n \in 0..Len(f) |-> IF n = 0 THEN 0 ELSE t[n - 1] + Jit!Leaves(f[n].op)]

Depths(f) == CHOOSE t : t = DepthTurns(f, t)

LEMMA DepthsTurn ==
  ASSUME NEW f \in Seq(Instruction)
  PROVE  /\ Depths(f)[0] = 0 /\ Jit!StackDepth(f) = Depths(f)[Len(f)]
         /\ \A n \in 1..Len(f) : Depths(f)[n] = Depths(f)[n - 1] + Jit!Leaves(f[n].op)
<1> DEFINE m == Len(f)
           step == [n \in 1..m |-> [d \in Int |-> d + Jit!Leaves(f[n].op)]]
           t == Depths(f)
<1>1. /\ m \in Nat /\ 0 \in 0..m /\ \A n \in 1..m : n - 1 \in 0..m /\ n \in 0..m /\ n # 0
      /\ \A op : Jit!Leaves(op) \in Int
  BY DEF Jit!Leaves
<1>2. /\ step \in [1..m -> [Int -> Int]]
      /\ \A n \in 1..m : \A d \in Int : step[n][d] = d + Jit!Leaves(f[n].op)
  BY <1>1
<1> HIDE DEF step, m
<1>3. PICK g : Stepping(g, Int, step, 0, m)
  <2>1. 0 \in Int
    OBVIOUS
  <2> QED
    BY <1>1, <1>2, <2>1, Steppings, Zenon
<1>4. g = DepthTurns(f, g)
  <2>1. /\ g \in [0..m -> Int] /\ g[0] = 0
        /\ \A n \in 1..m : g[n] = g[n - 1] + Jit!Leaves(f[n].op)
    <3>1. \A n \in 1..m : g[n - 1] \in Int
      BY <1>1, <1>3 DEF Stepping
    <3> QED
      BY <1>1, <1>2, <1>3, <3>1 DEF Stepping
  <2>2. \A n \in 0..m : n = 0 \/ n \in 1..m
    BY <1>1
  <2> QED
    BY <1>1, <2>1, <2>2 DEF DepthTurns, m
<1> HIDE DEF t
<1>5. t = DepthTurns(f, t)
  BY <1>4 DEF Depths, t
<1>6. /\ DepthTurns(f, t)[0] = 0
      /\ \A n \in 1..m : DepthTurns(f, t)[n] = t[n - 1] + Jit!Leaves(f[n].op)
  BY <1>1 DEF DepthTurns, m
<1>7. t[0] = 0 /\ \A n \in 1..m : t[n] = t[n - 1] + Jit!Leaves(f[n].op)
  BY <1>5, <1>6
<1>8. Jit!StackDepth(f) = t[m]
  BY DEF Jit!StackDepth, t, m, Depths, DepthTurns
<1> QED
  BY <1>7, <1>8 DEF t, m

LEMMA DepthNothing == Jit!StackDepth(<< >>) = 0
<1>1. << >> \in Seq(Instruction) /\ Len(<< >>) = 0
  OBVIOUS
<1> QED
  BY <1>1, DepthsTurn

LEMMA DepthAppend ==
  ASSUME NEW f \in Seq(Instruction), NEW i \in Instruction
  PROVE  Jit!StackDepth(Append(f, i)) = Jit!StackDepth(f) + Jit!Leaves(i.op)
<1> DEFINE longer == Append(f, i)
           n == Len(f)
           t == Depths(f)
           u == Depths(longer)
<1>1. /\ longer \in Seq(Instruction) /\ n \in Nat /\ Len(longer) = n + 1 /\ longer[n + 1] = i
      /\ \A k \in 1..n : longer[k] = f[k]
      /\ n + 1 \in 1..(n + 1) /\ n + 1 - 1 = n /\ \A k \in 1..n : k \in 1..(n + 1)
  OBVIOUS
<1> HIDE DEF longer
<1>2. /\ t[0] = 0 /\ \A k \in 1..n : t[k] = t[k - 1] + Jit!Leaves(f[k].op)
      /\ Jit!StackDepth(f) = t[n]
  BY DepthsTurn
<1>3. /\ u[0] = 0 /\ \A k \in 1..(n + 1) : u[k] = u[k - 1] + Jit!Leaves(longer[k].op)
      /\ Jit!StackDepth(longer) = u[n + 1]
  BY <1>1, DepthsTurn
<1> HIDE DEF t, u, n
<1>4. t[n] = u[n]
  <2>1. ASSUME NEW k \in 1..n, t[k - 1] = u[k - 1] PROVE t[k] = u[k]
    <3>1. /\ t[k] = t[k - 1] + Jit!Leaves(f[k].op) /\ longer[k] = f[k]
          /\ u[k] = u[k - 1] + Jit!Leaves(longer[k].op)
      BY <1>1, <1>2, <1>3
    <3> QED
      BY <2>1, <3>1
  <2>2. \A k \in 1..n : t[k - 1] = u[k - 1] => t[k] = u[k]
    BY <2>1
  <2>3. n \in Nat /\ t[0] = u[0]
    BY <1>1, <1>2, <1>3
  <2> QED
    BY <2>2, <2>3, Agreeing
<1>5. u[n + 1] = u[n] + Jit!Leaves(i.op)
  BY <1>1, <1>3
<1> QED
  BY <1>2, <1>3, <1>4, <1>5 DEF longer

-----------------------------------------------------------------------------
(* The module: its first function comes first, or there is no code at all. *)

AfterFunction(code, m, n) ==
  IF \A k \in 1..n : Jit!Lowers(m[k]) THEN code \o Jit!EmitFunction(m[n]) ELSE code

ModuleTurns(m, t) ==
  [n \in 0..Len(m) |-> IF n = 0 THEN << >> ELSE AfterFunction(t[n - 1], m, n)]

Modules(m) == CHOOSE t : t = ModuleTurns(m, t)

LEMMA FunctionEncoded ==
  ASSUME NEW f \in Seq(Instruction), Jit!Lowers(f)
  PROVE  /\ Jit!EmitFunction(f) = Body(f) \o <<Return>> /\ Body(f) \in Seq(Machine)
         /\ Return \in Machine /\ Jit!EmitFunction(f) \in Seq(Machine)
<1>1. Body(f) \in Seq(Machine) /\ Jit!EmitFunction(f) = Body(f) \o <<Return>>
  BY BodiesTurn DEF Body
<1>2. Return \in Machine
  BY DEF Return, Jit!Instr, Machine
<1>3. Body(f) \o <<Return>> \in Seq(Machine)
  BY <1>1, <1>2
<1> QED
  BY <1>1, <1>2, <1>3

LEMMA ModulesTurn ==
  ASSUME NEW m \in Seq(Seq(Instruction))
  PROVE  /\ Modules(m)[0] = << >> /\ Jit!EmitModule(m) = Modules(m)[Len(m)]
         /\ \A n \in 1..Len(m) : Modules(m)[n] = AfterFunction(Modules(m)[n - 1], m, n)
<1> DEFINE l == Len(m)
           step == [n \in 1..l |-> [code \in Seq(Machine) |-> AfterFunction(code, m, n)]]
           t == Modules(m)
<1>1. l \in Nat /\ 0 \in 0..l /\ \A n \in 1..l : n - 1 \in 0..l /\ n \in 0..l /\ n # 0
  OBVIOUS
<1>2. /\ step \in [1..l -> [Seq(Machine) -> Seq(Machine)]] /\ << >> \in Seq(Machine)
      /\ \A n \in 1..l : \A code \in Seq(Machine) : step[n][code] = AfterFunction(code, m, n)
  <2>1. ASSUME NEW n \in 1..l, NEW code \in Seq(Machine)
        PROVE  AfterFunction(code, m, n) \in Seq(Machine)
    <3>1. m[n] \in Seq(Instruction) /\ n \in 1..n
      BY <1>1
    <3>2. CASE \A k \in 1..n : Jit!Lowers(m[k])
      <4>1. Jit!EmitFunction(m[n]) \in Seq(Machine)
        BY <3>1, <3>2, FunctionEncoded
      <4>2. code \o Jit!EmitFunction(m[n]) \in Seq(Machine)
        BY <4>1
      <4> QED
        BY <3>2, <4>2 DEF AfterFunction
    <3> QED
      BY <3>2 DEF AfterFunction
  <2> HIDE DEF l
  <2> QED
    BY <2>1
<1> HIDE DEF step, l
<1>3. PICK g : Stepping(g, Seq(Machine), step, << >>, l)
  BY <1>1, <1>2, Steppings
<1>4. g = ModuleTurns(m, g)
  <2>1. /\ g \in [0..l -> Seq(Machine)] /\ g[0] = << >>
        /\ \A n \in 1..l : g[n] = AfterFunction(g[n - 1], m, n)
    <3>1. \A n \in 1..l : g[n - 1] \in Seq(Machine)
      BY <1>1, <1>3 DEF Stepping
    <3> QED
      BY <1>1, <1>2, <1>3, <3>1 DEF Stepping
  <2>2. \A n \in 0..l : n = 0 \/ n \in 1..l
    BY <1>1
  <2> QED
    BY <1>1, <2>1, <2>2 DEF ModuleTurns, l
<1> HIDE DEF t
<1>5. t = ModuleTurns(m, t)
  BY <1>4 DEF Modules, t
<1>6. /\ ModuleTurns(m, t)[0] = << >>
      /\ \A n \in 1..l : ModuleTurns(m, t)[n] = AfterFunction(t[n - 1], m, n)
  BY <1>1 DEF ModuleTurns, l
<1>7. t[0] = << >> /\ \A n \in 1..l : t[n] = AfterFunction(t[n - 1], m, n)
  BY <1>5, <1>6
<1>8. Jit!EmitModule(m) = t[l]
  BY DEF Jit!EmitModule, t, l, Modules, ModuleTurns, AfterFunction
<1> QED
  BY <1>7, <1>8 DEF t, l

LEMMA FirstComesFirst ==
  ASSUME NEW m \in Seq(Seq(Instruction)), m # << >>
  PROVE  /\ Jit!Lowers(m[1]) =>
              \E rest \in Seq(Machine) : Jit!EmitModule(m) = Jit!EmitFunction(m[1]) \o rest
         /\ ~Jit!Lowers(m[1]) => Jit!EmitModule(m) = << >>
<1> DEFINE l == Len(m)
           t == Modules(m)
           first == Jit!EmitFunction(m[1])
           Starts(code) == \E rest \in Seq(Machine) : code = first \o rest
<1>1. /\ l \in Nat /\ l # 0 /\ l \in 0..l /\ 0 \in 0..l /\ l \in 1..l /\ 1 \in 1..l /\ 1 - 1 = 0
      /\ \A n \in 1..l : 1 \in 1..n /\ n \in 1..n /\ n \in 0..l /\ m[n] \in Seq(Instruction)
      /\ m[1] \in Seq(Instruction)
  OBVIOUS
<1>2. /\ t[0] = << >> /\ Jit!EmitModule(m) = t[l]
      /\ \A n \in 1..l : t[n] = AfterFunction(t[n - 1], m, n)
  BY ModulesTurn
<1> HIDE DEF l, t, first
<1>3. CASE ~Jit!Lowers(m[1])
  <2> DEFINE T == {n \in 0..l : t[n] = << >>}
  <2>1. 0 \in T
    BY <1>1, <1>2
  <2>2. \A n \in 1..l : n - 1 \in T => n \in T
    BY <1>1, <1>2, <1>3 DEF AfterFunction
  <2> HIDE DEF T
  <2>3. \A n \in 0..l : n \in T
    BY <1>1, <2>1, <2>2, UpTo
  <2>4. t[l] = << >>
    BY <1>1, <2>3 DEF T
  <2> QED
    BY <1>2, <1>3, <2>4
<1>4. CASE Jit!Lowers(m[1])
  <2>1. first \in Seq(Machine)
    BY <1>1, <1>4, FunctionEncoded DEF first
  <2> DEFINE T == {n \in 0..l : n = 0 \/ Starts(t[n])}
  <2>2. 0 \in T
    BY <1>1
  <2>3. ASSUME NEW n \in 1..l, n - 1 \in T PROVE n \in T
    <3>1. t[n] = AfterFunction(t[n - 1], m, n)
      BY <1>2
    <3>2. CASE n = 1
      <4>1. \A k \in 1..n : Jit!Lowers(m[k])
        BY <1>4, <3>2
      <4>2. t[n] = << >> \o first
        BY <1>1, <1>2, <3>1, <3>2, <4>1 DEF AfterFunction, first
      <4>3. << >> \o first = first \o << >> /\ << >> \in Seq(Machine)
        BY <2>1
      <4> QED
        BY <1>1, <4>2, <4>3
    <3>3. CASE n # 1
      <4>1. PICK rest \in Seq(Machine) : t[n - 1] = first \o rest
        <5>1. n - 1 # 0
          BY <1>1, <3>3
        <5> QED
          BY <2>3, <5>1
      <4>2. CASE \A k \in 1..n : Jit!Lowers(m[k])
        <5> DEFINE more == Jit!EmitFunction(m[n])
        <5>1. more \in Seq(Machine)
          BY <1>1, <4>2, FunctionEncoded
        <5>2. t[n] = (first \o rest) \o more
          BY <3>1, <4>1, <4>2 DEF AfterFunction
        <5> HIDE DEF more
        <5>3. (first \o rest) \o more = first \o (rest \o more) /\ rest \o more \in Seq(Machine)
          BY <2>1, <5>1
        <5> QED
          BY <1>1, <5>2, <5>3
      <4>3. CASE ~ \A k \in 1..n : Jit!Lowers(m[k])
        BY <1>1, <3>1, <4>1, <4>3 DEF AfterFunction
      <4> QED
        BY <4>2, <4>3
    <3> QED
      BY <3>2, <3>3
  <2> HIDE DEF T
  <2>4. \A n \in 0..l : n \in T
    <3>1. \A n \in 1..l : n - 1 \in T => n \in T
      BY <2>3
    <3> QED
      BY <1>1, <2>2, <3>1, UpTo
  <2>5. Starts(t[l])
    BY <1>1, <2>4 DEF T
  <2> QED
    BY <1>2, <1>4, <2>5 DEF first
<1> QED
  BY <1>3, <1>4

-----------------------------------------------------------------------------
(* The processor does what the operation means.                            *)

Ends == {"no", "returned", "wrong"}

Cpu == [rax : Int, rbx : Int, stack : Seq(Int), mem : [Cells -> Int], end : Ends]

Stack == [stack : Seq(Int), mem : [Cells -> Int], end : Ends]

\* Except that the code goes wrong where the meaning returns with values left.
Alike(cpu, s) ==
  /\ cpu.end = IF s.end = "returned" /\ Len(s.stack) # 1 THEN "wrong" ELSE s.end
  /\ s.end = "no" => cpu.stack = s.stack /\ cpu.mem = s.mem
  /\ cpu.end = "returned" => cpu.rax = Head(s.stack)

LEMMA PoppedFirst ==
  ASSUME NEW c \in Cpu, c.end = "no", c.stack # << >>
  PROVE  LET d == Jit!Processor(c, Jit!Instr("pop", "rax"))
         IN  /\ d \in Cpu /\ d.end = "no" /\ d.mem = c.mem /\ d.stack = Tail(c.stack)
             /\ d.rax = Head(c.stack) /\ d.rbx = c.rbx
<1>1. Head(c.stack) \in Int /\ Tail(c.stack) \in Seq(Int)
  BY DEF Cpu
<1>2. Jit!Processor(c, Jit!Instr("pop", "rax"))
        = [c EXCEPT !.rax = Head(c.stack), !.stack = Tail(c.stack)]
  BY DEF Jit!Processor, Jit!Instr, Cpu
<1> QED
  BY <1>1, <1>2 DEF Cpu

LEMMA PoppedSecond ==
  ASSUME NEW c \in Cpu, c.end = "no", c.stack # << >>
  PROVE  LET d == Jit!Processor(c, Jit!Instr("pop", "rbx"))
         IN  /\ d \in Cpu /\ d.end = "no" /\ d.mem = c.mem /\ d.stack = Tail(c.stack)
             /\ d.rbx = Head(c.stack) /\ d.rax = c.rax
<1>1. Head(c.stack) \in Int /\ Tail(c.stack) \in Seq(Int)
  BY DEF Cpu
<1>2. Jit!Processor(c, Jit!Instr("pop", "rbx"))
        = [c EXCEPT !.rbx = Head(c.stack), !.stack = Tail(c.stack)]
  BY DEF Jit!Processor, Jit!Instr, Cpu
<1> QED
  BY <1>1, <1>2 DEF Cpu

LEMMA Pushed ==
  ASSUME NEW c \in Cpu, c.end = "no"
  PROVE  LET d == Jit!Processor(c, Jit!Instr("push", "rax"))
         IN  /\ d \in Cpu /\ d.end = "no" /\ d.mem = c.mem /\ d.stack = <<c.rax>> \o c.stack
<1>1. <<c.rax>> \o c.stack \in Seq(Int)
  BY DEF Cpu
<1>2. Jit!Processor(c, Jit!Instr("push", "rax")) = [c EXCEPT !.stack = <<c.rax>> \o c.stack]
  BY DEF Jit!Processor, Jit!Instr
<1> QED
  BY <1>1, <1>2 DEF Cpu

LEMMA ShortPushed ==
  ASSUME NEW c \in Cpu, c.end = "no", NEW v \in -128..127
  PROVE  LET d == Jit!Processor(c, Jit!Instr("push8", v % 256))
         IN  d \in Cpu /\ d.end = "no" /\ d.mem = c.mem /\ d.stack = <<v>> \o c.stack
<1> DEFINE longer == <<v>> \o c.stack
<1>1. longer \in Seq(Int) /\ Jit!Signed(v % 256) = v
  BY DEF Cpu, Jit!Signed
<1>2. Jit!Processor(c, Jit!Instr("push8", v % 256)) = [c EXCEPT !.stack = longer]
  BY <1>1 DEF Jit!Processor, Jit!Instr
<1> HIDE DEF longer
<1>3. /\ [c EXCEPT !.stack = longer] \in Cpu /\ [c EXCEPT !.stack = longer].end = "no"
      /\ [c EXCEPT !.stack = longer].mem = c.mem /\ [c EXCEPT !.stack = longer].stack = longer
  BY <1>1 DEF Cpu
<1> QED
  BY <1>2, <1>3 DEF longer

LEMMA Moved ==
  ASSUME NEW c \in Cpu, c.end = "no", NEW v \in Int
  PROVE  LET d == Jit!Processor(c, Jit!Instr("mov", v))
         IN  d \in Cpu /\ d.end = "no" /\ d.mem = c.mem /\ d.stack = c.stack /\ d.rax = v
<1>1. Jit!Processor(c, Jit!Instr("mov", v)) = [c EXCEPT !.rax = v]
  BY DEF Jit!Processor, Jit!Instr
<1> QED
  BY <1>1 DEF Cpu

Combined(op, x, y) == IF op = "Add" THEN x + y ELSE IF op = "Sub" THEN x - y ELSE x * y

LEMMA Computed ==
  ASSUME NEW c \in Cpu, c.end = "no", NEW op \in {"Add", "Sub", "Mul"}
  PROVE  LET d == Jit!Processor(c, Jit!Instr(op, "rax"))
         IN  /\ d \in Cpu /\ d.end = "no" /\ d.mem = c.mem /\ d.stack = c.stack
             /\ d.rax = Combined(op, c.rax, c.rbx)
<1> DEFINE v == Combined(op, c.rax, c.rbx)
<1>1. v \in Int
  BY DEF Cpu, Combined
<1>2. Jit!Processor(c, Jit!Instr(op, "rax")) = [c EXCEPT !.rax = v]
  BY DEF Jit!Processor, Jit!Instr, Combined
<1> HIDE DEF v
<1>3. /\ [c EXCEPT !.rax = v] \in Cpu /\ [c EXCEPT !.rax = v].end = "no"
      /\ [c EXCEPT !.rax = v].mem = c.mem /\ [c EXCEPT !.rax = v].stack = c.stack
      /\ [c EXCEPT !.rax = v].rax = v
  BY <1>1 DEF Cpu
<1> QED
  BY <1>2, <1>3 DEF v

LEMMA Addressed ==
  ASSUME NEW c \in Cpu, c.end = "no"
  PROVE  /\ LET d == Jit!Processor(c, Jit!Instr("load", "rax"))
            IN  /\ d \in Cpu
                /\ c.rax \notin Cells => d.end = "wrong"
                /\ c.rax \in Cells =>
                     d.end = "no" /\ d.mem = c.mem /\ d.stack = c.stack /\ d.rax = c.mem[c.rax]
         /\ LET d == Jit!Processor(c, Jit!Instr("store", "rax"))
            IN  /\ d \in Cpu
                /\ c.rax \notin Cells => d.end = "wrong"
                /\ c.rax \in Cells =>
                     /\ d.end = "no" /\ d.stack = c.stack
                     /\ d.mem = [c.mem EXCEPT ![c.rax] = c.rbx]
<1>1. /\ c.rax \in Cells => c.mem[c.rax] \in Int
      /\ [c.mem EXCEPT ![c.rax] = c.rbx] \in [Cells -> Int]
  BY DEF Cpu
<1>2. CASE c.rax \in Cells
  <2>1. /\ Jit!Processor(c, Jit!Instr("load", "rax")) = [c EXCEPT !.rax = c.mem[c.rax]]
        /\ Jit!Processor(c, Jit!Instr("store", "rax"))
             = [c EXCEPT !.mem = [c.mem EXCEPT ![c.rax] = c.rbx]]
    BY <1>2 DEF Jit!Processor, Jit!Instr
  <2> QED
    BY <1>1, <1>2, <2>1 DEF Cpu
<1>3. CASE c.rax \notin Cells
  <2>1. /\ Jit!Processor(c, Jit!Instr("load", "rax")) = [c EXCEPT !.end = "wrong"]
        /\ Jit!Processor(c, Jit!Instr("store", "rax")) = [c EXCEPT !.end = "wrong"]
    BY <1>3 DEF Jit!Processor, Jit!Instr, Jit!Wrong
  <2> QED
    BY <1>3, <2>1 DEF Cpu, Ends
<1> QED
  BY <1>2, <1>3

LEMMA Returned ==
  ASSUME NEW c \in Cpu, c.end = "no"
  PROVE  LET d == Jit!Processor(c, Return)
         IN  /\ d \in Cpu /\ d.rax = c.rax
             /\ d.end = IF c.stack = << >> THEN "returned" ELSE "wrong"
<1>1. Jit!Processor(c, Return)
        = [c EXCEPT !.end = IF c.stack = << >> THEN "returned" ELSE "wrong"]
  BY DEF Jit!Processor, Jit!Instr, Return
<1> QED
  BY <1>1 DEF Cpu, Ends

\* Instructions one after the other.
LEMMA RunOne ==
  ASSUME NEW start, NEW code \in Seq(Machine), NEW a \in Machine
  PROVE  Jit!Run(start, code \o <<a>>) = Jit!Processor(Jit!Run(start, code), a)
<1>1. code \o <<a>> = Append(code, a)
  OBVIOUS
<1> QED
  BY <1>1, RunAppend

LEMMA Appended ==
  ASSUME NEW S, NEW seq \in Seq(S), NEW a \in S, NEW b \in S
  PROVE  seq \o <<a, b>> = Append(Append(seq, a), b)
OBVIOUS

LEMMA RunTwo ==
  ASSUME NEW start, NEW code \in Seq(Machine), NEW a \in Machine, NEW b \in Machine
  PROVE  Jit!Run(start, code \o <<a, b>>)
           = Jit!Processor(Jit!Processor(Jit!Run(start, code), a), b)
<1> DEFINE c1 == Append(code, a)
<1>1. c1 \in Seq(Machine) /\ code \o <<a, b>> = Append(c1, b)
  BY Appended
<1>2. Jit!Run(start, c1) = Jit!Processor(Jit!Run(start, code), a)
  BY RunAppend
<1> HIDE DEF c1
<1>3. Jit!Run(start, Append(c1, b)) = Jit!Processor(Jit!Run(start, c1), b)
  BY <1>1, RunAppend
<1> QED
  BY <1>1, <1>2, <1>3

LEMMA AppendedToTwo ==
  ASSUME NEW S, NEW seq \in Seq(S), NEW a \in S, NEW b \in S, NEW x \in S
  PROVE  seq \o <<a, b, x>> = Append(seq \o <<a, b>>, x)
OBVIOUS

LEMMA RunThree ==
  ASSUME NEW start, NEW code \in Seq(Machine),
         NEW a \in Machine, NEW b \in Machine, NEW x \in Machine
  PROVE  Jit!Run(start, code \o <<a, b, x>>)
           = Jit!Processor(Jit!Processor(Jit!Processor(Jit!Run(start, code), a), b), x)
<1> DEFINE c2 == code \o <<a, b>>
<1>1. c2 \in Seq(Machine)
  OBVIOUS
<1>2. code \o <<a, b, x>> = Append(c2, x)
  BY AppendedToTwo
<1>3. Jit!Run(start, c2) = Jit!Processor(Jit!Processor(Jit!Run(start, code), a), b)
  BY RunTwo
<1> HIDE DEF c2
<1>4. Jit!Run(start, Append(c2, x)) = Jit!Processor(Jit!Run(start, c2), x)
  BY <1>1, RunAppend
<1> QED
  BY <1>2, <1>3, <1>4

LEMMA OneDown ==
  ASSUME NEW s \in Seq(Int), Len(s) >= 1
  PROVE  /\ s # << >> /\ Head(s) \in Int /\ Tail(s) \in Seq(Int) /\ Len(Tail(s)) = Len(s) - 1
         /\ SubSeq(s, 1 + 1, Len(s)) = Tail(s) /\ (Tail(s) = << >> <=> Len(s) = 1)
<1>1. s # << >>
  OBVIOUS
<1>2. /\ Head(s) \in Int /\ Tail(s) \in Seq(Int) /\ Len(Tail(s)) = Len(s) - 1
      /\ \A i \in 1..Len(Tail(s)) : Tail(s)[i] = s[i + 1]
  BY <1>1, HeadTailProperties
<1>3. SubSeq(s, 1 + 1, Len(s)) = Tail(s)
  <2>1. 1 + 1 = 2
    OBVIOUS
  <2> QED
    BY <1>1, <2>1, TailIsSubSeq
<1> DEFINE t == Tail(s)
<1>4. t \in Seq(Int) /\ Len(t) = Len(s) - 1 /\ Len(s) \in Nat
  BY <1>2
<1> HIDE DEF t
<1>5. t = << >> <=> Len(t) = 0
  BY <1>4
<1>6. t = << >> <=> Len(s) = 1
  BY <1>4, <1>5
<1> QED
  BY <1>1, <1>2, <1>3, <1>6 DEF t

LEMMA TwoDown ==
  ASSUME NEW s \in Seq(Int), Len(s) >= 2
  PROVE  /\ s # << >> /\ Tail(s) # << >> /\ s[2] \in Int /\ Head(Tail(s)) = s[2]
         /\ Tail(Tail(s)) \in Seq(Int) /\ Len(Tail(Tail(s))) = Len(s) - 2
         /\ SubSeq(s, 2 + 1, Len(s)) = Tail(Tail(s))
<1> DEFINE t == Tail(s)
           w == SubSeq(s, 2 + 1, Len(s))
<1>1. s # << >> /\ t \in Seq(Int) /\ Len(t) = Len(s) - 1 /\ \A i \in 1..Len(t) : t[i] = s[i + 1]
  BY HeadTailProperties
<1>2. w \in Seq(Int) /\ Len(w) = Len(s) - 2 /\ \A i \in 1..(Len(s) - 2) : w[i] = s[2 + i]
  <2> DEFINE l == Len(s)
  <2>1. l \in Int /\ l >= 2 /\ 2 + 1 \in Int /\ \A i \in (2 + 1)..l : s[i] \in Int
    OBVIOUS
  <2>2. /\ l - (2 + 1) + 1 = l - 2 /\ (IF 2 + 1 <= l THEN l - (2 + 1) + 1 ELSE 0) = l - 2
        /\ \A i \in 1..(l - 2) : 2 + 1 + i - 1 = 2 + i
    <3> HIDE DEF l
    <3>1. l - (2 + 1) + 1 = l - 2 /\ (2 + 1 <= l \/ l = 2)
      BY <2>1
    <3>2. (IF 2 + 1 <= l THEN l - (2 + 1) + 1 ELSE 0) = l - 2
      BY <3>1
    <3>3. \A i \in 1..(l - 2) : 2 + 1 + i - 1 = 2 + i
      OBVIOUS
    <3> QED
      BY <3>1, <3>2, <3>3
  <2>3. /\ w \in Seq(Int) /\ Len(w) = IF 2 + 1 <= l THEN l - (2 + 1) + 1 ELSE 0
        /\ \A i \in 1..(l - (2 + 1) + 1) : w[i] = s[2 + 1 + i - 1]
    BY <2>1, SubSeqProperties
  <2> HIDE DEF w, l
  <2>4. \A i \in 1..(l - 2) : w[i] = s[2 + i]
    BY <2>2, <2>3
  <2> QED
    BY <2>2, <2>3, <2>4 DEF l
<1> HIDE DEF t, w
<1>3. t # << >> /\ Len(t) >= 1 /\ 1 \in 1..Len(t) /\ s[2] \in Int
  BY <1>1
<1>4. /\ Head(t) = s[2] /\ Tail(t) \in Seq(Int) /\ Len(Tail(t)) = Len(t) - 1
      /\ \A i \in 1..Len(Tail(t)) : Tail(t)[i] = t[i + 1]
  BY <1>1, <1>3, HeadTailProperties
<1>5. Len(Tail(t)) = Len(w) /\ \A i \in 1..Len(w) : Tail(t)[i] = w[i]
  <2>1. Len(Tail(t)) = Len(s) - 2 /\ Len(s) \in Nat
    BY <1>1, <1>4
  <2>2. ASSUME NEW i \in 1..(Len(s) - 2) PROVE Tail(t)[i] = w[i]
    <3>1. i \in 1..Len(Tail(t)) /\ i + 1 \in 1..Len(t) /\ i + 1 + 1 = 2 + i
      BY <1>1, <2>1
    <3> QED
      BY <1>1, <1>2, <1>4, <3>1
  <2> QED
    BY <1>2, <2>1, <2>2
<1>6. Tail(t) = w
  BY <1>2, <1>4, <1>5, SeqEqual
<1> QED
  BY <1>1, <1>2, <1>3, <1>4, <1>6 DEF t, w

LEMMA InstructionDoes ==
  ASSUME NEW code \in Seq(Machine), NEW i \in Instruction, i.op # "Call", NEW s \in Stack,
         Jit!Run(Jit!Boot, code) \in Cpu, Alike(Jit!Run(Jit!Boot, code), s),
         i.op # "Const" /\ s.end = "no" => Len(s.stack) >= Jit!Pops[i.op]
  PROVE  LET c == Jit!Run(Jit!Boot, code \o Jit!EmitInstr(i))
             d == Jit!Does(s, i)
         IN  /\ c \in Cpu /\ d \in Stack /\ Alike(c, d)
             /\ d.end = "no" => s.end = "no" /\ Len(d.stack) = Len(s.stack) + Jit!Leaves(i.op)
<1> DEFINE c0 == Jit!Run(Jit!Boot, code)
           c == Jit!Run(Jit!Boot, code \o Jit!EmitInstr(i))
           d == Jit!Does(s, i)
           st == s.stack
           a == Head(st)
           b == st[2]
<1>0. /\ c0 \in Cpu /\ s.end \in Ends /\ st \in Seq(Int)
      /\ s.mem \in [Cells -> Int] /\ i.x \in Int
      /\ s.end = "no" => c0.end = "no" /\ c0.stack = st /\ c0.mem = s.mem
      /\ s.end # "no" => c0.end # "no"
  BY DEF Alike, Stack, Instruction
<1>1. CASE s.end # "no"
  <2>1. Jit!EmitInstr(i) \in Seq(Machine)
    BY Encoded
  <2>2. c = c0
    BY <1>0, <1>1, <2>1, RunDone
  <2>3. d = s
    BY <1>1 DEF Jit!Does
  <2> QED
    BY <1>0, <1>1, <2>2, <2>3 DEF Alike
<1> SUFFICES ASSUME s.end = "no"
             PROVE  /\ c \in Cpu /\ d \in Stack /\ Alike(c, d)
                    /\ d.end = "no" => Len(d.stack) = Len(st) + Jit!Leaves(i.op)
  BY <1>1
<1>2. c0.end = "no" /\ c0.stack = st /\ c0.mem = s.mem
  BY <1>0
<1> HIDE DEF c0, a, b
<1>3. /\ Jit!Instr("pop", "rax") \in Machine /\ Jit!Instr("pop", "rbx") \in Machine
      /\ Jit!Instr("push", "rax") \in Machine /\ Return \in Machine
      /\ Jit!Instr("load", "rax") \in Machine /\ Jit!Instr("store", "rax") \in Machine
      /\ \A op \in {"Add", "Sub", "Mul"} : Jit!Instr(op, "rax") \in Machine
      /\ \A v \in Int : Jit!Instr("mov", v) \in Machine /\ Jit!Instr("push8", v % 256) \in Machine
  BY DEF Jit!Instr, Machine, Return
<1>10. /\ Jit!PopBoth \in Seq(Machine) /\ code \o Jit!PopBoth \in Seq(Machine)
       /\ Jit!Run(Jit!Boot, code \o Jit!PopBoth)
            = Jit!Processor(Jit!Processor(c0, Jit!Instr("pop", "rax")), Jit!Instr("pop", "rbx"))
  <2>1. Jit!PopBoth \in Seq(Machine)
    BY DEF Jit!PopBoth, Jit!Instr, Machine
  <2>2. code \o Jit!PopBoth \in Seq(Machine)
    BY <2>1
  <2> QED
    BY <1>3, <2>1, <2>2, RunTwo DEF Jit!PopBoth, c0
<1>4. CASE i.op = "Const"
  <2> DEFINE v == i.x
  <2>1. /\ d = [s EXCEPT !.stack = <<v>> \o st] /\ <<v>> \o st \in Seq(Int)
        /\ Len(<<v>> \o st) = Len(st) + 1 /\ Jit!Leaves(i.op) = 1
    BY <1>0, <1>4 DEF Jit!Does, Jit!Leaves
  <2>2. d \in Stack /\ d.end = "no" /\ d.stack = <<v>> \o st /\ d.mem = s.mem
    <3> DEFINE longer == <<v>> \o st
    <3> HIDE DEF longer
    <3>1. longer \in Seq(Int) /\ d = [s EXCEPT !.stack = longer]
      BY <2>1 DEF longer
    <3>2. d \in Stack /\ d.end = "no" /\ d.stack = longer /\ d.mem = s.mem
      BY <1>0, <3>1 DEF Stack, Ends
    <3> QED
      BY <3>2 DEF longer
  <2>3. Jit!EmitInstr(i) = Jit!EmitConst(v)
    BY <1>4 DEF Jit!EmitInstr
  <2>4. CASE v \in -128..127
    <3>1. c = Jit!Processor(c0, Jit!Instr("push8", v % 256))
      <4>1. Jit!EmitInstr(i) = <<Jit!Instr("push8", v % 256)>> /\ Jit!Instr("push8", v % 256) \in Machine
        BY <1>0, <1>3, <2>3, <2>4 DEF Jit!EmitConst
      <4> QED
        BY <4>1, RunOne DEF c0
    <3>2. c \in Cpu /\ c.end = "no" /\ c.mem = c0.mem /\ c.stack = <<v>> \o c0.stack
      <4> DEFINE c1 == Jit!Processor(c0, Jit!Instr("push8", v % 256))
      <4> HIDE DEF v
      <4>1. c1 \in Cpu /\ c1.end = "no" /\ c1.mem = c0.mem /\ c1.stack = <<v>> \o c0.stack
        BY <1>0, <1>2, <2>4, ShortPushed, ZenonT(60)
      <4> HIDE DEF c1
      <4>2. c = c1
        BY <3>1 DEF c1
      <4> QED
        BY <4>1, <4>2
    <3> QED
      BY <1>2, <2>1, <2>2, <3>2 DEF Alike
  <2>5. CASE v \notin -128..127
    <3> DEFINE c1 == Jit!Processor(c0, Jit!Instr("mov", v))
    <3>1. c = Jit!Processor(c1, Jit!Instr("push", "rax"))
      <4>1. Jit!EmitInstr(i) = <<Jit!Instr("mov", v), Jit!Instr("push", "rax")>> /\ Jit!Instr("mov", v) \in Machine
        BY <1>0, <1>3, <2>3, <2>5 DEF Jit!EmitConst
      <4> QED
        BY <1>3, <4>1, RunTwo DEF c0
    <3>2. c1 \in Cpu /\ c1.end = "no" /\ c1.mem = c0.mem /\ c1.stack = c0.stack /\ c1.rax = v
      BY <1>0, <1>2, Moved
    <3> HIDE DEF c1
    <3>3. c \in Cpu /\ c.end = "no" /\ c.mem = c1.mem /\ c.stack = <<c1.rax>> \o c1.stack
      BY <3>1, <3>2, Pushed
    <3> QED
      BY <1>2, <2>1, <2>2, <3>2, <3>3 DEF Alike
  <2> QED
    BY <2>4, <2>5
<1>5. ASSUME Jit!Pops[i.op] = 2, i.op # "Const", Len(st) >= 2
      PROVE  LET c2 == Jit!Processor(Jit!Processor(c0, Jit!Instr("pop", "rax")), Jit!Instr("pop", "rbx"))
             IN  /\ c2 \in Cpu /\ c2.end = "no" /\ c2.mem = s.mem /\ c2.stack = Tail(Tail(st))
                 /\ c2.rax = a /\ c2.rbx = b
                 /\ Tail(Tail(st)) \in Seq(Int) /\ Len(Tail(Tail(st))) = Len(st) - 2
                 /\ SubSeq(st, 2 + 1, Len(st)) = Tail(Tail(st)) /\ a \in Int /\ b \in Int
  <2> DEFINE c1 == Jit!Processor(c0, Jit!Instr("pop", "rax"))
             c2 == Jit!Processor(c1, Jit!Instr("pop", "rbx"))
  <2>1. /\ st # << >> /\ Tail(st) # << >> /\ b \in Int /\ Head(Tail(st)) = b /\ a \in Int
        /\ Tail(Tail(st)) \in Seq(Int) /\ Len(Tail(Tail(st))) = Len(st) - 2
        /\ SubSeq(st, 2 + 1, Len(st)) = Tail(Tail(st))
    <3>1. /\ st # << >> /\ Tail(st) # << >> /\ st[2] \in Int /\ Head(Tail(st)) = st[2]
          /\ Tail(Tail(st)) \in Seq(Int) /\ Len(Tail(Tail(st))) = Len(st) - 2
          /\ SubSeq(st, 2 + 1, Len(st)) = Tail(Tail(st))
      BY <1>0, <1>5, TwoDown
    <3>2. Len(st) >= 1
      BY <1>0, <1>5
    <3>3. Head(st) \in Int
      BY <1>0, <3>2, OneDown
    <3> QED
      BY <3>1, <3>3 DEF a, b
  <2>2. /\ c1 \in Cpu /\ c1.end = "no" /\ c1.mem = s.mem /\ c1.stack = Tail(st) /\ c1.rax = a
    BY <1>0, <1>2, <2>1, PoppedFirst, ZenonT(60) DEF a
  <2> HIDE DEF c1
  <2>3. /\ c2 \in Cpu /\ c2.end = "no" /\ c2.mem = s.mem /\ c2.stack = Tail(Tail(st))
        /\ c2.rbx = b /\ c2.rax = a
    BY <2>1, <2>2, PoppedSecond
  <2> QED
    BY <2>1, <2>3 DEF c1
<1>6. CASE i.op \in {"Add", "Sub", "Mul"}
  <2> DEFINE c2 == Jit!Processor(Jit!Processor(c0, Jit!Instr("pop", "rax")), Jit!Instr("pop", "rbx"))
             c3 == Jit!Processor(c2, Jit!Instr(i.op, "rax"))
             v == Combined(i.op, a, b)
             below == Tail(Tail(st))
  <2>1. Jit!Pops[i.op] = 2 /\ i.op # "Const" /\ Len(st) >= 2 /\ Jit!Leaves(i.op) = -1
    BY <1>6 DEF Jit!Pops, Jit!Leaves
  <2>2. /\ c2 \in Cpu /\ c2.end = "no" /\ c2.mem = s.mem /\ c2.stack = below
        /\ c2.rax = a /\ c2.rbx = b /\ below \in Seq(Int) /\ Len(below) = Len(st) - 2
        /\ SubSeq(st, 2 + 1, Len(st)) = below /\ a \in Int /\ b \in Int
    BY <1>5, <2>1
  <2>3. Jit!EmitInstr(i) = Jit!PopBoth \o <<Jit!Instr(i.op, "rax"), Jit!Instr("push", "rax")>>
    BY <1>6 DEF Jit!EmitInstr
  <2>4. c = Jit!Processor(c3, Jit!Instr("push", "rax"))
    <3> DEFINE rest == <<Jit!Instr(i.op, "rax"), Jit!Instr("push", "rax")>>
               both == code \o Jit!PopBoth
    <3>1. Jit!Instr(i.op, "rax") \in Machine /\ rest \in Seq(Machine)
      BY <1>3, <1>6
    <3>2. both \in Seq(Machine) /\ Jit!Run(Jit!Boot, both) = c2
      BY <1>10
    <3>3. code \o Jit!EmitInstr(i) = both \o rest
      <4> HIDE DEF rest
      <4> QED
        BY <1>10, <2>3, <3>1, ConcatAssociative DEF rest
    <3> HIDE DEF both, c2
    <3>4. Jit!Run(Jit!Boot, both \o rest) = Jit!Processor(c3, Jit!Instr("push", "rax"))
      BY <1>3, <3>1, <3>2, RunTwo
    <3> QED
      BY <3>3, <3>4
  <2> HIDE DEF c2, below
  <2>5. d = [s EXCEPT !.stack = <<v>> \o below]
    BY <1>6, <2>2 DEF Jit!Does, Combined, a, b
  <2>6. v \in Int
    BY <2>2 DEF Combined
  <2>7. c3 \in Cpu /\ c3.end = "no" /\ c3.mem = s.mem /\ c3.stack = below /\ c3.rax = v
    BY <1>6, <2>2, Computed
  <2> HIDE DEF c3, v
  <2>8. c \in Cpu /\ c.end = "no" /\ c.mem = s.mem /\ c.stack = <<v>> \o below
    BY <2>4, <2>7, Pushed
  <2>9. <<v>> \o below \in Seq(Int) /\ Len(<<v>> \o below) = Len(st) - 1
    BY <1>0, <2>2, <2>6
  <2>10. d \in Stack /\ d.end = "no" /\ d.mem = s.mem /\ d.stack = <<v>> \o below
    <3> DEFINE longer == <<v>> \o below
    <3> HIDE DEF longer
    <3>1. longer \in Seq(Int) /\ d = [s EXCEPT !.stack = longer]
      BY <2>5, <2>9 DEF longer
    <3>2. d \in Stack /\ d.end = "no" /\ d.stack = longer /\ d.mem = s.mem
      BY <1>0, <3>1 DEF Stack, Ends
    <3> QED
      BY <3>2 DEF longer
  <2> QED
    BY <1>0, <2>1, <2>8, <2>9, <2>10 DEF Alike
<1>7. CASE i.op = "Load"
  <2> DEFINE c1 == Jit!Processor(c0, Jit!Instr("pop", "rax"))
             c2 == Jit!Processor(c1, Jit!Instr("load", "rax"))
             below == Tail(st)
  <2>1. Len(st) >= 1 /\ Jit!Leaves(i.op) = 0
    BY <1>7 DEF Jit!Pops, Jit!Leaves
  <2>2. /\ st # << >> /\ a \in Int /\ below \in Seq(Int) /\ Len(below) = Len(st) - 1
        /\ SubSeq(st, 1 + 1, Len(st)) = below
    BY <1>0, <2>1, OneDown DEF a
  <2>3. c1 \in Cpu /\ c1.end = "no" /\ c1.mem = s.mem /\ c1.stack = below /\ c1.rax = a
    BY <1>0, <1>2, <2>2, PoppedFirst DEF a
  <2>4. Jit!EmitInstr(i) = <<Jit!Instr("pop", "rax"), Jit!Instr("load", "rax"), Jit!Instr("push", "rax")>>
    BY <1>7 DEF Jit!EmitInstr
  <2>5. c = Jit!Processor(c2, Jit!Instr("push", "rax"))
    BY <1>3, <2>4, RunThree DEF c0
  <2> HIDE DEF c1, below
  <2>6. /\ c2 \in Cpu
        /\ a \notin Cells => c2.end = "wrong"
        /\ a \in Cells => c2.end = "no" /\ c2.mem = s.mem /\ c2.stack = below /\ c2.rax = s.mem[a]
    BY <2>3, Addressed
  <2> HIDE DEF c2
  <2>7. CASE a \notin Cells
    <3>1. c = c2
      <4>1. c2.end # "no"
        BY <2>6, <2>7
      <4> QED
        BY <2>5, <4>1, Halted
    <3>2. d = [s EXCEPT !.end = "wrong"]
      BY <1>7, <2>7 DEF Jit!Does, a
    <3> QED
      BY <1>0, <2>6, <2>7, <3>1, <3>2 DEF Alike, Stack, Ends
  <2>8. CASE a \in Cells
    <3> DEFINE v == s.mem[a]
    <3>1. d = [s EXCEPT !.stack = <<v>> \o below] /\ v \in Int
      BY <1>0, <1>7, <2>2, <2>8 DEF Jit!Does, a
    <3>2. c \in Cpu /\ c.end = "no" /\ c.mem = s.mem /\ c.stack = <<v>> \o below
      BY <2>5, <2>6, <2>8, Pushed
    <3> HIDE DEF v
    <3>3. <<v>> \o below \in Seq(Int) /\ Len(<<v>> \o below) = Len(st)
      BY <1>0, <2>2, <3>1
    <3>4. d \in Stack /\ d.end = "no" /\ d.mem = s.mem /\ d.stack = <<v>> \o below
      <4> DEFINE longer == <<v>> \o below
      <4> HIDE DEF longer
      <4>1. longer \in Seq(Int) /\ d = [s EXCEPT !.stack = longer]
        BY <3>1, <3>3 DEF longer
      <4>2. d \in Stack /\ d.end = "no" /\ d.stack = longer /\ d.mem = s.mem
        BY <1>0, <4>1 DEF Stack, Ends
      <4> QED
        BY <4>2 DEF longer
    <3> QED
      BY <1>0, <2>1, <3>2, <3>3, <3>4 DEF Alike
  <2> QED
    BY <2>7, <2>8
<1>8. CASE i.op = "Store"
  <2> DEFINE c2 == Jit!Processor(Jit!Processor(c0, Jit!Instr("pop", "rax")), Jit!Instr("pop", "rbx"))
             below == Tail(Tail(st))
  <2>1. Jit!Pops[i.op] = 2 /\ i.op # "Const" /\ Len(st) >= 2 /\ Jit!Leaves(i.op) = -2
    BY <1>8 DEF Jit!Pops, Jit!Leaves
  <2>2. /\ c2 \in Cpu /\ c2.end = "no" /\ c2.mem = s.mem /\ c2.stack = below
        /\ c2.rax = a /\ c2.rbx = b /\ below \in Seq(Int) /\ Len(below) = Len(st) - 2
        /\ SubSeq(st, 2 + 1, Len(st)) = below /\ a \in Int /\ b \in Int
    BY <1>5, <2>1
  <2>3. Jit!EmitInstr(i) = Jit!PopBoth \o <<Jit!Instr("store", "rax")>>
    BY <1>8 DEF Jit!EmitInstr
  <2>4. c = Jit!Processor(c2, Jit!Instr("store", "rax"))
    <3> DEFINE rest == <<Jit!Instr("store", "rax")>>
               both == code \o Jit!PopBoth
    <3>1. rest \in Seq(Machine)
      BY <1>3
    <3>2. both \in Seq(Machine) /\ Jit!Run(Jit!Boot, both) = c2
      BY <1>10
    <3>3. code \o Jit!EmitInstr(i) = both \o rest
      <4> HIDE DEF rest
      <4> QED
        BY <1>10, <2>3, <3>1, ConcatAssociative DEF rest
    <3> HIDE DEF both, c2
    <3>4. Jit!Run(Jit!Boot, both \o rest) = Jit!Processor(c2, Jit!Instr("store", "rax"))
      BY <1>3, <3>2, RunOne
    <3> QED
      BY <3>3, <3>4
  <2> HIDE DEF c2, below
  <2>5. /\ c \in Cpu
        /\ a \notin Cells => c.end = "wrong"
        /\ a \in Cells => c.end = "no" /\ c.stack = below /\ c.mem = [s.mem EXCEPT ![a] = b]
    BY <2>2, <2>4, Addressed
  <2> HIDE DEF c
  <2>6. CASE a \notin Cells
    <3>1. d = [s EXCEPT !.end = "wrong"]
      BY <1>8, <2>6 DEF Jit!Does, a
    <3> QED
      BY <1>0, <2>5, <2>6, <3>1 DEF Alike, Stack, Ends
  <2>7. CASE a \in Cells
    <3> DEFINE mem == [s.mem EXCEPT ![a] = b]
    <3>1. d = [s EXCEPT !.stack = below, !.mem = mem] /\ mem \in [Cells -> Int]
      BY <1>0, <1>8, <2>2, <2>7 DEF Jit!Does, a, b
    <3>2. c.mem = mem
      BY <2>5, <2>7
    <3> HIDE DEF mem
    <3>3. d \in Stack /\ d.end = "no" /\ d.mem = mem /\ d.stack = below
      BY <1>0, <2>2, <3>1 DEF Stack, Ends
    <3> QED
      BY <1>0, <2>1, <2>2, <2>5, <2>7, <3>2, <3>3 DEF Alike
  <2> QED
    BY <2>6, <2>7
<1>9. CASE i.op = "Ret"
  <2> DEFINE c1 == Jit!Processor(c0, Jit!Instr("pop", "rax"))
  <2>1. Len(st) >= 1
    BY <1>9 DEF Jit!Pops
  <2>2. st # << >> /\ a \in Int /\ (Tail(st) = << >> <=> Len(st) = 1)
    BY <1>0, <2>1, OneDown DEF a
  <2>3. c1 \in Cpu /\ c1.end = "no" /\ c1.stack = Tail(st) /\ c1.rax = a
    BY <1>0, <1>2, <2>2, PoppedFirst DEF a
  <2>4. Jit!EmitInstr(i) = <<Jit!Instr("pop", "rax"), Return>>
    BY <1>9 DEF Jit!EmitInstr, Return
  <2>5. c = Jit!Processor(c1, Return)
    BY <1>3, <2>4, RunTwo DEF c0
  <2> HIDE DEF c1
  <2>6. c \in Cpu /\ c.rax = a /\ c.end = IF Tail(st) = << >> THEN "returned" ELSE "wrong"
    BY <2>3, <2>5, Returned
  <2> HIDE DEF c
  <2>7. d = [s EXCEPT !.end = "returned"]
    BY <1>9, <2>2 DEF Jit!Does
  <2>8. d \in Stack /\ d.stack = st /\ d.end = "returned"
    BY <1>0, <2>7 DEF Stack, Ends
  <2> QED
    BY <2>2, <2>6, <2>8 DEF Alike, a
<1> QED
  BY <1>4, <1>6, <1>7, <1>8, <1>9 DEF Instruction, Operations

-----------------------------------------------------------------------------
(* The module being written.                                               *)

Same(f) ==
  LET cpu == Jit!Run(Jit!Boot, Body(f))
      s == Jit!Meaning(f)
  IN  /\ cpu \in Cpu /\ s \in Stack /\ Alike(cpu, s)
      /\ s.end = "no" => Len(s.stack) = Jit!StackDepth(f)

JitIInv ==
  /\ functions \in Seq(Seq(Instruction)) /\ functions # << >>
  /\ Jit!Lowers(functions[1]) => Same(functions[1])

LEMMA JitInit == Jit!Init => JitIInv
<1> SUFFICES ASSUME Jit!Init PROVE JitIInv
  OBVIOUS
<1>1. functions = << << >> >> /\ functions[1] = << >> /\ functions \in Seq(Seq(Instruction))
  BY DEF Jit!Init
<1>2. Jit!Run(Jit!Boot, Body(<< >>)) = Jit!Boot /\ Jit!Meaning(<< >>) = Jit!Start
  BY BodyNothing, RunNothing, MeaningNothing
<1>3. Jit!Memory \in [Cells -> Int]
  BY DEF Jit!Memory
<1>4. Jit!Boot \in Cpu /\ Jit!Start \in Stack
  BY <1>3 DEF Jit!Boot, Jit!Start, Cpu, Stack, Ends
<1>5. /\ Alike(Jit!Boot, Jit!Start) /\ Len(Jit!Start.stack) = 0
  BY DEF Alike, Jit!Boot, Jit!Start
<1>6. Same(<< >>)
  BY <1>2, <1>4, <1>5, DepthNothing DEF Same
<1> QED
  BY <1>1, <1>6 DEF JitIInv

LEMMA SameLonger ==
  ASSUME NEW f \in Seq(Instruction), NEW i \in Instruction, Jit!Lowers(f) => Same(f),
         Jit!Lowers(Append(f, i)), i.op # "Const" => Jit!StackDepth(f) >= Jit!Pops[i.op]
  PROVE  Same(Append(f, i))
<1>1. Jit!Lowers(f) /\ i.op # "Call"
  <2> DEFINE longer == Append(f, i)
             n == Len(f)
  <2>1. /\ DOMAIN longer = 1..(n + 1) /\ longer[n + 1] = i /\ n + 1 \in 1..(n + 1)
        /\ DOMAIN f = 1..n /\ \A k \in 1..n : longer[k] = f[k] /\ k \in 1..(n + 1)
    OBVIOUS
  <2> HIDE DEF longer, n
  <2>2. \A k \in 1..(n + 1) : longer[k].op # "Call"
    BY <2>1 DEF longer, Jit!Lowers
  <2> QED
    BY <2>1, <2>2 DEF Jit!Lowers
<1> DEFINE s == Jit!Meaning(f)
           d == Jit!Does(s, i)
           code == Body(f)
           c == Jit!Run(Jit!Boot, code \o Jit!EmitInstr(i))
<1>2. code \in Seq(Machine)
  BY <1>1, FunctionEncoded
<1>3. /\ Jit!Run(Jit!Boot, code) \in Cpu /\ s \in Stack /\ Alike(Jit!Run(Jit!Boot, code), s)
      /\ s.end = "no" => Len(s.stack) = Jit!StackDepth(f)
  BY <1>1 DEF Same
<1>4. /\ Body(Append(f, i)) = code \o Jit!EmitInstr(i) /\ Jit!Meaning(Append(f, i)) = d
      /\ Jit!StackDepth(Append(f, i)) = Jit!StackDepth(f) + Jit!Leaves(i.op)
  BY <1>1, BodyAppend, MeaningAppend, DepthAppend
<1> HIDE DEF code, s
<1>5. i.op # "Const" /\ s.end = "no" => Len(s.stack) >= Jit!Pops[i.op]
  BY <1>3
<1>6. /\ c \in Cpu /\ d \in Stack /\ Alike(c, d)
      /\ d.end = "no" => s.end = "no" /\ Len(d.stack) = Len(s.stack) + Jit!Leaves(i.op)
  BY <1>1, <1>2, <1>3, <1>5, InstructionDoes
<1> HIDE DEF c, d
<1>7. Jit!Run(Jit!Boot, Body(Append(f, i))) = c
  BY <1>4 DEF c
<1>8. d.end = "no" => Len(d.stack) = Jit!StackDepth(Append(f, i))
  BY <1>3, <1>4, <1>6
<1> QED
  BY <1>4, <1>6, <1>7, <1>8 DEF Same

LEMMA JitWritten ==
  ASSUME JitIInv, NEW i \in Instruction, Jit!Write(i),
         i.op # "Const" => Jit!StackDepth(functions[Len(functions)]) >= Jit!Pops[i.op]
  PROVE  JitIInv'
<1> DEFINE n == Len(functions)
           f == functions[n]
<1>1. /\ functions \in Seq(Seq(Instruction)) /\ n \in Nat /\ n # 0 /\ n \in 1..n /\ 1 \in 1..n
      /\ f \in Seq(Instruction) /\ functions' = [functions EXCEPT ![n] = Append(f, i)]
  BY DEF JitIInv, Jit!Write
<1>2. Append(f, i) \in Seq(Instruction)
  BY <1>1
<1> HIDE DEF f
<1>3. /\ functions' \in Seq(Seq(Instruction)) /\ Len(functions') = n
      /\ functions'[1] = IF n = 1 THEN Append(f, i) ELSE functions[1]
  BY <1>1, <1>2
<1>4. functions' # << >>
  BY <1>1, <1>3
<1>5. CASE n = 1
  <2>1. Jit!Lowers(f) => Same(f)
    BY <1>5 DEF JitIInv, f
  <2>2. Jit!Lowers(Append(f, i)) => Same(Append(f, i))
    BY <1>1, <2>1, SameLonger DEF f
  <2> QED
    BY <1>3, <1>4, <1>5, <2>2 DEF JitIInv
<1>6. CASE n # 1
  <2>1. functions'[1] = functions[1]
    BY <1>3, <1>6
  <2> QED
    BY <1>3, <1>4, <2>1 DEF JitIInv
<1> QED
  BY <1>5, <1>6

LEMMA JitKept == JitIInv /\ [Jit!Next]_Jit!vars => JitIInv'
<1> SUFFICES ASSUME JitIInv, [Jit!Next]_Jit!vars PROVE JitIInv'
  OBVIOUS
<1>1. CASE UNCHANGED Jit!vars
  BY <1>1 DEF JitIInv, Jit!vars
<1>2. ASSUME NEW v \in Literals, Jit!WriteConst(v) PROVE JitIInv'
  <2>1. Jit!Instr("Const", v) \in Instruction /\ Jit!Instr("Const", v).op = "Const"
    BY JitAssumption DEF Jit!Instr, Instruction, Operations
  <2> QED
    BY <1>2, <2>1, JitWritten DEF Jit!WriteConst
<1>3. ASSUME NEW op \in DOMAIN Jit!Pops, Jit!WriteOp(op) PROVE JitIInv'
  <2>1. Jit!Instr(op, 0) \in Instruction /\ Jit!Instr(op, 0).op = op
    BY DEF Jit!Pops, Jit!Instr, Instruction, Operations
  <2>2. Jit!Write(Jit!Instr(op, 0)) /\ Jit!StackDepth(functions[Len(functions)]) >= Jit!Pops[op]
    BY <1>3 DEF Jit!WriteOp, Jit!Last
  <2> QED
    BY <2>1, <2>2, JitWritten
<1>4. CASE Jit!NewFunction
  <2>1. functions' = Append(functions, << >>) /\ << >> \in Seq(Instruction)
    BY <1>4 DEF Jit!NewFunction
  <2>2. functions' \in Seq(Seq(Instruction)) /\ functions'[1] = functions[1] /\ functions' # << >>
    <3>1. functions \in Seq(Seq(Instruction)) /\ 1 \in 1..Len(functions)
      BY DEF JitIInv
    <3> QED
      BY <2>1, <3>1, AppendProperties
  <2> QED
    BY <2>2 DEF JitIInv
<1> QED
  BY <1>1, <1>2, <1>3, <1>4 DEF Jit!Next

LEMMA JitAgrees == JitIInv => Jit!MachineAgrees
<1> SUFFICES ASSUME JitIInv PROVE Jit!MachineAgrees
  OBVIOUS
<1> DEFINE f == functions[1]
           means == Jit!Meaning(f)
           result == Jit!Codegen(functions, "X86_64")
<1>1. functions \in Seq(Seq(Instruction)) /\ functions # << >> /\ f \in Seq(Instruction)
  BY DEF JitIInv
<1>2. Jit!Execute(Jit!Codegen(functions, "Host")).rax = 0
  BY DEF Jit!Execute, Jit!Codegen, Jit!Boot
<1>3. result.target = "X86_64" /\ result.code = Jit!EmitModule(functions)
  BY DEF Jit!Codegen
<1>4. ASSUME ~Jit!Lowers(f) PROVE Jit!Execute(result).rax = 0
  <2>1. result.code = << >>
    BY <1>1, <1>3, <1>4, FirstComesFirst
  <2> QED
    BY <2>1 DEF Jit!Execute, Jit!Boot
<1>5. ASSUME Jit!Lowers(f), means.end = "returned", Len(means.stack) = 1
      PROVE  Jit!Execute(result).end = "returned" /\ Jit!Execute(result).rax = Head(means.stack)
  <2> DEFINE code == Body(f)
             cpu == Jit!Run(Jit!Boot, code)
  <2>1. code \in Seq(Machine) /\ Return \in Machine /\ Jit!EmitFunction(f) = code \o <<Return>>
    BY <1>1, <1>5, FunctionEncoded
  <2>2. PICK rest \in Seq(Machine) : Jit!EmitModule(functions) = Jit!EmitFunction(f) \o rest
    BY <1>1, <1>5, FirstComesFirst
  <2>3. cpu.end = "returned" /\ cpu.rax = Head(means.stack)
    BY <1>5 DEF JitIInv, Same, Alike
  <2> HIDE DEF code, cpu, f, means, result
  <2> DEFINE more == <<Return>> \o rest
  <2>4. <<Return>> \in Seq(Machine) /\ more \in Seq(Machine)
    BY <2>1
  <2>5. result.code = code \o more
    BY <1>3, <2>1, <2>2, <2>4, ConcatAssociative
  <2>6. code \o more # << >>
    <3>1. Len(more) = 1 + Len(rest) /\ Len(rest) \in Nat /\ Len(code) \in Nat
      BY <2>1
    <3> HIDE DEF more
    <3>2. Len(code \o more) # 0
      BY <2>1, <2>4, <3>1
    <3> QED
      BY <3>2
  <2> HIDE DEF more
  <2>7. Jit!Run(Jit!Boot, code \o more) = cpu
    BY <2>1, <2>3, <2>4, RunDone DEF cpu
  <2> QED
    BY <1>3, <2>3, <2>5, <2>6, <2>7 DEF Jit!Execute
<1> QED
  BY <1>2, <1>4, <1>5 DEF Jit!MachineAgrees

-----------------------------------------------------------------------------
(* What is computed piecemeal.                                             *)

ComputingIInv == MetricsIInv /\ JitIInv /\ LogIInv /\ OptimizerIInv /\ AudioIInv

LEMMA ComputingSeparate ==
  ASSUME [ComputingNext]_computing
  PROVE  /\ [Metrics!Next]_Metrics!vars
         /\ [Jit!Next]_Jit!vars
         /\ [Log!Next]_Log!vars
         /\ [Optimizer!Next]_Optimizer!vars
         /\ [AudioGraph!Next]_AudioGraph!vars
  BY DEF ComputingNext, MetricsStep, JitStep, LogStep, OptimizerStep, AudioStep, computing,
         metrics, jit, log, optimizer, audio, Metrics!vars, Jit!vars, Log!vars,
         Optimizer!vars, AudioGraph!vars

LEMMA ComputingKept == ComputingIInv /\ [ComputingNext]_computing => ComputingIInv'
<1> SUFFICES ASSUME ComputingIInv, [ComputingNext]_computing PROVE ComputingIInv'
  OBVIOUS
<1>1. MetricsIInv /\ JitIInv /\ LogIInv /\ OptimizerIInv /\ AudioIInv
  BY DEF ComputingIInv
<1>2. MetricsIInv' /\ JitIInv' /\ LogIInv' /\ OptimizerIInv' /\ AudioIInv'
  BY <1>1, ComputingSeparate, MetricsKept, JitKept, LogKept, OptimizerKept, AudioKept
<1> QED
  BY <1>2 DEF ComputingIInv

\* Whatever the order of updates, scopes, gradients and stages, what Metrics, Log, Optimizer
\* and AudioGraph compute piece by piece is what it would be at once; and what Jit's code
\* returns is what the operations mean, of a first function that returns with nothing left
\* on the stack below the value.
THEOREM ComputedAtOnce == ComputingSpec => []ResultsAgree
<1>1. ComputingInit => ComputingIInv
  BY MetricsInit, JitInit, LogInit, OptimizerInit, AudioInit DEF ComputingInit, ComputingIInv
<1>2. ComputingIInv => ResultsAgree
  BY MetricsAgree, JitAgrees, LogAgrees, OptimizerAgrees, AudioAgrees
  DEF ComputingIInv, ResultsAgree
<1> QED
  BY <1>1, <1>2, ComputingKept, PTL DEF ComputingSpec
=============================================================================

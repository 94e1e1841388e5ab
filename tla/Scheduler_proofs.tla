---------------------------- MODULE Scheduler_proofs ----------------------------
(***************************************************************************)
(* Theorems about Scheduler for any number of workers, any handles and any *)
(* bound on the posts.                                                     *)
(***************************************************************************)
EXTENDS Scheduler, Lemmas, SequenceTheorems

\* Where a worker has a handle whose coroutine has not given it back yet.
Active == {"popped", "cancelled", "body"}

TypeOK ==
  /\ queue \in [Workers -> Seq(Handles)]
  /\ done \in [Workers -> BOOLEAN]
  /\ pc \in [Workers -> PCs]
  /\ hand \in [Workers -> Handles \cup {None}]
  /\ \A w \in Workers : hand[w] # None <=> pc[w] \in Active \cup {"unwinding"}
  /\ next \in 0..(N - 1)
  /\ cancelled \subseteq Handles
  /\ task \in [Handles -> TaskStates]
  /\ posts \in 0..MaxPosts
  /\ \A w \in Workers : Len(queue[w]) <= posts

-----------------------------------------------------------------------------
(* Type correctness.                                                       *)

LEMMA NextWorker ==
  ASSUME TypeOK
  PROVE  1 + next \in Workers /\ (next + 1) % N \in 0..(N - 1)
BY SchedulerAssumption DEF TypeOK, Workers

\* Where the other workers are after a post.
LEMMA PostWakes ==
  ASSUME TypeOK, NEW h \in Handles, NEW at \in [Workers -> PCs], NEW t, PostTo(h, at, t)
  PROVE  /\ pc' \in [Workers -> PCs]
         /\ \A w \in Workers : pc'[w] = at[w] \/ (at[w] = "parked" /\ pc'[w] = "wait")
BY NextWorker DEF PostTo, PCs

\* What a post does to the queues: the handle comes last in one of them.
LEMMA PostAppends ==
  ASSUME TypeOK, NEW h \in Handles, NEW at, NEW t, PostTo(h, at, t)
  PROVE  LET u == 1 + next IN
         /\ u \in Workers /\ queue' \in [Workers -> Seq(Handles)]
         /\ next' \in 0..(N - 1) /\ posts' \in 0..MaxPosts
         /\ \A w \in Workers : Len(queue'[w]) <= posts'
         /\ queue'[u] = Append(queue[u], h)
         /\ \A w \in Workers : w # u => queue'[w] = queue[w]
<1> DEFINE u == 1 + next
<1>1. u \in Workers /\ next' \in 0..(N - 1)
  BY NextWorker DEF PostTo
<1>2. /\ queue[u] \in Seq(Handles) /\ Append(queue[u], h) \in Seq(Handles)
      /\ Len(Append(queue[u], h)) = Len(queue[u]) + 1
  BY <1>1, AppendProperties DEF TypeOK
<1>3. /\ queue' = [queue EXCEPT ![u] = Append(queue[u], h)]
      /\ posts < MaxPosts /\ posts' = posts + 1
  BY DEF PostTo
<1> HIDE DEF u
<1>4. /\ queue' \in [Workers -> Seq(Handles)]
      /\ queue'[u] = Append(queue[u], h)
      /\ \A w \in Workers : w # u => queue'[w] = queue[w]
  BY <1>1, <1>2, <1>3 DEF TypeOK
<1>5. posts' \in 0..MaxPosts /\ \A w \in Workers : Len(queue[w]) \in Nat /\ Len(queue[w]) <= posts
  BY <1>3, SchedulerAssumption DEF TypeOK
<1>6. \A w \in Workers : Len(queue'[w]) <= posts'
  BY <1>1, <1>2, <1>3, <1>4, <1>5 DEF TypeOK
<1> QED BY <1>1, <1>4, <1>5, <1>6 DEF u

LEMMA PopTakes ==
  ASSUME TypeOK, NEW w \in Workers, Pop(w)
  PROVE  /\ queue[w] # <<>> /\ queue[w] \in Seq(Handles) /\ Head(queue[w]) \in Handles
         /\ Head(queue[w]) = queue[w][1] /\ Head(queue[w]) # None
         /\ queue' \in [Workers -> Seq(Handles)]
         /\ queue'[w] = Tail(queue[w]) /\ Len(queue'[w]) = Len(queue[w]) - 1
         /\ Len(queue[w]) \in Nat \ {0}
         /\ \A i \in 1..(Len(queue[w]) - 1) : queue'[w][i] = queue[w][i + 1]
         /\ \A v \in Workers : v # w => queue'[v] = queue[v]
<1>1. /\ queue[w] \in Seq(Handles) /\ queue[w] # <<>>
      /\ queue' = [queue EXCEPT ![w] = Tail(queue[w])]
  BY DEF TypeOK, Pop
<1>2. /\ Head(queue[w]) \in Handles /\ Head(queue[w]) = queue[w][1]
      /\ Tail(queue[w]) \in Seq(Handles) /\ Len(Tail(queue[w])) = Len(queue[w]) - 1
      /\ Len(queue[w]) \in Nat \ {0}
      /\ \A i \in 1..(Len(queue[w]) - 1) : Tail(queue[w])[i] = queue[w][i + 1]
  BY <1>1, EmptySeq, HeadTailProperties
<1> QED BY <1>1, <1>2, SchedulerAssumption DEF TypeOK

LEMMA InitType == Init => TypeOK
BY EmptySeq, SchedulerAssumption DEF Init, TypeOK, PCs, Active, TaskStates, Workers

LEMMA NextType == TypeOK /\ [Next]_vars => TypeOK'
<1> SUFFICES ASSUME TypeOK, [Next]_vars PROVE TypeOK'
  OBVIOUS
<1> USE DEF Active
<1>1. CASE UNCHANGED vars
  BY <1>1 DEF vars, TypeOK
<1>2. ASSUME NEW h \in Handles, Post(h) PROVE TypeOK'
  <2>1. pc \in [Workers -> PCs] /\ PostTo(h, pc, task)
    BY <1>2 DEF TypeOK, Post
  <2>2. task' \in [Handles -> TaskStates]
    BY <2>1 DEF PostTo, TypeOK, TaskStates
  <2>3. \A w \in Workers : hand'[w] # None <=> pc'[w] \in Active \cup {"unwinding"}
    BY <1>2, <2>1, PostWakes DEF Post, TypeOK
  <2> QED BY <1>2, <2>1, <2>2, <2>3, PostWakes, PostAppends DEF Post, TypeOK
<1>3. ASSUME NEW h \in Handles, Cancel(h) \/ Reuse(h) PROVE TypeOK'
  BY <1>3 DEF Cancel, Reuse, TypeOK, TaskStates
<1>4. ASSUME NEW w \in Workers, CountIdle(w) \/ Park(w) \/ Exit(w) \/ SpuriousWake(w) PROVE TypeOK'
  BY <1>4 DEF CountIdle, Park, Exit, SpuriousWake, TypeOK, PCs
<1>5. ASSUME NEW w \in Workers, Pop(w) PROVE TypeOK'
  <2>1. /\ hand' = [hand EXCEPT ![w] = Head(queue[w])] /\ pc' = [pc EXCEPT ![w] = "popped"]
        /\ UNCHANGED <<done, next, cancelled, task, posts>>
    BY <1>5 DEF Pop
  <2>2. \A v \in Workers : Len(queue[v]) \in Nat /\ Len(queue[v]) <= posts
    BY DEF TypeOK
  <2>3. \A v \in Workers : Len(queue'[v]) <= posts
    <3>1. posts \in Nat
      BY SchedulerAssumption DEF TypeOK
    <3>2. Len(queue'[w]) <= posts
      BY <1>5, <2>2, <3>1, PopTakes
    <3>3. \A v \in Workers : v # w => Len(queue'[v]) <= posts
      BY <1>5, <2>2, PopTakes
    <3> QED BY <3>2, <3>3
  <2>4. \A v \in Workers : hand'[v] # None <=> pc'[v] \in Active \cup {"unwinding"}
    BY <1>5, <2>1, PopTakes DEF TypeOK
  <2> QED BY <1>5, <2>1, <2>3, <2>4, PopTakes DEF TypeOK, PCs
<1>6. ASSUME NEW w \in Workers, Check(w) PROVE TypeOK'
  BY <1>6 DEF Check, TypeOK, PCs, TaskStates
<1>7. ASSUME NEW w \in Workers, Destroy(w) \/ CleanUp(w) PROVE TypeOK'
  <2>1. CASE Destroy(w)
    BY <2>1 DEF Destroy, Complete, TypeOK, PCs, TaskStates
  <2>2. CASE CleanUp(w)
    BY <2>2 DEF CleanUp, Complete, TypeOK, PCs, TaskStates
  <2> QED
    BY <1>7, <2>1, <2>2
<1>8. ASSUME NEW w \in Workers, BodyLeaves(w) PROVE TypeOK'
  <2>0. hand[w] \in Handles /\ pc[w] = "body"
    BY <1>8 DEF BodyLeaves, TypeOK
  <2>1. CASE \E s \in {"suspended", "gone"} :
               /\ task' = [task EXCEPT ![hand[w]] = s]
               /\ pc' = [pc EXCEPT ![w] = "unwinding"]
               /\ UNCHANGED <<queue, next, posts>>
    BY <1>8, <2>0, <2>1 DEF BodyLeaves, TypeOK, PCs, TaskStates
  <2>2. CASE PostTo(hand[w], [pc EXCEPT ![w] = "unwinding"], task)
    <3>1. [pc EXCEPT ![w] = "unwinding"] \in [Workers -> PCs]
      BY DEF TypeOK, PCs
    <3>2. task' \in [Handles -> TaskStates]
      BY <2>0, <2>2 DEF PostTo, TypeOK, TaskStates
    <3>3. \A v \in Workers : hand'[v] # None <=> pc'[v] \in Active \cup {"unwinding"}
      <4> DEFINE at == [pc EXCEPT ![w] = "unwinding"]
      <4>1. \A v \in Workers : pc'[v] = at[v] \/ (at[v] = "parked" /\ pc'[v] = "wait")
        BY <2>0, <2>2, <3>1, PostWakes
      <4>2. at[w] = "unwinding" /\ \A v \in Workers : v # w => at[v] = pc[v]
        BY DEF TypeOK
      <4>3. hand' = hand /\ hand[w] # None
        BY <1>8, <2>0, SchedulerAssumption DEF BodyLeaves
      <4> QED BY <4>1, <4>2, <4>3 DEF TypeOK
    <3> QED BY <1>8, <2>0, <2>2, <3>1, <3>2, <3>3, PostWakes, PostAppends DEF BodyLeaves, TypeOK
  <2> QED BY <1>8, <2>1, <2>2 DEF BodyLeaves
<1>9. CASE DtorBegin \/ Dtor
  BY <1>9 DEF DtorBegin, Dtor, DtorSet, DtorNotify, DtorJoin, TypeOK, PCs
<1> QED BY <1>1, <1>2, <1>3, <1>4, <1>5, <1>6, <1>7, <1>8, <1>9 DEF Next, Run

-----------------------------------------------------------------------------
(* A handle cancelled in the queue stays cancelled until it is destroyed.  *)

AloneOK ==
  \A h \in alone :
    /\ h \in cancelled /\ task[h] = "queued"
    /\ \A w \in Workers : hand[w] = h => pc[w] \in {"popped", "cancelled"}

LEMMA NextAlone == TypeOK /\ TypeOK' /\ AloneOK /\ [Next]_vars => AloneOK'
<1> SUFFICES ASSUME TypeOK, TypeOK', AloneOK, [Next]_vars PROVE AloneOK'
  OBVIOUS
<1>0. alone \subseteq Handles
  BY DEF AloneOK, TypeOK
<1>1. CASE UNCHANGED vars
  BY <1>1 DEF vars, AloneOK
<1>2. ASSUME NEW h \in Handles, Post(h) PROVE AloneOK'
  <2>1. h \notin alone
    BY <1>2 DEF Post, AloneOK
  <2>2. \A w \in Workers : pc'[w] = pc[w] \/ pc[w] = "parked"
    BY <1>2, PostWakes DEF Post, TypeOK
  <2>3. \A g \in alone : task'[g] = task[g]
    BY <1>0, <1>2, <2>1 DEF Post, PostTo, TypeOK
  <2> QED BY <1>2, <2>2, <2>3 DEF Post, AloneOK
<1>3. ASSUME NEW h \in Handles, Cancel(h) PROVE AloneOK'
  BY <1>3 DEF Cancel, AloneOK
<1>4. ASSUME NEW h \in Handles, Reuse(h) PROVE AloneOK'
  BY <1>0, <1>4 DEF Reuse, AloneOK, TypeOK
<1>5. ASSUME NEW w \in Workers, CountIdle(w) \/ Park(w) \/ Exit(w) \/ SpuriousWake(w) PROVE AloneOK'
  <2>1. /\ pc[w] \in {"loop", "wait", "parked"}
        /\ \A v \in Workers : v # w => pc'[v] = pc[v]
        /\ UNCHANGED <<hand, cancelled, task, alone>>
    BY <1>5 DEF CountIdle, Park, Exit, SpuriousWake, TypeOK
  <2> QED BY <2>1 DEF AloneOK
<1>6. ASSUME NEW w \in Workers, Pop(w) PROVE AloneOK'
  <2>1. /\ pc'[w] = "popped"
        /\ \A v \in Workers : v # w => pc'[v] = pc[v] /\ hand'[v] = hand[v]
        /\ UNCHANGED <<cancelled, task, alone>>
    BY <1>6 DEF Pop, TypeOK
  <2> QED BY <2>1 DEF AloneOK
<1>7. ASSUME NEW w \in Workers, Check(w) PROVE AloneOK'
  <2>1. /\ \A v \in Workers : v # w => pc'[v] = pc[v]
        /\ UNCHANGED <<hand, cancelled, alone>>
    BY <1>7 DEF Check, TypeOK
  <2>2. CASE hand[w] \in cancelled
    <3>1. pc'[w] = "cancelled" /\ task' = task
      BY <1>7, <2>2 DEF Check, TypeOK
    <3> QED BY <2>1, <3>1 DEF AloneOK
  <2>3. CASE hand[w] \notin cancelled
    <3>1. hand[w] \notin alone
      BY <2>3 DEF AloneOK
    <3>2. \A g \in alone : task'[g] = task[g]
      BY <1>0, <1>7, <2>3, <3>1 DEF Check, TypeOK
    <3> QED BY <2>1, <3>1, <3>2 DEF AloneOK
  <2> QED BY <2>2, <2>3
<1>8. ASSUME NEW w \in Workers, Destroy(w) PROVE AloneOK'
  <2>1. /\ alone' = alone \ {hand[w]} /\ cancelled' = cancelled \ {hand[w]}
        /\ \A v \in Workers : v # w => pc'[v] = pc[v] /\ hand'[v] = hand[v]
        /\ hand'[w] = None
    BY <1>8 DEF Destroy, Complete, TypeOK
  <2>2. \A g \in alone' : task'[g] = task[g]
    BY <1>0, <1>8, <2>1 DEF Destroy, TypeOK
  <2> QED BY <1>0, <2>1, <2>2, SchedulerAssumption DEF AloneOK
<1>9. ASSUME NEW w \in Workers, CleanUp(w) PROVE AloneOK'
  <2>1. hand[w] \notin alone
    BY <1>9 DEF CleanUp, AloneOK
  <2>2. /\ cancelled' = cancelled \ {hand[w]}
        /\ \A v \in Workers : v # w => pc'[v] = pc[v] /\ hand'[v] = hand[v]
        /\ hand'[w] = None
        /\ UNCHANGED <<alone, task>>
    BY <1>9 DEF CleanUp, Complete, TypeOK
  <2> QED BY <1>0, <2>1, <2>2, SchedulerAssumption DEF AloneOK
<1>10. ASSUME NEW w \in Workers, BodyLeaves(w) PROVE AloneOK'
  <2>0. /\ pc[w] = "body" /\ hand[w] \in Handles /\ alone' = alone \ {hand[w]}
        /\ UNCHANGED <<hand, cancelled>>
    BY <1>10 DEF BodyLeaves, TypeOK, Active
  <2>1. \A g \in alone' : task'[g] = task[g]
    BY <1>0, <1>10, <2>0 DEF BodyLeaves, PostTo, TypeOK
  <2>2. \A v \in Workers : v # w => pc'[v] = pc[v] \/ pc[v] = "parked"
    <3>1. CASE pc' = [pc EXCEPT ![w] = "unwinding"]
      BY <3>1 DEF TypeOK
    <3>2. CASE PostTo(hand[w], [pc EXCEPT ![w] = "unwinding"], task)
      <4> DEFINE at == [pc EXCEPT ![w] = "unwinding"]
      <4>1. at \in [Workers -> PCs] /\ \A v \in Workers : v # w => at[v] = pc[v]
        BY DEF TypeOK, PCs
      <4>2. \A v \in Workers : pc'[v] = at[v] \/ (at[v] = "parked" /\ pc'[v] = "wait")
        BY <2>0, <3>2, <4>1, PostWakes
      <4> QED BY <4>1, <4>2
    <3> QED BY <1>10, <3>1, <3>2 DEF BodyLeaves
  <2> QED BY <2>0, <2>1, <2>2 DEF AloneOK
<1>11. CASE DtorBegin \/ Dtor
  BY <1>11 DEF DtorBegin, Dtor, DtorSet, DtorNotify, DtorJoin, AloneOK, TypeOK
<1> QED BY <1>1, <1>2, <1>3, <1>4, <1>5, <1>6, <1>7, <1>8, <1>9, <1>10, <1>11 DEF Next, Run

-----------------------------------------------------------------------------
(* A posted handle is in one place.                                        *)

\* The handles in the queues, and those some worker has in hand.
Waiting == {h \in Handles : \E w \in Workers : \E i \in 1..Len(queue[w]) : queue[w][i] = h}

Hands == {h \in Handles : \E w \in Workers : hand[w] = h /\ pc[w] \in Active}

QueuesOK ==
  \A w, v \in Workers : \A i \in 1..Len(queue[w]), j \in 1..Len(queue[v]) :
    queue[w][i] = queue[v][j] => w = v /\ i = j

HandsOK ==
  \A w, v \in Workers :
    hand[w] = hand[v] /\ pc[w] \in Active /\ pc[v] \in Active => w = v

\* What a task is doing says where its handle is.
TasksOK ==
  /\ \A w \in Workers : \A i \in 1..Len(queue[w]) :
       task[queue[w][i]] = "queued" /\ queue[w][i] \notin Hands
  /\ \A w \in Workers :
       pc[w] \in Active => task[hand[w]] = IF pc[w] = "body" THEN "running" ELSE "queued"
  /\ \A h \in Handles :
       task[h] \in {"queued", "running"} => h \in Hands \cup Waiting

OnePlace == QueuesOK /\ HandsOK /\ TasksOK

\* A step that moves no handle.
LEMMA StillOnePlace ==
  ASSUME TypeOK, OnePlace, UNCHANGED <<queue, task>>,
         \A w \in Workers : /\ pc'[w] \in Active <=> pc[w] \in Active
                            /\ pc[w] \in Active => /\ hand'[w] = hand[w]
                                                   /\ pc'[w] = "body" <=> pc[w] = "body"
  PROVE  OnePlace'
<1>0. \A w \in Workers, h \in Handles :
        hand'[w] = h /\ pc'[w] \in Active <=> hand[w] = h /\ pc[w] \in Active
  OBVIOUS
<1>1. Hands' = Hands
  BY <1>0 DEF Hands
<1>2. QueuesOK'
  BY DEF OnePlace, QueuesOK
<1>3. HandsOK'
  BY DEF OnePlace, HandsOK
<1>4. Waiting' = Waiting
  BY DEF Waiting
<1>5. TasksOK'
  <2>1. \A w \in Workers :
          pc'[w] \in Active => task'[hand'[w]] = IF pc'[w] = "body" THEN "running" ELSE "queued"
    BY DEF OnePlace, TasksOK
  <2> QED BY <1>1, <1>4, <2>1 DEF OnePlace, TasksOK
<1> QED BY <1>2, <1>3, <1>5 DEF OnePlace

LEMMA Appended ==
  ASSUME TypeOK, NEW h \in Handles, NEW at, NEW t, PostTo(h, at, t)
  PROVE  /\ \A w \in Workers : \A i \in 1..Len(queue'[w]) :
              \/ i \in 1..Len(queue[w]) /\ queue'[w][i] = queue[w][i]
              \/ w = 1 + next /\ i = Len(queue[w]) + 1 /\ queue'[w][i] = h
         /\ \A w \in Workers : \A i \in 1..Len(queue[w]) :
              i \in 1..Len(queue'[w]) /\ queue'[w][i] = queue[w][i]
         /\ \A w \in Workers : Len(queue[w]) \in Nat
         /\ h \in Waiting'
<1>1. PICK u \in Workers :
        /\ u = 1 + next
        /\ queue'[u] = Append(queue[u], h) /\ queue[u] \in Seq(Handles)
        /\ \A w \in Workers : w # u => queue'[w] = queue[w]
  BY PostAppends DEF TypeOK
<1>2. /\ Len(queue'[u]) = Len(queue[u]) + 1 /\ Len(queue[u]) \in Nat
      /\ \A i \in 1..Len(queue[u]) : queue'[u][i] = queue[u][i]
      /\ queue'[u][Len(queue[u]) + 1] = h
  BY <1>1, AppendProperties
<1>3. \A i \in 1..Len(queue'[u]) : i \in 1..Len(queue[u]) \/ i = Len(queue[u]) + 1
  BY <1>2
<1>4. \A i \in 1..Len(queue[u]) : i \in 1..Len(queue'[u])
  BY <1>2
<1>5. h \in Waiting'
  <2>1. PICK k : k \in 1..Len(queue'[u]) /\ queue'[u][k] = h
    BY <1>2
  <2> QED BY <1>1, <2>1 DEF Waiting
<1>6. \A w \in Workers : Len(queue[w]) \in Nat
  BY DEF TypeOK
<1> QED BY <1>1, <1>2, <1>3, <1>4, <1>5, <1>6

\* A post of a handle that is nowhere else, or that its last worker is giving back.
LEMMA PostOnePlace ==
  ASSUME TypeOK, OnePlace, NEW h \in Handles, NEW at, PostTo(h, at, task),
         h \notin Waiting,
         \A w \in Workers : pc'[w] \in Active => pc[w] \in Active /\ hand[w] # h,
         \A w \in Workers : pc[w] \in Active /\ hand[w] # h => pc'[w] = pc[w] /\ hand'[w] = hand[w]
  PROVE  OnePlace'
<1>0. \A g \in Handles : task'[g] = IF g = h THEN "queued" ELSE task[g]
  BY DEF PostTo, TypeOK
<1>1. \A w \in Workers : \A i \in 1..Len(queue[w]) : queue[w][i] # h /\ queue[w][i] \in Handles
  BY DEF Waiting, TypeOK
<1>2. Hands' = Hands \ {h}
  BY DEF Hands
<1>3. QueuesOK'
  <2> SUFFICES ASSUME NEW a \in Workers, NEW b \in Workers,
                      NEW i \in 1..Len(queue'[a]), NEW j \in 1..Len(queue'[b]),
                      queue'[a][i] = queue'[b][j]
               PROVE  a = b /\ i = j
    BY DEF QueuesOK
  <2>1. CASE queue'[a][i] = h
    <3>1. \A w \in Workers : \A k \in 1..Len(queue'[w]) :
            queue'[w][k] = h => w = 1 + next /\ k = Len(queue[w]) + 1
      BY <1>1, Appended
    <3>2. /\ a = 1 + next /\ i = Len(queue[a]) + 1
          /\ b = 1 + next /\ j = Len(queue[b]) + 1
      BY <2>1, <3>1
    <3>3. a = b
      BY <3>2
    <3> QED BY <3>2, <3>3
  <2>2. CASE queue'[a][i] # h
    <3>1. /\ i \in 1..Len(queue[a]) /\ queue'[a][i] = queue[a][i]
          /\ j \in 1..Len(queue[b]) /\ queue'[b][j] = queue[b][j]
      BY <2>2, Appended
    <3>2. queue[a][i] = queue[b][j]
      BY <3>1
    <3>3. QueuesOK
      BY DEF OnePlace
    <3> QED BY <3>1, <3>2, <3>3 DEF QueuesOK
  <2> QED BY <2>1, <2>2
<1>4. HandsOK'
  BY DEF OnePlace, HandsOK
<1>5. TasksOK'
  <2>1. \A w \in Workers : \A i \in 1..Len(queue'[w]) :
          task'[queue'[w][i]] = "queued" /\ queue'[w][i] \notin Hands'
    BY <1>0, <1>1, <1>2, Appended DEF OnePlace, TasksOK
  <2>2. \A w \in Workers :
          pc'[w] \in Active => task'[hand'[w]] = IF pc'[w] = "body" THEN "running" ELSE "queued"
    BY <1>0 DEF OnePlace, TasksOK, TypeOK, Active
  <2>3. ASSUME NEW g \in Handles, task'[g] \in {"queued", "running"}
        PROVE  g \in Hands' \cup Waiting'
    <3>1. CASE g = h
      BY <3>1, Appended
    <3>2. CASE g # h
      <4>1. CASE g \in Hands
        BY <1>2, <3>2, <4>1
      <4>2. CASE g \in Waiting
        BY <4>2, Appended DEF Waiting
      <4> QED BY <1>0, <2>3, <3>2, <4>1, <4>2 DEF OnePlace, TasksOK
    <3> QED BY <3>1, <3>2
  <2> QED BY <2>1, <2>2, <2>3 DEF TasksOK
<1> QED BY <1>3, <1>4, <1>5 DEF OnePlace

LEMMA PopOnePlace ==
  ASSUME TypeOK, OnePlace, NEW w \in Workers, Pop(w)
  PROVE  OnePlace'
<1> DEFINE h == Head(queue[w])
<1>0. /\ pc[w] = "wait" /\ pc'[w] = "popped" /\ hand'[w] = h /\ task' = task /\ h \in Handles
      /\ \A v \in Workers : v # w => pc'[v] = pc[v] /\ hand'[v] = hand[v]
  BY PopTakes DEF Pop, TypeOK
<1>1. /\ Len(queue[w]) \in Nat \ {0} /\ h = queue[w][1]
      /\ Len(queue'[w]) = Len(queue[w]) - 1
      /\ \A i \in 1..(Len(queue[w]) - 1) : queue'[w][i] = queue[w][i + 1]
      /\ \A v \in Workers : v # w => queue'[v] = queue[v]
  BY PopTakes
<1> HIDE DEF h
<1>2. \A i \in 1..Len(queue'[w]) : i + 1 \in 1..Len(queue[w]) /\ i + 1 # 1 /\ queue'[w][i] = queue[w][i + 1]
  BY <1>1
<1>3. \A i \in 1..Len(queue[w]) : i = 1 \/ (i - 1 \in 1..Len(queue'[w]) /\ queue'[w][i - 1] = queue[w][i])
  BY <1>1
<1>4. 1 \in 1..Len(queue[w])
  BY <1>1
<1>5. task[h] = "queued" /\ h \notin Hands
  BY <1>1, <1>4 DEF OnePlace, TasksOK
<1>6. \A v \in Workers : \A i \in 1..Len(queue'[v]) :
        /\ queue'[v][i] # h
        /\ \E j \in 1..Len(queue[v]) : queue'[v][i] = queue[v][j]
  <2>1. \A i \in 1..Len(queue[w]) : i # 1 => queue[w][i] # h
    BY <1>1, <1>4 DEF OnePlace, QueuesOK
  <2>2. \A v \in Workers : v # w => \A i \in 1..Len(queue[v]) : queue[v][i] # h
    BY <1>1, <1>4 DEF OnePlace, QueuesOK
  <2>3. \A i \in 1..Len(queue'[w]) :
          queue'[w][i] # h /\ \E j \in 1..Len(queue[w]) : queue'[w][i] = queue[w][j]
    BY <1>2, <2>1
  <2>4. \A v \in Workers : v # w => \A i \in 1..Len(queue'[v]) :
          queue'[v][i] # h /\ \E j \in 1..Len(queue[v]) : queue'[v][i] = queue[v][j]
    BY <1>1, <2>2
  <2> QED BY <2>3, <2>4
<1>7. Hands' = Hands \cup {h}
  <2>1. pc[w] \notin Active /\ pc'[w] \in Active
    BY <1>0 DEF Active
  <2> QED BY <1>0, <2>1 DEF Hands
<1>8. QueuesOK'
  <2> SUFFICES ASSUME NEW a \in Workers, NEW b \in Workers,
                      NEW i \in 1..Len(queue'[a]), NEW j \in 1..Len(queue'[b]),
                      queue'[a][i] = queue'[b][j]
               PROVE  a = b /\ i = j
    BY DEF QueuesOK
  <2>1. CASE a = w /\ b = w
    <3>1. /\ i + 1 \in 1..Len(queue[w]) /\ j + 1 \in 1..Len(queue[w])
          /\ queue[w][i + 1] = queue[w][j + 1]
      BY <1>2, <2>1
    <3>2. i + 1 = j + 1
      BY <3>1 DEF OnePlace, QueuesOK
    <3>3. i \in Int /\ j \in Int
      BY <1>1, <2>1
    <3> QED BY <2>1, <3>2, <3>3
  <2>2. CASE a = w /\ b # w
    <3>1. i + 1 \in 1..Len(queue[w]) /\ j \in 1..Len(queue[b]) /\ queue[w][i + 1] = queue[b][j]
      BY <1>1, <1>2, <2>2
    <3> QED BY <2>2, <3>1 DEF OnePlace, QueuesOK
  <2>3. CASE a # w /\ b = w
    <3>1. i \in 1..Len(queue[a]) /\ j + 1 \in 1..Len(queue[w]) /\ queue[a][i] = queue[w][j + 1]
      BY <1>1, <1>2, <2>3
    <3> QED BY <2>3, <3>1 DEF OnePlace, QueuesOK
  <2>4. CASE a # w /\ b # w  BY <1>1, <2>4 DEF OnePlace, QueuesOK
  <2> QED BY <2>1, <2>2, <2>3, <2>4
<1>9. HandsOK'
  <2>1. \A v \in Workers : v # w /\ pc[v] \in Active => hand[v] # h
    BY <1>0, <1>5 DEF Hands
  <2> QED BY <1>0, <2>1 DEF OnePlace, HandsOK
<1>10. TasksOK'
  <2>1. \A v \in Workers : \A i \in 1..Len(queue'[v]) :
          task'[queue'[v][i]] = "queued" /\ queue'[v][i] \notin Hands'
    BY <1>0, <1>6, <1>7 DEF OnePlace, TasksOK
  <2>2. \A v \in Workers :
          pc'[v] \in Active => task'[hand'[v]] = IF pc'[v] = "body" THEN "running" ELSE "queued"
    <3>1. task'[hand'[w]] = "queued" /\ pc'[w] # "body"
      BY <1>0, <1>5
    <3>2. \A v \in Workers : v # w =>
            (pc'[v] \in Active => task'[hand'[v]] = IF pc'[v] = "body" THEN "running" ELSE "queued")
      BY <1>0 DEF OnePlace, TasksOK
    <3> QED BY <3>1, <3>2
  <2>3. ASSUME NEW g \in Handles, task'[g] \in {"queued", "running"}
        PROVE  g \in Hands' \cup Waiting'
    <3>1. CASE g = h \/ g \in Hands
      BY <1>7, <3>1
    <3>2. ASSUME g # h, NEW v \in Workers, NEW i \in 1..Len(queue[v]), queue[v][i] = g
          PROVE  g \in Waiting'
      <4>1. CASE v = w  BY <1>1, <1>3, <3>2, <4>1 DEF Waiting
      <4>2. CASE v # w  BY <1>1, <3>2, <4>2 DEF Waiting
      <4> QED BY <4>1, <4>2
    <3> QED BY <1>0, <2>3, <3>1, <3>2 DEF OnePlace, TasksOK, Waiting
  <2> QED BY <2>1, <2>2, <2>3 DEF TasksOK
<1> QED BY <1>8, <1>9, <1>10 DEF OnePlace

\* The worker that has a handle gives it back, or begins to run its coroutine.
LEMMA HandOnePlace ==
  ASSUME TypeOK, OnePlace, NEW w \in Workers, pc[w] \in Active, hand[w] \in Handles,
         UNCHANGED queue,
         \A v \in Workers : v # w => pc'[v] = pc[v] /\ hand'[v] = hand[v],
         \/ /\ pc'[w] \notin Active
            /\ task'[hand[w]] \in {"suspended", "gone"}
         \/ /\ pc'[w] = "body" /\ hand'[w] = hand[w]
            /\ task'[hand[w]] = "running",
         \A g \in Handles : g # hand[w] => task'[g] = task[g]
  PROVE  OnePlace'
<1>1. \A v \in Workers : v # w /\ pc[v] \in Active => hand[v] # hand[w]
  BY DEF OnePlace, HandsOK
<1>2. \A v \in Workers : \A i \in 1..Len(queue[v]) : queue[v][i] # hand[w] /\ queue[v][i] \in Handles
  <2>1. hand[w] \in Hands
    BY DEF Hands
  <2> QED BY <2>1 DEF OnePlace, TasksOK, TypeOK
<1>3. \A g : g # hand[w] => (g \in Hands' <=> g \in Hands)
  BY DEF Hands, Active
<1>4. QueuesOK'
  BY DEF OnePlace, QueuesOK
<1>5. HandsOK'
  BY <1>1 DEF OnePlace, HandsOK
<1>6. TasksOK'
  <2>1. \A v \in Workers : \A i \in 1..Len(queue'[v]) :
          task'[queue'[v][i]] = "queued" /\ queue'[v][i] \notin Hands'
    BY <1>2, <1>3 DEF OnePlace, TasksOK
  <2>2. \A v \in Workers :
          pc'[v] \in Active => task'[hand'[v]] = IF pc'[v] = "body" THEN "running" ELSE "queued"
    <3>1. \A v \in Workers : v # w /\ pc'[v] \in Active =>
            /\ pc[v] \in Active /\ hand'[v] = hand[v] /\ pc'[v] = pc[v]
            /\ hand[v] # hand[w] /\ hand[v] \in Handles
      BY <1>1 DEF TypeOK, Active
    <3>2. \A v \in Workers : v # w /\ pc'[v] \in Active =>
            task'[hand'[v]] = IF pc'[v] = "body" THEN "running" ELSE "queued"
      BY <3>1 DEF OnePlace, TasksOK
    <3>3. pc'[w] \in Active => task'[hand'[w]] = "running" /\ pc'[w] = "body"
      OBVIOUS
    <3> QED BY <3>2, <3>3
  <2>3. ASSUME NEW g \in Handles, task'[g] \in {"queued", "running"}
        PROVE  g \in Hands' \cup Waiting'
    <3>1. CASE g = hand[w]
      BY <2>3, <3>1 DEF Hands, Active
    <3>2. CASE g # hand[w]
      BY <1>3, <2>3, <3>2 DEF OnePlace, TasksOK, Waiting
    <3> QED BY <3>1, <3>2
  <2> QED BY <2>1, <2>2, <2>3 DEF TasksOK
<1> QED BY <1>4, <1>5, <1>6 DEF OnePlace

LEMMA InitOnePlace == Init => OnePlace
<1> SUFFICES ASSUME Init PROVE OnePlace
  OBVIOUS
<1>1. /\ \A w \in Workers : Len(queue[w]) = 0 /\ pc[w] = "loop"
      /\ \A h \in Handles : task[h] = "new"
  BY EmptySeq DEF Init
<1>2. \A w \in Workers : 1..Len(queue[w]) = {}
  BY <1>1
<1> QED BY <1>1, <1>2 DEF OnePlace, QueuesOK, HandsOK, TasksOK, Active

LEMMA NextOnePlace == TypeOK /\ OnePlace /\ [Next]_vars => OnePlace'
<1> SUFFICES ASSUME TypeOK, OnePlace, [Next]_vars PROVE OnePlace'
  OBVIOUS
<1>0. ASSUME NEW h \in Handles, task[h] \notin {"queued", "running"}
      PROVE  h \notin Waiting /\ h \notin Hands
  BY <1>0 DEF OnePlace, TasksOK, Waiting, Hands
<1>1. CASE UNCHANGED vars
  BY <1>1, StillOnePlace DEF vars
<1>2. ASSUME NEW h \in Handles, Post(h) PROVE OnePlace'
  <2>1. /\ h \notin Waiting /\ PostTo(h, pc, task) /\ hand' = hand
        /\ \A w \in Workers : pc[w] \in Active => hand[w] # h
    BY <1>0, <1>2 DEF Post, Hands
  <2>2. \A w \in Workers : pc'[w] = pc[w] \/ (pc[w] = "parked" /\ pc'[w] = "wait")
    BY <2>1, PostWakes DEF TypeOK
  <2>3. \A w \in Workers : pc'[w] \in Active => pc[w] \in Active /\ hand[w] # h
    BY <2>1, <2>2 DEF Active
  <2>4. \A w \in Workers : pc[w] \in Active => pc'[w] = pc[w] /\ hand'[w] = hand[w]
    BY <2>1, <2>2 DEF Active
  <2> QED BY <2>1, <2>3, <2>4, PostOnePlace
<1>3. ASSUME NEW h \in Handles, Cancel(h) PROVE OnePlace'
  BY <1>3, StillOnePlace DEF Cancel
<1>4. ASSUME NEW h \in Handles, Reuse(h) PROVE OnePlace'
  <2>1. /\ h \notin Waiting /\ h \notin Hands /\ UNCHANGED <<queue, pc, hand>>
        /\ task'[h] = "new" /\ \A g \in Handles : g # h => task'[g] = task[g]
    BY <1>0, <1>4 DEF Reuse, TypeOK
  <2>2. Hands' = Hands /\ Waiting' = Waiting
    BY <2>1 DEF Hands, Waiting
  <2>3. \A w \in Workers : \A i \in 1..Len(queue[w]) : queue[w][i] \in Handles /\ queue[w][i] # h
    BY <2>1 DEF Waiting, TypeOK
  <2>4. \A w \in Workers : pc[w] \in Active => hand[w] \in Handles /\ hand[w] # h
    BY <2>1 DEF Hands, TypeOK, Active
  <2>5. QueuesOK' /\ HandsOK'
    BY <2>1 DEF OnePlace, QueuesOK, HandsOK
  <2>6. TasksOK'
    BY <2>1, <2>2, <2>3, <2>4 DEF OnePlace, TasksOK
  <2> QED BY <2>5, <2>6 DEF OnePlace
<1>5. ASSUME NEW w \in Workers, CountIdle(w) \/ Park(w) \/ Exit(w) \/ SpuriousWake(w) \/ CleanUp(w)
      PROVE  OnePlace'
  <2>1. /\ UNCHANGED <<queue, task>>
        /\ pc[w] \notin Active /\ pc'[w] \notin Active
        /\ \A v \in Workers : v # w => pc'[v] = pc[v] /\ hand'[v] = hand[v]
    BY <1>5 DEF CountIdle, Park, Exit, SpuriousWake, CleanUp, Complete, TypeOK, Active
  <2>2. \A v \in Workers : /\ pc'[v] \in Active <=> pc[v] \in Active
                           /\ pc[v] \in Active => /\ hand'[v] = hand[v]
                                                  /\ pc'[v] = "body" <=> pc[v] = "body"
    BY <2>1
  <2> QED BY <2>1, <2>2, StillOnePlace
<1>6. ASSUME NEW w \in Workers, Pop(w) PROVE OnePlace'
  BY <1>6, PopOnePlace
<1>7. ASSUME NEW w \in Workers, Check(w) PROVE OnePlace'
  <2>1. /\ pc[w] = "popped" /\ hand[w] \in Handles /\ UNCHANGED <<queue, hand>>
        /\ \A v \in Workers : v # w => pc'[v] = pc[v] /\ hand'[v] = hand[v]
    BY <1>7 DEF Check, TypeOK, Active
  <2>2. CASE hand[w] \in cancelled
    <3>1. pc'[w] = "cancelled" /\ task' = task
      BY <1>7, <2>2 DEF Check, TypeOK
    <3>2. \A v \in Workers : /\ pc'[v] \in Active <=> pc[v] \in Active
                             /\ pc[v] \in Active => /\ hand'[v] = hand[v]
                                                    /\ pc'[v] = "body" <=> pc[v] = "body"
      BY <2>1, <3>1 DEF Active
    <3> QED BY <2>1, <3>1, <3>2, StillOnePlace
  <2>3. CASE hand[w] \notin cancelled
    <3>1. /\ pc'[w] = "body" /\ hand'[w] = hand[w] /\ task'[hand[w]] = "running"
          /\ \A g \in Handles : g # hand[w] => task'[g] = task[g]
      BY <1>7, <2>1, <2>3 DEF Check, TypeOK
    <3>2. pc[w] \in Active
      BY <2>1 DEF Active
    <3> QED BY <2>1, <3>1, <3>2, HandOnePlace
  <2> QED BY <2>2, <2>3
<1>8. ASSUME NEW w \in Workers, Destroy(w) PROVE OnePlace'
  <2>1. /\ pc[w] \in Active /\ hand[w] \in Handles /\ UNCHANGED queue
        /\ \A v \in Workers : v # w => pc'[v] = pc[v] /\ hand'[v] = hand[v]
        /\ pc'[w] \notin Active /\ task'[hand[w]] \in {"suspended", "gone"}
        /\ \A g \in Handles : g # hand[w] => task'[g] = task[g]
    BY <1>8 DEF Destroy, Complete, TypeOK, Active
  <2> QED BY <2>1, HandOnePlace
<1>9. ASSUME NEW w \in Workers, BodyLeaves(w) PROVE OnePlace'
  <2>0. pc[w] = "body" /\ pc[w] \in Active /\ hand[w] \in Handles /\ hand' = hand
    BY <1>9 DEF BodyLeaves, TypeOK, Active
  <2>1. CASE /\ \E s \in {"suspended", "gone"} : task' = [task EXCEPT ![hand[w]] = s]
             /\ pc' = [pc EXCEPT ![w] = "unwinding"]
             /\ UNCHANGED <<queue, next, posts>>
    <3>1. /\ \A v \in Workers : v # w => pc'[v] = pc[v] /\ hand'[v] = hand[v]
          /\ pc'[w] \notin Active /\ task'[hand[w]] \in {"suspended", "gone"}
          /\ \A g \in Handles : g # hand[w] => task'[g] = task[g]
      BY <2>0, <2>1 DEF TypeOK, Active
    <3> QED BY <2>0, <2>1, <3>1, HandOnePlace
  <2>2. CASE PostTo(hand[w], [pc EXCEPT ![w] = "unwinding"], task)
    <3>1. PICK at : at = [pc EXCEPT ![w] = "unwinding"]
      OBVIOUS
    <3>2. /\ at \in [Workers -> PCs] /\ at[w] = "unwinding"
          /\ \A v \in Workers : v # w => at[v] = pc[v]
      BY <3>1 DEF TypeOK, PCs
    <3>3. PostTo(hand[w], at, task)
      BY <2>2, <3>1
    <3>4. \A v \in Workers : pc'[v] = at[v] \/ (at[v] = "parked" /\ pc'[v] = "wait")
      BY <2>0, <3>2, <3>3, PostWakes
    <3>5. \A v \in Workers : v # w /\ pc[v] \in Active => hand[v] # hand[w]
      BY <2>0 DEF OnePlace, HandsOK
    <3>6. /\ pc'[w] = "unwinding"
          /\ \A v \in Workers : v # w => pc'[v] = pc[v] \/ (pc[v] = "parked" /\ pc'[v] = "wait")
      BY <3>2, <3>4
    <3>7. \A v \in Workers : pc'[v] \in Active => pc[v] \in Active /\ hand[v] # hand[w]
      BY <3>5, <3>6 DEF Active
    <3>8. \A v \in Workers : pc[v] \in Active /\ hand[v] # hand[w] => pc'[v] = pc[v] /\ hand'[v] = hand[v]
      BY <2>0, <3>6 DEF Active
    <3>9. hand[w] \notin Waiting
      BY <2>0 DEF OnePlace, TasksOK, Waiting, Hands
    <3> QED BY <2>0, <3>3, <3>7, <3>8, <3>9, PostOnePlace
  <2> QED BY <1>9, <2>1, <2>2 DEF BodyLeaves
<1>10. CASE DtorBegin \/ Dtor
  <2>1. /\ UNCHANGED <<queue, task, hand>>
        /\ \A w \in Workers : pc'[w] = pc[w] \/ (pc[w] = "parked" /\ pc'[w] = "wait")
    BY <1>10 DEF DtorBegin, Dtor, DtorSet, DtorNotify, DtorJoin, TypeOK
  <2>2. \A v \in Workers : /\ pc'[v] \in Active <=> pc[v] \in Active
                           /\ pc[v] \in Active => /\ hand'[v] = hand[v]
                                                  /\ pc'[v] = "body" <=> pc[v] = "body"
    BY <2>1 DEF Active
  <2> QED BY <2>1, <2>2, StillOnePlace
<1> QED BY <1>1, <1>2, <1>3, <1>4, <1>5, <1>6, <1>7, <1>8, <1>9, <1>10 DEF Next, Run

-----------------------------------------------------------------------------
(* What the destructor waits for.                                          *)

DtorOK ==
  /\ dtor \in {DtorAlive, DtorDone} \cup ({"set", "notify", "join"} \X Workers)
  /\ dtor = DtorAlive => \A w \in Workers : ~done[w]
  /\ \A w \in Workers : pc[w] = "exited" => done[w]
  /\ \A w \in Workers : dtor = DtorDone \/ w < dtor[2] => pc[w] = "exited"
  /\ \A h \in owed :
       \E w \in Workers : pc[w] # "exited" /\ \E i \in 1..Len(queue[w]) : queue[w][i] = h

\* A worker leaves once, with its queue empty, when it has been told to.
LEMMA LeavesOnce ==
  ASSUME TypeOK, [Next]_vars
  PROVE  \A w \in Workers :
           /\ pc[w] = "exited" => pc'[w] = "exited"
           /\ pc'[w] = "exited" => pc[w] = "exited" \/ (done[w] /\ queue[w] = <<>>)
<1> SUFFICES ASSUME NEW w \in Workers
             PROVE  /\ pc[w] = "exited" => pc'[w] = "exited"
                    /\ pc'[w] = "exited" => pc[w] = "exited" \/ (done[w] /\ queue[w] = <<>>)
  OBVIOUS
<1>1. CASE UNCHANGED vars
  BY <1>1 DEF vars
<1>2. ASSUME NEW h \in Handles, Post(h)
      PROVE  pc'[w] = pc[w] \/ (pc[w] = "parked" /\ pc'[w] = "wait")
  BY <1>2, PostWakes DEF Post, TypeOK
<1>3. ASSUME NEW v \in Workers, Run(v) \/ SpuriousWake(v)
      PROVE  \/ pc'[w] = pc[w]
             \/ pc[w] # "exited" /\ pc'[w] # "exited"
             \/ pc[w] = "wait" /\ done[w] /\ queue[w] = <<>>
  BY <1>3 DEF Run, SpuriousWake, CountIdle, Park, Pop, Exit, Check, Destroy, CleanUp, Complete, TypeOK
<1>4. ASSUME NEW v \in Workers, BodyLeaves(v)
      PROVE  pc'[w] = pc[w] \/ (pc[w] # "exited" /\ pc'[w] # "exited")
  <2>1. pc[v] = "body" /\ hand[v] \in Handles
    BY <1>4 DEF BodyLeaves, TypeOK, Active
  <2>2. PICK at : at = [pc EXCEPT ![v] = "unwinding"]
    OBVIOUS
  <2>3. /\ at \in [Workers -> PCs] /\ at[v] = "unwinding"
        /\ \A u \in Workers : u # v => at[u] = pc[u]
    BY <2>2 DEF TypeOK, PCs
  <2>4. pc' = at \/ PostTo(hand[v], at, task)
    BY <1>4, <2>2 DEF BodyLeaves
  <2>5. pc'[w] = at[w] \/ (at[w] = "parked" /\ pc'[w] = "wait")
    BY <2>1, <2>3, <2>4, PostWakes
  <2> QED BY <2>1, <2>3, <2>5
<1>5. CASE DtorBegin \/ Dtor \/ \E h \in Handles : Cancel(h) \/ Reuse(h)
  BY <1>5 DEF DtorBegin, Dtor, DtorSet, DtorNotify, DtorJoin, Cancel, Reuse, TypeOK
<1> QED BY <1>1, <1>2, <1>3, <1>4, <1>5 DEF Next

\* An owed handle stays in its queue until a worker pops it.
LEMMA OwedStays ==
  ASSUME TypeOK, [Next]_vars, ~DtorBegin, NEW h \in owed', NEW w \in Workers,
         NEW i \in 1..Len(queue[w]), queue[w][i] = h
  PROVE  h \in owed /\ \E j \in 1..Len(queue'[w]) : queue'[w][j] = h
<1>1. CASE queue' = queue /\ owed' = owed
  BY <1>1
<1>2. ASSUME NEW g \in Handles, NEW at, NEW t, PostTo(g, at, t), owed' = owed
      PROVE  h \in owed /\ \E j \in 1..Len(queue'[w]) : queue'[w][j] = h
  BY <1>2, Appended
<1>3. ASSUME NEW v \in Workers, Pop(v)
      PROVE  h \in owed /\ \E j \in 1..Len(queue'[w]) : queue'[w][j] = h
  <2>1. h \in owed /\ h # queue[v][1]
    BY <1>3, PopTakes DEF Pop
  <2>2. CASE w # v
    BY <1>3, <2>1, <2>2, PopTakes
  <2>3. CASE w = v
    <3>1. /\ Len(queue[w]) \in Nat \ {0} /\ Len(queue'[w]) = Len(queue[w]) - 1
          /\ \A j \in 1..(Len(queue[w]) - 1) : queue'[w][j] = queue[w][j + 1]
      BY <1>3, <2>3, PopTakes
    <3>2. i # 1
      BY <2>1, <2>3
    <3>3. i - 1 \in 1..Len(queue'[w]) /\ i - 1 \in 1..(Len(queue[w]) - 1) /\ (i - 1) + 1 = i
      BY <3>1, <3>2
    <3>4. queue'[w][i - 1] = h
      BY <3>1, <3>3
    <3> QED BY <2>1, <3>3, <3>4
  <2> QED BY <2>2, <2>3
<1>4. ASSUME NEW g \in Handles, Post(g) \/ Cancel(g) \/ Reuse(g)
      PROVE  h \in owed /\ \E j \in 1..Len(queue'[w]) : queue'[w][j] = h
  <2>1. CASE Post(g)
    BY <1>2, <2>1 DEF Post
  <2>2. CASE Cancel(g) \/ Reuse(g)
    BY <1>1, <2>2 DEF Cancel, Reuse
  <2> QED BY <1>4, <2>1, <2>2
<1>5. ASSUME NEW v \in Workers, Run(v) \/ SpuriousWake(v)
      PROVE  (queue' = queue /\ owed' = owed) \/ Pop(v)
  BY <1>5 DEF Run, SpuriousWake, CountIdle, Park, Exit, Check, Destroy, CleanUp, Complete
<1>6. ASSUME NEW v \in Workers, BodyLeaves(v)
      PROVE  h \in owed /\ \E j \in 1..Len(queue'[w]) : queue'[w][j] = h
  <2>1. hand[v] \in Handles /\ owed' = owed
    BY <1>6 DEF BodyLeaves, TypeOK, Active
  <2>2. queue' = queue \/ PostTo(hand[v], [pc EXCEPT ![v] = "unwinding"], task)
    BY <1>6 DEF BodyLeaves
  <2> QED BY <1>1, <1>2, <2>1, <2>2
<1>7. CASE UNCHANGED vars \/ Dtor
  BY <1>1, <1>7 DEF vars, Dtor, DtorSet, DtorNotify, DtorJoin
<1> QED BY <1>1, <1>3, <1>4, <1>5, <1>6, <1>7 DEF Next

LEMMA InitDtor == Init => DtorOK
BY DEF Init, DtorOK, DtorAlive, DtorDone

LEMMA NextDtor == TypeOK /\ OnePlace /\ DtorOK /\ [Next]_vars => DtorOK'
<1> SUFFICES ASSUME TypeOK, OnePlace, DtorOK, [Next]_vars PROVE DtorOK'
  OBVIOUS
<1>0. /\ \A w \in Workers : pc[w] = "exited" => pc'[w] = "exited"
      /\ \A w \in Workers : pc'[w] = "exited" => pc[w] = "exited" \/ (done[w] /\ queue[w] = <<>>)
  BY LeavesOnce
<1>1. CASE DtorBegin
  <2>1. /\ dtor = DtorAlive /\ dtor' = <<"set", 1>> /\ UNCHANGED <<done, pc, queue>>
        /\ \A h \in owed' : h \in Handles /\ task[h] = "queued" /\ \A w \in Workers : hand[w] # h
    BY <1>1 DEF DtorBegin
  <2>2. 1 \in Workers /\ \A w \in Workers : ~(w < 1)
    BY SchedulerAssumption DEF Workers
  <2>3. dtor' # DtorDone /\ dtor' # DtorAlive /\ dtor'[2] = 1
        /\ dtor' \in {DtorAlive, DtorDone} \cup ({"set", "notify", "join"} \X Workers)
    BY <2>1, <2>2 DEF DtorDone, DtorAlive
  <2>4. \A h \in owed' :
          \E w \in Workers : pc[w] # "exited" /\ \E i \in 1..Len(queue[w]) : queue[w][i] = h
    <3>1. \A h \in owed' : h \in Waiting
      BY <2>1 DEF OnePlace, TasksOK, Hands
    <3> QED BY <2>1, <3>1 DEF Waiting, DtorOK
  <2> QED BY <2>1, <2>2, <2>3, <2>4 DEF DtorOK
<1>2. CASE ~DtorBegin
  <2>1. \A h \in owed' :
          \E w \in Workers : pc'[w] # "exited" /\ \E i \in 1..Len(queue'[w]) : queue'[w][i] = h
    <3> SUFFICES ASSUME NEW h \in owed'
                 PROVE  \E w \in Workers :
                          pc'[w] # "exited" /\ \E i \in 1..Len(queue'[w]) : queue'[w][i] = h
      OBVIOUS
    <3>1. h \in owed
      BY <1>2 DEF Next, Post, Cancel, Reuse, Run, CountIdle, Park, Pop, Exit, Check, Destroy,
                  CleanUp, Complete, SpuriousWake, BodyLeaves, Dtor, DtorSet, DtorNotify,
                  DtorJoin, vars
    <3>2. PICK w \in Workers : pc[w] # "exited" /\ \E i \in 1..Len(queue[w]) : queue[w][i] = h
      BY <3>1 DEF DtorOK
    <3>3. PICK i \in 1..Len(queue[w]) : queue[w][i] = h
      BY <3>2
    <3>4. \E j \in 1..Len(queue'[w]) : queue'[w][j] = h
      BY <1>2, <3>3, OwedStays
    <3>5. queue[w] # <<>>
      BY <3>3, EmptySeq DEF TypeOK
    <3> QED BY <1>0, <3>2, <3>4, <3>5
  <2>2. CASE UNCHANGED <<dtor, done>>
    BY <1>0, <2>1, <2>2 DEF DtorOK
  <2>3. ASSUME NEW w \in Workers, DtorSet(w) PROVE DtorOK'
    <3>1. /\ dtor = <<"set", w>> /\ dtor' = <<"notify", w>> /\ pc' = pc
          /\ \A v \in Workers : done[v] => done'[v]
      BY <2>3 DEF DtorSet, TypeOK
    <3> QED BY <2>1, <3>1 DEF DtorOK, DtorAlive, DtorDone
  <2>4. ASSUME NEW w \in Workers, DtorNotify(w) PROVE DtorOK'
    <3>1. dtor = <<"notify", w>> /\ dtor' = <<"join", w>> /\ done' = done
      BY <2>4 DEF DtorNotify
    <3>2. \A v \in Workers : pc'[v] = "exited" => pc[v] = "exited"
      BY <2>4 DEF DtorNotify, TypeOK
    <3> QED BY <1>0, <2>1, <3>1, <3>2 DEF DtorOK, DtorAlive, DtorDone
  <2>5. ASSUME NEW w \in Workers, DtorJoin(w) PROVE DtorOK'
    <3>1. /\ dtor = <<"join", w>> /\ pc[w] = "exited" /\ UNCHANGED <<done, pc>>
          /\ dtor' = IF w = N THEN DtorDone ELSE <<"set", w + 1>>
      BY <2>5 DEF DtorJoin
    <3>2. \A v \in Workers : v < w \/ v = w => pc'[v] = "exited"
      BY <3>1 DEF DtorOK
    <3>3. CASE w = N
      <4>1. \A v \in Workers : v < w \/ v = w
        BY <3>3, SchedulerAssumption DEF Workers
      <4> QED BY <2>1, <3>1, <3>2, <3>3, <4>1 DEF DtorOK, DtorAlive, DtorDone
    <3>4. CASE w # N
      <4>1. w + 1 \in Workers /\ \A v \in Workers : v < w + 1 => v < w \/ v = w
        BY <3>4, SchedulerAssumption DEF Workers
      <4> QED BY <2>1, <3>1, <3>2, <3>4, <4>1 DEF DtorOK, DtorAlive, DtorDone
    <3> QED BY <3>3, <3>4
  <2>6. UNCHANGED <<dtor, done>> \/ Dtor
    BY <1>2 DEF Next, Post, Cancel, Reuse, Run, CountIdle, Park, Pop, Exit, Check, Destroy,
                CleanUp, Complete, SpuriousWake, BodyLeaves, vars
  <2> QED BY <2>2, <2>3, <2>4, <2>5, <2>6 DEF Dtor
<1> QED BY <1>1, <1>2

-----------------------------------------------------------------------------
(* No post is lost to the counters.                                        *)

Lengths == [w \in Workers |-> Len(queue[w])]

Holding == {w \in Workers : hand[w] # None}

Accounted ==
  /\ completed \in [Workers -> Nat]
  /\ posts = SumOf(completed, Workers) + SumOf(Lengths, Workers) + Cardinality(Holding)

\* The sums and the number are numbers.
LEMMA Counts ==
  ASSUME TypeOK, completed \in [Workers -> Nat]
  PROVE  /\ IsFiniteSet(Workers) /\ IsFiniteSet(Holding) /\ Cardinality(Holding) \in Nat
         /\ Numbers(completed, Workers, Int) /\ SumOf(completed, Workers) \in Nat
         /\ Numbers(Lengths, Workers, Int) /\ SumOf(Lengths, Workers) \in Nat
<1>1. IsFiniteSet(Workers)
  BY FS_Interval, SchedulerAssumption DEF Workers
<1>2. IsFiniteSet(Holding) /\ Cardinality(Holding) \in Nat
  BY <1>1, FS_Subset, FS_CardinalityType DEF Holding
<1>3. \A w \in Workers : Lengths[w] = Len(queue[w]) /\ Len(queue[w]) \in Nat
  BY DEF Lengths, TypeOK
<1>4. Numbers(completed, Workers, Nat) /\ Numbers(Lengths, Workers, Nat)
  BY <1>3 DEF Numbers
<1>5. Numbers(completed, Workers, Int) /\ Numbers(Lengths, Workers, Int)
  BY <1>4 DEF Numbers
<1> QED
  BY <1>1, <1>2, <1>4, <1>5, SumIsNat

\* A queue that changes its length by d changes the sum of the lengths by d.
LEMMA QueueChanges ==
  ASSUME TypeOK, completed \in [Workers -> Nat], NEW w \in Workers, NEW d \in Int,
         Len(queue'[w]) = Len(queue[w]) + d, \A v \in Workers : v # w => queue'[v] = queue[v]
  PROVE  SumOf(Lengths', Workers) = SumOf(Lengths, Workers) + d
<1>1. Lengths'[w] = Lengths[w] + d /\ \A v \in Workers \ {w} : Lengths'[v] = Lengths[v]
  BY DEF Lengths
<1> QED
  BY <1>1, Counts, SumChanges

LEMMA PostCounts ==
  ASSUME TypeOK, Accounted, NEW h \in Handles, NEW at, NEW t, PostTo(h, at, t),
         UNCHANGED <<completed, hand>>
  PROVE  Accounted'
<1>1. PICK w \in Workers : /\ queue'[w] = Append(queue[w], h) /\ queue[w] \in Seq(Handles)
                           /\ \A v \in Workers : v # w => queue'[v] = queue[v]
  BY PostAppends DEF TypeOK
<1>2. Len(queue'[w]) = Len(queue[w]) + 1
  BY <1>1, AppendProperties
<1>3. SumOf(Lengths', Workers) = SumOf(Lengths, Workers) + 1
  BY <1>1, <1>2, QueueChanges DEF Accounted
<1>4. posts' = posts + 1 /\ Holding' = Holding
  BY DEF PostTo, Holding
<1> QED
  BY <1>3, <1>4, Counts DEF Accounted

LEMMA PopCounts ==
  ASSUME TypeOK, Accounted, NEW w \in Workers, Pop(w)
  PROVE  Accounted'
<1>1. /\ Len(queue'[w]) = Len(queue[w]) - 1 /\ Len(queue[w]) \in Nat
      /\ \A v \in Workers : v # w => queue'[v] = queue[v]
      /\ Head(queue[w]) # None
  BY PopTakes
<1>2. SumOf(Lengths', Workers) = SumOf(Lengths, Workers) + (-1)
  BY <1>1, QueueChanges, SMTT(30) DEF Accounted
<1>3. w \notin Holding /\ Holding' = Holding \cup {w} /\ UNCHANGED <<posts, completed>>
  BY <1>1 DEF Pop, Holding, TypeOK, Active
<1>4. Cardinality(Holding') = Cardinality(Holding) + 1
  BY <1>3, Counts, FS_AddElement DEF Accounted
<1> QED
  BY <1>2, <1>3, <1>4, Counts DEF Accounted

LEMMA CompleteCounts ==
  ASSUME TypeOK, Accounted, NEW w \in Workers, pc[w] \in {"cancelled", "unwinding"}, Complete(w)
  PROVE  Accounted'
<1>1. /\ completed' \in [Workers -> Nat] /\ completed'[w] = completed[w] + 1
      /\ \A v \in Workers \ {w} : completed'[v] = completed[v]
  BY DEF Accounted, Complete
<1>2. SumOf(completed', Workers) = SumOf(completed, Workers) + 1
  <2>1. IsFiniteSet(Workers) /\ Numbers(completed, Workers, Int) /\ 1 \in Int
    BY Counts DEF Accounted
  <2> QED
    BY <1>1, <2>1, SumChanges
<1>3. w \in Holding /\ Holding' = Holding \ {w} /\ UNCHANGED <<posts, queue>>
  BY DEF Complete, Holding, TypeOK, Active
<1>4. Cardinality(Holding') = Cardinality(Holding) - 1
  BY <1>3, Counts, FS_RemoveElement DEF Accounted
<1>5. Lengths' = Lengths
  BY <1>3 DEF Lengths
<1> QED
  BY <1>1, <1>2, <1>3, <1>4, <1>5, Counts DEF Accounted

LEMMA InitAccounted == Init => Accounted
<1> SUFFICES ASSUME Init PROVE Accounted
  OBVIOUS
<1>1. IsFiniteSet(Workers)
  BY FS_Interval, SchedulerAssumption DEF Workers
<1>2. completed \in [Workers -> Nat] /\ \A w \in Workers : completed[w] = 0 /\ Lengths[w] = 0
  BY DEF Init, Lengths
<1>3. SumOf(completed, Workers) = 0 /\ SumOf(Lengths, Workers) = 0
  BY <1>1, <1>2, SumOfZeros
<1>4. Cardinality(Holding) = 0
  BY FS_EmptySet DEF Init, Holding
<1> QED
  BY <1>2, <1>3, <1>4 DEF Accounted, Init

LEMMA NextAccounted == TypeOK /\ Accounted /\ [Next]_vars => Accounted'
<1> SUFFICES ASSUME TypeOK, Accounted, [Next]_vars PROVE Accounted'
  OBVIOUS
<1>1. CASE UNCHANGED <<queue, hand, completed, posts>>
  BY <1>1 DEF Accounted, Lengths, Holding
<1>2. ASSUME NEW h \in Handles, Post(h) PROVE Accounted'
  BY <1>2, PostCounts DEF Post
<1>3. ASSUME NEW w \in Workers, Pop(w) PROVE Accounted'
  BY <1>3, PopCounts
<1>4. ASSUME NEW w \in Workers, Destroy(w) \/ CleanUp(w) PROVE Accounted'
  BY <1>4, CompleteCounts DEF Destroy, CleanUp
<1>5. ASSUME NEW w \in Workers, BodyLeaves(w) PROVE Accounted'
  <2>1. hand[w] \in Handles /\ UNCHANGED <<completed, hand>>
    BY <1>5 DEF BodyLeaves, TypeOK, Active
  <2>2. UNCHANGED <<queue, posts>> \/ PostTo(hand[w], [pc EXCEPT ![w] = "unwinding"], task)
    BY <1>5 DEF BodyLeaves
  <2> QED
    BY <1>1, <2>1, <2>2, PostCounts
<1>6. ASSUME NEW h \in Handles, Cancel(h) \/ Reuse(h) PROVE Accounted'
  BY <1>1, <1>6 DEF Cancel, Reuse
<1>7. ASSUME NEW w \in Workers,
             CountIdle(w) \/ Park(w) \/ Exit(w) \/ Check(w) \/ SpuriousWake(w)
      PROVE  Accounted'
  BY <1>1, <1>7 DEF CountIdle, Park, Exit, Check, SpuriousWake
<1>8. CASE DtorBegin \/ Dtor \/ UNCHANGED vars
  BY <1>1, <1>8 DEF DtorBegin, Dtor, DtorSet, DtorNotify, DtorJoin, vars
<1> QED
  BY <1>2, <1>3, <1>4, <1>5, <1>6, <1>7, <1>8 DEF Next, Run

-----------------------------------------------------------------------------
(* Theorems.                                                               *)

IInv == TypeOK /\ AloneOK /\ OnePlace /\ DtorOK /\ Accounted

\* The inductive invariant holds: see its parts above.
LEMMA Invariance == Spec => []IInv
<1>1. Init => IInv
  BY InitType, InitOnePlace, InitDtor, InitAccounted DEF IInv, AloneOK, Init
<1>2. IInv /\ [Next]_vars => IInv'
  BY NextType, NextAlone, NextOnePlace, NextDtor, NextAccounted DEF IInv
<1> QED BY <1>1, <1>2, PTL DEF Spec

\* With any number of workers, a handle cancelled while it is queued and no worker
\* has it in hand is never resumed: run() always finds the flag before resume().
THEOREM CancelIsKept == Spec => []CancelledIsNotResumed
<1>1. IInv => CancelledIsNotResumed
  BY DEF IInv, AloneOK, CancelledIsNotResumed
<1> QED BY <1>1, Invariance, PTL

\* With any number of workers, ~Scheduler returns only when every handle queued
\* when it began has been popped.
THEOREM DestructionDrains == Spec => []DtorDrains
<1>1. IInv => DtorDrains
  BY DEF IInv, DtorOK, DtorDrains
<1> QED BY <1>1, Invariance, PTL

\* With any number of workers, a posted handle is queued once or run by one worker:
\* no coroutine is resumed by two workers at once.
THEOREM NobodyRunsTwice == Spec => []PostedOnce
<1>1. IInv => PostedOnce
  <2> SUFFICES ASSUME IInv, NEW h \in Handles
               PROVE  Occurrences(h)
                        + Cardinality({w \in Workers : hand[w] = h /\ pc[w] # "unwinding"})
                      = IF task[h] \in {"queued", "running"} THEN 1 ELSE 0
    BY DEF PostedOnce
  <2> DEFINE places == {place \in Workers \X (1..MaxPosts) :
                          /\ place[2] \in DOMAIN queue[place[1]]
                          /\ queue[place[1]][place[2]] = h}
             holders == {w \in Workers : hand[w] = h /\ pc[w] # "unwinding"}
  <2>1. \A w \in Workers : w \in holders <=> hand[w] = h /\ pc[w] \in Active
    BY SchedulerAssumption DEF IInv, TypeOK, Active
  <2>2. \A w \in Workers : DOMAIN queue[w] = 1..Len(queue[w]) /\ 1..Len(queue[w]) \subseteq 1..MaxPosts
    <3>1. \A w \in Workers : /\ DOMAIN queue[w] = 1..Len(queue[w])
                             /\ Len(queue[w]) \in Nat /\ Len(queue[w]) <= posts
      BY DEF IInv, TypeOK
    <3>2. posts \in Nat /\ MaxPosts \in Nat /\ posts <= MaxPosts
      BY SchedulerAssumption DEF IInv, TypeOK
    <3> QED BY <3>1, <3>2
  <2>3. CASE h \in Waiting
    <3>0. PICK w \in Workers : \E i \in 1..Len(queue[w]) : queue[w][i] = h
      BY <2>3 DEF Waiting
    <3>1. PICK i \in 1..Len(queue[w]) : queue[w][i] = h
      BY <3>0
    <3>2. task[h] = "queued" /\ h \notin Hands
      BY <3>1 DEF IInv, OnePlace, TasksOK
    <3>3. places = {<<w, i>>}
      <4>1. <<w, i>> \in places
        BY <2>2, <3>1
      <4>2. ASSUME NEW p \in places PROVE p = <<w, i>>
        <5>1. /\ p[1] \in Workers /\ p[2] \in 1..Len(queue[p[1]])
              /\ queue[p[1]][p[2]] = queue[w][i] /\ p = <<p[1], p[2]>>
          BY <2>2, <3>1
        <5>2. p[1] = w /\ p[2] = i
          BY <5>1 DEF IInv, OnePlace, QueuesOK
        <5> QED BY <5>1, <5>2
      <4> QED BY <4>1, <4>2
    <3>4. holders = {}
      BY <2>1, <3>2 DEF Hands
    <3>5. Cardinality(places) = 1 /\ Cardinality(holders) = 0
      BY <3>3, <3>4, FS_EmptySet, FS_Singleton
    <3> QED BY <3>2, <3>5 DEF Occurrences
  <2>4. CASE h \in Hands
    <3>1. PICK w \in Workers : hand[w] = h /\ pc[w] \in Active
      BY <2>4 DEF Hands
    <3>2. task[h] \in {"queued", "running"}
      BY <3>1 DEF IInv, OnePlace, TasksOK
    <3>3. places = {}
      <4>1. \A v \in Workers : \A i \in 1..Len(queue[v]) : queue[v][i] # h
        BY <2>4 DEF IInv, OnePlace, TasksOK
      <4> QED BY <2>2, <4>1
    <3>4. holders = {w}
      BY <2>1, <3>1 DEF IInv, OnePlace, HandsOK
    <3>5. Cardinality(places) = 0 /\ Cardinality(holders) = 1
      BY <3>3, <3>4, FS_EmptySet, FS_Singleton
    <3> QED BY <3>2, <3>5 DEF Occurrences
  <2>5. CASE h \notin Waiting /\ h \notin Hands
    <3>1. task[h] \notin {"queued", "running"}
      BY <2>5 DEF IInv, OnePlace, TasksOK
    <3>2. places = {} /\ holders = {}
      BY <2>1, <2>2, <2>5 DEF Waiting, Hands
    <3>3. Cardinality(places) = 0 /\ Cardinality(holders) = 0
      BY <3>2, FS_EmptySet
    <3> QED BY <3>1, <3>3 DEF Occurrences
  <2> QED BY <2>3, <2>4, <2>5
<1> QED BY <1>1, Invariance, PTL

\* With any number of workers, what was posted has been completed, is queued or is in hand:
\* the counters lose no post, cancelled handles and those left with an exited worker included.
THEOREM NoPostIsLost == Spec => []EveryPostAccounted
<1>1. IInv => EveryPostAccounted
  <2>1. /\ SumOver(completed) = SumOf(completed, Workers)
        /\ SumOver([w \in Workers |-> Len(queue[w])]) = SumOf(Lengths, Workers)
    BY DEF SumOver, MapThenSumSet, MapThenFoldSet, SumOf, Added, First, Lengths
  <2> QED
    BY <2>1 DEF IInv, Accounted, EveryPostAccounted, Holding
<1> QED BY <1>1, Invariance, PTL
=============================================================================

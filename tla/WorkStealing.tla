----------------------------- MODULE WorkStealing -----------------------------
(***************************************************************************)
(* neuro::sched::ws::Scheduler (src/include/neuro/sched/work_stealing.hpp, *)
(* src/src/sched/work_stealing.cpp): workers that take coroutines off one  *)
(* injector, the coroutines, which may post others while they run, and the *)
(* owner, who starts the workers one by one in the constructor and stops   *)
(* them.  Coroutines are numbered as they are posted, each of them once.   *)
(***************************************************************************)
EXTENDS Naturals, Sequences, FiniteSets

CONSTANTS
  Workers,       \* 1..n
  MaxPosts       \* bound: coroutines posted

VARIABLES
  global,      \* global_
  stop,        \* done_
  worker,      \* of each worker: unborn, loop, get, resume or exited
  hand,        \* of each worker: the coroutine it has, 0 for none
  joined,      \* how many workers stop_all has joined
  posts,       \* history: how many were posted
  ran          \* history: the coroutines resumed, in the order they were taken

vars == <<global, stop, worker, hand, joined, posts, ran>>

Init ==
  /\ global = << >>
  /\ stop = FALSE
  /\ worker = [w \in Workers |-> "unborn"]
  /\ hand = [w \in Workers |-> 0]
  /\ joined = 0 /\ posts = 0
  /\ ran = << >>

Go(w, from, to) == worker[w] = from /\ worker' = [worker EXCEPT ![w] = to]

Born == {w \in Workers : worker[w] # "unborn"}

\* The constructor: workers run before the last of them is made.
Spawn ==
  /\ Cardinality(Born) < Cardinality(Workers)
  /\ Go(Cardinality(Born) + 1, "unborn", "loop")
  /\ UNCHANGED <<global, stop, hand, joined, posts, ran>>

Post ==
  /\ posts < MaxPosts
  /\ posts' = posts + 1
  /\ global' = Append(global, posts')
  /\ UNCHANGED <<stop, worker, hand, joined, ran>>

\* By the owner once it is constructed, or by a coroutine at any time.
PostFromOutside == Born = Workers /\ Post
PostFromCoroutine == (\E w \in Workers : worker[w] = "resume") /\ Post

CheckStop(w) ==
  /\ Go(w, "loop", IF stop THEN "exited" ELSE "get")
  /\ UNCHANGED <<global, stop, hand, joined, posts, ran>>

\* Slip: the lock is let go between front and pop_front.
TryGet_TwoSteps(w) ==
  /\ worker[w] = "get" /\ UNCHANGED <<stop, joined, posts>>
  /\ \/ global = << >> /\ Go(w, "get", "loop") /\ UNCHANGED <<global, hand, ran>>
     \/ /\ global # << >> /\ hand[w] = 0
        /\ hand' = [hand EXCEPT ![w] = Head(global)]
        /\ UNCHANGED <<global, worker, ran>>
     \/ /\ global # << >> /\ hand[w] # 0
        /\ Go(w, "get", "resume")
        /\ global' = Tail(global)
        /\ ran' = Append(ran, hand[w])
        /\ UNCHANGED hand

TryGet(w) ==
  /\ worker[w] = "get" /\ UNCHANGED <<stop, joined, posts>>
  /\ \/ global = << >> /\ Go(w, "get", "loop") /\ UNCHANGED <<global, hand, ran>>
     \/ /\ global # << >>
        /\ Go(w, "get", "resume")
        /\ hand' = [hand EXCEPT ![w] = Head(global)]
        /\ ran' = Append(ran, Head(global))
        /\ global' = Tail(global)

Resumed(w) ==
  /\ Go(w, "resume", "loop")
  /\ hand' = [hand EXCEPT ![w] = 0]
  /\ UNCHANGED <<global, stop, joined, posts, ran>>

StopAll ==
  /\ Born = Workers
  /\ stop' = TRUE
  /\ UNCHANGED <<global, worker, hand, joined, posts, ran>>

\* stop_all joins the workers in order; again, when it is called again.
JoinNext ==
  /\ stop /\ joined < Cardinality(Workers)
  /\ worker[joined + 1] = "exited"
  /\ joined' = joined + 1
  /\ UNCHANGED <<global, stop, worker, hand, posts, ran>>

Next ==
  \/ Spawn \/ PostFromOutside \/ PostFromCoroutine \/ StopAll \/ JoinNext
  \/ \E w \in Workers : CheckStop(w) \/ TryGet(w) \/ Resumed(w)

Spec == Init /\ [][Next]_vars

-----------------------------------------------------------------------------
\* Every coroutine posted is taken once, in the order of the posts, or is still queued,
\* those posted during the shutdown and by the last to run included; once stop_all has
\* returned none is running.
TakenOnceInOrder ==
  /\ ran \o global = [i \in 1..posts |-> i]
  /\ joined = Cardinality(Workers) => \A w \in Workers : hand[w] = 0
=============================================================================

------------------------------ MODULE Scheduler ------------------------------
(***************************************************************************)
(* neuro::sched::Scheduler and its Workers (src/include/neuro/sched/       *)
(* scheduler.hpp): coroutine handles posted round-robin to one queue per   *)
(* worker, a global set of cancelled handles, and the destructor that stops*)
(* and joins the workers one after the other.                              *)
(*                                                                         *)
(* A handle is an address.  When its coroutine is gone the address may be  *)
(* that of a new one.  The mutex of a worker and that of the cancel set are*)
(* each held for one step; what a worker does between two of them is a     *)
(* step of its own.                                                        *)
(***************************************************************************)
EXTENDS Naturals, Sequences, FiniteSets, FiniteSetsExt

CONSTANTS
  N,          \* number of workers, at least 1: the constructor turns 0 into 1
  Handles,    \* coroutine handles
  None,       \* not a handle
  MaxPosts    \* bound: posts in a behaviour

ASSUME SchedulerAssumption ==
  /\ N \in Nat \ {0}
  /\ MaxPosts \in Nat
  /\ None \notin Handles

Workers == 1..N

VARIABLES
  queue,      \* Worker::queue_
  done,       \* Worker::done_
  pc,         \* where each worker is in run()
  hand,       \* the handle a worker has popped, or None
  idle, busy, completed,    \* Worker's counters
  next,       \* Scheduler::next_ modulo N
  cancelled,  \* Scheduler::cancelled_
  task,       \* what the coroutine of each handle is doing
  dtor,       \* where ~Scheduler is: <<step, worker>>
  posts,      \* history: how many posts there have been
  told,       \* history: handles of which cancel() has said, while they were
              \* queued, that the cancellation is in effect
  alone,      \* history: those of them no worker was still unwinding then
  owed        \* history: handles queued when ~Scheduler began, not yet popped

vars == <<queue, done, pc, hand, idle, busy, completed, next, cancelled, task, dtor,
          posts, told, alone, owed>>

PCs == {"loop",        \* top of run(): idle_ not yet counted
        "wait",        \* about to lock and evaluate the predicate
        "parked",      \* in cv_.wait
        "popped",      \* handle popped and unlocked, cancel set not yet looked at
        "cancelled",   \* found cancelled, to be cleared and destroyed
        "body",        \* inside h.resume(), the coroutine running
        "unwinding",   \* the coroutine has suspended or ended, flag not yet cleared
        "exited"}

TaskStates == {"new", "queued", "running", "suspended", "gone"}

DtorAlive == <<"alive", 0>>
DtorDone == <<"done", 0>>

Init ==
  /\ queue = [w \in Workers |-> <<>>]
  /\ done = [w \in Workers |-> FALSE]
  /\ pc = [w \in Workers |-> "loop"]
  /\ hand = [w \in Workers |-> None]
  /\ idle = [w \in Workers |-> 0]
  /\ busy = [w \in Workers |-> 0]
  /\ completed = [w \in Workers |-> 0]
  /\ next = 0
  /\ cancelled = {}
  /\ task = [h \in Handles |-> "new"]
  /\ dtor = DtorAlive
  /\ posts = 0
  /\ told = {} /\ alone = {} /\ owed = {}

-----------------------------------------------------------------------------
(* post and cancel.                                                        *)

\* Slip: post does not notify.
PostTo_Silent(h, at, t) ==
  LET w == 1 + next IN
    /\ posts < MaxPosts
    /\ posts' = posts + 1
    /\ next' = (next + 1) % N
    /\ queue' = [queue EXCEPT ![w] = Append(@, h)]
    /\ pc' = at
    /\ task' = [t EXCEPT ![h] = "queued"]

\* The worker whose turn it is gets the handle, even when it has exited, and is
\* notified if it is parked.  `at` is where the other workers are, `t` the tasks.
PostTo(h, at, t) ==
  LET w == 1 + next IN
    /\ posts < MaxPosts
    /\ posts' = posts + 1
    /\ next' = (next + 1) % N
    /\ queue' = [queue EXCEPT ![w] = Append(@, h)]
    /\ pc' = IF at[w] = "parked" THEN [at EXCEPT ![w] = "wait"] ELSE at
    /\ task' = [t EXCEPT ![h] = "queued"]

\* A handle is posted by whoever owns its suspended coroutine: a thread as long as
\* the scheduler lives, a running coroutine at any time.
Post(h) ==
  /\ task[h] \in {"new", "suspended"}
  /\ dtor = DtorAlive \/ \E w \in Workers : pc[w] = "body"
  /\ PostTo(h, pc, task)
  /\ UNCHANGED <<done, hand, idle, busy, completed, cancelled, dtor, told, alone, owed>>

\* cancel() takes any address, at any time.
Cancel(h) ==
  /\ dtor = DtorAlive \/ \E w \in Workers : pc[w] = "body"
  /\ cancelled' = cancelled \cup {h}
  /\ told' = IF task[h] = "queued" THEN told \cup {h} ELSE told
  /\ alone' = IF task[h] = "queued" /\ \A w \in Workers : hand[w] # h
              THEN alone \cup {h} ELSE alone
  /\ UNCHANGED <<queue, done, pc, hand, idle, busy, completed, next, task, dtor, posts, owed>>

\* A new coroutine is allocated where a former one was.
Reuse(h) ==
  /\ task[h] = "gone"
  /\ task' = [task EXCEPT ![h] = "new"]
  /\ UNCHANGED <<queue, done, pc, hand, idle, busy, completed, next, cancelled, dtor,
                 posts, told, alone, owed>>

-----------------------------------------------------------------------------
(* Worker::run.                                                            *)

CountIdle(w) ==
  /\ pc[w] = "loop"
  /\ idle' = [idle EXCEPT ![w] = @ + 1]
  /\ pc' = [pc EXCEPT ![w] = "wait"]
  /\ UNCHANGED <<queue, done, hand, busy, completed, next, cancelled, task, dtor, posts,
                 told, alone, owed>>

Park(w) ==
  /\ pc[w] = "wait"
  /\ queue[w] = <<>> /\ ~done[w]
  /\ pc' = [pc EXCEPT ![w] = "parked"]
  /\ UNCHANGED <<queue, done, hand, idle, busy, completed, next, cancelled, task, dtor,
                 posts, told, alone, owed>>

SpuriousWake(w) ==
  /\ pc[w] = "parked"
  /\ pc' = [pc EXCEPT ![w] = "wait"]
  /\ UNCHANGED <<queue, done, hand, idle, busy, completed, next, cancelled, task, dtor,
                 posts, told, alone, owed>>

\* Slip: the handle is not popped.
Pop_Peeks(w) ==
  /\ pc[w] = "wait"
  /\ queue[w] # <<>>
  /\ idle' = [idle EXCEPT ![w] = @ - 1]
  /\ hand' = [hand EXCEPT ![w] = Head(queue[w])]
  /\ owed' = owed \ {Head(queue[w])}
  /\ pc' = [pc EXCEPT ![w] = "popped"]
  /\ UNCHANGED <<queue, done, busy, completed, next, cancelled, task, dtor, posts, told, alone>>

Pop(w) ==
  /\ pc[w] = "wait"
  /\ queue[w] # <<>>
  /\ idle' = [idle EXCEPT ![w] = @ - 1]
  /\ hand' = [hand EXCEPT ![w] = Head(queue[w])]
  /\ queue' = [queue EXCEPT ![w] = Tail(@)]
  /\ owed' = owed \ {Head(queue[w])}
  /\ pc' = [pc EXCEPT ![w] = "popped"]
  /\ UNCHANGED <<done, busy, completed, next, cancelled, task, dtor, posts, told, alone>>

\* Slip: a stopped worker leaves its queue.
Exit_Undrained(w) ==
  /\ pc[w] = "wait"
  /\ done[w]
  /\ idle' = [idle EXCEPT ![w] = @ - 1]
  /\ pc' = [pc EXCEPT ![w] = "exited"]
  /\ UNCHANGED <<queue, done, hand, busy, completed, next, cancelled, task, dtor, posts,
                 told, alone, owed>>

\* Stopped, and the queue drained.
Exit(w) ==
  /\ pc[w] = "wait"
  /\ done[w] /\ queue[w] = <<>>
  /\ idle' = [idle EXCEPT ![w] = @ - 1]
  /\ pc' = [pc EXCEPT ![w] = "exited"]
  /\ UNCHANGED <<queue, done, hand, busy, completed, next, cancelled, task, dtor, posts,
                 told, alone, owed>>

\* is_cancelled, then the coroutine is resumed or not.
Check(w) ==
  /\ pc[w] = "popped"
  /\ busy' = [busy EXCEPT ![w] = @ + 1]
  /\ IF hand[w] \in cancelled
     THEN /\ pc' = [pc EXCEPT ![w] = "cancelled"]
          /\ UNCHANGED task
     ELSE /\ pc' = [pc EXCEPT ![w] = "body"]
          /\ task' = [task EXCEPT ![hand[w]] = "running"]
  /\ UNCHANGED <<queue, done, hand, idle, completed, next, cancelled, dtor, posts,
                 told, alone, owed>>

\* clear_cancel, and the counters, at the end of an iteration.
Complete(w) ==
  /\ cancelled' = cancelled \ {hand[w]}
  /\ hand' = [hand EXCEPT ![w] = None]
  /\ busy' = [busy EXCEPT ![w] = @ - 1]
  /\ completed' = [completed EXCEPT ![w] = @ + 1]
  /\ pc' = [pc EXCEPT ![w] = "loop"]
  /\ UNCHANGED <<queue, done, idle, next, dtor, posts, owed>>

\* Slip: the coroutine is not destroyed but resumed after its flag was cleared.
Destroy_Resumes(w) ==
  /\ pc[w] = "cancelled"
  /\ cancelled' = cancelled \ {hand[w]}
  /\ task' = [task EXCEPT ![hand[w]] = "running"]
  /\ pc' = [pc EXCEPT ![w] = "body"]
  /\ UNCHANGED <<queue, done, hand, idle, busy, completed, next, dtor, posts,
                 told, alone, owed>>

\* Slip: a cancelled handle does not count as completed.
Destroy_Uncounted(w) ==
  /\ pc[w] = "cancelled"
  /\ cancelled' = cancelled \ {hand[w]}
  /\ hand' = [hand EXCEPT ![w] = None]
  /\ busy' = [busy EXCEPT ![w] = @ - 1]
  /\ pc' = [pc EXCEPT ![w] = "loop"]
  /\ task' = [task EXCEPT ![hand[w]] = "gone"]
  /\ told' = told \ {hand[w]}
  /\ alone' = alone \ {hand[w]}
  /\ UNCHANGED <<queue, done, idle, completed, next, dtor, posts, owed>>

Destroy(w) ==
  /\ pc[w] = "cancelled"
  /\ Complete(w)
  /\ task' = [task EXCEPT ![hand[w]] = "gone"]
  /\ told' = told \ {hand[w]}
  /\ alone' = alone \ {hand[w]}

CleanUp(w) ==
  /\ pc[w] = "unwinding"
  /\ Complete(w)
  /\ UNCHANGED <<task, told, alone>>

\* The coroutine gives the worker back: it ends, or suspends to be posted by
\* someone later, or posts itself (a yield), when it may already be running on
\* another worker before this one has cleaned up.
BodyLeaves(w) ==
  /\ pc[w] = "body"
  /\ LET h == hand[w] IN
       \/ /\ \E s \in {"suspended", "gone"} : task' = [task EXCEPT ![h] = s]
          /\ pc' = [pc EXCEPT ![w] = "unwinding"]
          /\ UNCHANGED <<queue, next, posts>>
       \/ PostTo(h, [pc EXCEPT ![w] = "unwinding"], task)
  /\ told' = told \ {hand[w]}
  /\ alone' = alone \ {hand[w]}
  /\ UNCHANGED <<done, hand, idle, busy, completed, cancelled, dtor, owed>>

-----------------------------------------------------------------------------
(* ~Scheduler: Worker::stop on one worker after the other.                 *)

DtorBegin ==
  /\ dtor = DtorAlive
  /\ dtor' = <<"set", 1>>
  /\ owed' = {h \in Handles : task[h] = "queued" /\ \A w \in Workers : hand[w] # h}
  /\ UNCHANGED <<queue, done, pc, hand, idle, busy, completed, next, cancelled, task,
                 posts, told, alone>>

DtorSet(w) ==
  /\ dtor = <<"set", w>>
  /\ done' = [done EXCEPT ![w] = TRUE]
  /\ dtor' = <<"notify", w>>
  /\ UNCHANGED <<queue, pc, hand, idle, busy, completed, next, cancelled, task, posts,
                 told, alone, owed>>

\* Slip: stop() does not notify.
DtorNotify_Silent(w) ==
  /\ dtor = <<"notify", w>>
  /\ dtor' = <<"join", w>>
  /\ UNCHANGED <<queue, done, pc, hand, idle, busy, completed, next, cancelled, task, posts,
                 told, alone, owed>>

DtorNotify(w) ==
  /\ dtor = <<"notify", w>>
  /\ pc' = IF pc[w] = "parked" THEN [pc EXCEPT ![w] = "wait"] ELSE pc
  /\ dtor' = <<"join", w>>
  /\ UNCHANGED <<queue, done, hand, idle, busy, completed, next, cancelled, task, posts,
                 told, alone, owed>>

DtorJoin(w) ==
  /\ dtor = <<"join", w>>
  /\ pc[w] = "exited"
  /\ dtor' = IF w = N THEN DtorDone ELSE <<"set", w + 1>>
  /\ UNCHANGED <<queue, done, pc, hand, idle, busy, completed, next, cancelled, task,
                 posts, told, alone, owed>>

-----------------------------------------------------------------------------
Run(w) ==
  CountIdle(w) \/ Park(w) \/ Pop(w) \/ Exit(w) \/ Check(w) \/ Destroy(w) \/ CleanUp(w)

Dtor == \E w \in Workers : DtorSet(w) \/ DtorNotify(w) \/ DtorJoin(w)

Next ==
  \/ \E h \in Handles : Post(h) \/ Cancel(h) \/ Reuse(h)
  \/ \E w \in Workers : Run(w) \/ SpuriousWake(w) \/ BodyLeaves(w)
  \/ DtorBegin \/ Dtor

Spec == Init /\ [][Next]_vars

\* Worker threads run, coroutine bodies do not run for ever, and the destructor
\* goes on once it has begun.
FairSpec ==
  Spec /\ \A w \in Workers : WF_vars(Run(w)) /\ WF_vars(BodyLeaves(w))
       /\ WF_vars(Dtor)

-----------------------------------------------------------------------------
(* Properties.                                                             *)

SumOver(f) == MapThenSumSet(LAMBDA w : f[w], Workers)

Occurrences(h) ==
  Cardinality({place \in Workers \X (1..MaxPosts) :
                 /\ place[2] \in DOMAIN queue[place[1]]
                 /\ queue[place[1]][place[2]] = h})

\* A posted handle waits in one queue or is handled by one worker, even when it
\* was posted again from its own body and another worker has picked it up before
\* the first is out of resume(): no coroutine ever runs on two workers at once.
PostedOnce ==
  \A h \in Handles :
    Occurrences(h) + Cardinality({w \in Workers : hand[w] = h /\ pc[w] # "unwinding"})
      = IF task[h] \in {"queued", "running"} THEN 1 ELSE 0

\* The counters lose no post: what was posted has been completed, is queued or is
\* in hand, cancelled handles and those of an exited worker included.
EveryPostAccounted ==
  posts = SumOver(completed) + SumOver([w \in Workers |-> Len(queue[w])])
            + Cardinality({w \in Workers : hand[w] # None})

\* A handle cancelled while it is queued, and no worker still has it in hand, is
\* never resumed: no post, cancel or clear_cancel of another handle undoes it.
CancelledIsNotResumed ==
  \A w \in Workers : pc[w] = "body" => hand[w] \notin alone

\* ~Scheduler returns only when every handle that was queued when it began has
\* been taken up, on whichever worker it was queued.
DtorDrains == dtor = DtorDone => owed = {}

\* As long as the scheduler lives, a posted handle is taken up: no wake-up is lost
\* between a worker's look at its queue and its wait.
PostedIsTaken ==
  \A h \in Handles : task[h] = "queued" ~> (task[h] # "queued" \/ dtor # DtorAlive)

\* ~Scheduler joins every worker and returns.
DtorReturns == dtor # DtorAlive ~> dtor = DtorDone

\* What the comment on cancel() says: once it has returned true, with the handle
\* queued, the cancellation is in effect.
CancelIsInEffect ==
  \A w \in Workers : pc[w] = "body" => hand[w] \notin told
=============================================================================

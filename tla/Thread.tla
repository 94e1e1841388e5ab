-------------------------------- MODULE Thread --------------------------------
(***************************************************************************)
(* neuro::proc::Thread (src/include/neuro/proc/thread.hpp,                 *)
(* src/src/proc/thread.cpp): one thread, the OS thread that runs it, its   *)
(* owner, who alone joins and destroys it, and others who start it, wait   *)
(* for it with join_for and wake it.  std::thread is external: joining     *)
(* waits for the body to return.                                           *)
(***************************************************************************)
EXTENDS Naturals

CONSTANTS
  Owner,
  Friends,      \* the others
  MaxCalls      \* bound: calls each actor makes

VARIABLES
  state,      \* state_
  done,       \* done_
  os,         \* os_thread_: none, joinable or joined
  body,       \* the OS thread: none, entry, locked, zombie, stored, over
  at,         \* where each actor is in its call
  ended,      \* history: who was told that the thread has ended
  starts      \* history: OS threads launched; and calls of each actor

vars == <<state, done, os, body, at, ended, starts>>

Actors == Friends \cup {Owner}

Init ==
  /\ state = "Ready"
  /\ done = FALSE
  /\ os = "none" /\ body = "none"
  /\ at = [a \in Actors |-> "out"]
  /\ ended = {}
  /\ starts = [launched |-> 0, calls |-> [a \in Actors |-> 0]]

Enter(a, to) ==
  /\ at[a] = "out" /\ starts.calls[a] < MaxCalls
  /\ at' = [at EXCEPT ![a] = to]
  /\ starts' = [starts EXCEPT !.calls[a] = @ + 1]

Go(a, from, to) == at[a] = from /\ at' = [at EXCEPT ![a] = to]

-----------------------------------------------------------------------------
(* start: the exchange publishes Running before there is an OS thread.     *)

CallStart(a) == Enter(a, "start") /\ UNCHANGED <<state, done, os, body, ended>>

Exchange(a) ==
  /\ Go(a, "start", IF state = "Ready" THEN "launch" ELSE "out")
  /\ state' = IF state = "Ready" THEN "Running" ELSE state
  /\ UNCHANGED <<done, os, body, ended, starts>>

Launch(a) ==
  /\ Go(a, "launch", "out")
  /\ os' = "joinable" /\ body' = "entry"
  /\ starts' = [starts EXCEPT !.launched = @ + 1]
  /\ UNCHANGED <<state, done, ended>>

-----------------------------------------------------------------------------
(* join and join_for: a thread that is not joinable counts as ended.       *)

\* The destructor joins too.
CallJoin ==
  /\ Enter(Owner, IF os = "joinable" THEN "join" ELSE "out")
  /\ UNCHANGED <<state, done, os, body, ended>>

Join ==
  /\ Go(Owner, "join", "out")
  /\ body = "over"
  /\ os' = "joined"
  /\ state' = "Terminated"
  /\ ended' = ended \cup {Owner}
  /\ UNCHANGED <<done, body, starts>>

CallJoinFor(a) ==
  /\ Enter(a, IF os = "joinable" THEN "poll" ELSE "out")
  /\ UNCHANGED <<state, done, os, body, ended>>

\* done_ was set, or the deadline passed and it is looked at once more.
Poll(a) ==
  /\ Go(a, "poll", "out")
  /\ ended' = IF done THEN ended \cup {a} ELSE ended
  /\ UNCHANGED <<state, done, os, body, starts>>

\* Nothing ever waits, so that there is nothing to wake.
Wake(a) ==
  /\ Enter(a, "out")
  /\ state' = IF state = "Waiting" THEN "Ready" ELSE state
  /\ UNCHANGED <<done, os, body, ended>>

-----------------------------------------------------------------------------
(* run_loop, two stores that others may see between.                       *)

EntryReturns ==
  /\ body = "entry" /\ body' = "locked"
  /\ UNCHANGED <<state, done, os, at, ended, starts>>

\* Slip: the thread is done before it is a zombie.
StoreZombie_DoneFirst ==
  /\ body = "locked" /\ body' = "zombie"
  /\ done' = TRUE
  /\ UNCHANGED <<state, os, at, ended, starts>>

StoreZombie ==
  /\ body = "locked" /\ body' = "zombie"
  /\ state' = "Zombie"
  /\ UNCHANGED <<done, os, at, ended, starts>>

StoreDone ==
  /\ body = "zombie" /\ body' = "stored"
  /\ done' = TRUE
  /\ UNCHANGED <<state, os, at, ended, starts>>

Exit ==
  /\ body = "stored" /\ body' = "over"
  /\ UNCHANGED <<state, done, os, at, ended, starts>>

Next ==
  \/ EntryReturns \/ StoreZombie \/ StoreDone \/ Exit
  \/ CallJoin \/ Join
  \/ \E a \in Actors :
       CallStart(a) \/ Exchange(a) \/ Launch(a) \/ CallJoinFor(a) \/ Poll(a) \/ Wake(a)

Spec == Init /\ [][Next]_vars

-----------------------------------------------------------------------------
\* Whoever is told that the thread has ended, having waited for it, is told the truth,
\* with the state to show for it; however many start it, one OS thread runs it.
ThreadsEnd ==
  /\ ended # {} => done
  /\ done => state \in {"Zombie", "Terminated"}
  /\ state = "Terminated" => os = "joined" /\ body = "over"
  /\ starts.launched <= 1
=============================================================================

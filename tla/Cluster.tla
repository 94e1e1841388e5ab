------------------------------- MODULE Cluster -------------------------------
(***************************************************************************)
(* neuro::fabric::HostCluster (src/src/fabric/membership.cpp): the view a  *)
(* node has of its cluster, and the callbacks that tell it changes.  Every *)
(* operation is one critical section, callbacks included.  Time is counted *)
(* in units that divide the timeouts.                                      *)
(***************************************************************************)
EXTENDS Naturals

CONSTANTS
  Others,        \* ids a peer may have
  Timeouts,      \* values of ping_timeout
  HookSets,      \* the sets of callbacks that start may be given
  MaxClock,      \* bound: the wall clock
  MaxOffset,     \* bound: the sum of the time steps
  MaxRevivals    \* bound: revivals of a peer

VARIABLES
  peers,       \* peers_, without the node itself: status, incarnation, last_seen
  self,        \* self_.status; "none" before local
  hooks,       \* cb_: which of the callbacks are set
  running,     \* running_
  timeout,     \* ping_timeout_
  offset,      \* now_offset_
  clock,       \* the steady clock
  told         \* history: of each peer, the status told last, how many revivals, and
               \*   whether any change went untold because its callback is not set

vars == <<peers, self, hooks, running, timeout, offset, clock, told>>

Statuses == {"Alive", "Suspect", "Dead", "Leaving", "Left"}

Known == DOMAIN peers

Init ==
  /\ peers = << >> /\ told = << >>
  /\ self = "none" /\ hooks = {}
  /\ running = FALSE
  /\ timeout \in Timeouts
  /\ offset = 0 /\ clock = 0

Configure(t) ==
  /\ timeout' = t
  /\ UNCHANGED <<peers, self, hooks, running, offset, clock, told>>

\* Called before the peers are known, as every caller does.
Local ==
  /\ Known = {}
  /\ self' = "Alive"
  /\ UNCHANGED <<peers, hooks, running, timeout, offset, clock, told>>

Member(s) == [status |-> s, incarnation |-> 1, seen |-> clock]

\* Also again: peers that are known already are overwritten.
Start(given, H) ==
  /\ running' = TRUE /\ hooks' = H
  /\ peers' = [p \in Known \cup DOMAIN given |->
                 IF p \in DOMAIN given THEN Member(given[p]) ELSE peers[p]]
  /\ told' = [p \in Known \cup DOMAIN given |->
                IF p \in DOMAIN given
                THEN [status |-> given[p], revivals |-> 0, missed |-> "join" \notin H] ELSE told[p]]
  /\ UNCHANGED <<self, timeout, offset, clock>>

\* The entry the node has of itself among its peers is left as it was.
Stop ==
  /\ self' = IF self # "none" /\ running /\ "leave" \in hooks THEN "Left" ELSE self
  /\ running' = FALSE
  /\ UNCHANGED <<peers, hooks, timeout, offset, clock, told>>

MayRevive(p) == p \in Known /\ peers[p].incarnation <= MaxRevivals

\* The callback for a change to each status; there is none for Leaving and Left.
Hook == [Alive |-> "revive", Suspect |-> "suspect", Dead |-> "leave"]

Tells(p, s) ==
  LET t == told[p]
      revivals == IF s = "Alive" THEN t.revivals + 1 ELSE t.revivals
  IN  [told EXCEPT ![p] =
         CASE s \notin DOMAIN Hook -> t
           [] s \in DOMAIN Hook /\ Hook[s] \in hooks ->
                [status |-> s, revivals |-> revivals, missed |-> t.missed]
           [] OTHER -> [status |-> t.status, revivals |-> t.revivals, missed |-> TRUE]]

\* Slip: the callback is left out of the path of ping.
Ping_Silent(p) ==
  /\ MayRevive(p)
  /\ LET back == peers[p].status \in {"Suspect", "Dead"} IN
       /\ peers' = [peers EXCEPT ![p] =
                      [status |-> IF back THEN "Alive" ELSE @.status, seen |-> clock,
                       incarnation |-> IF back THEN @.incarnation + 1 ELSE @.incarnation]]
  /\ UNCHANGED <<self, hooks, running, timeout, offset, clock, told>>

Ping(p) ==
  /\ MayRevive(p)
  /\ LET back == peers[p].status \in {"Suspect", "Dead"} IN
       /\ peers' = [peers EXCEPT ![p] =
                      [status |-> IF back THEN "Alive" ELSE @.status, seen |-> clock,
                       incarnation |-> IF back THEN @.incarnation + 1 ELSE @.incarnation]]
       /\ told' = IF back THEN Tells(p, "Alive") ELSE told
  /\ UNCHANGED <<self, hooks, running, timeout, offset, clock>>

\* Unlike a ping, it counts a revival only if there is a callback to tell it to.
Mark(p, s) ==
  /\ MayRevive(p)
  /\ peers[p].status # s
  /\ peers' = [peers EXCEPT ![p] =
                 [status |-> s, seen |-> @.seen,
                  incarnation |-> IF s = "Alive" /\ "revive" \in hooks THEN @.incarnation + 1
                                  ELSE @.incarnation]]
  /\ told' = Tells(p, s)
  /\ UNCHANGED <<self, hooks, running, timeout, offset, clock>>

\* The age of a peer adds all the time steps there ever were.
Age(p, dt) == clock - peers[p].seen + offset + dt

\* One level at a time: both tests are on the status of before.
Aged(p, dt) ==
  CASE peers[p].status = "Suspect" /\ Age(p, dt) >= 2 * timeout -> "Dead"
    [] peers[p].status = "Alive" /\ Age(p, dt) >= timeout -> "Suspect"
    [] OTHER -> peers[p].status

Advance(dt) ==
  /\ running
  /\ offset + dt <= MaxOffset
  /\ offset' = offset + dt
  /\ peers' = [p \in Known |-> [peers[p] EXCEPT !.status = Aged(p, dt)]]
  /\ told' = [p \in Known |->
                IF Aged(p, dt) = peers[p].status THEN told[p] ELSE Tells(p, Aged(p, dt))[p]]
  /\ UNCHANGED <<self, hooks, running, timeout, clock>>

Tick ==
  /\ clock < MaxClock
  /\ clock' = clock + 1
  /\ UNCHANGED <<peers, self, hooks, running, timeout, offset, told>>

Next ==
  \/ Local \/ Stop \/ Tick
  \/ \E t \in Timeouts : Configure(t)
  \/ \E D \in SUBSET Others, s \in {"Alive", "Suspect"}, H \in HookSets : Start([p \in D |-> s], H)
  \/ \E p \in Others : Ping(p) \/ \E s \in Statuses : Mark(p, s)
  \/ \E dt \in 0..MaxOffset : Advance(dt)

Spec == Init /\ [][Next]_vars

-----------------------------------------------------------------------------
(* Properties.                                                             *)

\* Somebody who only listens to the callbacks, with none missing for what happened to a
\* peer, can count its incarnations and knows its status, unless that is one mark gave it
\* for which there is no callback: however pings, marks and rounds of advance alternate,
\* and after it has come back from Leaving or Left too.
CallbacksTell ==
  \A p \in Known : ~told[p].missed =>
    /\ peers[p].status \in DOMAIN Hook => told[p].status = peers[p].status
    /\ peers[p].incarnation = 1 + told[p].revivals
=============================================================================

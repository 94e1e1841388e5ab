------------------------------ MODULE IrqSource ------------------------------
(***************************************************************************)
(* neuro::core::IrqSource (src/include/neuro/core/irq.hpp): fire copies    *)
(* the handlers under the mutex and calls them without it, so that others, *)
(* and the handlers themselves, attach, clear and fire meanwhile.  A       *)
(* handler is a number, that of its attach.                                *)
(***************************************************************************)
EXTENDS Naturals, Sequences

CONSTANTS
  Firers,        \* threads that fire
  MaxAttached    \* bound: handlers ever attached, and fires

VARIABLES
  handlers,    \* handlers_
  fires,       \* fires_
  left,        \* of each firer in a fire: the handlers still to call
  called,      \* history: those it has called
  began,       \* history: the handlers there were when it began
  count        \* history: handlers ever attached, and fires ever begun

vars == <<handlers, fires, left, called, began, count>>

Firing == DOMAIN left

Init ==
  /\ handlers = << >>
  /\ fires = 0
  /\ left = << >> /\ called = << >> /\ began = << >>
  /\ count = [attached |-> 0, fired |-> 0]

Attach ==
  /\ count.attached < MaxAttached
  /\ count' = [count EXCEPT !.attached = @ + 1]
  /\ handlers' = Append(handlers, count'.attached)
  /\ UNCHANGED <<fires, left, called, began>>

Clear ==
  /\ handlers' = << >>
  /\ UNCHANGED <<fires, left, called, began, count>>

With(f, t, s) == [x \in DOMAIN f \cup {t} |-> IF x = t THEN s ELSE f[x]]

Fire(t) ==
  /\ t \notin Firing /\ count.fired < MaxAttached
  /\ count' = [count EXCEPT !.fired = @ + 1]
  /\ left' = With(left, t, handlers)
  /\ began' = With(began, t, handlers)
  /\ called' = With(called, t, << >>)
  /\ UNCHANGED <<handlers, fires>>

Call(t) ==
  /\ t \in Firing /\ left[t] # << >>
  /\ called' = [called EXCEPT ![t] = Append(@, Head(left[t]))]
  /\ left' = [left EXCEPT ![t] = Tail(@)]
  /\ UNCHANGED <<handlers, fires, began, count>>

Without(f, t) == [x \in DOMAIN f \ {t} |-> f[x]]

FireReturns(t) ==
  /\ t \in Firing /\ left[t] = << >>
  /\ fires' = fires + 1
  /\ left' = Without(left, t) /\ called' = Without(called, t) /\ began' = Without(began, t)
  /\ UNCHANGED <<handlers, count>>

Next ==
  \/ Attach \/ Clear
  \/ \E t \in Firers : Fire(t) \/ Call(t) \/ FireReturns(t)

Spec == Init /\ [][Next]_vars

-----------------------------------------------------------------------------
\* Whatever is attached, cleared or fired meanwhile, a fire calls the handlers there were
\* when it began, in the order they were attached, each once.
CallsWhatItBeganWith ==
  \A t \in Firing : /\ called[t] \o left[t] = began[t]
                    /\ \A i, j \in DOMAIN called[t] : i < j => called[t][i] < called[t][j]
=============================================================================

------------------------------- MODULE Optimizer -------------------------------
(***************************************************************************)
(* neuro::learn (src/src/learn/optimizer.cpp): GradientOptimizer and       *)
(* HostOptimizer, each operation one critical section.  The learning rate  *)
(* is 1 and gradients are multiples of a number that every count of them   *)
(* divides, so that averages are exact as doubles are not.                 *)
(***************************************************************************)
EXTENDS Integers, Sequences, SequencesExt

CONSTANTS
  Start,         \* params at the beginning
  Gradients,     \* vectors observed, of any length
  Workers,       \* numbers observed of worker_count
  MaxObserved    \* bound: gradients observed

VARIABLES
  params,       \* params_
  buf, pending, \* grad_buf_, grad_count_
  last,         \* HostOptimizer::last_["worker_count"]: the value, {} if it is no number
  proposed,     \* what the last proposal of each said
  windows       \* history: the gradients observed since each proposal that stepped

vars == <<params, buf, pending, last, proposed, windows>>

Zeros == [i \in DOMAIN Start |-> 0]

Init ==
  /\ params = Start /\ buf = Zeros /\ pending = 0
  /\ last = {}
  /\ proposed = [host |-> 0, gradient |-> 0]
  /\ windows = << << >> >>

Observed == FoldLeft(LAMBDA n, w : n + Len(w), 0, windows)

\* Components past the end of either vector are passed over.
Component(g, i) == IF i \in DOMAIN g THEN g[i] ELSE 0

ObserveGradient(g) ==
  /\ Observed < MaxObserved
  /\ buf' = [i \in DOMAIN buf |-> buf[i] + Component(g, i)]
  /\ pending' = pending + 1
  /\ windows' = [windows EXCEPT ![Len(windows)] = Append(@, g)]
  /\ UNCHANGED <<params, last, proposed>>

\* Without a gradient the current value is proposed.
ProposeUnchanged ==
  /\ pending = 0
  /\ proposed' = [proposed EXCEPT !.gradient = params[1]]
  /\ UNCHANGED <<params, buf, pending, last, windows>>

\* propose, though const, takes the step.
ProposeStep ==
  /\ pending > 0
  /\ params' = [i \in DOMAIN params |-> params[i] - (buf[i] \div pending)]
  /\ buf' = Zeros /\ pending' = 0
  /\ proposed' = [proposed EXCEPT !.gradient = params'[1]]
  /\ windows' = Append(windows, << >>)
  /\ UNCHANGED last

\* A number, or what is not one.
ObserveWorkers(N) ==
  /\ last' = N
  /\ UNCHANGED <<params, buf, pending, proposed, windows>>

\* HostOptimizer::propose: without a number, 0.
HostPropose ==
  /\ proposed' = [proposed EXCEPT !.host = IF last = {} THEN 0 ELSE CHOOSE n \in last : TRUE]
  /\ UNCHANGED <<params, buf, pending, last, windows>>

Next ==
  \/ \E g \in Gradients : ObserveGradient(g)
  \/ ProposeUnchanged \/ ProposeStep
  \/ ObserveWorkers({}) \/ \E n \in Workers : ObserveWorkers({n})
  \/ HostPropose

Spec == Init /\ [][Next]_vars

-----------------------------------------------------------------------------
Sum(w, i) ==
  LET upTo[n \in 0..Len(w)] == IF n = 0 THEN 0 ELSE upTo[n - 1] + Component(w[n], i)
  IN  upTo[Len(w)]

Average(w, i) == Sum(w, i) \div Len(w)

\* What the declaration says, of every history of observations and proposals: each step is
\* the average of the gradients observed since the one before, and a proposal made twice
\* steps once.
StepsByTheAverage ==
  \A i \in DOMAIN params :
    LET stepped[n \in 0..(Len(windows) - 1)] ==
          IF n = 0 THEN Start[i] ELSE stepped[n - 1] - Average(windows[n], i)
    IN  params[i] = stepped[Len(windows) - 1]
=============================================================================

------------------------------- MODULE Metrics -------------------------------
(***************************************************************************)
(* neuro::pulse (src/include/neuro/pulse/metric.hpp,                       *)
(* src/src/pulse/metric.cpp): a registry of metrics, of which threads      *)
(* register and change a counter, a gauge and a histogram at a time.       *)
(* Counter::inc and Gauge::set are one atomic step, Gauge::inc a loop of   *)
(* compare_exchange_weak.  A histogram has no synchronisation at all: it   *)
(* is for one thread, and so is it here.                                   *)
(***************************************************************************)
EXTENDS Integers, Sequences, FiniteSets, FiniteSetsExt

CONSTANTS
  Updaters,      \* threads
  Steps,         \* what a gauge is incremented by; dec increments by the opposite
  Bounds,        \* the bounds of the histogram, in order
  Observations,  \* values it is given
  MaxUpdates     \* bound: updates in a behaviour

VARIABLES
  help,        \* the help each registered metric has: who registered it first
  counter,     \* Counter::bits_
  gauge,       \* Gauge::bits_
  loop,        \* of each updater in Gauge::inc: its v and cur
  buckets,     \* bucket_counts_
  seen,        \* history: what the histogram has observed
  ideal,       \* history: the gauge, had its updates been made one by one
  updates      \* history: updates begun

vars == <<help, counter, gauge, loop, buckets, seen, ideal, updates>>

Kinds == {"counter", "gauge", "histogram"}

Init ==
  /\ help = << >>
  /\ counter = 0 /\ gauge = 0 /\ ideal = 0
  /\ loop = << >>
  /\ buckets = [i \in 1..(Len(Bounds) + 1) |-> 0]
  /\ seen = << >>
  /\ updates = 0

\* Registry::counter, gauge and histogram: a metric there is keeps what it has.
Register(k, t) ==
  /\ help' = [x \in DOMAIN help \cup {k} |-> IF x \in DOMAIN help THEN help[x] ELSE t]
  /\ UNCHANGED <<counter, gauge, loop, buckets, seen, ideal, updates>>

Update(k) ==
  /\ k \in DOMAIN help
  /\ updates < MaxUpdates
  /\ updates' = updates + 1
  /\ UNCHANGED help

CounterInc ==
  /\ Update("counter")
  /\ counter' = counter + 1
  /\ UNCHANGED <<gauge, loop, buckets, seen, ideal>>

GaugeSet(v) ==
  /\ Update("gauge")
  /\ gauge' = v /\ ideal' = v
  /\ UNCHANGED <<counter, loop, buckets, seen>>

With(f, t, x) == [u \in DOMAIN f \cup {t} |-> IF u = t THEN x ELSE f[u]]
Without(f, t) == [u \in DOMAIN f \ {t} |-> f[u]]

GaugeLoad(t, v) ==
  /\ t \notin DOMAIN loop
  /\ Update("gauge")
  /\ loop' = With(loop, t, [v |-> v, cur |-> gauge])
  /\ UNCHANGED <<counter, gauge, buckets, seen, ideal>>

\* Slip: the non-atomic variant its comment speaks of.
GaugeExchange_Store(t) ==
  /\ t \in DOMAIN loop
  /\ gauge' = loop[t].cur + loop[t].v
  /\ ideal' = ideal + loop[t].v
  /\ loop' = Without(loop, t)
  /\ UNCHANGED <<help, counter, buckets, seen, updates>>

GaugeExchange(t) ==
  /\ t \in DOMAIN loop
  /\ loop[t].cur = gauge
  /\ gauge' = loop[t].cur + loop[t].v
  /\ ideal' = ideal + loop[t].v
  /\ loop' = Without(loop, t)
  /\ UNCHANGED <<help, counter, buckets, seen, updates>>

\* The exchange fails and loads the value; a weak one may also fail for no reason.
GaugeRetry(t) ==
  /\ t \in DOMAIN loop
  /\ loop' = [loop EXCEPT ![t].cur = gauge]
  /\ UNCHANGED <<help, counter, gauge, buckets, seen, ideal, updates>>

Bucket(v) ==
  LET fit == {i \in 1..Len(Bounds) : v <= Bounds[i]}
  IN  IF fit = {} THEN Len(Bounds) + 1 ELSE Min(fit)

\* count_ and sum_ are the length and the sum of what has been observed.
Observe(v) ==
  /\ Update("histogram")
  /\ buckets' = [buckets EXCEPT ![Bucket(v)] = @ + 1]
  /\ seen' = Append(seen, v)
  /\ UNCHANGED <<counter, gauge, loop, ideal>>

Next ==
  \/ CounterInc
  \/ \E t \in Updaters :
       \/ \E k \in Kinds : Register(k, t)
       \/ \E v \in Steps : GaugeLoad(t, v) \/ GaugeLoad(t, -v) \/ GaugeSet(v)
       \/ GaugeExchange(t) \/ GaugeRetry(t)
  \/ \E v \in Observations : Observe(v)

Spec == Init /\ [][Next]_vars

-----------------------------------------------------------------------------
\* What scrape writes: of each metric registered, its value; of a histogram a line per
\* bound, one for the rest, and the count.  The lines do not add up the ones before.
Scrape ==
  [k \in DOMAIN help |->
     CASE k = "counter" -> counter
       [] k = "gauge" -> gauge
       [] k = "histogram" -> [le |-> buckets, count |-> Len(seen)]]

\* No update of a gauge is lost, whichever threads loop; the first n lines scrape writes
\* for a histogram add up to the number of values not above the n-th bound, and all of
\* them to the count.
CountsAgree ==
  /\ gauge = ideal
  /\ "histogram" \in DOMAIN help =>
       LET h == Scrape["histogram"]
           upTo(n) == FoldSet(LAMBDA i, sum : h.le[i] + sum, 0, 1..n)
       IN  /\ upTo(Len(h.le)) = h.count
           /\ \A n \in 1..Len(Bounds) : upTo(n) = Cardinality({i \in DOMAIN seen : seen[i] <= Bounds[n]})
=============================================================================

---------------------------------- MODULE Log ----------------------------------
(***************************************************************************)
(* neuro::core::log (src/include/neuro/core/log.hpp) as one thread sees    *)
(* it: the process-wide sink and level, and scopes that replace the sink   *)
(* or add to the context, closed in the reverse order of their opening as  *)
(* objects on a stack are.  Records are kept as their fields.              *)
(***************************************************************************)
EXTENDS Naturals, Sequences, FiniteSets, FiniteSetsExt, SequencesExt

CONSTANTS
  Sinks,         \* QueueSinks; what goes to a StderrSink is gone
  Keys, Values,  \* of fields
  Levels,        \* numbers
  MaxDepth,      \* bound: scopes open at a time
  MaxRecords     \* bound: records kept

VARIABLES
  sink,        \* global_sink_ref
  lowest,      \* global_level_ref
  context,     \* ScopedLogContext::context_stack
  frames,      \* the scopes open, with previous_ or previous_count_; history: their fields
  records,     \* QueueSink::records_ of each sink
  wanted,      \* history: the sink last asked for outside and in each sink scope
  due          \* history: the records each sink was to have

vars == <<sink, lowest, context, frames, records, wanted, due>>

\* set_sink and global_sink: a null pointer stands for a StderrSink.
Effective(s) == IF s = "null" THEN "stderr" ELSE s

Init ==
  /\ sink = "null" /\ lowest \in Levels
  /\ context = << >> /\ frames = << >>
  /\ records = [s \in Sinks |-> << >>]
  /\ wanted = <<"null">>
  /\ due = records

SetSink(s) ==
  /\ sink' = Effective(s)
  /\ wanted' = [wanted EXCEPT ![Len(wanted)] = s]
  /\ UNCHANGED <<lowest, context, frames, records, due>>

SetLevel(l) ==
  /\ lowest' = l
  /\ UNCHANGED <<sink, context, frames, records, wanted, due>>

Opened(frame) == Len(frames) < MaxDepth /\ frames' = Append(frames, frame)

OpenSink(s) ==
  /\ Opened([kind |-> "sink", previous |-> sink])
  /\ sink' = Effective(s)
  /\ wanted' = Append(wanted, s)
  /\ UNCHANGED <<lowest, context, records, due>>

OpenContext(k, v) ==
  /\ Opened([kind |-> "context", previous |-> Len(context), field |-> <<k, v>>])
  /\ context' = Append(context, <<k, v>>)
  /\ UNCHANGED <<sink, lowest, records, wanted, due>>

CloseSink ==
  /\ frames # << >> /\ Last(frames).kind = "sink"
  /\ sink' = Effective(Last(frames).previous)
  /\ frames' = Front(frames)
  /\ wanted' = Front(wanted)
  /\ UNCHANGED <<lowest, context, records, due>>

CloseContext ==
  /\ frames # << >> /\ Last(frames).kind = "context"
  /\ context' = SubSeq(context, 1, Last(frames).previous)
  /\ frames' = Front(frames)
  /\ UNCHANGED <<sink, lowest, records, wanted, due>>

WithField(r, e) == [k \in DOMAIN r \cup {e[1]} |-> IF k = e[1] THEN e[2] ELSE r[k]]

\* One entry of the stack after the other, over the explicit fields.
WithContext(fields) ==
  LET record[n \in 0..Len(context)] ==
        IF n = 0 THEN fields ELSE WithField(record[n - 1], context[n])
  IN  record[Len(context)]

\* What is due: of each key the value of the innermost scope that has it.
Scopes(k) == {i \in DOMAIN frames : frames[i].kind = "context" /\ frames[i].field[1] = k}

Innermost(fields) ==
  [k \in DOMAIN fields \cup {k \in Keys : Scopes(k) # {}} |->
     IF Scopes(k) = {} THEN fields[k] ELSE frames[Max(Scopes(k))].field[2]]

Added(seqs, s, r) == [t \in Sinks |-> IF t = s THEN Append(seqs[t], r) ELSE seqs[t]]

Kept == UNION {{s} \X DOMAIN due[s] : s \in Sinks}

Emit(l, fields) ==
  /\ Cardinality(Kept) < MaxRecords
  /\ l >= lowest
  /\ sink' = Effective(sink)
  /\ records' = Added(records, sink', WithContext(fields))
  /\ due' = Added(due, Effective(Last(wanted)), Innermost(fields))
  /\ UNCHANGED <<lowest, context, frames, wanted>>

\* Below the level nothing happens.
EmitFiltered(l) == l < lowest /\ UNCHANGED vars

ClearQueue(s) ==
  /\ records' = [records EXCEPT ![s] = << >>]
  /\ due' = [due EXCEPT ![s] = << >>]
  /\ UNCHANGED <<sink, lowest, context, frames, wanted>>

Next ==
  \/ \E s \in Sinks \cup {"null"} : SetSink(s) \/ OpenSink(s)
  \/ \E l \in Levels :
       SetLevel(l) \/ EmitFiltered(l) \/ \E k \in Keys, v \in Values : Emit(l, [x \in {k} |-> v])
  \/ \E k \in Keys, v \in Values : OpenContext(k, v)
  \/ CloseSink \/ CloseContext
  \/ \E s \in Sinks : ClearQueue(s)

Spec == Init /\ [][Next]_vars

-----------------------------------------------------------------------------
\* However scopes are nested and sinks set within them, each record is in the sink the
\* innermost sink scope then had, in order, with the values of the innermost scopes.
LogSeesItsScopes == \A s \in Sinks : records[s] = due[s]
=============================================================================

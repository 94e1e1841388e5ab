----------------------------- MODULE FifoChannel -----------------------------
(***************************************************************************)
(* What every message queue of NeuroVerse promises, whatever it is built   *)
(* from: messages are received in the order they were sent, each of them   *)
(* once, never more than the backlog allows are in flight, and nothing is  *)
(* accepted after close.  There is no queue here, only the two histories.  *)
(***************************************************************************)
EXTENDS Naturals, Sequences

CONSTANTS
  Message,    \* what can be sent
  Backlogs    \* how many messages may be sent and not yet received: a set of numbers

VARIABLES
  sent,    \* every message accepted, in order
  rcvd,    \* every message handed to a receiver, in order
  shut     \* closed

vars == <<sent, rcvd, shut>>

Init == sent = <<>> /\ rcvd = <<>> /\ shut = FALSE

Send(m) ==
  /\ ~shut
  /\ Len(sent) + 1 - Len(rcvd) \in Backlogs
  /\ sent' = Append(sent, m)
  /\ UNCHANGED <<rcvd, shut>>

Receive ==
  /\ Len(rcvd) < Len(sent)
  /\ rcvd' = Append(rcvd, sent[Len(rcvd) + 1])
  /\ UNCHANGED <<sent, shut>>

\* A send straight into the hands of a receiver that waits on an empty channel.
Pass(m) ==
  /\ ~shut
  /\ Len(sent) = Len(rcvd)
  /\ sent' = Append(sent, m)
  /\ rcvd' = Append(rcvd, m)
  /\ UNCHANGED shut

Shut ==
  /\ shut' = TRUE
  /\ UNCHANGED <<sent, rcvd>>

Next == (\E m \in Message : Send(m) \/ Pass(m)) \/ Receive \/ Shut

Spec == Init /\ [][Next]_vars
=============================================================================

-------------------------------- MODULE Sponge --------------------------------
(***************************************************************************)
(* The sponge of SHA-3 and SHAKE (src/include/neuro/pkg/sha3.hpp), with    *)
(* the permutation a free function: the state is the blocks that went into *)
(* it, and each permutation after them makes another output block, of      *)
(* which byte i is an atom.  A message is a sequence of bytes, a block is  *)
(* Rate of them, and a digest is the blocks it was computed from.          *)
(***************************************************************************)
EXTENDS Naturals, Sequences, SequencesExt

CONSTANTS
  Rate,          \* kRateBytes
  Bytes,         \* the bytes messages are made of
  MaxAbsorbed,   \* bound: bytes of a message
  MaxSqueezed    \* bound: bytes squeezed

VARIABLES
  state,       \* state_: the blocks absorbed and the permutations since
  buf,         \* buf_, the first buffered_ bytes of it
  pos,         \* absorb_pos_
  finalized,   \* finalized_
  message,     \* history: what absorb was given since the last reset
  given        \* history: what has been squeezed since then, or final's last answer

vars == <<state, buf, pos, finalized, message, given>>

Pads == [Sha3 |-> 6, Shake |-> 31]     \* kPadByte

\* The bytes data in blocks, and what is left of it.
Whole(data) == Len(data) \div Rate
Blocks(data) == [k \in 1..Whole(data) |-> SubSeq(data, (k - 1) * Rate + 1, k * Rate)]
Rest(data) == SubSeq(data, Whole(data) * Rate + 1, Len(data))

\* The last byte of the block is 0x80, whatever the padding byte may be there.
Padded(data, pad) ==
  [i \in 1..Rate |-> IF i = Rate THEN 128
                     ELSE IF i <= Len(data) THEN data[i]
                     ELSE IF i = Len(data) + 1 THEN pad ELSE 0]

\* The digest of a message absorbed at once: the blocks that determine it.
Digest(data, pad) == Blocks(data) \o <<Padded(Rest(data), pad)>>

-----------------------------------------------------------------------------
(* The contexts.                                                           *)

Empty == [blocks |-> << >>, turns |-> 0]

Init ==
  /\ state = Empty /\ buf = << >> /\ pos = 0
  /\ finalized = "no"
  /\ message = << >> /\ given = << >>

\* absorb_pos_ is left as it is.
Reset ==
  /\ state' = Empty /\ buf' = << >>
  /\ finalized' = "no"
  /\ message' = << >> /\ given' = << >>
  /\ UNCHANGED pos

Smaller(a, b) == IF a < b THEN a ELSE b

\* Slip: what went into the buffer stays in the data too.
Filled_Twice(data) ==
  LET take == IF buf = << >> THEN 0 ELSE Smaller(Rate - Len(buf), Len(data))
  IN  [buf |-> buf \o SubSeq(data, 1, take), data |-> data]

\* The buffer with as much of data as it takes, if it has anything; and the rest of data.
Filled(data) ==
  LET take == IF buf = << >> THEN 0 ELSE Smaller(Rate - Len(buf), Len(data))
  IN  [buf |-> buf \o SubSeq(data, 1, take), data |-> SubSeq(data, take + 1, Len(data))]

Absorb(data) ==
  LET f == Filled(data)
      full == Len(f.buf) = Rate
  IN  /\ finalized = "no"
      /\ Len(message) + Len(data) <= MaxAbsorbed
      /\ message' = message \o data
      /\ state' = [state EXCEPT !.blocks = @ \o (IF full THEN <<f.buf>> ELSE << >>) \o Blocks(f.data)]
      /\ buf' = (IF full THEN << >> ELSE f.buf) \o Rest(f.data)
      /\ UNCHANGED <<pos, finalized, given>>

\* The first n bytes of the output block, as squeeze_bytes has them.
OutputByte(st, i) == IF i <= Rate THEN <<Len(st.blocks), st.turns, i>> ELSE <<"past">>

\* final and Shake::squeeze_bytes pad once.
Finalize(kind) ==
  IF finalized = "no"
  THEN [state |-> [state EXCEPT !.blocks = Append(@, Padded(buf, Pads[kind]))], pos |-> 0]
  ELSE [state |-> state, pos |-> pos]

\* Again and again with the same result.
Final ==
  LET f == Finalize("Sha3") IN
    /\ finalized \in {"no", "Sha3"}
    /\ state' = f.state /\ pos' = f.pos
    /\ buf' = << >> /\ finalized' = "Sha3"
    /\ given' = f.state.blocks
    /\ UNCHANGED message

\* Each turn of the loop takes up to a block, from pos on, be there so much or not.
Squeeze(n) ==
  LET f == Finalize("Shake")
      turn[k \in 0..n] ==
        IF k = 0 THEN [state |-> f.state, pos |-> f.pos, out |-> << >>]
        ELSE LET z == turn[k - 1]
                 take == Smaller(Rate, n - Len(z.out))
                 end == z.pos + take
             IN  [state |-> IF take > 0 /\ end = Rate THEN [z.state EXCEPT !.turns = @ + 1]
                            ELSE z.state,
                  pos |-> IF end = Rate THEN 0 ELSE end,
                  out |-> z.out \o [i \in 1..take |-> OutputByte(z.state, z.pos + i)]]
      z == turn[n]
  IN  /\ finalized \in {"no", "Shake"}
      /\ Len(given) + n <= MaxSqueezed
      /\ state' = z.state /\ pos' = z.pos
      /\ buf' = << >> /\ finalized' = "Shake"
      /\ given' = given \o z.out
      /\ UNCHANGED message

Next ==
  \/ Reset \/ Final
  \/ \E data \in BoundedSeq(Bytes, Rate + 1) : Absorb(data)
  \/ \E n \in 0..MaxSqueezed : Squeeze(n)

Spec == Init /\ [][Next]_vars

-----------------------------------------------------------------------------
\* However a message is cut into pieces, its digest is that of the message in one piece,
\* as often as final is asked; and what is squeezed is the stream of the output blocks,
\* up to where a squeeze that did not begin a block went past its end.
PiecesMakeTheWhole ==
  /\ finalized = "no" => state.blocks = Blocks(message) /\ buf = Rest(message)
  /\ finalized # "no" => state.blocks = Digest(message, Pads[finalized])
  /\ finalized = "Sha3" => given = Digest(message, Pads["Sha3"])
  /\ finalized = "Shake" =>
       \A i \in DOMAIN given :
         (\A j \in 1..i : given[j] # <<"past">>)
           => given[i] = <<Len(state.blocks), (i - 1) \div Rate, ((i - 1) % Rate) + 1>>
=============================================================================

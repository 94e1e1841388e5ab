-------------------------------- MODULE Keccak --------------------------------
(***************************************************************************)
(* detail::keccak_f1600 (src/include/neuro/pkg/sha3.hpp), lane by lane as  *)
(* the code has it, next to the permutation FIPS 202 defines.  A lane is   *)
(* the set of its bits that are one.                                       *)
(***************************************************************************)
EXTENDS Integers, Sequences, FiniteSets

CONSTANT Starts       \* the bits of state the runs start from: sets of <<lane, bit>>

VARIABLES
  s,         \* the state after `round' rounds, as the code has it: 25 lanes
  fips,      \* the same, as the standard has it
  round

vars == <<s, fips, round>>

Bits == 0..63

Xor(a, b) == (a \ b) \cup (b \ a)
Not(a) == Bits \ a
Rotl(a, n) == {(b + n) % 64 : b \in a}

-----------------------------------------------------------------------------
(* The code: its tables, and one round.  Lanes and tables count from 0.    *)

RC == << {0}, {1, 7, 15}, {1, 3, 7, 15, 63}, {15, 31, 63}, {0, 1, 3, 7, 15}, {0, 31},
         {0, 7, 15, 31, 63}, {0, 3, 15, 63}, {1, 3, 7}, {3, 7}, {0, 3, 15, 31}, {1, 3, 31},
         {0, 1, 3, 7, 15, 31}, {0, 1, 3, 7, 63}, {0, 3, 7, 15, 63}, {0, 1, 15, 63},
         {1, 15, 63}, {7, 63}, {1, 3, 15}, {1, 3, 31, 63}, {0, 7, 15, 31, 63},
         {7, 15, 63}, {0, 31}, {3, 15, 31, 63} >>

kOffset == << 0, 1, 62, 28, 27, 36, 44, 6, 55, 20, 3, 10, 43, 25, 39, 41, 45, 15, 21, 8, 18, 2, 61, 56, 14 >>

kSrc == << 1, 5, 14, 18, 22, 2, 6, 10, 19, 23, 3, 7, 11, 15, 24, 4, 8, 12, 16, 20, 21, 17, 13, 9 >>

kTgt == << 10, 16, 22, 3, 9, 20, 1, 7, 13, 19, 5, 11, 17, 23, 4, 15, 21, 2, 8, 14, 24, 18, 12, 6 >>

Theta(a) ==
  LET c == [x \in 0..4 |-> Xor(Xor(Xor(Xor(a[x], a[x + 5]), a[x + 10]), a[x + 15]), a[x + 20])]
      d == [x \in 0..4 |-> Xor(c[(x + 4) % 5], Rotl(c[(x + 1) % 5], 1))]
  IN  [i \in 0..24 |-> Xor(a[i], d[i % 5])]

RhoPi(a) ==
  LET t[k \in 0..24] ==
        IF k = 0 THEN a
        ELSE [t[k - 1] EXCEPT ![kTgt[k]] = Rotl(a[kSrc[k]], kOffset[kSrc[k] + 1])]
  IN  t[24]

Chi(a) ==
  [i \in 0..24 |->
     LET y == i - (i % 5) IN Xor(a[i], Not(a[y + ((i + 1) % 5)]) \cap a[y + ((i + 2) % 5)])]

Iota(a, r) == [a EXCEPT ![0] = Xor(@, RC[r])]

Round(a, r) == Iota(Chi(RhoPi(Theta(a))), r)

-----------------------------------------------------------------------------
(* The standard, sections 3.2 and 3.3, bit by bit, with the lane of column *)
(* x and row y at x + 5y: the offsets come from a walk over the lanes, the *)
(* constants from a shift register.                                        *)

Lane(x, y) == x + 5 * y

\* The lane of each turn t = 0..23 of the walk, which goes from (x, y) to (y, 2x + 3y).
Walk[t \in 0..23] ==
  IF t = 0 THEN <<1, 0>>
  ELSE LET w == Walk[t - 1] IN <<w[2], (2 * w[1] + 3 * w[2]) % 5>>

StandardOffset ==
  [l \in 0..24 |->
     IF l = 0 THEN 0
     ELSE LET t == CHOOSE n \in 0..23 : Lane(Walk[n][1], Walk[n][2]) = l
          IN  (((t + 1) * (t + 2)) \div 2) % 64]

\* The register after n clocks, held as the positions of its ones.
Register[n \in 0..167] ==
  IF n = 0 THEN {0}
  ELSE LET up == {b + 1 : b \in Register[n - 1]}
       IN  IF 8 \in up THEN Xor(up \ {8}, {0, 4, 5, 6}) ELSE up

\* Each round takes the next seven bits the register puts out, for the bits 2^j - 1.
StandardConstant(r) ==
  {<<0, 1, 3, 7, 15, 31, 63>>[j + 1] : j \in {k \in 0..6 : 0 \in Register[7 * (r - 1) + k]}}

Bit(a, l, z) == IF z \in a[l] THEN 1 ELSE 0

Parity(a, x, z) == Cardinality({y \in 0..4 : z \in a[Lane(x, y)]})

Mixed(a, l, z) ==
  (Bit(a, l, z) + Parity(a, (l + 4) % 5, z) + Parity(a, (l + 1) % 5, (z + 63) % 64)) % 2 = 1

Moved(a, l, z) ==
  LET from == Lane(((l % 5) + 3 * (l \div 5)) % 5, l % 5)
  IN  Mixed(a, from, (z + 64 - StandardOffset[from]) % 64)

Chosen(a, l, z) ==
  LET right(n) == Lane((l + n) % 5, l \div 5)
  IN  Moved(a, l, z) # (~Moved(a, right(1), z) /\ Moved(a, right(2), z))

StandardRound(a, r) ==
  LET constant == StandardConstant(r)
  IN  [l \in 0..24 |-> {z \in Bits : Chosen(a, l, z) # (l = 0 /\ z \in constant)}]

-----------------------------------------------------------------------------
Init ==
  /\ \E B \in Starts : s = [i \in 0..24 |-> {b \in Bits : <<i, b>> \in B}]
  /\ fips = s
  /\ round = 0

Permute ==
  /\ round < 24
  /\ round' = round + 1
  /\ s' = Round(s, round + 1)
  /\ fips' = StandardRound(fips, round + 1)

Next == Permute

Spec == Init /\ [][Next]_vars

\* After every round the state is what FIPS 202 has: the tables are its walk and its
\* register, and no lane is read from where another has been written.
PermutesAsFips202 == s = fips
=============================================================================

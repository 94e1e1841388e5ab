-------------------------------- MODULE Storage --------------------------------
(***************************************************************************)
(* The components that keep files and packages: RamFS and OverlayFS; and   *)
(* what packages are told apart by, the permutation and the sponge of SHA-3*)
(* and the manifests that are signed or hashed.  They share no state: a    *)
(* step is one component's.                                                *)
(***************************************************************************)
EXTENDS Integers, Sequences, TLC

CONSTANTS
  Paths, Capacity, MaxLength, MaxTicks, NodeWrites,    \* RamFS
  Clients, UpperPaths, LowerFiles, Zero, MaxCalls,     \* OverlayFS
  Starts,                                              \* Keccak
  Rate, Bytes, MaxAbsorbed, MaxSqueezed,               \* Sponge
  Characters, Kinds, Digests, MaxParts                 \* Manifests

VARIABLES
  size, last, used, tick, earlier,
  upper, lower, mu, call,
  lanes, fips, round,
  state, buf, pos, finalized, message, given,
  first, second

Ram == INSTANCE RamFS
Overlay == INSTANCE OverlayFS
Keccak == INSTANCE Keccak WITH s <- lanes
Sponge == INSTANCE Sponge
Manifests == INSTANCE Manifests

ram == <<size, last, used, tick, earlier>>
overlay == <<upper, lower, mu, call>>

storage == <<ram, overlay>>

keccak == <<lanes, fips, round>>
sponge == <<state, buf, pos, finalized, message, given>>
manifests == <<first, second>>

packages == <<keccak, sponge, manifests>>

\* Lengths and capacities are unsigned.
ASSUME CapacityAssumption == Capacity \in Nat /\ MaxLength \in Nat

\* The lower layer maps paths to contents, which are sequences of bytes.
ASSUME LowerFilesAssumption ==
  \A p \in DOMAIN LowerFiles :
    LowerFiles[p] \in Seq({LowerFiles[p][i] : i \in DOMAIN LowerFiles[p]})

\* A block has a byte at least.
ASSUME SpongeAssumption == Rate \in Nat \ {0} /\ MaxSqueezed \in Nat

\* Kinds and digests are numbers, whose text has no space.
ASSUME ManifestsAssumption ==
  /\ Characters \subseteq Nat /\ Kinds \subseteq Nat /\ Digests \subseteq Nat
  /\ Manifests!Space \notin Kinds \cup Digests

StorageInit == Ram!Init /\ Overlay!Init

RamStep == Ram!Next /\ UNCHANGED overlay
OverlayStep == Overlay!Next /\ UNCHANGED ram

StorageNext == RamStep \/ OverlayStep

StorageSpec == StorageInit /\ [][StorageNext]_storage

PackagesInit == Keccak!Init /\ Sponge!Init /\ Manifests!Init

KeccakStep == Keccak!Next /\ UNCHANGED <<sponge, manifests>>
SpongeStep == Sponge!Next /\ UNCHANGED <<keccak, manifests>>
ManifestsStep == Manifests!Next /\ UNCHANGED <<keccak, sponge>>

PackagesNext == KeccakStep \/ SpongeStep \/ ManifestsStep

PackagesSpec == PackagesInit /\ [][PackagesNext]_packages

-----------------------------------------------------------------------------
\* RamFS: whatever is charged, evicted, truncated, rolled back or written to a node that
\* is gone, bytes_used never exceeds the capacity.
UsedWithinBudget == Ram!UsedWithinBudget

\* RamFS: a file survives an eviction only if every file does that was looked up, opened
\* or written with a charge after it.
EvictionTakesOldest == Ram!EvictionTakesOldest

\* OverlayFS: a call that no writer of its file overlaps does all of what it does and
\* nothing else to the file, in whichever layer it began.
AloneActsOnWhole == Overlay!AloneActsOnWhole

\* OverlayFS: the lower layer is never written, and a file is copied up once, whoever
\* opens it at the same time.
CopiedUpOnce == Overlay!CopiedUpOnce

\* SHA-3 and SHAKE: a message in pieces has the digest of the message in one, and the
\* rounds of the permutation are those of FIPS 202.
DigestsAgree == Sponge!PiecesMakeTheWhole /\ Keccak!PermutesAsFips202

\* Manifests: what is signed or hashed tells any two apart, and the text is read back.
EncodedApart == Manifests!EncodedApart

-----------------------------------------------------------------------------
(* For TLC, a behaviour is one component's: `unit' says whose, and the     *)
(* others stay as they are.                                                *)

VARIABLE unit

\* One file in the lower layer, of two bytes.
MCLowerFiles == "old" :> <<"l", "l">>

\* From nothing, and from one bit in each of two lanes.
MCStarts == {{}, {<<7, 3>>, <<12, 40>>}}

Units == {"ram", "overlay", "keccak", "sponge", "manifests"}

Init ==
  /\ unit \in Units
  /\ StorageInit /\ PackagesInit
  /\ unit # "keccak" => lanes = [i \in 0..24 |-> {}]

Next ==
  \/ unit = "ram" /\ RamStep /\ UNCHANGED <<unit, packages>>
  \/ unit = "overlay" /\ OverlayStep /\ UNCHANGED <<unit, packages>>
  \/ unit = "keccak" /\ KeccakStep /\ UNCHANGED <<unit, storage>>
  \/ unit = "sponge" /\ SpongeStep /\ UNCHANGED <<unit, storage>>
  \/ unit = "manifests" /\ ManifestsStep /\ UNCHANGED <<unit, storage>>

vars == <<unit, storage, packages>>

Spec == Init /\ [][Next]_vars
=============================================================================

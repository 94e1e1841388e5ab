---------------------------- MODULE Storage_proofs ----------------------------
(***************************************************************************)
(* What the runs check of RamFS and OverlayFS, for any files, capacity,    *)
(* lengths, clients and contents of the lower layer; and of what packages  *)
(* are told apart by, for any rate, message, starting lanes and manifests. *)
(***************************************************************************)
EXTENDS Storage, Lemmas, SequenceTheorems

\* A step of the two is a step of each or leaves it as it is.
LEMMA Separate ==
  ASSUME [StorageNext]_storage
  PROVE  [Ram!Next]_Ram!vars /\ [Overlay!Next]_Overlay!vars
  BY DEF StorageNext, RamStep, OverlayStep, storage, ram, overlay, Ram!vars, Overlay!vars

-----------------------------------------------------------------------------
(* RamFS.                                                                  *)

RamTyped ==
  /\ IsFiniteSet(Ram!Files) /\ size \in [Ram!Files -> Nat] /\ last \in [Ram!Files -> Nat]
  /\ used \in Nat /\ tick \in Nat

\* The stamps are in the order of the accesses, and the next is later than all.
Stamped ==
  /\ \A p \in Ram!Files : last[p] < tick
  /\ \A e \in earlier : \E p, q \in Ram!Files : e = <<p, q>> /\ last[p] < last[q]

RamIInv == RamTyped /\ Stamped /\ UsedWithinBudget

LEMMA TotalIsNat ==
  ASSUME RamTyped, NEW F \in SUBSET Ram!Files
  PROVE  Ram!Total(F) \in Nat
<1>1. Ram!Total(F) = SumOf(size, F)
  BY DEF Ram!Total, Ram!FoldSet, Ram!MapThenFoldSet, SumOf, Added, First
<1>2. IsFiniteSet(F) /\ Numbers(size, F, Nat)
  BY FS_Subset DEF RamTyped, Numbers
<1> QED
  BY <1>1, <1>2, SumIsNat

LEMMA Monus ==
  ASSUME NEW a \in Nat, NEW b \in Nat
  PROVE  Ram!Monus(a, b) \in Nat /\ Ram!Monus(a, b) <= a
  BY DEF Ram!Monus

\* What a write adds to a file is counted, and never negative.
LEMMA GrowthIsNat ==
  ASSUME RamTyped, NEW p \in Ram!Files, NEW offset \in 0..MaxLength, NEW n \in 0..MaxLength
  PROVE  Ram!Growth(p, offset, n) \in Nat
  BY CapacityAssumption DEF RamTyped, Ram!Growth, Ram!Larger

\* evict_oldest_locked, however often reserve_locked calls it: there is a least set of
\* files to evict that are older than the others.
LEMMA VictimsAreOldest ==
  ASSUME RamTyped, NEW delta \in Nat
  PROVE  Ram!Victims(delta) \in SUBSET Ram!Files /\ Ram!Oldest(Ram!Victims(delta))
<1> DEFINE Good == {E \in SUBSET Ram!Files : /\ Ram!Oldest(E)
                                             /\ Ram!Fits(E, delta) \/ E = Ram!Files}
           Sizes == {Cardinality(E) : E \in Good}
<1>1. Ram!Files \in Good
  BY DEF Ram!Oldest
<1>2. \A E \in SUBSET Ram!Files : IsFiniteSet(E) /\ Cardinality(E) \in Nat
  BY FS_Subset, FS_CardinalityType DEF RamTyped
<1>3. PICK k \in Sizes : \A j \in Sizes : k <= j
  <2>1. Sizes \subseteq Nat /\ Sizes # {}
    BY <1>1, <1>2
  <2> HIDE DEF Sizes
  <2> QED
    BY <2>1, LeastNatural
<1>4. PICK E \in Good : Cardinality(E) = k
  BY <1>3
<1>5. ASSUME NEW D \in SUBSET E, D # E, Ram!Oldest(D) PROVE ~Ram!Fits(D, delta)
  <2>1. Cardinality(D) <= Cardinality(E) /\ Cardinality(D) # Cardinality(E)
    BY <1>2, <1>5, FS_Subset
  <2>2. ASSUME Ram!Fits(D, delta) PROVE D \in Good
    BY <2>2, <1>5
  <2>3. Cardinality(D) \in Nat /\ Cardinality(E) \in Nat
    BY <1>2
  <2>4. D \notin Good
    BY <1>3, <1>4, <2>1, <2>3
  <2> QED
    BY <2>2, <2>4
<1>6. /\ Ram!Oldest(E)
      /\ Ram!Fits(E, delta) \/ E = Ram!Files
      /\ \A D \in SUBSET E : D # E /\ Ram!Oldest(D) => ~Ram!Fits(D, delta)
  BY <1>5
<1>7. \E F \in SUBSET Ram!Files :
        /\ Ram!Oldest(F)
        /\ Ram!Fits(F, delta) \/ F = Ram!Files
        /\ \A D \in SUBSET F : D # F /\ Ram!Oldest(D) => ~Ram!Fits(D, delta)
  BY <1>6
<1> QED
  BY <1>7 DEF Ram!Victims

LEMMA EvictedAreOldest ==
  ASSUME RamTyped, NEW p \in Ram!Files, NEW offset \in 0..MaxLength, NEW n \in 0..MaxLength
  PROVE  /\ Ram!Evicted(p, offset, n) \in SUBSET Ram!Files
         /\ Ram!Oldest(Ram!Evicted(p, offset, n))
  BY GrowthIsNat, VictimsAreOldest DEF Ram!Evicted, Ram!Oldest

\* p is accessed, and the files F remain.
LEMMA TouchStamps ==
  ASSUME RamTyped, Stamped, NEW F, NEW p \in F, F \ {p} \subseteq Ram!Files,
         Ram!Touch(F, p), Ram!Files' = F
  PROVE  last' \in [F -> Nat] /\ tick' \in Nat /\ Stamped'
<1>1. \A q \in F \ {p} : last[q] \in Nat /\ last[q] < tick
  BY DEF RamTyped, Stamped
<1>2. /\ tick' = tick + 1 /\ tick \in Nat
      /\ last' = [q \in F |-> IF q = p THEN tick ELSE last[q]]
  <2>1. (F \cap Ram!Files) \cup {p} = F
    OBVIOUS
  <2>2. \A q \in F \ {p} : Ram!Only(last, F \cap Ram!Files)[q] = last[q]
    BY DEF Ram!Only
  <2>3. last' = [q \in F |-> IF q = p THEN tick ELSE Ram!Only(last, F \cap Ram!Files)[q]]
    BY <2>1 DEF Ram!Touch, Ram!Put, Ram!Only
  <2> QED
    BY <2>2, <2>3 DEF Ram!Touch, RamTyped
<1>3. \A q \in F : last'[q] \in Nat /\ last'[q] < tick'
  BY <1>1, <1>2
<1>4. ASSUME NEW e \in earlier'
      PROVE  \E q, r \in F : e = <<q, r>> /\ last'[q] < last'[r]
  <2>1. \/ e \in earlier /\ e \in (F \ {p}) \X (F \ {p})
        \/ e \in (F \ {p}) \X {p}
    BY DEF Ram!Touch, Ram!Among
  <2>2. CASE e \in (F \ {p}) \X {p}
    BY <2>2, <1>1, <1>2
  <2>3. CASE e \in earlier /\ e \in (F \ {p}) \X (F \ {p})
    <3>1. PICK q, r \in Ram!Files : e = <<q, r>> /\ last[q] < last[r]
      BY <2>3 DEF Stamped
    <3>2. q \in F \ {p} /\ r \in F \ {p}
      BY <2>3, <3>1
    <3> QED
      BY <3>1, <3>2, <1>2
  <2> QED
    BY <2>1, <2>2, <2>3
<1>5. last' \in [F -> Nat]
  BY <1>2, <1>3
<1> QED
  BY <1>2, <1>3, <1>4, <1>5 DEF Stamped

\* The files F remain and none is accessed.
LEMMA RestStamps ==
  ASSUME RamTyped, Stamped, NEW F \in SUBSET Ram!Files, Ram!Files' = F,
         \A p \in F : last'[p] = last[p], DOMAIN last' = F, last' = [p \in F |-> last'[p]],
         earlier' \subseteq Ram!Among(F), tick' \in {tick, tick + 1}
  PROVE  last' \in [F -> Nat] /\ tick' \in Nat /\ Stamped'
<1>1. \A p \in F : last'[p] \in Nat /\ last'[p] < tick
  BY DEF RamTyped, Stamped
<1>2. tick' \in Nat /\ tick' >= tick /\ tick \in Nat
  BY DEF RamTyped
<1>3. ASSUME NEW e \in earlier'
      PROVE  \E q, r \in F : e = <<q, r>> /\ last'[q] < last'[r]
  <2>1. e \in earlier /\ e \in F \X F
    BY DEF Ram!Among
  <2>2. PICK q, r \in Ram!Files : e = <<q, r>> /\ last[q] < last[r]
    BY <2>1 DEF Stamped
  <2> QED
    BY <2>1, <2>2
<1>4. last' \in [F -> Nat]
  BY <1>1
<1>5. \A p \in F : last'[p] < tick'
  BY <1>1, <1>2
<1> QED
  BY <1>2, <1>3, <1>4, <1>5 DEF Stamped

\* What is left of the bytes counted when the files F are evicted.
LEMMA LeftOf ==
  ASSUME RamTyped, UsedWithinBudget, NEW F \in SUBSET Ram!Files
  PROVE  /\ Ram!Monus(used, Ram!Total(F)) \in Nat
         /\ Capacity > 0 => Ram!Monus(used, Ram!Total(F)) <= Capacity
<1>1. Ram!Total(F) \in Nat /\ used \in Nat
  BY TotalIsNat DEF RamTyped
<1>2. Ram!Monus(used, Ram!Total(F)) \in Nat /\ Ram!Monus(used, Ram!Total(F)) <= used
  BY <1>1, Monus
<1> QED
  BY <1>1, <1>2, CapacityAssumption DEF UsedWithinBudget, Ram!UsedWithinBudget

\* Some of the oldest files are evicted, or none is.
Evicting(E) ==
  /\ E \in SUBSET Ram!Files /\ Ram!Oldest(E)
  /\ Ram!Files' \cap Ram!Files = Ram!Files \ E

Kept == RamIInv' /\ \E E : Evicting(E)

LEMMA NoneEvicted ==
  ASSUME Ram!Files \subseteq Ram!Files'
  PROVE  Evicting({})
  BY DEF Evicting, Ram!Oldest

LEMMA LookupKept ==
  ASSUME RamIInv, NEW p, Ram!Lookup(p)
  PROVE  Kept
<1>1. Ram!Files' = Ram!Files /\ size' = size /\ used' = used
  BY DEF Ram!Lookup, Ram!Files
<1>2. last' \in [Ram!Files -> Nat] /\ tick' \in Nat /\ Stamped'
  BY <1>1, TouchStamps DEF RamIInv, Ram!Lookup
<1>3. RamTyped' /\ UsedWithinBudget'
  BY <1>1, <1>2 DEF RamIInv, RamTyped, UsedWithinBudget, Ram!UsedWithinBudget
<1> QED
  BY <1>1, <1>2, <1>3, NoneEvicted DEF RamIInv, Kept

LEMMA OpenExistingKept ==
  ASSUME RamIInv, NEW p, NEW flags, Ram!OpenExisting(p, flags)
  PROVE  Kept
<1>0. used \in Nat /\ size[p] \in Nat /\ size \in [Ram!Files -> Nat] /\ p \in Ram!Files
  BY DEF RamIInv, RamTyped, Ram!OpenExisting
<1>1. /\ Ram!Files' = Ram!Files /\ size' \in [Ram!Files -> Nat]
      /\ used' \in Nat /\ used' <= used
  <2>1. CASE "Truncate" \in flags
    <3>1. used' = Ram!Monus(used, size[p]) /\ size' = [size EXCEPT ![p] = 0]
      BY <2>1 DEF Ram!OpenExisting
    <3> QED
      BY <3>1, <1>0, Monus DEF Ram!Files
  <2>2. CASE "Truncate" \notin flags
    BY <2>2, <1>0 DEF Ram!OpenExisting, Ram!Files
  <2> QED
    BY <2>1, <2>2
<1>2. last' \in [Ram!Files -> Nat] /\ tick' \in Nat /\ Stamped'
  BY <1>1, TouchStamps DEF RamIInv, Ram!OpenExisting
<1>3. RamTyped'
  BY <1>1, <1>2 DEF RamIInv, RamTyped
<1>4. UsedWithinBudget'
  BY <1>0, <1>1, CapacityAssumption DEF RamIInv, UsedWithinBudget, Ram!UsedWithinBudget
<1> QED
  BY <1>1, <1>2, <1>3, <1>4, NoneEvicted DEF RamIInv, Kept

LEMMA OpenNewKept ==
  ASSUME RamIInv, NEW p, NEW flags, Ram!OpenNew(p, flags)
  PROVE  Kept
<1>1. /\ Ram!Files' = Ram!Files \cup {p} /\ used' = used
      /\ size' = [q \in Ram!Files \cup {p} |-> IF q = p THEN 0 ELSE size[q]]
  BY DEF Ram!OpenNew, Ram!Put, Ram!Files
<1>2. IsFiniteSet(Ram!Files \cup {p})
  BY FS_AddElement DEF RamIInv, RamTyped
<1>3. size' \in [Ram!Files' -> Nat]
  BY <1>1 DEF RamIInv, RamTyped
<1>4. last' \in [Ram!Files' -> Nat] /\ tick' \in Nat /\ Stamped'
  BY <1>1, TouchStamps DEF RamIInv, Ram!OpenNew
<1>5. RamTyped' /\ UsedWithinBudget'
  BY <1>1, <1>2, <1>3, <1>4 DEF RamIInv, RamTyped, UsedWithinBudget, Ram!UsedWithinBudget
<1> QED
  BY <1>1, <1>4, <1>5, NoneEvicted DEF RamIInv, Kept

\* The files that a write of p leaves, and those it does not.
LEMMA Leaves ==
  ASSUME RamIInv, NEW p \in Ram!Files, NEW offset \in 0..MaxLength, NEW n \in 0..MaxLength,
         NEW F, F = Ram!Files \ Ram!Evicted(p, offset, n)
  PROVE  /\ F \in SUBSET Ram!Files /\ Ram!Files \ F \in SUBSET Ram!Files
         /\ Ram!Growth(p, offset, n) \in Nat
         /\ Ram!Monus(used, Ram!Total(Ram!Files \ F)) \in Nat
         /\ Capacity > 0 => Ram!Monus(used, Ram!Total(Ram!Files \ F)) <= Capacity
         /\ Ram!Files' = F => Evicting(Ram!Files \ F) /\ IsFiniteSet(F)
<1>1. Ram!Evicted(p, offset, n) \in SUBSET Ram!Files /\ Ram!Oldest(Ram!Evicted(p, offset, n))
  BY EvictedAreOldest DEF RamIInv
<1>2. Ram!Files \ F = Ram!Evicted(p, offset, n) /\ F \in SUBSET Ram!Files
  BY <1>1
<1>3. IsFiniteSet(F)
  BY <1>2, FS_Subset DEF RamIInv, RamTyped
<1>4. Ram!Files' = F => Evicting(Ram!Files \ F)
  BY <1>1, <1>2 DEF Evicting
<1>5. Ram!Growth(p, offset, n) \in Nat
  BY GrowthIsNat DEF RamIInv
<1> QED
  BY <1>2, <1>3, <1>4, <1>5, LeftOf DEF RamIInv

\* Files go, without an access: what is still needed for the invariant is the bytes counted.
LEMMA RestKept ==
  ASSUME RamIInv, NEW F \in SUBSET Ram!Files, Evicting(Ram!Files \ F), IsFiniteSet(F),
         size' = Ram!Only(size, F), last' = Ram!Only(last, F),
         earlier' \subseteq Ram!Among(F), tick' \in {tick, tick + 1},
         used' \in Nat, Capacity > 0 => used' <= Capacity
  PROVE  Kept
<1>1. Ram!Files' = F /\ size' \in [F -> Nat]
  BY DEF Ram!Only, Ram!Files, RamIInv, RamTyped
<1>2. /\ \A p \in F : last'[p] = last[p]
      /\ DOMAIN last' = F /\ last' = [p \in F |-> last'[p]]
  BY DEF Ram!Only
<1>3. last' \in [F -> Nat] /\ tick' \in Nat /\ Stamped'
  BY <1>1, <1>2, RestStamps DEF RamIInv
<1>4. RamTyped'
  BY <1>1, <1>3 DEF RamTyped
<1>5. UsedWithinBudget'
  BY DEF UsedWithinBudget, Ram!UsedWithinBudget
<1> QED
  BY <1>3, <1>4, <1>5 DEF Kept, RamIInv

LEMMA AllGone ==
  ASSUME RamIInv, size' = << >>, last' = << >>, earlier' = {}, tick' = tick,
         used' \in Nat, Capacity > 0 => used' <= Capacity
  PROVE  Kept
<1>1. Ram!Files' = {} /\ {} \in SUBSET Ram!Files /\ IsFiniteSet({})
  BY FS_EmptySet DEF Ram!Files
<1>2. Evicting(Ram!Files \ {})
  BY <1>1 DEF Evicting, Ram!Oldest
<1>3. size' = Ram!Only(size, {}) /\ last' = Ram!Only(last, {})
  BY DEF Ram!Only
<1>4. earlier' \subseteq Ram!Among({})
  OBVIOUS
<1> QED
  BY <1>1, <1>2, <1>3, <1>4, RestKept

LEMMA WriteKept ==
  ASSUME RamIInv, NEW p, NEW offset \in 0..MaxLength, NEW n \in 0..MaxLength,
         Ram!WriteCharging(p, offset, n)
  PROVE  Kept
<1> DEFINE delta == Ram!Growth(p, offset, n)
           F == Ram!Files \ Ram!Evicted(p, offset, n)
           left == Ram!Monus(used, Ram!Total(Ram!Files \ F))
<1>1. p \in Ram!Files
  BY DEF Ram!WriteCharging
<1>2. /\ F \in SUBSET Ram!Files /\ Ram!Files \ F \in SUBSET Ram!Files /\ delta \in Nat
      /\ left \in Nat /\ (Capacity > 0 => left <= Capacity)
      /\ Ram!Files' = F => Evicting(Ram!Files \ F) /\ IsFiniteSet(F)
  BY <1>1, Leaves
<1>3. Ram!Monus(left, delta) \in Nat /\ Ram!Monus(left, delta) <= left
  BY <1>2, Monus
<1>4. Capacity > 0 => Ram!Monus(left, delta) <= Capacity
  BY <1>2, <1>3, CapacityAssumption
<1>5. Ram!Fits(Ram!Files \ F, delta) => (Capacity > 0 => left + delta <= Capacity)
  BY DEF Ram!Fits
<1>6. CASE Ram!WriteNoRoom(p, offset, n)
  <2>1. used' = Ram!Monus(used, Ram!Total(Ram!Files))
    BY <1>6 DEF Ram!WriteNoRoom
  <2>2. used' \in Nat /\ (Capacity > 0 => used' <= Capacity)
    BY <2>1, LeftOf DEF RamIInv
  <2> QED
    BY <1>6, <2>2, AllGone DEF Ram!WriteNoRoom
<1>7. CASE Ram!WriteFails(p, offset, n)
  <2>1. /\ size' = Ram!Only(size, F) /\ last' = Ram!Only(last, F) /\ earlier' = Ram!Among(F)
        /\ used' = Ram!Monus(left, delta) /\ tick' = tick
    BY <1>7 DEF Ram!WriteFails
  <2>2. Ram!Files' = F
    BY <2>1 DEF Ram!Only, Ram!Files
  <2> HIDE DEF F, left, delta
  <2> QED
    BY <1>2, <1>3, <1>4, <2>1, <2>2, RestKept
<1>8. CASE Ram!WriteDangling(p, offset, n)
  <2>1. /\ size' = Ram!Only(size, F) /\ last' = Ram!Only(last, F) /\ earlier' = Ram!Among(F)
        /\ Ram!Fits(Ram!Files \ F, delta) /\ tick' \in {tick, tick + 1}
        /\ used' \in {left + delta, Ram!Monus(left, delta)}
    BY <1>8 DEF Ram!WriteDangling
  <2>2. Ram!Files' = F
    BY <2>1 DEF Ram!Only, Ram!Files
  <2> HIDE DEF F, left, delta
  <2>3. used' \in Nat /\ (Capacity > 0 => used' <= Capacity)
    BY <1>2, <1>3, <1>4, <1>5, <2>1
  <2> QED
    BY <1>2, <2>1, <2>2, <2>3, RestKept
<1>9. CASE Ram!WriteSucceeds(p, offset, n)
  <2>1. /\ size' = Ram!Only([size EXCEPT ![p] = @ + delta], F) /\ p \in F
        /\ used' = left + delta /\ Ram!Touch(F, p)
        /\ delta > 0 => Ram!Fits(Ram!Files \ F, delta)
    BY <1>9 DEF Ram!WriteSucceeds
  <2> HIDE DEF F, left, delta
  <2>2. Ram!Files' = F
    BY <2>1 DEF Ram!Only, Ram!Files
  <2>3. size' \in [F -> Nat]
    <3>1. [size EXCEPT ![p] = @ + delta] \in [Ram!Files -> Nat]
      <4>1. size \in [Ram!Files -> Nat] /\ size[p] + delta \in Nat
        BY <1>1, <1>2 DEF RamIInv, RamTyped
      <4> QED
        BY <4>1
    <3> QED
      BY <3>1, <2>1, <1>2 DEF Ram!Only
  <2>4. last' \in [F -> Nat] /\ tick' \in Nat /\ Stamped'
    BY <1>2, <2>1, <2>2, TouchStamps DEF RamIInv
  <2>5. used' \in Nat /\ (Capacity > 0 => used' <= Capacity)
    BY <1>2, <1>5, <2>1
  <2>6. RamTyped' /\ UsedWithinBudget'
    BY <1>2, <2>2, <2>3, <2>4, <2>5 DEF RamTyped, UsedWithinBudget, Ram!UsedWithinBudget
  <2> QED
    BY <1>2, <2>2, <2>4, <2>6 DEF Kept, RamIInv
<1> QED
  BY <1>6, <1>7, <1>8, <1>9 DEF Ram!WriteCharging

\* What is written and truncated behind the file system's back is not counted.
LEMMA NodesKept ==
  ASSUME RamIInv, NEW p, NEW k \in Nat, p \in Ram!Files, size' = [size EXCEPT ![p] = k],
         UNCHANGED <<last, used, tick, earlier>>
  PROVE  Kept
<1>1. Ram!Files' = Ram!Files /\ size' \in [Ram!Files -> Nat]
  BY DEF RamIInv, RamTyped, Ram!Files
<1>2. RamTyped' /\ Stamped' /\ UsedWithinBudget'
  BY <1>1 DEF RamIInv, RamTyped, Stamped, UsedWithinBudget, Ram!UsedWithinBudget
<1> QED
  BY <1>1, <1>2, NoneEvicted DEF Kept, RamIInv

LEMMA RamKept ==
  ASSUME RamIInv, [Ram!Next]_Ram!vars
  PROVE  Kept
<1>1. CASE UNCHANGED Ram!vars
  <2>1. RamTyped' /\ Stamped' /\ UsedWithinBudget' /\ Ram!Files' = Ram!Files
    BY <1>1 DEF RamIInv, RamTyped, Stamped, UsedWithinBudget, Ram!UsedWithinBudget, Ram!vars,
                Ram!Files
  <2> QED
    BY <2>1, NoneEvicted DEF Kept, RamIInv
<1>2. CASE Ram!Clear
  BY <1>2, AllGone, CapacityAssumption DEF Ram!Clear
<1>3. ASSUME NEW p, NEW offset \in 0..MaxLength, NEW n \in 0..MaxLength,
             Ram!NodeWrite(p, offset, n)
      PROVE  Kept
  <2>1. size[p] \in Nat /\ offset + n \in Nat /\ p \in Ram!Files
    BY <1>3, CapacityAssumption DEF Ram!NodeWrite, RamIInv, RamTyped
  <2>2. Ram!Larger(size[p], offset + n) \in Nat
    BY <2>1 DEF Ram!Larger
  <2> QED
    BY <1>3, <2>1, <2>2, NodesKept DEF Ram!NodeWrite
<1>4. ASSUME NEW p, NEW n \in 0..MaxLength, Ram!NodeTruncate(p, n) PROVE Kept
  <2>1. n \in Nat
    BY CapacityAssumption
  <2> QED
    BY <1>4, <2>1, NodesKept DEF Ram!NodeTruncate
<1> QED
  BY <1>1, <1>2, <1>3, <1>4, LookupKept, OpenExistingKept, OpenNewKept, WriteKept DEF Ram!Next

LEMMA RamInit == Ram!Init => RamIInv
<1> SUFFICES ASSUME Ram!Init PROVE RamIInv
  OBVIOUS
<1>1. Ram!Files = {} /\ used = 0 /\ tick = 1 /\ earlier = {} /\ DOMAIN last = {}
  BY DEF Ram!Init, Ram!Files
<1>2. size \in [Ram!Files -> Nat] /\ last \in [Ram!Files -> Nat] /\ IsFiniteSet(Ram!Files)
  BY <1>1, FS_EmptySet DEF Ram!Init, Ram!Files
<1> QED
  BY <1>1, <1>2, CapacityAssumption
     DEF RamIInv, RamTyped, Stamped, UsedWithinBudget, Ram!UsedWithinBudget

LEMMA RamInvariant == StorageSpec => []RamIInv
<1>1. StorageInit => RamIInv
  BY RamInit DEF StorageInit
<1>2. RamIInv /\ [StorageNext]_storage => RamIInv'
  BY Separate, RamKept DEF Kept
<1> QED
  BY <1>1, <1>2, PTL DEF StorageSpec

\* RamFS::bytes_used_ never exceeds the capacity (ramfs.cpp write_charging,
\* reserve_locked, open with Truncate, clear), whatever is written to nodes on the side.
THEOREM BudgetIsKept == StorageSpec => []UsedWithinBudget
  BY RamInvariant, PTL DEF RamIInv

\* evict_oldest_locked: no file goes while one accessed before it stays.
THEOREM OldestGoFirst == StorageSpec => EvictionTakesOldest
<1>1. ASSUME RamIInv, [StorageNext]_storage
      PROVE  [\A e \in earlier : e[1] \in DOMAIN size' => e[2] \in DOMAIN size']_Ram!vars
  <2>1. PICK E : Evicting(E)
    BY <1>1, Separate, RamKept DEF Kept
  <2>2. ASSUME NEW e \in earlier, e[1] \in DOMAIN size' PROVE e[2] \in DOMAIN size'
    <3>1. PICK p, q \in Ram!Files : e = <<p, q>> /\ last[p] < last[q]
      BY <1>1 DEF RamIInv, Stamped
    <3>2. p \in Ram!Files' /\ Ram!Files' \cap Ram!Files = Ram!Files \ E
      BY <2>1, <2>2, <3>1 DEF Evicting, Ram!Files
    <3>3. last[p] \in Nat /\ last[q] \in Nat
      BY <1>1, <3>1 DEF RamIInv, RamTyped
    <3>4. q \notin E
      BY <2>1, <3>1, <3>2, <3>3 DEF Evicting, Ram!Oldest
    <3>5. q \in Ram!Files'
      BY <3>2, <3>4
    <3> QED
      BY <3>1, <3>5 DEF Ram!Files
  <2> QED
    BY <2>2
<1> QED
  BY <1>1, RamInvariant, PTL DEF StorageSpec, EvictionTakesOldest, Ram!EvictionTakesOldest

-----------------------------------------------------------------------------
(* OverlayFS.                                                              *)

Byte == Clients \cup {Zero} \cup UNION {{LowerFiles[p][i] : i \in DOMAIN LowerFiles[p]} :
                                          p \in DOMAIN LowerFiles}
Contents == Seq(Byte)

FilePaths == UpperPaths \cup Overlay!LowerPaths
CopyPcs == {"copy_up", "seed", "fill"}
OpenPcs == CopyPcs \cup {"open", "create"}
NodePcs == {"stat", "write", "read"}
Pcs == OpenPcs \cup NodePcs \cup {"idle", "lookup"}

Calls ==
  [kind : Overlay!CallKinds \cup {"none"}, path : FilePaths \cup {"none"}, pc : Pcs,
   node : {"none", "upper", "lower"}, size : Nat, got : Contents, base : Contents,
   alone : BOOLEAN, calls : Nat]

OverlayTyped ==
  /\ lower = LowerFiles /\ upper \in [DOMAIN upper -> Contents] /\ call \in [Clients -> Calls]

\* Where a client is: it knows its path, it copies up under the mutex m what is not in the
\* upper layer, which has the paths U, and when it writes the file is there.
PlaceOf(c, q, U, m) ==
  /\ q.pc # "idle" => q.kind \in Overlay!CallKinds /\ q.path \in FilePaths
  /\ q.pc = "idle" => q.kind = "none"
  /\ q.pc \in OpenPcs => Overlay!Writes(q.kind)
  /\ q.pc \in OpenPcs \cup {"lookup", "stat"} => q.size = 0
  /\ q.pc # "fill" /\ q.pc # "read" => q.got = <<>>
  /\ q.pc \in CopyPcs => q.path \in Overlay!LowerPaths
  /\ q.pc = "create" => q.path \notin Overlay!LowerPaths
  /\ q.pc \in {"seed", "fill"} => m = {c}
  /\ q.pc = "seed" => q.path \notin U
  /\ q.pc = "fill" => q.path \in U /\ q.got = LowerFiles[q.path]
  /\ q.pc \in NodePcs \cup {"lookup"} /\ Overlay!Writes(q.kind) => q.path \in U
  /\ q.pc \in NodePcs => q.node \in {"upper", "lower"}
  /\ q.pc \in NodePcs /\ Overlay!Writes(q.kind) => q.node = "upper"
  /\ q.pc \in NodePcs /\ q.node = "upper" => q.path \in U
  /\ q.pc \in NodePcs /\ q.node = "lower" => q.path \in Overlay!LowerPaths
  /\ q.pc = "write" => Overlay!Writes(q.kind) /\ (q.kind = "write_all" => q.size = 0)
  /\ q.pc = "read" => q.kind = "read_all"
  /\ q.pc = "stat" => q.kind # "write_all"

Places == \A c \in Clients : PlaceOf(c, call[c], DOMAIN upper, mu)

\* A client that is alone with its path, with record q, sees there what was there when it
\* began, but for the time in which it copies it up; the upper layer is U.
Sees(U, p) == IF p \in DOMAIN U THEN U[p]
              ELSE IF p \in Overlay!LowerPaths THEN LowerFiles[p] ELSE <<>>

SeesAll(q, U) ==
  LET p == q.path
  IN  /\ q.pc = "fill" => LowerFiles[p] = q.base /\ U[p] = <<>>
      /\ q.pc # "fill" => Sees(U, p) = q.base
      /\ q.pc \in {"copy_up", "seed", "create"} => p \notin DOMAIN U
      /\ q.pc \in NodePcs /\ q.node = "lower" => p \notin DOMAIN U
      /\ q.pc = "write" /\ q.kind = "append" => q.size = Len(q.base)
      /\ q.pc = "read" => /\ q.size = Len(q.base) /\ Len(q.got) <= Len(q.base)
                          /\ \A i \in 1..Len(q.got) : q.got[i] = q.base[i]

\* Another client that has the path does not write.
NobodyElse(calls, c, p) ==
  \A d \in Clients \ {c} :
    calls[d].path = p /\ calls[d].pc # "idle" => ~Overlay!Writes(calls[d].kind)

Undisturbed ==
  \A c \in Clients :
    call[c].alone /\ call[c].pc # "idle" =>
      NobodyElse(call, c, call[c].path) /\ SeesAll(call[c], upper)

OverlayIInv == OverlayTyped /\ Places /\ Undisturbed

LEMMA NoContents == <<>> \in Contents
  BY DEF Contents

LEMMA LowerContents ==
  \A p \in Overlay!LowerPaths : LowerFiles[p] \in Contents
<1> SUFFICES ASSUME NEW p \in DOMAIN LowerFiles PROVE LowerFiles[p] \in Contents
  BY DEF Overlay!LowerPaths
<1> DEFINE mine == {LowerFiles[p][i] : i \in DOMAIN LowerFiles[p]}
<1>1. LowerFiles[p] \in Seq(mine)
  BY LowerFilesAssumption
<1>2. mine \subseteq Byte
  BY DEF Byte
<1> HIDE DEF mine
<1> QED
  BY <1>1, <1>2 DEF Contents

LEMMA OverlayInit == Overlay!Init => OverlayIInv
<1> SUFFICES ASSUME Overlay!Init PROVE OverlayIInv
  OBVIOUS
<1> USE DEF Overlay!Init, Overlay!Idle
<1>1. upper \in [DOMAIN upper -> Contents]
  OBVIOUS
<1>2. call \in [Clients -> Calls]
  BY DEF Calls, Pcs, Contents
<1>3. OverlayTyped
  BY <1>1, <1>2 DEF OverlayTyped
<1>4. Places
  BY DEF Places, PlaceOf, OpenPcs, CopyPcs, NodePcs
<1>5. Undisturbed
  BY DEF Undisturbed
<1> QED
  BY <1>3, <1>4, <1>5 DEF OverlayIInv

\* MemVNode::write never makes a file shorter, and past its end it appends.
LEMMA WrittenOf ==
  ASSUME NEW data \in Contents, NEW offset \in Nat, NEW bytes \in Contents
  PROVE  /\ Overlay!Written(data, offset, bytes) \in Contents
         /\ Len(Overlay!Written(data, offset, bytes)) >= Len(data)
<1> DEFINE n == IF Len(data) > offset + Len(bytes) THEN Len(data) ELSE offset + Len(bytes)
           value(i) == IF i > offset /\ i <= offset + Len(bytes) THEN bytes[i - offset]
                       ELSE IF i <= Len(data) THEN data[i] ELSE Zero
<1>1. n \in Nat /\ n >= Len(data)
  BY DEF Contents
<1>2. \A i \in 1..n : value(i) \in Byte
  BY DEF Contents, Byte
<1>3. Overlay!Written(data, offset, bytes) = [i \in 1..n |-> value(i)]
  BY DEF Overlay!Written
<1> HIDE DEF n, value
<1>4. [i \in 1..n |-> value(i)] \in Seq(Byte) /\ Len([i \in 1..n |-> value(i)]) = n
  BY <1>1, <1>2
<1> QED
  BY <1>1, <1>3, <1>4 DEF Contents

\* A step of one client.
Turn(c) ==
  \/ \E kind \in Overlay!CallKinds, p \in FilePaths : Overlay!Call(c, kind, p)
  \/ Overlay!Open(c) \/ Overlay!CopyUp(c) \/ Overlay!CopyUpOpen(c)
  \/ Overlay!CopyUpWrite(c) \/ Overlay!Create(c)
  \/ Overlay!Lookup(c) \/ Overlay!Stat(c) \/ Overlay!Write(c) \/ Overlay!Read(c)

LEMMA TypedKept ==
  ASSUME OverlayIInv, NEW c \in Clients,
         Turn(c)
  PROVE  OverlayTyped'
<1> USE DEF OverlayIInv
<1>0. call[c] \in Calls /\ upper \in [DOMAIN upper -> Contents] /\ lower = LowerFiles
  BY DEF OverlayTyped
<1>1. ASSUME NEW kind \in Overlay!CallKinds, NEW p \in FilePaths, Overlay!Call(c, kind, p)
      PROVE  OverlayTyped'
  <2>1. Overlay!View(p) \in Contents
    BY <1>0, LowerContents DEF Overlay!View, Overlay!Has, Contents, Overlay!LowerPaths
  <2>2. ASSUME NEW d \in Clients PROVE call'[d] \in Calls
    <3>1. call[d] \in Calls /\ call[c].calls \in Nat
      BY <1>0 DEF OverlayTyped, Calls
    <3>2. CASE d = c
      <4>1. PICK a \in BOOLEAN :
              call'[c] = [Overlay!Idle EXCEPT !.kind = kind, !.path = p,
                            !.base = Overlay!View(p),
                            !.pc = IF Overlay!Writes(kind) THEN "open" ELSE "lookup",
                            !.alone = a, !.calls = call[c].calls + 1]
        BY <1>1 DEF Overlay!Call
      <4>2. call'[c] = [kind |-> kind, path |-> p,
                        pc |-> IF Overlay!Writes(kind) THEN "open" ELSE "lookup",
                        node |-> "none", size |-> 0, got |-> <<>>, base |-> Overlay!View(p),
                        alone |-> a, calls |-> call[c].calls + 1]
        BY <4>1 DEF Overlay!Idle
      <4> QED
        BY <4>2, <3>1, <3>2, <2>1, NoContents DEF Calls, Pcs, OpenPcs
    <3>3. CASE d # c
      <4>1. PICK a \in BOOLEAN : call'[d] = [call[d] EXCEPT !.alone = a]
        <5>1. call'[d] = [call[d] EXCEPT !.alone =
                 call[d].alone /\ ~(d \in {e \in Clients \ {c} : call[e].path = p}
                                    /\ Overlay!Writes(kind))]
          BY <1>1, <3>3 DEF Overlay!Call
        <5> QED
          BY <5>1, <3>1 DEF Calls
      <4> QED
        BY <4>1, <3>1 DEF Calls
    <3> QED
      BY <3>2, <3>3
  <2> QED
    BY <2>2, <1>0, <1>1 DEF OverlayTyped, Overlay!Call
<1>2. CASE Overlay!Open(c)
  BY <1>0, <1>2 DEF OverlayTyped, Overlay!Open, Overlay!Goto, Calls, Pcs, OpenPcs, CopyPcs
<1>3. CASE Overlay!CopyUp(c)
  BY <1>0, <1>3 DEF OverlayTyped, Overlay!CopyUp, Overlay!Goto, Calls, Pcs, OpenPcs, CopyPcs
<1>4. CASE Overlay!CopyUpOpen(c)
  <2>1. call[c].path \in Overlay!LowerPaths /\ lower[call[c].path] \in Contents
    BY <1>0, <1>4, LowerContents
       DEF Places, PlaceOf, Overlay!CopyUpOpen, Overlay!At, CopyPcs, Overlay!LowerPaths
  <2>2. call' \in [Clients -> Calls]
    BY <2>1, <1>0, <1>4 DEF OverlayTyped, Overlay!CopyUpOpen, Calls, Pcs, OpenPcs, CopyPcs
  <2>3. upper' \in [DOMAIN upper' -> Contents]
    BY <1>0, <1>4 DEF Overlay!CopyUpOpen, Overlay!Put, Contents
  <2> QED
    BY <2>2, <2>3, <1>0, <1>4 DEF OverlayTyped, Overlay!CopyUpOpen
<1>5. CASE Overlay!CopyUpWrite(c)
  <2>1. /\ call[c].path \in DOMAIN upper /\ upper[call[c].path] \in Contents
        /\ call[c].got \in Contents
    BY <1>0, <1>5 DEF Places, PlaceOf, Overlay!CopyUpWrite, Overlay!At, Overlay!Has, Calls
  <2>2. Overlay!Written(upper[call[c].path], 0, call[c].got) \in Contents
    BY <2>1, WrittenOf
  <2>3. call' \in [Clients -> Calls]
    BY <1>0, <1>5, NoContents DEF OverlayTyped, Overlay!CopyUpWrite, Calls, Pcs
  <2>4. upper' \in [DOMAIN upper' -> Contents]
    BY <2>2, <1>0, <1>5 DEF Overlay!CopyUpWrite
  <2> QED
    BY <2>3, <2>4, <1>0, <1>5 DEF OverlayTyped, Overlay!CopyUpWrite
<1>6. CASE Overlay!Create(c)
  <2>1. upper' \in [DOMAIN upper' -> Contents]
    BY <1>0, <1>6 DEF Overlay!Create, Overlay!Put, Contents
  <2>2. call' \in [Clients -> Calls]
    BY <1>0, <1>6 DEF OverlayTyped, Overlay!Create, Overlay!Goto, Calls, Pcs
  <2> QED
    BY <2>1, <2>2, <1>0, <1>6 DEF OverlayTyped, Overlay!Create
<1>7. Overlay!Done(c) \in Calls
  BY <1>0, NoContents DEF Overlay!Done, Overlay!Idle, Calls, Pcs
<1>8. CASE Overlay!Lookup(c)
  BY <1>0, <1>7, <1>8 DEF OverlayTyped, Overlay!Lookup, Calls, Pcs, NodePcs
<1>9. ASSUME call[c].pc \in NodePcs PROVE Overlay!Node(c) \in Contents
  BY <1>0, <1>9, LowerContents
     DEF Overlay!Node, Places, PlaceOf, Overlay!Has, Contents, Overlay!LowerPaths
<1>10. CASE Overlay!Stat(c)
  <2>1. Len(Overlay!Node(c)) \in Nat
    BY <1>9, <1>10 DEF Overlay!Stat, Overlay!At, NodePcs, Contents
  <2> QED
    BY <2>1, <1>0, <1>10 DEF OverlayTyped, Overlay!Stat, Calls, Pcs, NodePcs
<1>11. CASE Overlay!Write(c)
  <2>1. /\ call[c].node = "upper" /\ call[c].path \in DOMAIN upper
        /\ upper[call[c].path] \in Contents /\ call[c].size \in Nat /\ <<c>> \in Contents
    BY <1>0, <1>11 
       DEF Places, PlaceOf, Overlay!Write, Overlay!At, Overlay!Has, Calls, NodePcs, Contents, Byte
  <2>2. Overlay!Written(upper[call[c].path], call[c].size, <<c>>) \in Contents
    BY <2>1, WrittenOf
  <2>3. call' \in [Clients -> Calls]
    BY <1>0, <1>7, <1>11 DEF OverlayTyped, Overlay!Write
  <2>4. upper' \in [DOMAIN upper' -> Contents] /\ lower' = lower
    BY <2>1, <2>2, <1>0, <1>11 DEF Overlay!Write, Overlay!WriteNode
  <2> QED
    BY <2>3, <2>4, <1>0 DEF OverlayTyped
<1>12. CASE Overlay!Read(c)
  <2> DEFINE at == Len(call[c].got)
             to == IF call[c].size < Len(Overlay!Node(c)) THEN call[c].size ELSE Len(Overlay!Node(c))
             more == SubSeq(Overlay!Node(c), at + 1, to)
  <2>1. Overlay!Node(c) \in Contents /\ call[c].got \in Contents /\ call[c].size \in Nat
    BY <1>0, <1>9, <1>12 DEF Overlay!Read, Overlay!At, NodePcs, Calls
  <2>2. at \in Nat /\ to \in 0..Len(Overlay!Node(c))
    BY <2>1 DEF Contents
  <2>3. more \in Contents
    BY <2>1, <2>2 DEF Contents
  <2>4. call[c].got \o more \in Contents
    BY <2>1, <2>3 DEF Contents
  <2> DEFINE joined == call[c].got \o more
  <2>5. \/ call' = [call EXCEPT ![c] = Overlay!Done(c)]
        \/ call' = [call EXCEPT ![c].got = joined]
    BY <1>12 DEF Overlay!Read
  <2> HIDE DEF joined
  <2>6. call' \in [Clients -> Calls]
    <3>1. joined \in Contents
      BY <2>4 DEF joined
    <3>2. [call[c] EXCEPT !.got = joined] \in Calls
      BY <3>1, <1>0 DEF Calls
    <3> QED
      BY <2>5, <3>2, <1>0, <1>7 DEF OverlayTyped
  <2> QED
    BY <2>6, <1>0, <1>12 DEF OverlayTyped, Overlay!Read
<1> QED
  BY <1>1, <1>2, <1>3, <1>4, <1>5, <1>6, <1>8, <1>10, <1>11, <1>12 DEF Turn

\* The steps of c leave the others their calls, but that they may be alone no more.
Leaves1(c) ==
  \A d \in Clients \ {c} :
    \E a \in BOOLEAN : call'[d] = [call[d] EXCEPT !.alone = a] /\ (a => call[d].alone)

LEMMA OthersKeepCalls ==
  ASSUME OverlayTyped, NEW c \in Clients, Turn(c)
  PROVE  Leaves1(c)
<1> SUFFICES ASSUME NEW d \in Clients \ {c}
             PROVE  \E a \in BOOLEAN : call'[d] = [call[d] EXCEPT !.alone = a]
                                       /\ (a => call[d].alone)
  BY DEF Leaves1
<1>0. call[d] \in Calls
  BY DEF OverlayTyped
<1>1. ASSUME NEW kind, NEW p, Overlay!Call(c, kind, p)
      PROVE  \E a \in BOOLEAN : call'[d] = [call[d] EXCEPT !.alone = a] /\ (a => call[d].alone)
  <2> DEFINE a == call[d].alone /\ ~(d \in {e \in Clients \ {c} : call[e].path = p}
                                     /\ Overlay!Writes(kind))
  <2>1. call'[d] = [call[d] EXCEPT !.alone = a]
    BY <1>1 DEF Overlay!Call
  <2>2. a \in BOOLEAN /\ (a => call[d].alone)
    BY <1>0 DEF Calls
  <2> HIDE DEF a
  <2> QED
    BY <2>1, <2>2
<1>2. CASE call'[d] = call[d]
  <2>1. call[d] = [call[d] EXCEPT !.alone = call[d].alone] /\ call[d].alone \in BOOLEAN
    BY <1>0 DEF Calls
  <2> QED
    BY <1>2, <2>1
<1>3. CASE \/ Overlay!Open(c) \/ Overlay!CopyUp(c) \/ Overlay!CopyUpOpen(c)
           \/ Overlay!CopyUpWrite(c) \/ Overlay!Create(c)
           \/ Overlay!Lookup(c) \/ Overlay!Stat(c) \/ Overlay!Write(c) \/ Overlay!Read(c)
  <2>1. call'[d] = call[d]
    BY <1>3 DEF OverlayTyped, Overlay!Open, Overlay!CopyUp, Overlay!CopyUpOpen,
       Overlay!CopyUpWrite, Overlay!Create, Overlay!Lookup, Overlay!Stat, Overlay!Write,
       Overlay!Read, Overlay!Goto
  <2> QED
    BY <1>2, <2>1
<1> QED
  BY <1>1, <1>3 DEF Turn

\* What the step of c must not do to the place of another.
LEMMA OthersKeepPlaces ==
  ASSUME OverlayTyped, Places, NEW c \in Clients, Leaves1(c), DOMAIN upper \subseteq DOMAIN upper',
         NEW d \in Clients \ {c},
         call[d].pc = "seed" => call[d].path \notin DOMAIN upper',
         call[d].pc \in {"seed", "fill"} => mu' = {d}
  PROVE  PlaceOf(d, call'[d], DOMAIN upper', mu')
<1>1. PICK a \in BOOLEAN : call'[d] = [call[d] EXCEPT !.alone = a]
  BY DEF Leaves1
<1>2. /\ call'[d].kind = call[d].kind /\ call'[d].path = call[d].path
      /\ call'[d].pc = call[d].pc /\ call'[d].node = call[d].node
      /\ call'[d].size = call[d].size /\ call'[d].got = call[d].got
  BY <1>1 DEF OverlayTyped, Calls
<1>3. PlaceOf(d, call[d], DOMAIN upper, mu)
  BY DEF Places
<1> QED
  BY <1>2, <1>3 DEF PlaceOf

\* Each step, for the client that takes it and for the others.
LEMMA PlacesKept ==
  ASSUME OverlayIInv, NEW c \in Clients, Turn(c)
  PROVE  Places'
<1> USE DEF OverlayIInv
<1> DEFINE q == call[c]
           Stays == /\ DOMAIN upper \subseteq DOMAIN upper'
                    /\ \A d \in Clients \ {c} :
                         /\ call[d].pc = "seed" => call[d].path \notin DOMAIN upper'
                         /\ call[d].pc \in {"seed", "fill"} => mu' = {d}
           Mine == PlaceOf(c, call'[c], DOMAIN upper', mu')
<1>0. q \in Calls /\ PlaceOf(c, q, DOMAIN upper, mu)
  BY DEF OverlayTyped, Places
<1>1. UNCHANGED <<DOMAIN upper, mu>> => Stays
  BY DEF Places, PlaceOf
<1> SUFFICES Stays /\ Mine
  BY OthersKeepCalls, OthersKeepPlaces DEF Places
<1>2. ASSUME NEW kind \in Overlay!CallKinds, NEW p \in FilePaths, Overlay!Call(c, kind, p)
      PROVE  Stays /\ Mine
  <2>1. /\ call'[c].kind = kind /\ call'[c].path = p
        /\ call'[c].pc = IF Overlay!Writes(kind) THEN "open" ELSE "lookup"
        /\ call'[c].size = 0 /\ call'[c].got = <<>>
    BY <1>2 DEF OverlayTyped, Overlay!Call, Overlay!Idle
  <2>2. Mine
    BY <2>1 DEF PlaceOf, OpenPcs, CopyPcs, NodePcs
  <2> QED
    BY <1>1, <1>2, <2>2 DEF Overlay!Call
<1>3. CASE Overlay!Open(c)
  <2>1. /\ q.pc = "open" /\ UNCHANGED <<upper, mu>>
        /\ call'[c] = [q EXCEPT !.pc = IF q.path \in DOMAIN upper THEN "lookup"
                                       ELSE IF q.path \in DOMAIN lower THEN "copy_up" ELSE "create"]
    BY <1>3 DEF OverlayTyped, Overlay!Open, Overlay!Goto, Overlay!At, Overlay!Has
  <2>2. DOMAIN lower = Overlay!LowerPaths
    BY DEF OverlayTyped, Overlay!LowerPaths
  <2>3. Mine
    <3> HIDE DEF q
    <3> QED
      BY <1>0, <2>1, <2>2 DEF PlaceOf, OpenPcs, CopyPcs, NodePcs, Calls
  <2> QED
    BY <1>1, <2>1, <2>3
<1>4. CASE Overlay!CopyUp(c)
  <2>1. /\ q.pc = "copy_up" /\ UNCHANGED upper /\ mu = {}
        /\ \/ /\ q.path \in DOMAIN upper /\ mu' = mu
              /\ call'[c] = [q EXCEPT !.pc = "lookup"]
           \/ /\ q.path \notin DOMAIN upper /\ mu' = {c}
              /\ call'[c] = [q EXCEPT !.pc = "seed"]
    BY <1>4 DEF OverlayTyped, Overlay!CopyUp, Overlay!Goto, Overlay!At, Overlay!Has
  <2>2. Stays
    BY <2>1 DEF Places, PlaceOf
  <2>3. Mine
    <3> HIDE DEF q
    <3> QED
      BY <1>0, <2>1 DEF PlaceOf, OpenPcs, CopyPcs, NodePcs, Calls
  <2> QED
    BY <2>2, <2>3
<1>5. CASE Overlay!CopyUpOpen(c)
  <2>1. /\ q.pc = "seed" /\ DOMAIN upper' = DOMAIN upper \cup {q.path} /\ mu' = mu
        /\ call'[c] = [q EXCEPT !.pc = "fill", !.got = LowerFiles[q.path]]
    BY <1>5 DEF OverlayTyped, Overlay!CopyUpOpen, Overlay!At, Overlay!Put
  <2>2. mu = {c}
    BY <1>0, <2>1 DEF PlaceOf
  <2>3. Stays
    BY <2>1, <2>2 DEF Places, PlaceOf
  <2>4. Mine
    <3> HIDE DEF q
    <3> QED
      BY <1>0, <2>1 DEF PlaceOf, OpenPcs, CopyPcs, NodePcs, Calls
  <2> QED
    BY <2>3, <2>4
<1>6. CASE Overlay!CopyUpWrite(c)
  <2>1. /\ q.pc = "fill" /\ DOMAIN upper' = DOMAIN upper /\ mu' = {}
        /\ call'[c] = [q EXCEPT !.pc = "lookup", !.got = <<>>]
    BY <1>6 DEF OverlayTyped, Overlay!CopyUpWrite, Overlay!At
  <2>2. mu = {c}
    BY <1>0, <2>1 DEF PlaceOf
  <2>3. Stays
    BY <2>1, <2>2 DEF Places, PlaceOf
  <2>4. Mine
    <3> HIDE DEF q
    <3> QED
      BY <1>0, <2>1 DEF PlaceOf, OpenPcs, CopyPcs, NodePcs, Calls
  <2> QED
    BY <2>3, <2>4
<1>7. CASE Overlay!Create(c)
  <2>1. /\ q.pc = "create" /\ DOMAIN upper' = DOMAIN upper \cup {q.path} /\ mu' = mu
        /\ call'[c] = [q EXCEPT !.pc = "lookup"]
    BY <1>7 DEF OverlayTyped, Overlay!Create, Overlay!At, Overlay!Put, Overlay!Goto, Overlay!Has
  <2>2. q.path \notin Overlay!LowerPaths
    BY <1>0, <2>1 DEF PlaceOf
  <2>3. Stays
    BY <2>1, <2>2 DEF Places, PlaceOf, CopyPcs
  <2>4. Mine
    <3> HIDE DEF q
    <3> QED
      BY <1>0, <2>1 DEF PlaceOf, OpenPcs, CopyPcs, NodePcs, Calls
  <2> QED
    BY <2>3, <2>4
<1>8. ASSUME call'[c] = Overlay!Done(c) PROVE Mine
  BY <1>8 DEF Overlay!Done, Overlay!Idle, PlaceOf, OpenPcs, CopyPcs, NodePcs
<1>9. CASE Overlay!Lookup(c)
  <2>1. /\ q.pc = "lookup" /\ UNCHANGED <<upper, mu>>
        /\ \/ call'[c] = Overlay!Done(c)
           \/ /\ q.path \in DOMAIN upper \/ q.path \in DOMAIN lower
              /\ call'[c] = [q EXCEPT !.node = IF q.path \in DOMAIN upper THEN "upper" ELSE "lower",
                                      !.pc = IF q.kind = "write_all" THEN "write" ELSE "stat"]
    BY <1>9 DEF OverlayTyped, Overlay!Lookup, Overlay!At, Overlay!Has
  <2>2. DOMAIN lower = Overlay!LowerPaths
    BY DEF OverlayTyped, Overlay!LowerPaths
  <2>3. Mine
    <3>1. CASE call'[c] = Overlay!Done(c)
      BY <1>8, <3>1
    <3>2. CASE call'[c] # Overlay!Done(c)
      <4> HIDE DEF q
      <4> QED
        BY <1>0, <2>1, <2>2, <3>2, ZenonT(60)
           DEF PlaceOf, OpenPcs, CopyPcs, NodePcs, Calls, Overlay!Writes
    <3> QED
      BY <3>1, <3>2
  <2> QED
    BY <1>1, <2>1, <2>3
<1>10. CASE Overlay!Stat(c)
  <2>1. /\ q.pc = "stat" /\ UNCHANGED <<upper, mu>>
        /\ call'[c] = [q EXCEPT !.size = Len(Overlay!Node(c)),
                                !.pc = IF q.kind = "append" THEN "write" ELSE "read"]
    BY <1>10 DEF OverlayTyped, Overlay!Stat, Overlay!At
  <2>2. q.kind \in {"read_all", "append"}
    BY <1>0, <2>1 DEF PlaceOf, Overlay!CallKinds
  <2>3. Mine
    <3> HIDE DEF q
    <3> QED
      BY <1>0, <2>1, <2>2 DEF PlaceOf, OpenPcs, CopyPcs, NodePcs, Calls, Overlay!Writes
  <2> QED
    BY <1>1, <2>1, <2>3
<1>11. CASE Overlay!Write(c)
  <2>1. call'[c] = Overlay!Done(c) /\ mu' = mu
    BY <1>11 DEF OverlayTyped, Overlay!Write
  <2>2. DOMAIN upper' = DOMAIN upper
    BY <1>11 DEF Overlay!Write, Overlay!WriteNode
  <2> QED
    BY <1>1, <1>8, <2>1, <2>2
<1>12. CASE Overlay!Read(c)
  <2>1. /\ q.pc = "read" /\ UNCHANGED <<upper, mu>>
        /\ \/ call'[c] = Overlay!Done(c)
           \/ \E more : call'[c] = [q EXCEPT !.got = more]
    BY <1>12 DEF OverlayTyped, Overlay!Read, Overlay!At
  <2>2. Mine
    <3>1. CASE call'[c] = Overlay!Done(c)
      BY <1>8, <3>1
    <3>2. ASSUME NEW more, call'[c] = [q EXCEPT !.got = more] PROVE Mine
      <4> HIDE DEF q
      <4> QED
        BY <1>0, <2>1, <3>2 DEF PlaceOf, OpenPcs, CopyPcs, NodePcs, Calls
    <3> QED
      BY <2>1, <3>1, <3>2
  <2> QED
    BY <1>1, <2>1, <2>2
<1> QED
  BY <1>2, <1>3, <1>4, <1>5, <1>6, <1>7, <1>9, <1>10, <1>11, <1>12 DEF Turn

LEMMA WrittenAll ==
  ASSUME NEW data \in Contents
  PROVE  Overlay!Written(<<>>, 0, data) = data
<1>1. Len(data) \in Nat /\ DOMAIN data = 1..Len(data) /\ data = [i \in 1..Len(data) |-> data[i]]
  BY DEF Contents
<1>2. Overlay!Written(<<>>, 0, data) = [i \in 1..Len(data) |-> data[i]]
  BY <1>1 DEF Overlay!Written
<1> QED
  BY <1>1, <1>2

LEMMA WrittenAtEnd ==
  ASSUME NEW data \in Contents, NEW c \in Clients
  PROVE  Overlay!Written(data, Len(data), <<c>>) = Append(data, c)
<1>1. Len(data) \in Nat /\ data \in Seq(Byte) /\ c \in Byte
  BY DEF Contents, Byte
<1>2. Append(data, c) = [i \in 1..Len(data) + 1 |-> IF i = Len(data) + 1 THEN c ELSE data[i]]
  <2> DEFINE A == Append(data, c)
  <2>1. /\ A \in Seq(Byte) /\ Len(A) = Len(data) + 1
        /\ \A i \in 1..Len(data) + 1 : A[i] = IF i = Len(data) + 1 THEN c ELSE data[i]
    BY <1>1
  <2> HIDE DEF A
  <2>2. A = [i \in 1..Len(data) + 1 |-> A[i]]
    BY <2>1
  <2>3. A = [i \in 1..Len(data) + 1 |-> IF i = Len(data) + 1 THEN c ELSE data[i]]
    BY <2>1, <2>2
  <2> QED
    BY <2>3 DEF A
<1>3. Overlay!Written(data, Len(data), <<c>>) =
        [i \in 1..Len(data) + 1 |-> IF i > Len(data) THEN c ELSE data[i]]
  BY <1>1 DEF Overlay!Written
<1>4. \A i \in 1..Len(data) + 1 : i > Len(data) <=> i = Len(data) + 1
  BY <1>1
<1> QED
  BY <1>2, <1>3, <1>4

LEMMA ViewIsSees ==
  ASSUME OverlayTyped, NEW p
  PROVE  Overlay!View(p) = Sees(upper, p)
  BY DEF OverlayTyped, Overlay!View, Overlay!Has, Sees, Overlay!LowerPaths

LEMMA NodeIsSees ==
  ASSUME OverlayIInv, NEW c \in Clients, call[c].alone, call[c].pc \in NodePcs
  PROVE  Overlay!Node(c) = call[c].base
<1> USE DEF OverlayIInv
<1>1. call[c].node \in {"upper", "lower"} /\ PlaceOf(c, call[c], DOMAIN upper, mu)
  BY DEF Places, PlaceOf
<1>2. SeesAll(call[c], upper) /\ call[c].pc # "fill"
  BY DEF Undisturbed, NodePcs
<1>3. Sees(upper, call[c].path) = call[c].base
  BY <1>2 DEF SeesAll
<1>4. CASE call[c].node = "upper"
  BY <1>1, <1>3, <1>4 DEF PlaceOf, Sees, Overlay!Node
<1>5. CASE call[c].node = "lower"
  BY <1>1, <1>2, <1>3, <1>5 DEF PlaceOf, SeesAll, Sees, Overlay!Node, OverlayTyped
<1> QED
  BY <1>1, <1>4, <1>5

\* A step of c changes the upper layer at its path only, and only when it writes.
LEMMA ChangesOwnPath ==
  ASSUME OverlayIInv, NEW c \in Clients, Turn(c), NEW p,
         p # call[c].path \/ ~Overlay!Writes(call[c].kind)
  PROVE  /\ p \in DOMAIN upper' <=> p \in DOMAIN upper
         /\ p \in DOMAIN upper => upper'[p] = upper[p]
<1> USE DEF OverlayIInv
<1>0. PlaceOf(c, call[c], DOMAIN upper, mu)
  BY DEF Places
<1>1. CASE UNCHANGED upper
  BY <1>1
<1>2. CASE Overlay!CopyUpOpen(c)
  BY <1>0, <1>2 DEF PlaceOf, OpenPcs, CopyPcs, Overlay!CopyUpOpen, Overlay!At, Overlay!Put
<1>3. CASE Overlay!CopyUpWrite(c)
  BY <1>0, <1>3 DEF PlaceOf, OpenPcs, CopyPcs, Overlay!CopyUpWrite, Overlay!At
<1>4. CASE Overlay!Create(c)
  BY <1>0, <1>4 DEF PlaceOf, OpenPcs, CopyPcs, Overlay!Create, Overlay!At, Overlay!Put
<1>5. CASE Overlay!Write(c)
  BY <1>0, <1>5 DEF PlaceOf, NodePcs, Overlay!Write, Overlay!At, Overlay!WriteNode
<1>6. CASE \/ \E kind \in Overlay!CallKinds, q \in FilePaths : Overlay!Call(c, kind, q)
           \/ Overlay!Open(c) \/ Overlay!CopyUp(c)
           \/ Overlay!Lookup(c) \/ Overlay!Stat(c) \/ Overlay!Read(c)
  <2>1. UNCHANGED upper
    BY <1>6 DEF Overlay!Call, Overlay!Open, Overlay!CopyUp, Overlay!Lookup, Overlay!Stat,
                Overlay!Read
  <2> QED
    BY <1>1, <2>1
<1> QED
  BY <1>2, <1>3, <1>4, <1>5, <1>6 DEF Turn

\* The call of c goes on with its kind and path, ends, or has just begun.
LEMMA CallGoesOn ==
  ASSUME OverlayTyped, NEW c \in Clients, Turn(c)
  PROVE  \/ /\ call'[c].kind = call[c].kind /\ call'[c].path = call[c].path
            /\ call'[c].alone = call[c].alone /\ call'[c].base = call[c].base
            /\ call[c].pc # "idle"
         \/ call'[c] = Overlay!Done(c)
         \/ \E kind \in Overlay!CallKinds, p \in FilePaths : Overlay!Call(c, kind, p)
<1>0. call[c] \in Calls
  BY DEF OverlayTyped
<1> USE DEF OverlayTyped, Overlay!At
<1>1. CASE Overlay!Open(c)
  BY <1>0, <1>1 DEF Overlay!Open, Overlay!Goto, Calls
<1>2. CASE Overlay!CopyUp(c)
  BY <1>0, <1>2 DEF Overlay!CopyUp, Overlay!Goto, Calls
<1>3. CASE Overlay!CopyUpOpen(c)
  BY <1>0, <1>3 DEF Overlay!CopyUpOpen, Calls
<1>4. CASE Overlay!CopyUpWrite(c)
  BY <1>0, <1>4 DEF Overlay!CopyUpWrite, Calls
<1>5. CASE Overlay!Create(c)
  BY <1>0, <1>5 DEF Overlay!Create, Overlay!Goto, Calls
<1>6. CASE Overlay!Lookup(c)
  BY <1>0, <1>6 DEF Overlay!Lookup, Calls
<1>7. CASE Overlay!Stat(c)
  BY <1>0, <1>7 DEF Overlay!Stat, Calls
<1>8. CASE Overlay!Write(c)
  BY <1>0, <1>8 DEF Overlay!Write, Calls
<1>9. CASE Overlay!Read(c)
  BY <1>0, <1>9 DEF Overlay!Read, Calls
<1> QED
  BY <1>1, <1>2, <1>3, <1>4, <1>5, <1>6, <1>7, <1>8, <1>9 DEF Turn

LEMMA OthersUndisturbed ==
  ASSUME OverlayIInv, NEW c \in Clients, Turn(c), NEW d \in Clients \ {c},
         call'[d].alone, call'[d].pc # "idle"
  PROVE  NobodyElse(call', d, call'[d].path) /\ SeesAll(call'[d], upper')
<1> USE DEF OverlayIInv
<1>1. PICK a \in BOOLEAN : call'[d] = [call[d] EXCEPT !.alone = a] /\ (a => call[d].alone)
  BY OthersKeepCalls DEF Leaves1
<1>2. /\ call'[d].kind = call[d].kind /\ call'[d].path = call[d].path
      /\ call'[d].pc = call[d].pc /\ call'[d].node = call[d].node
      /\ call'[d].size = call[d].size /\ call'[d].got = call[d].got
      /\ call'[d].base = call[d].base /\ call'[d].alone = a
  BY <1>1 DEF OverlayTyped, Calls
<1>3. NobodyElse(call, d, call[d].path) /\ SeesAll(call[d], upper) /\ call[d].pc # "idle"
  BY <1>1, <1>2 DEF Undisturbed
<1>4. call[c].path # call[d].path \/ ~Overlay!Writes(call[c].kind) \/ call[c].pc = "idle"
  BY <1>3 DEF NobodyElse
<1>5. ASSUME call[c].pc = "idle" PROVE upper' = upper
  BY <1>5 DEF Turn, Overlay!Call, Overlay!Open, Overlay!CopyUp, Overlay!CopyUpOpen,
     Overlay!CopyUpWrite, Overlay!Create, Overlay!Lookup, Overlay!Stat, Overlay!Write,
     Overlay!Read, Overlay!At
<1>6. /\ call[d].path \in DOMAIN upper' <=> call[d].path \in DOMAIN upper
      /\ call[d].path \in DOMAIN upper => upper'[call[d].path] = upper[call[d].path]
  BY <1>4, <1>5, ChangesOwnPath
<1>7. Sees(upper', call[d].path) = Sees(upper, call[d].path)
  BY <1>6 DEF Sees
<1>8. call[d].pc = "fill" => call[d].path \in DOMAIN upper
  BY DEF Places, PlaceOf
<1>9. SeesAll(call'[d], upper')
  BY <1>2, <1>3, <1>6, <1>7, <1>8 DEF SeesAll
<1>10. ASSUME NEW e \in Clients \ {d}, call'[e].path = call[d].path, call'[e].pc # "idle"
       PROVE  ~Overlay!Writes(call'[e].kind)
  <2>1. CASE e # c
    <3>1. PICK b \in BOOLEAN : call'[e] = [call[e] EXCEPT !.alone = b]
      BY <2>1, OthersKeepCalls DEF Leaves1
    <3>2. /\ call'[e].kind = call[e].kind /\ call'[e].path = call[e].path
          /\ call'[e].pc = call[e].pc
      BY <3>1, <1>10 DEF OverlayTyped, Calls
    <3> QED
      BY <3>2, <1>3, <1>10 DEF NobodyElse
  <2>2. CASE e = c
    <3>1. CASE /\ call'[c].kind = call[c].kind /\ call'[c].path = call[c].path
               /\ call[c].pc # "idle"
      BY <3>1, <2>2, <1>3, <1>10 DEF NobodyElse
    <3>2. CASE call'[c] = Overlay!Done(c)
      BY <3>2, <2>2, <1>10 DEF Overlay!Done, Overlay!Idle
    <3>3. ASSUME NEW kind, NEW p, Overlay!Call(c, kind, p)
          PROVE  ~Overlay!Writes(call'[c].kind)
      <4>1. call'[c].kind = kind /\ call'[c].path = p
        BY <3>3 DEF OverlayTyped, Overlay!Call, Overlay!Idle
      <4>2. call'[d].alone = (call[d].alone /\ ~(d \in {f \in Clients \ {c} : call[f].path = p}
                                                 /\ Overlay!Writes(kind)))
        BY <3>3 DEF OverlayTyped, Overlay!Call, Calls
      <4> QED
        BY <4>1, <4>2, <1>10, <2>2
    <3> QED
      BY <3>1, <3>2, <3>3, <2>2, CallGoesOn
  <2> QED
    BY <2>1, <2>2
<1>11. NobodyElse(call', d, call'[d].path)
  BY <1>2, <1>10 DEF NobodyElse
<1> QED
  BY <1>9, <1>11

LEMMA RestOf ==
  ASSUME NEW s \in Seq(Byte), NEW m \in 0..Len(s)
  PROVE  /\ SubSeq(s, m + 1, Len(s)) \in Seq(Byte)
         /\ Len(SubSeq(s, m + 1, Len(s))) = Len(s) - m
         /\ \A i \in 1..Len(s) - m : SubSeq(s, m + 1, Len(s))[i] = s[m + i]
<1>1. Len(s) \in Nat /\ m \in Nat /\ m <= Len(s)
  OBVIOUS
<1>2. SubSeq(s, m + 1, Len(s)) \in Seq(Byte)
  BY <1>1
<1>3. Len(SubSeq(s, m + 1, Len(s))) = Len(s) - m
  BY <1>1
<1>4. \A i \in 1..Len(s) - m : SubSeq(s, m + 1, Len(s))[i] = s[m + i]
  BY <1>1
<1> QED
  BY <1>2, <1>3, <1>4

\* The step of a client that is alone, after it.
LEMMA MineUndisturbed ==
  ASSUME OverlayIInv, NEW c \in Clients, Turn(c), call'[c].alone, call'[c].pc # "idle"
  PROVE  NobodyElse(call', c, call'[c].path) /\ SeesAll(call'[c], upper')
<1> USE DEF OverlayIInv
<1> DEFINE q == call[c]
           p == q.path
           Mine == SeesAll(call'[c], upper')
<1>0. /\ q \in Calls /\ PlaceOf(c, q, DOMAIN upper, mu)
      /\ upper \in [DOMAIN upper -> Contents] /\ lower = LowerFiles
  BY DEF OverlayTyped, Places
<1>1. ASSUME NEW kind \in Overlay!CallKinds, NEW r \in FilePaths, Overlay!Call(c, kind, r)
      PROVE  NobodyElse(call', c, call'[c].path) /\ Mine
  <2>1. /\ call'[c].kind = kind /\ call'[c].path = r /\ call'[c].base = Overlay!View(r)
        /\ call'[c].pc = IF Overlay!Writes(kind) THEN "open" ELSE "lookup"
        /\ call'[c].alone = \A e \in {d \in Clients \ {c} : call[d].path = r} :
                              ~Overlay!Writes(call[e].kind)
        /\ UNCHANGED upper
    BY <1>1 DEF OverlayTyped, Overlay!Call, Overlay!Idle
  <2>2. Mine
    BY <2>1, ViewIsSees DEF SeesAll, NodePcs
  <2>3. ASSUME NEW d \in Clients \ {c}, call'[d].path = r
        PROVE  ~Overlay!Writes(call'[d].kind)
    <3>1. PICK a \in BOOLEAN : call'[d] = [call[d] EXCEPT !.alone = a]
      BY OthersKeepCalls DEF Leaves1
    <3>2. call'[d].kind = call[d].kind /\ call'[d].path = call[d].path
      BY <3>1 DEF OverlayTyped, Calls
    <3> QED
      BY <2>1, <2>3, <3>2
  <2> QED
    BY <2>1, <2>2, <2>3 DEF NobodyElse
<1>2. ASSUME /\ call'[c].kind = q.kind /\ call'[c].path = p
             /\ call'[c].alone = q.alone /\ q.pc # "idle"
      PROVE  NobodyElse(call', c, call'[c].path) /\ SeesAll(q, upper)
  <2>1. NobodyElse(call, c, p) /\ SeesAll(q, upper)
    BY <1>2 DEF Undisturbed
  <2>2. ASSUME NEW d \in Clients \ {c}, call'[d].path = p, call'[d].pc # "idle"
        PROVE  ~Overlay!Writes(call'[d].kind)
    <3>1. PICK a \in BOOLEAN : call'[d] = [call[d] EXCEPT !.alone = a]
      BY OthersKeepCalls DEF Leaves1
    <3>2. /\ call'[d].kind = call[d].kind /\ call'[d].path = call[d].path
          /\ call'[d].pc = call[d].pc
      BY <3>1 DEF OverlayTyped, Calls
    <3> QED
      BY <2>1, <2>2, <3>2 DEF NobodyElse
  <2> QED
    BY <1>2, <2>1, <2>2 DEF NobodyElse
<1>3. CASE Overlay!Open(c)
  <2>1. /\ q.pc = "open" /\ UNCHANGED upper
        /\ call'[c] = [q EXCEPT !.pc = IF p \in DOMAIN upper THEN "lookup"
                                       ELSE IF p \in DOMAIN lower THEN "copy_up" ELSE "create"]
    BY <1>3 DEF OverlayTyped, Overlay!Open, Overlay!Goto, Overlay!At, Overlay!Has
  <2>2. NobodyElse(call', c, call'[c].path) /\ SeesAll(q, upper)
    BY <1>0, <1>2, <2>1 DEF Calls
  <2>3. Mine
    <3> HIDE DEF q
    <3> QED
      BY <1>0, <2>1, <2>2 DEF SeesAll, NodePcs, Calls
  <2> QED
    BY <2>2, <2>3
<1>4. CASE Overlay!CopyUp(c)
  <2>1. /\ q.pc = "copy_up" /\ UNCHANGED upper
        /\ \E pc \in {"lookup", "seed"} : call'[c] = [q EXCEPT !.pc = pc]
    BY <1>4 DEF OverlayTyped, Overlay!CopyUp, Overlay!Goto, Overlay!At, Overlay!Has
  <2>2. NobodyElse(call', c, call'[c].path) /\ SeesAll(q, upper)
    BY <1>0, <1>2, <2>1 DEF Calls
  <2>3. Mine
    <3> HIDE DEF q
    <3> QED
      BY <1>0, <2>1, <2>2 DEF SeesAll, NodePcs, Calls
  <2> QED
    BY <2>2, <2>3
<1>5. CASE Overlay!CopyUpOpen(c)
  <2>1. /\ q.pc = "seed" /\ upper' = Overlay!Put(upper, p, <<>>)
        /\ call'[c] = [q EXCEPT !.pc = "fill", !.got = LowerFiles[p]]
    BY <1>5 DEF OverlayTyped, Overlay!CopyUpOpen, Overlay!At
  <2>2. NobodyElse(call', c, call'[c].path) /\ SeesAll(q, upper)
    BY <1>0, <1>2, <2>1 DEF Calls
  <2>3. LowerFiles[p] = q.base
    BY <1>0, <2>1, <2>2 DEF SeesAll, PlaceOf, CopyPcs, Sees
  <2>4. upper'[p] = <<>>
    BY <2>1 DEF Overlay!Put
  <2>5. Mine
    <3> HIDE DEF q
    <3> QED
      BY <1>0, <2>1, <2>3, <2>4 DEF SeesAll, NodePcs, Calls
  <2> QED
    BY <2>2, <2>5
<1>6. CASE Overlay!CopyUpWrite(c)
  <2>1. /\ q.pc = "fill"
        /\ upper' = [upper EXCEPT ![p] = Overlay!Written(upper[p], 0, q.got)]
        /\ call'[c] = [q EXCEPT !.pc = "lookup", !.got = <<>>]
    BY <1>6 DEF OverlayTyped, Overlay!CopyUpWrite, Overlay!At
  <2>2. NobodyElse(call', c, call'[c].path) /\ SeesAll(q, upper)
    BY <1>0, <1>2, <2>1 DEF Calls
  <2>3. upper[p] = <<>> /\ q.got = q.base /\ p \in DOMAIN upper
    BY <1>0, <2>1, <2>2 DEF SeesAll, PlaceOf
  <2>4. Overlay!Written(upper[p], 0, q.got) = q.base
    BY <1>0, <2>3, WrittenAll DEF Calls
  <2>5. Sees(upper', p) = q.base
    BY <2>1, <2>3, <2>4 DEF Sees
  <2>6. Mine
    <3> HIDE DEF q
    <3> QED
      BY <1>0, <2>1, <2>5 DEF SeesAll, NodePcs, Calls
  <2> QED
    BY <2>2, <2>6
<1>7. CASE Overlay!Create(c)
  <2>1. /\ q.pc = "create" /\ (p \notin DOMAIN upper => upper' = Overlay!Put(upper, p, <<>>))
        /\ call'[c] = [q EXCEPT !.pc = "lookup"]
    BY <1>7 DEF OverlayTyped, Overlay!Create, Overlay!At, Overlay!Goto, Overlay!Has
  <2>2. NobodyElse(call', c, call'[c].path) /\ SeesAll(q, upper)
    BY <1>0, <1>2, <2>1 DEF Calls
  <2>3. q.base = <<>> /\ p \notin DOMAIN upper
    BY <1>0, <2>1, <2>2 DEF SeesAll, PlaceOf, Sees
  <2>4. Sees(upper', p) = q.base
    BY <2>1, <2>3 DEF Sees, Overlay!Put
  <2>5. Mine
    <3> HIDE DEF q
    <3> QED
      BY <1>0, <2>1, <2>4 DEF SeesAll, NodePcs, Calls
  <2> QED
    BY <2>2, <2>5
<1>8. call'[c] # Overlay!Done(c)
  BY DEF Overlay!Done, Overlay!Idle
<1>9. CASE Overlay!Lookup(c)
  <2>1. /\ q.pc = "lookup" /\ UNCHANGED upper
        /\ \E pc \in {"write", "stat"} :
             /\ pc = "write" => q.kind = "write_all"
             /\ call'[c] = [q EXCEPT !.node = IF p \in DOMAIN upper THEN "upper" ELSE "lower",
                                     !.pc = pc]
    BY <1>8, <1>9 DEF OverlayTyped, Overlay!Lookup, Overlay!At, Overlay!Has
  <2>2. NobodyElse(call', c, call'[c].path) /\ SeesAll(q, upper)
    BY <1>0, <1>2, <2>1 DEF Calls
  <2>3. Mine
    <3> HIDE DEF q
    <3> QED
      BY <1>0, <2>1, <2>2 DEF SeesAll, NodePcs, Calls
  <2> QED
    BY <2>2, <2>3
<1>10. CASE Overlay!Stat(c)
  <2>1. /\ q.pc = "stat" /\ UNCHANGED upper
        /\ \E pc \in {"write", "read"} :
             call'[c] = [q EXCEPT !.size = Len(Overlay!Node(c)), !.pc = pc]
    BY <1>10 DEF OverlayTyped, Overlay!Stat, Overlay!At
  <2>2. NobodyElse(call', c, call'[c].path) /\ SeesAll(q, upper) /\ q.alone
    BY <1>0, <1>2, <2>1, ZenonT(60) DEF Calls
  <2>3. Overlay!Node(c) = q.base
    BY <2>1, <2>2, NodeIsSees DEF NodePcs
  <2>4. q.got = <<>> /\ q.base \in Contents
    BY <1>0, <2>1 DEF PlaceOf, Calls
  <2>5. Mine
    <3> HIDE DEF q
    <3>1. Len(q.got) = 0 /\ Len(q.base) \in Nat
      BY <2>4 DEF Contents
    <3> QED
      BY <1>0, <2>1, <2>2, <2>3, <3>1 DEF SeesAll, NodePcs, Calls
  <2> QED
    BY <2>2, <2>5
<1>11. CASE Overlay!Write(c)
  BY <1>8, <1>11 DEF OverlayTyped, Overlay!Write
<1>12. CASE Overlay!Read(c)
  <2> DEFINE at == Len(q.got)
             to == IF q.size < Len(Overlay!Node(c)) THEN q.size ELSE Len(Overlay!Node(c))
             more == SubSeq(Overlay!Node(c), at + 1, to)
  <2>1. /\ q.pc = "read" /\ UNCHANGED upper /\ ~(at >= q.size)
        /\ call'[c] = [q EXCEPT !.got = q.got \o more]
    BY <1>8, <1>12 DEF OverlayTyped, Overlay!Read, Overlay!At
  <2>2. NobodyElse(call', c, call'[c].path) /\ SeesAll(q, upper) /\ q.alone
    BY <1>0, <1>2, <2>1, ZenonT(60) DEF Calls
  <2>3. Overlay!Node(c) = q.base
    BY <2>1, <2>2, NodeIsSees DEF NodePcs
  <2>4. /\ q.size = Len(q.base) /\ Len(q.got) <= Len(q.base)
        /\ \A i \in 1..Len(q.got) : q.got[i] = q.base[i]
    BY <2>1, <2>2 DEF SeesAll
  <2>5. q.base \in Contents /\ q.got \in Contents
    BY <1>0 DEF Calls
  <2>6. more = SubSeq(q.base, at + 1, Len(q.base))
    BY <2>3, <2>4
  <2>7. /\ Len(q.got \o more) = Len(q.base)
        /\ \A i \in 1..Len(q.base) : (q.got \o more)[i] = q.base[i]
    <3> HIDE DEF more, q
    <3>0. q.base \in Seq(Byte) /\ Len(q.base) \in Nat /\ at \in 0..Len(q.base)
      BY <2>4, <2>5 DEF Contents
    <3>1. /\ Len(q.base) \in Nat /\ at \in 0..Len(q.base) /\ more \in Seq(Byte)
          /\ Len(more) = Len(q.base) - at
          /\ \A i \in 1..Len(q.base) - at : more[i] = q.base[at + i]
      BY <3>0, <2>6, RestOf
    <3>2. q.got \in Seq(Byte)
      BY <2>5 DEF Contents
    <3>3. Len(q.got \o more) = Len(q.base)
      BY <3>1, <3>2
    <3>4. ASSUME NEW i \in 1..Len(q.base) PROVE (q.got \o more)[i] = q.base[i]
      <4>1. CASE i <= at
        BY <3>1, <3>2, <4>1, <2>4
      <4>2. CASE i > at
        <5>1. i - at \in 1..Len(q.base) - at /\ at + (i - at) = i
          BY <3>1, <4>2
        <5>2. (q.got \o more)[i] = more[i - at]
          BY <3>1, <3>2, <4>2
        <5> QED
          BY <3>1, <5>1, <5>2
      <4> QED
        BY <3>1, <4>1, <4>2
    <3> QED
      BY <3>3, <3>4
  <2>8. Mine
    <3>1. /\ call'[c].pc = "read" /\ call'[c].kind = q.kind /\ call'[c].path = p
          /\ call'[c].node = q.node /\ call'[c].size = q.size /\ call'[c].base = q.base
          /\ call'[c].got = q.got \o more
      BY <1>0, <2>1 DEF Calls
    <3> HIDE DEF q, more
    <3>2. Len(q.base) \in Nat
      BY <2>5 DEF Contents
    <3> QED
      BY <2>1, <2>2, <2>4, <2>7, <3>1, <3>2 DEF SeesAll, NodePcs
  <2> QED
    BY <2>2, <2>8
<1> QED
  BY <1>1, <1>3, <1>4, <1>5, <1>6, <1>7, <1>9, <1>10, <1>11, <1>12 DEF Turn

LEMMA OverlayStep1 ==
  ASSUME Overlay!Next
  PROVE  \E c \in Clients : Turn(c)
  BY DEF Overlay!Next, Turn, FilePaths

LEMMA OverlayKept == OverlayIInv /\ [Overlay!Next]_Overlay!vars => OverlayIInv'
<1> SUFFICES ASSUME OverlayIInv, [Overlay!Next]_Overlay!vars PROVE OverlayIInv'
  OBVIOUS
<1>1. CASE Overlay!Next
  <2>1. PICK c \in Clients : Turn(c)
    BY <1>1, OverlayStep1
  <2>2. OverlayTyped' /\ Places'
    BY <2>1, TypedKept, PlacesKept
  <2>3. ASSUME NEW d \in Clients, call'[d].alone, call'[d].pc # "idle"
        PROVE  NobodyElse(call', d, call'[d].path) /\ SeesAll(call'[d], upper')
    BY <2>1, <2>3, MineUndisturbed, OthersUndisturbed
  <2>4. Undisturbed'
    BY <2>3 DEF Undisturbed
  <2> QED
    BY <2>2, <2>4 DEF OverlayIInv
<1>2. CASE UNCHANGED Overlay!vars
  <2> USE <1>2 DEF Overlay!vars, OverlayIInv
  <2>1. OverlayTyped'
    BY DEF OverlayTyped
  <2>2. Places'
    BY DEF Places
  <2>3. Undisturbed'
    BY DEF Undisturbed
  <2> QED
    BY <2>1, <2>2, <2>3
<1> QED
  BY <1>1, <1>2

LEMMA OverlayInvariant == StorageSpec => []OverlayIInv
<1>1. StorageInit => OverlayIInv
  BY OverlayInit DEF StorageInit
<1>2. OverlayIInv /\ [StorageNext]_storage => OverlayIInv'
  BY Separate, OverlayKept
<1> QED
  BY <1>1, <1>2, PTL DEF StorageSpec

-----------------------------------------------------------------------------
\* A file of the lower layer in the upper one is written, never emptied.
LEMMA NeverEmptied ==
  ASSUME OverlayIInv, NEW c \in Clients, Turn(c)
  PROVE  /\ lower' = lower
         /\ \A p \in Overlay!LowerPaths \cap DOMAIN upper : Len(upper[p]) <= Len(upper'[p])
<1> USE DEF OverlayIInv
<1> DEFINE q == call[c]
           Keeps == /\ lower' = lower
                    /\ \A p \in Overlay!LowerPaths \cap DOMAIN upper :
                         Len(upper[p]) <= Len(upper'[p])
<1>0. /\ q \in Calls /\ PlaceOf(c, q, DOMAIN upper, mu)
      /\ upper \in [DOMAIN upper -> Contents]
  BY DEF OverlayTyped, Places
<1>1. \A p \in DOMAIN upper : Len(upper[p]) \in Nat
  BY <1>0 DEF Contents
<1>2. ASSUME UNCHANGED <<upper, lower>> PROVE Keeps
  BY <1>1, <1>2
<1>3. ASSUME lower' = lower, \A p \in Overlay!LowerPaths \cap DOMAIN upper : upper'[p] = upper[p]
      PROVE  Keeps
  BY <1>1, <1>3
<1>4. CASE Overlay!CopyUpOpen(c)
  BY <1>0, <1>3, <1>4 DEF PlaceOf, Overlay!CopyUpOpen, Overlay!At, Overlay!Put
<1>5. CASE Overlay!Create(c)
  BY <1>0, <1>3, <1>5 DEF PlaceOf, Overlay!Create, Overlay!At, Overlay!Put
<1>6. ASSUME NEW offset \in Nat, NEW bytes \in Contents, q.path \in DOMAIN upper, lower' = lower,
             upper' = [upper EXCEPT ![q.path] = Overlay!Written(upper[q.path], offset, bytes)]
      PROVE  Keeps
  <2>1. Len(Overlay!Written(upper[q.path], offset, bytes)) >= Len(upper[q.path])
    BY <1>0, <1>6, WrittenOf
  <2>2. \A p \in DOMAIN upper : upper'[p] = IF p = q.path
                                            THEN Overlay!Written(upper[q.path], offset, bytes)
                                            ELSE upper[p]
    BY <1>6
  <2> HIDE DEF q
  <2>3. Overlay!Written(upper[q.path], offset, bytes) \in Contents
    BY <1>0, <1>6, WrittenOf
  <2>4. Len(Overlay!Written(upper[q.path], offset, bytes)) \in Nat
    BY <2>3 DEF Contents
  <2> QED
    BY <1>1, <1>6, <2>1, <2>2, <2>4
<1>7. CASE Overlay!CopyUpWrite(c)
  BY <1>0, <1>6, <1>7 DEF PlaceOf, Calls, Overlay!CopyUpWrite, Overlay!At
<1>8. CASE Overlay!Write(c)
  <2>1. q.pc = "write" /\ q.node = "upper" /\ q.path \in DOMAIN upper /\ q.size \in Nat
    BY <1>0, <1>8 DEF PlaceOf, NodePcs, Calls, Overlay!Write, Overlay!At
  <2>2. <<c>> \in Contents
    BY DEF Contents, Byte
  <2> QED
    BY <1>6, <1>8, <2>1, <2>2 DEF Overlay!Write, Overlay!WriteNode
<1>9. CASE \/ \E kind \in Overlay!CallKinds, r \in FilePaths : Overlay!Call(c, kind, r)
           \/ Overlay!Open(c) \/ Overlay!CopyUp(c)
           \/ Overlay!Lookup(c) \/ Overlay!Stat(c) \/ Overlay!Read(c)
  <2>1. UNCHANGED <<upper, lower>>
    BY <1>9 DEF Overlay!Call, Overlay!Open, Overlay!CopyUp, Overlay!Lookup, Overlay!Stat,
                Overlay!Read
  <2> QED
    BY <1>2, <2>1
<1> QED
  BY <1>4, <1>5, <1>7, <1>8, <1>9 DEF Turn

\* The lower layer is never written (OverlayFS::open, copy_up), and a file that shadows one
\* of its files is copied up once and never emptied, whoever opens it at the same time.
THEOREM NeverCopiedTwice == StorageSpec => CopiedUpOnce
<1>1. OverlayIInv /\ [Overlay!Next]_Overlay!vars
      => [/\ lower' = lower
          /\ \A p \in Overlay!LowerPaths \cap DOMAIN upper :
               Len(upper[p]) <= Len(upper'[p])]_Overlay!vars
  BY OverlayStep1, NeverEmptied
<1>2. OverlayIInv /\ [StorageNext]_storage
      => [/\ lower' = lower
          /\ \A p \in Overlay!LowerPaths \cap DOMAIN upper :
               Len(upper[p]) <= Len(upper'[p])]_Overlay!vars
  BY <1>1, Separate
<1> QED
  BY <1>2, OverlayInvariant, PTL DEF StorageSpec, CopiedUpOnce, Overlay!CopiedUpOnce

-----------------------------------------------------------------------------
\* What a call that is alone has done when it ends.
Acted(c, q, U) ==
  CASE q.kind = "append"    -> Sees(U, q.path) = Append(q.base, c)
    [] q.kind = "write_all" -> Sees(U, q.path) = Overlay!Written(q.base, 0, <<c>>)
    [] q.kind = "read_all"  -> q.got = q.base

LEMMA EndsThere ==
  ASSUME OverlayTyped, NEW c \in Clients, Turn(c), call[c].pc # "idle", call'[c].pc = "idle"
  PROVE  call'[c] = Overlay!Done(c) /\ (Overlay!Lookup(c) \/ Overlay!Write(c) \/ Overlay!Read(c))
<1>0. call[c] \in Calls /\ call \in [Clients -> Calls]
  BY DEF OverlayTyped
<1>1. ~Overlay!Open(c)
  BY <1>0 DEF Overlay!Open, Overlay!Goto, Calls
<1>2. ~Overlay!CopyUp(c)
  BY <1>0 DEF Overlay!CopyUp, Overlay!Goto, Calls
<1>3. ~Overlay!CopyUpOpen(c)
  BY <1>0 DEF Overlay!CopyUpOpen, Calls
<1>4. ~Overlay!CopyUpWrite(c)
  BY <1>0 DEF Overlay!CopyUpWrite, Calls
<1>5. ~Overlay!Create(c)
  BY <1>0 DEF Overlay!Create, Overlay!Goto, Calls
<1>6. ~Overlay!Stat(c)
  BY <1>0 DEF Overlay!Stat, Calls
<1>7. ~\E kind \in Overlay!CallKinds, p \in FilePaths : Overlay!Call(c, kind, p)
  BY DEF Overlay!Call, Overlay!At
<1>8. Overlay!Lookup(c) => call'[c] = Overlay!Done(c)
  BY <1>0 DEF Overlay!Lookup, Calls
<1>9. Overlay!Write(c) => call'[c] = Overlay!Done(c)
  BY <1>0 DEF Overlay!Write
<1>10. Overlay!Read(c) => call'[c] = Overlay!Done(c)
  BY <1>0 DEF Overlay!Read, Overlay!At, Calls
<1> QED
  BY <1>1, <1>2, <1>3, <1>4, <1>5, <1>6, <1>7, <1>8, <1>9, <1>10 DEF Turn

LEMMA EndsWhole ==
  ASSUME OverlayIInv, NEW c \in Clients, Turn(c), call'[c] = Overlay!Done(c),
         call[c].alone, call[c].pc # "idle"
  PROVE  Acted(c, call[c], upper')
<1> USE DEF OverlayIInv
<1> DEFINE q == call[c]
           p == q.path
<1>0. /\ q \in Calls /\ PlaceOf(c, q, DOMAIN upper, mu) /\ SeesAll(q, upper)
      /\ upper \in [DOMAIN upper -> Contents] /\ q.kind \in Overlay!CallKinds
  BY DEF OverlayTyped, Places, PlaceOf, Undisturbed
<1>1. call'[c].pc = "idle"
  BY DEF Overlay!Done, Overlay!Idle
<1>2. \/ Overlay!Lookup(c) \/ Overlay!Write(c) \/ Overlay!Read(c)
  BY <1>1, EndsThere
<1>3. CASE Overlay!Lookup(c)
  <2>1. q.pc = "lookup" /\ p \notin DOMAIN upper /\ p \notin DOMAIN lower
    BY <1>1, <1>3 DEF OverlayTyped, Calls, Overlay!Lookup, Overlay!At, Overlay!Has
  <2>2. ~Overlay!Writes(q.kind) /\ q.got = <<>>
    BY <1>0, <2>1 DEF PlaceOf
  <2>3. q.base = <<>>
    BY <1>0, <2>1 DEF SeesAll, Sees, OverlayTyped, Overlay!LowerPaths
  <2>4. q.kind = "read_all"
    BY <1>0, <2>2 DEF Overlay!Writes, Overlay!CallKinds
  <2> QED
    BY <2>2, <2>3, <2>4 DEF Acted
<1>4. CASE Overlay!Write(c)
  <2>1. /\ q.pc = "write" /\ q.node = "upper" /\ p \in DOMAIN upper
        /\ Overlay!Writes(q.kind) /\ (q.kind = "write_all" => q.size = 0)
    BY <1>0, <1>4 DEF PlaceOf, NodePcs, Overlay!Write, Overlay!At
  <2>2. /\ upper' = [upper EXCEPT ![p] = Overlay!Written(upper[p], q.size, <<c>>)]
        /\ upper[p] = q.base /\ q.base \in Contents
    BY <1>0, <1>4, <2>1
       DEF Overlay!Write, Overlay!WriteNode, SeesAll, Sees, Calls
  <2>3. Sees(upper', p) = Overlay!Written(q.base, q.size, <<c>>)
    BY <2>1, <2>2 DEF Sees
  <2>4. CASE q.kind = "append"
    <3>1. q.size = Len(q.base)
      BY <1>0, <2>1, <2>4 DEF SeesAll
    <3> QED
      BY <2>2, <2>3, <2>4, <3>1, WrittenAtEnd DEF Acted
  <2>5. CASE q.kind = "write_all"
    BY <2>1, <2>3, <2>5 DEF Acted
  <2> QED
    BY <1>0, <2>1, <2>4, <2>5 DEF Overlay!CallKinds, Overlay!Writes
<1>5. CASE Overlay!Read(c)
  <2>1. q.pc = "read" /\ q.kind = "read_all" /\ Overlay!Node(c) = q.base
    BY <1>0, <1>5, NodeIsSees DEF PlaceOf, NodePcs, Overlay!Read, Overlay!At
  <2>2. /\ q.size = Len(q.base) /\ Len(q.got) <= Len(q.base)
        /\ \A i \in 1..Len(q.got) : q.got[i] = q.base[i]
        /\ q.got \in Seq(Byte) /\ q.base \in Seq(Byte)
    BY <1>0, <2>1 DEF SeesAll, Calls, Contents
  <2>3. \/ Len(q.got) >= q.size
        \/ SubSeq(q.base, Len(q.got) + 1, Len(q.base)) = <<>>
    <3> DEFINE to == IF q.size < Len(q.base) THEN q.size ELSE Len(q.base)
               more == SubSeq(q.base, Len(q.got) + 1, to)
    <3> DEFINE part(s) == SubSeq(s, Len(q.got) + 1, IF q.size < Len(s) THEN q.size ELSE Len(s))
    <3>0. \/ Len(q.got) >= q.size \/ part(Overlay!Node(c)) = <<>>
          \/ call' = [call EXCEPT ![c].got = q.got \o part(Overlay!Node(c))]
      BY <1>5 DEF Overlay!Read
    <3>1. \/ Len(q.got) >= q.size \/ more = <<>>
          \/ call' = [call EXCEPT ![c].got = q.got \o more]
      BY <3>0, <2>1
    <3>2. call' # [call EXCEPT ![c].got = q.got \o more]
      BY <1>1, <2>1 DEF OverlayTyped, Calls
    <3>3. to = Len(q.base)
      BY <2>2
    <3> QED
      BY <3>1, <3>2, <3>3
  <2> HIDE DEF q
  <2>4. Len(q.got) = Len(q.base)
    <3>1. Len(q.got) \in 0..Len(q.base) /\ Len(q.base) \in Nat
      BY <2>2
    <3>2. Len(SubSeq(q.base, Len(q.got) + 1, Len(q.base))) = Len(q.base) - Len(q.got)
      BY <2>2, <3>1, RestOf
    <3>3. CASE Len(q.got) >= Len(q.base)
      BY <3>1, <3>3
    <3>4. CASE SubSeq(q.base, Len(q.got) + 1, Len(q.base)) = <<>>
      <4>1. Len(q.base) - Len(q.got) = 0
        BY <3>2, <3>4
      <4> QED
        BY <3>1, <4>1
    <3> QED
      BY <2>2, <2>3, <3>3, <3>4
  <2>5. q.got = q.base
    <3>1. /\ q.got = [i \in 1..Len(q.got) |-> q.got[i]]
          /\ q.base = [i \in 1..Len(q.base) |-> q.base[i]]
      BY <2>2
    <3> QED
      BY <2>2, <2>4, <3>1
  <2> QED
    BY <2>1, <2>5 DEF Acted, q
<1> QED
  BY <1>2, <1>3, <1>4, <1>5

\* A call of VFS::append, read_all or write_all on an OverlayFS that no writer of its file
\* overlaps does all of what it does and nothing else: append leaves all there was and its
\* byte after it, write_all puts its byte over the first and keeps the rest (it does not
\* truncate a file that exists), and read_all has read all there was.
THEOREM AloneIsWhole == StorageSpec => AloneActsOnWhole
<1> DEFINE Does(c, p) ==
             CASE call[c].kind = "append"    -> Overlay!View(p)' = Append(call[c].base, c)
               [] call[c].kind = "write_all" ->
                    Overlay!View(p)' = Overlay!Written(call[c].base, 0, <<c>>)
               [] call[c].kind = "read_all"  -> call[c].got = call[c].base
           Whole == \A c \in Clients, p \in UpperPaths \cup Overlay!LowerPaths :
                      Overlay!EndsAlone(c, p) => Does(c, p)
<1>1. ASSUME OverlayIInv, OverlayIInv', Overlay!Next, NEW c \in Clients, NEW p,
             call[c].path = p, call[c].alone, call[c].pc # "idle", call'[c].pc = "idle"
      PROVE  Does(c, p)
  <2>1. PICK d \in Clients : Turn(d)
    BY <1>1, OverlayStep1
  <2>2. d = c
    <3> SUFFICES ASSUME d # c PROVE FALSE
      OBVIOUS
    <3>1. PICK a \in BOOLEAN : call'[c] = [call[c] EXCEPT !.alone = a]
      BY <1>1, <2>1, OthersKeepCalls DEF Leaves1, OverlayIInv
    <3> QED
      BY <1>1, <3>1 DEF OverlayIInv, OverlayTyped, Calls
  <2>3. call'[c] = Overlay!Done(c)
    BY <1>1, <2>1, <2>2, EndsThere DEF OverlayIInv
  <2>4. Acted(c, call[c], upper')
    BY <1>1, <2>1, <2>2, <2>3, EndsWhole
  <2>5. Overlay!View(p)' = Sees(upper', p)
    BY <1>1, ViewIsSees DEF OverlayIInv, OverlayTyped, Overlay!View, Overlay!Has, Sees,
       Overlay!LowerPaths
  <2> QED
    BY <1>1, <2>4, <2>5 DEF Acted
<1>2. OverlayIInv /\ OverlayIInv' /\ [StorageNext]_storage => [Whole]_Overlay!vars
  <2> SUFFICES ASSUME OverlayIInv, OverlayIInv', Overlay!Next PROVE Whole
    BY Separate
  <2> QED
    BY <1>1 DEF Overlay!EndsAlone, Overlay!At
<1> QED
  BY <1>2, OverlayInvariant, PTL DEF StorageSpec, AloneActsOnWhole, Overlay!AloneActsOnWhole

-----------------------------------------------------------------------------
(* The permutation.                                                        *)

Lanes == [0..24 -> SUBSET Keccak!Bits]

\* The lane of an index, by its column and row.
LEMMA Indexed ==
  /\ \A l \in 0..24 : l % 5 \in 0..4 /\ l \div 5 \in 0..4 /\ l = (l % 5) + 5 * (l \div 5)
  /\ \A x, y \in 0..4 : Keccak!Lane(x, y) \in 0..24
  /\ \A l \in 0..24 : (l + 1) % 5 \in 0..4 /\ (l + 2) % 5 \in 0..4 /\ (l + 4) % 5 \in 0..4
  BY DEF Keccak!Lane

LEMMA Rotated ==
  ASSUME NEW a \in SUBSET Keccak!Bits, NEW n \in 0..63, NEW z \in Keccak!Bits
  PROVE  z \in Keccak!Rotl(a, n) <=> (z + 64 - n) % 64 \in a
<1>1. \A b \in 0..63 : (b + n) % 64 = z <=> b = (z + 64 - n) % 64
  BY DEF Keccak!Bits
<1> QED
  BY <1>1 DEF Keccak!Rotl, Keccak!Bits

One(Y, y) == IF y \in Y THEN 1 ELSE 0

LEMMA CountOfFive ==
  ASSUME NEW Y \in SUBSET (0..4)
  PROVE  Cardinality(Y) = One(Y, 0) + One(Y, 1) + One(Y, 2) + One(Y, 3) + One(Y, 4)
<1> DEFINE Below(n) == {y \in 0..(n - 1) : y \in Y}
<1>0. \A y \in Y : y \in Int /\ 0 <= y /\ y < 5
  OBVIOUS
<1>1. Below(0) = {} /\ Below(5) = Y
  <2>1. \A y : y \notin Below(0)
    OBVIOUS
  <2>2. \A y : y \in Below(5) <=> y \in Y
    <3>1. 0..(5 - 1) = 0..4
      OBVIOUS
    <3> QED
      BY <3>1
  <2> HIDE DEF Below
  <2> QED
    BY <2>1, <2>2
<1>2. ASSUME NEW n \in 0..4, IsFiniteSet(Below(n))
      PROVE  /\ IsFiniteSet(Below(n + 1)) /\ Cardinality(Below(n)) \in Nat
             /\ Cardinality(Below(n + 1)) = Cardinality(Below(n)) + One(Y, n)
  <2>1. Cardinality(Below(n)) \in Nat
    BY <1>2, FS_CardinalityType
  <2>2. CASE n \in Y
    <3>1. Below(n + 1) = Below(n) \cup {n} /\ n \notin Below(n)
      BY <1>0, <2>2
    <3>2. IsFiniteSet(Below(n) \cup {n}) /\ Cardinality(Below(n) \cup {n}) = Cardinality(Below(n)) + 1
      BY <1>2, <3>1, FS_AddElement
    <3> QED
      BY <2>1, <2>2, <3>1, <3>2 DEF One
  <2>3. CASE n \notin Y
    <3>1. Below(n + 1) = Below(n)
      BY <1>0, <2>3
    <3> QED
      BY <1>2, <2>1, <2>3, <3>1 DEF One
  <2> QED
    BY <2>2, <2>3
<1>3. IsFiniteSet({}) /\ Cardinality({}) = 0
  BY FS_EmptySet
<1> HIDE DEF Below
<1>4. IsFiniteSet(Below(0)) /\ Cardinality(Below(0)) = 0
  BY <1>1, <1>3
<1>5. IsFiniteSet(Below(1)) /\ Cardinality(Below(1)) = One(Y, 0)
  BY <1>2, <1>4 DEF One
<1>6. IsFiniteSet(Below(2)) /\ Cardinality(Below(2)) = One(Y, 0) + One(Y, 1)
  BY <1>2, <1>5 DEF One
<1>7. IsFiniteSet(Below(3)) /\ Cardinality(Below(3)) = One(Y, 0) + One(Y, 1) + One(Y, 2)
  BY <1>2, <1>6 DEF One
<1>8. /\ IsFiniteSet(Below(4))
      /\ Cardinality(Below(4)) = One(Y, 0) + One(Y, 1) + One(Y, 2) + One(Y, 3)
  BY <1>2, <1>7 DEF One
<1>9. Cardinality(Below(5)) = One(Y, 0) + One(Y, 1) + One(Y, 2) + One(Y, 3) + One(Y, 4)
  BY <1>2, <1>8 DEF One
<1> QED
  BY <1>1, <1>9

\* Keccak's own cardinality is that of the library.
LEMMA KeccakCounts == \A S : Keccak!Cardinality(S) = Cardinality(S)
  BY DEF Keccak!Cardinality, Cardinality

\* The column of lane x is odd in bit z as the five lanes xored have it.
Column(a, x) ==
  Keccak!Xor(Keccak!Xor(Keccak!Xor(Keccak!Xor(a[x], a[x + 5]), a[x + 10]), a[x + 15]), a[x + 20])

LEMMA ColumnIsParity ==
  ASSUME NEW a \in Lanes, NEW x \in 0..4, NEW z \in Keccak!Bits
  PROVE  /\ Keccak!Parity(a, x, z) \in 0..5
         /\ z \in Column(a, x) <=> Keccak!Parity(a, x, z) % 2 = 1
<1> DEFINE Y == {y \in 0..4 : z \in a[Keccak!Lane(x, y)]}
           b(y) == IF z \in a[x + 5 * y] THEN 1 ELSE 0
<1>1. Keccak!Parity(a, x, z) = Cardinality(Y)
  BY KeccakCounts DEF Keccak!Parity
<1>2. \A y \in 0..4 : One(Y, y) = b(y)
  BY DEF One, Keccak!Lane
<1>3. Keccak!Parity(a, x, z) = b(0) + b(1) + b(2) + b(3) + b(4)
  BY <1>1, <1>2, CountOfFive
<1> HIDE DEF Y
<1>4. /\ b(0) = (IF z \in a[x] THEN 1 ELSE 0) /\ b(1) = (IF z \in a[x + 5] THEN 1 ELSE 0)
      /\ b(2) = (IF z \in a[x + 10] THEN 1 ELSE 0) /\ b(3) = (IF z \in a[x + 15] THEN 1 ELSE 0)
      /\ b(4) = (IF z \in a[x + 20] THEN 1 ELSE 0)
  OBVIOUS
<1> HIDE DEF b
<1>5. z \in Column(a, x) <=> (b(0) + b(1) + b(2) + b(3) + b(4)) % 2 = 1
  BY <1>4 DEF Column, Keccak!Xor
<1> QED
  BY <1>3, <1>4, <1>5

-----------------------------------------------------------------------------
\* Theta, bit by bit.
LEMMA ThetaMixes ==
  ASSUME NEW a \in Lanes
  PROVE  /\ Keccak!Theta(a) \in Lanes
         /\ \A l \in 0..24, z \in Keccak!Bits : z \in Keccak!Theta(a)[l] <=> Keccak!Mixed(a, l, z)
<1> DEFINE d(x) == Keccak!Xor(Column(a, (x + 4) % 5), Keccak!Rotl(Column(a, (x + 1) % 5), 1))
<1>1. \A x \in 0..4 : Column(a, x) \in SUBSET Keccak!Bits
  BY DEF Column, Keccak!Xor, Lanes
<1>2. \A l \in 0..24 : /\ Keccak!Theta(a)[l] = Keccak!Xor(a[l], d(l % 5)) /\ l % 5 \in 0..4
                       /\ ((l % 5) + 4) % 5 = (l + 4) % 5 /\ ((l % 5) + 1) % 5 = (l + 1) % 5
                       /\ (l + 4) % 5 \in 0..4 /\ (l + 1) % 5 \in 0..4
  BY DEF Keccak!Theta, Column
<1>3. ASSUME NEW x \in SUBSET Keccak!Bits PROVE Keccak!Rotl(x, 1) \in SUBSET Keccak!Bits
  BY DEF Keccak!Rotl, Keccak!Bits
<1>4. Keccak!Theta(a) \in Lanes
  <2>1. \A l \in 0..24 : d(l % 5) \in SUBSET Keccak!Bits
    BY <1>1, <1>2, <1>3 DEF Keccak!Xor
  <2> HIDE DEF d
  <2>2. \A l \in 0..24 : Keccak!Theta(a)[l] \in SUBSET Keccak!Bits
    BY <1>2, <2>1 DEF Keccak!Xor, Lanes
  <2>3. Keccak!Theta(a) = [l \in 0..24 |-> Keccak!Theta(a)[l]]
    BY DEF Keccak!Theta
  <2> QED
    BY <2>2, <2>3 DEF Lanes
<1>5. ASSUME NEW l \in 0..24, NEW z \in Keccak!Bits
      PROVE  z \in Keccak!Theta(a)[l] <=> Keccak!Mixed(a, l, z)
  <2> DEFINE e == Column(a, (l + 4) % 5)
             f == Column(a, (l + 1) % 5)
             p == Keccak!Parity(a, (l + 4) % 5, z)
             q == Keccak!Parity(a, (l + 1) % 5, (z + 63) % 64)
  <2>1. (z + 63) % 64 \in Keccak!Bits /\ (z + 64 - 1) % 64 = (z + 63) % 64
    BY DEF Keccak!Bits
  <2>2. z \in Keccak!Rotl(f, 1) <=> (z + 63) % 64 \in f
    BY <1>1, <1>2, <2>1, Rotated
  <2>3. p \in 0..5 /\ (z \in e <=> p % 2 = 1)
    BY <1>2, ColumnIsParity
  <2>4. q \in 0..5 /\ ((z + 63) % 64 \in f <=> q % 2 = 1)
    BY <1>2, <2>1, ColumnIsParity
  <2>5. Keccak!Theta(a)[l] = Keccak!Xor(a[l], Keccak!Xor(e, Keccak!Rotl(f, 1)))
    BY <1>2
  <2>6. Keccak!Mixed(a, l, z) <=> (Keccak!Bit(a, l, z) + p + q) % 2 = 1
    BY DEF Keccak!Mixed
  <2> HIDE DEF e, f, p, q
  <2>7. z \in Keccak!Theta(a)[l] <=> ((z \in a[l]) # ((p % 2 = 1) # (q % 2 = 1)))
    BY <2>2, <2>3, <2>4, <2>5 DEF Keccak!Xor
  <2>8. Keccak!Bit(a, l, z) = IF z \in a[l] THEN 1 ELSE 0
    BY DEF Keccak!Bit
  <2> QED
    BY <2>3, <2>4, <2>6, <2>7, <2>8
<1> QED
  BY <1>4, <1>5

-----------------------------------------------------------------------------
\* Where the walk puts the lane of each turn k of the loop over kSrc and kTgt.
Sources == [l \in 0..24 |-> Keccak!Lane(((l % 5) + 3 * (l \div 5)) % 5, l % 5)]

LEMMA TablesAgree ==
  \A k \in 1..24 : /\ Keccak!kTgt[k] \in 1..24 /\ Keccak!kSrc[k] \in 1..24
                   /\ Keccak!kSrc[k] = Sources[Keccak!kTgt[k]]
                   /\ Keccak!kOffset[Keccak!kSrc[k] + 1] \in 0..63
  BY DEF Keccak!kTgt, Keccak!kSrc, Keccak!kOffset, Sources, Keccak!Lane

\* The turn that writes a lane: each is written once, but lane 0.
TurnOf == << 7, 18, 4, 15, 11, 24, 8, 19, 5, 1, 12, 23, 9, 20, 16, 2, 13, 22, 10, 6, 17, 3, 14, 21 >>

LEMMA WrittenOnce ==
  /\ \A k \in 1..24 : TurnOf[Keccak!kTgt[k]] = k
  /\ \A l \in 1..24 : TurnOf[l] \in 1..24 /\ Keccak!kTgt[TurnOf[l]] = l
  BY DEF Keccak!kTgt, TurnOf

WalkTable ==
  << <<1, 0>>, <<0, 2>>, <<2, 1>>, <<1, 2>>, <<2, 3>>, <<3, 3>>, <<3, 0>>, <<0, 1>>, <<1, 3>>, <<3, 1>>, <<1, 4>>, <<4, 4>>, <<4, 0>>, <<0, 3>>, <<3, 4>>, <<4, 3>>, <<3, 2>>, <<2, 2>>, <<2, 0>>, <<0, 4>>, <<4, 2>>, <<2, 4>>, <<4, 1>>, <<1, 1>> >>

LEMMA WalkNext ==
  /\ WalkTable[1] = <<1, 0>>
  /\ \A n \in 1..23 :
       WalkTable[n + 1] = <<WalkTable[n][2], (2 * WalkTable[n][1] + 3 * WalkTable[n][2]) % 5>>
  /\ \A n \in 1..24 : WalkTable[n] \in (0..4) \X (0..4)
  BY DEF WalkTable

\* When the walk comes to a lane.
WalkedTo == << 0, 18, 6, 12, 7, 23, 2, 9, 22, 1, 3, 17, 16, 20, 13, 8, 4, 5, 15, 19, 10, 21, 14, 11 >>

LEMMA WalkedOnce ==
  /\ \A n \in 1..24 : /\ Keccak!Lane(WalkTable[n][1], WalkTable[n][2]) \in 1..24
                      /\ WalkedTo[Keccak!Lane(WalkTable[n][1], WalkTable[n][2])] = n - 1
  /\ \A l \in 1..24 : /\ WalkedTo[l] \in 0..23
                      /\ Keccak!Lane(WalkTable[WalkedTo[l] + 1][1], WalkTable[WalkedTo[l] + 1][2]) = l
  BY DEF WalkTable, WalkedTo, Keccak!Lane

LEMMA OffsetsAgree ==
  \A l \in 1..24 : Keccak!kOffset[l + 1] = (((WalkedTo[l] + 1) * (WalkedTo[l] + 2)) \div 2) % 64
  BY DEF WalkedTo, Keccak!kOffset

Walked(w) ==
  [t \in 0..23 |-> IF t = 0 THEN <<1, 0>>
                   ELSE <<w[t - 1][2], (2 * w[t - 1][1] + 3 * w[t - 1][2]) % 5>>]

LEMMA WalkIsTable == \A n \in 0..23 : Keccak!Walk[n] = WalkTable[n + 1]
<1> DEFINE f == [n \in 0..23 |-> WalkTable[n + 1]]
           w == Keccak!Walk
           T == {n \in 0..23 : w[n] = WalkTable[n + 1]}
<1>1. f = Walked(f)
  <2>1. ASSUME NEW n \in 0..23
        PROVE  f[n] = Walked(f)[n]
    <3>1. CASE n = 0
      BY <3>1, WalkNext DEF Walked
    <3>2. CASE n # 0
      <4>1. n \in 1..23 /\ n - 1 \in 0..23 /\ n - 1 + 1 = n
        BY <3>2
      <4>2. f[n - 1] = WalkTable[n] /\ f[n] = WalkTable[n + 1]
        BY <4>1
      <4> HIDE DEF f
      <4>3. Walked(f)[n] = <<f[n - 1][2], (2 * f[n - 1][1] + 3 * f[n - 1][2]) % 5>>
        BY <3>2 DEF Walked
      <4> QED
        BY <4>1, <4>2, <4>3, WalkNext
    <3> QED
      BY <3>1, <3>2
  <2>2. f = [n \in 0..23 |-> f[n]] /\ Walked(f) = [n \in 0..23 |-> Walked(f)[n]]
    BY DEF Walked
  <2> HIDE DEF f
  <2> QED
    BY <2>1, <2>2
<1>2. w = CHOOSE t : t = Walked(t)
  BY DEF Keccak!Walk, Walked
<1> HIDE DEF f, w
<1>3. w = Walked(w)
  BY <1>1, <1>2
<1>4. w[0] = <<1, 0>>
  <2>1. Walked(w)[0] = <<1, 0>>
    BY DEF Walked
  <2> QED
    BY <1>3, <2>1
<1>5. \A n \in 1..23 : w[n] = <<w[n - 1][2], (2 * w[n - 1][1] + 3 * w[n - 1][2]) % 5>>
  <2>1. \A n \in 1..23 : Walked(w)[n] = <<w[n - 1][2], (2 * w[n - 1][1] + 3 * w[n - 1][2]) % 5>>
    BY DEF Walked
  <2> QED
    BY <1>3, <2>1
<1>6. 0 \in T
  <2>1. 0 + 1 = 1 /\ 0 \in 0..23
    OBVIOUS
  <2> QED
    BY <1>4, <2>1, WalkNext
<1>7. ASSUME NEW n \in 1..23, n - 1 \in T PROVE n \in T
  <2>1. n \in 0..23 /\ n - 1 + 1 = n
    OBVIOUS
  <2>2. w[n - 1] = WalkTable[n]
    BY <1>7, <2>1
  <2>3. w[n] = WalkTable[n + 1]
    BY <1>5, <2>2, WalkNext
  <2> QED
    BY <2>1, <2>3
<1> HIDE DEF T
<1>8. \A n \in 0..23 : n \in T
  BY <1>6, <1>7, UpTo
<1> QED
  BY <1>8 DEF T, w

LEMMA OffsetIsStandard ==
  \A l \in 0..24 : /\ Keccak!StandardOffset[l] = Keccak!kOffset[l + 1]
                   /\ Keccak!StandardOffset[l] \in 0..63
<1> SUFFICES ASSUME NEW l \in 0..24
             PROVE  /\ Keccak!StandardOffset[l] = Keccak!kOffset[l + 1]
                    /\ Keccak!StandardOffset[l] \in 0..63
  OBVIOUS
<1>1. CASE l = 0
  BY <1>1 DEF Keccak!StandardOffset, Keccak!kOffset
<1>2. CASE l # 0
  <2> DEFINE At(n) == Keccak!Lane(Keccak!Walk[n][1], Keccak!Walk[n][2])
             t == CHOOSE n \in 0..23 : At(n) = l
  <2>1. l \in 1..24
    BY <1>2
  <2>2. \A n \in 0..23 : n + 1 \in 1..24 /\ n + 1 - 1 = n
    OBVIOUS
  <2>3. \A n \in 0..23 : At(n) \in 1..24 /\ WalkedTo[At(n)] = n
    <3>0. \A k \in 1..24 : /\ Keccak!Lane(WalkTable[k][1], WalkTable[k][2]) \in 1..24
                           /\ WalkedTo[Keccak!Lane(WalkTable[k][1], WalkTable[k][2])] = k - 1
      BY WalkedOnce
    <3> HIDE DEF At
    <3> SUFFICES ASSUME NEW n \in 0..23
                 PROVE  At(n) \in 1..24 /\ WalkedTo[At(n)] = n
      OBVIOUS
    <3> DEFINE k == n + 1
               w == WalkTable[k]
    <3>1. k \in 1..24 /\ k - 1 = n
      BY <2>2
    <3>2. Keccak!Walk[n] = w
      BY WalkIsTable
    <3> HIDE DEF k
    <3>3. Keccak!Lane(w[1], w[2]) \in 1..24 /\ WalkedTo[Keccak!Lane(w[1], w[2])] = k - 1
      BY <3>0, <3>1, Zenon
    <3> HIDE DEF w
    <3> QED
      BY <3>1, <3>2, <3>3 DEF At
  <2>4. WalkedTo[l] \in 0..23 /\ At(WalkedTo[l]) = l
    BY <2>1, WalkIsTable, WalkedOnce
  <2>5. Keccak!StandardOffset[l] = (((t + 1) * (t + 2)) \div 2) % 64
    BY <1>2 DEF Keccak!StandardOffset
  <2> HIDE DEF At
  <2>6. t \in 0..23 /\ At(t) = l
    BY <2>4
  <2>7. t = WalkedTo[l]
    BY <2>3, <2>6
  <2> HIDE DEF t
  <2>8. Keccak!StandardOffset[l] = Keccak!kOffset[l + 1]
    BY <2>1, <2>5, <2>7, OffsetsAgree
  <2>9. Keccak!kOffset[l + 1] \in 0..63
    BY <2>1 DEF Keccak!kOffset
  <2> QED
    BY <2>8, <2>9
<1> QED
  BY <1>1, <1>2

-----------------------------------------------------------------------------
\* Rho and pi, turn by turn.
PassTurns(a, t) ==
  [k \in 0..24 |->
     IF k = 0 THEN a
     ELSE [t[k - 1] EXCEPT ![Keccak!kTgt[k]] =
                             Keccak!Rotl(a[Keccak!kSrc[k]], Keccak!kOffset[Keccak!kSrc[k] + 1])]]

Passes(a) == CHOOSE t : t = PassTurns(a, t)

Turned(a, k) == Keccak!Rotl(a[Keccak!kSrc[k]], Keccak!kOffset[Keccak!kSrc[k] + 1])

LEMMA TurnedInLanes ==
  ASSUME NEW a \in Lanes, NEW k \in 1..24 PROVE Turned(a, k) \in SUBSET Keccak!Bits
<1> DEFINE b == a[Keccak!kSrc[k]]
           n == Keccak!kOffset[Keccak!kSrc[k] + 1]
<1>1. b \in SUBSET Keccak!Bits /\ n \in 0..63
  BY TablesAgree DEF Lanes
<1> HIDE DEF b, n
<1>2. \A z \in 0..63 : (z + n) % 64 \in 0..63
  BY <1>1
<1>3. Keccak!Rotl(b, n) \in SUBSET Keccak!Bits
  BY <1>1, <1>2 DEF Keccak!Rotl, Keccak!Bits
<1> QED
  BY <1>3 DEF Turned, b, n

LEMMA PassesTurn ==
  ASSUME NEW a \in Lanes
  PROVE  LET t == Passes(a)
         IN  /\ t[0] = a
             /\ \A k \in 1..24 : t[k] = [t[k - 1] EXCEPT ![Keccak!kTgt[k]] = Turned(a, k)]
<1> DEFINE step == [k \in 1..24 |-> [u \in Lanes |-> [u EXCEPT ![Keccak!kTgt[k]] = Turned(a, k)]]]
           t == Passes(a)
<1>1. step \in [1..24 -> [Lanes -> Lanes]]
  <2>1. ASSUME NEW k \in 1..24, NEW u \in Lanes
        PROVE  [u EXCEPT ![Keccak!kTgt[k]] = Turned(a, k)] \in Lanes
    BY TurnedInLanes DEF Lanes
  <2> QED
    BY <2>1
<1>2. \A k \in 1..24, u \in Lanes : step[k][u] = [u EXCEPT ![Keccak!kTgt[k]] = Turned(a, k)]
  OBVIOUS
<1> HIDE DEF step
<1>3. PICK f : Stepping(f, Lanes, step, a, 24)
  BY <1>1, Steppings
<1>4. f = PassTurns(a, f)
  <2>1. \A k \in 0..24 : k # 0 => k \in 1..24 /\ k - 1 \in 0..24
    OBVIOUS
  <2>2. \A k \in 1..24 : f[k] = [f[k - 1] EXCEPT ![Keccak!kTgt[k]] = Turned(a, k)]
    <3> SUFFICES ASSUME NEW k \in 1..24
                 PROVE  f[k] = [f[k - 1] EXCEPT ![Keccak!kTgt[k]] = Turned(a, k)]
      OBVIOUS
    <3> DEFINE u == f[k - 1]
    <3>1. u \in Lanes /\ f[k] = step[k][u]
      BY <1>3, <2>1 DEF Stepping
    <3> HIDE DEF u
    <3>2. f[k] = [u EXCEPT ![Keccak!kTgt[k]] = Turned(a, k)]
      BY <1>2, <3>1
    <3> QED
      BY <3>2 DEF u
  <2>3. f = [k \in 0..24 |-> f[k]] /\ f[0] = a
    BY <1>3 DEF Stepping
  <2> QED
    BY <2>1, <2>2, <2>3 DEF PassTurns, Turned
<1>5. t = PassTurns(a, t)
  BY <1>4 DEF Passes
<1> HIDE DEF t
<1>6. /\ PassTurns(a, t)[0] = a
      /\ \A k \in 1..24 : PassTurns(a, t)[k] = [t[k - 1] EXCEPT ![Keccak!kTgt[k]] = Turned(a, k)]
  BY DEF PassTurns, Turned
<1>7. t[0] = a /\ \A k \in 1..24 : t[k] = [t[k - 1] EXCEPT ![Keccak!kTgt[k]] = Turned(a, k)]
  BY <1>5, <1>6
<1> QED
  BY <1>7 DEF t

\* What rho and pi make of each lane.
LEMMA RhoPiLanes ==
  ASSUME NEW a \in Lanes
  PROVE  /\ Keccak!RhoPi(a) \in Lanes
         /\ Keccak!RhoPi(a)[0] = a[0]
         /\ \A l \in 1..24 :
              Keccak!RhoPi(a)[l] = Keccak!Rotl(a[Sources[l]], Keccak!kOffset[Sources[l] + 1])
<1> DEFINE t == Passes(a)
           T == {n \in 0..24 : /\ t[n] \in Lanes /\ t[n][0] = a[0]
                               /\ \A k \in 1..n : t[n][Keccak!kTgt[k]] = Turned(a, k)}
<1>1. Keccak!RhoPi(a) = t[24]
  BY DEF Keccak!RhoPi, Passes, PassTurns
<1>2. t[0] = a /\ \A k \in 1..24 : t[k] = [t[k - 1] EXCEPT ![Keccak!kTgt[k]] = Turned(a, k)]
  BY PassesTurn
<1> HIDE DEF t
<1>3. 0 \in T
  BY <1>2
<1>4. ASSUME NEW n \in 1..24, n - 1 \in T PROVE n \in T
  <2> DEFINE u == t[n - 1]
             v == t[n]
             j == Keccak!kTgt[n]
  <2>1. u \in Lanes /\ u[0] = a[0] /\ \A k \in 1..(n - 1) : u[Keccak!kTgt[k]] = Turned(a, k)
    BY <1>4
  <2>2. v = [u EXCEPT ![j] = Turned(a, n)] /\ j \in 1..24
    BY <1>2, TablesAgree
  <2>3. \A k \in 1..24 : k # n => Keccak!kTgt[k] # j
    BY WrittenOnce
  <2>4. \A k \in 1..24 : Keccak!kTgt[k] \in 0..24
    BY TablesAgree
  <2> HIDE DEF u, v, j
  <2>5. v \in Lanes /\ v[0] = a[0] /\ v[j] = Turned(a, n)
    BY <2>1, <2>2, TurnedInLanes DEF Lanes
  <2>6. \A l \in 0..24 : l # j => v[l] = u[l]
    BY <2>1, <2>2 DEF Lanes
  <2>7. ASSUME NEW k \in 1..n PROVE v[Keccak!kTgt[k]] = Turned(a, k)
    <3>1. CASE k = n
      BY <2>5, <3>1 DEF j
    <3>2. CASE k # n
      <4>1. k \in 1..24 /\ k \in 1..(n - 1)
        BY <3>2
      <4> QED
        BY <2>1, <2>3, <2>4, <2>6, <3>2, <4>1
    <3> QED
      BY <3>1, <3>2
  <2> QED
    BY <2>5, <2>7 DEF v
<1>5. 24 \in T
  <2> HIDE DEF T
  <2>1. \A n \in 0..24 : n \in T
    BY <1>3, <1>4, UpTo
  <2> QED
    BY <2>1
<1>6. t[24] \in Lanes /\ t[24][0] = a[0] /\ \A k \in 1..24 : t[24][Keccak!kTgt[k]] = Turned(a, k)
  BY <1>5
<1>7. ASSUME NEW l \in 1..24
      PROVE  t[24][l] = Keccak!Rotl(a[Sources[l]], Keccak!kOffset[Sources[l] + 1])
  <2>1. TurnOf[l] \in 1..24 /\ Keccak!kTgt[TurnOf[l]] = l
    BY WrittenOnce
  <2>2. t[24][l] = Turned(a, TurnOf[l])
    BY <1>6, <2>1
  <2>3. Keccak!kSrc[TurnOf[l]] = Sources[l]
    BY <2>1, TablesAgree
  <2> QED
    BY <2>2, <2>3 DEF Turned
<1> QED
  BY <1>1, <1>6, <1>7

\* Theta, rho and pi, bit by bit.
LEMMA RhoPiMoves ==
  ASSUME NEW a \in Lanes
  PROVE  LET b == Keccak!RhoPi(Keccak!Theta(a))
         IN  /\ b \in Lanes
             /\ \A l \in 0..24, z \in Keccak!Bits : z \in b[l] <=> Keccak!Moved(a, l, z)
<1> DEFINE e == Keccak!Theta(a)
           b == Keccak!RhoPi(e)
<1>1. e \in Lanes /\ \A l \in 0..24, z \in Keccak!Bits : z \in e[l] <=> Keccak!Mixed(a, l, z)
  BY ThetaMixes
<1> HIDE DEF e
<1>2. /\ b \in Lanes /\ b[0] = e[0]
      /\ \A l \in 1..24 : b[l] = Keccak!Rotl(e[Sources[l]], Keccak!kOffset[Sources[l] + 1])
  BY <1>1, RhoPiLanes
<1> HIDE DEF b
<1>3. \A l \in 0..24 : Sources[l] \in 0..24
  <2>1. \A l \in 0..24 : ((l % 5) + 3 * (l \div 5)) % 5 \in 0..4 /\ l % 5 \in 0..4
    BY Indexed
  <2> QED
    BY <2>1, Indexed DEF Sources
<1>4. ASSUME NEW l \in 0..24, NEW z \in Keccak!Bits
      PROVE  z \in b[l] <=> Keccak!Moved(a, l, z)
  <2> DEFINE from == Sources[l]
             n == Keccak!StandardOffset[from]
             w == (z + 64 - n) % 64
  <2>1. Keccak!Moved(a, l, z) <=> Keccak!Mixed(a, from, w)
    BY DEF Keccak!Moved, Sources
  <2>2. from \in 0..24 /\ n \in 0..63 /\ n = Keccak!kOffset[from + 1]
    BY <1>3, OffsetIsStandard
  <2>3. w \in Keccak!Bits
    BY <2>2 DEF Keccak!Bits
  <2>4. CASE l = 0
    <3>1. from = 0 /\ n = 0
      BY <2>2, <2>4 DEF Sources, Keccak!Lane, Keccak!kOffset
    <3>2. w = z
      BY <3>1 DEF Keccak!Bits
    <3> QED
      BY <1>1, <1>2, <2>1, <2>4, <3>1, <3>2
  <2>5. CASE l # 0
    <3>1. b[l] = Keccak!Rotl(e[from], n)
      BY <1>2, <2>2, <2>5
    <3>2. e[from] \in SUBSET Keccak!Bits
      BY <1>1, <2>2 DEF Lanes
    <3> HIDE DEF from, n
    <3>3. z \in b[l] <=> w \in e[from]
      BY <2>2, <3>1, <3>2, Rotated
    <3> HIDE DEF w
    <3> QED
      BY <1>1, <2>1, <2>2, <2>3, <3>3
  <2> QED
    BY <2>4, <2>5
<1> QED
  BY <1>2, <1>4 DEF b, e

\* Chi, bit by bit.
LEMMA ChiChooses ==
  ASSUME NEW a \in Lanes
  PROVE  LET b == Keccak!Chi(Keccak!RhoPi(Keccak!Theta(a)))
         IN  /\ b \in Lanes
             /\ \A l \in 0..24, z \in Keccak!Bits : z \in b[l] <=> Keccak!Chosen(a, l, z)
<1> DEFINE e == Keccak!RhoPi(Keccak!Theta(a))
           right(l, n) == Keccak!Lane((l + n) % 5, l \div 5)
<1>1. e \in Lanes /\ \A l \in 0..24, z \in Keccak!Bits : z \in e[l] <=> Keccak!Moved(a, l, z)
  BY RhoPiMoves
<1> HIDE DEF e
<1>2. \A l \in 0..24 : right(l, 1) \in 0..24 /\ right(l, 2) \in 0..24
  BY Indexed
<1>3. \A l \in 0..24 : /\ l - (l % 5) + ((l + 1) % 5) = right(l, 1)
                       /\ l - (l % 5) + ((l + 2) % 5) = right(l, 2)
  BY DEF Keccak!Lane
<1>4. \A l \in 0..24, z \in Keccak!Bits :
        Keccak!Chosen(a, l, z)
          <=> Keccak!Moved(a, l, z)
                # (~Keccak!Moved(a, right(l, 1), z) /\ Keccak!Moved(a, right(l, 2), z))
  BY DEF Keccak!Chosen
<1>8. \A l, z : Keccak!Moved(a, l, z) \in BOOLEAN
  BY DEF Keccak!Moved, Keccak!Mixed
<1> HIDE DEF right
<1>5. \A l \in 0..24 : Keccak!Chi(e)[l]
                         = Keccak!Xor(e[l], Keccak!Not(e[right(l, 1)]) \cap e[right(l, 2)])
  BY <1>3 DEF Keccak!Chi
<1>6. Keccak!Chi(e) \in Lanes
  <2>1. \A l \in 0..24 : Keccak!Chi(e)[l] \in SUBSET Keccak!Bits
    BY <1>1, <1>2, <1>5 DEF Keccak!Xor, Keccak!Not, Lanes
  <2>2. Keccak!Chi(e) = [l \in 0..24 |-> Keccak!Chi(e)[l]]
    BY DEF Keccak!Chi
  <2> QED
    BY <2>1, <2>2 DEF Lanes
<1>7. ASSUME NEW l \in 0..24, NEW z \in Keccak!Bits
      PROVE  z \in Keccak!Chi(e)[l] <=> Keccak!Chosen(a, l, z)
  <2>1. z \in Keccak!Chi(e)[l]
          <=> (z \in e[l]) # (z \notin e[right(l, 1)] /\ z \in e[right(l, 2)])
    BY <1>5 DEF Keccak!Xor, Keccak!Not
  <2>2. /\ z \in e[l] <=> Keccak!Moved(a, l, z)
        /\ z \in e[right(l, 1)] <=> Keccak!Moved(a, right(l, 1), z)
        /\ z \in e[right(l, 2)] <=> Keccak!Moved(a, right(l, 2), z)
    BY <1>1, <1>2
  <2>3. Keccak!Chosen(a, l, z)
          <=> (z \in e[l]) # (z \notin e[right(l, 1)] /\ z \in e[right(l, 2)])
    BY <1>4, <1>8, <2>2
  <2> QED
    BY <2>1, <2>3
<1> QED
  BY <1>6, <1>7 DEF e

-----------------------------------------------------------------------------
\* The shift register of the round constants.
Registers == SUBSET (0..7)

Clock(R) ==
  LET up == {b + 1 : b \in R}
  IN  IF 8 \in up THEN Keccak!Xor(up \ {8}, {0, 4, 5, 6}) ELSE up

\* What a clock makes of each bit.
Ticks(R, to) ==
  /\ 0 \in to <=> 7 \in R
  /\ 1 \in to <=> 0 \in R
  /\ 2 \in to <=> 1 \in R
  /\ 3 \in to <=> 2 \in R
  /\ 4 \in to <=> ((3 \in R) # (7 \in R))
  /\ 5 \in to <=> ((4 \in R) # (7 \in R))
  /\ 6 \in to <=> ((5 \in R) # (7 \in R))
  /\ 7 \in to <=> 6 \in R

LEMMA ClockMoves ==
  ASSUME NEW R \in Registers
  PROVE  Clock(R) \in Registers /\ Ticks(R, Clock(R))
<1> DEFINE up == {b + 1 : b \in R}
<1>1. \A b \in R : b \in 0..7
  BY DEF Registers
<1>2. \A c \in 0..8 : c \in up <=> c # 0 /\ c - 1 \in R
  BY <1>1
<1>3. up \in SUBSET (0..8)
  BY <1>1
<1>4. Clock(R) = IF 8 \in up THEN Keccak!Xor(up \ {8}, {0, 4, 5, 6}) ELSE up
  BY DEF Clock
<1> HIDE DEF up
<1>5. /\ 8 \in up <=> 7 \in R
      /\ 0 \notin up
      /\ 1 \in up <=> 0 \in R
      /\ 2 \in up <=> 1 \in R
      /\ 3 \in up <=> 2 \in R
      /\ 4 \in up <=> 3 \in R
      /\ 5 \in up <=> 4 \in R
      /\ 6 \in up <=> 5 \in R
      /\ 7 \in up <=> 6 \in R
  BY <1>2
<1>6. Clock(R) \in Registers
  BY <1>3, <1>4 DEF Registers, Keccak!Xor
<1>7. \A b \in 0..7 : b \in Clock(R) <=> ((b \in up) # (8 \in up /\ b \in {0, 4, 5, 6}))
  BY <1>4 DEF Keccak!Xor
<1>8. Ticks(R, Clock(R))
  BY <1>5, <1>7 DEF Ticks
<1> QED
  BY <1>6, <1>8

Registered(w) == [n \in 0..167 |-> IF n = 0 THEN {0} ELSE Clock(w[n - 1])]

LEMMA RegisterClocks ==
  /\ Keccak!Register[0] = {0}
  /\ \A n \in 0..167 : Keccak!Register[n] \in Registers
  /\ \A n \in 1..167 : Keccak!Register[n] = Clock(Keccak!Register[n - 1])
<1> DEFINE turn == [R \in Registers |-> Clock(R)]
           w == Keccak!Register
<1>1. turn \in [Registers -> Registers] /\ {0} \in Registers
  BY ClockMoves DEF Registers
<1>2. \A R \in Registers : turn[R] = Clock(R)
  OBVIOUS
<1> HIDE DEF turn
<1>3. PICK f : Loop(f, Registers, turn, {0}, 167)
  BY <1>1, Turns
<1>4. \A k \in 0..167 : k # 0 => k \in 1..167 /\ k - 1 \in 0..167
  OBVIOUS
<1>5. f = Registered(f)
  <2>1. \A k \in 1..167 : f[k] = Clock(f[k - 1])
    BY <1>2, <1>3, <1>4 DEF Loop
  <2>2. f = [k \in 0..167 |-> f[k]] /\ f[0] = {0}
    BY <1>3 DEF Loop
  <2> QED
    BY <1>4, <2>1, <2>2 DEF Registered
<1>6. w = CHOOSE t : t = Registered(t)
  BY DEF Keccak!Register, Registered, Clock
<1> HIDE DEF w
<1>7. w = Registered(w)
  BY <1>5, <1>6
<1>8. Registered(w)[0] = {0} /\ \A n \in 1..167 : Registered(w)[n] = Clock(w[n - 1])
  BY DEF Registered
<1>9. w[0] = {0} /\ \A n \in 1..167 : w[n] = Clock(w[n - 1])
  BY <1>7, <1>8
<1> DEFINE T == {n \in 0..167 : w[n] \in Registers}
<1>10. 0 \in T
  BY <1>1, <1>9
<1>11. ASSUME NEW n \in 1..167, n - 1 \in T PROVE n \in T
  BY <1>9, <1>11, ClockMoves
<1> HIDE DEF T
<1>12. \A n \in 0..167 : n \in T
  BY <1>10, <1>11, UpTo
<1> QED
  BY <1>9, <1>12 DEF T, w

\* What seven clocks put out, and what they leave.
PutsOut(R, out) ==
  /\ 0 \in out <=> (0 \in R)
  /\ 1 \in out <=> (7 \in R)
  /\ 2 \in out <=> (6 \in R)
  /\ 3 \in out <=> ((5 \in R) # (7 \in R))
  /\ 4 \in out <=> (((4 \in R) # (6 \in R)) # (7 \in R))
  /\ 5 \in out <=> (((3 \in R) # (5 \in R)) # (6 \in R))
  /\ 6 \in out <=> (((2 \in R) # (4 \in R)) # (5 \in R))

ClocksTo(R, to) ==
  /\ 0 \in to <=> (((1 \in R) # (3 \in R)) # (4 \in R))
  /\ 1 \in to <=> (((2 \in R) # (4 \in R)) # (5 \in R))
  /\ 2 \in to <=> (((3 \in R) # (5 \in R)) # (6 \in R))
  /\ 3 \in to <=> (((4 \in R) # (6 \in R)) # (7 \in R))
  /\ 4 \in to <=> (((((1 \in R) # (3 \in R)) # (4 \in R)) # (5 \in R)) # (7 \in R))
  /\ 5 \in to <=> (((((1 \in R) # (2 \in R)) # (3 \in R)) # (5 \in R)) # (6 \in R))
  /\ 6 \in to <=> ((((1 \in R) # (2 \in R)) # (6 \in R)) # (7 \in R))
  /\ 7 \in to <=> ((((0 \in R) # (2 \in R)) # (3 \in R)) # (7 \in R))

LEMMA SevenClocks ==
  ASSUME NEW n \in 0..161
  PROVE  /\ PutsOut(Keccak!Register[n], {j \in 0..6 : 0 \in Keccak!Register[n + j]})
         /\ n # 161 => ClocksTo(Keccak!Register[n], Keccak!Register[n + 7])
<1> DEFINE w(j) == Keccak!Register[n + j]
<1>1. \A j \in 0..6 : w(j) \in Registers
  BY RegisterClocks
<1>2. n # 161 => w(7) = Clock(w(6))
  BY RegisterClocks
<1>3. /\ w(1) = Clock(w(0)) /\ w(2) = Clock(w(1)) /\ w(3) = Clock(w(2))
      /\ w(4) = Clock(w(3)) /\ w(5) = Clock(w(4)) /\ w(6) = Clock(w(5))
  BY RegisterClocks
<1>4. w(0) = Keccak!Register[n]
  OBVIOUS
<1> HIDE DEF w
<1>5. /\ 0 \in w(1) <=> (7 \in w(0))
      /\ 1 \in w(1) <=> (0 \in w(0))
      /\ 2 \in w(1) <=> (1 \in w(0))
      /\ 3 \in w(1) <=> (2 \in w(0))
      /\ 4 \in w(1) <=> ((3 \in w(0)) # (7 \in w(0)))
      /\ 5 \in w(1) <=> ((4 \in w(0)) # (7 \in w(0)))
      /\ 6 \in w(1) <=> ((5 \in w(0)) # (7 \in w(0)))
      /\ 7 \in w(1) <=> (6 \in w(0))
  <2>1. Ticks(w(0), w(1))
    BY <1>1, <1>3, ClockMoves
  <2> QED
    BY <2>1 DEF Ticks
<1>6. /\ 0 \in w(2) <=> (6 \in w(0))
      /\ 1 \in w(2) <=> (7 \in w(0))
      /\ 2 \in w(2) <=> (0 \in w(0))
      /\ 3 \in w(2) <=> (1 \in w(0))
      /\ 4 \in w(2) <=> ((2 \in w(0)) # (6 \in w(0)))
      /\ 5 \in w(2) <=> (((3 \in w(0)) # (6 \in w(0))) # (7 \in w(0)))
      /\ 6 \in w(2) <=> (((4 \in w(0)) # (6 \in w(0))) # (7 \in w(0)))
      /\ 7 \in w(2) <=> ((5 \in w(0)) # (7 \in w(0)))
  <2>1. Ticks(w(1), w(2))
    BY <1>1, <1>3, ClockMoves
  <2> QED
    BY <2>1, <1>5 DEF Ticks
<1>7. /\ 0 \in w(3) <=> ((5 \in w(0)) # (7 \in w(0)))
      /\ 1 \in w(3) <=> (6 \in w(0))
      /\ 2 \in w(3) <=> (7 \in w(0))
      /\ 3 \in w(3) <=> (0 \in w(0))
      /\ 4 \in w(3) <=> (((1 \in w(0)) # (5 \in w(0))) # (7 \in w(0)))
      /\ 5 \in w(3) <=> ((((2 \in w(0)) # (5 \in w(0))) # (6 \in w(0))) # (7 \in w(0)))
      /\ 6 \in w(3) <=> (((3 \in w(0)) # (5 \in w(0))) # (6 \in w(0)))
      /\ 7 \in w(3) <=> (((4 \in w(0)) # (6 \in w(0))) # (7 \in w(0)))
  <2>1. Ticks(w(2), w(3))
    BY <1>1, <1>3, ClockMoves
  <2> QED
    BY <2>1, <1>6 DEF Ticks
<1>8. /\ 0 \in w(4) <=> (((4 \in w(0)) # (6 \in w(0))) # (7 \in w(0)))
      /\ 1 \in w(4) <=> ((5 \in w(0)) # (7 \in w(0)))
      /\ 2 \in w(4) <=> (6 \in w(0))
      /\ 3 \in w(4) <=> (7 \in w(0))
      /\ 4 \in w(4) <=> ((((0 \in w(0)) # (4 \in w(0))) # (6 \in w(0))) # (7 \in w(0)))
      /\ 5 \in w(4) <=> ((((1 \in w(0)) # (4 \in w(0))) # (5 \in w(0))) # (6 \in w(0)))
      /\ 6 \in w(4) <=> (((2 \in w(0)) # (4 \in w(0))) # (5 \in w(0)))
      /\ 7 \in w(4) <=> (((3 \in w(0)) # (5 \in w(0))) # (6 \in w(0)))
  <2>1. Ticks(w(3), w(4))
    BY <1>1, <1>3, ClockMoves
  <2> QED
    BY <2>1, <1>7 DEF Ticks
<1>9. /\ 0 \in w(5) <=> (((3 \in w(0)) # (5 \in w(0))) # (6 \in w(0)))
      /\ 1 \in w(5) <=> (((4 \in w(0)) # (6 \in w(0))) # (7 \in w(0)))
      /\ 2 \in w(5) <=> ((5 \in w(0)) # (7 \in w(0)))
      /\ 3 \in w(5) <=> (6 \in w(0))
      /\ 4 \in w(5) <=> ((((3 \in w(0)) # (5 \in w(0))) # (6 \in w(0))) # (7 \in w(0)))
      /\ 5 \in w(5) <=> (((((0 \in w(0)) # (3 \in w(0))) # (4 \in w(0))) # (5 \in w(0))) # (7 \in w(0)))
      /\ 6 \in w(5) <=> (((1 \in w(0)) # (3 \in w(0))) # (4 \in w(0)))
      /\ 7 \in w(5) <=> (((2 \in w(0)) # (4 \in w(0))) # (5 \in w(0)))
  <2>1. Ticks(w(4), w(5))
    BY <1>1, <1>3, ClockMoves
  <2> QED
    BY <2>1, <1>8 DEF Ticks
<1>10. /\ 0 \in w(6) <=> (((2 \in w(0)) # (4 \in w(0))) # (5 \in w(0)))
       /\ 1 \in w(6) <=> (((3 \in w(0)) # (5 \in w(0))) # (6 \in w(0)))
       /\ 2 \in w(6) <=> (((4 \in w(0)) # (6 \in w(0))) # (7 \in w(0)))
       /\ 3 \in w(6) <=> ((5 \in w(0)) # (7 \in w(0)))
       /\ 4 \in w(6) <=> ((((2 \in w(0)) # (4 \in w(0))) # (5 \in w(0))) # (6 \in w(0)))
       /\ 5 \in w(6) <=> (((((2 \in w(0)) # (3 \in w(0))) # (4 \in w(0))) # (6 \in w(0))) # (7 \in w(0)))
       /\ 6 \in w(6) <=> ((((0 \in w(0)) # (2 \in w(0))) # (3 \in w(0))) # (7 \in w(0)))
       /\ 7 \in w(6) <=> (((1 \in w(0)) # (3 \in w(0))) # (4 \in w(0)))
  <2>1. Ticks(w(5), w(6))
    BY <1>1, <1>3, ClockMoves
  <2> QED
    BY <2>1, <1>9 DEF Ticks
<1>11. n # 161 =>
         /\ 0 \in w(7) <=> (((1 \in w(0)) # (3 \in w(0))) # (4 \in w(0)))
         /\ 1 \in w(7) <=> (((2 \in w(0)) # (4 \in w(0))) # (5 \in w(0)))
         /\ 2 \in w(7) <=> (((3 \in w(0)) # (5 \in w(0))) # (6 \in w(0)))
         /\ 3 \in w(7) <=> (((4 \in w(0)) # (6 \in w(0))) # (7 \in w(0)))
         /\ 4 \in w(7) <=> (((((1 \in w(0)) # (3 \in w(0))) # (4 \in w(0))) # (5 \in w(0))) # (7 \in w(0)))
         /\ 5 \in w(7) <=> (((((1 \in w(0)) # (2 \in w(0))) # (3 \in w(0))) # (5 \in w(0))) # (6 \in w(0)))
         /\ 6 \in w(7) <=> ((((1 \in w(0)) # (2 \in w(0))) # (6 \in w(0))) # (7 \in w(0)))
         /\ 7 \in w(7) <=> ((((0 \in w(0)) # (2 \in w(0))) # (3 \in w(0))) # (7 \in w(0)))
  <2>1. n # 161 => Ticks(w(6), w(7))
    BY <1>1, <1>2, ClockMoves
  <2> QED
    BY <2>1, <1>10 DEF Ticks
<1>12. PutsOut(w(0), {j \in 0..6 : 0 \in w(j)})
  BY <1>5, <1>6, <1>7, <1>8, <1>9, <1>10 DEF PutsOut
<1>13. n # 161 => ClocksTo(w(0), w(7))
  BY <1>11 DEF ClocksTo
<1> QED
  BY <1>4, <1>12, <1>13 DEF w

\* The register at the beginning of each round.
RegisterTable ==
  << {0}, {7}, {3, 4, 6, 7}, {1, 3, 4}, {0, 1, 2, 3, 4, 6, 7}, {0, 3}, {0, 2, 4, 5}, {0, 1,
     2, 3, 6}, {1, 3, 6, 7}, {4, 5, 6}, {0, 6}, {2, 3, 5, 6, 7}, {0, 2, 4, 6, 7}, {0, 2, 3,
     6, 7}, {0, 1, 5, 6}, {0, 1, 3, 5, 7}, {1, 3, 5, 7}, {1, 3, 5}, {1, 4, 5, 6, 7}, {3, 5,
     6, 7}, {0, 1, 2, 4, 5}, {1, 2, 3, 4, 5}, {0, 1, 3}, {2, 6} >>

LEMMA RegisterRounds ==
  /\ RegisterTable[1] = {0}
  /\ \A r \in 1..24 : RegisterTable[r] \in Registers
  /\ \A r \in 1..23 : ClocksTo(RegisterTable[r], RegisterTable[r + 1])
<1>1. ClocksTo(RegisterTable[1], RegisterTable[2])
  <2>1. RegisterTable[1] = {0} /\ RegisterTable[2] = {7}
    BY DEF RegisterTable
  <2> QED
    BY <2>1 DEF ClocksTo
<1>2. ClocksTo(RegisterTable[2], RegisterTable[3])
  <2>1. RegisterTable[2] = {7} /\ RegisterTable[3] = {3, 4, 6, 7}
    BY DEF RegisterTable
  <2> QED
    BY <2>1 DEF ClocksTo
<1>3. ClocksTo(RegisterTable[3], RegisterTable[4])
  <2>1. RegisterTable[3] = {3, 4, 6, 7} /\ RegisterTable[4] = {1, 3, 4}
    BY DEF RegisterTable
  <2> QED
    BY <2>1 DEF ClocksTo
<1>4. ClocksTo(RegisterTable[4], RegisterTable[5])
  <2>1. RegisterTable[4] = {1, 3, 4} /\ RegisterTable[5] = {0, 1, 2, 3, 4, 6, 7}
    BY DEF RegisterTable
  <2> QED
    BY <2>1 DEF ClocksTo
<1>5. ClocksTo(RegisterTable[5], RegisterTable[6])
  <2>1. RegisterTable[5] = {0, 1, 2, 3, 4, 6, 7} /\ RegisterTable[6] = {0, 3}
    BY DEF RegisterTable
  <2> QED
    BY <2>1 DEF ClocksTo
<1>6. ClocksTo(RegisterTable[6], RegisterTable[7])
  <2>1. RegisterTable[6] = {0, 3} /\ RegisterTable[7] = {0, 2, 4, 5}
    BY DEF RegisterTable
  <2> QED
    BY <2>1 DEF ClocksTo
<1>7. ClocksTo(RegisterTable[7], RegisterTable[8])
  <2>1. RegisterTable[7] = {0, 2, 4, 5} /\ RegisterTable[8] = {0, 1, 2, 3, 6}
    BY DEF RegisterTable
  <2> QED
    BY <2>1 DEF ClocksTo
<1>8. ClocksTo(RegisterTable[8], RegisterTable[9])
  <2>1. RegisterTable[8] = {0, 1, 2, 3, 6} /\ RegisterTable[9] = {1, 3, 6, 7}
    BY DEF RegisterTable
  <2> QED
    BY <2>1 DEF ClocksTo
<1>9. ClocksTo(RegisterTable[9], RegisterTable[10])
  <2>1. RegisterTable[9] = {1, 3, 6, 7} /\ RegisterTable[10] = {4, 5, 6}
    BY DEF RegisterTable
  <2> QED
    BY <2>1 DEF ClocksTo
<1>10. ClocksTo(RegisterTable[10], RegisterTable[11])
  <2>1. RegisterTable[10] = {4, 5, 6} /\ RegisterTable[11] = {0, 6}
    BY DEF RegisterTable
  <2> QED
    BY <2>1 DEF ClocksTo
<1>11. ClocksTo(RegisterTable[11], RegisterTable[12])
  <2>1. RegisterTable[11] = {0, 6} /\ RegisterTable[12] = {2, 3, 5, 6, 7}
    BY DEF RegisterTable
  <2> QED
    BY <2>1 DEF ClocksTo
<1>12. ClocksTo(RegisterTable[12], RegisterTable[13])
  <2>1. RegisterTable[12] = {2, 3, 5, 6, 7} /\ RegisterTable[13] = {0, 2, 4, 6, 7}
    BY DEF RegisterTable
  <2> QED
    BY <2>1 DEF ClocksTo
<1>13. ClocksTo(RegisterTable[13], RegisterTable[14])
  <2>1. RegisterTable[13] = {0, 2, 4, 6, 7} /\ RegisterTable[14] = {0, 2, 3, 6, 7}
    BY DEF RegisterTable
  <2> QED
    BY <2>1 DEF ClocksTo
<1>14. ClocksTo(RegisterTable[14], RegisterTable[15])
  <2>1. RegisterTable[14] = {0, 2, 3, 6, 7} /\ RegisterTable[15] = {0, 1, 5, 6}
    BY DEF RegisterTable
  <2> QED
    BY <2>1 DEF ClocksTo
<1>15. ClocksTo(RegisterTable[15], RegisterTable[16])
  <2>1. RegisterTable[15] = {0, 1, 5, 6} /\ RegisterTable[16] = {0, 1, 3, 5, 7}
    BY DEF RegisterTable
  <2> QED
    BY <2>1 DEF ClocksTo
<1>16. ClocksTo(RegisterTable[16], RegisterTable[17])
  <2>1. RegisterTable[16] = {0, 1, 3, 5, 7} /\ RegisterTable[17] = {1, 3, 5, 7}
    BY DEF RegisterTable
  <2> QED
    BY <2>1 DEF ClocksTo
<1>17. ClocksTo(RegisterTable[17], RegisterTable[18])
  <2>1. RegisterTable[17] = {1, 3, 5, 7} /\ RegisterTable[18] = {1, 3, 5}
    BY DEF RegisterTable
  <2> QED
    BY <2>1 DEF ClocksTo
<1>18. ClocksTo(RegisterTable[18], RegisterTable[19])
  <2>1. RegisterTable[18] = {1, 3, 5} /\ RegisterTable[19] = {1, 4, 5, 6, 7}
    BY DEF RegisterTable
  <2> QED
    BY <2>1 DEF ClocksTo
<1>19. ClocksTo(RegisterTable[19], RegisterTable[20])
  <2>1. RegisterTable[19] = {1, 4, 5, 6, 7} /\ RegisterTable[20] = {3, 5, 6, 7}
    BY DEF RegisterTable
  <2> QED
    BY <2>1 DEF ClocksTo
<1>20. ClocksTo(RegisterTable[20], RegisterTable[21])
  <2>1. RegisterTable[20] = {3, 5, 6, 7} /\ RegisterTable[21] = {0, 1, 2, 4, 5}
    BY DEF RegisterTable
  <2> QED
    BY <2>1 DEF ClocksTo
<1>21. ClocksTo(RegisterTable[21], RegisterTable[22])
  <2>1. RegisterTable[21] = {0, 1, 2, 4, 5} /\ RegisterTable[22] = {1, 2, 3, 4, 5}
    BY DEF RegisterTable
  <2> QED
    BY <2>1 DEF ClocksTo
<1>22. ClocksTo(RegisterTable[22], RegisterTable[23])
  <2>1. RegisterTable[22] = {1, 2, 3, 4, 5} /\ RegisterTable[23] = {0, 1, 3}
    BY DEF RegisterTable
  <2> QED
    BY <2>1 DEF ClocksTo
<1>23. ClocksTo(RegisterTable[23], RegisterTable[24])
  <2>1. RegisterTable[23] = {0, 1, 3} /\ RegisterTable[24] = {2, 6}
    BY DEF RegisterTable
  <2> QED
    BY <2>1 DEF ClocksTo
<1>24. \A r \in 1..24 : RegisterTable[r] \in Registers
  BY DEF RegisterTable, Registers
<1>25. RegisterTable[1] = {0}
  BY DEF RegisterTable
<1>26. ASSUME NEW r \in 1..23
       PROVE  ClocksTo(RegisterTable[r], RegisterTable[r + 1])
  BY <1>1, <1>2, <1>3, <1>4, <1>5, <1>6, <1>7, <1>8, <1>9, <1>10, <1>11, <1>12, <1>13, <1>14, <1>15, <1>16, <1>17, 
     <1>18, <1>19, <1>20, <1>21, <1>22, <1>23
<1> QED
  BY <1>24, <1>25, <1>26

LEMMA RegisterAt ==
  \A r \in 1..24, b \in 0..7 : b \in Keccak!Register[7 * (r - 1)] <=> b \in RegisterTable[r]
<1> DEFINE T == {k \in 0..23 : \A b \in 0..7 : b \in Keccak!Register[7 * k] <=> b \in RegisterTable[k + 1]}
<1>1. 0 \in T
  <2>1. 7 * 0 = 0 /\ 0 + 1 = 1 /\ 0 \in 0..23
    OBVIOUS
  <2> QED
    BY <2>1, RegisterClocks, RegisterRounds
<1>2. ASSUME NEW k \in 1..23, k - 1 \in T PROVE k \in T
  <2> DEFINE n == 7 * (k - 1)
  <2>1. n \in 0..161 /\ n # 161 /\ n + 7 = 7 * k /\ k - 1 + 1 = k /\ k \in 0..23
    OBVIOUS
  <2>2. \A b \in 0..7 : b \in Keccak!Register[n] <=> b \in RegisterTable[k]
    BY <1>2, <2>1
  <2> HIDE DEF n
  <2>3. ClocksTo(Keccak!Register[n], Keccak!Register[7 * k])
    BY <2>1, SevenClocks
  <2>4. ClocksTo(RegisterTable[k], RegisterTable[k + 1])
    BY RegisterRounds
  <2>5. \A b \in 0..7 : b \in Keccak!Register[7 * k] <=> b \in RegisterTable[k + 1]
    BY <2>2, <2>3, <2>4 DEF ClocksTo
  <2> QED
    BY <2>1, <2>5
<1> HIDE DEF T
<1>3. \A k \in 0..23 : k \in T
  BY <1>1, <1>2, UpTo
<1>4. ASSUME NEW r \in 1..24, NEW b \in 0..7
      PROVE  b \in Keccak!Register[7 * (r - 1)] <=> b \in RegisterTable[r]
  <2>1. r - 1 \in 0..23 /\ r - 1 + 1 = r
    OBVIOUS
  <2>2. r - 1 \in T
    BY <1>3, <2>1
  <2> QED
    BY <2>1, <2>2 DEF T
<1> QED
  BY <1>4

Positions == <<0, 1, 3, 7, 15, 31, 63>>

\* What the register puts out in each round, and where those bits go.
OutTable ==
  << {0}, {1, 3, 4}, {1, 2, 3, 4, 6}, {4, 5, 6}, {0, 1, 2, 3, 4}, {0, 5}, {0, 3, 4, 5, 6},
     {0, 2, 4, 6}, {1, 2, 3}, {2, 3}, {0, 2, 4, 5}, {1, 2, 5}, {0, 1, 2, 3, 4, 5}, {0, 1,
     2, 3, 6}, {0, 2, 3, 4, 6}, {0, 1, 4, 6}, {1, 4, 6}, {3, 6}, {1, 2, 4}, {1, 2, 5, 6},
     {0, 3, 4, 5, 6}, {3, 4, 6}, {0, 5}, {2, 4, 5, 6} >>

LEMMA OutRounds ==
  /\ \A r \in 1..24 : OutTable[r] \in SUBSET (0..6)
  /\ \A r \in 1..24 : PutsOut(RegisterTable[r], OutTable[r])
  /\ \A r \in 1..24 : Keccak!RC[r] = {Positions[j + 1] : j \in OutTable[r]}
<1> DEFINE At(o) == {Positions[j + 1] : j \in o}
<1>1. PutsOut(RegisterTable[1], OutTable[1]) /\ Keccak!RC[1] = At(OutTable[1])
  <2>1. /\ RegisterTable[1] = {0}
        /\ OutTable[1] = {0}
        /\ Keccak!RC[1] = {0}
    BY DEF RegisterTable, OutTable, Keccak!RC
  <2>2. At({0}) = {0}
    BY DEF Positions
  <2> QED
    BY <2>1, <2>2 DEF PutsOut
<1>2. PutsOut(RegisterTable[2], OutTable[2]) /\ Keccak!RC[2] = At(OutTable[2])
  <2>1. /\ RegisterTable[2] = {7}
        /\ OutTable[2] = {1, 3, 4}
        /\ Keccak!RC[2] = {1, 7, 15}
    BY DEF RegisterTable, OutTable, Keccak!RC
  <2>2. At({1, 3, 4}) = {1, 7, 15}
    BY DEF Positions
  <2> QED
    BY <2>1, <2>2 DEF PutsOut
<1>3. PutsOut(RegisterTable[3], OutTable[3]) /\ Keccak!RC[3] = At(OutTable[3])
  <2>1. /\ RegisterTable[3] = {3, 4, 6, 7}
        /\ OutTable[3] = {1, 2, 3, 4, 6}
        /\ Keccak!RC[3] = {1, 3, 7, 15, 63}
    BY DEF RegisterTable, OutTable, Keccak!RC
  <2>2. At({1, 2, 3, 4, 6}) = {1, 3, 7, 15, 63}
    BY DEF Positions
  <2> QED
    BY <2>1, <2>2 DEF PutsOut
<1>4. PutsOut(RegisterTable[4], OutTable[4]) /\ Keccak!RC[4] = At(OutTable[4])
  <2>1. /\ RegisterTable[4] = {1, 3, 4}
        /\ OutTable[4] = {4, 5, 6}
        /\ Keccak!RC[4] = {15, 31, 63}
    BY DEF RegisterTable, OutTable, Keccak!RC
  <2>2. At({4, 5, 6}) = {15, 31, 63}
    BY DEF Positions
  <2> QED
    BY <2>1, <2>2 DEF PutsOut
<1>5. PutsOut(RegisterTable[5], OutTable[5]) /\ Keccak!RC[5] = At(OutTable[5])
  <2>1. /\ RegisterTable[5] = {0, 1, 2, 3, 4, 6, 7}
        /\ OutTable[5] = {0, 1, 2, 3, 4}
        /\ Keccak!RC[5] = {0, 1, 3, 7, 15}
    BY DEF RegisterTable, OutTable, Keccak!RC
  <2>2. At({0, 1, 2, 3, 4}) = {0, 1, 3, 7, 15}
    BY DEF Positions
  <2> QED
    BY <2>1, <2>2 DEF PutsOut
<1>6. PutsOut(RegisterTable[6], OutTable[6]) /\ Keccak!RC[6] = At(OutTable[6])
  <2>1. /\ RegisterTable[6] = {0, 3}
        /\ OutTable[6] = {0, 5}
        /\ Keccak!RC[6] = {0, 31}
    BY DEF RegisterTable, OutTable, Keccak!RC
  <2>2. At({0, 5}) = {0, 31}
    BY DEF Positions
  <2> QED
    BY <2>1, <2>2 DEF PutsOut
<1>7. PutsOut(RegisterTable[7], OutTable[7]) /\ Keccak!RC[7] = At(OutTable[7])
  <2>1. /\ RegisterTable[7] = {0, 2, 4, 5}
        /\ OutTable[7] = {0, 3, 4, 5, 6}
        /\ Keccak!RC[7] = {0, 7, 15, 31, 63}
    BY DEF RegisterTable, OutTable, Keccak!RC
  <2>2. At({0, 3, 4, 5, 6}) = {0, 7, 15, 31, 63}
    BY DEF Positions
  <2> QED
    BY <2>1, <2>2 DEF PutsOut
<1>8. PutsOut(RegisterTable[8], OutTable[8]) /\ Keccak!RC[8] = At(OutTable[8])
  <2>1. /\ RegisterTable[8] = {0, 1, 2, 3, 6}
        /\ OutTable[8] = {0, 2, 4, 6}
        /\ Keccak!RC[8] = {0, 3, 15, 63}
    BY DEF RegisterTable, OutTable, Keccak!RC
  <2>2. At({0, 2, 4, 6}) = {0, 3, 15, 63}
    BY DEF Positions
  <2> QED
    BY <2>1, <2>2 DEF PutsOut
<1>9. PutsOut(RegisterTable[9], OutTable[9]) /\ Keccak!RC[9] = At(OutTable[9])
  <2>1. /\ RegisterTable[9] = {1, 3, 6, 7}
        /\ OutTable[9] = {1, 2, 3}
        /\ Keccak!RC[9] = {1, 3, 7}
    BY DEF RegisterTable, OutTable, Keccak!RC
  <2>2. At({1, 2, 3}) = {1, 3, 7}
    BY DEF Positions
  <2> QED
    BY <2>1, <2>2 DEF PutsOut
<1>10. PutsOut(RegisterTable[10], OutTable[10]) /\ Keccak!RC[10] = At(OutTable[10])
  <2>1. /\ RegisterTable[10] = {4, 5, 6}
        /\ OutTable[10] = {2, 3}
        /\ Keccak!RC[10] = {3, 7}
    BY DEF RegisterTable, OutTable, Keccak!RC
  <2>2. At({2, 3}) = {3, 7}
    BY DEF Positions
  <2> QED
    BY <2>1, <2>2 DEF PutsOut
<1>11. PutsOut(RegisterTable[11], OutTable[11]) /\ Keccak!RC[11] = At(OutTable[11])
  <2>1. /\ RegisterTable[11] = {0, 6}
        /\ OutTable[11] = {0, 2, 4, 5}
        /\ Keccak!RC[11] = {0, 3, 15, 31}
    BY DEF RegisterTable, OutTable, Keccak!RC
  <2>2. At({0, 2, 4, 5}) = {0, 3, 15, 31}
    BY DEF Positions
  <2> QED
    BY <2>1, <2>2 DEF PutsOut
<1>12. PutsOut(RegisterTable[12], OutTable[12]) /\ Keccak!RC[12] = At(OutTable[12])
  <2>1. /\ RegisterTable[12] = {2, 3, 5, 6, 7}
        /\ OutTable[12] = {1, 2, 5}
        /\ Keccak!RC[12] = {1, 3, 31}
    BY DEF RegisterTable, OutTable, Keccak!RC
  <2>2. At({1, 2, 5}) = {1, 3, 31}
    BY DEF Positions
  <2> QED
    BY <2>1, <2>2 DEF PutsOut
<1>13. PutsOut(RegisterTable[13], OutTable[13]) /\ Keccak!RC[13] = At(OutTable[13])
  <2>1. /\ RegisterTable[13] = {0, 2, 4, 6, 7}
        /\ OutTable[13] = {0, 1, 2, 3, 4, 5}
        /\ Keccak!RC[13] = {0, 1, 3, 7, 15, 31}
    BY DEF RegisterTable, OutTable, Keccak!RC
  <2>2. At({0, 1, 2, 3, 4, 5}) = {0, 1, 3, 7, 15, 31}
    BY DEF Positions
  <2> QED
    BY <2>1, <2>2 DEF PutsOut
<1>14. PutsOut(RegisterTable[14], OutTable[14]) /\ Keccak!RC[14] = At(OutTable[14])
  <2>1. /\ RegisterTable[14] = {0, 2, 3, 6, 7}
        /\ OutTable[14] = {0, 1, 2, 3, 6}
        /\ Keccak!RC[14] = {0, 1, 3, 7, 63}
    BY DEF RegisterTable, OutTable, Keccak!RC
  <2>2. At({0, 1, 2, 3, 6}) = {0, 1, 3, 7, 63}
    BY DEF Positions
  <2> QED
    BY <2>1, <2>2 DEF PutsOut
<1>15. PutsOut(RegisterTable[15], OutTable[15]) /\ Keccak!RC[15] = At(OutTable[15])
  <2>1. /\ RegisterTable[15] = {0, 1, 5, 6}
        /\ OutTable[15] = {0, 2, 3, 4, 6}
        /\ Keccak!RC[15] = {0, 3, 7, 15, 63}
    BY DEF RegisterTable, OutTable, Keccak!RC
  <2>2. At({0, 2, 3, 4, 6}) = {0, 3, 7, 15, 63}
    BY DEF Positions
  <2> QED
    BY <2>1, <2>2 DEF PutsOut
<1>16. PutsOut(RegisterTable[16], OutTable[16]) /\ Keccak!RC[16] = At(OutTable[16])
  <2>1. /\ RegisterTable[16] = {0, 1, 3, 5, 7}
        /\ OutTable[16] = {0, 1, 4, 6}
        /\ Keccak!RC[16] = {0, 1, 15, 63}
    BY DEF RegisterTable, OutTable, Keccak!RC
  <2>2. At({0, 1, 4, 6}) = {0, 1, 15, 63}
    BY DEF Positions
  <2> QED
    BY <2>1, <2>2 DEF PutsOut
<1>17. PutsOut(RegisterTable[17], OutTable[17]) /\ Keccak!RC[17] = At(OutTable[17])
  <2>1. /\ RegisterTable[17] = {1, 3, 5, 7}
        /\ OutTable[17] = {1, 4, 6}
        /\ Keccak!RC[17] = {1, 15, 63}
    BY DEF RegisterTable, OutTable, Keccak!RC
  <2>2. At({1, 4, 6}) = {1, 15, 63}
    BY DEF Positions
  <2> QED
    BY <2>1, <2>2 DEF PutsOut
<1>18. PutsOut(RegisterTable[18], OutTable[18]) /\ Keccak!RC[18] = At(OutTable[18])
  <2>1. /\ RegisterTable[18] = {1, 3, 5}
        /\ OutTable[18] = {3, 6}
        /\ Keccak!RC[18] = {7, 63}
    BY DEF RegisterTable, OutTable, Keccak!RC
  <2>2. At({3, 6}) = {7, 63}
    BY DEF Positions
  <2> QED
    BY <2>1, <2>2 DEF PutsOut
<1>19. PutsOut(RegisterTable[19], OutTable[19]) /\ Keccak!RC[19] = At(OutTable[19])
  <2>1. /\ RegisterTable[19] = {1, 4, 5, 6, 7}
        /\ OutTable[19] = {1, 2, 4}
        /\ Keccak!RC[19] = {1, 3, 15}
    BY DEF RegisterTable, OutTable, Keccak!RC
  <2>2. At({1, 2, 4}) = {1, 3, 15}
    BY DEF Positions
  <2> QED
    BY <2>1, <2>2 DEF PutsOut
<1>20. PutsOut(RegisterTable[20], OutTable[20]) /\ Keccak!RC[20] = At(OutTable[20])
  <2>1. /\ RegisterTable[20] = {3, 5, 6, 7}
        /\ OutTable[20] = {1, 2, 5, 6}
        /\ Keccak!RC[20] = {1, 3, 31, 63}
    BY DEF RegisterTable, OutTable, Keccak!RC
  <2>2. At({1, 2, 5, 6}) = {1, 3, 31, 63}
    BY DEF Positions
  <2> QED
    BY <2>1, <2>2 DEF PutsOut
<1>21. PutsOut(RegisterTable[21], OutTable[21]) /\ Keccak!RC[21] = At(OutTable[21])
  <2>1. /\ RegisterTable[21] = {0, 1, 2, 4, 5}
        /\ OutTable[21] = {0, 3, 4, 5, 6}
        /\ Keccak!RC[21] = {0, 7, 15, 31, 63}
    BY DEF RegisterTable, OutTable, Keccak!RC
  <2>2. At({0, 3, 4, 5, 6}) = {0, 7, 15, 31, 63}
    BY DEF Positions
  <2> QED
    BY <2>1, <2>2 DEF PutsOut
<1>22. PutsOut(RegisterTable[22], OutTable[22]) /\ Keccak!RC[22] = At(OutTable[22])
  <2>1. /\ RegisterTable[22] = {1, 2, 3, 4, 5}
        /\ OutTable[22] = {3, 4, 6}
        /\ Keccak!RC[22] = {7, 15, 63}
    BY DEF RegisterTable, OutTable, Keccak!RC
  <2>2. At({3, 4, 6}) = {7, 15, 63}
    BY DEF Positions
  <2> QED
    BY <2>1, <2>2 DEF PutsOut
<1>23. PutsOut(RegisterTable[23], OutTable[23]) /\ Keccak!RC[23] = At(OutTable[23])
  <2>1. /\ RegisterTable[23] = {0, 1, 3}
        /\ OutTable[23] = {0, 5}
        /\ Keccak!RC[23] = {0, 31}
    BY DEF RegisterTable, OutTable, Keccak!RC
  <2>2. At({0, 5}) = {0, 31}
    BY DEF Positions
  <2> QED
    BY <2>1, <2>2 DEF PutsOut
<1>24. PutsOut(RegisterTable[24], OutTable[24]) /\ Keccak!RC[24] = At(OutTable[24])
  <2>1. /\ RegisterTable[24] = {2, 6}
        /\ OutTable[24] = {2, 4, 5, 6}
        /\ Keccak!RC[24] = {3, 15, 31, 63}
    BY DEF RegisterTable, OutTable, Keccak!RC
  <2>2. At({2, 4, 5, 6}) = {3, 15, 31, 63}
    BY DEF Positions
  <2> QED
    BY <2>1, <2>2 DEF PutsOut
<1>25. \A r \in 1..24 : OutTable[r] \in SUBSET (0..6)
  BY DEF OutTable
<1> HIDE DEF At
<1>26. \A r \in 1..24 : PutsOut(RegisterTable[r], OutTable[r]) /\ Keccak!RC[r] = At(OutTable[r])
  BY <1>1, <1>2, <1>3, <1>4, <1>5, <1>6, <1>7, <1>8, <1>9, <1>10, <1>11, <1>12,
     <1>13, <1>14, <1>15, <1>16, <1>17, <1>18, <1>19, <1>20, <1>21, <1>22, <1>23, <1>24
<1> QED
  BY <1>25, <1>26 DEF At

LEMMA ConstantIsStandard ==
  ASSUME NEW r \in 1..24 PROVE Keccak!StandardConstant(r) = Keccak!RC[r]
<1> DEFINE n == 7 * (r - 1)
           R == Keccak!Register[n]
           out == {j \in 0..6 : 0 \in Keccak!Register[n + j]}
<1>1. n \in 0..161
  OBVIOUS
<1>2. Keccak!StandardConstant(r) = {Positions[j + 1] : j \in out}
  BY DEF Keccak!StandardConstant, Positions
<1>3. PutsOut(R, out)
  BY <1>1, SevenClocks
<1>4. \A b \in 0..7 : b \in R <=> b \in RegisterTable[r]
  BY RegisterAt
<1>5. out \in SUBSET (0..6)
  OBVIOUS
<1> HIDE DEF n, R, out
<1>6. PutsOut(RegisterTable[r], OutTable[r]) /\ OutTable[r] \in SUBSET (0..6)
  BY OutRounds
<1>7. \A j \in 0..6 : j \in out <=> j \in OutTable[r]
  BY <1>3, <1>4, <1>6 DEF PutsOut
<1>8. out = OutTable[r]
  BY <1>5, <1>6, <1>7
<1> QED
  BY <1>2, <1>8, OutRounds

-----------------------------------------------------------------------------
\* A round of the code is a round of the standard.
LEMMA RoundIsStandard ==
  ASSUME NEW a \in Lanes, NEW r \in 1..24
  PROVE  /\ Keccak!Round(a, r) \in Lanes
         /\ Keccak!Round(a, r) = Keccak!StandardRound(a, r)
<1> DEFINE e == Keccak!Chi(Keccak!RhoPi(Keccak!Theta(a)))
           b == Keccak!Round(a, r)
           f == Keccak!StandardRound(a, r)
<1>1. e \in Lanes /\ \A l \in 0..24, z \in Keccak!Bits : z \in e[l] <=> Keccak!Chosen(a, l, z)
  BY ChiChooses
<1>2. b = [e EXCEPT ![0] = Keccak!Xor(e[0], Keccak!RC[r])]
  BY DEF Keccak!Round, Keccak!Iota
<1>3. f = [l \in 0..24 |->
             {z \in Keccak!Bits : Keccak!Chosen(a, l, z) # (l = 0 /\ z \in Keccak!RC[r])}]
  BY ConstantIsStandard DEF Keccak!StandardRound
<1>4. Keccak!RC[r] \in SUBSET Keccak!Bits
  BY DEF Keccak!RC, Keccak!Bits
<1>5. \A l, z : Keccak!Chosen(a, l, z) \in BOOLEAN
  BY DEF Keccak!Chosen
<1> HIDE DEF e, b, f
<1>6. \A l \in 0..24 : b[l] = IF l = 0 THEN Keccak!Xor(e[0], Keccak!RC[r]) ELSE e[l]
  BY <1>1, <1>2 DEF Lanes
<1>7. b \in Lanes
  BY <1>1, <1>2, <1>4 DEF Lanes, Keccak!Xor
<1>8. ASSUME NEW l \in 0..24 PROVE b[l] = f[l]
  <2>1. f[l] = {z \in Keccak!Bits : Keccak!Chosen(a, l, z) # (l = 0 /\ z \in Keccak!RC[r])}
    BY <1>3
  <2>2. \A z \in Keccak!Bits :
          (z \in f[l]) <=> (Keccak!Chosen(a, l, z) # (l = 0 /\ z \in Keccak!RC[r]))
    BY <2>1
  <2>3. \A z \in Keccak!Bits : z \in b[l] <=> ((z \in e[l]) # (l = 0 /\ z \in Keccak!RC[r]))
    BY <1>6 DEF Keccak!Xor
  <2>4. \A z \in Keccak!Bits : z \in b[l] <=> z \in f[l]
    BY <1>1, <1>5, <2>2, <2>3
  <2>5. b[l] \in SUBSET Keccak!Bits /\ f[l] \in SUBSET Keccak!Bits
    BY <1>7, <2>1 DEF Lanes
  <2> QED
    BY <2>4, <2>5
<1>9. b = [l \in 0..24 |-> b[l]] /\ f = [l \in 0..24 |-> f[l]]
  BY <1>3, <1>7 DEF Lanes
<1>10. b = f
  BY <1>8, <1>9
<1> QED
  BY <1>7, <1>10 DEF b, f

-----------------------------------------------------------------------------
(* The sponge.                                                             *)

\* Blocks of a message that comes in whole blocks and more.
LEMMA WholeOf ==
  ASSUME NEW t \in Seq(Bytes)
  PROVE  /\ Sponge!Whole(t) \in Nat /\ Sponge!Whole(t) * Rate \in Nat
         /\ Sponge!Whole(t) * Rate <= Len(t)
         /\ Len(t) - Sponge!Whole(t) * Rate \in 0..(Rate - 1)
         /\ \A k \in 1..Sponge!Whole(t) : (k - 1) * Rate \in Nat /\ k * Rate \in Nat
              /\ k * Rate <= Len(t) /\ k * Rate = (k - 1) * Rate + Rate
<1> DEFINE n == Len(t)
           q == n \div Rate
<1>1. n \in Nat /\ Rate \in Nat \ {0}
  BY SpongeAssumption
<1> HIDE DEF n
<1>2. n = Rate * q + (n % Rate) /\ n % Rate \in 0..(Rate - 1) /\ q \in Nat
  BY <1>1
<1> HIDE DEF q
<1>3. q * Rate \in Nat /\ n - q * Rate \in 0..(Rate - 1)
  BY <1>1, <1>2
<1>4. ASSUME NEW k \in 1..q
      PROVE  /\ (k - 1) * Rate \in Nat /\ k * Rate \in Nat
             /\ k * Rate <= n /\ k * Rate = (k - 1) * Rate + Rate
  <2>1. k \in Nat /\ k - 1 \in Nat /\ q - k \in Nat
    BY <1>2
  <2>2. q * Rate = k * Rate + (q - k) * Rate /\ (q - k) * Rate \in Nat /\ k * Rate \in Nat
    BY <1>1, <1>2, <2>1
  <2>3. (k - 1) * Rate \in Nat /\ k * Rate = (k - 1) * Rate + Rate
    BY <1>1, <2>1
  <2> QED
    BY <1>1, <1>3, <2>2, <2>3
<1> QED
  BY <1>1, <1>3, <1>4 DEF Sponge!Whole, n, q

LEMMA BlocksTyped ==
  ASSUME NEW t \in Seq(Bytes)
  PROVE  /\ Sponge!Blocks(t) \in Seq(Seq(Bytes)) /\ Len(Sponge!Blocks(t)) = Sponge!Whole(t)
         /\ Sponge!Rest(t) \in Seq(Bytes)
         /\ Len(Sponge!Rest(t)) = Len(t) - Sponge!Whole(t) * Rate
<1> DEFINE W == Sponge!Whole(t)
           B == Sponge!Blocks(t)
<1>1. W \in Nat /\ W * Rate \in Nat /\ W * Rate <= Len(t) /\ Len(t) \in Nat
  BY WholeOf
<1>2. ASSUME NEW k \in 1..W PROVE SubSeq(t, (k - 1) * Rate + 1, k * Rate) \in Seq(Bytes)
  <2>1. (k - 1) * Rate \in Nat /\ k * Rate \in Nat /\ k * Rate <= Len(t)
    BY WholeOf
  <2> DEFINE m == (k - 1) * Rate + 1
             n == k * Rate
  <2>2. m \in Int /\ n \in Int /\ \A i \in m..n : t[i] \in Bytes
    BY <2>1, <1>1
  <2> HIDE DEF m, n
  <2>3. SubSeq(t, m, n) \in Seq(Bytes)
    BY <2>2, SubSeqProperties
  <2> QED
    BY <2>3 DEF m, n
<1>3. B = [k \in 1..W |-> SubSeq(t, (k - 1) * Rate + 1, k * Rate)]
  BY DEF Sponge!Blocks
<1>4. Sponge!Rest(t) = SubSeq(t, W * Rate + 1, Len(t))
  BY DEF Sponge!Rest
<1> HIDE DEF W
<1>5. B \in Seq(Seq(Bytes)) /\ Len(B) = W
  BY <1>1, <1>2, <1>3
<1>6. /\ SubSeq(t, W * Rate + 1, Len(t)) \in Seq(Bytes)
      /\ Len(SubSeq(t, W * Rate + 1, Len(t))) = Len(t) - W * Rate
  <2> DEFINE m == W * Rate + 1
             n == Len(t)
  <2>1. m \in Int /\ n \in Int /\ m - 1 <= n /\ m - 1 = W * Rate /\ \A i \in m..n : t[i] \in Bytes
    BY <1>1
  <2> HIDE DEF m, n
  <2>2. /\ SubSeq(t, m, n) \in Seq(Bytes)
        /\ Len(SubSeq(t, m, n)) = IF m <= n THEN n - m + 1 ELSE 0
    BY <2>1, SubSeqProperties
  <2>3. Len(SubSeq(t, m, n)) = n - (m - 1)
    BY <2>1, <2>2
  <2> QED
    BY <2>1, <2>2, <2>3 DEF m, n
<1> QED
  BY <1>4, <1>5, <1>6 DEF W

InBlocks(h) == Len(h) = Sponge!Whole(h) * Rate

\* After whole blocks, a message is cut where it would be cut alone.
LEMMA CutAfterBlocks ==
  ASSUME NEW h \in Seq(Bytes), NEW t \in Seq(Bytes), InBlocks(h)
  PROVE  /\ Sponge!Blocks(h \o t) = Sponge!Blocks(h) \o Sponge!Blocks(t)
         /\ Sponge!Rest(h \o t) = Sponge!Rest(t)
         /\ Sponge!Whole(h \o t) = Sponge!Whole(h) + Sponge!Whole(t)
<1> DEFINE W == Sponge!Whole(h)
           V == Sponge!Whole(t)
           u == h \o t
<1>1. u \in Seq(Bytes) /\ Len(u) = Len(h) + Len(t)
  BY ConcatProperties
<1>2. W \in Nat /\ V \in Nat /\ Len(h) \in Nat /\ Len(t) \in Nat /\ Rate \in Nat \ {0}
  BY WholeOf, SpongeAssumption
<1>3. Sponge!Whole(u) = W + V
  <2> DEFINE r == Len(t) - V * Rate
  <2>1. r \in 0..(Rate - 1)
    BY WholeOf
  <2>2. Len(u) = W * Rate + V * Rate + r
    BY <1>1, <1>2 DEF InBlocks
  <2> HIDE DEF r, W, V, u
  <2>3. Len(u) = Rate * (W + V) + r /\ Len(u) \in Nat /\ W + V \in Nat
    BY <1>1, <1>2, <2>1, <2>2
  <2>4. Len(u) \div Rate = W + V
    BY <1>2, <2>1, <2>3, Divided
  <2> QED
    BY <2>4 DEF Sponge!Whole
<1>4. \A k \in 1..W : SubSeq(u, (k - 1) * Rate + 1, k * Rate) = SubSeq(h, (k - 1) * Rate + 1, k * Rate)
  <2> TAKE k \in 1..W
  <2> DEFINE y == (k - 1) * Rate
             n == k * Rate
             m == y + 1
  <2>1. y \in Nat /\ n \in Nat /\ n <= Len(h) /\ n = y + Rate
    BY WholeOf
  <2> HIDE DEF y, n
  <2>2. m \in 1..Len(h) /\ n \in 1..Len(h)
    BY <1>2, <2>1
  <2> HIDE DEF m, n, W
  <2>3. SubSeq(u, m, n) = SubSeq(h, m, n)
    BY <2>2, SubSeqOfConcat1
  <2> QED
    BY <2>3 DEF m, n, y
<1>5. \A k \in 1..V : SubSeq(u, (W + k - 1) * Rate + 1, (W + k) * Rate)
                        = SubSeq(t, (k - 1) * Rate + 1, k * Rate)
  <2> TAKE k \in 1..V
  <2> DEFINE x == W * Rate
             y == (k - 1) * Rate
             z == k * Rate
             m == (W + k - 1) * Rate + 1
             n == (W + k) * Rate
  <2>1. y \in Nat /\ z \in Nat /\ z <= Len(t) /\ z = y + Rate
    BY WholeOf
  <2>2. k \in Nat /\ m = x + y + 1 /\ n = x + z
    BY <1>2
  <2>3. x = Len(h)
    BY DEF InBlocks
  <2> HIDE DEF x, y, z, m, n
  <2>4. /\ m - Len(h) = y + 1 /\ n - Len(h) = z
        /\ m \in (Len(h) + 1)..(Len(h) + Len(t)) /\ n \in (Len(h) + 1)..(Len(h) + Len(t))
    BY <1>2, <2>1, <2>2, <2>3
  <2> HIDE DEF W
  <2>5. SubSeq(u, m, n) = SubSeq(t, m - Len(h), n - Len(h))
    BY <2>4, SubSeqOfConcat2
  <2> QED
    BY <2>4, <2>5 DEF m, n, y, z
<1>6. Sponge!Rest(u) = Sponge!Rest(t)
  <2> DEFINE x == W * Rate
             y == V * Rate
             m == (W + V) * Rate + 1
  <2>1. y \in Nat /\ y <= Len(t)
    BY WholeOf
  <2>2. m = x + y + 1
    BY <1>2
  <2>3. Sponge!Rest(u) = SubSeq(u, m, Len(u)) /\ Sponge!Rest(t) = SubSeq(t, y + 1, Len(t))
    BY <1>3 DEF Sponge!Rest
  <2>4. x = Len(h)
    BY DEF InBlocks
  <2> HIDE DEF x, y, m
  <2>5. CASE y < Len(t)
    <3>1. /\ m \in (Len(h) + 1)..(Len(h) + Len(t)) /\ Len(u) \in (Len(h) + 1)..(Len(h) + Len(t))
          /\ m - Len(h) = y + 1 /\ Len(u) - Len(h) = Len(t)
      BY <1>1, <1>2, <2>1, <2>2, <2>4, <2>5
    <3>2. SubSeq(u, m, Len(u)) = SubSeq(t, m - Len(h), Len(u) - Len(h))
      BY <3>1, SubSeqOfConcat2
    <3> QED
      BY <2>3, <3>1, <3>2
  <2>6. CASE y = Len(t)
    <3>1. /\ Len(u) < m /\ Len(t) < y + 1 /\ y + 1 \in Int
          /\ m \in Int /\ Len(u) \in Int /\ Len(t) \in Int
      BY <1>1, <1>2, <2>1, <2>2, <2>4, <2>6
    <3>2. SubSeq(u, m, Len(u)) = << >> /\ SubSeq(t, y + 1, Len(t)) = << >>
      BY <3>1, SubSeqEmpty
    <3> QED
      BY <2>3, <3>2
  <2> QED
    BY <1>2, <2>1, <2>5, <2>6
<1>7. Sponge!Blocks(u) = Sponge!Blocks(h) \o Sponge!Blocks(t)
  <2> DEFINE B == Sponge!Blocks(h)
             C == Sponge!Blocks(t)
             D == Sponge!Blocks(u)
  <2>1. /\ B \in Seq(Seq(Bytes)) /\ Len(B) = W
        /\ C \in Seq(Seq(Bytes)) /\ Len(C) = V
        /\ D \in Seq(Seq(Bytes)) /\ Len(D) = W + V
    BY <1>1, <1>3, BlocksTyped
  <2>2. /\ \A k \in 1..W : B[k] = SubSeq(h, (k - 1) * Rate + 1, k * Rate)
        /\ \A k \in 1..V : C[k] = SubSeq(t, (k - 1) * Rate + 1, k * Rate)
        /\ \A k \in 1..(W + V) : D[k] = SubSeq(u, (k - 1) * Rate + 1, k * Rate)
    BY <1>3 DEF Sponge!Blocks
  <2> HIDE DEF B, C, D, W, V, u
  <2>3. /\ B \o C \in Seq(Seq(Bytes)) /\ Len(B \o C) = W + V
        /\ \A k \in 1..(W + V) : (B \o C)[k] = IF k <= W THEN B[k] ELSE C[k - W]
    BY <2>1, ConcatProperties
  <2>4. ASSUME NEW k \in 1..(W + V) PROVE D[k] = (B \o C)[k]
    <3>1. CASE k <= W
      <4>1. k \in 1..W
        BY <1>2, <3>1
      <4> QED
        BY <1>4, <2>2, <2>3, <3>1, <4>1
    <3>2. CASE ~(k <= W)
      <4>1. k - W \in 1..V /\ W + (k - W) = k /\ W + (k - W) - 1 = k - 1
        BY <1>2, <3>2
      <4>2. SubSeq(u, (W + (k - W) - 1) * Rate + 1, (W + (k - W)) * Rate) = C[k - W]
        BY <1>5, <2>2, <4>1
      <4> QED
        BY <2>2, <2>3, <3>2, <4>1, <4>2
    <3> QED
      BY <3>1, <3>2
  <2>5. D = B \o C
    BY <2>1, <2>3, <2>4, SeqEqual
  <2> QED
    BY <2>5 DEF B, C, D
<1> QED
  BY <1>3, <1>6, <1>7

LEMMA ShortOfABlock ==
  ASSUME NEW t \in Seq(Bytes), Len(t) < Rate
  PROVE  Sponge!Blocks(t) = << >> /\ Sponge!Rest(t) = t
<1>1. Len(t) \in Nat /\ Rate \in Nat \ {0}
  BY SpongeAssumption
<1>2. Sponge!Whole(t) = 0
  <2>1. Len(t) = Rate * 0 + Len(t) /\ Len(t) \in 0..(Rate - 1) /\ 0 \in Nat
    BY <1>1
  <2>2. Len(t) \div Rate = 0
    BY <1>1, <2>1, Divided
  <2> QED
    BY <2>2 DEF Sponge!Whole
<1>3. Sponge!Blocks(t) = << >>
  <2>1. Sponge!Blocks(t) \in Seq(Seq(Bytes)) /\ Len(Sponge!Blocks(t)) = 0
    BY <1>2, BlocksTyped
  <2> QED
    BY <2>1, EmptySeq
<1>4. Sponge!Rest(t) = SubSeq(t, 1, Len(t))
  BY <1>1, <1>2 DEF Sponge!Rest
<1> QED
  BY <1>3, <1>4, SubSeqFull

LEMMA OneBlock ==
  ASSUME NEW t \in Seq(Bytes), Len(t) = Rate
  PROVE  Sponge!Blocks(t) = << t >> /\ InBlocks(t)
<1>1. Len(t) \in Nat /\ Rate \in Nat \ {0}
  BY SpongeAssumption
<1>2. Sponge!Whole(t) = 1
  <2>1. Len(t) = Rate * 1 + 0 /\ 0 \in 0..(Rate - 1) /\ 1 \in Nat
    BY <1>1
  <2>2. Len(t) \div Rate = 1
    BY <1>1, <2>1, Divided
  <2> QED
    BY <2>2 DEF Sponge!Whole
<1>3. InBlocks(t)
  BY <1>1, <1>2 DEF InBlocks
<1>4. Sponge!Blocks(t) = [k \in 1..1 |-> SubSeq(t, (k - 1) * Rate + 1, k * Rate)]
  BY <1>2 DEF Sponge!Blocks
<1>5. \A k \in 1..1 : SubSeq(t, (k - 1) * Rate + 1, k * Rate) = t
  <2>1. SubSeq(t, 1, Len(t)) = t
    BY SubSeqFull
  <2>2. \A k \in 1..1 : (k - 1) * Rate + 1 = 1 /\ k * Rate = Len(t)
    BY <1>1
  <2> QED
    BY <2>1, <2>2
<1>6. Sponge!Blocks(t) = << t >>
  <2>1. Sponge!Blocks(t) = [k \in 1..1 |-> t]
    BY <1>4, <1>5
  <2> QED
    BY <2>1
<1> QED
  BY <1>3, <1>6

\* A message is its whole blocks and the rest.
LEMMA BlocksAndRest ==
  ASSUME NEW m \in Seq(Bytes)
  PROVE  \E h \in Seq(Bytes) : /\ InBlocks(h) /\ m = h \o Sponge!Rest(m)
                              /\ Sponge!Blocks(h) = Sponge!Blocks(m)
<1> DEFINE W == Sponge!Whole(m)
           x == W * Rate
           h == SubSeq(m, 1, x)
           r == Sponge!Rest(m)
<1>1. /\ W \in Nat /\ x \in Nat /\ x <= Len(m) /\ Len(m) \in Nat
      /\ Rate \in Nat \ {0} /\ Len(m) - x \in 0..(Rate - 1)
  BY WholeOf, SpongeAssumption
<1>2. r \in Seq(Bytes) /\ Len(r) = Len(m) - x /\ r = SubSeq(m, x + 1, Len(m))
  BY BlocksTyped DEF Sponge!Rest
<1>3. x = Rate * W + 0
  BY <1>1
<1> HIDE DEF W, x, r
<1>4. h \in Seq(Bytes) /\ Len(h) = x
  <2>1. \A i \in 1..x : m[i] \in Bytes
    BY <1>1
  <2>2. h \in Seq(Bytes) /\ Len(h) = IF 1 <= x THEN x - 1 + 1 ELSE 0
    BY <1>1, <2>1, SubSeqProperties
  <2> QED
    BY <1>1, <2>2
<1>5. Sponge!Whole(h) = W /\ InBlocks(h)
  <2>1. 0 \in 0..(Rate - 1)
    BY <1>1
  <2>2. x \div Rate = W
    BY <1>1, <1>3, <2>1, Divided
  <2> QED
    BY <1>4, <2>2 DEF Sponge!Whole, InBlocks, x
<1>6. m = h \o r
  <2>1. 1 \in 1..(Len(m) + 1) /\ x \in (1 - 1)..Len(m) /\ Len(m) \in x..Len(m)
    BY <1>1
  <2>2. h \o r = SubSeq(m, 1, Len(m))
    BY <1>2, <2>1, ConcatAdjacentSubSeq
  <2> QED
    BY <2>2, SubSeqFull
<1>7. Sponge!Blocks(m) = Sponge!Blocks(h)
  <2>1. Sponge!Blocks(m) = Sponge!Blocks(h) \o Sponge!Blocks(r)
    BY <1>2, <1>4, <1>5, <1>6, CutAfterBlocks
  <2>2. Sponge!Blocks(r) = << >>
    <3>1. Len(r) < Rate
      BY <1>1, <1>2
    <3> QED
      BY <1>2, <3>1, ShortOfABlock
  <2>3. Sponge!Blocks(h) \in Seq(Seq(Bytes))
    BY <1>4, BlocksTyped
  <2> QED
    BY <2>1, <2>2, <2>3, ConcatEmptySeq
<1> QED
  BY <1>4, <1>5, <1>6, <1>7 DEF r

\* One sequence after another.
Joint(x, y) == x \o y

LEMMA JointAssociative ==
  ASSUME NEW S, NEW a \in Seq(S), NEW b \in Seq(S), NEW c \in Seq(S)
  PROVE  Joint(Joint(a, b), c) = Joint(a, Joint(b, c))
<1>1. (a \o b) \o c = a \o (b \o c)
  BY ConcatAssociative, SMTT(30)
<1> QED
  BY <1>1 DEF Joint

\* Absorbing in pieces cuts the message as it would be cut in one.
LEMMA AbsorbCuts ==
  ASSUME NEW m \in Seq(Bytes), NEW d \in Seq(Bytes), buf = Sponge!Rest(m)
  PROVE  LET f == Sponge!Filled(d)
             full == Len(f.buf) = Rate
         IN  /\ Sponge!Blocks(m \o d)
                   = Sponge!Blocks(m) \o (IF full THEN <<f.buf>> ELSE << >>) \o Sponge!Blocks(f.data)
             /\ Sponge!Rest(m \o d) = (IF full THEN << >> ELSE f.buf) \o Sponge!Rest(f.data)
<1> DEFINE f == Sponge!Filled(d)
           take == IF buf = << >> THEN 0 ELSE Sponge!Smaller(Rate - Len(buf), Len(d))
           piece == SubSeq(d, 1, take)
           more == SubSeq(d, take + 1, Len(d))
<1>1. f.buf = buf \o piece /\ f.data = more
  BY DEF Sponge!Filled
<1>2. PICK h \in Seq(Bytes) : /\ InBlocks(h) /\ m = h \o buf
                              /\ Sponge!Blocks(h) = Sponge!Blocks(m)
  BY BlocksAndRest
<1>3. /\ buf \in Seq(Bytes) /\ Len(buf) \in 0..(Rate - 1) /\ Rate \in Nat \ {0}
      /\ Len(d) \in Nat
  <2>1. buf \in Seq(Bytes) /\ Len(buf) = Len(m) - Sponge!Whole(m) * Rate
    BY BlocksTyped
  <2>2. Len(m) - Sponge!Whole(m) * Rate \in 0..(Rate - 1)
    BY WholeOf
  <2> QED
    BY <2>1, <2>2, SpongeAssumption
<1>4. /\ take \in 0..Len(d) /\ take <= Rate - Len(buf)
      /\ (buf # << >> /\ take # Len(d)) => take = Rate - Len(buf)
  BY <1>3 DEF Sponge!Smaller
<1>5. buf = << >> => take = 0
  OBVIOUS
<1> HIDE DEF f, take
<1>6. /\ piece \in Seq(Bytes) /\ Len(piece) = take
      /\ more \in Seq(Bytes) /\ Len(more) = Len(d) - take
  <2>1. /\ \A i \in 1..take : d[i] \in Bytes
        /\ \A i \in (take + 1)..Len(d) : d[i] \in Bytes
    BY <1>3, <1>4
  <2>2. piece \in Seq(Bytes) /\ Len(piece) = IF 1 <= take THEN take - 1 + 1 ELSE 0
    BY <1>3, <1>4, <2>1, SubSeqProperties
  <2>3. /\ more \in Seq(Bytes)
        /\ Len(more) = IF take + 1 <= Len(d) THEN Len(d) - (take + 1) + 1 ELSE 0
    BY <1>3, <1>4, <2>1, SubSeqProperties
  <2> QED
    BY <1>3, <1>4, <2>2, <2>3
<1>7. d = piece \o more
  <2>1. 1 \in 1..(Len(d) + 1) /\ take \in (1 - 1)..Len(d) /\ Len(d) \in take..Len(d)
    BY <1>3, <1>4
  <2>2. piece \o more = SubSeq(d, 1, Len(d))
    BY <2>1, ConcatAdjacentSubSeq
  <2> QED
    BY <2>2, SubSeqFull
<1> HIDE DEF piece, more
<1> DEFINE x == buf \o piece
<1>8. x \in Seq(Bytes) /\ Len(x) = Len(buf) + take
  BY <1>3, <1>6, ConcatProperties
<1>9. m \o d = h \o (x \o more)
  <2>1. m \o d = (h \o buf) \o (piece \o more)
    BY <1>2, <1>7
  <2>2. (h \o buf) \o (piece \o more) = h \o (buf \o (piece \o more))
    <3> DEFINE y == piece \o more
    <3>1. y \in Seq(Bytes)
      BY <1>6, ConcatProperties
    <3> HIDE DEF y, x
    <3>2. Joint(Joint(h, buf), y) = Joint(h, Joint(buf, y))
      BY <1>3, <3>1, JointAssociative
    <3> QED
      BY <3>2 DEF Joint, y
  <2>3. buf \o (piece \o more) = x \o more
    <3>1. buf \in Seq(Bytes) /\ piece \in Seq(Bytes) /\ more \in Seq(Bytes)
      BY <1>3, <1>6
    <3>2. Joint(Joint(buf, piece), more) = Joint(buf, Joint(piece, more))
      BY <3>1, JointAssociative
    <3> QED
      BY <3>2 DEF Joint, x
  <2> QED
    BY <2>1, <2>2, <2>3
<1>10. /\ Sponge!Blocks(h) \in Seq(Seq(Bytes)) /\ Sponge!Blocks(more) \in Seq(Seq(Bytes))
       /\ Sponge!Rest(more) \in Seq(Bytes)
  BY <1>6, BlocksTyped
<1> HIDE DEF x
<1>11. CASE Len(x) = Rate
  <2>1. /\ Sponge!Blocks(x \o more) = << x >> \o Sponge!Blocks(more)
        /\ Sponge!Rest(x \o more) = Sponge!Rest(more)
    BY <1>6, <1>8, <1>11, OneBlock, CutAfterBlocks
  <2>2. x \o more \in Seq(Bytes)
    BY <1>6, <1>8, ConcatProperties
  <2>3. /\ Sponge!Blocks(m \o d) = Sponge!Blocks(h) \o (<< x >> \o Sponge!Blocks(more))
        /\ Sponge!Rest(m \o d) = Sponge!Rest(more)
    BY <1>2, <1>9, <2>1, <2>2, CutAfterBlocks
  <2>4. Sponge!Blocks(h) \o (<< x >> \o Sponge!Blocks(more))
          = Sponge!Blocks(h) \o << x >> \o Sponge!Blocks(more)
    <3> DEFINE y == << x >>
               B == Sponge!Blocks(h)
               C == Sponge!Blocks(more)
    <3>1. y \in Seq(Seq(Bytes)) /\ B \in Seq(Seq(Bytes)) /\ C \in Seq(Seq(Bytes))
      BY <1>8, <1>10
    <3> HIDE DEF y, B, C
    <3>2. Joint(Joint(B, y), C) = Joint(B, Joint(y, C))
      BY <3>1, JointAssociative
    <3> QED
      BY <3>2 DEF Joint, y, B, C
  <2>5. << >> \o Sponge!Rest(more) = Sponge!Rest(more)
    BY <1>10, ConcatEmptySeq
  <2> QED
    BY <1>1, <1>2, <1>11, <2>3, <2>4, <2>5 DEF f, x
<1>12. CASE Len(x) # Rate
  <2>1. Len(x) < Rate
    BY <1>3, <1>4, <1>8, <1>12
  <2>2. Sponge!Blocks(h) \o << >> = Sponge!Blocks(h)
    BY <1>10, ConcatEmptySeq
  <2>3. CASE more = << >>
    <3>1. x \o more = x /\ Sponge!Blocks(x) = << >> /\ Sponge!Rest(x) = x
      BY <1>8, <2>1, <2>3, ConcatEmptySeq, ShortOfABlock
    <3>2. Sponge!Blocks(more) = << >> /\ Sponge!Rest(more) = << >>
      <4>1. Len(more) < Rate
        BY <1>3, <2>3
      <4> QED
        BY <1>6, <2>3, <4>1, ShortOfABlock
    <3>3. /\ Sponge!Blocks(m \o d) = Sponge!Blocks(h) \o << >> /\ Sponge!Rest(m \o d) = x
      <4>1. m \o d = h \o x
        BY <1>9, <3>1
      <4>2. /\ Sponge!Blocks(h \o x) = Sponge!Blocks(h) \o Sponge!Blocks(x)
            /\ Sponge!Rest(h \o x) = Sponge!Rest(x)
        BY <1>2, <1>8, CutAfterBlocks
      <4> QED
        BY <3>1, <4>1, <4>2
    <3>4. x \o << >> = x
      BY <1>8, ConcatEmptySeq
    <3> QED
      BY <1>1, <1>2, <1>12, <2>2, <3>2, <3>3, <3>4 DEF f, x
  <2>4. CASE more # << >>
    <3>1. take # Len(d)
      <4>1. Len(more) # 0
        BY <1>6, <2>4, EmptySeq
      <4> QED
        BY <1>3, <1>4, <1>6, <4>1
    <3>2. buf = << >> /\ take = 0
      BY <1>3, <1>4, <1>5, <1>8, <1>12, <3>1
    <3>3. x = << >>
      <4>1. Len(x) = 0
        BY <1>3, <1>8, <3>2
      <4> QED
        BY <1>8, <4>1, EmptySeq
    <3>4. x \o more = more /\ << >> \o Sponge!Rest(more) = Sponge!Rest(more)
      BY <1>6, <1>10, <3>3, ConcatEmptySeq
    <3>5. /\ Sponge!Blocks(m \o d) = Sponge!Blocks(h) \o Sponge!Blocks(more)
          /\ Sponge!Rest(m \o d) = Sponge!Rest(more)
      BY <1>2, <1>6, <1>9, <3>4, CutAfterBlocks, SMTT(30)
    <3> QED
      BY <1>1, <1>2, <1>12, <2>2, <3>3, <3>4, <3>5 DEF f, x
  <2> QED
    BY <2>3, <2>4
<1> QED
  BY <1>11, <1>12

-----------------------------------------------------------------------------
\* What squeezing gives is the stream of the output blocks.
Outputs == (Nat \X Nat \X Nat) \cup {<<"past">>}

Past(g) == \E i \in 1..Len(g) : g[i] = <<"past">>

\* The stream so far is g, of output blocks after b, in turn u and at p.
Streamed(g, b, u, p) ==
  /\ g \in Seq(Outputs) /\ b \in Nat /\ u \in Nat /\ p \in Nat
  /\ ~Past(g) => Len(g) = u * Rate + p /\ p < Rate
  /\ \A i \in 1..Len(g) :
       (\A j \in 1..i : g[j] # <<"past">>) => g[i] = <<b, (i - 1) \div Rate, ((i - 1) % Rate) + 1>>

Output(b, u, i) == IF i <= Rate THEN <<b, u, i>> ELSE <<"past">>

LEMMA StreamGoesOn ==
  ASSUME NEW g, NEW b, NEW u, NEW p, Streamed(g, b, u, p), NEW take \in 0..Rate
  PROVE  LET more == [i \in 1..take |-> Output(b, u, p + i)]
             full == p + take = Rate
         IN  /\ more \in Seq(Outputs) /\ Len(more) = take
             /\ Streamed(g \o more, b, IF take > 0 /\ full THEN u + 1 ELSE u,
                         IF full THEN 0 ELSE p + take)
<1> DEFINE more == [i \in 1..take |-> Output(b, u, p + i)]
           h == g \o more
           full == p + take = Rate
           v == IF take > 0 /\ full THEN u + 1 ELSE u
           q == IF full THEN 0 ELSE p + take
<1>1. /\ g \in Seq(Outputs) /\ b \in Nat /\ u \in Nat /\ p \in Nat /\ Len(g) \in Nat
      /\ take \in Nat /\ Rate \in Nat \ {0}
  BY SpongeAssumption DEF Streamed
<1>2. more \in Seq(Outputs) /\ Len(more) = take
  <2>1. \A i \in 1..take : Output(b, u, p + i) \in Outputs
    BY <1>1 DEF Output, Outputs
  <2> QED
    BY <1>1, <2>1
<1>3. \A i \in 1..take : more[i] = Output(b, u, p + i)
  OBVIOUS
<1> HIDE DEF more
<1>4. /\ h \in Seq(Outputs) /\ Len(h) = Len(g) + take
      /\ \A i \in 1..Len(g) : h[i] = g[i]
      /\ \A i \in 1..take : h[Len(g) + i] = Output(b, u, p + i)
  <2>1. /\ h \in Seq(Outputs) /\ Len(h) = Len(g) + Len(more)
        /\ \A i \in 1..Len(g) + Len(more) : h[i] = IF i <= Len(g) THEN g[i] ELSE more[i - Len(g)]
    BY <1>1, <1>2, ConcatProperties
  <2>2. \A i \in 1..Len(g) : h[i] = g[i]
    BY <1>1, <1>2, <2>1
  <2>3. ASSUME NEW i \in 1..take PROVE h[Len(g) + i] = Output(b, u, p + i)
    <3>1. Len(g) + i \in 1..Len(g) + Len(more) /\ ~(Len(g) + i <= Len(g)) /\ Len(g) + i - Len(g) = i
      BY <1>1, <1>2
    <3> QED
      BY <1>3, <2>1, <3>1
  <2> QED
    BY <1>2, <2>1, <2>2, <2>3
<1> HIDE DEF h
<1>5. v \in Nat /\ q \in Nat
  BY <1>1
<1>6. Past(g) => Past(h)
  BY <1>1, <1>4 DEF Past
<1>7. ~Past(g) => Len(g) = u * Rate + p /\ p < Rate
  BY DEF Streamed
<1>8. ASSUME ~Past(h) PROVE Len(h) = v * Rate + q /\ q < Rate
  <2> DEFINE x == u * Rate
  <2>1. Len(g) = x + p /\ p < Rate
    BY <1>6, <1>7, <1>8
  <2>2. x \in Nat /\ (u + 1) * Rate = x + Rate
    BY <1>1
  <2> HIDE DEF x
  <2>3. CASE take = 0
    BY <1>1, <1>4, <2>1, <2>2, <2>3 DEF x
  <2>4. CASE take # 0
    <3>1. take \in 1..take /\ Len(g) + take \in 1..Len(h)
      BY <1>1, <1>4, <2>4
    <3>2. Output(b, u, p + take) # <<"past">>
      BY <1>4, <1>8, <3>1 DEF Past
    <3>3. p + take <= Rate
      BY <3>2 DEF Output
    <3>4. CASE full
      <4>1. v = u + 1 /\ q = 0
        BY <1>1, <2>4, <3>4
      <4> HIDE DEF v, q
      <4> QED
        BY <1>1, <1>4, <2>1, <2>2, <3>4, <4>1
    <3>5. CASE ~full
      <4>1. v = u /\ q = p + take
        BY <3>5
      <4>2. v * Rate = x
        BY <4>1 DEF x
      <4>3. take \in Nat /\ Rate \in Nat /\ p \in Nat
        BY <1>1
      <4>4. p + take # Rate
        BY <3>5
      <4>5. Len(h) = Len(g) + take
        BY <1>4
      <4> HIDE DEF v, q
      <4> QED
        BY <2>1, <2>2, <3>3, <4>1, <4>2, <4>3, <4>4, <4>5
    <3> QED
      BY <3>4, <3>5
  <2> QED
    BY <2>3, <2>4
<1>9. ASSUME NEW i \in 1..Len(h), \A j \in 1..i : h[j] # <<"past">>
      PROVE  h[i] = <<b, (i - 1) \div Rate, ((i - 1) % Rate) + 1>>
  <2>1. CASE i <= Len(g)
    <3>1. i \in 1..Len(g) /\ \A j \in 1..i : j \in 1..Len(g)
      BY <1>1, <2>1
    <3>2. \A j \in 1..i : g[j] # <<"past">>
      BY <1>4, <1>9, <3>1
    <3>3. g[i] = <<b, (i - 1) \div Rate, ((i - 1) % Rate) + 1>>
      BY <3>1, <3>2 DEF Streamed
    <3> QED
      BY <1>4, <3>1, <3>3
  <2>2. CASE ~(i <= Len(g))
    <3> DEFINE k == i - Len(g)
               r == p + k - 1
    <3>1. k \in 1..take /\ i = Len(g) + k /\ \A j \in 1..Len(g) : j \in 1..i
      <4>1. i \in 1..(Len(g) + take) /\ Len(g) \in Nat /\ take \in Nat /\ Len(g) < i
        BY <1>1, <1>4, <1>9, <2>2
      <4>2. i \in Nat /\ i - Len(g) \in 1..take /\ i = Len(g) + (i - Len(g))
        BY <4>1
      <4> QED
        BY <4>1, <4>2
    <3>2. ~Past(g)
      BY <1>4, <1>9, <3>1 DEF Past
    <3>3. h[i] = Output(b, u, p + k) /\ h[i] # <<"past">>
      <4>1. i \in 1..i
        BY <1>1, <1>4
      <4> QED
        BY <1>4, <1>9, <3>1, <4>1
    <3>4. p + k <= Rate /\ h[i] = <<b, u, p + k>>
      BY <3>3 DEF Output
    <3>5. Len(g) = u * Rate + p /\ u * Rate = Rate * u /\ u * Rate \in Nat
      BY <1>1, <1>7, <3>2
    <3>6. /\ i - 1 = Rate * u + r /\ r \in 0..(Rate - 1) /\ r + 1 = p + k
          /\ i - 1 \in Nat
      BY <1>1, <3>1, <3>4, <3>5
    <3> HIDE DEF k, r
    <3>7. (i - 1) \div Rate = u /\ (i - 1) % Rate = r
      BY <1>1, <3>6, Divided
    <3> QED
      BY <3>4, <3>6, <3>7
  <2> QED
    BY <2>1, <2>2
<1> HIDE DEF v, q
<1>10. Streamed(h, b, v, q)
  BY <1>1, <1>4, <1>5, <1>8, <1>9 DEF Streamed
<1> QED
  BY <1>2, <1>10 DEF more, h, v, q

\* A turn of the loop of squeeze, and all of them.
SqueezeOnce(n, z) ==
  LET take == Sponge!Smaller(Rate, n - Len(z.out))
      end == z.pos + take
  IN  [state |-> IF take > 0 /\ end = Rate THEN [z.state EXCEPT !.turns = @ + 1] ELSE z.state,
       pos |-> IF end = Rate THEN 0 ELSE end,
       out |-> z.out \o [i \in 1..take |-> Sponge!OutputByte(z.state, z.pos + i)]]

SqueezeTurns(n, f, t) ==
  [k \in 0..n |-> IF k = 0 THEN [state |-> f.state, pos |-> f.pos, out |-> << >>]
                  ELSE SqueezeOnce(n, t[k - 1])]

Squeezing(n, f) == CHOOSE t : t = SqueezeTurns(n, f, t)

SqueezeStates(n, g, B) ==
  {z \in [state : [blocks : {B}, turns : Nat], pos : Nat, out : Seq(Outputs)] :
     Len(z.out) <= n /\ Streamed(g \o z.out, Len(B), z.state.turns, z.pos)}

LEMMA SqueezeOnceStreams ==
  ASSUME NEW n \in Nat, NEW g \in Seq(Outputs), NEW B, Len(B) \in Nat,
         NEW z \in SqueezeStates(n, g, B)
  PROVE  SqueezeOnce(n, z) \in SqueezeStates(n, g, B)
<1> DEFINE take == Sponge!Smaller(Rate, n - Len(z.out))
           u == z.state.turns
           p == z.pos
           full == p + take = Rate
           v == IF take > 0 /\ full THEN u + 1 ELSE u
           q == IF full THEN 0 ELSE p + take
           o == z.out
           more == [i \in 1..take |-> Output(Len(B), u, p + i)]
           y == SqueezeOnce(n, z)
<1>1. /\ z.state = [blocks |-> B, turns |-> u] /\ u \in Nat /\ p \in Nat
      /\ o \in Seq(Outputs) /\ Len(o) <= n /\ Streamed(g \o o, Len(B), u, p)
  BY DEF SqueezeStates
<1>2. take \in 0..Rate /\ take <= n - Len(o)
  <2> DEFINE left == n - Len(z.out)
  <2>1. left \in Nat /\ Rate \in Nat
    BY <1>1, SpongeAssumption
  <2>2. take = Sponge!Smaller(Rate, left) /\ left = n - Len(o)
    OBVIOUS
  <2> HIDE DEF left, take, o
  <2> QED
    BY <2>1, <2>2 DEF Sponge!Smaller
<1>3. \A i \in 1..take : Sponge!OutputByte(z.state, p + i) = Output(Len(B), u, p + i)
  BY <1>1 DEF Sponge!OutputByte, Output
<1>4. y = [state |-> IF take > 0 /\ full THEN [z.state EXCEPT !.turns = @ + 1] ELSE z.state,
           pos |-> q, out |-> o \o [i \in 1..take |-> Sponge!OutputByte(z.state, p + i)]]
  BY DEF SqueezeOnce
<1>5. y.pos = q /\ y.out = o \o more
  <2>1. [i \in 1..take |-> Sponge!OutputByte(z.state, p + i)] = more
    BY <1>3
  <2> HIDE DEF y, q, more, take, o
  <2> QED
    BY <1>4, <2>1
<1>6. y.state = [blocks |-> B, turns |-> v]
  <2>1. y.state = IF take > 0 /\ full THEN [z.state EXCEPT !.turns = @ + 1] ELSE z.state
    BY <1>4
  <2> HIDE DEF y, take, u
  <2> QED
    BY <1>1, <2>1
<1>7. y = [state |-> y.state, pos |-> y.pos, out |-> y.out]
  BY <1>4
<1> HIDE DEF y, take, u, p, o
<1>8. more \in Seq(Outputs) /\ Len(more) = take /\ Streamed((g \o o) \o more, Len(B), v, q)
  <2> DEFINE h == g \o o
  <2>1. Streamed(h, Len(B), u, p)
    BY <1>1
  <2> HIDE DEF h
  <2>2. more \in Seq(Outputs) /\ Len(more) = take /\ Streamed(h \o more, Len(B), v, q)
    BY <1>2, <2>1, StreamGoesOn
  <2> QED
    BY <2>2 DEF h
<1>9. v \in Nat /\ q \in Nat
  BY <1>1, <1>2, SpongeAssumption
<1> HIDE DEF more, v, q
<1>10. o \o more \in Seq(Outputs) /\ Len(o \o more) = Len(o) + take
  BY <1>1, <1>8, ConcatProperties
<1>11. Len(o \o more) <= n
  BY <1>1, <1>2, <1>10, SpongeAssumption
<1>12. (g \o o) \o more = g \o (o \o more)
  <2>1. o \in Seq(Outputs) /\ more \in Seq(Outputs)
    BY <1>1, <1>8
  <2>2. Joint(Joint(g, o), more) = Joint(g, Joint(o, more))
    BY <2>1, JointAssociative
  <2> QED
    BY <2>2 DEF Joint
<1>13. Streamed(g \o (o \o more), Len(B), v, q)
  BY <1>8, <1>12
<1> DEFINE x == o \o more
<1> HIDE DEF x
<1>14. [state |-> [blocks |-> B, turns |-> v], pos |-> q, out |-> x] \in SqueezeStates(n, g, B)
  BY <1>9, <1>10, <1>11, <1>13 DEF SqueezeStates, x
<1>15. y = [state |-> [blocks |-> B, turns |-> v], pos |-> q, out |-> x]
  BY <1>5, <1>6, <1>7 DEF x
<1> QED
  BY <1>14, <1>15 DEF y

LEMMA SqueezeStreams ==
  ASSUME NEW n \in Nat, NEW g \in Seq(Outputs), NEW B, Len(B) \in Nat, NEW f,
         NEW u, NEW p, f.state = [blocks |-> B, turns |-> u], f.pos = p,
         Streamed(g, Len(B), u, p)
  PROVE  Squeezing(n, f)[n] \in SqueezeStates(n, g, B)
<1> DEFINE S == SqueezeStates(n, g, B)
           start == [state |-> f.state, pos |-> f.pos, out |-> << >>]
           turn == [z \in S |-> SqueezeOnce(n, z)]
           t == Squeezing(n, f)
<1>1. start \in S
  <2>1. u \in Nat /\ p \in Nat
    BY DEF Streamed
  <2>2. << >> \in Seq(Outputs) /\ Len(<< >>) = 0 /\ g \o << >> = g
    BY EmptySeq, ConcatEmptySeq
  <2>3. [state |-> [blocks |-> B, turns |-> u], pos |-> p, out |-> << >>] \in S
    <3> DEFINE e == << >>
    <3>1. e \in Seq(Outputs) /\ Len(e) = 0 /\ g \o e = g
      BY <2>2
    <3> HIDE DEF e
    <3> DEFINE x == [state |-> [blocks |-> B, turns |-> u], pos |-> p, out |-> e]
    <3>2. x \in [state : [blocks : {B}, turns : Nat], pos : Nat, out : Seq(Outputs)]
      BY <2>1, <3>1
    <3>3. x.out = e /\ x.state.turns = u /\ x.pos = p
      OBVIOUS
    <3> HIDE DEF x, S
    <3>4. Len(x.out) <= n /\ Streamed(g \o x.out, Len(B), x.state.turns, x.pos)
      BY <3>1, <3>3
    <3>5. x \in S
      BY <3>2, <3>4 DEF S, SqueezeStates
    <3> QED
      BY <3>5 DEF x, e
  <2> QED
    BY <2>3
<1>2. turn \in [S -> S] /\ \A z \in S : turn[z] = SqueezeOnce(n, z)
  BY SqueezeOnceStreams
<1> HIDE DEF turn, start, S
<1>3. PICK h : Loop(h, S, turn, start, n)
  BY <1>1, <1>2, Turns
<1>4. h = SqueezeTurns(n, f, h)
  <2>1. \A k \in 0..n : k # 0 => k \in 1..n /\ k - 1 \in 0..n
    OBVIOUS
  <2>2. \A k \in 1..n : h[k] = SqueezeOnce(n, h[k - 1])
    BY <1>2, <1>3, <2>1 DEF Loop
  <2>3. h = [k \in 0..n |-> h[k]] /\ h[0] = start
    BY <1>3 DEF Loop
  <2> QED
    BY <2>1, <2>2, <2>3 DEF SqueezeTurns, start
<1>5. t = SqueezeTurns(n, f, t)
  BY <1>4 DEF Squeezing
<1> HIDE DEF t
<1>6. /\ SqueezeTurns(n, f, t)[0] = start
      /\ \A k \in 1..n : SqueezeTurns(n, f, t)[k] = SqueezeOnce(n, t[k - 1])
  BY DEF SqueezeTurns, start
<1>7. t[0] = start /\ \A k \in 1..n : t[k] = SqueezeOnce(n, t[k - 1])
  BY <1>5, <1>6
<1> DEFINE T == {k \in 0..n : t[k] \in S}
<1>8. 0 \in T
  BY <1>1, <1>7
<1>9. \A k \in 1..n : k - 1 \in T => k \in T
  BY <1>7, SqueezeOnceStreams DEF S
<1> HIDE DEF T
<1>10. \A k \in 0..n : k \in T
  BY <1>8, <1>9, UpTo
<1>11. t[n] \in S
  BY <1>10 DEF T
<1> QED
  BY <1>11 DEF t, S

-----------------------------------------------------------------------------
SpongeIInv ==
  /\ message \in Seq(Bytes) /\ pos \in Nat /\ finalized \in {"no", "Sha3", "Shake"}
  /\ state = [blocks |-> state.blocks, turns |-> state.turns]
  /\ finalized = "no" => /\ state.blocks = Sponge!Blocks(message) /\ state.turns = 0
                         /\ buf = Sponge!Rest(message) /\ given = << >>
  /\ finalized # "no" => state.blocks = Sponge!Digest(message, Sponge!Pads[finalized])
  /\ finalized = "Sha3" => given = Sponge!Digest(message, Sponge!Pads["Sha3"])
  /\ finalized = "Shake" => Streamed(given, Len(state.blocks), state.turns, pos)

Cells == Bytes \cup {0, 6, 31, 128}

LEMMA DigestTyped ==
  ASSUME NEW m \in Seq(Bytes), NEW kind \in {"Sha3", "Shake"}
  PROVE  LET pad == Sponge!Pads[kind]
             B == Sponge!Digest(m, pad)
         IN  /\ Append(Sponge!Blocks(m), Sponge!Padded(Sponge!Rest(m), pad)) = B
             /\ B \in Seq(Seq(Cells)) /\ Len(B) \in Nat
<1> DEFINE pad == Sponge!Pads[kind]
           P == Sponge!Padded(Sponge!Rest(m), pad)
           A == Sponge!Blocks(m)
<1>1. pad \in {6, 31}
  BY DEF Sponge!Pads
<1>2. Sponge!Rest(m) \in Seq(Bytes) /\ A \in Seq(Seq(Bytes))
  BY BlocksTyped
<1> HIDE DEF pad
<1>3. P \in Seq(Cells)
  <2> DEFINE r == Sponge!Rest(m)
  <2>1. r \in Seq(Bytes) /\ Len(r) \in Nat /\ Rate \in Nat
    BY <1>2, SpongeAssumption
  <2> HIDE DEF r
  <2>2. \A i \in 1..Rate : (IF i = Rate THEN 128 ELSE IF i <= Len(r) THEN r[i]
                            ELSE IF i = Len(r) + 1 THEN pad ELSE 0) \in Cells
    <3>1. \A i \in 1..Rate : i <= Len(r) => r[i] \in Bytes
      BY <2>1
    <3> QED
      BY <1>1, <3>1 DEF Cells
  <2>3. Sponge!Padded(r, pad) \in [1..Rate -> Cells]
    BY <2>2 DEF Sponge!Padded
  <2> QED
    BY <2>1, <2>3 DEF r
<1>4. A \in Seq(Seq(Cells))
  <2>1. Seq(Bytes) \subseteq Seq(Cells)
    BY SeqMonotonic DEF Cells
  <2> QED
    BY <1>2, <2>1, SeqMonotonic
<1>5. Sponge!Digest(m, pad) = A \o << P >>
  BY DEF Sponge!Digest
<1> HIDE DEF A, P
<1>6. Append(A, P) = A \o << P >> /\ Append(A, P) \in Seq(Seq(Cells))
  BY <1>3, <1>4, AppendIsConcat, AppendProperties
<1>7. Len(Append(A, P)) \in Nat
  BY <1>6, LenProperties
<1> QED
  BY <1>5, <1>6, <1>7 DEF pad, P, A

\* What padding makes of a message absorbed.
LEMMA Finalized ==
  ASSUME SpongeIInv, NEW kind \in {"Sha3", "Shake"}, finalized \in {"no", kind}
  PROVE  LET f == Sponge!Finalize(kind)
             B == Sponge!Digest(message, Sponge!Pads[kind])
         IN  /\ f.state = [blocks |-> B, turns |-> f.state.turns] /\ f.pos \in Nat
             /\ B \in Seq(Seq(Cells)) /\ Len(B) \in Nat
             /\ kind = "Shake" => Streamed(given, Len(B), f.state.turns, f.pos)
<1> DEFINE f == Sponge!Finalize(kind)
           pad == Sponge!Pads[kind]
           B == Sponge!Digest(message, pad)
<1>1. /\ Append(Sponge!Blocks(message), Sponge!Padded(Sponge!Rest(message), pad)) = B
      /\ B \in Seq(Seq(Cells)) /\ Len(B) \in Nat
  BY DigestTyped DEF SpongeIInv
<1>2. CASE finalized = "no"
  <2>1. f = [state |-> [state EXCEPT !.blocks = Append(@, Sponge!Padded(buf, pad))], pos |-> 0]
    BY <1>2 DEF Sponge!Finalize
  <2>2. f.state = [blocks |-> B, turns |-> 0] /\ f.pos = 0
    <3>1. /\ state = [blocks |-> state.blocks, turns |-> 0]
          /\ Append(state.blocks, Sponge!Padded(buf, pad)) = B
      BY <1>1, <1>2 DEF SpongeIInv
    <3> HIDE DEF f, B
    <3>2. f.state = [blocks |-> Append(state.blocks, Sponge!Padded(buf, pad)), turns |-> 0]
      BY <2>1, <3>1
    <3> QED
      BY <2>1, <3>1, <3>2
  <2> HIDE DEF f, B
  <2>3. Streamed(given, Len(B), 0, 0)
    <3>1. given = << >> /\ Rate \in Nat \ {0} /\ Len(given) = 0 /\ 0 * Rate = 0
      BY <1>2, SpongeAssumption DEF SpongeIInv
    <3>2. given \in Seq(Outputs)
      BY <3>1, EmptySeq
    <3> QED
      BY <1>1, <3>1, <3>2 DEF Streamed
  <2> QED
    BY <1>1, <2>2, <2>3 DEF f, B
<1>3. CASE finalized = kind
  <2>1. f = [state |-> state, pos |-> pos]
    BY <1>3 DEF Sponge!Finalize
  <2> HIDE DEF f
  <2>2. f.state = state /\ f.pos = pos
    BY <2>1
  <2>3. /\ state = [blocks |-> B, turns |-> state.turns] /\ pos \in Nat
        /\ kind = "Shake" => Streamed(given, Len(B), state.turns, pos)
    BY <1>3 DEF SpongeIInv
  <2> QED
    BY <1>1, <2>2, <2>3 DEF f
<1> QED
  BY <1>2, <1>3

LEMMA SpongeInit == Sponge!Init => SpongeIInv
<1> SUFFICES ASSUME Sponge!Init PROVE SpongeIInv
  OBVIOUS
<1>1. << >> \in Seq(Bytes) /\ Len(<< >>) = 0 /\ 0 < Rate
  BY EmptySeq, SpongeAssumption
<1>2. Sponge!Blocks(<< >>) = << >> /\ Sponge!Rest(<< >>) = << >>
  BY <1>1, ShortOfABlock
<1> QED
  BY <1>1, <1>2 DEF Sponge!Init, Sponge!Empty, SpongeIInv

LEMMA SpongeKept == SpongeIInv /\ [Sponge!Next]_sponge => SpongeIInv'
<1> SUFFICES ASSUME SpongeIInv, [Sponge!Next]_sponge PROVE SpongeIInv'
  OBVIOUS
<1>1. CASE UNCHANGED sponge
  BY <1>1 DEF sponge, SpongeIInv, Streamed, Past
<1>2. CASE Sponge!Reset
  <2>1. << >> \in Seq(Bytes) /\ Len(<< >>) = 0 /\ 0 < Rate
    BY EmptySeq, SpongeAssumption
  <2>2. Sponge!Blocks(<< >>) = << >> /\ Sponge!Rest(<< >>) = << >>
    BY <2>1, ShortOfABlock
  <2> QED
    BY <1>2, <2>1, <2>2 DEF Sponge!Reset, Sponge!Empty, SpongeIInv
<1>3. ASSUME NEW data \in Sponge!BoundedSeq(Bytes, Rate + 1), Sponge!Absorb(data) PROVE SpongeIInv'
  <2> DEFINE f == Sponge!Filled(data)
             full == Len(f.buf) = Rate
  <2>1. data \in Seq(Bytes)
    <3>1. PICK n \in 0..(Rate + 1) : data \in [1..n -> Bytes]
      BY <1>3 DEF Sponge!BoundedSeq, Sponge!SeqOf
    <3>2. n \in Nat
      BY SpongeAssumption
    <3> QED
      BY <3>1, <3>2
  <2>2. /\ finalized = "no" /\ message \in Seq(Bytes) /\ buf = Sponge!Rest(message)
        /\ state.blocks = Sponge!Blocks(message) /\ state.turns = 0 /\ given = << >>
        /\ state = [blocks |-> state.blocks, turns |-> state.turns] /\ pos \in Nat
    BY <1>3 DEF Sponge!Absorb, SpongeIInv
  <2>3. /\ Sponge!Blocks(message \o data)
              = Sponge!Blocks(message) \o (IF full THEN <<f.buf>> ELSE << >>) \o Sponge!Blocks(f.data)
        /\ Sponge!Rest(message \o data) = (IF full THEN << >> ELSE f.buf) \o Sponge!Rest(f.data)
    BY <2>1, <2>2, AbsorbCuts
  <2>4. /\ message' = message \o data
        /\ state' = [state EXCEPT !.blocks = @ \o (IF full THEN <<f.buf>> ELSE << >>) \o Sponge!Blocks(f.data)]
        /\ buf' = (IF full THEN << >> ELSE f.buf) \o Sponge!Rest(f.data)
        /\ pos' = pos /\ finalized' = finalized /\ given' = given
    BY <1>3 DEF Sponge!Absorb
  <2> HIDE DEF f, full
  <2>5. state' = [blocks |-> Sponge!Blocks(message \o data), turns |-> 0]
    BY <2>2, <2>3, <2>4
  <2>6. message \o data \in Seq(Bytes)
    BY <2>1, <2>2, ConcatProperties
  <2>7. state'.blocks = Sponge!Blocks(message') /\ state'.turns = 0 /\ buf' = Sponge!Rest(message')
    <3>1. message' = message \o data
      BY <2>4
    <3>2. buf' = Sponge!Rest(message \o data)
      BY <2>3, <2>4, Zenon
    <3>3. state'.blocks = Sponge!Blocks(message \o data) /\ state'.turns = 0
      BY <2>5
    <3> QED
      BY <3>1, <3>2, <3>3, Zenon
  <2>8. state' = [blocks |-> state'.blocks, turns |-> state'.turns]
    BY <2>5
  <2> QED
    BY <2>2, <2>4, <2>6, <2>7, <2>8 DEF SpongeIInv
<1>4. CASE Sponge!Final
  <2> DEFINE f == Sponge!Finalize("Sha3")
             B == Sponge!Digest(message, Sponge!Pads["Sha3"])
  <2>1. f.state = [blocks |-> B, turns |-> f.state.turns] /\ f.pos \in Nat
    BY <1>4, Finalized DEF Sponge!Final
  <2>2. /\ state' = f.state /\ pos' = f.pos /\ finalized' = "Sha3"
        /\ given' = f.state.blocks /\ message' = message
    BY <1>4 DEF Sponge!Final
  <2>3. message \in Seq(Bytes)
    BY DEF SpongeIInv
  <2> HIDE DEF f
  <2>4. state.blocks' = B' /\ given' = B' /\ state' = [blocks |-> state.blocks', turns |-> state.turns']
    BY <2>1, <2>2
  <2> QED
    BY <2>1, <2>2, <2>3, <2>4 DEF SpongeIInv
<1>5. ASSUME NEW n \in 0..MaxSqueezed, Sponge!Squeeze(n) PROVE SpongeIInv'
  <2> DEFINE f == Sponge!Finalize("Shake")
             B == Sponge!Digest(message, Sponge!Pads["Shake"])
             z == Squeezing(n, f)[n]
  <2>1. finalized \in {"no", "Shake"} /\ n \in Nat
    <3>1. finalized \in {"no", "Shake"}
      BY <1>5 DEF Sponge!Squeeze
    <3> QED
      BY <3>1, SpongeAssumption
  <2>2. /\ f.state = [blocks |-> B, turns |-> f.state.turns] /\ f.pos \in Nat
        /\ B \in Seq(Seq(Cells)) /\ Len(B) \in Nat
        /\ Streamed(given, Len(B), f.state.turns, f.pos)
    BY <2>1, Finalized
  <2>3. given \in Seq(Outputs)
    BY <2>2 DEF Streamed
  <2>4. /\ state' = z.state /\ pos' = z.pos /\ finalized' = "Shake"
        /\ given' = given \o z.out /\ message' = message
    BY <1>5 DEF Sponge!Squeeze, Squeezing, SqueezeTurns, SqueezeOnce
  <2> HIDE DEF f, B
  <2>5. z \in SqueezeStates(n, given, B)
    BY <2>1, <2>2, <2>3, SqueezeStreams
  <2> HIDE DEF z
  <2>6. /\ z.state = [blocks |-> B, turns |-> z.state.turns] /\ z.pos \in Nat
        /\ Streamed(given \o z.out, Len(B), z.state.turns, z.pos)
    BY <2>5 DEF SqueezeStates
  <2>7. /\ state.blocks' = B /\ state' = [blocks |-> state.blocks', turns |-> state.turns'] /\ B' = B
    BY <2>4, <2>6 DEF B
  <2>8. message \in Seq(Bytes)
    BY DEF SpongeIInv
  <2>9. Streamed(given', Len(state.blocks'), state.turns', pos')
    BY <2>4, <2>6, <2>7
  <2>10. Streamed(given, Len(state.blocks), state.turns, pos)'
    BY <2>9 DEF Streamed, Past
  <2> QED
    BY <2>4, <2>6, <2>7, <2>8, <2>10 DEF SpongeIInv, B
<1> QED
  BY <1>1, <1>2, <1>3, <1>4, <1>5 DEF Sponge!Next

LEMMA SpongeRight == SpongeIInv => Sponge!PiecesMakeTheWhole
<1> SUFFICES ASSUME SpongeIInv PROVE Sponge!PiecesMakeTheWhole
  OBVIOUS
<1>1. ASSUME finalized = "Shake", NEW i \in DOMAIN given, \A j \in 1..i : given[j] # <<"past">>
      PROVE  given[i] = <<Len(state.blocks), (i - 1) \div Rate, ((i - 1) % Rate) + 1>>
  <2>1. Streamed(given, Len(state.blocks), state.turns, pos)
    BY <1>1 DEF SpongeIInv
  <2>2. i \in 1..Len(given)
    BY <2>1 DEF Streamed
  <2> QED
    BY <1>1, <2>1, <2>2 DEF Streamed
<1> QED
  BY <1>1 DEF Sponge!PiecesMakeTheWhole, SpongeIInv

-----------------------------------------------------------------------------
(* The manifests.                                                          *)

Texts == Seq(Nat)

\* Two sequences that go on from equally long beginnings.
LEMMA SplitAlike ==
  ASSUME NEW a \in Texts, NEW b \in Texts, NEW x \in Texts, NEW y \in Texts,
         Len(a) = Len(b), a \o x = b \o y
  PROVE  a = b /\ x = y
<1>1. Len(a) \in Nat /\ Len(x) \in Nat /\ Len(y) \in Nat
  BY DEF Texts
<1>2. /\ Len(a \o x) = Len(a) + Len(x)
      /\ \A i \in 1..(Len(a) + Len(x)) : (a \o x)[i] = IF i <= Len(a) THEN a[i] ELSE x[i - Len(a)]
  BY ConcatProperties DEF Texts
<1>3. \A i \in 1..(Len(b) + Len(y)) : (b \o y)[i] = IF i <= Len(b) THEN b[i] ELSE y[i - Len(b)]
  BY ConcatProperties DEF Texts
<1>4. Len(b \o y) = Len(b) + Len(y)
  BY ConcatProperties DEF Texts
<1>5. Len(x) = Len(y)
  BY <1>1, <1>2, <1>4
<1>6. ASSUME NEW i \in 1..Len(a) PROVE a[i] = b[i]
  <2>1. i \in 1..(Len(a) + Len(x)) /\ i <= Len(a)
    BY <1>1
  <2> QED
    BY <1>2, <1>3, <1>5, <2>1
<1>7. a = b
  BY <1>6, SeqEqual DEF Texts
<1>8. ASSUME NEW i \in 1..Len(x) PROVE x[i] = y[i]
  <2>1. /\ Len(a) + i \in 1..(Len(a) + Len(x)) /\ ~(Len(a) + i <= Len(a))
        /\ Len(a) + i - Len(a) = i
    BY <1>1
  <2>2. (a \o x)[Len(a) + i] = x[i]
    <3> DEFINE z == a \o x
               k == Len(a) + i
    <3>1. /\ k \in 1..(Len(a) + Len(x)) /\ ~(k <= Len(a)) /\ k - Len(a) = i
          /\ \A l \in 1..(Len(a) + Len(x)) : z[l] = IF l <= Len(a) THEN a[l] ELSE x[l - Len(a)]
      BY <1>2, <2>1
    <3> HIDE DEF z, k
    <3>2. z[k] = x[k - Len(a)]
      BY <3>1, Zenon
    <3>3. z[k] = x[i]
      BY <3>1, <3>2
    <3> QED
      BY <3>3 DEF z, k
  <2>3. (b \o y)[Len(a) + i] = y[i]
    <3> DEFINE z == b \o y
               k == Len(a) + i
    <3>1. /\ k \in 1..(Len(a) + Len(x)) /\ ~(k <= Len(a)) /\ k - Len(a) = i
          /\ \A l \in 1..(Len(a) + Len(x)) : z[l] = IF l <= Len(a) THEN b[l] ELSE y[l - Len(a)]
      BY <1>3, <1>5, <2>1
    <3> HIDE DEF z, k
    <3>2. z[k] = y[k - Len(a)]
      BY <3>1, Zenon
    <3>3. z[k] = y[i]
      BY <3>1, <3>2
    <3> QED
      BY <3>3 DEF z, k
  <2> QED
    BY <2>2, <2>3
<1>9. x = y
  BY <1>5, <1>8, SeqEqual DEF Texts
<1> QED
  BY <1>7, <1>9

\* A string is known by its length and what follows.
LEMMA StrApart ==
  ASSUME NEW s \in Texts, NEW t \in Texts, NEW x \in Texts, NEW y \in Texts,
         Joint(Manifests!Str(s), x) = Joint(Manifests!Str(t), y)
  PROVE  s = t /\ x = y
<1> DEFINE a == Manifests!Str(s)
           b == Manifests!Str(t)
<1>1. ASSUME NEW u \in Texts
      PROVE  /\ Manifests!Str(u) \in Texts /\ Len(Manifests!Str(u)) = Len(u) + 1
             /\ Manifests!Str(u)[1] = Len(u) /\ Manifests!Str(u) = << Len(u) >> \o u
  <2> DEFINE h == << Len(u) >>
  <2>1. h \in Texts /\ Len(h) = 1 /\ h[1] = Len(u) /\ Len(u) \in Nat
    BY DEF Texts
  <2> HIDE DEF h
  <2>2. /\ h \o u \in Texts /\ Len(h \o u) = 1 + Len(u)
        /\ \A i \in 1..(1 + Len(u)) : (h \o u)[i] = IF i <= 1 THEN h[i] ELSE u[i - 1]
    <3>1. /\ h \o u \in Texts /\ Len(h \o u) = Len(h) + Len(u)
          /\ \A i \in 1..(Len(h) + Len(u)) : (h \o u)[i] = IF i <= Len(h) THEN h[i] ELSE u[i - Len(h)]
      BY <2>1, ConcatProperties DEF Texts
    <3> QED
      BY <2>1, <3>1
  <2>3. Manifests!Str(u) = h \o u
    BY DEF Manifests!Str, h
  <2>4. (h \o u)[1] = h[1]
    BY <2>1, <2>2
  <2> QED
    BY <2>1, <2>2, <2>3, <2>4 DEF h
<1>2. /\ a \in Texts /\ Len(a) = Len(s) + 1 /\ a[1] = Len(s) /\ a = << Len(s) >> \o s
      /\ b \in Texts /\ Len(b) = Len(t) + 1 /\ b[1] = Len(t) /\ b = << Len(t) >> \o t
  BY <1>1
<1>3. a \o x = b \o y
  BY DEF Joint
<1>4. Len(s) \in Nat /\ Len(t) \in Nat /\ Len(x) \in Nat /\ Len(y) \in Nat
  BY DEF Texts
<1> HIDE DEF a, b
<1>5. (a \o x)[1] = a[1] /\ (b \o y)[1] = b[1]
  <2>1. \A u, v \in Seq(Nat) : Len(u) > 0 => (u \o v)[1] = u[1]
    <3> TAKE u, v \in Seq(Nat)
    <3>1. \A i \in 1..Len(u) + Len(v) : (u \o v)[i] = IF i <= Len(u) THEN u[i] ELSE v[i - Len(u)]
      BY ConcatProperties, SMTT(30)
    <3> QED
      BY <3>1
  <2> QED
    BY <1>2, <1>4, <2>1 DEF Texts
<1>6. Len(s) = Len(t)
  BY <1>2, <1>3, <1>5
<1>7. a = b /\ x = y
  <2>1. Len(a) = Len(b) /\ a \in Texts /\ b \in Texts
    BY <1>2, <1>6
  <2> QED
    BY <1>3, <2>1, SplitAlike
<1> DEFINE h == << Len(s) >>
<1>8. h \o s = h \o t /\ h \in Texts
  BY <1>2, <1>4, <1>6, <1>7 DEF Texts
<1> HIDE DEF h
<1>9. s = t
  BY <1>8, SplitAlike
<1> QED
  BY <1>7, <1>9

-----------------------------------------------------------------------------
\* One sequence after the other.
FlatTurns(seqs, t) ==
  [i \in 1..Len(seqs) |-> IF i = 1 THEN seqs[i] ELSE t[i - 1] \o seqs[i]]

Flat(seqs) == CHOOSE t : t = FlatTurns(seqs, t)

FlatUpTo(seqs, j) ==
  /\ j \in [0..Len(seqs) -> Texts] /\ j[0] = << >>
  /\ \A k \in 1..Len(seqs) : j[k] = j[k - 1] \o seqs[k]
  /\ Manifests!FlattenSeq(seqs) = j[Len(seqs)]

LEMMA FlatteningGoesOn ==
  ASSUME NEW seqs \in Seq(Texts)
  PROVE  \E j : FlatUpTo(seqs, j)
<1> DEFINE n == Len(seqs)
           step == [k \in 1..n |-> [x \in Texts |-> x \o seqs[k]]]
<1>1. n \in Nat /\ \A k \in 1..n : seqs[k] \in Texts
  OBVIOUS
<1>2. step \in [1..n -> [Texts -> Texts]] /\ \A k \in 1..n, x \in Texts : step[k][x] = x \o seqs[k]
  <2>1. ASSUME NEW k \in 1..n, NEW x \in Texts PROVE x \o seqs[k] \in Texts
    BY <1>1, ConcatProperties DEF Texts
  <2> HIDE DEF n
  <2> QED
    BY <2>1
<1>3. << >> \in Texts
  BY EmptySeq DEF Texts
<1> HIDE DEF step, n
<1>4. PICK j : Stepping(j, Texts, step, << >>, n)
  BY <1>1, <1>2, <1>3, Steppings
<1>5. \A k \in 0..n : k # 0 => k \in 1..n /\ k - 1 \in 0..n
  BY <1>1
<1>6. /\ j \in [0..n -> Texts] /\ j[0] = << >> /\ \A k \in 1..n : j[k] = j[k - 1] \o seqs[k]
  <2>1. j \in [0..n -> Texts] /\ j[0] = << >> /\ \A k \in 1..n : j[k] = step[k][j[k - 1]]
    BY <1>4 DEF Stepping
  <2>2. \A k \in 1..n : k - 1 \in 0..n /\ j[k - 1] \in Texts
    BY <1>1, <2>1
  <2> QED
    BY <1>2, <2>1, <2>2
<1>7. n > 0 => j[1] = seqs[1]
  <2> SUFFICES ASSUME n > 0 PROVE j[1] = seqs[1]
    OBVIOUS
  <2>1. 1 \in 1..n /\ 1 - 1 = 0 /\ seqs[1] \in Texts
    BY <1>1
  <2>2. j[1] = << >> \o seqs[1]
    BY <1>6, <2>1
  <2> QED
    BY <2>1, <2>2, ConcatEmptySeq DEF Texts
<1>8. Manifests!FlattenSeq(seqs) = j[n]
  <2>1. CASE n = 0
    <3>1. Manifests!FlattenSeq(seqs) = seqs
      BY <2>1 DEF Manifests!FlattenSeq, n
    <3>2. seqs = << >>
      BY <2>1, EmptySeq DEF n
    <3> QED
      BY <1>6, <2>1, <3>1, <3>2
  <2>2. CASE n # 0
    <3> DEFINE f == [i \in 1..n |-> j[i]]
               t == Flat(seqs)
    <3>1. Manifests!FlattenSeq(seqs) = t[n]
      BY <2>2 DEF Manifests!FlattenSeq, Flat, FlatTurns, n
    <3>2. f = FlatTurns(seqs, f)
      <4>1. ASSUME NEW i \in 1..n PROVE f[i] = FlatTurns(seqs, f)[i]
        <5>1. FlatTurns(seqs, f)[i] = IF i = 1 THEN seqs[i] ELSE f[i - 1] \o seqs[i]
          BY DEF FlatTurns, n
        <5>2. i # 1 => i - 1 \in 1..n
          BY <1>1
        <5>3. f[i] = j[i]
          OBVIOUS
        <5>4. CASE i = 1
          BY <1>1, <1>7, <5>1, <5>3, <5>4
        <5>5. CASE i # 1
          <6>1. f[i - 1] = j[i - 1]
            BY <5>2, <5>5
          <6> HIDE DEF f
          <6> QED
            BY <1>6, <5>1, <5>3, <5>5, <6>1
        <5> QED
          BY <5>4, <5>5
      <4>2. f = [i \in 1..n |-> f[i]] /\ FlatTurns(seqs, f) = [i \in 1..n |-> FlatTurns(seqs, f)[i]]
        BY DEF FlatTurns, n
      <4> HIDE DEF f
      <4> QED
        BY <4>1, <4>2
    <3>3. t = FlatTurns(seqs, t)
      BY <3>2 DEF Flat
    <3> HIDE DEF t, f
    <3>4. ASSUME NEW i \in 1..n PROVE t[i] = IF i = 1 THEN seqs[i] ELSE t[i - 1] \o seqs[i]
      <4>1. FlatTurns(seqs, t)[i] = IF i = 1 THEN seqs[i] ELSE t[i - 1] \o seqs[i]
        BY DEF FlatTurns, n
      <4> QED
        BY <3>3, <4>1
    <3> DEFINE T == {k \in 0..n : k = 0 \/ t[k] = j[k]}
    <3>5. 0 \in T
      BY <1>1
    <3>6. ASSUME NEW k \in 1..n, k - 1 \in T PROVE k \in T
      <4>1. CASE k = 1
        BY <1>1, <1>7, <2>2, <3>4, <4>1
      <4>2. CASE k # 1
        <5>1. k - 1 # 0 /\ t[k - 1] = j[k - 1]
          BY <1>1, <3>6, <4>2
        <5>2. t[k] = t[k - 1] \o seqs[k]
          BY <3>4, <4>2
        <5>3. t[k] = j[k]
          BY <1>6, <5>1, <5>2
        <5> QED
          BY <1>1, <5>3
      <4> QED
        BY <4>1, <4>2
    <3> HIDE DEF T
    <3>7. \A k \in 0..n : k \in T
      BY <1>1, <3>5, <3>6, UpTo
    <3>8. t[n] = j[n]
      <4>1. n \in 0..n
        BY <1>1
      <4> QED
        BY <2>2, <3>7, <4>1 DEF T
    <3> QED
      BY <3>1, <3>8
  <2> QED
    BY <2>1, <2>2
<1> QED
  BY <1>6, <1>8 DEF FlatUpTo, n

\* Whatever follows them, a and b begin alike only if they are the same.
Apart(a, b) == \A x, y \in Texts : a \o x = b \o y => a = b /\ x = y

LEMMA FlatApart ==
  ASSUME NEW e \in Seq(Texts), NEW f \in Seq(Texts), Len(e) = Len(f),
         \A i \in 1..Len(e) : Apart(e[i], f[i])
  PROVE  \A x, y \in Texts : Manifests!FlattenSeq(e) \o x = Manifests!FlattenSeq(f) \o y
                               => e = f /\ x = y
<1> DEFINE n == Len(e)
<1>1. n \in Nat /\ \A i \in 1..n : e[i] \in Texts /\ f[i] \in Texts
  OBVIOUS
<1>2. PICK j : FlatUpTo(e, j)
  BY FlatteningGoesOn
<1>3. PICK k : FlatUpTo(f, k)
  BY FlatteningGoesOn
<1> HIDE DEF n
<1>4. /\ \A i \in 0..n : j[i] \in Texts /\ k[i] \in Texts
      /\ j[0] = << >> /\ k[0] = << >>
      /\ \A i \in 1..n : j[i] = j[i - 1] \o e[i] /\ k[i] = k[i - 1] \o f[i]
      /\ Manifests!FlattenSeq(e) = j[n] /\ Manifests!FlattenSeq(f) = k[n]
  BY <1>2, <1>3 DEF FlatUpTo, n
<1> DEFINE Alike(i) == \A x, y \in Texts :
                         j[i] \o x = k[i] \o y => (\A l \in 1..i : e[l] = f[l]) /\ x = y
           T == {i \in 0..n : Alike(i)}
<1>5. 0 \in T
  <2>1. \A x \in Texts : << >> \o x = x
    BY ConcatEmptySeq DEF Texts
  <2>2. Alike(0)
    BY <1>4, <2>1
  <2> HIDE DEF Alike
  <2> QED
    BY <1>1, <2>2
<1>6. ASSUME NEW i \in 1..n, i - 1 \in T PROVE i \in T
  <2>1. Alike(i - 1) /\ i - 1 \in 0..n /\ i \in 0..n
    <3> HIDE DEF Alike
    <3> QED
      BY <1>1, <1>6
  <2>2. ASSUME NEW x \in Texts, NEW y \in Texts, j[i] \o x = k[i] \o y
        PROVE  (\A l \in 1..i : e[l] = f[l]) /\ x = y
    <3> DEFINE a == j[i - 1]
               b == k[i - 1]
               c == e[i]
               d == f[i]
    <3>1. a \in Texts /\ b \in Texts /\ c \in Texts /\ d \in Texts
      BY <1>1, <1>4, <2>1
    <3>2. (a \o c) \o x = (b \o d) \o y
      BY <1>4, <2>2
    <3>3. Apart(c, d)
      BY DEF n
    <3> HIDE DEF a, b, c, d
    <3>4. /\ Joint(Joint(a, c), x) = Joint(a, Joint(c, x))
          /\ Joint(Joint(b, d), y) = Joint(b, Joint(d, y))
      BY <3>1, JointAssociative DEF Texts
    <3>5. a \o (c \o x) = b \o (d \o y)
      BY <3>2, <3>4 DEF Joint
    <3> DEFINE p == c \o x
               q == d \o y
    <3>6. p \in Texts /\ q \in Texts
      BY <3>1, ConcatProperties DEF Texts
    <3> HIDE DEF p, q
    <3>7. a \o p = b \o q
      BY <3>5 DEF p, q
    <3>8. (\A l \in 1..(i - 1) : e[l] = f[l]) /\ p = q
      BY <2>1, <3>6, <3>7 DEF a, b
    <3>9. c = d /\ x = y
      BY <3>3, <3>8 DEF Apart, p, q
    <3>10. \A l \in 1..i : l = i \/ l \in 1..(i - 1)
      BY <1>1
    <3> QED
      BY <3>8, <3>9, <3>10 DEF c, d
  <2>3. Alike(i)
    BY <2>2
  <2> HIDE DEF Alike
  <2> QED
    BY <2>1, <2>3
<1> HIDE DEF T
<1>7. \A i \in 0..n : i \in T
  BY <1>1, <1>5, <1>6, UpTo
<1>8. Alike(n)
  <2> HIDE DEF Alike
  <2>1. n \in 0..n
    BY <1>1
  <2> QED
    BY <1>7, <2>1 DEF T
<1>9. ASSUME NEW x \in Texts, NEW y \in Texts, j[n] \o x = k[n] \o y
      PROVE  e = f /\ x = y
  <2>1. (\A l \in 1..n : e[l] = f[l]) /\ x = y
    BY <1>8, <1>9
  <2> QED
    BY <2>1, SeqEqual DEF n
<1> QED
  BY <1>4, <1>9

-----------------------------------------------------------------------------
\* What is signed and what is hashed.
Strings == Seq(Characters)

Segments == [kind : Kinds, name : Strings, hash : Digests]

ManifestRecords ==
  [version : Strings, build : Strings, segments : Seq(Segments), capabilities : Strings]

SegmentCodes(m) ==
  [i \in DOMAIN m.segments |->
     Manifests!Str(m.segments[i].name) \o << m.segments[i].kind, m.segments[i].hash >>]

EntryCodes(m) ==
  [i \in DOMAIN m.segments |-> Manifests!Str(m.segments[i].name) \o << m.segments[i].hash >>]

LEMMA JointFacts ==
  /\ \A u, v \in Texts : Joint(u, v) \in Texts
  /\ \A u, v, w \in Texts : Joint(Joint(u, v), w) = Joint(u, Joint(v, w))
  /\ \A a, b, x, y \in Texts : Len(a) = Len(b) /\ Joint(a, x) = Joint(b, y) => a = b /\ x = y
  /\ \A s, t, x, y \in Texts :
       Joint(Manifests!Str(s), x) = Joint(Manifests!Str(t), y) => s = t /\ x = y
  /\ \A s \in Texts : Manifests!Str(s) \in Texts
<1>1. \A u, v \in Texts : u \o v \in Texts
  BY ConcatProperties DEF Texts
<1>2. \A u, v \in Texts : Joint(u, v) \in Texts
  BY <1>1 DEF Joint
<1>3. ASSUME NEW u \in Texts, NEW v \in Texts, NEW w \in Texts
      PROVE  Joint(Joint(u, v), w) = Joint(u, Joint(v, w))
  BY JointAssociative DEF Texts
<1>4. ASSUME NEW a \in Texts, NEW b \in Texts, NEW x \in Texts, NEW y \in Texts,
             Len(a) = Len(b), Joint(a, x) = Joint(b, y)
      PROVE  a = b /\ x = y
  BY <1>4, SplitAlike DEF Joint
<1>5. ASSUME NEW s \in Texts, NEW t \in Texts, NEW x \in Texts, NEW y \in Texts,
             Joint(Manifests!Str(s), x) = Joint(Manifests!Str(t), y)
      PROVE  s = t /\ x = y
  BY <1>5, StrApart
<1>6. ASSUME NEW s \in Texts PROVE Manifests!Str(s) \in Texts
  <2>1. << Len(s) >> \in Texts
    BY DEF Texts
  <2> QED
    BY <1>1, <2>1 DEF Manifests!Str
<1> QED
  BY <1>2, <1>3, <1>4, <1>5, <1>6

\* Codes of one name after another, each with what follows the name.
LEMMA NamedApart ==
  ASSUME NEW s \in Texts, NEW t \in Texts, NEW p \in Texts, NEW q \in Texts, Len(p) = Len(q)
  PROVE  /\ Apart(Joint(Manifests!Str(s), p), Joint(Manifests!Str(t), q))
         /\ Joint(Manifests!Str(s), p) = Joint(Manifests!Str(t), q) => s = t /\ p = q
<1>1. ASSUME NEW x \in Texts, NEW y \in Texts,
             Joint(Joint(Manifests!Str(s), p), x) = Joint(Joint(Manifests!Str(t), q), y)
      PROVE  s = t /\ p = q /\ x = y
  <2>1. Joint(Manifests!Str(s), Joint(p, x)) = Joint(Manifests!Str(t), Joint(q, y))
    BY <1>1, JointFacts
  <2>2. s = t /\ Joint(p, x) = Joint(q, y)
    BY <2>1, JointFacts
  <2> QED
    BY <2>2, JointFacts
<1>2. Apart(Joint(Manifests!Str(s), p), Joint(Manifests!Str(t), q))
  <2> DEFINE a == Joint(Manifests!Str(s), p)
             b == Joint(Manifests!Str(t), q)
  <2>1. \A x, y \in Texts : Joint(a, x) = Joint(b, y) => a = b /\ x = y
    BY <1>1
  <2> HIDE DEF a, b
  <2>2. Apart(a, b)
    BY <2>1 DEF Apart, Joint
  <2> QED
    BY <2>2 DEF a, b
<1> QED
  BY <1>2, JointFacts

LEMMA StringIsText == \A s \in Strings : s \in Texts /\ Manifests!Str(s) \in Texts
<1>1. \A s \in Strings : s \in Texts
  BY SeqMonotonic, ManifestsAssumption DEF Strings, Texts
<1> QED
  BY <1>1, JointFacts

LEMMA CodesApart ==
  ASSUME NEW m \in ManifestRecords, NEW k \in ManifestRecords,
         Len(m.segments) = Len(k.segments)
  PROVE  /\ SegmentCodes(m) \in Seq(Texts) /\ SegmentCodes(k) \in Seq(Texts)
         /\ EntryCodes(m) \in Seq(Texts) /\ EntryCodes(k) \in Seq(Texts)
         /\ \A x, y \in Texts :
              Joint(Manifests!FlattenSeq(SegmentCodes(m)), x) = Joint(Manifests!FlattenSeq(SegmentCodes(k)), y)
                => m.segments = k.segments /\ x = y
         /\ \A x, y \in Texts :
              Joint(Manifests!FlattenSeq(EntryCodes(m)), x) = Joint(Manifests!FlattenSeq(EntryCodes(k)), y)
                => /\ \A i \in 1..Len(m.segments) : /\ m.segments[i].name = k.segments[i].name
                                                   /\ m.segments[i].hash = k.segments[i].hash
                   /\ x = y
<1> DEFINE n == Len(m.segments)
           a(i) == m.segments[i]
           b(i) == k.segments[i]
           part(s) == << s.kind, s.hash >>
           tag(s) == << s.hash >>
<1>1. /\ n \in Nat /\ DOMAIN m.segments = 1..n /\ DOMAIN k.segments = 1..n
      /\ m.segments \in Seq(Segments) /\ k.segments \in Seq(Segments)
      /\ \A i \in 1..n : a(i) \in Segments /\ b(i) \in Segments
  BY DEF ManifestRecords
<1>2. \A s \in Segments : /\ s.name \in Texts /\ Manifests!Str(s.name) \in Texts
                         /\ part(s) \in Texts /\ Len(part(s)) = 2
                         /\ tag(s) \in Texts /\ Len(tag(s)) = 1
  <2> TAKE s \in Segments
  <2>1. s.name \in Strings /\ s.kind \in Nat /\ s.hash \in Nat
    BY ManifestsAssumption DEF Segments
  <2>2. part(s) \in Texts /\ Len(part(s)) = 2 /\ tag(s) \in Texts /\ Len(tag(s)) = 1
    BY <2>1 DEF Texts
  <2> QED
    BY <2>1, <2>2, StringIsText
<1>4. \A s, t \in Segments : s.name = t.name /\ s.kind = t.kind /\ s.hash = t.hash => s = t
  BY DEF Segments
<1> DEFINE code(s) == Joint(Manifests!Str(s.name), part(s))
           entry(s) == Joint(Manifests!Str(s.name), tag(s))
<1>5. /\ SegmentCodes(m) = [i \in 1..n |-> code(a(i))] /\ SegmentCodes(k) = [i \in 1..n |-> code(b(i))]
      /\ EntryCodes(m) = [i \in 1..n |-> entry(a(i))] /\ EntryCodes(k) = [i \in 1..n |-> entry(b(i))]
  BY <1>1 DEF SegmentCodes, EntryCodes, Joint
<1> HIDE DEF part, tag, n, a, b
<1>6. \A s \in Segments : code(s) \in Texts /\ entry(s) \in Texts
  BY <1>2, JointFacts
<1>7. \A s, t \in Segments :
        /\ Apart(code(s), code(t)) /\ Apart(entry(s), entry(t))
        /\ code(s) = code(t) => s = t
        /\ entry(s) = entry(t) => s.name = t.name /\ s.hash = t.hash
  <2> TAKE s, t \in Segments
  <2>1. Apart(code(s), code(t)) /\ (code(s) = code(t) => s.name = t.name /\ part(s) = part(t))
    BY <1>2, NamedApart
  <2>2. Apart(entry(s), entry(t)) /\ (entry(s) = entry(t) => s.name = t.name /\ tag(s) = tag(t))
    BY <1>2, NamedApart
  <2>3. ASSUME code(s) = code(t) PROVE s = t
    <3>1. s.name = t.name /\ part(s) = part(t)
      BY <2>1, <2>3
    <3>2. s.kind = t.kind /\ s.hash = t.hash
      BY <3>1 DEF part
    <3> QED
      BY <1>4, <3>1, <3>2
  <2>4. ASSUME entry(s) = entry(t) PROVE s.name = t.name /\ s.hash = t.hash
    <3>1. s.name = t.name /\ tag(s) = tag(t)
      BY <2>2, <2>4
    <3> QED
      BY <3>1 DEF tag
  <2> HIDE DEF code, entry
  <2> QED
    BY <2>1, <2>2, <2>3, <2>4
<1> HIDE DEF code, entry
<1> DEFINE e == SegmentCodes(m)
           f == SegmentCodes(k)
           g == EntryCodes(m)
           h == EntryCodes(k)
<1>8. /\ e \in Seq(Texts) /\ f \in Seq(Texts) /\ g \in Seq(Texts) /\ h \in Seq(Texts)
      /\ Len(e) = n /\ Len(f) = n /\ Len(g) = n /\ Len(h) = n
      /\ \A i \in 1..n : e[i] = code(a(i)) /\ f[i] = code(b(i)) /\ g[i] = entry(a(i)) /\ h[i] = entry(b(i))
  BY <1>1, <1>5, <1>6
<1> HIDE DEF e, f, g, h
<1>9. \A x, y \in Texts : Manifests!FlattenSeq(e) \o x = Manifests!FlattenSeq(f) \o y => e = f /\ x = y
  <2>1. \A i \in 1..Len(e) : Apart(e[i], f[i])
    BY <1>1, <1>7, <1>8
  <2> QED
    BY <1>8, <2>1, FlatApart
<1>10. \A x, y \in Texts : Manifests!FlattenSeq(g) \o x = Manifests!FlattenSeq(h) \o y => g = h /\ x = y
  <2>1. \A i \in 1..Len(g) : Apart(g[i], h[i])
    BY <1>1, <1>7, <1>8
  <2> QED
    BY <1>8, <2>1, FlatApart
<1>11. e = f => m.segments = k.segments
  <2> SUFFICES ASSUME e = f PROVE m.segments = k.segments
    OBVIOUS
  <2>1. \A i \in 1..n : a(i) = b(i)
    BY <1>1, <1>7, <1>8
  <2>2. Len(m.segments) = n /\ Len(k.segments) = n /\ \A i \in 1..n : m.segments[i] = k.segments[i]
    BY <2>1 DEF a, b, n
  <2> QED
    BY <1>1, <2>2, SeqEqual
<1>12. g = h => \A i \in 1..n : a(i).name = b(i).name /\ a(i).hash = b(i).hash
  BY <1>1, <1>7, <1>8
<1> QED
  BY <1>8, <1>9, <1>10, <1>11, <1>12 DEF Joint, e, f, g, h, a, b, n

LEMMA FlatTyped == \A seqs \in Seq(Texts) : Manifests!FlattenSeq(seqs) \in Texts
<1> SUFFICES ASSUME NEW seqs \in Seq(Texts) PROVE Manifests!FlattenSeq(seqs) \in Texts
  OBVIOUS
<1>1. PICK j : FlatUpTo(seqs, j)
  BY FlatteningGoesOn
<1>2. Len(seqs) \in 0..Len(seqs)
  OBVIOUS
<1> QED
  BY <1>1, <1>2 DEF FlatUpTo

\* The parts that both encodings begin with.
LEMMA StringsApart ==
  ASSUME NEW a \in Texts, NEW b \in Texts, NEW c \in Texts, NEW d \in Texts,
         NEW x \in Texts, NEW y \in Texts,
         Joint(Manifests!Str(a), Joint(Manifests!Str(b), x))
           = Joint(Manifests!Str(c), Joint(Manifests!Str(d), y))
  PROVE  a = c /\ b = d /\ x = y
<1>1. /\ Joint(Manifests!Str(b), x) \in Texts
      /\ Joint(Manifests!Str(d), y) \in Texts
  BY JointFacts
<1>2. a = c /\ Joint(Manifests!Str(b), x) = Joint(Manifests!Str(d), y)
  BY <1>1, StrApart
<1> QED
  BY <1>2, StrApart

LEMMA HeadsApart ==
  ASSUME NEW m \in ManifestRecords, NEW k \in ManifestRecords, NEW x \in Texts, NEW y \in Texts,
         Joint(Manifests!Str(m.version), Joint(Manifests!Str(m.build), Joint(<<Len(m.segments)>>, x)))
           = Joint(Manifests!Str(k.version), Joint(Manifests!Str(k.build), Joint(<<Len(k.segments)>>, y)))
  PROVE  m.version = k.version /\ m.build = k.build /\ Len(m.segments) = Len(k.segments) /\ x = y
<1> DEFINE p == <<Len(m.segments)>>
           q == <<Len(k.segments)>>
           u == Joint(p, x)
           v == Joint(q, y)
<1>1. /\ m.version \in Texts /\ m.build \in Texts /\ Len(m.segments) \in Nat
      /\ k.version \in Texts /\ k.build \in Texts /\ Len(k.segments) \in Nat
  BY StringIsText DEF ManifestRecords
<1>2. p \in Texts /\ q \in Texts /\ Len(p) = Len(q) /\ (p = q => Len(m.segments) = Len(k.segments))
  BY <1>1 DEF Texts
<1> HIDE DEF p, q
<1>3. u \in Texts /\ v \in Texts
  BY <1>2, JointFacts
<1>4. Joint(Manifests!Str(m.version), Joint(Manifests!Str(m.build), u))
        = Joint(Manifests!Str(k.version), Joint(Manifests!Str(k.build), v))
  BY DEF p, q
<1> HIDE DEF u, v
<1>5. m.version = k.version /\ m.build = k.build /\ u = v
  <2> DEFINE a == m.version
             b == m.build
             c == k.version
             d == k.build
  <2>1. /\ a \in Texts /\ b \in Texts /\ c \in Texts /\ d \in Texts
        /\ Joint(Manifests!Str(a), Joint(Manifests!Str(b), u))
             = Joint(Manifests!Str(c), Joint(Manifests!Str(d), v))
    BY <1>1, <1>4
  <2> HIDE DEF a, b, c, d
  <2>2. a = c /\ b = d /\ u = v
    BY <1>3, <2>1, StringsApart, SMTT(30)
  <2> QED
    BY <2>2 DEF a, b, c, d
<1>6. p = q /\ x = y
  BY <1>2, <1>5, JointFacts DEF u, v
<1> QED
  BY <1>2, <1>5, <1>6

LEMMA BootJoint ==
  ASSUME NEW m \in ManifestRecords
  PROVE  /\ Manifests!FlattenSeq(SegmentCodes(m)) \in Texts
         /\ <<Len(m.capabilities)>> \in Texts /\ m.capabilities \in Texts
         /\ Manifests!BootCanonical(m)
              = Joint(Manifests!Str(m.version), Joint(Manifests!Str(m.build), Joint(<<Len(m.segments)>>,
                  Joint(Manifests!FlattenSeq(SegmentCodes(m)), Joint(<<Len(m.capabilities)>>, m.capabilities)))))
<1> DEFINE a == Manifests!Str(m.version)
           b == Manifests!Str(m.build)
           c == <<Len(m.segments)>>
           d == Manifests!FlattenSeq(SegmentCodes(m))
           e == <<Len(m.capabilities)>>
           f == m.capabilities
<1>1. /\ m.version \in Strings /\ m.build \in Strings /\ f \in Strings
      /\ Len(m.segments) \in Nat /\ Len(f) \in Nat
  BY DEF ManifestRecords, Strings
<1>2. a \in Texts /\ b \in Texts /\ f \in Texts
  BY <1>1, StringIsText
<1>3. c \in Texts /\ e \in Texts
  BY <1>1 DEF Texts
<1>4. d \in Texts
  BY CodesApart, FlatTyped
<1>5. Manifests!BootCanonical(m) = Joint(Joint(Joint(Joint(Joint(a, b), c), d), e), f)
  BY DEF Manifests!BootCanonical, SegmentCodes, Joint
<1> HIDE DEF a, b, c, d, e, f
<1>6. Joint(Joint(Joint(Joint(Joint(a, b), c), d), e), f)
        = Joint(a, Joint(b, Joint(c, Joint(d, Joint(e, f)))))
  <2>1. /\ Joint(a, b) \in Texts /\ Joint(Joint(a, b), c) \in Texts
        /\ Joint(Joint(Joint(a, b), c), d) \in Texts
        /\ Joint(e, f) \in Texts /\ Joint(d, Joint(e, f)) \in Texts
    BY <1>2, <1>3, <1>4, JointFacts
  <2>2. Joint(Joint(Joint(Joint(Joint(a, b), c), d), e), f)
          = Joint(Joint(Joint(Joint(a, b), c), d), Joint(e, f))
    BY <1>2, <1>3, <2>1, JointFacts
  <2>3. Joint(Joint(Joint(Joint(a, b), c), d), Joint(e, f))
          = Joint(Joint(Joint(a, b), c), Joint(d, Joint(e, f)))
    BY <1>4, <2>1, JointFacts
  <2>4. Joint(Joint(Joint(a, b), c), Joint(d, Joint(e, f)))
          = Joint(Joint(a, b), Joint(c, Joint(d, Joint(e, f))))
    BY <1>3, <2>1, JointFacts
  <2>5. Joint(c, Joint(d, Joint(e, f))) \in Texts
    BY <1>3, <2>1, JointFacts
  <2> QED
    BY <1>2, <2>2, <2>3, <2>4, <2>5, JointFacts
<1> QED
  BY <1>2, <1>3, <1>4, <1>5, <1>6 DEF a, b, c, d, e, f

LEMMA BootTyped ==
  ASSUME NEW m \in ManifestRecords PROVE Manifests!BootCanonical(m) \in Texts
<1> DEFINE a == Manifests!Str(m.version)
           b == Manifests!Str(m.build)
           c == <<Len(m.segments)>>
           d == Manifests!FlattenSeq(SegmentCodes(m))
           e == <<Len(m.capabilities)>>
           f == m.capabilities
<1>1. /\ m.version \in Strings /\ m.build \in Strings /\ Len(m.segments) \in Nat
  BY DEF ManifestRecords, Strings
<1>2. a \in Texts /\ b \in Texts
  BY <1>1, StringIsText
<1>3. c \in Texts
  BY <1>1 DEF Texts
<1>4. /\ d \in Texts /\ e \in Texts /\ f \in Texts
      /\ Manifests!BootCanonical(m) = Joint(a, Joint(b, Joint(c, Joint(d, Joint(e, f)))))
  BY BootJoint
<1> HIDE DEF a, b, c, d, e, f
<1>5. Joint(d, Joint(e, f)) \in Texts
  BY <1>4, JointFacts
<1>6. Joint(b, Joint(c, Joint(d, Joint(e, f)))) \in Texts
  BY <1>2, <1>3, <1>5, JointFacts
<1> QED
  BY <1>2, <1>4, <1>6, JointFacts

LEMMA BootApart ==
  ASSUME NEW m \in ManifestRecords, NEW k \in ManifestRecords,
         Manifests!BootCanonical(m) = Manifests!BootCanonical(k)
  PROVE  m = k
<1> DEFINE x == Joint(<<Len(m.capabilities)>>, m.capabilities)
           y == Joint(<<Len(k.capabilities)>>, k.capabilities)
           u == Joint(Manifests!FlattenSeq(SegmentCodes(m)), x)
           v == Joint(Manifests!FlattenSeq(SegmentCodes(k)), y)
<1>1. x \in Texts /\ y \in Texts
  BY BootJoint, JointFacts
<1>2. /\ Manifests!FlattenSeq(SegmentCodes(m)) \in Texts
      /\ Manifests!FlattenSeq(SegmentCodes(k)) \in Texts
  BY BootJoint
<1>3. Joint(Manifests!Str(m.version), Joint(Manifests!Str(m.build), Joint(<<Len(m.segments)>>, u)))
        = Joint(Manifests!Str(k.version), Joint(Manifests!Str(k.build), Joint(<<Len(k.segments)>>, v)))
  BY BootJoint
<1> HIDE DEF x, y
<1>4. u \in Texts /\ v \in Texts
  BY <1>1, <1>2, JointFacts
<1> HIDE DEF u, v
<1>5. m.version = k.version /\ m.build = k.build /\ Len(m.segments) = Len(k.segments) /\ u = v
  BY <1>3, <1>4, HeadsApart
<1>6. m.segments = k.segments /\ x = y
  <2>1. Joint(Manifests!FlattenSeq(SegmentCodes(m)), x) = Joint(Manifests!FlattenSeq(SegmentCodes(k)), y)
    BY <1>5 DEF u, v
  <2> QED
    BY <1>1, <1>5, <2>1, CodesApart
<1>7. m.capabilities = k.capabilities
  <2> DEFINE p == <<Len(m.capabilities)>>
             q == <<Len(k.capabilities)>>
             r == m.capabilities
             s == k.capabilities
  <2>1. /\ p \in Texts /\ q \in Texts /\ Len(p) = Len(q)
        /\ r \in Texts /\ s \in Texts
    BY BootJoint
  <2> HIDE DEF p, q, r, s
  <2>2. Joint(p, r) = Joint(q, s)
    BY <1>6 DEF x, y, p, q, r, s
  <2>3. r = s
    BY <2>1, <2>2, JointFacts
  <2> QED
    BY <2>3 DEF r, s
<1> QED
  BY <1>5, <1>6, <1>7 DEF ManifestRecords

LEMMA PackageJoint ==
  ASSUME NEW m \in ManifestRecords
  PROVE  /\ Manifests!FlattenSeq(EntryCodes(m)) \in Texts
         /\ Manifests!PackageCanonical(m)
              = Joint(Manifests!Str(m.version), Joint(Manifests!Str(m.build), Joint(<<Len(m.segments)>>,
                  Manifests!FlattenSeq(EntryCodes(m)))))
<1> DEFINE a == Manifests!Str(m.version)
           b == Manifests!Str(m.build)
           c == <<Len(m.segments)>>
           d == Manifests!FlattenSeq(EntryCodes(m))
<1>1. m.version \in Strings /\ m.build \in Strings /\ Len(m.segments) \in Nat
  BY DEF ManifestRecords, Strings
<1>2. a \in Texts /\ b \in Texts
  BY <1>1, StringIsText
<1>3. c \in Texts
  BY <1>1 DEF Texts
<1>4. d \in Texts
  BY CodesApart, FlatTyped
<1>5. Manifests!PackageCanonical(m) = Joint(Joint(Joint(a, b), c), d)
  BY DEF Manifests!PackageCanonical, EntryCodes, Joint
<1> HIDE DEF a, b, c, d
<1>6. Joint(Joint(Joint(a, b), c), d) = Joint(a, Joint(b, Joint(c, d)))
  <2>1. Joint(a, b) \in Texts /\ Joint(c, d) \in Texts
    BY <1>2, <1>3, <1>4, JointFacts
  <2>2. Joint(Joint(Joint(a, b), c), d) = Joint(Joint(a, b), Joint(c, d))
    BY <1>3, <1>4, <2>1, JointFacts
  <2> QED
    BY <1>2, <2>1, <2>2, JointFacts
<1> QED
  BY <1>4, <1>5, <1>6 DEF a, b, c, d

LEMMA PackageApart ==
  ASSUME NEW m \in ManifestRecords, NEW k \in ManifestRecords,
         Manifests!PackageCanonical(m) = Manifests!PackageCanonical(k)
  PROVE  Manifests!AsPackage(m) = Manifests!AsPackage(k)
<1> DEFINE u == Manifests!FlattenSeq(EntryCodes(m))
           v == Manifests!FlattenSeq(EntryCodes(k))
<1>1. u \in Texts /\ v \in Texts
  BY PackageJoint
<1>2. Joint(Manifests!Str(m.version), Joint(Manifests!Str(m.build), Joint(<<Len(m.segments)>>, u)))
        = Joint(Manifests!Str(k.version), Joint(Manifests!Str(k.build), Joint(<<Len(k.segments)>>, v)))
  BY PackageJoint
<1> HIDE DEF u, v
<1>3. m.version = k.version /\ m.build = k.build /\ Len(m.segments) = Len(k.segments) /\ u = v
  BY <1>1, <1>2, HeadsApart
<1> DEFINE none == << >>
<1>4. none \in Texts
  BY DEF Texts
<1> HIDE DEF none
<1>5. Joint(Manifests!FlattenSeq(EntryCodes(m)), none)
        = Joint(Manifests!FlattenSeq(EntryCodes(k)), none)
  BY <1>3 DEF u, v
<1>6. \A i \in 1..Len(m.segments) : /\ m.segments[i].name = k.segments[i].name
                                   /\ m.segments[i].hash = k.segments[i].hash
  BY <1>3, <1>4, <1>5, CodesApart
<1>7. DOMAIN m.segments = 1..Len(m.segments) /\ DOMAIN k.segments = 1..Len(m.segments)
  BY <1>3 DEF ManifestRecords
<1>8. [i \in DOMAIN m.segments |-> <<m.segments[i].name, m.segments[i].hash>>]
        = [i \in DOMAIN k.segments |-> <<k.segments[i].name, k.segments[i].hash>>]
  BY <1>6, <1>7
<1> QED
  BY <1>3, <1>8 DEF Manifests!AsPackage

-----------------------------------------------------------------------------
\* The text that is read back.
LEMMA WordEnds ==
  ASSUME NEW val \in Texts, NEW p \in Nat \ {0}, NEW k \in p..Len(val), val[k] = Manifests!Space,
         \A i \in p..(k - 1) : val[i] # Manifests!Space
  PROVE  Manifests!WordEnd(val, p) = k
<1> DEFINE I == {i \in p..Len(val) : val[i] = Manifests!Space}
<1>1. Len(val) \in Nat
  BY DEF Texts
<1>2. k \in I /\ \A i \in I : k <= i
  BY <1>1
<1>3. Manifests!Min(I) = k
  <2>1. \A i \in I : i \in Nat
    BY <1>1
  <2> HIDE DEF I
  <2>2. Manifests!Min(I) = CHOOSE x \in I : \A y \in I : x =< y
    BY DEF Manifests!Min
  <2>3. \E x \in I : \A y \in I : x =< y
    BY <1>2
  <2> DEFINE l == CHOOSE x \in I : \A y \in I : x =< y
  <2>4. l \in I /\ \A y \in I : l =< y
    BY <2>3
  <2> HIDE DEF l
  <2>5. l =< k /\ k <= l /\ l \in Nat /\ k \in Nat
    BY <1>2, <2>1, <2>4
  <2>6. l = k
    BY <2>5
  <2> QED
    BY <2>2, <2>6 DEF l
<1>4. Manifests!WordEnd(val, p) = IF I # {} THEN (IF Manifests!Min(I) = 0 THEN Len(val) + 1 ELSE Manifests!Min(I))
                                  ELSE Len(val) + 1
  BY DEF Manifests!WordEnd, Manifests!SelectInSubSeq
<1> HIDE DEF I
<1> QED
  BY <1>2, <1>3, <1>4

\* The words of a segment's line.
LEMMA WordsAre ==
  ASSUME NEW s \in Segments
  PROVE  /\ Manifests!Words(s) \in Texts /\ Len(s.name) \in Nat
         /\ Len(Manifests!Words(s)) = Len(s.name) + 4
         /\ Manifests!Words(s)[1] = s.kind /\ Manifests!Words(s)[2] = Manifests!Space
         /\ \A i \in 1..Len(s.name) : Manifests!Words(s)[2 + i] = s.name[i]
         /\ Manifests!Words(s)[Len(s.name) + 3] = Manifests!Space
         /\ Manifests!Words(s)[Len(s.name) + 4] = s.hash
<1> DEFINE n == Len(s.name)
           h == << s.kind, Manifests!Space >>
           b == s.name
           t == << Manifests!Space, s.hash >>
<1>1. s.kind \in Nat /\ s.hash \in Nat /\ b \in Texts /\ n \in Nat /\ Len(b) = n
  <2>1. s.name \in Strings /\ s.kind \in Kinds /\ s.hash \in Digests
    BY DEF Segments
  <2>2. \A x \in Strings : x \in Texts
    BY SeqMonotonic, ManifestsAssumption DEF Strings, Texts
  <2>3. s.kind \in Nat /\ s.hash \in Nat
    BY <2>1, ManifestsAssumption
  <2>4. s.name \in Texts
    BY <2>1, <2>2
  <2> QED
    BY <2>3, <2>4 DEF Texts
<1>2. /\ h \in Texts /\ Len(h) = 2 /\ h[1] = s.kind /\ h[2] = Manifests!Space
      /\ t \in Texts /\ Len(t) = 2 /\ t[1] = Manifests!Space /\ t[2] = s.hash
  BY <1>1 DEF Texts, Manifests!Space
<1>3. Manifests!Words(s) = (h \o b) \o t
  BY DEF Manifests!Words
<1> HIDE DEF h, b, t, n
<1>4. PICK c : c = h \o b
  OBVIOUS
<1>5. /\ c \in Texts /\ Len(c) = n + 2
      /\ \A i \in 1..(n + 2) : c[i] = IF i <= 2 THEN h[i] ELSE b[i - 2]
  <2>1. /\ h \o b \in Texts /\ Len(h \o b) = Len(h) + Len(b)
        /\ \A i \in 1..(Len(h) + Len(b)) : (h \o b)[i] = IF i <= Len(h) THEN h[i] ELSE b[i - Len(h)]
    BY <1>1, <1>2, ConcatProperties DEF Texts
  <2>2. Len(h) + Len(b) = n + 2
    BY <1>1, <1>2
  <2> QED
    BY <1>2, <1>4, <2>1, <2>2
<1>6. PICK w : w = c \o t
  OBVIOUS
<1>7. /\ w \in Texts /\ Len(w) = n + 4
      /\ \A i \in 1..(n + 4) : w[i] = IF i <= n + 2 THEN c[i] ELSE t[i - (n + 2)]
  <2>1. /\ c \o t \in Texts /\ Len(c \o t) = Len(c) + Len(t)
        /\ \A i \in 1..(Len(c) + Len(t)) : (c \o t)[i] = IF i <= Len(c) THEN c[i] ELSE t[i - Len(c)]
    BY <1>2, <1>5, ConcatProperties DEF Texts
  <2>2. Len(c) + Len(t) = n + 4
    BY <1>1, <1>2, <1>5
  <2> QED
    BY <1>5, <1>6, <2>1, <2>2
<1>8. w[1] = s.kind /\ w[2] = Manifests!Space
  BY <1>1, <1>2, <1>5, <1>7
<1>9. \A i \in 1..n : w[2 + i] = b[i]
  BY <1>1, <1>5, <1>7
<1>10. w[n + 3] = Manifests!Space /\ w[n + 4] = s.hash
  <2>1. n + 3 - (n + 2) = 1 /\ n + 4 - (n + 2) = 2
    BY <1>1
  <2> QED
    BY <1>1, <1>2, <1>7, <2>1
<1>11. Manifests!Words(s) = w
  BY <1>3, <1>4, <1>6
<1> QED
  BY <1>1, <1>7, <1>8, <1>9, <1>10, <1>11 DEF b, n

LEMMA SegmentReadBack ==
  ASSUME NEW s \in Segments, Manifests!Space \notin Manifests!Range(s.name)
  PROVE  Manifests!ParseSegment(Manifests!Words(s)) = s
<1> DEFINE w == Manifests!Words(s)
           n == Len(s.name)
<1>1. /\ w \in Texts /\ n \in Nat /\ Len(w) = n + 4
      /\ w[1] = s.kind /\ w[2] = Manifests!Space
      /\ \A i \in 1..n : w[2 + i] = s.name[i]
      /\ w[n + 3] = Manifests!Space /\ w[n + 4] = s.hash
  BY WordsAre
<1>2. /\ s.name \in Seq(Nat) /\ s.kind # Manifests!Space
      /\ s = [kind |-> s.kind, name |-> s.name, hash |-> s.hash]
  <2>1. s.name \in Seq(Characters) /\ s.kind \in Kinds
    BY DEF Segments, Strings
  <2>2. s.name \in Seq(Nat)
    BY <2>1, SeqMonotonic, ManifestsAssumption
  <2>3. s = [kind |-> s.kind, name |-> s.name, hash |-> s.hash]
    BY DEF Segments
  <2> QED
    BY <2>1, <2>2, <2>3, ManifestsAssumption
<1>3. \A i \in 1..n : s.name[i] # Manifests!Space
  BY <1>2 DEF Manifests!Range
<1> HIDE DEF w, n
<1>4. Manifests!WordEnd(w, 1) = 2
  <2>1. 2 \in 1..Len(w) /\ \A i \in 1..(2 - 1) : w[i] # Manifests!Space
    BY <1>1, <1>2
  <2> QED
    BY <1>1, <2>1, WordEnds
<1>5. Manifests!WordEnd(w, 3) = n + 3
  <2>1. ASSUME NEW i \in 3..(n + 3 - 1) PROVE w[i] # Manifests!Space
    <3>1. i - 2 \in 1..n /\ 2 + (i - 2) = i
      BY <1>1
    <3> QED
      BY <1>1, <1>3, <3>1
  <2>2. n + 3 \in 3..Len(w)
    BY <1>1
  <2> QED
    BY <1>1, <2>1, <2>2, WordEnds
<1>6. SubSeq(w, 3, n + 2) = s.name
  <2> DEFINE u == SubSeq(w, 3, n + 2)
  <2>1. u \in Seq(Nat) /\ Len(u) = n /\ \A i \in 1..n : u[i] = w[2 + i]
    <3>1. w \in Seq(Nat)
      BY <1>1 DEF Texts
    <3>2. 3 \in 1..Len(w) + 1 /\ n + 2 \in 3 - 1..Len(w) /\ n + 2 - 3 + 1 = n
      BY <1>1
    <3>3. \A i \in 1..n : 3 + i - 1 = 2 + i
      BY <1>1
    <3> QED
      BY <1>1, <3>1, <3>2, <3>3, SubSeqProperties
  <2> DEFINE b == s.name
  <2>2. b \in Seq(Nat) /\ Len(b) = n
    BY <1>2 DEF n
  <2>3. \A i \in 1..n : u[i] = b[i]
    BY <1>1, <2>1
  <2> HIDE DEF u, b
  <2>4. u = b
    BY <1>1, <2>1, <2>2, <2>3, SeqEqual
  <2> QED
    BY <2>4 DEF u, b
<1>7. Manifests!ParseSegment(w) = [kind |-> w[1], name |-> SubSeq(w, 3, n + 2), hash |-> w[n + 4]]
  <2>3. PICK p : p = Manifests!WordEnd(w, 1) + 1
    OBVIOUS
  <2>4. PICK q : q = Manifests!WordEnd(w, p)
    OBVIOUS
  <2>5. PICK x, y : x = q - 1 /\ y = q + 1
    OBVIOUS
  <2>6. Manifests!ParseSegment(w) = [kind |-> w[1], name |-> SubSeq(w, p, x), hash |-> w[y]]
    BY <2>3, <2>4, <2>5, Zenon DEF Manifests!ParseSegment
  <2>7. p = 3
    BY <1>4, <2>3
  <2>8. x = n + 2 /\ y = n + 4
    <3>1. q = n + 3
      BY <1>5, <2>4, <2>7, Zenon
    <3> QED
      BY <1>1, <2>5, <3>1
  <2> QED
    BY <2>6, <2>7, <2>8, Zenon
<1> QED
  BY <1>1, <1>2, <1>6, <1>7 DEF w

-----------------------------------------------------------------------------
Keys == {"version", "build", "segment", "cap"}
Lines == [key : Keys, val : Texts]

LEMMA LineTyped == \A k \in Keys, x \in Texts : [key |-> k, val |-> x] \in Lines
  BY DEF Lines

WordsOf(m) == [i \in DOMAIN m.segments |-> [key |-> "segment", val |-> Manifests!Words(m.segments[i])]]
CapsOf(m) == [i \in DOMAIN m.capabilities |-> [key |-> "cap", val |-> <<m.capabilities[i]>>]]

\* The lines of the text of a manifest.
LinesOf(m, text, l, c) ==
  /\ l = Len(m.segments) /\ c = Len(m.capabilities)
  /\ Len(text) = 2 + l + c
  /\ text[1] = [key |-> "version", val |-> m.version]
  /\ text[2] = [key |-> "build", val |-> m.build]
  /\ \A i \in 1..l : text[2 + i] = [key |-> "segment", val |-> Manifests!Words(m.segments[i])]
  /\ \A i \in 1..c : text[2 + l + i].key = "cap"

LEMMA TextIs ==
  ASSUME NEW m \in ManifestRecords
  PROVE  \E l, c \in Nat : LinesOf(m, Manifests!ToText(m), l, c)
<1> DEFINE n == Len(m.segments)
           c == Len(m.capabilities)
           v == [key |-> "version", val |-> m.version]
           b == [key |-> "build", val |-> m.build]
           h == << v, b >>
           x == WordsOf(m)
           y == CapsOf(m)
<1>1. /\ m.version \in Strings /\ m.build \in Strings
      /\ m.segments \in Seq(Segments) /\ m.capabilities \in Strings
  BY DEF ManifestRecords
<1>2. n \in Nat /\ c \in Nat /\ DOMAIN m.segments = 1..n /\ DOMAIN m.capabilities = 1..c
  BY <1>1 DEF Strings
<1>3. \A s \in Strings : s \in Texts
  BY SeqMonotonic, ManifestsAssumption DEF Strings, Texts
<1>4. v \in Lines /\ b \in Lines
  <2>1. m.version \in Texts /\ m.build \in Texts
    BY <1>1, <1>3
  <2>2. "version" \in Keys /\ "build" \in Keys
    BY DEF Keys
  <2> QED
    BY <2>1, <2>2, LineTyped
<1>5. x \in Seq(Lines) /\ Len(x) = n
      /\ \A i \in 1..n : x[i] = [key |-> "segment", val |-> Manifests!Words(m.segments[i])]
  <2>1. ASSUME NEW i \in 1..n
        PROVE  [key |-> "segment", val |-> Manifests!Words(m.segments[i])] \in Lines
    <3>1. m.segments[i] \in Segments
      BY <1>1, <1>2
    <3>2. Manifests!Words(m.segments[i]) \in Texts
      BY <3>1, WordsAre
    <3> QED
      BY <3>2, LineTyped DEF Keys
  <2>2. x = [i \in 1..n |-> [key |-> "segment", val |-> Manifests!Words(m.segments[i])]]
    BY <1>2 DEF WordsOf
  <2> HIDE DEF x, n
  <2>3. \A i \in 1..n : x[i] = [key |-> "segment", val |-> Manifests!Words(m.segments[i])]
    BY <2>2
  <2>4. x \in [1..n -> Lines]
    BY <2>1, <2>2
  <2> QED
    BY <1>2, <2>3, <2>4
<1>6. y \in Seq(Lines) /\ Len(y) = c /\ \A i \in 1..c : y[i].key = "cap"
  <2>1. ASSUME NEW i \in 1..c PROVE [key |-> "cap", val |-> <<m.capabilities[i]>>] \in Lines
    <3>1. m.capabilities[i] \in Nat
      <4>1. m.capabilities \in Seq(Characters)
        BY <1>1 DEF Strings
      <4>2. m.capabilities[i] \in Characters
        BY <4>1, ElementOfSeq
      <4> QED
        BY <4>2, ManifestsAssumption
    <3>2. <<m.capabilities[i]>> \in Texts
      BY <3>1 DEF Texts
    <3> QED
      BY <3>2, LineTyped DEF Keys
  <2>2. y = [i \in 1..c |-> [key |-> "cap", val |-> <<m.capabilities[i]>>]]
    BY <1>2 DEF CapsOf
  <2> HIDE DEF y, c
  <2>3. \A i \in 1..c : y[i] = [key |-> "cap", val |-> <<m.capabilities[i]>>]
    BY <2>2
  <2>4. y \in [1..c -> Lines]
    BY <2>1, <2>2
  <2> QED
    BY <1>2, <2>3, <2>4
<1> HIDE DEF v, b, x, y, n, c
<1>7. h \in Seq(Lines) /\ Len(h) = 2 /\ h[1] = v /\ h[2] = b
  BY <1>4
<1>8. Manifests!ToText(m) = (h \o x) \o y
  BY DEF Manifests!ToText, v, b, x, y, WordsOf, CapsOf
<1> HIDE DEF h
<1>9. PICK f : f = h \o x
  OBVIOUS
<1>10. /\ f \in Seq(Lines) /\ Len(f) = 2 + n
       /\ \A i \in 1..(2 + n) : f[i] = IF i <= 2 THEN h[i] ELSE x[i - 2]
  <2>1. /\ h \o x \in Seq(Lines) /\ Len(h \o x) = Len(h) + Len(x)
        /\ \A i \in 1..(Len(h) + Len(x)) : (h \o x)[i] = IF i <= Len(h) THEN h[i] ELSE x[i - Len(h)]
    BY <1>5, <1>7, ConcatProperties
  <2>2. Len(h) = 2 /\ Len(x) = n
    BY <1>5, <1>7
  <2> QED
    BY <1>9, <2>1, <2>2
<1>11. PICK g : g = f \o y
  OBVIOUS
<1>12. /\ g \in Seq(Lines) /\ Len(g) = 2 + n + c
       /\ \A i \in 1..(2 + n + c) : g[i] = IF i <= 2 + n THEN f[i] ELSE y[i - (2 + n)]
  <2>1. /\ f \o y \in Seq(Lines) /\ Len(f \o y) = Len(f) + Len(y)
        /\ \A i \in 1..(Len(f) + Len(y)) : (f \o y)[i] = IF i <= Len(f) THEN f[i] ELSE y[i - Len(f)]
    BY <1>6, <1>10, ConcatProperties
  <2>2. Len(f) = 2 + n /\ Len(y) = c
    BY <1>6, <1>10
  <2> QED
    BY <1>11, <2>1, <2>2
<1>13. g[1] = v /\ g[2] = b
  BY <1>2, <1>7, <1>10, <1>12
<1>14. \A i \in 1..n : g[2 + i] = x[i]
  <2> TAKE i \in 1..n
  <2>1. 2 + i \in 1..(2 + n) /\ 2 + i \in 1..(2 + n + c) /\ 2 + i <= 2 + n /\ ~(2 + i <= 2) /\ 2 + i - 2 = i
    BY <1>2
  <2> QED
    BY <1>10, <1>12, <2>1
<1>15. \A i \in 1..c : g[2 + n + i] = y[i]
  <2> TAKE i \in 1..c
  <2>1. PICK k : k = 2 + n + i
    OBVIOUS
  <2>2. k \in 1..(2 + n + c) /\ ~(k <= 2 + n) /\ k - (2 + n) = i
    BY <1>2, <2>1
  <2>3. g[k] = y[i]
    BY <1>12, <2>2
  <2> QED
    BY <2>1, <2>3, Zenon
<1>16. Manifests!ToText(m) = g
  BY <1>8, <1>9, <1>11
<1>17. LinesOf(m, g, n, c)
  BY <1>5, <1>6, <1>12, <1>13, <1>14, <1>15 DEF LinesOf, v, b, n, c
<1> QED
  BY <1>2, <1>16, <1>17


-----------------------------------------------------------------------------
\* What parse_text does with a line, and the manifests it has after each.
ReadLine(line, m) ==
  CASE line.key = "version" -> [m EXCEPT !.version = Manifests!Stripped(line.val)]
    [] line.key = "build" -> [m EXCEPT !.build = Manifests!Stripped(line.val)]
    [] line.key = "segment" -> [m EXCEPT !.segments = Append(@, Manifests!ParseSegment(line.val))]
    [] OTHER -> m

ReadTurns(text, t) ==
  [n \in 0..Len(text) |-> IF n = 0 THEN Manifests!Blank ELSE ReadLine(text[n], t[n - 1])]

Reading(text) == CHOOSE t : t = ReadTurns(text, t)

SegmentsUpTo(m, n) ==
  IF n <= 2 THEN << >>
  ELSE IF n <= 2 + Len(m.segments) THEN SubSeq(m.segments, 1, n - 2)
  ELSE m.segments

UpToLine(m, n) ==
  [version |-> IF n >= 1 THEN m.version ELSE << >>, build |-> IF n >= 2 THEN m.build ELSE << >>,
   segments |-> SegmentsUpTo(m, n), capabilities |-> << >>]

LEMMA SegmentsGoOn ==
  ASSUME NEW m \in ManifestRecords, NEW i \in 1..Len(m.segments)
  PROVE  Append(SegmentsUpTo(m, 1 + i), m.segments[i]) = SegmentsUpTo(m, 2 + i)
<1> DEFINE s == m.segments
<1>1. s \in Seq(Segments) /\ Len(s) \in Nat
  BY DEF ManifestRecords
<1>2. SegmentsUpTo(m, 2 + i) = SubSeq(s, 1, i)
  <2>1. ~(2 + i <= 2) /\ 2 + i <= 2 + Len(s) /\ 2 + i - 2 = i
    BY <1>1
  <2> QED
    BY <2>1 DEF SegmentsUpTo
<1>3. SegmentsUpTo(m, 1 + i) = SubSeq(s, 1, i - 1)
  <2>1. CASE i = 1
    <3>1. SubSeq(s, 1, 1 - 1) = << >>
      BY SubSeqEmpty
    <3> QED
      BY <2>1, <3>1 DEF SegmentsUpTo
  <2>2. CASE i # 1
    <3>1. ~(1 + i <= 2) /\ 1 + i <= 2 + Len(s) /\ 1 + i - 2 = i - 1
      BY <1>1, <2>2
    <3> QED
      BY <3>1 DEF SegmentsUpTo
  <2> QED
    BY <2>1, <2>2
<1> HIDE DEF s
<1>4. i \in 1..Len(s)
  BY DEF s
<1>5. SubSeq(s, 1, i) = SubSeq(s, 1, i - 1) \o << s[i] >>
  <2>1. 1 \in 1..Len(s)
    BY <1>1, <1>4
  <2> QED
    BY <1>1, <1>4, <2>1, SubSeqRecursiveSecond
<1>6. SubSeq(s, 1, i - 1) \in Seq(Segments) /\ s[i] \in Segments
  <2>1. \A k \in 1..(i - 1) : s[k] \in Segments
    BY <1>1, <1>4
  <2>2. i - 1 \in Int
    BY <1>4
  <2> QED
    BY <1>1, <1>4, <2>1, <2>2, SubSeqProperties
<1>7. Append(SubSeq(s, 1, i - 1), s[i]) = SubSeq(s, 1, i - 1) \o << s[i] >>
  BY <1>6, AppendIsConcat
<1> QED
  BY <1>2, <1>3, <1>5, <1>7 DEF s

LEMMA SegmentsStay ==
  ASSUME NEW m \in ManifestRecords, NEW n \in Nat, n > 2 + Len(m.segments)
  PROVE  SegmentsUpTo(m, n - 1) = m.segments /\ SegmentsUpTo(m, n) = m.segments
<1>1. m.segments \in Seq(Segments) /\ Len(m.segments) \in Nat
  BY DEF ManifestRecords
<1>2. SegmentsUpTo(m, n) = m.segments
  BY <1>1 DEF SegmentsUpTo
<1>3. CASE n - 1 > 2 + Len(m.segments)
  BY <1>1, <1>2, <1>3 DEF SegmentsUpTo
<1>4. CASE n - 1 = 2 + Len(m.segments) /\ Len(m.segments) = 0
  <2>1. m.segments = << >>
    BY <1>1, <1>4
  <2> QED
    BY <1>2, <1>4, <2>1 DEF SegmentsUpTo
<1>5. CASE n - 1 = 2 + Len(m.segments) /\ Len(m.segments) # 0
  <2>1. SegmentsUpTo(m, n - 1) = SubSeq(m.segments, 1, Len(m.segments))
    BY <1>1, <1>5 DEF SegmentsUpTo
  <2> QED
    BY <1>1, <1>2, <2>1, SubSeqFull
<1> QED
  BY <1>1, <1>3, <1>4, <1>5

Readable(m) == Manifests!Spaceless(m) /\ Manifests!Trimmed(m)

LEMMA ReadsOn ==
  ASSUME NEW m \in ManifestRecords, Readable(m),
         NEW n \in 1..Len(Manifests!ToText(m))
  PROVE  ReadLine(Manifests!ToText(m)[n], UpToLine(m, n - 1)) = UpToLine(m, n)
<1> DEFINE text == Manifests!ToText(m)
           line == text[n]
<1>0. PICK l \in Nat, c \in Nat : LinesOf(m, text, l, c)
  BY TextIs
<1>1. n \in Nat /\ n >= 1 /\ n <= 2 + l + c
  <2>1. Len(text) = 2 + l + c
    BY <1>0 DEF LinesOf
  <2>2. n \in 1..Len(text)
    OBVIOUS
  <2> HIDE DEF text
  <2> QED
    BY <2>1, <2>2
<1> HIDE DEF text
<1>2. m.version = Manifests!Stripped(m.version) /\ m.build = Manifests!Stripped(m.build)
  BY DEF Readable, Manifests!Trimmed
<1>3. CASE n = 1
  <2>1. line.key = "version" /\ line.val = m.version
    <3>1. text[1] = [key |-> "version", val |-> m.version]
      BY <1>0, Zenon DEF LinesOf
    <3>2. line = [key |-> "version", val |-> m.version]
      BY <1>3, <3>1, Zenon
    <3> HIDE DEF line
    <3> QED
      BY <3>2
  <2> HIDE DEF line, text
  <2>2. ReadLine(line, UpToLine(m, 0)) = [UpToLine(m, 0) EXCEPT !.version = m.version]
    BY <1>2, <2>1 DEF ReadLine
  <2>3. SegmentsUpTo(m, 0) = << >> /\ SegmentsUpTo(m, 1) = << >>
    BY DEF SegmentsUpTo
  <2>4. [UpToLine(m, 0) EXCEPT !.version = m.version] = UpToLine(m, 1)
    BY <2>3 DEF UpToLine
  <2> QED
    BY <1>3, <2>2, <2>4 DEF line, text
<1>4. CASE n = 2
  <2>1. line.key = "build" /\ line.val = m.build
    <3>1. text[2] = [key |-> "build", val |-> m.build]
      BY <1>0, Zenon DEF LinesOf
    <3>2. line = [key |-> "build", val |-> m.build]
      BY <1>4, <3>1, Zenon
    <3> HIDE DEF line
    <3> QED
      BY <3>2
  <2> HIDE DEF line, text
  <2>2. ReadLine(line, UpToLine(m, 1)) = [UpToLine(m, 1) EXCEPT !.build = m.build]
    BY <1>2, <2>1 DEF ReadLine
  <2>3. SegmentsUpTo(m, 1) = << >> /\ SegmentsUpTo(m, 2) = << >>
    BY DEF SegmentsUpTo
  <2>4. [UpToLine(m, 1) EXCEPT !.build = m.build] = UpToLine(m, 2)
    BY <2>3 DEF UpToLine
  <2> QED
    BY <1>4, <2>2, <2>4 DEF line, text
<1>5. CASE n > 2 /\ n <= 2 + l
  <2>1. PICK i \in 1..l : n = 2 + i /\ n - 1 = 1 + i
    <3>1. n - 2 \in 1..l /\ n = 2 + (n - 2) /\ n - 1 = 1 + (n - 2)
      BY <1>1, <1>5
    <3> QED
      BY <3>1
  <2>2. line.key = "segment" /\ line.val = Manifests!Words(m.segments[i])
    <3>1. text[2 + i] = [key |-> "segment", val |-> Manifests!Words(m.segments[i])]
      BY <1>0, Zenon DEF LinesOf
    <3>2. line = [key |-> "segment", val |-> Manifests!Words(m.segments[i])]
      BY <2>1, <3>1, Zenon
    <3> HIDE DEF line
    <3> QED
      BY <3>2
  <2>3. Manifests!ParseSegment(Manifests!Words(m.segments[i])) = m.segments[i]
    <3>1. m.segments[i] \in Segments /\ m.segments[i] \in Manifests!Range(m.segments)
      <4>1. l = Len(m.segments) /\ m.segments \in Seq(Segments)
        BY <1>0 DEF LinesOf, ManifestRecords
      <4> QED
        BY <4>1 DEF Manifests!Range
    <3>2. Manifests!Space \notin Manifests!Range(m.segments[i].name)
      BY <3>1 DEF Readable, Manifests!Spaceless
    <3> QED
      BY <3>1, <3>2, SegmentReadBack
  <2> HIDE DEF line, text
  <2>4. ReadLine(line, UpToLine(m, n - 1))
          = [UpToLine(m, n - 1) EXCEPT !.segments = Append(@, m.segments[i])]
    BY <2>2, <2>3 DEF ReadLine
  <2>5. Append(SegmentsUpTo(m, n - 1), m.segments[i]) = SegmentsUpTo(m, n)
    <3>1. i \in 1..Len(m.segments)
      BY <1>0 DEF LinesOf
    <3> QED
      BY <2>1, <3>1, SegmentsGoOn
  <2>6. n - 1 >= 1 /\ n - 1 >= 2 /\ n >= 1 /\ n >= 2
    BY <1>1, <1>5
  <2>7. UpToLine(m, n - 1) = [version |-> m.version, build |-> m.build,
                              segments |-> SegmentsUpTo(m, n - 1), capabilities |-> << >>]
    BY <2>6 DEF UpToLine
  <2>8. UpToLine(m, n) = [version |-> m.version, build |-> m.build,
                          segments |-> SegmentsUpTo(m, n), capabilities |-> << >>]
    BY <2>6 DEF UpToLine
  <2> QED
    <3>1. [UpToLine(m, n - 1) EXCEPT !.segments = Append(@, m.segments[i])]
            = [version |-> m.version, build |-> m.build,
               segments |-> Append(SegmentsUpTo(m, n - 1), m.segments[i]), capabilities |-> << >>]
      <4> DEFINE u == UpToLine(m, n - 1)
                 v == Append(SegmentsUpTo(m, n - 1), m.segments[i])
                 w == SegmentsUpTo(m, n - 1)
                 none == << >>
      <4>1. u = [version |-> m.version, build |-> m.build, segments |-> w, capabilities |-> none]
        BY <2>7
      <4>2. v = Append(u.segments, m.segments[i])
        BY <4>1
      <4> HIDE DEF u, v, w, none
      <4>3. [u EXCEPT !.segments = v]
              = [version |-> m.version, build |-> m.build, segments |-> v, capabilities |-> none]
        BY <4>1
      <4> QED
        BY <4>2, <4>3 DEF u, v, none
    <3>2. ReadLine(line, UpToLine(m, n - 1)) = UpToLine(m, n)
      BY <2>4, <2>5, <2>8, <3>1, Zenon
    <3> QED
      BY <3>2 DEF line, text
<1>6. CASE n > 2 + l
  <2>1. PICK i \in 1..c : n = 2 + l + i
    <3>1. n - (2 + l) \in 1..c /\ n = 2 + l + (n - (2 + l))
      BY <1>1, <1>6
    <3> QED
      BY <3>1
  <2>2. line.key = "cap"
    BY <1>0, <2>1 DEF LinesOf
  <2> HIDE DEF line, text
  <2>3. ReadLine(line, UpToLine(m, n - 1)) = UpToLine(m, n - 1)
    BY <2>2 DEF ReadLine
  <2>4. SegmentsUpTo(m, n - 1) = SegmentsUpTo(m, n)
    <3>1. n > 2 + Len(m.segments)
      BY <1>0, <1>6 DEF LinesOf
    <3> QED
      BY <1>1, <3>1, SegmentsStay
  <2>5. n - 1 >= 1 /\ n - 1 >= 2 /\ n >= 1 /\ n >= 2
    BY <1>1, <1>6
  <2>6. UpToLine(m, n - 1) = UpToLine(m, n)
    BY <2>4, <2>5 DEF UpToLine
  <2> QED
    BY <2>3, <2>6 DEF line, text
<1> QED
  BY <1>1, <1>3, <1>4, <1>5, <1>6

\* The text of a manifest is read back, but for its capabilities.
LEMMA TextReadBack ==
  ASSUME NEW m \in ManifestRecords, Readable(m)
  PROVE  Manifests!ParseText(Manifests!ToText(m)) =
           [out |-> [m EXCEPT !.capabilities = << >>], ok |-> m.version # << >>]
<1> DEFINE text == Manifests!ToText(m)
           n == Len(text)
           e == [k \in 0..n |-> UpToLine(m, k)]
           t == Reading(text)
<1>0. PICK l \in Nat, c \in Nat : LinesOf(m, text, l, c)
  BY TextIs
<1>1. n = 2 + l + c /\ l = Len(m.segments) /\ n \in Nat
  <2>1. n = 2 + l + c /\ l = Len(m.segments)
    BY <1>0, Zenon DEF LinesOf
  <2>2. 2 + l + c \in Nat
    OBVIOUS
  <2> QED
    BY <2>1, <2>2, Zenon
<1>2. UpToLine(m, 0) = Manifests!Blank
  BY DEF UpToLine, SegmentsUpTo, Manifests!Blank
<1>3. \A k \in 1..n : ReadLine(text[k], UpToLine(m, k - 1)) = UpToLine(m, k)
  BY ReadsOn
<1>4. Manifests!ParseText(text) = [out |-> t[n], ok |-> t[n].version # << >>]
  BY DEF Manifests!ParseText, Reading, ReadTurns, ReadLine
<1> HIDE DEF n, text
<1>5. UpToLine(m, n) = [m EXCEPT !.capabilities = << >>]
  <2>1. n \in Nat /\ n >= 1 /\ n >= 2
    BY <1>1
  <2>2. SegmentsUpTo(m, n) = m.segments
    <3>1. CASE c > 0
      <4>1. n > 2 + Len(m.segments)
        BY <1>1, <3>1
      <4> QED
        BY <2>1, <4>1, SegmentsStay
    <3>2. CASE c = 0
      <4>1. PICK p \in Nat : p = n + 1
        BY <2>1
      <4>2. p > 2 + Len(m.segments) /\ p - 1 = n
        BY <1>1, <3>2, <4>1
      <4>3. SegmentsUpTo(m, p - 1) = m.segments
        BY <4>2, SegmentsStay
      <4> QED
        BY <4>2, <4>3, Zenon
    <3> QED
      BY <3>1, <3>2
  <2> QED
    BY <2>1, <2>2 DEF UpToLine, ManifestRecords
<1>6. e = ReadTurns(text, e)
  <2>1. ASSUME NEW k \in 0..n
        PROVE  e[k] = IF k = 0 THEN Manifests!Blank ELSE ReadLine(text[k], e[k - 1])
    <3>1. CASE k = 0
      BY <1>2, <3>1
    <3>2. CASE k # 0
      <4>1. k \in 1..n /\ k - 1 \in 0..n
        BY <1>1, <3>2
      <4>2. e[k] = UpToLine(m, k) /\ e[k - 1] = UpToLine(m, k - 1)
        BY <4>1
      <4> HIDE DEF e
      <4> QED
        BY <1>3, <3>2, <4>1, <4>2
    <3> QED
      BY <3>1, <3>2
  <2>2. e = [k \in 0..n |-> e[k]]
    OBVIOUS
  <2> HIDE DEF e
  <2>3. ReadTurns(text, e) = [k \in 0..n |-> IF k = 0 THEN Manifests!Blank ELSE ReadLine(text[k], e[k - 1])]
    BY DEF ReadTurns, n
  <2> QED
    BY <2>1, <2>2, <2>3
<1>7. t = ReadTurns(text, t)
  BY <1>6 DEF Reading
<1> HIDE DEF t, e
<1>8. \A k \in 0..n : t[k] = IF k = 0 THEN Manifests!Blank ELSE ReadLine(text[k], t[k - 1])
  <2> TAKE k \in 0..n
  <2>1. ReadTurns(text, t)[k] = IF k = 0 THEN Manifests!Blank ELSE ReadLine(text[k], t[k - 1])
    BY DEF ReadTurns, n
  <2> QED
    BY <1>7, <2>1
<1> DEFINE T == {k \in 0..n : t[k] = UpToLine(m, k)}
<1>9. 0 \in T
  BY <1>1, <1>2, <1>8
<1>10. ASSUME NEW k \in 1..n, k - 1 \in T PROVE k \in T
  <2>1. t[k - 1] = UpToLine(m, k - 1) /\ k \in 0..n /\ k # 0
    BY <1>1, <1>10
  <2>2. t[k] = ReadLine(text[k], t[k - 1])
    BY <1>8, <2>1
  <2>3. t[k] = UpToLine(m, k)
    BY <1>3, <2>1, <2>2
  <2> QED
    BY <2>1, <2>3
<1> HIDE DEF T
<1>11. \A k \in 0..n : k \in T
  BY <1>1, <1>9, <1>10, UpTo
<1>12. n \in T
  BY <1>1, <1>11
<1>13. t[n] = [m EXCEPT !.capabilities = << >>]
  BY <1>5, <1>12 DEF T
<1>14. t[n].version = m.version
  BY <1>13 DEF ManifestRecords
<1> QED
  BY <1>4, <1>13, <1>14 DEF text

-----------------------------------------------------------------------------
(* The invariant.                                                          *)

ManifestsIInv == first \in ManifestRecords /\ second \in ManifestRecords

LEMMA EditedTyped ==
  ASSUME NEW m \in ManifestRecords, NEW e \in Manifests!Edited(m)
  PROVE  e \in ManifestRecords
<1>1. /\ m = [version |-> m.version, build |-> m.build, segments |-> m.segments,
              capabilities |-> m.capabilities]
      /\ m.version \in Strings /\ m.build \in Strings
      /\ m.segments \in Seq(Segments) /\ m.capabilities \in Strings
  BY DEF ManifestRecords
<1>2. \A x \in Strings, c \in Characters : Append(x, c) \in Strings
  BY DEF Strings
<1>3. ASSUME NEW c \in Characters, e = [m EXCEPT !.version = Append(@, c)]
      PROVE  e \in ManifestRecords
  BY <1>1, <1>2, <1>3 DEF ManifestRecords
<1>4. ASSUME NEW c \in Characters, e = [m EXCEPT !.build = Append(@, c)]
      PROVE  e \in ManifestRecords
  BY <1>1, <1>2, <1>4 DEF ManifestRecords
<1>5. ASSUME NEW k \in Kinds, NEW h \in Digests,
             e = [m EXCEPT !.segments = Append(@, [kind |-> k, name |-> << >>, hash |-> h])]
      PROVE  e \in ManifestRecords
  <2> DEFINE s == [kind |-> k, name |-> << >>, hash |-> h]
  <2>1. s \in Segments
    BY DEF Segments, Strings
  <2> HIDE DEF s
  <2>2. Append(m.segments, s) \in Seq(Segments)
    BY <1>1, <2>1
  <2> QED
    BY <1>1, <1>5, <2>2 DEF ManifestRecords, s
<1>6. ASSUME NEW c \in Characters, m.segments # << >>,
             e = [m EXCEPT !.segments[Len(m.segments)].name = Append(@, c)]
      PROVE  e \in ManifestRecords
  <2> DEFINE s == m.segments
             l == Len(s)
             f == [s EXCEPT ![l] = [s[l] EXCEPT !.name = Append(@, c)]]
  <2>1. l \in 1..Len(s) /\ s \in Seq(Segments)
    BY <1>1, <1>6
  <2>2. [s[l] EXCEPT !.name = Append(@, c)] \in Segments
    <3>1. s[l] \in Segments
      BY <2>1
    <3> HIDE DEF s, l
    <3> QED
      BY <1>2, <3>1 DEF Segments
  <2>3. f \in Seq(Segments)
    <3> HIDE DEF s, l
    <3> QED
      BY <2>1, <2>2
  <2>4. e = [m EXCEPT !.segments = f]
    BY <1>1, <1>6
  <2> HIDE DEF f
  <2> QED
    BY <1>1, <2>3, <2>4 DEF ManifestRecords
<1>7. ASSUME NEW c \in Characters, e = [m EXCEPT !.capabilities = Append(@, c)]
      PROVE  e \in ManifestRecords
  BY <1>1, <1>2, <1>7 DEF ManifestRecords
<1>8. \/ \E c \in Characters : e = [m EXCEPT !.version = Append(@, c)]
      \/ \E c \in Characters : e = [m EXCEPT !.build = Append(@, c)]
      \/ \E k \in Kinds, h \in Digests :
           e = [m EXCEPT !.segments = Append(@, [kind |-> k, name |-> << >>, hash |-> h])]
      \/ m.segments # << >> /\ \E c \in Characters :
           e = [m EXCEPT !.segments[Len(m.segments)].name = Append(@, c)]
      \/ \E c \in Characters : e = [m EXCEPT !.capabilities = Append(@, c)]
  <2> DEFINE A == {[m EXCEPT !.version = Append(@, c)] : c \in Characters}
             B == {[m EXCEPT !.build = Append(@, c)] : c \in Characters}
             C == {[m EXCEPT !.segments = Append(@, [kind |-> k, name |-> << >>, hash |-> h])] :
                     k \in Kinds, h \in Digests}
             D == {[m EXCEPT !.segments[Len(m.segments)].name = Append(@, c)] :
                     c \in IF m.segments = << >> THEN {} ELSE Characters}
             F == {[m EXCEPT !.capabilities = Append(@, c)] : c \in Characters}
  <2>1. e \in A \/ e \in B \/ e \in C \/ e \in D \/ e \in F
    <3>1. Manifests!Edited(m) = A \cup B \cup C \cup D \cup F
      BY DEF Manifests!Edited
    <3> HIDE DEF A, B, C, D, F
    <3> QED
      BY <3>1
  <2>2. e \in A => \E c \in Characters : e = [m EXCEPT !.version = Append(@, c)]
    OBVIOUS
  <2>3. e \in B => \E c \in Characters : e = [m EXCEPT !.build = Append(@, c)]
    OBVIOUS
  <2>4. e \in C => \E k \in Kinds, h \in Digests :
                     e = [m EXCEPT !.segments = Append(@, [kind |-> k, name |-> << >>, hash |-> h])]
    OBVIOUS
  <2>5. e \in D => m.segments # << >> /\ \E c \in Characters :
                     e = [m EXCEPT !.segments[Len(m.segments)].name = Append(@, c)]
    <3> SUFFICES ASSUME e \in D
                 PROVE  m.segments # << >> /\ \E c \in Characters :
                          e = [m EXCEPT !.segments[Len(m.segments)].name = Append(@, c)]
      OBVIOUS
    <3>1. PICK c \in IF m.segments = << >> THEN {} ELSE Characters :
                 e = [m EXCEPT !.segments[Len(m.segments)].name = Append(@, c)]
      OBVIOUS
    <3>2. m.segments # << >> /\ c \in Characters
      OBVIOUS
    <3> QED
      BY <3>1, <3>2, Zenon
  <2>6. e \in F => \E c \in Characters : e = [m EXCEPT !.capabilities = Append(@, c)]
    OBVIOUS
  <2> HIDE DEF A, B, C, D, F
  <2> QED
    BY <2>1, <2>2, <2>3, <2>4, <2>5, <2>6, Zenon
<1> QED
  BY <1>3, <1>4, <1>5, <1>6, <1>7, <1>8

LEMMA ManifestsInit == Manifests!Init => ManifestsIInv
<1>1. Manifests!Blank \in ManifestRecords
  <2>1. << >> \in Seq(Characters) /\ << >> \in Seq(Segments)
    OBVIOUS
  <2> QED
    BY <2>1 DEF Manifests!Blank, ManifestRecords, Strings
<1> QED
  BY <1>1 DEF Manifests!Init, ManifestsIInv

LEMMA ManifestsKept == ManifestsIInv /\ [Manifests!Next]_manifests => ManifestsIInv'
<1> SUFFICES ASSUME ManifestsIInv, [Manifests!Next]_manifests PROVE ManifestsIInv'
  OBVIOUS
<1>1. first \in ManifestRecords /\ second \in ManifestRecords
  BY DEF ManifestsIInv
<1>2. CASE Manifests!EditFirst
  <2>1. first' \in Manifests!Edited(first) /\ second' = second
    BY <1>2 DEF Manifests!EditFirst
  <2> QED
    BY <1>1, <2>1, EditedTyped DEF ManifestsIInv
<1>3. CASE Manifests!EditSecond
  <2>1. second' \in Manifests!Edited(second) /\ first' = first
    BY <1>3 DEF Manifests!EditSecond
  <2> QED
    BY <1>1, <2>1, EditedTyped DEF ManifestsIInv
<1>4. CASE UNCHANGED manifests
  BY <1>1, <1>4 DEF manifests, ManifestsIInv
<1> QED
  BY <1>2, <1>3, <1>4 DEF Manifests!Next

LEMMA SignedApart ==
  ASSUME NEW m \in ManifestRecords, NEW k \in ManifestRecords,
         Manifests!Verify(k, Manifests!Sign(m, 0), 0)
  PROVE  k = m
<1> DEFINE r == <<0>>
           x == Manifests!BootCanonical(m)
           y == Manifests!BootCanonical(k)
<1>1. r \in Texts
  BY DEF Texts
<1>2. x \in Texts /\ y \in Texts
  BY BootTyped
<1>3. Joint(r, x) = Joint(r, y)
  BY DEF Manifests!Verify, Manifests!Sign, Joint
<1> HIDE DEF r, x, y
<1>4. x = y
  <2>1. r \o x = r \o y
    BY <1>3 DEF Joint
  <2> QED
    BY <1>1, <1>2, <2>1, SplitAlike
<1> QED
  BY <1>4, BootApart DEF x, y

LEMMA ManifestsRight == ManifestsIInv => Manifests!EncodedApart
<1> SUFFICES ASSUME ManifestsIInv PROVE Manifests!EncodedApart
  OBVIOUS
<1>1. first \in ManifestRecords /\ second \in ManifestRecords
  BY DEF ManifestsIInv
<1>2. Manifests!Verify(second, Manifests!Sign(first, 0), 0) => second = first
  BY <1>1, SignedApart
<1>3. Manifests!PackageCanonical(first) = Manifests!PackageCanonical(second)
        => Manifests!AsPackage(first) = Manifests!AsPackage(second)
  BY <1>1, PackageApart
<1>4. Manifests!Spaceless(first) /\ Manifests!Trimmed(first)
        => Manifests!ParseText(Manifests!ToText(first)) =
             [out |-> [first EXCEPT !.capabilities = << >>], ok |-> first.version # << >>]
  BY <1>1, TextReadBack DEF Readable
<1> QED
  BY <1>2, <1>3, <1>4 DEF Manifests!EncodedApart

-----------------------------------------------------------------------------
(* The permutation and the sponge, whose invariants are not about each     *)
(* other, and the manifests.                                               *)

KeccakIInv == lanes \in Lanes /\ fips = lanes /\ round \in 0..24

PackagesIInv == KeccakIInv /\ SpongeIInv /\ ManifestsIInv

LEMMA KeccakInit == Keccak!Init => KeccakIInv
<1> SUFFICES ASSUME Keccak!Init PROVE KeccakIInv
  OBVIOUS
<1>1. PICK B \in Starts : lanes = [i \in 0..24 |-> {b \in Keccak!Bits : <<i, b>> \in B}]
  BY DEF Keccak!Init
<1>2. lanes \in Lanes
  <2>1. \A i \in 0..24 : {b \in Keccak!Bits : <<i, b>> \in B} \in SUBSET Keccak!Bits
    OBVIOUS
  <2> QED
    BY <1>1, <2>1 DEF Lanes
<1> QED
  BY <1>2 DEF Keccak!Init, KeccakIInv

LEMMA KeccakKept == KeccakIInv /\ [Keccak!Next]_keccak => KeccakIInv'
<1> SUFFICES ASSUME KeccakIInv, [Keccak!Next]_keccak PROVE KeccakIInv'
  OBVIOUS
<1>1. lanes \in Lanes /\ fips = lanes /\ round \in 0..24
  BY DEF KeccakIInv
<1>2. CASE Keccak!Permute
  <2>1. /\ round < 24 /\ round' = round + 1
        /\ lanes' = Keccak!Round(lanes, round + 1)
        /\ fips' = Keccak!StandardRound(fips, round + 1)
    BY <1>2 DEF Keccak!Permute
  <2>2. round + 1 \in 1..24
    BY <1>1, <2>1
  <2>3. /\ Keccak!Round(lanes, round + 1) \in Lanes
        /\ Keccak!Round(lanes, round + 1) = Keccak!StandardRound(lanes, round + 1)
    BY <1>1, <2>2, RoundIsStandard
  <2>4. round' \in 0..24
    BY <2>1, <2>2
  <2>5. lanes' \in Lanes /\ fips' = lanes'
    BY <1>1, <2>1, <2>3, Zenon
  <2> QED
    BY <2>4, <2>5 DEF KeccakIInv
<1>3. CASE UNCHANGED keccak
  BY <1>1, <1>3 DEF keccak, KeccakIInv
<1> QED
  BY <1>2, <1>3 DEF Keccak!Next

LEMMA PackagesInvariant == PackagesSpec => []PackagesIInv
<1>1. PackagesInit => PackagesIInv
  BY KeccakInit, SpongeInit, ManifestsInit DEF PackagesInit, PackagesIInv
<1>2. [PackagesNext]_packages
        => [Keccak!Next]_keccak /\ [Sponge!Next]_sponge /\ [Manifests!Next]_manifests
  BY DEF PackagesNext, KeccakStep, SpongeStep, ManifestsStep, packages
<1>3. PackagesIInv /\ [PackagesNext]_packages => PackagesIInv'
  BY <1>2, KeccakKept, SpongeKept, ManifestsKept DEF PackagesIInv
<1> QED
  BY <1>1, <1>3, PTL DEF PackagesSpec

\* However a message is cut into pieces, and however little a squeeze asks for at a time,
\* the digest is that of the message in one piece; and after each round of keccak_f1600
\* the lanes are those of FIPS 202, from any lanes to begin with.
THEOREM PiecesDigestAlike == PackagesSpec => []DigestsAgree
<1>1. PackagesIInv => DigestsAgree
  BY SpongeRight DEF PackagesIInv, KeccakIInv, DigestsAgree, Keccak!PermutesAsFips202
<1> QED
  BY <1>1, PackagesInvariant, PTL

\* Two manifests are signed or hashed alike only if they are one, whatever their names
\* contain, so that a signature is good for no other manifest; and a manifest's text is
\* read back as it was, but for the capabilities, if no name has a space in it.
THEOREM EncodingsTellApart == PackagesSpec => []EncodedApart
<1>1. PackagesIInv => EncodedApart
  BY ManifestsRight DEF PackagesIInv, EncodedApart
<1> QED
  BY <1>1, PackagesInvariant, PTL
=============================================================================

---------------------------- MODULE CapOps_proofs ----------------------------
(***************************************************************************)
(* Theorems about CapOps for any spaces, rights, moduli and bounds.        *)
(***************************************************************************)
EXTENDS CapOps, Lemmas

Shape ==
  /\ space = [s \in Spaces |-> space[s]]
  /\ \A s \in Spaces : Bound(s) \subseteq Handle
  /\ nextHandle \in [Spaces -> 0..(HandleModulus - 1)]
  /\ epoch \in [Spaces -> 0..(EpochModulus - 1)]
  /\ \E k \in 0..MaxMints : Mints = 1..k
  /\ \A n \in Mints : minted[n] \in [rights : SUBSET Rights, home : Spaces, at : Nat]
  /\ copies = [n \in Mints |-> copies[n]]
  /\ inserts \in [Spaces -> Nat] /\ revokes \in [Spaces -> Nat]

\* The capabilities a mint may have become: no more rights than it was given, and
\* the epoch its space had then.
Sound ==
  {c \in Capability :
     /\ c.origin \in Mints
     /\ c.rights \subseteq minted[c.origin].rights
     /\ \E q \in Int : minted[c.origin].at = c.epoch + q * EpochModulus}

CapsOK == \A s \in Spaces : \A h \in Bound(s) : space[s][h] \in Sound

\* The epoch of a space counts its revocations, modulo EpochModulus.
EpochsOK == \A s \in Spaces : \E q \in Int : revokes[s] = epoch[s] + q * EpochModulus

-----------------------------------------------------------------------------
(* Handles.                                                                *)

\* mint_handle finds a handle that is not in use.
LEMMA FreshIsFree ==
  ASSUME Shape, NEW s \in Spaces, Attempts(s) # {}
  PROVE  /\ FreshHandle(s) \in Handle \ Bound(s)
         /\ (FreshHandle(s) + 1) % HandleModulus \in 0..(HandleModulus - 1)
<1>1. Attempts(s) \subseteq Nat
  BY CapOpsAssumption DEF Attempts
<1>2. Min(Attempts(s)) \in Attempts(s)
  BY <1>1, LeastNatural DEF Min
<1>3. FreshHandle(s) \in Handle \ Bound(s)
  BY <1>2 DEF FreshHandle, Attempts
<1>4. FreshHandle(s) \in Nat /\ HandleModulus \in Nat \ {0}
  BY <1>3, CapOpsAssumption DEF Handle
<1> HIDE DEF FreshHandle
<1>5. (FreshHandle(s) + 1) % HandleModulus \in 0..(HandleModulus - 1)
  BY <1>4
<1> QED BY <1>3, <1>5

-----------------------------------------------------------------------------
(* What the steps do.                                                      *)

\* A capability is bound to a free handle of d, and src loses the handles lost.
Placed(d, g, cap, src, lost) ==
  /\ g \in Handle \ Bound(d)
  /\ space' = [s \in Spaces |-> space'[s]]
  /\ \A s \in Spaces : \A h :
       h \in DOMAIN space'[s] <=> (h \in Bound(s) \/ (s = d /\ h = g)) /\ ~(s = src /\ h \in lost)
  /\ \A s \in Spaces : \A h \in DOMAIN space'[s] :
       space'[s][h] = IF s = d /\ h = g THEN cap ELSE space[s][h]

\* What insert leaves of a space's own counters.
Counted ==
  /\ nextHandle' \in [Spaces -> 0..(HandleModulus - 1)]
  /\ inserts' \in [Spaces -> Nat]

LEMMA InsertCounts == ASSUME Shape, NEW s \in Spaces, Insert(s) PROVE Counted
<1>1. (FreshHandle(s) + 1) % HandleModulus \in 0..(HandleModulus - 1)
  BY FreshIsFree DEF Insert
<1> QED BY <1>1 DEF Insert, Shape, Counted

LEMMA InsertPlaces ==
  ASSUME Shape, NEW d \in Spaces, Insert(d), NEW cap,
         space' = [space EXCEPT ![d] = Bind(d, FreshHandle(d), cap)]
  PROVE  \E g : Placed(d, g, cap, d, {})
<1>1. PICK g : g = FreshHandle(d) /\ g \in Handle \ Bound(d)
  BY FreshIsFree DEF Insert
<1>2. PICK f : f = [h \in Bound(d) \cup {g} |-> IF h = g THEN cap ELSE space[d][h]]
  OBVIOUS
<1>3. space' = [space EXCEPT ![d] = f]
  BY <1>1, <1>2 DEF Bind
<1>4. /\ space' = [s \in Spaces |-> space'[s]]
      /\ space'[d] = f /\ \A s \in Spaces : s # d => space'[s] = space[s]
  BY <1>3 DEF Shape
<1>5. /\ DOMAIN f = Bound(d) \cup {g}
      /\ \A h \in Bound(d) \cup {g} : f[h] = IF h = g THEN cap ELSE space[d][h]
  BY <1>2
<1>6. \A s \in Spaces : \A h : h \in DOMAIN space'[s] <=> h \in Bound(s) \/ (s = d /\ h = g)
  <2>1. \A h : h \in DOMAIN space'[d] <=> h \in Bound(d) \/ h = g
    BY <1>4, <1>5
  <2>2. \A s \in Spaces : s # d => DOMAIN space'[s] = Bound(s)
    BY <1>4 DEF Bound
  <2> QED BY <2>1, <2>2
<1>7. \A s \in Spaces : \A h \in DOMAIN space'[s] :
        space'[s][h] = IF s = d /\ h = g THEN cap ELSE space[s][h]
  <2>1. \A h \in DOMAIN space'[d] : space'[d][h] = IF h = g THEN cap ELSE space[d][h]
    BY <1>4, <1>5
  <2> QED BY <1>4, <2>1
<1>8. Placed(d, g, cap, d, {})
  BY <1>1, <1>4, <1>6, <1>7 DEF Placed
<1> QED BY <1>8

LEMMA MovePlaces ==
  ASSUME Shape, NEW src \in Spaces, NEW d \in Spaces, Insert(d), NEW cap,
         NEW h \in Bound(src), NEW granted,
         granted = [space EXCEPT ![d] = Bind(d, FreshHandle(d), cap)],
         space' = [granted EXCEPT ![src] = Unbind(@, h)]
  PROVE  \E g : Placed(d, g, cap, src, {h})
<1>1. PICK g : g = FreshHandle(d) /\ g \in Handle \ Bound(d)
  BY FreshIsFree DEF Insert
<1>2. PICK f : f = [k \in Bound(d) \cup {g} |-> IF k = g THEN cap ELSE space[d][k]]
  OBVIOUS
<1>3. granted = [space EXCEPT ![d] = f]
  BY <1>1, <1>2 DEF Bind
<1>4. /\ granted = [s \in Spaces |-> granted[s]]
      /\ granted[d] = f /\ \A s \in Spaces : s # d => granted[s] = space[s]
  BY <1>3 DEF Shape
<1>5. /\ DOMAIN f = Bound(d) \cup {g}
      /\ \A k \in Bound(d) \cup {g} : f[k] = IF k = g THEN cap ELSE space[d][k]
  BY <1>2
<1>6. PICK e : e = [k \in DOMAIN granted[src] \ {h} |-> granted[src][k]]
  OBVIOUS
<1>7. space' = [granted EXCEPT ![src] = e]
  BY <1>6 DEF Unbind
<1>8. /\ space' = [s \in Spaces |-> space'[s]]
      /\ space'[src] = e /\ \A s \in Spaces : s # src => space'[s] = granted[s]
  BY <1>4, <1>7
<1>9. /\ DOMAIN e = DOMAIN granted[src] \ {h}
      /\ \A k \in DOMAIN granted[src] \ {h} : e[k] = granted[src][k]
  BY <1>6
<1>10. \A s \in Spaces : \A k : k \in DOMAIN granted[s] <=> k \in Bound(s) \/ (s = d /\ k = g)
  <2>1. \A k : k \in DOMAIN granted[d] <=> k \in Bound(d) \/ k = g
    BY <1>4, <1>5
  <2>2. \A s \in Spaces : s # d => DOMAIN granted[s] = Bound(s)
    BY <1>4 DEF Bound
  <2> QED BY <2>1, <2>2
<1>11. \A s \in Spaces : \A k \in DOMAIN granted[s] :
         granted[s][k] = IF s = d /\ k = g THEN cap ELSE space[s][k]
  <2>1. \A k \in DOMAIN granted[d] : granted[d][k] = IF k = g THEN cap ELSE space[d][k]
    BY <1>4, <1>5
  <2> QED BY <1>4, <2>1
<1>12. \A s \in Spaces : \A k :
         k \in DOMAIN space'[s] <=> (k \in Bound(s) \/ (s = d /\ k = g)) /\ ~(s = src /\ k \in {h})
  <2>1. \A k : k \in DOMAIN space'[src] <=> k \in DOMAIN granted[src] /\ k # h
    BY <1>8, <1>9
  <2>2. \A s \in Spaces : s # src => DOMAIN space'[s] = DOMAIN granted[s]
    BY <1>8
  <2> QED BY <1>10, <2>1, <2>2
<1>13. \A s \in Spaces : \A k \in DOMAIN space'[s] :
         space'[s][k] = IF s = d /\ k = g THEN cap ELSE space[s][k]
  <2>1. \A k \in DOMAIN space'[src] : k \in DOMAIN granted[src] /\ space'[src][k] = granted[src][k]
    BY <1>8, <1>9
  <2>2. \A s \in Spaces : \A k \in DOMAIN space'[s] :
          k \in DOMAIN granted[s] /\ space'[s][k] = granted[s][k]
    BY <1>8, <2>1
  <2>3. ASSUME NEW s \in Spaces, NEW k \in DOMAIN space'[s]
        PROVE  space'[s][k] = IF s = d /\ k = g THEN cap ELSE space[s][k]
    <3>1. k \in DOMAIN granted[s] /\ space'[s][k] = granted[s][k]
      BY <2>2
    <3>2. granted[s][k] = IF s = d /\ k = g THEN cap ELSE space[s][k]
      BY <1>11, <3>1
    <3> QED BY <3>1, <3>2
  <2> QED BY <2>3
<1>14. Placed(d, g, cap, src, {h})
  BY <1>1, <1>8, <1>12, <1>13 DEF Placed
<1> QED BY <1>14

-----------------------------------------------------------------------------
(* The kinds of steps.                                                     *)

Minted(d, r, g) ==
  LET n == Cardinality(Mints) + 1
      cap == [rights |-> r, epoch |-> epoch[d], origin |-> n]
  IN  /\ n <= MaxMints
      /\ Counted
      /\ Placed(d, g, cap, d, {})
      /\ minted' = [i \in Mints \cup {n} |-> IF i = n THEN [rights |-> r, home |-> d, at |-> revokes[d]]
                                             ELSE minted[i]]
      /\ copies' = [i \in Mints \cup {n} |-> IF i = n THEN 1 ELSE copies[i]]
      /\ UNCHANGED <<epoch, revokes>>

\* cap is what is left of h of src.
Derived(src, h, cap) ==
  LET c == space[src][h] IN
    h \in Bound(src) /\ \E r \in SUBSET Rights : cap = [c EXCEPT !.rights = r] /\ r \subseteq c.rights

Copied(src, h, cap, d, g) ==
  /\ Counted
  /\ Derived(src, h, cap)
  /\ Placed(d, g, cap, d, {})
  /\ copies' = [copies EXCEPT ![cap.origin] = @ + 1]
  /\ UNCHANGED <<epoch, minted, revokes>>

Moved(src, h, cap, d, g) ==
  /\ Counted
  /\ Derived(src, h, cap)
  /\ Placed(d, g, cap, src, {h})
  /\ UNCHANGED <<epoch, minted, copies, revokes>>

Failed ==
  /\ Counted
  /\ UNCHANGED <<space, epoch, minted, copies, revokes>>

Kinds ==
  \/ \E d \in Spaces, r \in SUBSET Rights : \E g : Minted(d, r, g)
  \/ \E src, d \in Spaces : \E h, cap, g : Copied(src, h, cap, d, g) \/ Moved(src, h, cap, d, g)
  \/ \E s \in Spaces : \E h \in Bound(s) : Erase(s, h)
  \/ \E s \in Spaces : Revoke(s)
  \/ Failed

LEMMA FailureCounts == ASSUME Shape, NEW s \in Spaces, InsertFails(s) PROVE Failed
<1>1. PICK x : x \in Nat /\ x = nextHandle[s] + HandleModulus - 1
  BY CapOpsAssumption DEF Shape
<1>2. HandleModulus \in Nat \ {0} /\ x % HandleModulus \in 0..(HandleModulus - 1)
  BY <1>1, CapOpsAssumption
<1>3. nextHandle' = [nextHandle EXCEPT ![s] = x % HandleModulus]
  BY <1>1 DEF InsertFails
<1>4. nextHandle' \in [Spaces -> 0..(HandleModulus - 1)]
  BY <1>2, <1>3 DEF Shape
<1> QED BY <1>4 DEF InsertFails, Failed, Counted, Shape

LEMMA AttenuatedIsDerived ==
  ASSUME Shape, CapsOK, NEW s \in Spaces, NEW h \in Bound(s), NEW r \in SUBSET Rights,
         NEW cap, cap = Attenuated(space[s][h], r)
  PROVE  Derived(s, h, cap)
<1>1. PICK c : c = space[s][h]
  OBVIOUS
<1>2. c \in Capability
  BY <1>1 DEF CapsOK, Sound
<1>3. c.rights \in SUBSET Rights /\ c = [c EXCEPT !.rights = c.rights]
  BY <1>2 DEF Capability
<1>4. CASE r = {}
  BY <1>1, <1>3, <1>4 DEF Attenuated, Derived
<1>5. CASE r # {}
  <2>1. cap = [c EXCEPT !.rights = c.rights \cap r]
    BY <1>1, <1>5 DEF Attenuated
  <2>2. c.rights \cap r \in SUBSET Rights /\ c.rights \cap r \subseteq c.rights
    BY <1>3
  <2> QED BY <1>1, <2>1, <2>2 DEF Derived
<1> QED BY <1>4, <1>5

LEMMA StepKinds == Shape /\ CapsOK /\ [Next]_vars => Kinds
<1> SUFFICES ASSUME Shape, CapsOK, [Next]_vars PROVE Kinds
  OBVIOUS
<1>1. ASSUME NEW s \in Spaces, InsertFails(s) PROVE Kinds
  BY <1>1, FailureCounts DEF Kinds
<1>2. CASE UNCHANGED vars
  BY <1>2 DEF vars, Kinds, Failed, Counted, Shape
<1>3. ASSUME NEW s \in Spaces, NEW r \in SUBSET Rights, Mint(s, r) PROVE Kinds
  <2>1. PICK cap : cap = [rights |-> r, epoch |-> epoch[s], origin |-> Cardinality(Mints) + 1]
    OBVIOUS
  <2>2. CASE Insert(s) /\ space' = [space EXCEPT ![s] = Bind(s, FreshHandle(s), cap)]
             /\ UNCHANGED <<epoch, revokes>>
             /\ copies' = [i \in Mints \cup {Cardinality(Mints) + 1} |->
                             IF i = Cardinality(Mints) + 1 THEN 1 ELSE copies[i]]
             /\ minted' = [i \in Mints \cup {Cardinality(Mints) + 1} |->
                             IF i = Cardinality(Mints) + 1
                             THEN [rights |-> r, home |-> s, at |-> revokes[s]] ELSE minted[i]]
    <3>1. PICK g : Placed(s, g, cap, s, {})
      BY <2>2, InsertPlaces
    <3>2. Minted(s, r, g)
      BY <1>3, <2>1, <2>2, <3>1, InsertCounts DEF Minted, Mint
    <3> QED BY <3>2 DEF Kinds
  <2> QED BY <1>1, <1>3, <2>1, <2>2 DEF Mint
<1>4. ASSUME NEW src \in Spaces, NEW d \in Spaces, NEW h \in Bound(src), NEW r \in SUBSET Rights,
             GrantCopy(src, d, h, r) \/ Duplicate(src, d, h, r)
      PROVE  Kinds
  <2>1. PICK cap : cap = Attenuated(space[src][h], r)
    OBVIOUS
  <2>2. CASE Insert(d) /\ space' = [space EXCEPT ![d] = Bind(d, FreshHandle(d), cap)]
             /\ copies' = [copies EXCEPT ![cap.origin] = @ + 1]
             /\ UNCHANGED <<epoch, minted, revokes>>
    <3>1. PICK g : Placed(d, g, cap, d, {})
      BY <2>2, InsertPlaces
    <3>2. Copied(src, h, cap, d, g)
      BY <2>1, <2>2, <3>1, InsertCounts, AttenuatedIsDerived DEF Copied
    <3> QED BY <3>2 DEF Kinds
  <2> QED BY <1>1, <1>4, <2>1, <2>2 DEF GrantCopy, Duplicate
<1>5. ASSUME NEW src \in Spaces, NEW d \in Spaces, NEW h \in Bound(src), NEW r \in SUBSET Rights,
             Move(src, d, h, r)
      PROVE  Kinds
  <2>1. PICK cap : cap = Attenuated(space[src][h], r)
    OBVIOUS
  <2>2. PICK granted : granted = [space EXCEPT ![d] = Bind(d, FreshHandle(d), cap)]
    OBVIOUS
  <2>3. CASE Insert(d) /\ space' = [granted EXCEPT ![src] = Unbind(@, h)]
             /\ UNCHANGED <<epoch, minted, copies, revokes>>
    <3>1. PICK g : Placed(d, g, cap, src, {h})
      BY <2>2, <2>3, MovePlaces
    <3>2. Moved(src, h, cap, d, g)
      BY <2>1, <2>3, <3>1, InsertCounts, AttenuatedIsDerived DEF Moved
    <3> QED BY <3>2 DEF Kinds
  <2> QED BY <1>1, <1>5, <2>1, <2>2, <2>3 DEF Move
<1> QED BY <1>2, <1>3, <1>4, <1>5 DEF Next, Kinds

-----------------------------------------------------------------------------
(* The inductive invariant.                                                *)

\* The handles, in whatever space, of what descends from a mint.
Places ==
  [n \in 1..MaxMints |->
     {place \in Spaces \X Handle :
        /\ place[2] \in Bound(place[1])
        /\ space[place[1]][place[2]].origin = n}]

CopiesOK == \A n \in Mints : IsFiniteSet(Places[n]) /\ copies[n] = Cardinality(Places[n])

IInv == Shape /\ CapsOK /\ EpochsOK /\ CopiesOK

LEMMA MintNumbers == ASSUME Shape PROVE Mints \subseteq 1..MaxMints
BY CapOpsAssumption DEF Shape

\* A new mint gets the next number.
LEMMA NextMint ==
  ASSUME Shape, NEW d \in Spaces, NEW r, NEW g, Minted(d, r, g)
  PROVE  \E n \in 1..MaxMints :
           /\ n = Cardinality(Mints) + 1 /\ n \notin Mints /\ Mints' = Mints \cup {n}
           /\ Mints' = 1..n
<1>1. PICK k \in 0..MaxMints : Mints = 1..k
  BY DEF Shape
<1>2. k \in Nat /\ MaxMints \in Nat
  BY CapOpsAssumption
<1>3. Cardinality(Mints) = k
  BY <1>1, <1>2, FS_Interval
<1>4. k + 1 \in 1..MaxMints /\ Mints \cup {k + 1} = 1..(k + 1) /\ k + 1 \notin Mints
  BY <1>1, <1>2, <1>3 DEF Minted
<1>5. Mints' = Mints \cup {k + 1}
  BY <1>3 DEF Minted, Mints
<1> QED BY <1>3, <1>4, <1>5

LEMMA SoundStays ==
  ASSUME Shape, Kinds
  PROVE  /\ Mints \subseteq Mints' /\ Sound \subseteq Sound'
         /\ \A n \in Mints : minted'[n] = minted[n]
<1>1. ASSUME NEW d \in Spaces, NEW r \in SUBSET Rights, NEW g, Minted(d, r, g)
      PROVE  Mints \subseteq Mints' /\ \A n \in Mints : minted'[n] = minted[n]
  <2>1. PICK n \in 1..MaxMints : n = Cardinality(Mints) + 1 /\ n \notin Mints /\ Mints' = Mints \cup {n}
    BY <1>1, NextMint
  <2>2. \A i \in Mints : minted'[i] = IF i = n THEN [rights |-> r, home |-> d, at |-> revokes[d]]
                                      ELSE minted[i]
    BY <1>1, <2>1 DEF Minted
  <2> QED BY <2>1, <2>2
<1>2. ASSUME minted' = minted
      PROVE  Mints \subseteq Mints' /\ \A n \in Mints : minted'[n] = minted[n]
  BY <1>2 DEF Mints
<1>3. Mints \subseteq Mints' /\ \A n \in Mints : minted'[n] = minted[n]
  BY <1>1, <1>2 DEF Kinds, Copied, Moved, Erase, Revoke, Failed
<1> QED BY <1>3 DEF Sound

LEMMA PlacedSound ==
  ASSUME Shape, CapsOK, Kinds, NEW d \in Spaces, NEW g, NEW cap, NEW src, NEW lost,
         Placed(d, g, cap, src, lost), cap \in Sound'
  PROVE  CapsOK' /\ space' = [s \in Spaces |-> space'[s]] /\ \A s \in Spaces : Bound(s)' \subseteq Handle
<1>1. \A s \in Spaces : \A h \in DOMAIN space'[s] :
        (s = d /\ h = g) \/ (h \in Bound(s) /\ space'[s][h] = space[s][h])
  BY DEF Placed
<1>2. \A s \in Spaces : \A h \in DOMAIN space'[s] : s = d /\ h = g => space'[s][h] = cap
  BY DEF Placed
<1>3. CapsOK'
  BY <1>1, <1>2, SoundStays DEF CapsOK, Bound
<1>4. g \in Handle
  BY DEF Placed
<1>5. \A s \in Spaces : Bound(s)' \subseteq Handle
  BY <1>1, <1>4 DEF Shape, Bound
<1> QED BY <1>3, <1>5 DEF Placed

LEMMA DerivedSound ==
  ASSUME Shape, CapsOK, NEW src \in Spaces, NEW h, NEW cap, Derived(src, h, cap)
  PROVE  cap \in Sound /\ h \in Bound(src) /\ cap.origin = space[src][h].origin /\ cap.origin \in Mints
<1>1. PICK c : c = space[src][h] /\ c \in Sound
  BY DEF Derived, CapsOK
<1>2. PICK r \in SUBSET Rights : cap = [c EXCEPT !.rights = r] /\ r \subseteq c.rights
  BY <1>1 DEF Derived
<1>3. c \in Capability
  BY <1>1 DEF Sound
<1>4. cap \in Capability /\ cap.rights = r /\ cap.epoch = c.epoch /\ cap.origin = c.origin
  BY <1>2, <1>3 DEF Capability
<1>5. cap \in Sound
  BY <1>1, <1>2, <1>4 DEF Sound
<1> QED BY <1>1, <1>4, <1>5 DEF Derived, Sound

LEMMA MintedSound ==
  ASSUME Shape, EpochsOK, NEW d \in Spaces, NEW r \in SUBSET Rights, NEW g, Minted(d, r, g),
         NEW cap, cap = [rights |-> r, epoch |-> epoch[d], origin |-> Cardinality(Mints) + 1]
  PROVE  cap \in Sound'
<1>1. PICK n \in 1..MaxMints : n = Cardinality(Mints) + 1 /\ n \notin Mints /\ Mints' = Mints \cup {n}
  BY NextMint
<1>2. minted'[n] = [rights |-> r, home |-> d, at |-> revokes[d]]
  BY <1>1 DEF Minted
<1>3. epoch[d] \in 0..(EpochModulus - 1)
  BY DEF Shape
<1>4. cap \in Capability /\ cap.rights = r /\ cap.epoch = epoch[d] /\ cap.origin = n
  BY <1>1, <1>3 DEF Capability
<1>5. minted'[n].rights = r /\ minted'[n].at = revokes[d]
  BY <1>2
<1>6. \E q \in Int : revokes[d] = epoch[d] + q * EpochModulus
  BY DEF EpochsOK
<1>7. \E q \in Int : minted'[n].at = cap.epoch + q * EpochModulus
  BY <1>4, <1>5, <1>6
<1> QED BY <1>1, <1>4, <1>5, <1>7 DEF Sound

LEMMA ErasedKeeps ==
  ASSUME Shape, CapsOK, NEW s \in Spaces, NEW h \in Bound(s), Erase(s, h)
  PROVE  /\ space' = [t \in Spaces |-> space'[t]]
         /\ \A t \in Spaces : \A k :
              k \in DOMAIN space'[t] <=> k \in Bound(t) /\ ~(t = s /\ k = h)
         /\ \A t \in Spaces : \A k \in DOMAIN space'[t] : space'[t][k] = space[t][k]
<1>1. PICK f : f = [k \in Bound(s) \ {h} |-> space[s][k]]
  OBVIOUS
<1>2. space' = [space EXCEPT ![s] = f]
  BY <1>1 DEF Erase, Unbind, Bound
<1>3. /\ space' = [t \in Spaces |-> space'[t]]
      /\ space'[s] = f /\ \A t \in Spaces : t # s => space'[t] = space[t]
  BY <1>2 DEF Shape
<1>4. DOMAIN f = Bound(s) \ {h} /\ \A k \in Bound(s) \ {h} : f[k] = space[s][k]
  BY <1>1
<1>5. \A t \in Spaces : \A k :
        k \in DOMAIN space'[t] <=> k \in Bound(t) /\ ~(t = s /\ k = h)
  <2>1. \A k : k \in DOMAIN space'[s] <=> k \in Bound(s) /\ k # h
    BY <1>3, <1>4
  <2>2. \A t \in Spaces : t # s => DOMAIN space'[t] = Bound(t)
    BY <1>3 DEF Bound
  <2> QED BY <2>1, <2>2
<1>6. \A t \in Spaces : \A k \in DOMAIN space'[t] : space'[t][k] = space[t][k]
  <2>1. \A k \in DOMAIN space'[s] : space'[s][k] = space[s][k]
    BY <1>3, <1>4
  <2> QED BY <1>3, <2>1
<1> QED BY <1>3, <1>5, <1>6

LEMMA NextCaps ==
  ASSUME Shape, CapsOK, EpochsOK, Kinds
  PROVE  CapsOK' /\ space' = [s \in Spaces |-> space'[s]] /\ \A s \in Spaces : Bound(s)' \subseteq Handle
<1>1. ASSUME NEW d \in Spaces, NEW r \in SUBSET Rights, NEW g, Minted(d, r, g)
      PROVE  CapsOK' /\ space' = [s \in Spaces |-> space'[s]] /\ \A s \in Spaces : Bound(s)' \subseteq Handle
  <2>1. PICK cap : cap = [rights |-> r, epoch |-> epoch[d], origin |-> Cardinality(Mints) + 1]
    OBVIOUS
  <2>2. Placed(d, g, cap, d, {})
    BY <1>1, <2>1 DEF Minted
  <2> QED BY <1>1, <2>1, <2>2, MintedSound, PlacedSound
<1>2. ASSUME NEW src \in Spaces, NEW d \in Spaces, NEW h, NEW cap, NEW g,
             Copied(src, h, cap, d, g) \/ Moved(src, h, cap, d, g)
      PROVE  CapsOK' /\ space' = [s \in Spaces |-> space'[s]] /\ \A s \in Spaces : Bound(s)' \subseteq Handle
  <2>1. cap \in Sound'
    BY <1>2, DerivedSound, SoundStays DEF Copied, Moved
  <2>2. Placed(d, g, cap, d, {}) \/ Placed(d, g, cap, src, {h})
    BY <1>2 DEF Copied, Moved
  <2> QED BY <2>1, <2>2, PlacedSound
<1>3. ASSUME NEW s \in Spaces, NEW h \in Bound(s), Erase(s, h)
      PROVE  CapsOK' /\ space' = [t \in Spaces |-> space'[t]] /\ \A t \in Spaces : Bound(t)' \subseteq Handle
  BY <1>3, ErasedKeeps, SoundStays DEF CapsOK, Bound, Shape
<1>4. CASE UNCHANGED space
  BY <1>4, SoundStays DEF CapsOK, Bound, Shape
<1> QED BY <1>1, <1>2, <1>3, <1>4 DEF Kinds, Revoke, Failed

LEMMA NextShape == ASSUME Shape, CapsOK, EpochsOK, Kinds PROVE Shape'
<1>1. nextHandle' \in [Spaces -> 0..(HandleModulus - 1)] /\ inserts' \in [Spaces -> Nat]
  BY DEF Kinds, Minted, Copied, Moved, Erase, Revoke, Failed, Counted, Shape
<1>2. epoch' \in [Spaces -> 0..(EpochModulus - 1)] /\ revokes' \in [Spaces -> Nat]
  <2>1. ASSUME NEW s \in Spaces, Revoke(s)
        PROVE  epoch' \in [Spaces -> 0..(EpochModulus - 1)] /\ revokes' \in [Spaces -> Nat]
    <3>1. epoch[s] \in Nat /\ EpochModulus \in Nat \ {0}
      BY CapOpsAssumption DEF Shape
    <3>2. (epoch[s] + 1) % EpochModulus \in 0..(EpochModulus - 1)
      BY <3>1
    <3> QED BY <2>1, <3>2 DEF Revoke, Shape
  <2>2. CASE UNCHANGED <<epoch, revokes>>
    BY <2>2 DEF Shape
  <2> QED BY <2>1, <2>2 DEF Kinds, Minted, Copied, Moved, Erase, Failed
<1>3. /\ \E k \in 0..MaxMints : Mints' = 1..k
      /\ \A n \in Mints' : minted'[n] \in [rights : SUBSET Rights, home : Spaces, at : Nat]
      /\ copies' = [n \in Mints' |-> copies'[n]]
  <2>1. ASSUME NEW d \in Spaces, NEW r \in SUBSET Rights, NEW g, Minted(d, r, g)
        PROVE  /\ \E k \in 0..MaxMints : Mints' = 1..k
               /\ \A n \in Mints' : minted'[n] \in [rights : SUBSET Rights, home : Spaces, at : Nat]
               /\ copies' = [n \in Mints' |-> copies'[n]]
    <3>1. PICK n \in 1..MaxMints : /\ n = Cardinality(Mints) + 1 /\ n \notin Mints
                                   /\ Mints' = Mints \cup {n} /\ Mints' = 1..n
      BY <2>1, NextMint
    <3>2. n \in 0..MaxMints
      BY CapOpsAssumption
    <3>3. minted'[n] = [rights |-> r, home |-> d, at |-> revokes[d]]
      BY <2>1, <3>1 DEF Minted
    <3>4. revokes[d] \in Nat
      BY DEF Shape
    <3>5. \A i \in Mints : minted'[i] = minted[i]
      BY SoundStays
    <3>6. copies' = [i \in Mints' |-> copies'[i]]
      BY <2>1, <3>1 DEF Minted
    <3>7. minted'[n] \in [rights : SUBSET Rights, home : Spaces, at : Nat]
      BY <3>3, <3>4
    <3>8. \A i \in Mints : minted'[i] \in [rights : SUBSET Rights, home : Spaces, at : Nat]
      BY <3>5 DEF Shape
    <3> QED BY <3>1, <3>2, <3>6, <3>7, <3>8
  <2>2. CASE minted' = minted /\ copies' = copies
    BY <2>2 DEF Shape, Mints
  <2>3. ASSUME minted' = minted, NEW n \in Mints, NEW x, copies' = [copies EXCEPT ![n] = x]
        PROVE  /\ \E k \in 0..MaxMints : Mints' = 1..k
               /\ \A i \in Mints' : minted'[i] \in [rights : SUBSET Rights, home : Spaces, at : Nat]
               /\ copies' = [i \in Mints' |-> copies'[i]]
    <3>1. Mints' = Mints
      BY <2>3 DEF Mints
    <3>2. copies' = [i \in Mints |-> copies'[i]]
      BY <2>3 DEF Shape
    <3> QED BY <2>3, <3>1, <3>2 DEF Shape
  <2>4. ASSUME NEW src \in Spaces, NEW d \in Spaces, NEW h, NEW cap, NEW g, Copied(src, h, cap, d, g)
        PROVE  /\ \E k \in 0..MaxMints : Mints' = 1..k
               /\ \A i \in Mints' : minted'[i] \in [rights : SUBSET Rights, home : Spaces, at : Nat]
               /\ copies' = [i \in Mints' |-> copies'[i]]
    <3>1. cap.origin \in Mints
      BY <2>4, DerivedSound DEF Copied
    <3>2. PICK x : x = copies[cap.origin] + 1
      OBVIOUS
    <3>3. minted' = minted /\ copies' = [copies EXCEPT ![cap.origin] = x]
      BY <2>4, <3>2 DEF Copied
    <3> QED BY <2>3, <3>1, <3>3
  <2>5. ASSUME NEW s \in Spaces, NEW h \in Bound(s), Erase(s, h)
        PROVE  /\ \E k \in 0..MaxMints : Mints' = 1..k
               /\ \A i \in Mints' : minted'[i] \in [rights : SUBSET Rights, home : Spaces, at : Nat]
               /\ copies' = [i \in Mints' |-> copies'[i]]
    <3>1. PICK n \in Mints : n = space[s][h].origin
      BY DEF CapsOK, Sound
    <3>2. PICK x : x = copies[n] - 1
      OBVIOUS
    <3>3. minted' = minted /\ copies' = [copies EXCEPT ![n] = x]
      BY <2>5, <3>1, <3>2 DEF Erase
    <3> QED BY <2>3, <3>3
  <2> QED BY <2>1, <2>2, <2>4, <2>5 DEF Kinds, Moved, Revoke, Failed
<1> QED BY <1>1, <1>2, <1>3, NextCaps DEF Shape, Mints, Bound

LEMMA NextEpochs == ASSUME Shape, EpochsOK, Kinds PROVE EpochsOK'
<1>1. CASE UNCHANGED <<epoch, revokes>>
  BY <1>1 DEF EpochsOK
<1>2. ASSUME NEW s \in Spaces, Revoke(s) PROVE EpochsOK'
  <2>1. PICK q \in Int : revokes[s] = epoch[s] + q * EpochModulus
    BY DEF EpochsOK
  <2>2. PICK e : e = epoch[s]
    OBVIOUS
  <2>3. e \in 0..(EpochModulus - 1) /\ EpochModulus \in Nat \ {0}
    BY <2>2, CapOpsAssumption DEF Shape
  <2>4. (e + 1) % EpochModulus = IF e + 1 = EpochModulus THEN 0 ELSE e + 1
    BY <2>3
  <2>5. revokes'[s] = revokes[s] + 1 /\ epoch'[s] = (e + 1) % EpochModulus
    BY <1>2, <2>2 DEF Revoke, Shape
  <2>6. \A t \in Spaces : t # s => revokes'[t] = revokes[t] /\ epoch'[t] = epoch[t]
    BY <1>2 DEF Revoke, Shape
  <2>7. q * EpochModulus \in Int /\ q * EpochModulus + EpochModulus = (q + 1) * EpochModulus
    BY <2>3
  <2>8. \E p \in Int : revokes'[s] = epoch'[s] + p * EpochModulus
    <3>1. CASE e + 1 = EpochModulus
      <4>1. revokes'[s] = 0 + (q + 1) * EpochModulus /\ epoch'[s] = 0
        BY <2>1, <2>2, <2>3, <2>4, <2>5, <2>7, <3>1
      <4>2. q + 1 \in Int
        OBVIOUS
      <4> QED BY <4>1, <4>2
    <3>2. CASE e + 1 # EpochModulus
      <4>1. revokes'[s] = (e + 1) + q * EpochModulus /\ epoch'[s] = e + 1
        BY <2>1, <2>2, <2>3, <2>4, <2>5, <2>7, <3>2
      <4> QED BY <4>1
    <3> QED BY <3>1, <3>2
  <2> QED BY <2>6, <2>8 DEF EpochsOK
<1> QED BY <1>1, <1>2 DEF Kinds, Minted, Copied, Moved, Erase, Failed

\* The place that is added, and the one that is taken away.
LEMMA PlacedPlaces ==
  ASSUME Shape, NEW d \in Spaces, NEW g, NEW cap, NEW src, NEW lost, ~(src = d /\ g \in lost),
         Placed(d, g, cap, src, lost), NEW n \in 1..MaxMints
  PROVE  /\ <<d, g>> \notin Places[n]
         /\ \A p : p \in Places'[n] <=> \/ p \in Places[n] /\ ~(p[1] = src /\ p[2] \in lost)
                                        \/ p = <<d, g>> /\ cap.origin = n
<1>1. <<d, g>> \notin Places[n] /\ <<d, g>> \in Spaces \X Handle
  BY DEF Placed, Places
<1>2. ASSUME NEW s \in Spaces, NEW h \in Handle
      PROVE  h \in Bound(s)' /\ space'[s][h].origin = n
             <=> \/ h \in Bound(s) /\ space[s][h].origin = n /\ ~(s = src /\ h \in lost)
                 \/ s = d /\ h = g /\ cap.origin = n
  <2>1. h \in Bound(s)' <=> (h \in Bound(s) \/ (s = d /\ h = g)) /\ ~(s = src /\ h \in lost)
    BY DEF Placed, Bound
  <2>2. h \in Bound(s)' => space'[s][h] = IF s = d /\ h = g THEN cap ELSE space[s][h]
    BY DEF Placed, Bound
  <2>3. s = d /\ h = g => h \notin Bound(s)
    BY DEF Placed
  <2>4. CASE s = d /\ h = g
    <3>1. h \in Bound(s)' /\ space'[s][h] = cap
      BY <2>1, <2>2, <2>4
    <3> QED BY <2>3, <2>4, <3>1
  <2>5. CASE ~(s = d /\ h = g)
    BY <2>1, <2>2, <2>5
  <2> QED BY <2>4, <2>5
<1>3. ASSUME NEW p
      PROVE  p \in Places'[n] <=> \/ p \in Places[n] /\ ~(p[1] = src /\ p[2] \in lost)
                                  \/ p = <<d, g>> /\ cap.origin = n
  <2>1. CASE p \in Spaces \X Handle
    <3>1. p[1] \in Spaces /\ p[2] \in Handle /\ (p = <<d, g>> <=> p[1] = d /\ p[2] = g)
      BY <1>1, <2>1
    <3>2. p \in Places'[n] <=> p[2] \in Bound(p[1])' /\ space'[p[1]][p[2]].origin = n
      BY <2>1 DEF Places, Bound
    <3>3. p \in Places[n] <=> p[2] \in Bound(p[1]) /\ space[p[1]][p[2]].origin = n
      BY <2>1 DEF Places
    <3>4. p[2] \in Bound(p[1])' /\ space'[p[1]][p[2]].origin = n
          <=> \/ p[2] \in Bound(p[1]) /\ space[p[1]][p[2]].origin = n /\ ~(p[1] = src /\ p[2] \in lost)
              \/ p[1] = d /\ p[2] = g /\ cap.origin = n
      BY <1>2, <3>1
    <3> QED BY <3>1, <3>2, <3>3, <3>4
  <2>2. CASE p \notin Spaces \X Handle
    BY <1>1, <2>2 DEF Places
  <2> QED BY <2>1, <2>2
<1> QED BY <1>1, <1>3

LEMMA AddedPlaces ==
  ASSUME Shape, NEW d \in Spaces, NEW g, NEW cap, Placed(d, g, cap, d, {}), NEW n \in 1..MaxMints
  PROVE  /\ <<d, g>> \notin Places[n]
         /\ \A p : p \in Places'[n] <=> p \in Places[n] \/ (p = <<d, g>> /\ cap.origin = n)
<1>1. ~(d = d /\ g \in {})
  OBVIOUS
<1>2. /\ <<d, g>> \notin Places[n]
      /\ \A p : p \in Places'[n] <=> \/ p \in Places[n] /\ ~(p[1] = d /\ p[2] \in {})
                                     \/ p = <<d, g>> /\ cap.origin = n
  BY <1>1, PlacedPlaces
<1> QED BY <1>2

LEMMA MovedFreely ==
  ASSUME Shape, NEW src \in Spaces, NEW d \in Spaces, NEW h, NEW cap, NEW g,
         Moved(src, h, cap, d, g), NEW n \in 1..MaxMints
  PROVE  <<d, g>> \notin Places[n]
BY PlacedPlaces DEF Moved, Placed, Places

LEMMA MovedSame ==
  ASSUME Shape, NEW src \in Spaces, NEW d \in Spaces, NEW h, NEW cap, NEW g,
         Moved(src, h, cap, d, g), NEW n \in 1..MaxMints, cap.origin = n,
         NEW rest, rest = Places[n] \ {<<src, h>>}
  PROVE  Places'[n] = rest \cup {<<d, g>>}
<1>1. Placed(d, g, cap, src, {h}) /\ h \in Bound(src)
  BY DEF Moved, Derived
<1>2. ~(src = d /\ g \in {h})
  BY <1>1 DEF Placed
<1>3. /\ <<d, g>> \notin Places[n]
      /\ \A p : p \in Places'[n] <=> \/ p \in Places[n] /\ ~(p[1] = src /\ p[2] \in {h})
                                     \/ p = <<d, g>> /\ cap.origin = n
  BY <1>1, <1>2, PlacedPlaces
<1>4. \A p \in Places[n] : p[1] = src /\ p[2] \in {h} <=> p = <<src, h>>
  BY DEF Places
<1> QED BY <1>3, <1>4

LEMMA MovedOther ==
  ASSUME Shape, NEW src \in Spaces, NEW d \in Spaces, NEW h, NEW cap, NEW g,
         Moved(src, h, cap, d, g), NEW n \in 1..MaxMints, cap.origin # n
  PROVE  Places'[n] = Places[n] \ {<<src, h>>}
<1>1. Placed(d, g, cap, src, {h}) /\ h \in Bound(src)
  BY DEF Moved, Derived
<1>2. ~(src = d /\ g \in {h})
  BY <1>1 DEF Placed
<1>3. /\ <<d, g>> \notin Places[n]
      /\ \A p : p \in Places'[n] <=> \/ p \in Places[n] /\ ~(p[1] = src /\ p[2] \in {h})
                                     \/ p = <<d, g>> /\ cap.origin = n
  BY <1>1, <1>2, PlacedPlaces
<1>4. \A p \in Places[n] : p[1] = src /\ p[2] \in {h} <=> p = <<src, h>>
  BY DEF Places
<1> QED BY <1>3, <1>4

LEMMA NextCopies == ASSUME IInv, Kinds PROVE CopiesOK'
<1> USE DEF IInv
<1>0. \A n \in Mints : n \in 1..MaxMints
  BY MintNumbers
<1>1. ASSUME NEW d \in Spaces, NEW r \in SUBSET Rights, NEW g, Minted(d, r, g) PROVE CopiesOK'
  <2>1. PICK n \in 1..MaxMints : n = Cardinality(Mints) + 1 /\ n \notin Mints /\ Mints' = Mints \cup {n}
    BY <1>1, NextMint
  <2>2. PICK cap : cap = [rights |-> r, epoch |-> epoch[d], origin |-> n]
    OBVIOUS
  <2>3. Placed(d, g, cap, d, {}) /\ cap.origin = n
    BY <1>1, <2>1, <2>2 DEF Minted
  <2>4. \A i \in Mints' : copies'[i] = IF i = n THEN 1 ELSE copies[i]
    BY <1>1, <2>1 DEF Minted
  <2>5. ASSUME NEW i \in Mints PROVE IsFiniteSet(Places'[i]) /\ copies'[i] = Cardinality(Places'[i])
    <3>1. \A p : p \in Places'[i] <=> p \in Places[i]
      BY <1>0, <2>1, <2>3, AddedPlaces
    <3>2. Places'[i] = Places[i]
      BY <3>1
    <3> QED BY <2>1, <2>4, <3>2 DEF CopiesOK
  <2>6. IsFiniteSet(Places'[n]) /\ copies'[n] = Cardinality(Places'[n])
    <3>1. \A p : p \notin Places[n]
      BY <2>1 DEF Places, CapsOK, Sound
    <3>2. \A p : p \in Places'[n] <=> p = <<d, g>>
      BY <2>3, <3>1, AddedPlaces
    <3>3. Places'[n] = {<<d, g>>}
      BY <3>2
    <3> QED BY <2>1, <2>4, <3>3, FS_Singleton
  <2> QED BY <2>1, <2>5, <2>6 DEF CopiesOK
<1>2. ASSUME NEW src \in Spaces, NEW d \in Spaces, NEW h, NEW cap, NEW g, Copied(src, h, cap, d, g)
      PROVE  CopiesOK'
  <2>1. Placed(d, g, cap, d, {}) /\ cap.origin \in Mints /\ Mints' = Mints
    BY <1>2, DerivedSound DEF Copied, Mints
  <2>2. PICK m \in Mints : m = cap.origin
    BY <2>1
  <2>3. copies'[m] = copies[m] + 1 /\ \A n \in Mints : n # m => copies'[n] = copies[n]
    BY <1>2, <2>2 DEF Copied, Shape
  <2>4. ASSUME NEW n \in Mints PROVE IsFiniteSet(Places'[n]) /\ copies'[n] = Cardinality(Places'[n])
    <3>1. \A p : p \in Places'[n] <=> p \in Places[n] \/ (p = <<d, g>> /\ m = n)
      BY <1>0, <2>1, <2>2, AddedPlaces
    <3>2. <<d, g>> \notin Places[n]
      BY <1>0, <2>1, AddedPlaces
    <3>3. IsFiniteSet(Places[n]) /\ copies[n] = Cardinality(Places[n])
      BY DEF CopiesOK
    <3>4. CASE m = n
      <4>1. Places'[n] = Places[n] \cup {<<d, g>>}
        BY <3>1, <3>4
      <4>2. PICK P : P = Places[n]
        OBVIOUS
      <4>3. IsFiniteSet(P \cup {<<d, g>>}) /\ Cardinality(P \cup {<<d, g>>}) = Cardinality(P) + 1
        BY <3>2, <3>3, <4>2, FS_AddElement
      <4> QED BY <2>3, <3>3, <3>4, <4>1, <4>2, <4>3
    <3>5. CASE m # n
      <4>1. Places'[n] = Places[n]
        BY <3>1, <3>5
      <4> QED BY <2>3, <3>3, <3>5, <4>1
    <3> QED BY <3>4, <3>5
  <2> QED BY <2>1, <2>4 DEF CopiesOK
<1>3. ASSUME NEW src \in Spaces, NEW d \in Spaces, NEW h, NEW cap, NEW g, Moved(src, h, cap, d, g)
      PROVE  CopiesOK'
  <2>1. /\ Placed(d, g, cap, src, {h}) /\ h \in Bound(src) /\ cap.origin = space[src][h].origin
        /\ Mints' = Mints /\ copies' = copies
    BY <1>3, DerivedSound DEF Moved, Mints
  <2>2. PICK m \in Mints : m = cap.origin
    BY <1>3, DerivedSound DEF Moved
  <2>3. ASSUME NEW n \in Mints PROVE IsFiniteSet(Places'[n]) /\ copies'[n] = Cardinality(Places'[n])
    <3>1. Shape /\ n \in 1..MaxMints /\ Moved(src, h, cap, d, g)
      BY <1>0, <1>3
    <3>2. <<d, g>> \notin Places[n]
      BY <3>1, MovedFreely
    <3>3. IsFiniteSet(Places[n]) /\ copies[n] = Cardinality(Places[n])
      BY DEF CopiesOK
    <3>5. <<src, h>> \in Places[n] <=> m = n
      BY <1>0, <2>1, <2>2 DEF Places, Shape
    <3>6. CASE m = n
      <4>0. cap.origin = n
        BY <2>2, <3>6
      <4>1. PICK rest : rest = Places[n] \ {<<src, h>>}
        OBVIOUS
      <4>2. IsFiniteSet(rest) /\ Cardinality(rest) = Cardinality(Places[n]) - 1
        BY <3>3, <3>5, <3>6, <4>1, FS_RemoveElement
      <4>3. Places'[n] = rest \cup {<<d, g>>}
        BY <3>1, <4>0, <4>1, MovedSame
      <4>4. IsFiniteSet(rest \cup {<<d, g>>}) /\ Cardinality(rest \cup {<<d, g>>}) = Cardinality(rest) + 1
        BY <3>2, <4>1, <4>2, FS_AddElement
      <4>5. Cardinality(Places[n]) \in Nat
        BY <3>3, FS_CardinalityType
      <4> QED BY <2>1, <3>3, <4>2, <4>3, <4>4, <4>5
    <3>7. CASE m # n
      <4>0. Places'[n] = Places[n] \ {<<src, h>>}
        BY <2>2, <3>1, <3>7, MovedOther
      <4>1. Places'[n] = Places[n]
        BY <3>5, <3>7, <4>0
      <4> QED BY <2>1, <3>3, <4>1
    <3> QED BY <3>6, <3>7
  <2> QED BY <2>1, <2>3 DEF CopiesOK
<1>4. ASSUME NEW s \in Spaces, NEW h \in Bound(s), Erase(s, h) PROVE CopiesOK'
  <2>1. PICK m \in Mints : m = space[s][h].origin
    BY DEF CapsOK, Sound
  <2>2. /\ Mints' = Mints
        /\ copies'[m] = copies[m] - 1 /\ \A n \in Mints : n # m => copies'[n] = copies[n]
    BY <1>4, <2>1 DEF Erase, Shape, Mints
  <2>3. ASSUME NEW n \in Mints PROVE IsFiniteSet(Places'[n]) /\ copies'[n] = Cardinality(Places'[n])
    <3>1. \A p : p \in Places'[n] <=> p \in Places[n] /\ ~(p[1] = s /\ p[2] = h)
      BY <1>0, <1>4, ErasedKeeps DEF Places, Bound
    <3>2. IsFiniteSet(Places[n]) /\ copies[n] = Cardinality(Places[n])
      BY DEF CopiesOK
    <3>3. \A p \in Places[n] : p[1] = s /\ p[2] = h <=> p = <<s, h>>
      BY <1>0 DEF Places
    <3>4. <<s, h>> \in Places[n] <=> m = n
      BY <1>0, <2>1 DEF Places, Shape
    <3>5. Places'[n] = Places[n] \ {<<s, h>>}
      BY <3>1, <3>3
    <3>6. IsFiniteSet(Places'[n]) /\ Cardinality(Places'[n]) = IF m = n THEN Cardinality(Places[n]) - 1
                                                               ELSE Cardinality(Places[n])
      <4>1. PICK P : P = Places[n]
        OBVIOUS
      <4>2. /\ IsFiniteSet(P \ {<<s, h>>})
            /\ Cardinality(P \ {<<s, h>>}) = IF <<s, h>> \in P THEN Cardinality(P) - 1 ELSE Cardinality(P)
        BY <3>2, <4>1, FS_RemoveElement
      <4> QED BY <3>4, <3>5, <4>1, <4>2
    <3> QED BY <2>2, <3>2, <3>6
  <2> QED BY <2>2, <2>3 DEF CopiesOK
<1>5. CASE UNCHANGED <<space, minted, copies>>
  BY <1>0, <1>5 DEF CopiesOK, Places, Mints, Bound
<1> QED BY <1>1, <1>2, <1>3, <1>4, <1>5 DEF Kinds, Revoke, Failed

LEMMA InitInv == Init => IInv
<1> SUFFICES ASSUME Init PROVE IInv
  OBVIOUS
<1>1. /\ \A s \in Spaces : space[s] = << >> /\ epoch[s] = 0 /\ revokes[s] = 0
      /\ minted = << >> /\ copies = << >>
  BY DEF Init
<1>2. DOMAIN << >> = {}
  OBVIOUS
<1>3. Mints = {} /\ \A s \in Spaces : Bound(s) = {}
  BY <1>1, <1>2 DEF Mints, Bound
<1>4. 0 \in 0..MaxMints /\ 1..0 = {}
  BY CapOpsAssumption
<1>5. 0 \in 0..(EpochModulus - 1) /\ 1 \in 0..(HandleModulus - 1)
  BY CapOpsAssumption
<1>6. copies = [n \in {} |-> copies[n]]
  BY <1>1
<1>7. \E k \in 0..MaxMints : Mints = 1..k
  BY <1>3, <1>4
<1>8. Shape
  BY <1>3, <1>5, <1>6, <1>7 DEF Init, Shape
<1>9. EpochsOK
  <2>1. 0 = 0 + 0 * EpochModulus
    BY CapOpsAssumption
  <2> QED BY <1>1, <2>1 DEF EpochsOK
<1> QED BY <1>3, <1>8, <1>9 DEF IInv, CapsOK, CopiesOK

\* The inductive invariant: every bound capability is one its mint may have become,
\* epochs count revocations, and the counts of copies are those of the handles.
LEMMA Invariance == Spec => []IInv
<1>1. IInv /\ [Next]_vars => IInv'
  BY StepKinds, NextShape, NextCaps, NextEpochs, NextCopies DEF IInv
<1> QED BY InitInv, <1>1, PTL DEF Spec

-----------------------------------------------------------------------------
(* Theorems.                                                               *)

\* Whatever the spaces, rights and moduli, handles are never 0 and every capability
\* descends from a mint; no count of copies goes below zero.
THEOREM TypeCorrect == Spec => []TypeOK
<1>1. IInv => TypeOK
  <2> SUFFICES ASSUME IInv PROVE TypeOK
    OBVIOUS
  <2>1. \A n \in Mints : copies[n] \in Nat
    BY FS_CardinalityType DEF IInv, CopiesOK
  <2>2. \A s \in Spaces : \A h \in Bound(s) :
          space[s][h] \in Capability /\ space[s][h].origin \in Mints
    BY DEF IInv, CapsOK, Sound
  <2>3. Mints = DOMAIN copies
    <3>1. copies = [n \in Mints |-> copies[n]]
      BY DEF IInv, Shape
    <3> QED BY <3>1
  <2> QED BY <2>1, <2>2, <2>3 DEF IInv, Shape, TypeOK
<1> QED BY <1>1, Invariance, PTL

\* No chain of grants, moves and duplicates, in any number of spaces, gives a
\* capability a right that its mint did not have.
THEOREM RightsOnlyShrink == Spec => []RightsNeverAmplified
<1>1. IInv => RightsNeverAmplified
  BY DEF IInv, CapsOK, Sound, RightsNeverAmplified
<1> QED BY <1>1, Invariance, PTL

\* There are as many capabilities that descend from a mint as were copied and not
\* erased: a move makes none and loses none, also within one space.
THEOREM MovesDoNotCopy == Spec => []CopiesAccounted
<1>1. IInv => CopiesAccounted
  BY MintNumbers DEF IInv, CopiesOK, Places, CopiesAccounted
<1> QED BY <1>1, Invariance, PTL

LEMMA NoMultipleWithin ==
  ASSUME NEW M \in Nat \ {0}, NEW q \in Int
  PROVE  q * M \notin 1..(M - 1)
OBVIOUS

\* For every modulus, what descends from a mint in a space revoked since does not
\* resolve there, until as many revocations as the modulus have passed.
THEOREM RevocationHolds == Spec => []RevokedStaysDead
<1>1. IInv => RevokedStaysDead
  <2> SUFFICES ASSUME IInv, NEW s \in Spaces, NEW h \in Bound(s),
                      revokes[s] - minted[space[s][h].origin].at \in 1..(EpochModulus - 1),
                      space[s][h].epoch = epoch[s]
               PROVE  FALSE
    BY DEF RevokedStaysDead, Resolves
  <2>1. PICK c \in Sound : c = space[s][h]
    BY DEF IInv, CapsOK
  <2>2. PICK q \in Int : minted[c.origin].at = c.epoch + q * EpochModulus
    BY DEF Sound
  <2>3. PICK p \in Int : revokes[s] = epoch[s] + p * EpochModulus
    BY DEF IInv, EpochsOK
  <2>4. PICK e : e = epoch[s] /\ e \in Int
    BY DEF IInv, Shape
  <2>5. EpochModulus \in Nat \ {0}
    BY CapOpsAssumption
  <2>6. (e + p * EpochModulus) - (e + q * EpochModulus) = (p - q) * EpochModulus
    BY <2>4, <2>5
  <2>7. (p - q) * EpochModulus \in 1..(EpochModulus - 1)
    BY <2>1, <2>2, <2>3, <2>4, <2>6
  <2> QED BY <2>5, <2>7, NoMultipleWithin
<1> QED BY <1>1, Invariance, PTL

\* A handle names one capability until it is erased: no insert, in any state of
\* next_handle_, binds a handle that is in use.
THEOREM HandlesAreStable == Spec => BoundHandleIsStable
<1>1. IInv /\ [Next]_vars =>
        [\A s \in Spaces : \A h \in Bound(s) \cap DOMAIN space'[s] : space'[s][h] = space[s][h]]_vars
  <2> SUFFICES ASSUME IInv, [Next]_vars, NEW s \in Spaces, NEW h \in Bound(s), h \in DOMAIN space'[s]
               PROVE  space'[s][h] = space[s][h]
    OBVIOUS
  <2>1. Kinds
    BY StepKinds DEF IInv
  <2>2. ASSUME NEW d \in Spaces, NEW g, NEW cap, NEW src, NEW lost, Placed(d, g, cap, src, lost)
        PROVE  space'[s][h] = space[s][h]
    BY <2>2 DEF Placed
  <2>3. ASSUME NEW t \in Spaces, NEW k \in Bound(t), Erase(t, k)
        PROVE  space'[s][h] = space[s][h]
    BY <2>3, ErasedKeeps DEF IInv
  <2>4. ASSUME NEW d \in Spaces, NEW r \in SUBSET Rights, NEW g, Minted(d, r, g)
        PROVE  space'[s][h] = space[s][h]
    <3>1. PICK cap : cap = [rights |-> r, epoch |-> epoch[d], origin |-> Cardinality(Mints) + 1]
      OBVIOUS
    <3>2. Placed(d, g, cap, d, {})
      BY <2>4, <3>1 DEF Minted
    <3> QED BY <2>2, <3>2
  <2> QED BY <2>1, <2>2, <2>3, <2>4 DEF Kinds, Copied, Moved, Revoke, Failed
<1> QED BY <1>1, Invariance, PTL DEF Spec, BoundHandleIsStable
=============================================================================

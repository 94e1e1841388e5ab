---------------------------- MODULE Resources_proofs ----------------------------
(***************************************************************************)
(* What is handed out has one owner: arena, pool and sockets, for any      *)
(* sizes, lengths, alignments, objects and descriptors.  What is looked up *)
(* is what was last put there: VMA tree, page table, capability trie and   *)
(* object table, for any of theirs.  What is popped is the earliest.       *)
(***************************************************************************)
EXTENDS Kernel, Lemmas, SequenceTheorems

-----------------------------------------------------------------------------
(* The arena.                                                              *)

ArenaTyped ==
  /\ cursor \in Nat /\ cursor >= Base /\ cursor <= Base + Bytes /\ events \in Nat
  /\ \A b \in blocks : b.at \in Nat /\ b.len \in Nat /\ b.born \in Nat /\ b.born < events
  /\ \A m \in marks : m.offset \in Nat /\ m.taken \in Nat /\ m.taken < events

\* Blocks lie in the order in which they were allocated, those from before a checkpoint
\* below it: it is for this that a checkpoint may be gone back to late, or twice.
InOrder ==
  /\ \A b \in blocks : b.at >= Base /\ b.at + b.len <= cursor /\ b.at % b.align = 0
  /\ \A b, c \in blocks : /\ b.born < c.born => b.at + b.len <= c.at
                          /\ b.born = c.born => b = c
  /\ \A m \in marks : \A b \in blocks : b.born < m.taken => b.at + b.len <= Base + m.offset

ArenaIInv == ArenaTyped /\ InOrder

LEMMA NotWrapped ==
  ASSUME NEW x \in Nat, x < Word
  PROVE  Arena!Wrapped(x) = x
<1>1. Word \in Nat /\ Word > 0
  BY ArenaAssumption
<1>2. x % Word = x
  BY <1>1
<1> QED
  BY <1>2 DEF Arena!Wrapped

\* align_up rounds up, to a multiple, by less than that.
LEMMA AlignedUp ==
  ASSUME NEW a \in Nat, NEW n \in Nat \ {0}, a + n - 1 < Word
  PROVE  /\ Arena!Aligned(a, n) \in Nat /\ Arena!Aligned(a, n) <= a + n - 1
         /\ Arena!Aligned(a, n) >= a /\ Arena!Aligned(a, n) % n = 0
<1> DEFINE x == a + n - 1
           q == x \div n
<1>1. x \in Nat /\ q \in Nat /\ x = n * q + (x % n) /\ x % n \in 0..n - 1
  OBVIOUS
<1>2. q * n \in Nat /\ q * n >= a /\ q * n <= x
  BY <1>1
<1>3. (q * n) % n = 0
  BY <1>1
<1>4. Arena!Wrapped(x) = x
  BY <1>1, NotWrapped
<1>5. Arena!Aligned(a, n) = q * n
  BY <1>4 DEF Arena!Aligned
<1> QED
  BY <1>2, <1>3, <1>5

LEMMA ArenaInit == Arena!Init => ArenaIInv
  BY ArenaAssumption DEF Arena!Init, ArenaIInv, ArenaTyped, InOrder

LEMMA ArenaKept == ArenaIInv /\ [Arena!Next]_Arena!vars => ArenaIInv'
<1> SUFFICES ASSUME ArenaIInv, [Arena!Next]_Arena!vars PROVE ArenaIInv'
  OBVIOUS
<1> USE DEF ArenaIInv
<1>1. CASE UNCHANGED Arena!vars
  BY <1>1 DEF Arena!vars, ArenaTyped, InOrder
<1>2. ASSUME NEW n \in Lengths, NEW align \in Alignments, Arena!Allocate(n, align)
      PROVE  ArenaIInv'
  <2> DEFINE first == Arena!Aligned(cursor, align)
             new == [at |-> first, len |-> n, align |-> align, born |-> events]
  <2>0. /\ n \in Nat /\ align \in Nat \ {0} /\ Word \in Nat /\ Base \in Nat /\ Bytes \in Nat
        /\ cursor \in Nat /\ events \in Nat /\ cursor >= Base /\ cursor <= Base + Bytes
        /\ Base + Bytes + align + n <= Word
    BY ArenaAssumption DEF ArenaTyped
  <2>1. first \in Nat /\ first >= cursor /\ first % align = 0 /\ first + n < Word
    BY <2>0, AlignedUp
  <2> HIDE DEF first
  <2>w. Arena!Wrapped(first + n) = first + n
    BY <2>0, <2>1, NotWrapped
  <2>2. /\ cursor' = first + n /\ blocks' = blocks \cup {new} /\ events' = events + 1
        /\ marks' = marks /\ first + n <= Base + Bytes
    BY <1>2, <2>w DEF Arena!Allocate, Arena!Count, Arena!End, first
  <2>3. ArenaTyped'
    BY <2>0, <2>1, <2>2 DEF ArenaTyped
  <2>4. \A b \in blocks : b.at + b.len <= first
    BY <2>0, <2>1 DEF ArenaTyped, InOrder
  <2>5. \A b \in blocks' : b.at >= Base /\ b.at + b.len <= cursor' /\ b.at % b.align = 0
    BY <2>0, <2>1, <2>2, <2>4 DEF ArenaTyped, InOrder
  <2>6. \A b, c \in blocks' : /\ b.born < c.born => b.at + b.len <= c.at
                              /\ b.born = c.born => b = c
    BY <2>0, <2>1, <2>2, <2>4 DEF ArenaTyped, InOrder
  <2>7. \A m \in marks' : \A b \in blocks' : b.born < m.taken => b.at + b.len <= Base + m.offset
    BY <2>0, <2>1, <2>2 DEF ArenaTyped, InOrder
  <2> QED
    BY <2>3, <2>5, <2>6, <2>7 DEF InOrder
<1>3. CASE Arena!Save
  <2> DEFINE new == [offset |-> cursor - Base, taken |-> events]
  <2>1. /\ UNCHANGED <<cursor, blocks>> /\ marks' = marks \cup {new} /\ events' = events + 1
        /\ cursor - Base \in Nat /\ Base + (cursor - Base) = cursor
    BY <1>3, ArenaAssumption DEF Arena!Save, Arena!Count, ArenaTyped
  <2>2. ArenaTyped'
    BY <2>1 DEF ArenaTyped
  <2>3. InOrder'
    BY <2>1 DEF InOrder
  <2> QED
    BY <2>2, <2>3
<1>4. ASSUME NEW m \in marks, Arena!ResetTo(m) PROVE ArenaIInv'
  <2>1. /\ cursor' \in {cursor, Base + m.offset} /\ cursor' \in Nat /\ cursor' >= Base
        /\ cursor' <= cursor
        /\ blocks' = {b \in blocks : b.born < m.taken} /\ UNCHANGED <<marks, events>>
    BY <1>4, ArenaAssumption DEF Arena!ResetTo, ArenaTyped
  <2>2. ArenaTyped'
    BY <2>1, ArenaAssumption DEF ArenaTyped
  <2>3. \A b \in blocks' : b.at + b.len <= cursor'
    BY <2>1 DEF InOrder
  <2>4. InOrder'
    BY <2>1, <2>3 DEF InOrder
  <2> QED
    BY <2>2, <2>4
<1>5. CASE Arena!Reset
  BY <1>5, ArenaAssumption DEF Arena!Reset, ArenaTyped, InOrder
<1> QED
  BY <1>1, <1>2, <1>3, <1>4, <1>5 DEF Arena!Next, Arena!AllocateThrows

LEMMA BlocksLieApart == ArenaIInv => Arena!BlocksApart
<1> SUFFICES ASSUME ArenaIInv, NEW b \in blocks, NEW c \in blocks, b # c
             PROVE  b.at + b.len <= c.at \/ c.at + c.len <= b.at
  BY DEF ArenaIInv, InOrder, Arena!BlocksApart
<1>1. b.born < c.born \/ c.born < b.born
  BY DEF ArenaIInv, ArenaTyped, InOrder
<1> QED
  BY <1>1 DEF ArenaIInv, InOrder

-----------------------------------------------------------------------------
(* The sockets.                                                            *)

SocketsIInv == Sockets!OneOwner

\* A new descriptor is one that was free.
LEMMA NewIsFree ==
  ASSUME Descriptors \ open # {}
  PROVE  Sockets!New \in Descriptors \ open
<1>1. Descriptors \ open \subseteq Nat
  BY SocketsAssumption
<1>2. \E d \in Descriptors \ open : \A e \in Descriptors \ open : d <= e
  BY <1>1, LeastNatural
<1> QED
  BY <1>2 DEF Sockets!New, Sockets!Min

LEMMA SocketsKept == SocketsIInv /\ [Sockets!Next]_Sockets!vars => SocketsIInv'
<1> SUFFICES ASSUME SocketsIInv, [Sockets!Next]_Sockets!vars PROVE SocketsIInv'
  OBVIOUS
<1> USE DEF SocketsIInv, Sockets!OneOwner, Sockets!Alive
<1>1. CASE UNCHANGED Sockets!vars
  BY <1>1 DEF Sockets!vars
<1>2. ASSUME NEW o \in Objects, Sockets!Make(o) PROVE SocketsIInv'
  <2>1. /\ o \notin DOMAIN fd /\ DOMAIN fd' = DOMAIN fd \cup {o} /\ fd'[o] = {}
        /\ \A p \in DOMAIN fd : fd'[p] = fd[p]
        /\ UNCHANGED <<open, lost>>
    BY <1>2 DEF Sockets!Make, Sockets!With
  <2>2. open' = UNION {fd'[p] : p \in DOMAIN fd'}
    BY <2>1
  <2>3. \A p, q \in DOMAIN fd' : p # q => fd'[p] \cap fd'[q] = {}
    BY <2>1
  <2> QED
    BY <2>1, <2>2, <2>3
<1>3. ASSUME NEW o \in Objects, Sockets!Open(o) PROVE SocketsIInv'
  <2>1. /\ o \notin DOMAIN fd /\ DOMAIN fd' = DOMAIN fd \cup {o} /\ fd'[o] = {Sockets!New}
        /\ \A p \in DOMAIN fd : fd'[p] = fd[p]
        /\ open' = open \cup {Sockets!New} /\ lost' = lost
    BY <1>3 DEF Sockets!Open, Sockets!With
  <2>2. Sockets!New \notin open
    BY <1>3, NewIsFree DEF Sockets!Open
  <2>3. open' = UNION {fd'[p] : p \in DOMAIN fd'}
    BY <2>1
  <2>4. \A p \in DOMAIN fd : Sockets!New \notin fd[p]
    BY <2>2
  <2>5. \A p, q \in DOMAIN fd' : p # q => fd'[p] \cap fd'[q] = {}
    BY <2>1, <2>4
  <2> QED
    BY <2>1, <2>3, <2>5
<1>4. ASSUME NEW o \in Objects, Sockets!OpenFails(o) PROVE SocketsIInv'
  <2>1. Sockets!New \notin open
    BY <1>4, NewIsFree DEF Sockets!OpenFails
  <2> QED
    BY <1>4, <2>1 DEF Sockets!OpenFails
<1>5. ASSUME NEW o \in Objects, Sockets!Close(o) PROVE SocketsIInv'
  <2>1. /\ o \in DOMAIN fd /\ DOMAIN fd' = DOMAIN fd /\ fd'[o] = {}
        /\ \A p \in DOMAIN fd \ {o} : fd'[p] = fd[p]
        /\ open' = open \ fd[o] /\ (lost' <=> lost \/ ~(fd[o] \subseteq open))
    BY <1>5 DEF Sockets!Close, Sockets!KernelClose
  <2>2. open' = UNION {fd'[p] : p \in DOMAIN fd'}
    BY <2>1
  <2>3. \A p, q \in DOMAIN fd' : p # q => fd'[p] \cap fd'[q] = {}
    BY <2>1
  <2> QED
    BY <2>1, <2>2, <2>3
<1>6. ASSUME NEW o \in Objects, Sockets!Destroy(o) PROVE SocketsIInv'
  <2>1. /\ o \in DOMAIN fd /\ DOMAIN fd' = DOMAIN fd \ {o}
        /\ \A p \in DOMAIN fd \ {o} : fd'[p] = fd[p]
        /\ open' = open \ fd[o] /\ (lost' <=> lost \/ ~(fd[o] \subseteq open))
    BY <1>6 DEF Sockets!Destroy, Sockets!KernelClose, Sockets!Without
  <2>2. open' = UNION {fd'[p] : p \in DOMAIN fd'}
    BY <2>1
  <2>3. \A p, q \in DOMAIN fd' : p # q => fd'[p] \cap fd'[q] = {}
    BY <2>1
  <2> QED
    BY <2>1, <2>2, <2>3
<1>7. ASSUME NEW o \in Objects, NEW from \in Objects, Sockets!MoveConstruct(o, from)
      PROVE  SocketsIInv'
  <2>1. /\ o \notin DOMAIN fd /\ from \in DOMAIN fd /\ o # from
        /\ fd' = [Sockets!With(fd, o, fd[from]) EXCEPT ![from] = {}]
        /\ UNCHANGED <<open, lost>>
    BY <1>7 DEF Sockets!MoveConstruct
  <2>2. /\ DOMAIN fd' = DOMAIN fd \cup {o} /\ fd'[o] = fd[from] /\ fd'[from] = {}
        /\ \A p \in DOMAIN fd \ {from} : fd'[p] = fd[p]
    BY <2>1 DEF Sockets!With
  <2>3. open' = UNION {fd'[p] : p \in DOMAIN fd'}
    BY <2>1, <2>2
  <2>4. \A p, q \in DOMAIN fd' : p # q => fd'[p] \cap fd'[q] = {}
    BY <2>1, <2>2
  <2> QED
    BY <2>1, <2>3, <2>4
<1>8. ASSUME NEW o \in Objects, NEW from \in Objects, Sockets!MoveAssign(o, from)
      PROVE  SocketsIInv'
  <2>1. CASE o = from
    BY <1>8, <2>1 DEF Sockets!MoveAssign
  <2>2. CASE o # from
    <3>1. /\ o \in DOMAIN fd /\ from \in DOMAIN fd /\ DOMAIN fd' = DOMAIN fd
          /\ fd'[o] = fd[from] /\ fd'[from] = {}
          /\ \A p \in DOMAIN fd \ {o, from} : fd'[p] = fd[p]
          /\ open' = open \ fd[o] /\ (lost' <=> lost \/ ~(fd[o] \subseteq open))
      BY <1>8, <2>2 DEF Sockets!MoveAssign, Sockets!KernelClose
    <3>2. open' = UNION {fd'[p] : p \in DOMAIN fd'}
      BY <2>2, <3>1
    <3>3. \A p, q \in DOMAIN fd' : p # q => fd'[p] \cap fd'[q] = {}
      BY <2>2, <3>1
    <3> QED
      BY <3>1, <3>2, <3>3
  <2> QED
    BY <2>1, <2>2
<1> QED
  BY <1>1, <1>2, <1>3, <1>4, <1>5, <1>6, <1>7, <1>8 DEF Sockets!Next

LEMMA SocketsInit == Sockets!Init => SocketsIInv
  BY DEF Sockets!Init, SocketsIInv, Sockets!OneOwner, Sockets!Alive

-----------------------------------------------------------------------------
(* The pool.  The free blocks are a list: in the order L, one after another*)
(* by their links, each of them once, and none of them owned.              *)

FreeList(L, m) ==
  /\ L \in [1..m -> Pool!Blocks \ owned]
  /\ \A b \in Pool!Blocks \ owned : \E i \in 1..m : L[i] = b
  /\ \A i, j \in 1..m : L[i] = L[j] => i = j
  /\ head = IF m = 0 THEN 0 ELSE L[1]
  /\ \A i \in 1..m : link[L[i]] = IF i = m THEN 0 ELSE L[i + 1]

PoolIInv ==
  /\ owned \subseteq Pool!Blocks /\ link \in [Pool!Blocks -> 0..PoolSize]
  /\ inUse = Cardinality(owned) /\ high = most /\ most \in Nat
  /\ \E m \in Nat : m + Cardinality(owned) = PoolSize /\ \E L : FreeList(L, m)

\* An instance has its own name for the library's operator.
LEMMA PoolCounts == \A S : Pool!Cardinality(S) = Cardinality(S)
  BY DEF Pool!Cardinality, Cardinality

LEMMA OwnedAreFinite ==
  ASSUME owned \subseteq Pool!Blocks
  PROVE  IsFiniteSet(owned) /\ Cardinality(owned) \in Nat
<1>1. IsFiniteSet(Pool!Blocks)
  BY PoolAssumption, FS_Interval DEF Pool!Blocks
<1> QED
  BY <1>1, FS_Subset, FS_CardinalityType

LEMMA PoolInit == Pool!Init => PoolIInv
<1> SUFFICES ASSUME Pool!Init PROVE PoolIInv
  OBVIOUS
<1> USE PoolAssumption DEF Pool!Init, Pool!Blocks
<1> DEFINE L == [i \in 1..PoolSize |-> PoolSize + 1 - i]
<1>1. Cardinality(owned) = 0
  BY FS_EmptySet
<1>2. L \in [1..PoolSize -> Pool!Blocks \ owned]
  OBVIOUS
<1>3. \A b \in Pool!Blocks \ owned : \E i \in 1..PoolSize : L[i] = b
  <2> SUFFICES ASSUME NEW b \in Pool!Blocks PROVE \E i \in 1..PoolSize : L[i] = b
    OBVIOUS
  <2>1. PoolSize + 1 - b \in 1..PoolSize /\ L[PoolSize + 1 - b] = b
    OBVIOUS
  <2> QED
    BY <2>1
<1>4. FreeList(L, PoolSize)
  BY <1>2, <1>3 DEF FreeList
<1>5. PoolSize + Cardinality(owned) = PoolSize
  BY <1>1
<1> QED
  BY <1>1, <1>4, <1>5 DEF PoolIInv

LEMMA PoolKept == PoolIInv /\ [Pool!Next]_Pool!vars => PoolIInv'
<1> SUFFICES ASSUME PoolIInv, [Pool!Next]_Pool!vars PROVE PoolIInv'
  OBVIOUS
<1> USE PoolAssumption DEF Pool!Blocks
<1>1. IsFiniteSet(owned) /\ Cardinality(owned) \in Nat
  BY OwnedAreFinite DEF PoolIInv
<1>2. PICK m \in Nat : m + Cardinality(owned) = PoolSize /\ \E L : FreeList(L, m)
  BY DEF PoolIInv
<1>3. PICK L : FreeList(L, m)
  BY <1>2
<1>4. ASSUME UNCHANGED Pool!vars PROVE PoolIInv'
  <2>1. UNCHANGED <<head, link, inUse, high, owned, most>>
    BY <1>4 DEF Pool!vars
  <2>2. FreeList(L, m)'
    BY <1>3, <2>1 DEF FreeList
  <2> QED
    BY <1>2, <2>1, <2>2 DEF PoolIInv
<1>5. CASE Pool!Allocate
  <2> USE <1>5 DEF Pool!Allocate
  <2>1. m # 0 /\ head = L[1] /\ head \in Pool!Blocks \ owned
    BY <1>3 DEF FreeList
  <2>2. /\ IsFiniteSet(owned') /\ Cardinality(owned') = Cardinality(owned) + 1
    BY <1>1, <2>1, FS_AddElement
  <2> DEFINE R == [i \in 1..(m - 1) |-> L[i + 1]]
  <2>3. R \in [1..(m - 1) -> Pool!Blocks \ owned']
    BY <1>3, <2>1 DEF FreeList
  <2>4. \A b \in Pool!Blocks \ owned' : \E i \in 1..(m - 1) : R[i] = b
    <3> SUFFICES ASSUME NEW b \in Pool!Blocks \ owned' PROVE \E i \in 1..(m - 1) : R[i] = b
      OBVIOUS
    <3>1. PICK i \in 1..m : L[i] = b
      BY <1>3 DEF FreeList
    <3>2. i # 1
      BY <2>1, <3>1
    <3>3. i - 1 \in 1..(m - 1) /\ R[i - 1] = b
      BY <3>1, <3>2
    <3> QED
      BY <3>3
  <2>5. \A i, j \in 1..(m - 1) : R[i] = R[j] => i = j
    BY <1>3, <2>1 DEF FreeList
  <2>6. head' = IF m - 1 = 0 THEN 0 ELSE R[1]
    BY <1>3, <2>1 DEF FreeList
  <2>7. \A i \in 1..(m - 1) : link'[R[i]] = IF i = m - 1 THEN 0 ELSE R[i + 1]
    BY <1>3, <2>1, SMTT(30) DEF FreeList
  <2> HIDE DEF R
  <2>8. FreeList(R, m - 1)'
    BY <2>3, <2>4, <2>5, <2>6, <2>7 DEF FreeList
  <2>9. m - 1 \in Nat /\ (m - 1) + Cardinality(owned') = PoolSize
    BY <1>1, <1>2, <2>1, <2>2
  <2>10. owned' \subseteq Pool!Blocks /\ link' \in [Pool!Blocks -> 0..PoolSize]
    BY <2>1 DEF PoolIInv
  <2>11. inUse' = Cardinality(owned') /\ high' = most' /\ most' \in Nat
    <3>1. inUse' = Cardinality(owned') /\ inUse' \in Nat
      BY <1>1, <2>2 DEF PoolIInv
    <3>2. high' = IF inUse' > high THEN inUse' ELSE high
      OBVIOUS
    <3>3. most' = IF Cardinality(owned') > most THEN Cardinality(owned') ELSE most
      BY PoolCounts
    <3>4. high = most /\ most \in Nat
      BY DEF PoolIInv
    <3> HIDE <1>5
    <3> QED
      BY <3>1, <3>2, <3>3, <3>4
  <2> QED
    BY <2>8, <2>9, <2>10, <2>11 DEF PoolIInv
<1>6. CASE Pool!AllocateFails
  BY <1>4, <1>6 DEF Pool!AllocateFails
<1>7. ASSUME NEW b \in Pool!Blocks, Pool!Deallocate(b) PROVE PoolIInv'
  <2> USE <1>7 DEF Pool!Deallocate
  <2>1. /\ IsFiniteSet(owned') /\ Cardinality(owned') = Cardinality(owned) - 1
    BY <1>1, FS_RemoveElement
  <2> DEFINE R == [i \in 1..(m + 1) |-> IF i = 1 THEN b ELSE L[i - 1]]
  <2>2. \A i \in 1..m : L[i] \in Pool!Blocks \ owned /\ L[i] # b
    BY <1>3 DEF FreeList
  <2>3. R \in [1..(m + 1) -> Pool!Blocks \ owned']
    BY <2>2
  <2>4. \A c \in Pool!Blocks \ owned' : \E i \in 1..(m + 1) : R[i] = c
    <3> SUFFICES ASSUME NEW c \in Pool!Blocks \ owned' PROVE \E i \in 1..(m + 1) : R[i] = c
      OBVIOUS
    <3>1. CASE c = b
      BY <3>1
    <3>2. CASE c # b
      <4>1. PICK i \in 1..m : L[i] = c
        BY <1>3, <3>2 DEF FreeList
      <4>2. i + 1 \in 1..(m + 1) /\ R[i + 1] = c
        BY <4>1
      <4> QED
        BY <4>2
    <3> QED
      BY <3>1, <3>2
  <2>5. \A i, j \in 1..(m + 1) : R[i] = R[j] => i = j
    BY <1>3, <2>2 DEF FreeList
  <2>6. head' = IF m + 1 = 0 THEN 0 ELSE R[1]
    OBVIOUS
  <2>7. \A i \in 1..(m + 1) : link'[R[i]] = IF i = m + 1 THEN 0 ELSE R[i + 1]
    <3>1. link'[b] = head /\ \A c \in Pool!Blocks : c # b => link'[c] = link[c]
      BY DEF PoolIInv
    <3>2. link'[R[1]] = IF 1 = m + 1 THEN 0 ELSE R[1 + 1]
      BY <1>3, <3>1 DEF FreeList
    <3>3. \A i \in 2..(m + 1) : link'[R[i]] = link[L[i - 1]]
      BY <2>2, <3>1
    <3>4. \A i \in 2..(m + 1) : link'[R[i]] = IF i = m + 1 THEN 0 ELSE R[i + 1]
      <4> SUFFICES ASSUME NEW i \in 2..(m + 1)
                   PROVE  link'[R[i]] = IF i = m + 1 THEN 0 ELSE R[i + 1]
        OBVIOUS
      <4>1. i - 1 \in 1..m /\ link'[R[i]] = link[L[i - 1]]
        <5>1. i - 1 \in 1..m
          OBVIOUS
        <5> HIDE DEF R
        <5> QED
          BY <3>3, <5>1
      <4>2. link[L[i - 1]] = IF i - 1 = m THEN 0 ELSE L[(i - 1) + 1]
        BY <1>3, <4>1 DEF FreeList
      <4>3. i # m + 1 => i + 1 \in 1..(m + 1) /\ R[i + 1] = L[i]
        OBVIOUS
      <4> QED
        BY <4>1, <4>2, <4>3
    <3> HIDE DEF R
    <3> QED
      BY <3>2, <3>4
  <2> HIDE DEF R
  <2>8. FreeList(R, m + 1)'
    BY <2>3, <2>4, <2>5, <2>6, <2>7 DEF FreeList
  <2>9. m + 1 \in Nat /\ (m + 1) + Cardinality(owned') = PoolSize
    BY <1>1, <1>2, <2>1
  <2>10. head \in 0..PoolSize
    BY <1>3 DEF FreeList
  <2>11. owned' \subseteq Pool!Blocks /\ link' \in [Pool!Blocks -> 0..PoolSize]
    BY <2>10 DEF PoolIInv
  <2>12. inUse' = Cardinality(owned') /\ high' = most' /\ most' \in Nat
    BY <1>1, <2>1 DEF PoolIInv
  <2> QED
    BY <2>8, <2>9, <2>11, <2>12 DEF PoolIInv
<1>8. ASSUME NEW b \in Pool!Blocks, NEW v \in Pool!Blocks \cup {0}, Pool!Scribble(b, v)
      PROVE  PoolIInv'
  <2>1. /\ UNCHANGED <<head, inUse, high, owned, most>>
        /\ link' \in [Pool!Blocks -> 0..PoolSize]
        /\ \A c \in Pool!Blocks \ owned : link'[c] = link[c]
    BY <1>8 DEF Pool!Scribble, PoolIInv
  <2>2. FreeList(L, m)'
    BY <1>3, <2>1 DEF FreeList
  <2> QED
    BY <1>2, <2>1, <2>2 DEF PoolIInv
<1> QED
  BY <1>4, <1>5, <1>6, <1>7, <1>8 DEF Pool!Next

\* FreeAfter by a name for the walk it makes.
Stepped(n, walk) ==
  [k \in 0..n |-> IF k = 0 THEN head
                  ELSE IF walk[k - 1] = 0 THEN 0 ELSE link[walk[k - 1]]]

Walk(n) == CHOOSE walk : walk = Stepped(n, walk)

LEMMA FreeAreWalked ==
  ASSUME NEW n
  PROVE  Pool!FreeAfter(n) = {Walk(n)[k] : k \in 0..n} \ {0}
  BY DEF Pool!FreeAfter, Walk, Stepped

\* The walk is along the list and then at the null pointer: where another walk first
\* differs from it, it does not.
LEMMA WalkIsList ==
  ASSUME NEW m \in Nat, NEW L, FreeList(L, m)
  PROVE  \A k \in 0..PoolSize : Walk(PoolSize)[k] = IF k < m THEN L[k + 1] ELSE 0
<1> USE PoolAssumption
<1> DEFINE n == PoolSize
           W == [k \in 0..n |-> IF k < m THEN L[k + 1] ELSE 0]
<1>1. \A k \in 0..n : k < m => L[k + 1] # 0
  BY DEF FreeList, Pool!Blocks
<1>2. \A k \in 0..n : W[k] = IF k = 0 THEN head
                             ELSE IF W[k - 1] = 0 THEN 0 ELSE link[W[k - 1]]
  <2> SUFFICES ASSUME NEW k \in 0..n
               PROVE  W[k] = IF k = 0 THEN head
                             ELSE IF W[k - 1] = 0 THEN 0 ELSE link[W[k - 1]]
    OBVIOUS
  <2>1. CASE k = 0
    BY <2>1 DEF FreeList
  <2>2. CASE k # 0 /\ k - 1 < m
    <3>1. k \in 1..m /\ k - 1 \in 0..n /\ W[k - 1] = L[k]
      BY <2>2
    <3>2. W[k - 1] # 0
      BY <1>1, <2>2, <3>1
    <3>3. link[L[k]] = IF k = m THEN 0 ELSE L[k + 1]
      BY <3>1 DEF FreeList
    <3>4. W[k] = IF k = m THEN 0 ELSE L[k + 1]
      BY <3>1
    <3> HIDE DEF W
    <3> QED
      BY <2>2, <3>1, <3>2, <3>3, <3>4
  <2>3. CASE k # 0 /\ ~(k - 1 < m)
    BY <2>3
  <2> QED
    BY <2>1, <2>2, <2>3
<1>3. W = Stepped(n, W)
  BY <1>2 DEF Stepped
<1>4. Walk(n) = Stepped(n, Walk(n))
  BY <1>3 DEF Walk
<1> HIDE DEF W
<1>5. \A k \in 0..n : Walk(n)[k] = W[k]
  <2> DEFINE Off == {k \in 0..n : Walk(n)[k] # W[k]}
  <2>1. SUFFICES ASSUME Off # {} PROVE FALSE
    OBVIOUS
  <2>2. Off \subseteq Nat
    OBVIOUS
  <2> HIDE DEF Off
  <2>6. PICK k \in Off : \A j \in Off : k <= j
    BY <2>1, <2>2, LeastNatural
  <2>3. k \in 0..n /\ (k # 0 => k - 1 \in 0..n /\ Walk(n)[k - 1] = W[k - 1])
    <3>1. k \in 0..n
      BY DEF Off
    <3>2. k - 1 \notin Off
      BY <2>6, <3>1
    <3> QED
      BY <3>1, <3>2 DEF Off
  <2>4. Walk(n)[k] = IF k = 0 THEN head
                     ELSE IF Walk(n)[k - 1] = 0 THEN 0 ELSE link[Walk(n)[k - 1]]
    BY <1>4, <2>3 DEF Stepped
  <2>5. Walk(n)[k] = W[k]
    BY <1>2, <2>3, <2>4
  <2> QED
    BY <2>5 DEF Off
<1> QED
  BY <1>5 DEF W

LEMMA FreeAreTheRest == PoolIInv => Pool!FreeIsTheRest
<1> SUFFICES ASSUME PoolIInv PROVE Pool!FreeIsTheRest
  OBVIOUS
<1> USE PoolAssumption
<1>1. Cardinality(owned) \in Nat
  BY OwnedAreFinite DEF PoolIInv
<1>2. PICK m \in Nat : m + Cardinality(owned) = PoolSize /\ \E L : FreeList(L, m)
  BY DEF PoolIInv
<1>3. PICK L : FreeList(L, m)
  BY <1>2
<1>4. m \in 0..PoolSize
  BY <1>1, <1>2
<1>5. \A k \in 0..PoolSize : Walk(PoolSize)[k] = IF k < m THEN L[k + 1] ELSE 0
  BY <1>3, WalkIsList
<1>6. \A b \in Pool!Blocks \ owned : \E k \in 0..PoolSize : Walk(PoolSize)[k] = b /\ b # 0
  <2> SUFFICES ASSUME NEW b \in Pool!Blocks \ owned
               PROVE  \E k \in 0..PoolSize : Walk(PoolSize)[k] = b /\ b # 0
    OBVIOUS
  <2>1. PICK i \in 1..m : L[i] = b
    BY <1>3 DEF FreeList
  <2>2. i - 1 \in 0..PoolSize /\ Walk(PoolSize)[i - 1] = b /\ b # 0
    BY <1>4, <1>5, <2>1 DEF Pool!Blocks
  <2> QED
    BY <2>2
<1>7. \A k \in 0..PoolSize : Walk(PoolSize)[k] # 0 => Walk(PoolSize)[k] \in Pool!Blocks \ owned
  BY <1>3, <1>5 DEF FreeList
<1>8. Pool!FreeAfter(PoolSize) = {Walk(PoolSize)[k] : k \in 0..PoolSize} \ {0}
  BY FreeAreWalked
<1>9. Pool!FreeAfter(PoolSize) = Pool!Blocks \ owned
  <2> HIDE DEF Pool!Blocks
  <2> QED
    BY <1>6, <1>7, <1>8
<1>10. inUse = Cardinality(owned) /\ high = most
  BY DEF PoolIInv
<1> QED
  BY <1>9, <1>10, PoolCounts DEF Pool!FreeIsTheRest

-----------------------------------------------------------------------------
(* The object table.                                                       *)

Slot == [id : Nat, generation : Nat, ptr : KObjects \cup {ObjectTable!Null}, present : BOOLEAN]

TableTyped ==
  /\ idOf \in [KObjects -> Ids] /\ generation \in [KObjects -> Nat]
  /\ slots \in [ObjectTable!Slots -> Slot]
  /\ stored \in [Ids -> SUBSET KObjects]

\* A slot in use holds an object under its own id, in the slot of that id, ...
InPlace ==
  \A i \in ObjectTable!Slots :
    slots[i].present => /\ slots[i].ptr \in KObjects /\ slots[i].id = idOf[slots[i].ptr]
                        /\ ObjectTable!Probe(slots[i].id) = i

\* ... which is the one that was inserted for the id last, ...
Latest ==
  \A id \in Ids :
    stored[id] = IF ObjectTable!Holds(id) THEN {slots[ObjectTable!Probe(id)].ptr} ELSE {}

\* ... and it holds it with a later generation than any that the table was told is past:
\* generations only grow, so that an insert anew does not bring one back.
Retired ==
  \A ref \in dead :
    /\ ref[1] \in KObjects /\ ref[2] \in Nat /\ ref[2] < generation[ref[1]]
    /\ LET s == slots[ObjectTable!Probe(idOf[ref[1]])]
       IN  s.present /\ s.ptr = ref[1] => ref[2] < s.generation

Present(table_slots) == {i \in ObjectTable!Slots : table_slots[i].present}

TableIInv == TableTyped /\ InPlace /\ Latest /\ Retired /\ held = Cardinality(Present(slots))

LEMMA TableCounts == \A S : ObjectTable!Cardinality(S) = Cardinality(S)
  BY DEF ObjectTable!Cardinality, Cardinality

LEMMA PresentAreFinite ==
  ASSUME NEW s
  PROVE  IsFiniteSet(Present(s)) /\ Cardinality(Present(s)) \in Nat
<1>1. IsFiniteSet(ObjectTable!Slots)
  BY TableAssumption, FS_Interval DEF ObjectTable!Slots
<1> QED
  BY <1>1, FS_Subset, FS_CardinalityType DEF Present

LEMMA Probed ==
  ASSUME NEW id \in Ids
  PROVE  id \in Nat /\ ObjectTable!Probe(id) \in ObjectTable!Slots
  BY TableAssumption DEF ObjectTable!Probe, ObjectTable!Slots

LEMMA TableInit == ObjectTable!Init => TableIInv
<1> SUFFICES ASSUME ObjectTable!Init PROVE TableIInv
  OBVIOUS
<1>1. Present(slots) = {}
  BY DEF ObjectTable!Init, Present
<1>2. held = Cardinality(Present(slots))
  BY <1>1, FS_EmptySet DEF ObjectTable!Init
<1>3. \A i \in ObjectTable!Slots : slots[i] \in Slot /\ ~slots[i].present
  BY DEF ObjectTable!Init, Slot
<1>4. TableTyped
  BY <1>3 DEF ObjectTable!Init, TableTyped
<1>5. \A id \in Ids : ~ObjectTable!Holds(id)
  BY <1>3, Probed DEF ObjectTable!Holds
<1> QED
  BY <1>2, <1>3, <1>4, <1>5 DEF ObjectTable!Init, TableIInv, InPlace, Latest, Retired

\* Writing the slot of an object changes the count by that slot alone.
LEMMA OneMoreOrLess ==
  ASSUME NEW i \in ObjectTable!Slots, NEW s, NEW t,
         \A j \in ObjectTable!Slots \ {i} : t[j] = s[j],
         s[i].present \in BOOLEAN, t[i].present \in BOOLEAN
  PROVE  Cardinality(Present(t)) =
           Cardinality(Present(s)) + (IF t[i].present THEN 1 ELSE 0)
                                   - (IF s[i].present THEN 1 ELSE 0)
<1>1. \A r : IsFiniteSet(Present(r)) /\ Cardinality(Present(r)) \in Nat
  BY PresentAreFinite
<1>2. CASE t[i].present = s[i].present
  <2>1. Present(t) = Present(s)
    BY <1>2 DEF Present
  <2> QED
    BY <1>1, <1>2, <2>1
<1>3. CASE t[i].present /\ ~s[i].present
  <2>1. i \notin Present(s) /\ Present(t) = Present(s) \cup {i}
    BY <1>3 DEF Present
  <2>2. Cardinality(Present(t)) = Cardinality(Present(s)) + 1
    BY <1>1, <2>1, FS_AddElement
  <2> QED
    BY <1>1, <1>3, <2>2
<1>4. CASE ~t[i].present /\ s[i].present
  <2>1. i \in Present(s) /\ Present(t) = Present(s) \ {i}
    BY <1>4 DEF Present
  <2>2. Cardinality(Present(t)) = Cardinality(Present(s)) - 1
    BY <1>1, <2>1, FS_RemoveElement
  <2> QED
    BY <1>1, <1>4, <2>2
<1> QED
  BY <1>2, <1>3, <1>4

\* What insert, refresh and remove have in common: the slot of an id is written, which held
\* that id or nothing, and holds after it an object of that id in its generation or nothing.
LEMMA Rewritten ==
  ASSUME TableIInv, NEW id \in Ids, NEW s \in Slot,
         slots' = [slots EXCEPT ![ObjectTable!Probe(id)] = s], s.id = id,
         s.present => /\ s.ptr \in KObjects /\ idOf[s.ptr] = id
                      /\ s.generation = generation[s.ptr],
         dead' = dead \/ (s.present /\ dead' = dead \cup ObjectTable!Past(s.ptr)),
         ~slots[ObjectTable!Probe(id)].present \/ slots[ObjectTable!Probe(id)].id = id,
         stored' = [stored EXCEPT ![id] = IF s.present THEN {s.ptr} ELSE {}],
         held' = held + (IF s.present THEN 1 ELSE 0)
                      - (IF slots[ObjectTable!Probe(id)].present THEN 1 ELSE 0),
         UNCHANGED <<idOf, generation>>
  PROVE  TableIInv'
<1> DEFINE i == ObjectTable!Probe(id)
<1>1. i \in ObjectTable!Slots
  BY Probed
<1>2. /\ slots'[i] = s
      /\ \A j \in ObjectTable!Slots \ {i} : slots'[j] = slots[j]
      /\ slots' \in [ObjectTable!Slots -> Slot] /\ slots[i] \in Slot
  BY <1>1 DEF TableIInv, TableTyped
<1>3. held' = Cardinality(Present(slots'))
  <2> HIDE DEF i
  <2>1. slots[i].present \in BOOLEAN /\ slots'[i].present \in BOOLEAN
    BY <1>2 DEF Slot
  <2>2. \A j \in ObjectTable!Slots \ {i} : slots'[j] = slots[j]
    BY <1>2
  <2>3. Cardinality(Present(slots')) =
          Cardinality(Present(slots)) + (IF slots'[i].present THEN 1 ELSE 0)
            - (IF slots[i].present THEN 1 ELSE 0)
    <3> DEFINE old == slots
               new == slots'
    <3>1. /\ old[i].present \in BOOLEAN /\ new[i].present \in BOOLEAN
          /\ \A j \in ObjectTable!Slots \ {i} : new[j] = old[j]
      BY <2>1, <2>2
    <3> HIDE DEF old, new
    <3>2. Cardinality(Present(new)) =
            Cardinality(Present(old)) + (IF new[i].present THEN 1 ELSE 0)
              - (IF old[i].present THEN 1 ELSE 0)
      BY <1>1, <3>1, OneMoreOrLess
    <3> QED
      BY <3>2 DEF old, new
  <2>4. held' = held + (IF slots'[i].present THEN 1 ELSE 0) - (IF slots[i].present THEN 1 ELSE 0)
    <3>1. slots'[i].present = s.present
      BY <1>2
    <3> QED
      BY <3>1 DEF i
  <2>5. held = Cardinality(Present(slots))
    BY DEF TableIInv
  <2> QED
    BY <2>3, <2>4, <2>5
<1>4. TableTyped'
  <2>1. (IF s.present THEN {s.ptr} ELSE {}) \in SUBSET KObjects
    OBVIOUS
  <2>2. stored' \in [Ids -> SUBSET KObjects]
    BY <2>1 DEF TableIInv, TableTyped
  <2> QED
    BY <1>2, <2>2 DEF TableIInv, TableTyped
<1>5. InPlace'
  <2> SUFFICES ASSUME NEW j \in ObjectTable!Slots, slots'[j].present
               PROVE  /\ slots'[j].ptr \in KObjects /\ slots'[j].id = idOf[slots'[j].ptr]
                      /\ ObjectTable!Probe(slots'[j].id) = j
    BY DEF InPlace
  <2>1. CASE j = i
    BY <1>2, <2>1
  <2>2. CASE j # i
    <3>1. slots'[j] = slots[j]
      BY <1>2, <2>2
    <3> QED
      BY <3>1 DEF TableIInv, InPlace
  <2> QED
    BY <2>1, <2>2
<1>6. Latest'
  <2> SUFFICES ASSUME NEW k \in Ids
               PROVE  stored'[k] = IF slots'[ObjectTable!Probe(k)].present
                                      /\ slots'[ObjectTable!Probe(k)].id = k
                                   THEN {slots'[ObjectTable!Probe(k)].ptr} ELSE {}
    BY DEF Latest, ObjectTable!Holds
  <2>1. CASE k = id
    <3>1. stored'[k] = IF s.present THEN {s.ptr} ELSE {}
      BY <2>1 DEF TableIInv, TableTyped
    <3> QED
      BY <1>2, <2>1, <3>1
  <2>2. CASE k # id
    <3>1. stored'[k] = stored[k] /\ ObjectTable!Probe(k) \in ObjectTable!Slots
      BY <2>2, Probed DEF TableIInv, TableTyped
    <3>2. stored[k] = IF slots[ObjectTable!Probe(k)].present
                         /\ slots[ObjectTable!Probe(k)].id = k
                      THEN {slots[ObjectTable!Probe(k)].ptr} ELSE {}
      BY DEF TableIInv, Latest, ObjectTable!Holds
    <3>3. CASE ObjectTable!Probe(k) = i
      BY <1>2, <2>2, <3>1, <3>2, <3>3
    <3>4. CASE ObjectTable!Probe(k) # i
      <4>1. slots'[ObjectTable!Probe(k)] = slots[ObjectTable!Probe(k)]
        BY <1>2, <3>1, <3>4
      <4> QED
        BY <3>1, <3>2, <4>1
    <3> QED
      BY <3>3, <3>4
  <2> QED
    BY <2>1, <2>2
<1>7. Retired'
  <2> SUFFICES ASSUME NEW ref \in dead'
               PROVE  /\ ref[1] \in KObjects /\ ref[2] \in Nat /\ ref[2] < generation[ref[1]]
                      /\ slots'[ObjectTable!Probe(idOf[ref[1]])].present
                         /\ slots'[ObjectTable!Probe(idOf[ref[1]])].ptr = ref[1]
                           => ref[2] < slots'[ObjectTable!Probe(idOf[ref[1]])].generation
    BY DEF Retired
  <2>1. generation \in [KObjects -> Nat] /\ idOf \in [KObjects -> Ids]
    BY DEF TableIInv, TableTyped
  <2>2. ref \in dead \/ (ref \in ObjectTable!Past(s.ptr) /\ s.present)
    OBVIOUS
  <2>3. /\ ref[1] \in KObjects /\ ref[2] \in Nat /\ ref[2] < generation[ref[1]]
    <3>1. CASE ref \in dead
      BY <3>1 DEF TableIInv, Retired
    <3>2. CASE ref \in ObjectTable!Past(s.ptr) /\ s.present
      BY <2>1, <3>2 DEF ObjectTable!Past
    <3> QED
      BY <2>2, <3>1, <3>2
  <2>4. ObjectTable!Probe(idOf[ref[1]]) \in ObjectTable!Slots
    BY <2>1, <2>3, Probed
  <2>5. CASE ObjectTable!Probe(idOf[ref[1]]) = i
    BY <1>2, <2>3, <2>5
  <2>6. CASE ObjectTable!Probe(idOf[ref[1]]) # i
    <3>1. slots'[ObjectTable!Probe(idOf[ref[1]])] = slots[ObjectTable!Probe(idOf[ref[1]])]
      BY <1>2, <2>4, <2>6
    <3>2. ref \in dead
      BY <2>2, <2>6 DEF ObjectTable!Past
    <3> QED
      BY <2>3, <3>1, <3>2 DEF TableIInv, Retired
  <2> QED
    BY <2>3, <2>5, <2>6
<1> QED
  BY <1>3, <1>4, <1>5, <1>6, <1>7 DEF TableIInv

LEMMA TableKept == TableIInv /\ [ObjectTable!Next]_ObjectTable!vars => TableIInv'
<1> SUFFICES ASSUME TableIInv, [ObjectTable!Next]_ObjectTable!vars PROVE TableIInv'
  OBVIOUS
<1>0. /\ idOf \in [KObjects -> Ids] /\ generation \in [KObjects -> Nat] /\ held \in Nat
      /\ slots \in [ObjectTable!Slots -> Slot] /\ stored \in [Ids -> SUBSET KObjects]
  BY PresentAreFinite DEF TableIInv, TableTyped
<1>1. ASSUME UNCHANGED ObjectTable!vars PROVE TableIInv'
  BY <1>1 DEF ObjectTable!vars, TableIInv, TableTyped, InPlace, Latest, Retired,
     ObjectTable!Holds
<1>2. ASSUME NEW o \in KObjects, ObjectTable!Insert(o) PROVE TableIInv'
  <2> DEFINE id == idOf[o]
             old == slots[ObjectTable!Probe(id)]
             s == [id |-> id, generation |-> generation[o], ptr |-> o, present |-> TRUE]
  <2>1. id \in Ids /\ id \in Nat /\ ObjectTable!Probe(id) \in ObjectTable!Slots
    BY <1>0, Probed
  <2>2. s \in Slot /\ old.present \in BOOLEAN
    BY <1>0, <2>1 DEF Slot
  <2>3. /\ slots' = [slots EXCEPT ![ObjectTable!Probe(id)] = s]
        /\ ~old.present \/ old.id = id
        /\ held' = IF old.present THEN held ELSE held + 1
        /\ stored' = [stored EXCEPT ![id] = {o}]
        /\ dead' = dead \cup ObjectTable!Past(o) /\ UNCHANGED <<idOf, generation>>
    BY <1>2 DEF ObjectTable!Insert
  <2>4. held' = held + (IF s.present THEN 1 ELSE 0) - (IF old.present THEN 1 ELSE 0)
    BY <1>0, <2>2, <2>3
  <2>5. s.id = id /\ s.present /\ s.generation = generation[o] /\ s.ptr = o
    OBVIOUS
  <2> HIDE DEF s
  <2>6. stored' = [stored EXCEPT ![id] = IF s.present THEN {s.ptr} ELSE {}]
    BY <2>3, <2>5
  <2> QED
    BY <2>1, <2>2, <2>3, <2>4, <2>5, <2>6, Rewritten
<1>3. ASSUME NEW id \in Ids, ObjectTable!Refresh(id) PROVE TableIInv'
  <2> DEFINE old == slots[ObjectTable!Probe(id)]
             s == [old EXCEPT !.generation = generation[old.ptr]]
  <2>1. ObjectTable!Probe(id) \in ObjectTable!Slots /\ old \in Slot
    BY <1>0, Probed
  <2>2. old.present /\ old.id = id /\ old.ptr \in KObjects /\ idOf[old.ptr] = id
    BY <1>3, <2>1 DEF ObjectTable!Refresh, ObjectTable!Holds, TableIInv, InPlace
  <2>3. /\ slots' = [slots EXCEPT ![ObjectTable!Probe(id)] = s]
        /\ dead' = dead \cup ObjectTable!Past(old.ptr)
        /\ UNCHANGED <<idOf, generation, stored, held>>
    BY <1>3 DEF ObjectTable!Refresh
  <2>4. /\ s \in Slot /\ s.id = id /\ s.present /\ s.ptr = old.ptr
        /\ s.generation = generation[old.ptr]
    BY <1>0, <2>1, <2>2 DEF Slot
  <2>5. held' = held + (IF s.present THEN 1 ELSE 0) - (IF old.present THEN 1 ELSE 0)
    BY <1>0, <2>2, <2>3, <2>4
  <2>6. stored[id] = {old.ptr}
    BY <2>2 DEF TableIInv, Latest, ObjectTable!Holds
  <2>7. stored' = [stored EXCEPT ![id] = {old.ptr}]
    BY <1>0, <2>3, <2>6
  <2> HIDE DEF s
  <2>8. stored' = [stored EXCEPT ![id] = IF s.present THEN {s.ptr} ELSE {}]
    BY <2>4, <2>7
  <2> HIDE DEF old
  <2> QED
    BY <2>2, <2>3, <2>4, <2>5, <2>8, Rewritten DEF old
<1>4. ASSUME NEW id \in Ids, ObjectTable!Remove(id) PROVE TableIInv'
  <2> DEFINE old == slots[ObjectTable!Probe(id)]
             s == [old EXCEPT !.present = FALSE, !.ptr = ObjectTable!Null]
  <2>1. ObjectTable!Probe(id) \in ObjectTable!Slots /\ old \in Slot
    BY <1>0, Probed
  <2>2. old.present /\ old.id = id
    BY <1>4 DEF ObjectTable!Remove, ObjectTable!Holds
  <2>3. /\ slots' = [slots EXCEPT ![ObjectTable!Probe(id)] = s]
        /\ held' = held - 1 /\ dead' = dead /\ stored' = [stored EXCEPT ![id] = {}]
        /\ UNCHANGED <<idOf, generation>>
    BY <1>0, <1>4, <2>1 DEF ObjectTable!Remove, Slot
  <2>4. s \in Slot /\ s.id = id /\ ~s.present
    BY <2>1, <2>2 DEF Slot
  <2>5. held' = held + (IF s.present THEN 1 ELSE 0) - (IF old.present THEN 1 ELSE 0)
    BY <1>0, <2>2, <2>3, <2>4
  <2> HIDE DEF s
  <2>6. stored' = [stored EXCEPT ![id] = IF s.present THEN {s.ptr} ELSE {}]
    BY <2>3, <2>4
  <2> QED
    BY <2>2, <2>3, <2>4, <2>5, <2>6, Rewritten
<1>5. ASSUME NEW o \in KObjects, ObjectTable!Retire(o) PROVE TableIInv'
  <2>1. /\ generation' \in [KObjects -> Nat] /\ UNCHANGED <<idOf, slots, held, stored, dead>>
        /\ \A p \in KObjects : generation'[p] >= generation[p] /\ generation[p] \in Nat
    BY <1>0, <1>5 DEF ObjectTable!Retire
  <2>2. Retired'
    <3> SUFFICES ASSUME NEW ref \in dead'
                 PROVE  /\ ref[1] \in KObjects /\ ref[2] \in Nat /\ ref[2] < generation'[ref[1]]
                        /\ slots[ObjectTable!Probe(idOf[ref[1]])].present
                           /\ slots[ObjectTable!Probe(idOf[ref[1]])].ptr = ref[1]
                             => ref[2] < slots[ObjectTable!Probe(idOf[ref[1]])].generation
      BY <2>1 DEF Retired
    <3> QED
      BY <2>1 DEF TableIInv, Retired
  <2>3. TableTyped' /\ InPlace' /\ Latest'
    BY <2>1 DEF TableIInv, TableTyped, InPlace, Latest, ObjectTable!Holds
  <2> QED
    BY <2>1, <2>2, <2>3 DEF TableIInv
<1> QED
  BY <1>1, <1>2, <1>3, <1>4, <1>5 DEF ObjectTable!Next

LEMMA TableMaps == TableIInv => ObjectTable!TableIsTheMap
<1> SUFFICES ASSUME TableIInv PROVE ObjectTable!TableIsTheMap
  OBVIOUS
<1>1. ASSUME NEW id \in Ids PROVE ObjectTable!LookupAnyGeneration(id) = stored[id]
  <2> DEFINE slot == slots[ObjectTable!Probe(id)]
             hits == {t \in {slot} : t.present /\ t.id = id}
  <2>1. /\ ObjectTable!LookupAnyGeneration(id) = {t.ptr : t \in hits}
        /\ stored[id] = IF slot.present /\ slot.id = id THEN {slot.ptr} ELSE {}
    BY DEF TableIInv, Latest, ObjectTable!Holds, ObjectTable!LookupAnyGeneration
  <2> HIDE DEF slot
  <2>2. CASE slot.present /\ slot.id = id
    <3>1. hits = {slot}
      BY <2>2
    <3> QED
      BY <2>1, <2>2, <3>1
  <2>3. CASE ~(slot.present /\ slot.id = id)
    <3>1. hits = {}
      BY <2>3
    <3> QED
      BY <2>1, <2>3, <3>1
  <2> QED
    BY <2>2, <2>3
<1>2. ASSUME NEW ref \in dead PROVE ref[1] \notin ObjectTable!Lookup(idOf[ref[1]], ref[2])
  <2>1. /\ ref[2] \in Nat
        /\ LET s == slots[ObjectTable!Probe(idOf[ref[1]])]
           IN  s.present /\ s.ptr = ref[1] => ref[2] < s.generation
    BY DEF TableIInv, Retired
  <2> QED
    BY <2>1 DEF ObjectTable!Lookup, ObjectTable!ValidFor
<1>3. held = ObjectTable!Cardinality({i \in ObjectTable!Slots : slots[i].present})
  BY TableCounts DEF TableIInv, Present
<1> QED
  BY <1>1, <1>2, <1>3 DEF ObjectTable!TableIsTheMap

-----------------------------------------------------------------------------
(* The page table.                                                         *)

SpaceIInv ==
  /\ \A b \in DOMAIN pages : pages[b] \in [phys : Nat, perm : Rights, dirty : BOOLEAN]
  /\ AddressSpace!PagesAgree

LEMMA SpaceInit == AddressSpace!Init => SpaceIInv
  BY DEF AddressSpace!Init, SpaceIInv, AddressSpace!PagesAgree, AddressSpace!Translate

\* What an address is translated to is the frame's base and its own offset in the page.
LEMMA Offsets ==
  ASSUME NEW p \in Nat, NEW b \in Nat
  PROVE  ((p \div PageSize) * PageSize) + (b % PageSize)
           = AddressSpace!PageBase(p) + (b - AddressSpace!PageBase(b))
<1>1. PageSize \in Nat /\ PageSize > 0
  BY SpaceAssumption
<1> DEFINE q == p \div PageSize
           k == q * PageSize
           m == p % PageSize
           n == b % PageSize
<1>2. q \in Nat /\ m \in Nat /\ n \in Nat /\ p = PageSize * q + m
  BY <1>1
<1>3. k \in Nat /\ k = PageSize * q
  BY <1>1, <1>2
<1>4. AddressSpace!PageBase(p) = p - m /\ AddressSpace!PageBase(b) = b - n
  BY DEF AddressSpace!PageBase
<1> HIDE DEF q, k, m, n
<1>5. k + n = (p - m) + (b - (b - n))
  BY <1>2, <1>3
<1> QED
  BY <1>4, <1>5 DEF k, q, n

LEMMA SpaceKept == SpaceIInv /\ [AddressSpace!Next]_AddressSpace!vars => SpaceIInv'
<1> SUFFICES ASSUME SpaceIInv, [AddressSpace!Next]_AddressSpace!vars PROVE SpaceIInv'
  OBVIOUS
<1>0. /\ \A b \in DOMAIN pages : pages[b] \in [phys : Nat, perm : Rights, dirty : BOOLEAN]
      /\ \A b \in Addresses : AddressSpace!Translate(b) = translated[b]
      /\ written = {p \in DOMAIN pages : pages[p].dirty}
  BY DEF SpaceIInv, AddressSpace!PagesAgree
<1>1. CASE UNCHANGED <<pages, translated, written>>
  BY <1>1 DEF SpaceIInv, AddressSpace!PagesAgree, AddressSpace!Translate
<1>2. ASSUME NEW a \in Addresses, NEW p \in Frames, NEW r \in Rights,
             AddressSpace!Map(a, p, r)
      PROVE  SpaceIInv'
  <2> DEFINE page == AddressSpace!PageBase(a)
             new == [phys |-> p \div PageSize, perm |-> r, dirty |-> FALSE]
  <2>1. /\ DOMAIN pages' = DOMAIN pages \cup {page} /\ pages'[page] = new
        /\ \A b \in DOMAIN pages : b # page => pages'[b] = pages[b]
        /\ written' = written \ {page}
    BY <1>2 DEF AddressSpace!Map
  <2>2. new \in [phys : Nat, perm : Rights, dirty : BOOLEAN] /\ ~new.dirty
        /\ new.phys = p \div PageSize
    BY SpaceAssumption
  <2>3. translated' = [b \in Addresses |->
                         IF AddressSpace!PageBase(b) = page
                         THEN {AddressSpace!PageBase(p) + (b - page)} ELSE translated[b]]
    BY <1>2 DEF AddressSpace!Map
  <2> HIDE DEF page, new
  <2>4. ASSUME NEW b \in Addresses PROVE AddressSpace!Translate(b)' = translated'[b]
    <3>1. CASE AddressSpace!PageBase(b) = page
      <4>1. AddressSpace!Translate(b)' = {(new.phys * PageSize) + (b % PageSize)}
        BY <2>1, <3>1 DEF AddressSpace!Translate
      <4>2. translated'[b] = {AddressSpace!PageBase(p) + (b - AddressSpace!PageBase(b))}
        BY <2>3, <3>1
      <4>3. (new.phys * PageSize) + (b % PageSize)
              = AddressSpace!PageBase(p) + (b - AddressSpace!PageBase(b))
        BY <2>2, Offsets, SpaceAssumption
      <4> QED
        BY <4>1, <4>2, <4>3
    <3>2. CASE AddressSpace!PageBase(b) # page
      <4>1. AddressSpace!Translate(b)' = AddressSpace!Translate(b)
        BY <2>1, <3>2 DEF AddressSpace!Translate
      <4> QED
        BY <1>0, <2>3, <3>2, <4>1
    <3> QED
      BY <3>1, <3>2
  <2>5. written' = {b \in DOMAIN pages' : pages'[b].dirty}
    BY <1>0, <2>1, <2>2
  <2>6. \A b \in DOMAIN pages' : pages'[b] \in [phys : Nat, perm : Rights, dirty : BOOLEAN]
    BY <1>0, <2>1, <2>2
  <2> QED
    BY <2>3, <2>4, <2>5, <2>6 DEF SpaceIInv, AddressSpace!PagesAgree
<1>3. ASSUME NEW a \in Addresses, AddressSpace!Unmap(a) PROVE SpaceIInv'
  <2> DEFINE page == AddressSpace!PageBase(a)
  <2>1. /\ DOMAIN pages' = DOMAIN pages \ {page}
        /\ \A b \in DOMAIN pages' : pages'[b] = pages[b]
        /\ written' = written \ {page}
        /\ translated' = [b \in Addresses |->
                            IF AddressSpace!PageBase(b) = page THEN {} ELSE translated[b]]
    BY <1>3 DEF AddressSpace!Unmap
  <2> HIDE DEF page
  <2>2. ASSUME NEW b \in Addresses PROVE AddressSpace!Translate(b)' = translated'[b]
    <3>1. CASE AddressSpace!PageBase(b) = page
      BY <2>1, <3>1 DEF AddressSpace!Translate
    <3>2. CASE AddressSpace!PageBase(b) # page
      <4>1. AddressSpace!Translate(b)' = AddressSpace!Translate(b)
        BY <2>1, <3>2 DEF AddressSpace!Translate
      <4> QED
        BY <1>0, <2>1, <3>2, <4>1
    <3> QED
      BY <3>1, <3>2
  <2> QED
    BY <1>0, <2>1, <2>2 DEF SpaceIInv, AddressSpace!PagesAgree
<1>4. ASSUME NEW a \in Addresses, AddressSpace!MarkDirty(a) PROVE SpaceIInv'
  <2> DEFINE page == AddressSpace!PageBase(a)
  <2>1. /\ page \in DOMAIN pages /\ DOMAIN pages' = DOMAIN pages
        /\ pages'[page] = [pages[page] EXCEPT !.dirty = TRUE]
        /\ \A b \in DOMAIN pages : b # page => pages'[b] = pages[b]
        /\ written' = written \cup {page} /\ translated' = translated
    BY <1>4 DEF AddressSpace!MarkDirty
  <2> HIDE DEF page
  <2>2. /\ pages'[page] \in [phys : Nat, perm : Rights, dirty : BOOLEAN]
        /\ pages'[page].dirty /\ pages'[page].phys = pages[page].phys
    BY <1>0, <2>1
  <2>3. \A b \in DOMAIN pages : pages'[b].phys = pages[b].phys
    BY <2>1, <2>2
  <2>4. \A b \in Addresses : AddressSpace!Translate(b)' = AddressSpace!Translate(b)
    BY <2>1, <2>3 DEF AddressSpace!Translate
  <2>5. written' = {b \in DOMAIN pages' : pages'[b].dirty}
    BY <1>0, <2>1, <2>2
  <2>6. \A b \in DOMAIN pages' : pages'[b] \in [phys : Nat, perm : Rights, dirty : BOOLEAN]
    BY <1>0, <2>1, <2>2
  <2> QED
    BY <1>0, <2>1, <2>4, <2>5, <2>6 DEF SpaceIInv, AddressSpace!PagesAgree
<1>5. CASE UNCHANGED AddressSpace!vars
  BY <1>1, <1>5 DEF AddressSpace!vars
<1>6. ASSUME NEW v, AddressSpace!Insert(v) PROVE SpaceIInv'
  BY <1>1, <1>6 DEF AddressSpace!Insert
<1>7. ASSUME NEW i, AddressSpace!Erase(i) PROVE SpaceIInv'
  BY <1>1, <1>7 DEF AddressSpace!Erase
<1>8. ASSUME NEW a, AddressSpace!Split(a) PROVE SpaceIInv'
  BY <1>1, <1>8 DEF AddressSpace!Split
<1>9. CASE AddressSpace!Coalesce
  BY <1>1, <1>9 DEF AddressSpace!Coalesce
<1> QED
  BY <1>2, <1>3, <1>4, <1>5, <1>6, <1>7, <1>8, <1>9 DEF AddressSpace!Next

-----------------------------------------------------------------------------
(* The VMA tree.  Its vector is in order and its intervals are apart, so   *)
(* that at most one holds an address and the search finds that one.        *)

Vma == [start : Nat, end : Nat, rights : Rights, backing : Backings]

InOrderApart(es) ==
  /\ es \in Seq(Vma)
  /\ \A i \in 1..Len(es) : es[i].start < es[i].end
  /\ \A i, j \in 1..Len(es) : i < j => es[i].end <= es[j].start

\* What the entries say of each address is what m says.
Stands(es, m) ==
  \A a \in Addresses :
    /\ \A i \in 1..Len(es) :
         AddressSpace!Holds(es[i], a) => m[a] = <<es[i].rights, es[i].backing>>
    /\ (\A i \in 1..Len(es) : ~AddressSpace!Holds(es[i], a)) => m[a] = AddressSpace!Nowhere

TreeIInv ==
  /\ InOrderApart(entries) /\ Stands(entries, mapped)
  /\ mapped = [a \in Addresses |-> mapped[a]]

LEMMA Removed ==
  ASSUME NEW S, NEW es \in Seq(S), NEW i \in 1..Len(es)
  PROVE  LET fs == AddressSpace!RemoveAt(es, i) IN
           /\ fs \in Seq(S) /\ Len(fs) = Len(es) - 1
           /\ \A j \in 1..Len(fs) : fs[j] = IF j < i THEN es[j] ELSE es[j + 1]
<1> DEFINE front == SubSeq(es, 1, i - 1)
           back == SubSeq(es, i + 1, Len(es))
           fs == front \o back
<1>1. front \in Seq(S) /\ Len(front) = i - 1 /\ \A j \in 1..(i - 1) : front[j] = es[j]
  OBVIOUS
<1>2. /\ back \in Seq(S) /\ Len(back) = Len(es) - i
      /\ \A j \in 1..(Len(es) - i) : back[j] = es[i + j]
  OBVIOUS
<1>3. AddressSpace!RemoveAt(es, i) = fs
  BY DEF AddressSpace!RemoveAt
<1> HIDE DEF front, back
<1>4. /\ fs \in Seq(S) /\ Len(fs) = Len(es) - 1
      /\ \A j \in 1..Len(fs) :
           fs[j] = IF j <= Len(front) THEN front[j] ELSE back[j - Len(front)]
  <2>1. /\ fs \in Seq(S) /\ Len(fs) = Len(front) + Len(back)
        /\ \A j \in 1..(Len(front) + Len(back)) :
             fs[j] = IF j <= Len(front) THEN front[j] ELSE back[j - Len(front)]
    BY <1>1, <1>2, ConcatProperties, Zenon
  <2> HIDE DEF fs
  <2> QED
    BY <1>1, <1>2, <2>1
<1> HIDE DEF fs
<1>5. ASSUME NEW j \in 1..Len(fs) PROVE fs[j] = IF j < i THEN es[j] ELSE es[j + 1]
  <2>1. CASE j < i
    BY <1>1, <1>2, <1>4, <2>1
  <2>2. CASE j >= i
    <3>1. fs[j] = back[j - (i - 1)]
      BY <1>1, <1>2, <1>4, <2>2
    <3>2. j - (i - 1) \in 1..(Len(es) - i) /\ i + (j - (i - 1)) = j + 1
      BY <1>4, <2>2
    <3>3. back[j - (i - 1)] = es[i + (j - (i - 1))]
      BY <1>2, <3>2
    <3> QED
      BY <2>2, <3>1, <3>2, <3>3
  <2> QED
    BY <2>1, <2>2
<1> QED
  BY <1>3, <1>4, <1>5

\* One more entry than a sorted vector has can be sorted: it goes before the first that
\* begins after it.
LEMMA OrderExists ==
  ASSUME NEW es \in Seq(Vma), NEW n \in Nat, Len(es) = n + 1,
         \A i, j \in 1..n : i < j => es[i].start < es[j].start
  PROVE  \E p \in AddressSpace!Bijection(DOMAIN es, DOMAIN es) :
           \A i, j \in DOMAIN es : i < j => es[p[i]].start <= es[p[j]].start
<1> DEFINE v == es[n + 1]
           Later == {i \in 1..(n + 1) : i = n + 1 \/ es[i].start > v.start}
<1>1. n + 1 \in Later /\ Later \subseteq Nat
  OBVIOUS
<1>2. PICK k \in Later : \A i \in Later : k <= i
  <2> HIDE DEF Later
  <2> QED
    BY <1>1, LeastNatural
<1>3. DOMAIN es = 1..(n + 1) /\ k \in 1..(n + 1) /\ \A i \in 1..(n + 1) : es[i].start \in Nat
  <2>1. \A i \in 1..Len(es) : es[i] \in Vma
    OBVIOUS
  <2> QED
    BY <2>1 DEF Vma
<1>4. \A i \in 1..n : IF i < k THEN es[i].start <= v.start ELSE es[i].start > v.start
  <2> SUFFICES ASSUME NEW i \in 1..n
               PROVE  IF i < k THEN es[i].start <= v.start ELSE es[i].start > v.start
    OBVIOUS
  <2>1. CASE i < k
    BY <1>2, <1>3, <2>1
  <2>2. CASE i >= k
    <3>1. k \in 1..n /\ es[k].start > v.start
      BY <1>2, <1>3, <2>2
    <3>2. es[k].start <= es[i].start
      BY <1>3, <2>2, <3>1
    <3> QED
      BY <1>3, <2>2, <3>1, <3>2
  <2> QED
    BY <1>3, <2>1, <2>2
<1> DEFINE p == [i \in 1..(n + 1) |-> IF i < k THEN i ELSE IF i = k THEN n + 1 ELSE i - 1]
<1> HIDE DEF Later, v
<1>5. p \in [1..(n + 1) -> 1..(n + 1)]
  BY <1>3
<1>6. \A i, j \in 1..(n + 1) : p[i] = p[j] => i = j
  BY <1>3
<1>7. ASSUME NEW t \in 1..(n + 1) PROVE \E s \in 1..(n + 1) : p[s] = t
  <2> DEFINE s == IF t = n + 1 THEN k ELSE IF t < k THEN t ELSE t + 1
  <2>1. s \in 1..(n + 1) /\ p[s] = t
    BY <1>3
  <2> QED
    BY <2>1
<1>8. ASSUME NEW i \in 1..(n + 1), NEW j \in 1..(n + 1), i < j
      PROVE  es[p[i]].start <= es[p[j]].start
  <2>1. CASE i = k
    <3>1. p[i] = n + 1 /\ p[j] = j - 1 /\ j - 1 \in 1..n /\ j - 1 >= k
      BY <1>3, <1>8, <2>1
    <3> QED
      BY <1>3, <1>4, <3>1 DEF v
  <2>2. CASE j = k
    <3>1. p[i] = i /\ p[j] = n + 1 /\ i \in 1..n /\ i < k
      BY <1>3, <1>8, <2>2
    <3> QED
      BY <1>3, <1>4, <3>1 DEF v
  <2>3. CASE i # k /\ j # k
    <3>1. p[i] \in 1..n /\ p[j] \in 1..n /\ p[i] < p[j]
      BY <1>3, <1>8, <2>3
    <3> QED
      BY <1>3, <3>1
  <2> QED
    BY <2>1, <2>2, <2>3
<1>9. p \in AddressSpace!Bijection(DOMAIN es, DOMAIN es)
  <2>1. p \in AddressSpace!Injection(1..(n + 1), 1..(n + 1))
    BY <1>5, <1>6 DEF AddressSpace!Injection, AddressSpace!IsInjective
  <2>2. p \in AddressSpace!Surjection(1..(n + 1), 1..(n + 1))
    BY <1>5, <1>7 DEF AddressSpace!Surjection
  <2> QED
    BY <1>3, <2>1, <2>2 DEF AddressSpace!Bijection
<1> QED
  BY <1>3, <1>8, <1>9

LEMMA SortedKeeps ==
  ASSUME NEW es \in Seq(Vma), NEW n \in Nat, Len(es) = n + 1,
         \A i, j \in 1..n : i < j => es[i].start < es[j].start,
         \A i \in 1..n : es[i].start # es[n + 1].start
  PROVE  LET fs == AddressSpace!Sorted(es) IN
           /\ fs \in Seq(Vma) /\ Len(fs) = n + 1
           /\ \A i \in 1..(n + 1) : \E j \in 1..(n + 1) : fs[i] = es[j]
           /\ \A j \in 1..(n + 1) : \E i \in 1..(n + 1) : fs[i] = es[j]
           /\ \A i, j \in 1..(n + 1) : i < j => fs[i].start < fs[j].start
<1> DEFINE InOrder_(p) == \A i, j \in DOMAIN es : i < j => es[p[i]].start <= es[p[j]].start
           order == CHOOSE p \in AddressSpace!Bijection(DOMAIN es, DOMAIN es) : InOrder_(p)
           fs == [i \in DOMAIN es |-> es[order[i]]]
<1>1. AddressSpace!Sorted(es) = fs
  BY DEF AddressSpace!Sorted
<1>2. DOMAIN es = 1..(n + 1) /\ \A i \in 1..(n + 1) : es[i] \in Vma /\ es[i].start \in Nat
  <2>1. \A i \in 1..Len(es) : es[i] \in Vma
    OBVIOUS
  <2> QED
    BY <2>1 DEF Vma
<1>3. order \in AddressSpace!Bijection(DOMAIN es, DOMAIN es) /\ InOrder_(order)
  <2>1. \E p \in AddressSpace!Bijection(DOMAIN es, DOMAIN es) : InOrder_(p)
    BY OrderExists
  <2> HIDE DEF InOrder_
  <2> QED
    BY <2>1
<1> HIDE DEF order
<1>4. /\ order \in [1..(n + 1) -> 1..(n + 1)]
      /\ \A i, j \in 1..(n + 1) : order[i] = order[j] => i = j
      /\ \A j \in 1..(n + 1) : \E i \in 1..(n + 1) : order[i] = j
  BY <1>2, <1>3 DEF AddressSpace!Bijection, AddressSpace!Injection, AddressSpace!Surjection,
     AddressSpace!IsInjective
<1>5. fs \in [1..(n + 1) -> Vma]
  BY <1>2, <1>4
<1>6. fs \in Seq(Vma) /\ Len(fs) = n + 1
  BY <1>5
<1>7. \A i \in 1..(n + 1) : fs[i] = es[order[i]]
  BY <1>2
<1>8. ASSUME NEW i \in 1..(n + 1), NEW j \in 1..(n + 1), i < j PROVE fs[i].start < fs[j].start
  <2>1. es[order[i]].start <= es[order[j]].start
    BY <1>2, <1>3, <1>8
  <2>2. order[i] # order[j] /\ order[i] \in 1..(n + 1) /\ order[j] \in 1..(n + 1)
    <3>1. order[i] = order[j] => i = j
      BY <1>4
    <3> QED
      BY <1>4, <1>8, <3>1
  <2>3. \A k, l \in 1..(n + 1) : k # l => es[k].start # es[l].start
    <3> SUFFICES ASSUME NEW k \in 1..(n + 1), NEW l \in 1..(n + 1), k # l
                 PROVE  es[k].start # es[l].start
      OBVIOUS
    <3>1. CASE k = n + 1
      BY <1>2, <3>1
    <3>2. CASE l = n + 1
      BY <1>2, <3>2
    <3>3. CASE k \in 1..n /\ l \in 1..n
      BY <1>2, <3>3
    <3> QED
      BY <3>1, <3>2, <3>3
  <2> QED
    BY <1>2, <1>7, <2>1, <2>2, <2>3
<1>9. /\ \A i \in 1..(n + 1) : \E j \in 1..(n + 1) : fs[i] = es[j]
      /\ \A j \in 1..(n + 1) : \E i \in 1..(n + 1) : fs[i] = es[j]
  BY <1>4, <1>7, ZenonT(60)
<1> HIDE DEF fs
<1> QED
  BY <1>1, <1>6, <1>8, <1>9

\* Inserting v, or splitting off a right half v: sorted and apart again.
LEMMA SortedApart ==
  ASSUME NEW es \in Seq(Vma), NEW v \in Vma, v.start < v.end, InOrderApart(es),
         \A i \in 1..Len(es) : ~AddressSpace!Overlap(es[i], v)
  PROVE  LET fs == AddressSpace!Sorted(Append(es, v)) IN
           /\ InOrderApart(fs)
           /\ \A i \in 1..Len(fs) : fs[i] = v \/ \E j \in 1..Len(es) : fs[i] = es[j]
           /\ \E i \in 1..Len(fs) : fs[i] = v
           /\ \A j \in 1..Len(es) : \E i \in 1..Len(fs) : fs[i] = es[j]
<1> DEFINE n == Len(es)
           gs == Append(es, v)
           fs == AddressSpace!Sorted(gs)
<1>1. /\ n \in Nat /\ gs \in Seq(Vma) /\ Len(gs) = n + 1 /\ gs[n + 1] = v
      /\ \A i \in 1..n : gs[i] = es[i] /\ es[i] \in Vma
  OBVIOUS
<1>2. /\ v.start \in Nat /\ v.end \in Nat
      /\ \A i \in 1..n : es[i].start \in Nat /\ es[i].end \in Nat /\ es[i].start < es[i].end
      /\ \A i, j \in 1..n : i < j => es[i].end <= es[j].start
  BY <1>1 DEF Vma, InOrderApart
<1>3. \A i \in 1..n : es[i].end <= v.start \/ v.end <= es[i].start
  BY DEF AddressSpace!Overlap
<1> HIDE DEF gs, n
<1>4. /\ \A i, j \in 1..n : i < j => gs[i].start < gs[j].start
      /\ \A i \in 1..n : gs[i].start # gs[n + 1].start
  <2>1. ASSUME NEW i \in 1..n, NEW j \in 1..n, i < j PROVE gs[i].start < gs[j].start
    <3>1. es[i].end <= es[j].start
      BY <1>2, <2>1
    <3> QED
      BY <1>1, <1>2, <3>1
  <2>2. ASSUME NEW i \in 1..n PROVE gs[i].start # gs[n + 1].start
    BY <1>1, <1>2, <1>3
  <2> QED
    BY <2>1, <2>2
<1>5. /\ fs \in Seq(Vma) /\ Len(fs) = n + 1
      /\ \A i \in 1..(n + 1) : \E j \in 1..(n + 1) : fs[i] = gs[j]
      /\ \A j \in 1..(n + 1) : \E i \in 1..(n + 1) : fs[i] = gs[j]
      /\ \A i, j \in 1..(n + 1) : i < j => fs[i].start < fs[j].start
  BY <1>1, <1>4, SortedKeeps
<1> HIDE DEF fs
<1>6. ASSUME NEW i \in 1..(n + 1) PROVE fs[i] = v \/ \E j \in 1..n : fs[i] = es[j]
  <2>1. PICK j \in 1..(n + 1) : fs[i] = gs[j]
    BY <1>5
  <2>2. CASE j = n + 1
    BY <1>1, <2>1, <2>2
  <2>3. CASE j # n + 1
    BY <1>1, <2>1, <2>3
  <2> QED
    BY <2>2, <2>3
<1>7. ASSUME NEW i \in 1..(n + 1), NEW j \in 1..(n + 1), i < j PROVE fs[i].end <= fs[j].start
  <2>1. fs[i].start < fs[j].start
    BY <1>5, <1>7
  <2>2. CASE fs[i] = v
    <3>1. fs[j] # v
      BY <1>2, <2>1, <2>2
    <3>2. PICK k \in 1..n : fs[j] = es[k]
      BY <1>6, <3>1
    <3> QED
      BY <1>2, <1>3, <2>1, <2>2, <3>2
  <2>3. CASE fs[j] = v
    <3>1. fs[i] # v
      BY <1>2, <2>1, <2>3
    <3>2. PICK k \in 1..n : fs[i] = es[k]
      BY <1>6, <3>1
    <3> QED
      BY <1>2, <1>3, <2>1, <2>3, <3>2
  <2>4. ASSUME NEW k \in 1..n, NEW l \in 1..n, fs[i] = es[k], fs[j] = es[l]
        PROVE  fs[i].end <= fs[j].start
    BY <1>2, <2>1, <2>4
  <2> QED
    BY <1>6, <2>2, <2>3, <2>4
<1>8. \A i \in 1..(n + 1) : fs[i].start < fs[i].end
  BY <1>2, <1>6
<1>9. InOrderApart(fs)
  BY <1>5, <1>7, <1>8 DEF InOrderApart
<1>10. \E i \in 1..(n + 1) : fs[i] = v
  BY <1>1, <1>5
<1>11. \A j \in 1..n : \E i \in 1..(n + 1) : fs[i] = es[j]
  BY <1>1, <1>5
<1> QED
  BY <1>5, <1>6, <1>9, <1>10, <1>11 DEF n, gs, fs

-----------------------------------------------------------------------------
(* Coalescing: each turn joins two entries to one that says the same.      *)

Vectors(n) == [es : {es \in Seq(Vma) : Len(es) \in 0..n}, at : Nat \ {0}]

Standing(z, m) == InOrderApart(z.es) /\ Stands(z.es, m)

LEMMA JoinedIsVector ==
  ASSUME NEW n \in Nat, NEW z \in Vectors(n)
  PROVE  AddressSpace!Joined(z) \in Vectors(n)
<1>1. z.es \in Seq(Vma) /\ Len(z.es) \in 0..n /\ z.at \in Nat \ {0}
  BY DEF Vectors
<1>2. CASE z.at >= Len(z.es)
  BY <1>2 DEF AddressSpace!Joined
<1>3. CASE z.at < Len(z.es) /\ AddressSpace!Mergeable(z.es[z.at], z.es[z.at + 1])
  <2> DEFINE gs == [z.es EXCEPT ![z.at].end = z.es[z.at + 1].end]
             fs == AddressSpace!RemoveAt(gs, z.at + 1)
  <2>1. z.es[z.at] \in Vma /\ z.es[z.at + 1] \in Vma
    BY <1>1, <1>3
  <2>2. [z.es[z.at] EXCEPT !.end = z.es[z.at + 1].end] \in Vma
    BY <2>1 DEF Vma
  <2>3. gs \in Seq(Vma) /\ Len(gs) = Len(z.es) /\ z.at + 1 \in 1..Len(gs)
    BY <1>1, <1>3, <2>2
  <2> HIDE DEF gs
  <2>4. fs \in Seq(Vma) /\ Len(fs) = Len(z.es) - 1
    BY <2>3, Removed
  <2>5. AddressSpace!Joined(z) = [es |-> fs, at |-> z.at]
    BY <1>1, <1>3 DEF AddressSpace!Joined, gs, Vectors
  <2> HIDE DEF fs
  <2>6. Len(fs) \in 0..n
    BY <1>1, <1>3, <2>4
  <2> QED
    BY <1>1, <2>4, <2>5, <2>6 DEF Vectors
<1>4. CASE z.at < Len(z.es) /\ ~AddressSpace!Mergeable(z.es[z.at], z.es[z.at + 1])
  <2>1. AddressSpace!Joined(z) = [es |-> z.es, at |-> z.at + 1]
    BY <1>1, <1>4 DEF AddressSpace!Joined, Vectors
  <2> QED
    BY <1>1, <2>1 DEF Vectors
<1> QED
  BY <1>1, <1>2, <1>3, <1>4

LEMMA JoinedStands ==
  ASSUME NEW n \in Nat, NEW z \in Vectors(n), NEW m, Standing(z, m)
  PROVE  Standing(AddressSpace!Joined(z), m)
<1>1. z.es \in Seq(Vma) /\ Len(z.es) \in 0..n /\ z.at \in Nat \ {0}
  BY DEF Vectors
<1>2. CASE z.at >= Len(z.es)
  BY <1>2 DEF AddressSpace!Joined
<1>3. CASE z.at < Len(z.es) /\ AddressSpace!Mergeable(z.es[z.at], z.es[z.at + 1])
  <2> DEFINE es == z.es
             i == z.at
             gs == [es EXCEPT ![i].end = es[i + 1].end]
             fs == AddressSpace!RemoveAt(gs, i + 1)
             k == Len(es)
  <2>1. /\ k \in Nat /\ i \in 1..k /\ i + 1 \in 1..k
        /\ \A j \in 1..k : es[j] \in Vma
    BY <1>1, <1>3
  <2>2. /\ es[i].end = es[i + 1].start
        /\ es[i].rights = es[i + 1].rights /\ es[i].backing = es[i + 1].backing
    BY <1>3 DEF AddressSpace!Mergeable
  <2>3. [es[i] EXCEPT !.end = es[i + 1].end] \in Vma
    BY <2>1 DEF Vma
  <2>4. gs \in Seq(Vma) /\ Len(gs) = k
    BY <1>1, <2>1, <2>3
  <2>5. /\ gs[i] = [es[i] EXCEPT !.end = es[i + 1].end]
        /\ \A j \in 1..k : j # i => gs[j] = es[j]
    BY <1>1, <2>1
  <2>6. AddressSpace!Joined(z).es = fs
    BY <1>1, <1>3 DEF AddressSpace!Joined, Vectors
  <2> HIDE DEF gs
  <2>7. /\ fs \in Seq(Vma) /\ Len(fs) = k - 1
        /\ \A j \in 1..(k - 1) : fs[j] = IF j < i + 1 THEN gs[j] ELSE gs[j + 1]
    <3> HIDE DEF i, k, es
    <3>1. i + 1 \in 1..Len(gs)
      BY <2>1, <2>4
    <3>2. /\ fs \in Seq(Vma) /\ Len(fs) = Len(gs) - 1
          /\ \A j \in 1..Len(fs) : fs[j] = IF j < i + 1 THEN gs[j] ELSE gs[j + 1]
      BY <2>4, <3>1, Removed
    <3> HIDE DEF fs
    <3> QED
      BY <2>4, <3>2
  <2> HIDE DEF fs, k, i, es
  <2>8. \A j \in 1..(k - 1) :
          fs[j] = IF j < i THEN es[j]
                  ELSE IF j = i THEN [es[i] EXCEPT !.end = es[i + 1].end]
                  ELSE es[j + 1]
    BY <2>1, <2>5, <2>7, SMTT(30)
  <2>9. /\ \A j \in 1..k : es[j].start \in Nat /\ es[j].end \in Nat /\ es[j].start < es[j].end
        /\ \A j, l \in 1..k : j < l => es[j].end <= es[l].start
    BY <2>1 DEF Standing, InOrderApart, Vma, es, k
  <2>10. \A j \in 1..(k - 1) :
           /\ fs[j].start = IF j <= i THEN es[j].start ELSE es[j + 1].start
           /\ fs[j].end = IF j < i THEN es[j].end ELSE es[j + 1].end
           /\ fs[j].rights = (IF j <= i THEN es[j].rights ELSE es[j + 1].rights)
           /\ fs[j].backing = (IF j <= i THEN es[j].backing ELSE es[j + 1].backing)
    BY <2>1, <2>8 DEF Vma
  <2>11. InOrderApart(fs)
    <3>1. ASSUME NEW j \in 1..(k - 1) PROVE fs[j].start < fs[j].end
      BY <2>1, <2>2, <2>9, <2>10
    <3>2. ASSUME NEW j \in 1..(k - 1), NEW l \in 1..(k - 1), j < l
          PROVE  fs[j].end <= fs[l].start
      BY <2>1, <2>9, <2>10, <3>2
    <3> QED
      BY <2>7, <3>1, <3>2 DEF InOrderApart
  <2>12. Stands(fs, m)
    <3> SUFFICES ASSUME NEW a \in Addresses
                 PROVE  /\ \A j \in 1..(k - 1) :
                             AddressSpace!Holds(fs[j], a) => m[a] = <<fs[j].rights, fs[j].backing>>
                        /\ (\A j \in 1..(k - 1) : ~AddressSpace!Holds(fs[j], a))
                             => m[a] = AddressSpace!Nowhere
      BY <2>7 DEF Stands
    <3>1. /\ \A j \in 1..k : AddressSpace!Holds(es[j], a) => m[a] = <<es[j].rights, es[j].backing>>
          /\ (\A j \in 1..k : ~AddressSpace!Holds(es[j], a)) => m[a] = AddressSpace!Nowhere
      BY DEF Standing, Stands, es, k
    <3>2. a \in Nat
      BY SpaceAssumption
    <3>3. ASSUME NEW j \in 1..(k - 1), AddressSpace!Holds(fs[j], a)
          PROVE  m[a] = <<fs[j].rights, fs[j].backing>>
      <4>1. CASE j < i
        BY <2>1, <2>8, <3>1, <3>3, <4>1
      <4>2. CASE j > i
        BY <2>1, <2>8, <3>1, <3>3, <4>2
      <4>3. CASE j = i
        <5>1. AddressSpace!Holds(es[i], a) \/ AddressSpace!Holds(es[i + 1], a)
          BY <2>1, <2>2, <2>9, <2>10, <3>2, <3>3, <4>3 DEF AddressSpace!Holds
        <5> QED
          BY <2>1, <2>2, <2>10, <3>1, <4>3, <5>1
      <4> QED
        BY <2>1, <4>1, <4>2, <4>3
    <3>4. ASSUME NEW j \in 1..k, AddressSpace!Holds(es[j], a)
          PROVE  \E l \in 1..(k - 1) : AddressSpace!Holds(fs[l], a)
      <4>1. CASE j < i
        BY <2>1, <2>8, <3>4, <4>1
      <4>2. CASE j > i + 1
        <5>1. j - 1 \in 1..(k - 1) /\ fs[j - 1] = es[j]
          BY <2>1, <2>8, <4>2
        <5> QED
          BY <3>4, <5>1
      <4>3. CASE j \in {i, i + 1}
        <5>1. i \in 1..(k - 1) /\ fs[i].start = es[i].start /\ fs[i].end = es[i + 1].end
          BY <2>1, <2>10
        <5>2. AddressSpace!Holds(fs[i], a)
          BY <2>1, <2>2, <2>9, <3>2, <3>4, <4>3, <5>1 DEF AddressSpace!Holds
        <5> QED
          BY <5>1, <5>2
      <4> QED
        BY <2>1, <4>1, <4>2, <4>3
    <3> QED
      BY <3>1, <3>3, <3>4
  <2> QED
    BY <2>6, <2>11, <2>12 DEF Standing
<1>4. CASE z.at < Len(z.es) /\ ~AddressSpace!Mergeable(z.es[z.at], z.es[z.at + 1])
  <2>1. AddressSpace!Joined(z).es = z.es
    BY <1>1, <1>4 DEF AddressSpace!Joined, Vectors
  <2> QED
    BY <2>1 DEF Standing
<1> QED
  BY <1>1, <1>2, <1>3, <1>4

JoinedTurns(es, t) ==
  [k \in 0..Len(es) |-> IF k = 0 THEN [es |-> es, at |-> 1] ELSE AddressSpace!Joined(t[k - 1])]

Joining(es) == CHOOSE t : t = JoinedTurns(es, t)

LEMMA CoalescedStands ==
  ASSUME InOrderApart(entries), Stands(entries, mapped)
  PROVE  InOrderApart(AddressSpace!Coalesced) /\ Stands(AddressSpace!Coalesced, mapped)
<1> DEFINE n == Len(entries)
           start == [es |-> entries, at |-> 1]
           turn == [z \in Vectors(n) |-> AddressSpace!Joined(z)]
           t == Joining(entries)
<1>1. n \in Nat /\ start \in Vectors(n)
  BY DEF Vectors, InOrderApart
<1>2. turn \in [Vectors(n) -> Vectors(n)]
  BY <1>1, JoinedIsVector
<1>3. \A z \in Vectors(n) : turn[z] = AddressSpace!Joined(z)
  OBVIOUS
<1>4. start.es = entries
  OBVIOUS
<1> HIDE DEF start, turn
<1>5. PICK f : Loop(f, Vectors(n), turn, start, n)
  BY <1>1, <1>2, Turns
<1>6. f = JoinedTurns(entries, f)
  <2>1. \A k \in 0..n : k # 0 => f[k] = AddressSpace!Joined(f[k - 1])
    BY <1>1, <1>3, <1>5 DEF Loop
  <2> QED
    BY <1>5, <2>1 DEF Loop, JoinedTurns, start
<1>7. t = JoinedTurns(entries, t)
  BY <1>6 DEF Joining
<1>8. t[0] = start /\ \A k \in 1..n : t[k] = AddressSpace!Joined(t[k - 1])
  <2> HIDE DEF t
  <2> QED
    BY <1>1, <1>7 DEF JoinedTurns, start
<1>9. AddressSpace!Coalesced = t[n].es
  BY DEF AddressSpace!Coalesced, Joining, JoinedTurns
<1> HIDE DEF t
<1> DEFINE Good == {k \in 0..n : t[k] \in Vectors(n) /\ Standing(t[k], mapped)}
<1>10. 0 \in Good
  BY <1>1, <1>4, <1>8 DEF Standing
<1>11. ASSUME NEW k \in 1..n, k - 1 \in Good PROVE k \in Good
  BY <1>1, <1>8, <1>11, JoinedIsVector, JoinedStands
<1> HIDE DEF Good
<1>12. n \in Good
  <2>1. \A k \in 1..n : k - 1 \in Good => k \in Good
    BY <1>11
  <2>2. \A k \in 0..n : k \in Good
    BY <1>1, <1>10, <2>1, UpTo
  <2> QED
    BY <1>1, <2>2
<1> QED
  BY <1>9, <1>12 DEF Good, Standing

-----------------------------------------------------------------------------
LEMMA TreeInit == AddressSpace!Init => TreeIInv
<1> SUFFICES ASSUME AddressSpace!Init PROVE TreeIInv
  OBVIOUS
<1>1. entries = << >> /\ Len(entries) = 0 /\ entries \in Seq(Vma)
  BY DEF AddressSpace!Init
<1>2. mapped = [a \in Addresses |-> AddressSpace!Nowhere]
  BY DEF AddressSpace!Init
<1>3. mapped = [a \in Addresses |-> mapped[a]]
  BY <1>2
<1> QED
  BY <1>1, <1>2, <1>3 DEF TreeIInv, InOrderApart, Stands

LEMMA TreeInsert ==
  ASSUME TreeIInv, NEW v \in Vma, AddressSpace!Insert(v)
  PROVE  TreeIInv'
<1>1. /\ v.start < v.end /\ \A i \in 1..Len(entries) : ~AddressSpace!Overlap(entries[i], v)
      /\ entries' = AddressSpace!Sorted(Append(entries, v))
      /\ mapped' = [a \in Addresses |-> IF AddressSpace!Holds(v, a) THEN <<v.rights, v.backing>>
                                        ELSE mapped[a]]
  BY DEF AddressSpace!Insert, AddressSpace!Indices
<1>2. InOrderApart(entries)
  BY DEF TreeIInv
<1>3. /\ InOrderApart(entries')
      /\ \A i \in 1..Len(entries') :
           entries'[i] = v \/ \E j \in 1..Len(entries) : entries'[i] = entries[j]
      /\ \E i \in 1..Len(entries') : entries'[i] = v
      /\ \A j \in 1..Len(entries) : \E i \in 1..Len(entries') : entries'[i] = entries[j]
  <2>1. entries \in Seq(Vma)
    BY <1>2 DEF InOrderApart
  <2>2. LET fs == AddressSpace!Sorted(Append(entries, v)) IN
          /\ InOrderApart(fs)
          /\ \A i \in 1..Len(fs) : fs[i] = v \/ \E j \in 1..Len(entries) : fs[i] = entries[j]
          /\ \E i \in 1..Len(fs) : fs[i] = v
          /\ \A j \in 1..Len(entries) : \E i \in 1..Len(fs) : fs[i] = entries[j]
    BY <1>1, <1>2, <2>1, SortedApart
  <2> QED
    BY <1>1, <2>2
<1>4. Stands(entries', mapped')
  <2> SUFFICES ASSUME NEW a \in Addresses
               PROVE  /\ \A i \in 1..Len(entries') : AddressSpace!Holds(entries'[i], a)
                           => mapped'[a] = <<entries'[i].rights, entries'[i].backing>>
                      /\ (\A i \in 1..Len(entries') : ~AddressSpace!Holds(entries'[i], a))
                           => mapped'[a] = AddressSpace!Nowhere
    BY DEF Stands
  <2>1. /\ \A j \in 1..Len(entries) : AddressSpace!Holds(entries[j], a)
             => mapped[a] = <<entries[j].rights, entries[j].backing>>
        /\ (\A j \in 1..Len(entries) : ~AddressSpace!Holds(entries[j], a))
             => mapped[a] = AddressSpace!Nowhere
    BY DEF TreeIInv, Stands
  <2>2. a \in Nat
    BY SpaceAssumption
  <2>3. ASSUME NEW j \in 1..Len(entries), AddressSpace!Holds(entries[j], a),
               AddressSpace!Holds(v, a)
        PROVE  FALSE
    <3>1. entries[j] \in Vma
      BY <1>2 DEF InOrderApart
    <3> QED
      BY <1>1, <2>2, <2>3, <3>1 DEF AddressSpace!Overlap, AddressSpace!Holds, Vma
  <2>4. mapped'[a] = IF AddressSpace!Holds(v, a) THEN <<v.rights, v.backing>> ELSE mapped[a]
    BY <1>1
  <2> QED
    BY <1>3, <2>1, <2>3, <2>4
<1>5. mapped' = [a \in Addresses |-> mapped'[a]]
  BY <1>1
<1> QED
  BY <1>3, <1>4, <1>5 DEF TreeIInv

LEMMA TreeErase ==
  ASSUME TreeIInv, NEW i \in 1..Len(entries), AddressSpace!Erase(i)
  PROVE  TreeIInv'
<1> DEFINE n == Len(entries)
<1>1. /\ mapped' = [a \in Addresses |-> IF AddressSpace!Holds(entries[i], a)
                                        THEN AddressSpace!Nowhere ELSE mapped[a]]
      /\ entries' = AddressSpace!RemoveAt(entries, i)
  BY DEF AddressSpace!Erase
<1>2. /\ entries \in Seq(Vma) /\ n \in Nat /\ i \in 1..n
      /\ \A j \in 1..n : entries[j] \in Vma /\ entries[j].start < entries[j].end
      /\ \A j, k \in 1..n : j < k => entries[j].end <= entries[k].start
  BY DEF TreeIInv, InOrderApart
<1>3. /\ entries' \in Seq(Vma) /\ Len(entries') = n - 1
      /\ \A j \in 1..(n - 1) : entries'[j] = IF j < i THEN entries[j] ELSE entries[j + 1]
  <2>1. LET fs == entries' IN
          /\ fs \in Seq(Vma) /\ Len(fs) = n - 1
          /\ \A j \in 1..Len(fs) : fs[j] = IF j < i THEN entries[j] ELSE entries[j + 1]
    BY <1>1, <1>2, Removed
  <2> QED
    BY <2>1
<1> HIDE DEF n
<1>4. InOrderApart(entries')
  <2>1. ASSUME NEW j \in 1..(n - 1) PROVE entries'[j].start < entries'[j].end
    BY <1>2, <1>3
  <2>2. ASSUME NEW j \in 1..(n - 1), NEW k \in 1..(n - 1), j < k
        PROVE  entries'[j].end <= entries'[k].start
    <3>1. /\ entries'[j] = IF j < i THEN entries[j] ELSE entries[j + 1]
          /\ entries'[k] = IF k < i THEN entries[k] ELSE entries[k + 1]
          /\ k + 1 \in 1..n /\ j + 1 \in 1..n
      BY <1>2, <1>3
    <3>2. \E x, y \in 1..n : x < y /\ entries'[j] = entries[x] /\ entries'[k] = entries[y]
      <4>1. CASE j < i /\ k < i
        BY <1>2, <2>2, <3>1, <4>1
      <4>2. CASE j < i /\ k >= i
        <5>1. j < k + 1 /\ j \in 1..n
          BY <1>2, <4>2
        <5> QED
          BY <3>1, <4>2, <5>1
      <4>3. CASE j >= i
        <5>1. j + 1 < k + 1 /\ k >= i
          BY <1>2, <2>2, <4>3
        <5> QED
          BY <1>2, <3>1, <4>3, <5>1
      <4> QED
        BY <1>2, <4>1, <4>2, <4>3
    <3> QED
      BY <1>2, <3>2
  <2> QED
    BY <1>3, <2>1, <2>2 DEF InOrderApart
<1>5. Stands(entries', mapped')
  <2> SUFFICES ASSUME NEW a \in Addresses
               PROVE  /\ \A j \in 1..(n - 1) : AddressSpace!Holds(entries'[j], a)
                           => mapped'[a] = <<entries'[j].rights, entries'[j].backing>>
                      /\ (\A j \in 1..(n - 1) : ~AddressSpace!Holds(entries'[j], a))
                           => mapped'[a] = AddressSpace!Nowhere
    BY <1>3 DEF Stands
  <2>1. /\ \A j \in 1..n : AddressSpace!Holds(entries[j], a)
             => mapped[a] = <<entries[j].rights, entries[j].backing>>
        /\ (\A j \in 1..n : ~AddressSpace!Holds(entries[j], a))
             => mapped[a] = AddressSpace!Nowhere
    BY DEF TreeIInv, Stands, n
  <2>2. a \in Nat
    BY SpaceAssumption
  <2>3. mapped'[a] = IF AddressSpace!Holds(entries[i], a) THEN AddressSpace!Nowhere ELSE mapped[a]
    BY <1>1
  <2>4. ASSUME NEW j \in 1..(n - 1), AddressSpace!Holds(entries'[j], a)
        PROVE  ~AddressSpace!Holds(entries[i], a)
               /\ mapped[a] = <<entries'[j].rights, entries'[j].backing>>
    <3>1. PICK k \in 1..n : k # i /\ entries'[j] = entries[k]
      <4>1. CASE j < i
        BY <1>2, <1>3, <4>1
      <4>2. CASE j >= i
        <5>1. j + 1 \in 1..n /\ j + 1 # i /\ entries'[j] = entries[j + 1]
          BY <1>2, <1>3, <4>2
        <5> QED
          BY <5>1
      <4> QED
        BY <1>2, <4>1, <4>2
    <3>2. ~AddressSpace!Holds(entries[i], a)
      <4>1. entries[k].end <= entries[i].start \/ entries[i].end <= entries[k].start
        BY <1>2, <3>1
      <4> QED
        BY <1>2, <2>2, <2>4, <3>1, <4>1, SMTT(30) DEF AddressSpace!Holds, Vma
    <3> QED
      BY <2>1, <2>4, <3>1, <3>2
  <2>5. ASSUME NEW k \in 1..n, k # i, AddressSpace!Holds(entries[k], a)
        PROVE  \E j \in 1..(n - 1) : AddressSpace!Holds(entries'[j], a)
    <3>1. CASE k < i
      BY <1>2, <1>3, <2>5, <3>1
    <3>2. CASE k > i
      <4>1. k - 1 \in 1..(n - 1) /\ entries'[k - 1] = entries[k]
        BY <1>2, <1>3, <3>2
      <4> QED
        BY <2>5, <4>1
    <3> QED
      BY <1>2, <2>5, <3>1, <3>2
  <2> QED
    BY <2>1, <2>3, <2>4, <2>5
<1>6. mapped' = [a \in Addresses |-> mapped'[a]]
  BY <1>1
<1> QED
  BY <1>4, <1>5, <1>6 DEF TreeIInv

LEMMA TreeSplit ==
  ASSUME TreeIInv, NEW a \in Addresses, AddressSpace!Split(a)
  PROVE  TreeIInv'
<1> DEFINE n == Len(entries)
<1>1. PICK i \in 1..n :
        /\ AddressSpace!Holds(entries[i], a) /\ a # entries[i].start
        /\ entries' = AddressSpace!Sorted(Append([entries EXCEPT ![i].end = a],
                                                 [entries[i] EXCEPT !.start = a]))
        /\ mapped' = mapped
  BY DEF AddressSpace!Split, AddressSpace!Before, AddressSpace!Indices
<1> DEFINE w == entries[i]
           low == [w EXCEPT !.end = a]
           v == [w EXCEPT !.start = a]
           gs == [entries EXCEPT ![i].end = a]
<1>2. /\ entries \in Seq(Vma) /\ n \in Nat
      /\ \A j \in 1..n : entries[j] \in Vma /\ entries[j].start < entries[j].end
      /\ \A j, k \in 1..n : j < k => entries[j].end <= entries[k].start
  BY DEF TreeIInv, InOrderApart
<1>3. a \in Nat /\ w \in Vma /\ w.start < a /\ a < w.end
  BY <1>1, <1>2, SpaceAssumption DEF AddressSpace!Holds, Vma
<1>4. /\ low \in Vma /\ low.start = w.start /\ low.end = a
      /\ low.rights = w.rights /\ low.backing = w.backing
      /\ v \in Vma /\ v.start = a /\ v.end = w.end
      /\ v.rights = w.rights /\ v.backing = w.backing
  BY <1>3 DEF Vma
<1>5. /\ gs \in Seq(Vma) /\ Len(gs) = n
      /\ gs[i] = low /\ \A j \in 1..n : j # i => gs[j] = entries[j]
  <2>1. gs = [entries EXCEPT ![i] = low]
    BY <1>2
  <2> HIDE DEF low
  <2> QED
    BY <1>1, <1>2, <1>4, <2>1
<1>6. entries' = AddressSpace!Sorted(Append(gs, v))
  BY <1>1
<1> HIDE DEF gs, low, v, n
<1>7. InOrderApart(gs)
  <2>1. ASSUME NEW j \in 1..n PROVE gs[j].start < gs[j].end
    BY <1>2, <1>3, <1>4, <1>5
  <2>2. ASSUME NEW j \in 1..n, NEW k \in 1..n, j < k PROVE gs[j].end <= gs[k].start
    <3>1. /\ entries[j].end <= entries[k].start
          /\ entries[j] \in Vma /\ entries[k] \in Vma
      BY <1>2, <2>2
    <3>2. CASE j = i
      BY <1>3, <1>4, <1>5, <2>2, <3>1, <3>2 DEF Vma
    <3>3. CASE k = i
      BY <1>3, <1>4, <1>5, <2>2, <3>1, <3>3 DEF Vma
    <3>4. CASE j # i /\ k # i
      BY <1>5, <3>1, <3>4
    <3> QED
      BY <3>2, <3>3, <3>4
  <2> QED
    BY <1>2, <1>5, <2>1, <2>2 DEF InOrderApart
<1>8. \A j \in 1..n : ~AddressSpace!Overlap(gs[j], v)
  <2> SUFFICES ASSUME NEW j \in 1..n PROVE gs[j].end <= v.start \/ v.end <= gs[j].start
    BY DEF AddressSpace!Overlap
  <2>1. CASE j = i
    BY <1>3, <1>4, <1>5, <2>1
  <2>2. CASE j < i
    <3>1. entries[j].end <= w.start /\ entries[j] \in Vma
      BY <1>1, <1>2, <2>2
    <3> QED
      BY <1>3, <1>4, <1>5, <2>2, <3>1 DEF Vma
  <2>3. CASE j > i
    <3>1. w.end <= entries[j].start
      BY <1>1, <1>2, <2>3
    <3> QED
      BY <1>4, <1>5, <2>3, <3>1
  <2> QED
    BY <1>1, <2>1, <2>2, <2>3
<1>9. LET fs == AddressSpace!Sorted(Append(gs, v)) IN
        /\ InOrderApart(fs)
        /\ \A j \in 1..Len(fs) : fs[j] = v \/ \E k \in 1..Len(gs) : fs[j] = gs[k]
        /\ \E j \in 1..Len(fs) : fs[j] = v
        /\ \A k \in 1..Len(gs) : \E j \in 1..Len(fs) : fs[j] = gs[k]
  BY <1>3, <1>4, <1>5, <1>7, <1>8, SortedApart
<1>10. /\ InOrderApart(entries')
       /\ \A j \in 1..Len(entries') : entries'[j] = v \/ \E k \in 1..n : entries'[j] = gs[k]
       /\ \E j \in 1..Len(entries') : entries'[j] = v
       /\ \A k \in 1..n : \E j \in 1..Len(entries') : entries'[j] = gs[k]
  BY <1>5, <1>6, <1>9
<1>11. Stands(entries', mapped)
  <2> SUFFICES ASSUME NEW b \in Addresses
               PROVE  /\ \A j \in 1..Len(entries') : AddressSpace!Holds(entries'[j], b)
                           => mapped[b] = <<entries'[j].rights, entries'[j].backing>>
                      /\ (\A j \in 1..Len(entries') : ~AddressSpace!Holds(entries'[j], b))
                           => mapped[b] = AddressSpace!Nowhere
    BY DEF Stands
  <2>1. /\ \A j \in 1..n : AddressSpace!Holds(entries[j], b)
             => mapped[b] = <<entries[j].rights, entries[j].backing>>
        /\ (\A j \in 1..n : ~AddressSpace!Holds(entries[j], b))
             => mapped[b] = AddressSpace!Nowhere
    BY DEF TreeIInv, Stands, n
  <2>2. b \in Nat
    BY SpaceAssumption
  <2>3. AddressSpace!Holds(w, b) <=> AddressSpace!Holds(low, b) \/ AddressSpace!Holds(v, b)
    BY <1>3, <1>4, <2>2 DEF AddressSpace!Holds, Vma
  <2>4. ASSUME NEW j \in 1..Len(entries'), AddressSpace!Holds(entries'[j], b)
        PROVE  mapped[b] = <<entries'[j].rights, entries'[j].backing>>
    <3>1. CASE entries'[j] = v
      BY <1>1, <1>4, <2>1, <2>3, <2>4, <3>1
    <3>2. ASSUME NEW k \in 1..n, entries'[j] = gs[k]
          PROVE  mapped[b] = <<entries'[j].rights, entries'[j].backing>>
      <4>1. CASE k = i
        BY <1>1, <1>4, <1>5, <2>1, <2>3, <2>4, <3>2, <4>1
      <4>2. CASE k # i
        BY <1>5, <2>1, <2>4, <3>2, <4>2
      <4> QED
        BY <4>1, <4>2
    <3> QED
      BY <1>10, <3>1, <3>2
  <2>5. ASSUME NEW k \in 1..n, AddressSpace!Holds(entries[k], b)
        PROVE  \E j \in 1..Len(entries') : AddressSpace!Holds(entries'[j], b)
    <3>1. CASE k # i
      BY <1>5, <1>10, <2>5, <3>1
    <3>2. CASE k = i
      BY <1>5, <1>10, <2>3, <2>5, <3>2
    <3> QED
      BY <3>1, <3>2
  <2> QED
    BY <2>1, <2>4, <2>5
<1> QED
  BY <1>1, <1>10, <1>11 DEF TreeIInv

LEMMA TreeKept == TreeIInv /\ [AddressSpace!Next]_AddressSpace!vars => TreeIInv'
<1> SUFFICES ASSUME TreeIInv, [AddressSpace!Next]_AddressSpace!vars PROVE TreeIInv'
  OBVIOUS
<1>1. ASSUME UNCHANGED <<entries, mapped>> PROVE TreeIInv'
  BY <1>1 DEF TreeIInv
<1>2. ASSUME NEW s \in Addresses, NEW e \in Addresses, NEW r \in Rights, NEW b \in Backings,
             AddressSpace!Insert([start |-> s, end |-> e, rights |-> r, backing |-> b])
      PROVE  TreeIInv'
  <2>1. [start |-> s, end |-> e, rights |-> r, backing |-> b] \in Vma
    BY SpaceAssumption DEF Vma
  <2> QED
    BY <1>2, <2>1, TreeInsert
<1>3. ASSUME AddressSpace!Coalesce PROVE TreeIInv'
  <2>1. entries' = AddressSpace!Coalesced /\ mapped' = mapped
    BY <1>3 DEF AddressSpace!Coalesce
  <2>2. InOrderApart(AddressSpace!Coalesced) /\ Stands(AddressSpace!Coalesced, mapped)
    BY CoalescedStands DEF TreeIInv
  <2> QED
    BY <2>1, <2>2 DEF TreeIInv
<1> QED
  BY <1>1, <1>2, <1>3, TreeErase, TreeSplit DEF AddressSpace!vars, AddressSpace!Next,
     AddressSpace!Indices, AddressSpace!Map, AddressSpace!Unmap, AddressSpace!MarkDirty

\* The last entry that begins at or before an address is the one that holds it, if any does.
LEMMA TreeFinds == TreeIInv => AddressSpace!FindAgrees
<1> SUFFICES ASSUME TreeIInv, NEW a \in Addresses PROVE AddressSpace!Find(a) = mapped[a]
  BY DEF AddressSpace!FindAgrees
<1> DEFINE n == Len(entries)
           hits == {i \in AddressSpace!Before(a) : AddressSpace!Holds(entries[i], a)}
<1>1. /\ n \in Nat /\ a \in Nat
      /\ \A j \in 1..n : entries[j].start \in Nat /\ entries[j].end \in Nat
                         /\ entries[j].start < entries[j].end
      /\ \A j, k \in 1..n : j < k => entries[j].end <= entries[k].start
  <2>1. entries \in Seq(Vma) /\ \A j \in 1..n : entries[j] \in Vma
    BY DEF TreeIInv, InOrderApart
  <2> QED
    BY <2>1, SpaceAssumption DEF TreeIInv, InOrderApart, Vma
<1>2. /\ \A j \in 1..n : AddressSpace!Holds(entries[j], a)
           => mapped[a] = <<entries[j].rights, entries[j].backing>>
      /\ (\A j \in 1..n : ~AddressSpace!Holds(entries[j], a)) => mapped[a] = AddressSpace!Nowhere
  BY DEF TreeIInv, Stands
<1> HIDE DEF n
<1>3. ASSUME NEW i \in 1..n, AddressSpace!Holds(entries[i], a) PROVE i \in hits
  <2>1. ASSUME NEW j \in 1..n, j > i PROVE entries[j].start > a
    <3>1. entries[i].end <= entries[j].start
      BY <2>1, <1>1
    <3> QED
      BY <1>1, <1>3, <3>1 DEF AddressSpace!Holds
  <2> QED
    BY <1>1, <1>3, <2>1 DEF AddressSpace!Before, AddressSpace!Indices, AddressSpace!Holds, n
<1>4. \A i \in hits : i \in 1..n /\ AddressSpace!Holds(entries[i], a)
  BY DEF AddressSpace!Before, AddressSpace!Indices, n
<1>5. CASE hits = {}
  <2>1. \A j \in 1..n : ~AddressSpace!Holds(entries[j], a)
    BY <1>3, <1>5
  <2> QED
    BY <1>2, <1>5, <2>1 DEF AddressSpace!Find
<1>6. CASE hits # {}
  <2> DEFINE i == CHOOSE i \in hits : TRUE
  <2>1. i \in hits
    BY <1>6
  <2>2. AddressSpace!Find(a) = <<entries[i].rights, entries[i].backing>>
    BY <1>6 DEF AddressSpace!Find
  <2> HIDE DEF i, hits
  <2> QED
    BY <1>2, <1>4, <2>1, <2>2
<1> QED
  BY <1>5, <1>6
-----------------------------------------------------------------------------
(* The capability trie.                                                    *)

\* Dividing twice is dividing by the product.
LEMMA DividedTwice ==
  ASSUME NEW a \in Nat, NEW b \in Nat \ {0}, NEW c \in Nat \ {0}
  PROVE  c * b \in Nat \ {0} /\ a \div (c * b) = (a \div b) \div c
<1> DEFINE q == a \div b
           r == a % b
           t == q \div c
           u == q % c
<1>1. q \in Nat /\ r \in 0..(b - 1) /\ a = b * q + r
  OBVIOUS
<1>2. t \in Nat /\ u \in 0..(c - 1) /\ q = c * t + u
  BY <1>1
<1> HIDE DEF q, r, t, u
<1>3. c * b \in Nat \ {0}
  OBVIOUS
<1>4. b * u \in Nat /\ b * u <= b * (c - 1)
  BY <1>2
<1>5. b * u + r \in 0..(c * b - 1)
  BY <1>1, <1>3, <1>4
<1>6. a = (c * b) * t + (b * u + r)
  <2>1. b * q = b * (c * t) + b * u
    BY <1>1, <1>2
  <2>2. b * (c * t) = (c * b) * t
    BY <1>2
  <2> QED
    BY <1>1, <1>2, <1>3, <2>1, <2>2
<1>7. a \div (c * b) = t
  BY <1>2, <1>3, <1>5, <1>6, Divided
<1> QED
  BY <1>3, <1>7 DEF q, t

LEMMA Weights ==
  /\ CapTrie!Weight[0] = 1 /\ \A d \in 0..Depth : CapTrie!Weight[d] \in Nat \ {0}
  /\ \A d \in 1..Depth : CapTrie!Weight[d] = Radix * CapTrie!Weight[d - 1]
<1> DEFINE S == Nat \ {0}
           turn == [w \in S |-> Radix * w]
           weights(f) == [d \in 0..Depth |-> IF d = 0 THEN 1 ELSE Radix * f[d - 1]]
<1>1. turn \in [S -> S] /\ 1 \in S /\ Depth \in Nat
  BY TrieAssumption
<1>2. \A w \in S : turn[w] = Radix * w
  OBVIOUS
<1> HIDE DEF turn, S
<1>3. PICK f : Loop(f, S, turn, 1, Depth)
  BY <1>1, Turns
<1>4. f \in [0..Depth -> S] /\ f[0] = 1 /\ \A k \in 1..Depth : f[k] = Radix * f[k - 1]
  <2>1. \A k \in 1..Depth : k - 1 \in 0..Depth
    BY <1>1
  <2> QED
    BY <1>2, <1>3, <2>1 DEF Loop
<1>5. f = weights(f)
  BY <1>1, <1>4
<1>6. CapTrie!Weight = CHOOSE g : g = weights(g)
  BY DEF CapTrie!Weight
<1>7. CapTrie!Weight = weights(CapTrie!Weight)
  <2> HIDE DEF weights
  <2> QED
    BY <1>5, <1>6
<1> DEFINE w == CapTrie!Weight
<1>8. w[0] = 1 /\ \A d \in 1..Depth : w[d] = Radix * w[d - 1]
  <2> HIDE DEF w
  <2>1. w = weights(w)
    BY <1>7 DEF w
  <2> QED
    BY <1>1, <2>1
<1> HIDE DEF w
<1> DEFINE Good == {d \in 0..Depth : w[d] \in Nat \ {0}}
<1>9. 0 \in Good
  BY <1>1, <1>8
<1>10. \A d \in 1..Depth : d - 1 \in Good => d \in Good
  BY <1>8, TrieAssumption
<1> HIDE DEF Good
<1>11. \A d \in 0..Depth : d \in Good
  BY <1>1, <1>9, <1>10, UpTo
<1> QED
  BY <1>8, <1>11 DEF Good, w

LEMMA Modulus == CapTrie!HandleModulus \in Nat \ {0} /\ CapTrie!Handles = 0..(CapTrie!HandleModulus - 1)
  BY Weights, TrieAssumption DEF CapTrie!HandleModulus, CapTrie!Handles

\* A node is a sequence as long as it is deep, and continues the node above it.
LEMMA NodesOnPath ==
  ASSUME NEW h \in CapTrie!Handles, NEW d \in 0..Depth
  PROVE  /\ CapTrie!On(h, d) \in Seq(Nat) /\ Len(CapTrie!On(h, d)) = d
         /\ \A i \in 1..d : CapTrie!On(h, d)[i] = CapTrie!Nibble(h, i - 1)
         /\ CapTrie!On(h, 0) = << >>
<1>1. h \in Nat /\ Depth \in Nat
  BY Modulus, TrieAssumption
<1>2. \A i \in 1..d : CapTrie!Nibble(h, i - 1) \in Nat
  <2> SUFFICES ASSUME NEW i \in 1..d PROVE CapTrie!Nibble(h, i - 1) \in Nat
    OBVIOUS
  <2>1. i - 1 \in 0..Depth /\ CapTrie!Weight[i - 1] \in Nat \ {0}
    BY <1>1, Weights
  <2>2. h \div CapTrie!Weight[i - 1] \in Nat
    BY <1>1, <2>1
  <2> QED
    BY <2>2, TrieAssumption DEF CapTrie!Nibble
<1>3. CapTrie!On(h, d) \in [1..d -> Nat]
  BY <1>2 DEF CapTrie!On
<1>4. \A i \in 1..d : CapTrie!On(h, d)[i] = CapTrie!Nibble(h, i - 1)
  BY DEF CapTrie!On
<1>5. CapTrie!On(h, 0) = << >>
  BY DEF CapTrie!On
<1> QED
  BY <1>1, <1>3, <1>4, <1>5

LEMMA SameLength ==
  ASSUME NEW g \in CapTrie!Handles, NEW h \in CapTrie!Handles, NEW d \in 0..Depth, NEW e \in 0..Depth,
         CapTrie!On(g, d) = CapTrie!On(h, e)
  PROVE  d = e
  BY NodesOnPath

LEMMA SameAbove ==
  ASSUME NEW g \in CapTrie!Handles, NEW h \in CapTrie!Handles, NEW d \in 0..Depth, NEW e \in 0..d,
         CapTrie!On(g, d) = CapTrie!On(h, d)
  PROVE  CapTrie!On(g, e) = CapTrie!On(h, e)
<1>1. e \in 0..Depth /\ \A i \in 1..e : i \in 1..d
  BY TrieAssumption
<1>2. ASSUME NEW i \in 1..e PROVE CapTrie!Nibble(g, i - 1) = CapTrie!Nibble(h, i - 1)
  <2>1. CapTrie!On(g, d)[i] = CapTrie!Nibble(g, i - 1)
    BY <1>1, NodesOnPath
  <2>2. CapTrie!On(h, d)[i] = CapTrie!Nibble(h, i - 1)
    BY <1>1, NodesOnPath
  <2> QED
    BY <2>1, <2>2
<1> QED
  BY <1>2 DEF CapTrie!On

LEMMA Continues ==
  ASSUME NEW h \in CapTrie!Handles, NEW e \in 0..Depth, e + 1 \in 0..Depth
  PROVE  SubSeq(CapTrie!On(h, e + 1), 1, e) = CapTrie!On(h, e)
<1> DEFINE c == CapTrie!On(h, e + 1)
           n == CapTrie!On(h, e)
<1>1. /\ c \in Seq(Nat) /\ Len(c) = e + 1 /\ \A i \in 1..(e + 1) : c[i] = CapTrie!Nibble(h, i - 1)
      /\ n \in Seq(Nat) /\ Len(n) = e /\ \A i \in 1..e : n[i] = CapTrie!Nibble(h, i - 1)
  BY NodesOnPath
<1> HIDE DEF c, n
<1>2. /\ SubSeq(c, 1, e) \in Seq(Nat) /\ Len(SubSeq(c, 1, e)) = e
      /\ \A i \in 1..e : SubSeq(c, 1, e)[i] = c[i]
  BY <1>1
<1>3. SubSeq(c, 1, e) = n
  BY <1>1, <1>2, SeqEqual
<1> QED
  BY <1>3 DEF c, n

\* The nibbles of a handle determine it.
LEMMA NibblesTell ==
  ASSUME NEW g \in CapTrie!Handles, NEW h \in CapTrie!Handles,
         CapTrie!On(g, Depth) = CapTrie!On(h, Depth)
  PROVE  g = h
<1> DEFINE w == CapTrie!Weight
<1>1. /\ Depth \in Nat /\ g \in Nat /\ h \in Nat /\ g < w[Depth] /\ h < w[Depth]
      /\ w[0] = 1 /\ (\A d \in 0..Depth : w[d] \in Nat \ {0})
      /\ \A d \in 1..Depth : w[d] = Radix * w[d - 1]
  BY Modulus, Weights, TrieAssumption DEF CapTrie!Handles, CapTrie!HandleModulus
<1>2. ASSUME NEW d \in 1..Depth
      PROVE  (g \div w[d - 1]) % Radix = (h \div w[d - 1]) % Radix
  <2>1. CapTrie!Nibble(g, d - 1) = CapTrie!Nibble(h, d - 1)
    <3>1. Depth \in 0..Depth
      BY <1>1
    <3>2. CapTrie!On(g, Depth)[d] = CapTrie!Nibble(g, d - 1)
      BY <3>1, NodesOnPath
    <3>3. CapTrie!On(h, Depth)[d] = CapTrie!Nibble(h, d - 1)
      BY <3>1, NodesOnPath
    <3> QED
      BY <3>2, <3>3
  <2> QED
    BY <2>1 DEF CapTrie!Nibble
<1> HIDE DEF w
<1>3. ASSUME NEW x \in {g, h}, NEW d \in 1..Depth
      PROVE  x \div w[d - 1] = Radix * (x \div w[d]) + ((x \div w[d - 1]) % Radix)
  <2>1. x \in Nat /\ w[d - 1] \in Nat \ {0} /\ w[d] = Radix * w[d - 1]
    BY <1>1, <1>3
  <2>2. x \div w[d] = (x \div w[d - 1]) \div Radix
    BY <2>1, DividedTwice, TrieAssumption
  <2>3. x \div w[d - 1] \in Nat
    BY <2>1
  <2> QED
    BY <2>2, <2>3, TrieAssumption
<1> DEFINE Same == {k \in 0..Depth : g \div w[Depth - k] = h \div w[Depth - k]}
<1>4. 0 \in Same
  <2>1. g \div w[Depth] = 0 /\ h \div w[Depth] = 0
    <3>1. g = w[Depth] * 0 + g /\ g \in 0..(w[Depth] - 1) /\ w[Depth] \in Nat \ {0}
      BY <1>1
    <3>2. h = w[Depth] * 0 + h /\ h \in 0..(w[Depth] - 1)
      BY <1>1
    <3> QED
      BY <1>1, <3>1, <3>2, Divided
  <2> QED
    BY <1>1, <2>1
<1>5. ASSUME NEW k \in 1..Depth, k - 1 \in Same PROVE k \in Same
  <2> DEFINE d == Depth - (k - 1)
  <2>1. d \in 1..Depth /\ Depth - k = d - 1
    BY <1>1
  <2>2. g \div w[d] = h \div w[d]
    BY <1>5
  <2> HIDE DEF d
  <2>3. g \div w[d - 1] = h \div w[d - 1]
    BY <1>2, <1>3, <2>1, <2>2
  <2> QED
    BY <2>1, <2>3
<1> HIDE DEF Same
<1>6. Depth \in Same
  <2>1. \A k \in 1..Depth : k - 1 \in Same => k \in Same
    BY <1>5
  <2>2. \A k \in 0..Depth : k \in Same
    BY <1>1, <1>4, <2>1, UpTo
  <2> QED
    BY <1>1, <2>2
<1>7. g \div w[0] = h \div w[0]
  BY <1>1, <1>6 DEF Same
<1> QED
  BY <1>1, <1>7

-----------------------------------------------------------------------------
(* Compaction.                                                             *)

\* The nodes on the paths of the handles of T.
Paths(T) == UNION {CapTrie!Path(h) : h \in T}

LEMMA OnPaths ==
  ASSUME NEW T, NEW x
  PROVE  x \in Paths(T) <=> \E h \in T : \E d \in 0..Depth : x = CapTrie!On(h, d)
  BY DEF Paths, CapTrie!Path

\* ns is the nodes that the handles of T need, and maybe the root.
Laid(ns, T) == Paths(T) \subseteq ns /\ \A x \in ns : x = << >> \/ x \in Paths(T)

Terminals(T) == {CapTrie!On(g, Depth) : g \in T}

\* What is left of the nodes ns of T once the loop has looked at the last k of h's path:
\* of those only the ones that others share.
LeftOf(ns, T, h, k) ==
  {x \in ns : x \in Paths(T \ {h}) \/ ~ \E d \in (Depth + 1 - k)..Depth : x = CapTrie!On(h, d)}

LEMMA Prunes ==
  ASSUME NEW T \in SUBSET CapTrie!Handles, NEW h \in T, NEW ns, Laid(ns, T), NEW k \in 1..Depth
  PROVE  LET n == CapTrie!On(h, Depth + 1 - k)
             rest == LeftOf(ns, T, h, k - 1)
             values == Terminals(T \ {h})
         IN  LeftOf(ns, T, h, k)
               = IF CapTrie!Children(rest, n) = {} /\ n \notin values THEN rest \ {n} ELSE rest
<1> DEFINE e == Depth + 1 - k
           n == CapTrie!On(h, e)
           rest == LeftOf(ns, T, h, k - 1)
           U == T \ {h}
           values == Terminals(U)
<1>1. /\ Depth \in Nat \ {0} /\ e \in 1..Depth /\ e \in 0..Depth /\ h \in CapTrie!Handles
      /\ Depth + 1 - (k - 1) = e + 1 /\ Len(n) = e /\ n \in Seq(Nat)
  <2>1. /\ Depth \in Nat \ {0} /\ e \in 1..Depth /\ e \in 0..Depth /\ h \in CapTrie!Handles
        /\ Depth + 1 - (k - 1) = e + 1
    BY TrieAssumption
  <2> HIDE DEF e
  <2> QED
    BY <2>1, NodesOnPath
<1>2. \A d \in Int : d \in e..Depth <=> d = e \/ d \in (e + 1)..Depth
  BY <1>1
<1> HIDE DEF e
<1>3. LeftOf(ns, T, h, k) = {x \in rest : x \in Paths(U) \/ x # n}
  <2>1. LeftOf(ns, T, h, k) = {x \in ns : x \in Paths(U) \/ ~ \E d \in e..Depth : x = CapTrie!On(h, d)}
    BY DEF LeftOf, e
  <2>2. rest = {x \in ns : x \in Paths(U) \/ ~ \E d \in (e + 1)..Depth : x = CapTrie!On(h, d)}
    BY <1>1 DEF LeftOf
  <2>3. \A x : (\E d \in e..Depth : x = CapTrie!On(h, d))
                <=> x = n \/ \E d \in (e + 1)..Depth : x = CapTrie!On(h, d)
    BY <1>1, <1>2
  <2> HIDE DEF rest, n, U
  <2> QED
    BY <2>1, <2>2, <2>3
<1>4. ASSUME n \notin Paths(U) PROVE CapTrie!Children(rest, n) = {} /\ n \notin values
  <2>1. n \notin values
    <3>1. ASSUME NEW g \in U PROVE CapTrie!On(g, Depth) \in Paths(U)
      <4>1. Depth \in 0..Depth
        BY <1>1
      <4> HIDE DEF U
      <4> QED
        BY <4>1, OnPaths
    <3> QED
      BY <1>4, <3>1 DEF Terminals
  <2>2. ASSUME NEW c \in CapTrie!Children(rest, n) PROVE FALSE
    <3>1. c \in rest /\ Len(c) = e + 1 /\ SubSeq(c, 1, e) = n
      BY <1>1, <2>2 DEF CapTrie!Children
    <3>2. c # << >>
      BY <1>1, <3>1
    <3>3. PICK g \in T, d \in 0..Depth : c = CapTrie!On(g, d)
      BY <3>1, <3>2, OnPaths DEF LeftOf, Laid
    <3>4. d = e + 1
      BY <3>1, <3>3, NodesOnPath
    <3>5. \A f \in CapTrie!Handles : c = CapTrie!On(f, e + 1) => n = CapTrie!On(f, e)
      BY <1>1, <3>1, <3>3, <3>4, Continues
    <3>6. c \notin Paths(U)
      <4> SUFFICES ASSUME c \in Paths(U) PROVE FALSE
        OBVIOUS
      <4>1. PICK f \in U, b \in 0..Depth : c = CapTrie!On(f, b)
        BY OnPaths
      <4>2. b = e + 1 /\ f \in CapTrie!Handles
        BY <3>1, <4>1, NodesOnPath
      <4>3. n = CapTrie!On(f, e)
        BY <3>5, <4>1, <4>2
      <4> HIDE DEF n, U
      <4> QED
        BY <1>1, <1>4, <4>1, <4>3, OnPaths
    <3>7. g = h
      BY <3>3, <3>6, OnPaths
    <3>8. ~ \E b \in (e + 1)..Depth : c = CapTrie!On(h, b)
      BY <1>1, <3>1, <3>6 DEF LeftOf
    <3> QED
      BY <1>1, <3>3, <3>4, <3>7, <3>8
  <2> QED
    BY <2>1, <2>2
<1>5. ASSUME n \in Paths(U), n \notin values PROVE CapTrie!Children(rest, n) # {}
  <2>1. PICK g \in U, d \in 0..Depth : n = CapTrie!On(g, d)
    BY <1>5, OnPaths
  <2>2. g \in CapTrie!Handles /\ d = e
    BY <1>1, <2>1, SameLength
  <2>3. e # Depth
    BY <1>5, <2>1, <2>2 DEF Terminals
  <2>4. e + 1 \in 0..Depth
    BY <1>1, <2>3
  <2> DEFINE c == CapTrie!On(g, e + 1)
  <2>5. Len(c) = e + 1 /\ SubSeq(c, 1, e) = n
    BY <1>1, <2>1, <2>2, <2>4, Continues, NodesOnPath
  <2>6. c \in Paths(U) /\ c \in Paths(T)
    BY <2>4, OnPaths
  <2>7. c \in rest
    BY <2>6 DEF LeftOf, Laid
  <2> HIDE DEF c, n, rest
  <2> QED
    BY <1>1, <2>5, <2>7 DEF CapTrie!Children
<1>6. LeftOf(ns, T, h, k) = IF CapTrie!Children(rest, n) = {} /\ n \notin values THEN rest \ {n} ELSE rest
  <2>1. CASE n \notin Paths(U)
    <3> HIDE DEF n, rest, U
    <3> QED
      BY <1>3, <1>4, <2>1
  <2>2. CASE n \in Paths(U)
    <3>1. ~(CapTrie!Children(rest, n) = {} /\ n \notin values)
      BY <1>5, <2>2
    <3> HIDE DEF n, rest, U
    <3> QED
      BY <1>3, <2>2, <3>1
  <2> QED
    BY <2>1, <2>2
<1> QED
  BY <1>6 DEF e

CompactedTurns(ns, values, h, t) ==
  [d \in 0..Depth |->
     IF d = 0 THEN ns
     ELSE LET n == CapTrie!On(h, Depth + 1 - d) IN
            IF CapTrie!Children(t[d - 1], n) = {} /\ n \notin values THEN t[d - 1] \ {n}
            ELSE t[d - 1]]

Compacting(ns, values, h) == CHOOSE t : t = CompactedTurns(ns, values, h, t)

\* Erasing a handle leaves the paths of the others.
LEMMA CompactedLeaves ==
  ASSUME NEW T \in SUBSET CapTrie!Handles, NEW h \in T, NEW ns, Laid(ns, T)
  PROVE  CapTrie!Compacted(ns, Terminals(T \ {h}), h) = LeftOf(ns, T, h, Depth)
<1> DEFINE values == Terminals(T \ {h})
           t == Compacting(ns, values, h)
           step(rest, n) == IF CapTrie!Children(rest, n) = {} /\ n \notin values THEN rest \ {n}
                            ELSE rest
           f == [d \in 0..Depth |-> LeftOf(ns, T, h, d)]
           turns(u) == [d \in 0..Depth |->
                          IF d = 0 THEN ns ELSE step(u[d - 1], CapTrie!On(h, Depth + 1 - d))]
<1>1. Depth \in Nat \ {0}
  BY TrieAssumption
<1>2. LeftOf(ns, T, h, 0) = ns
  BY <1>1 DEF LeftOf
<1>3. ASSUME NEW k \in 1..Depth
      PROVE  LeftOf(ns, T, h, k) = step(LeftOf(ns, T, h, k - 1), CapTrie!On(h, Depth + 1 - k))
  <2>1. LET n == CapTrie!On(h, Depth + 1 - k)
            rest == LeftOf(ns, T, h, k - 1)
            last == Terminals(T \ {h})
        IN  LeftOf(ns, T, h, k)
              = IF CapTrie!Children(rest, n) = {} /\ n \notin last THEN rest \ {n} ELSE rest
    BY Prunes, Zenon
  <2> QED
    BY <2>1, Zenon
<1>4. \A u : CompactedTurns(ns, values, h, u) = turns(u)
  BY DEF CompactedTurns
<1> HIDE DEF step
<1>5. f = turns(f)
  <2>1. \A k \in 0..Depth : k # 0 => k \in 1..Depth /\ k - 1 \in 0..Depth
    BY <1>1
  <2>2. \A k \in 0..Depth :
          f[k] = IF k = 0 THEN ns ELSE step(f[k - 1], CapTrie!On(h, Depth + 1 - k))
    BY <1>2, <1>3, <2>1
  <2> HIDE DEF f
  <2>3. f = [k \in 0..Depth |-> f[k]]
    BY DEF f
  <2> QED
    BY <2>2, <2>3
<1>6. t = turns(t)
  <2>1. \E u : u = CompactedTurns(ns, values, h, u)
    <3> HIDE DEF f, turns
    <3> QED
      BY <1>4, <1>5
  <2>2. t = CompactedTurns(ns, values, h, t)
    BY <2>1 DEF Compacting
  <2> QED
    BY <1>4, <2>2
<1>7. CapTrie!Compacted(ns, values, h) = t[Depth]
  BY DEF CapTrie!Compacted, Compacting, CompactedTurns
<1>8. t[0] = ns /\ \A k \in 1..Depth : t[k] = step(t[k - 1], CapTrie!On(h, Depth + 1 - k))
  <2> HIDE DEF t
  <2> QED
    BY <1>1, <1>6
<1> HIDE DEF t, turns, f
<1> DEFINE Good == {k \in 0..Depth : t[k] = LeftOf(ns, T, h, k)}
<1>9. 0 \in Good
  BY <1>1, <1>2, <1>8
<1>10. ASSUME NEW k \in 1..Depth, k - 1 \in Good PROVE k \in Good
  BY <1>1, <1>3, <1>8, <1>10
<1> HIDE DEF Good
<1>11. Depth \in Good
  <2>1. \A k \in 1..Depth : k - 1 \in Good => k \in Good
    BY <1>10
  <2>2. \A k \in 0..Depth : k \in Good
    BY <1>1, <1>9, <2>1, UpTo
  <2> QED
    BY <1>1, <2>2
<1> QED
  BY <1>7, <1>11 DEF Good

-----------------------------------------------------------------------------
TrieIInv ==
  /\ IsFiniteSet(DOMAIN bound) /\ DOMAIN bound \subseteq CapTrie!Handles \ {0}
  /\ Laid(nodes, DOMAIN bound)
  /\ full = Terminals(DOMAIN bound)
  /\ DOMAIN value = full
  /\ \A h \in DOMAIN bound : value[CapTrie!On(h, Depth)] = bound[h]
  /\ size = Cardinality(DOMAIN bound)
  /\ IsFiniteSet(nodes) /\ nodeCount = Cardinality(nodes \cup {<< >>})
  /\ nextHandle \in CapTrie!Handles

LEMMA TrieCounts == \A S : CapTrie!Cardinality(S) = Cardinality(S)
  BY DEF CapTrie!Cardinality, Cardinality

LEMMA PathIsFinite ==
  ASSUME NEW h
  PROVE  IsFiniteSet(CapTrie!Path(h))
<1> DEFINE f == [d \in 0..Depth |-> CapTrie!On(h, d)]
<1>1. IsFiniteSet(0..Depth)
  BY FS_Interval, TrieAssumption
<1>2. f \in Surjection(0..Depth, CapTrie!Path(h))
  BY DEF Surjection, CapTrie!Path
<1> QED
  BY <1>1, <1>2, FS_Surjection

LEMMA TrieInit == CapTrie!Init => TrieIInv
<1> SUFFICES ASSUME CapTrie!Init PROVE TrieIInv
  OBVIOUS
<1>1. /\ nodes = {} /\ full = {} /\ size = 0 /\ nodeCount = 1 /\ nextHandle = 1
      /\ DOMAIN bound = {} /\ DOMAIN value = {}
  BY DEF CapTrie!Init
<1>2. Laid(nodes, {}) /\ Terminals({}) = {}
  BY <1>1 DEF Laid, Paths, Terminals
<1>3. Cardinality({}) = 0 /\ IsFiniteSet({}) /\ Cardinality({} \cup {<< >>}) = 1
  <2>1. Cardinality({}) = 0 /\ IsFiniteSet({}) /\ << >> \notin {}
    BY FS_EmptySet
  <2>2. Cardinality({} \cup {<< >>}) = Cardinality({}) + 1
    BY <2>1, FS_AddElement, Zenon
  <2> QED
    BY <2>1, <2>2
<1>4. 1 \in CapTrie!Handles
  <2> DEFINE w == CapTrie!Weight[Depth - 1]
  <2>1. w \in Nat \ {0} /\ CapTrie!Weight[Depth] = Radix * w
    BY Weights, TrieAssumption
  <2> HIDE DEF w
  <2>2. Radix * w >= 2
    <3>1. Radix >= 2 /\ w >= 1 /\ Radix \in Nat /\ w \in Nat
      BY <2>1, TrieAssumption
    <3>2. Radix * w >= Radix * 1
      BY <3>1
    <3> QED
      BY <3>1, <3>2
  <2> QED
    BY <2>1, <2>2, Modulus DEF CapTrie!HandleModulus
<1> QED
  BY <1>1, <1>2, <1>3, <1>4 DEF TrieIInv

LEMMA TrieInsert ==
  ASSUME TrieIInv, NEW cap, CapTrie!Insert(cap)
  PROVE  TrieIInv'
<1> DEFINE k == CapTrie!Min(CapTrie!Attempts)
           h == (nextHandle + k) % CapTrie!HandleModulus
           T == DOMAIN bound
           end == CapTrie!On(h, Depth)
           missing == CapTrie!Path(h) \ (nodes \cup {CapTrie!On(h, 0)})
<1>1. /\ nextHandle' = (h + 1) % CapTrie!HandleModulus
      /\ nodes' = nodes \cup CapTrie!Path(h)
      /\ nodeCount' = nodeCount + Cardinality(missing)
      /\ value' = [n \in DOMAIN value \cup {end} |-> IF n = end THEN cap ELSE value[n]]
      /\ full' = full \cup {end}
      /\ size' = size + 1
      /\ bound' = [g \in T \cup {h} |-> IF g = h THEN cap ELSE bound[g]]
  BY TrieCounts DEF CapTrie!Insert
<1>2. k \in CapTrie!Attempts
  <2>1. CapTrie!Attempts # {} /\ CapTrie!Attempts \subseteq Nat
    BY Modulus DEF CapTrie!Insert, CapTrie!Attempts
  <2> HIDE DEF k
  <2>2. \E x \in CapTrie!Attempts : \A y \in CapTrie!Attempts : x <= y
    BY <2>1, LeastNatural
  <2> QED
    BY <2>2 DEF k, CapTrie!Min
<1>3. k \in Nat /\ h # 0 /\ ~CapTrie!HandleInUse(h)
  <2>1. ASSUME NEW j \in CapTrie!Attempts
        PROVE  /\ j \in Nat /\ (nextHandle + j) % CapTrie!HandleModulus # 0
               /\ ~CapTrie!HandleInUse((nextHandle + j) % CapTrie!HandleModulus)
    BY DEF CapTrie!Attempts
  <2> HIDE DEF k
  <2> QED
    BY <1>2, <2>1
<1>4. h \in CapTrie!Handles /\ (h + 1) % CapTrie!HandleModulus \in CapTrie!Handles
  <2>1. /\ nextHandle \in Nat /\ CapTrie!HandleModulus \in Nat \ {0}
        /\ CapTrie!Handles = 0..(CapTrie!HandleModulus - 1)
    BY Modulus DEF TrieIInv
  <2> HIDE DEF k
  <2>2. h \in 0..(CapTrie!HandleModulus - 1)
    BY <1>3, <2>1
  <2> QED
    BY <2>1, <2>2
<1> HIDE DEF k, h, T, end, missing
<1>5. /\ T \subseteq CapTrie!Handles /\ IsFiniteSet(T) /\ DOMAIN bound = T
      /\ Depth \in 0..Depth /\ 0 \in 0..Depth
  BY TrieAssumption DEF TrieIInv, T
<1>6. h \notin T
  <2> SUFFICES ASSUME h \in T PROVE CapTrie!HandleInUse(h)
    BY <1>3
  <2>1. CapTrie!On(h, Depth) \in Paths(T)
    BY <1>5, OnPaths
  <2> QED
    BY <2>1 DEF CapTrie!HandleInUse, TrieIInv, Laid, Terminals, T
<1>7. \A g \in T : CapTrie!On(g, Depth) # end
  BY <1>4, <1>5, <1>6, NibblesTell DEF end
<1>8. DOMAIN bound' = T \cup {h} /\ \A g \in T \cup {h} : bound'[g] = IF g = h THEN cap ELSE bound[g]
  BY <1>1
<1>9. Laid(nodes', T \cup {h})
  <2>1. Paths(T \cup {h}) = Paths(T) \cup CapTrie!Path(h)
    BY DEF Paths
  <2> QED
    BY <1>1, <1>5, <2>1 DEF TrieIInv, Laid
<1>10. full' = Terminals(T \cup {h})
  BY <1>1, <1>5 DEF TrieIInv, Terminals, end
<1>11. /\ DOMAIN value' = full'
       /\ \A g \in T \cup {h} : value'[CapTrie!On(g, Depth)] = bound'[g]
  <2>1. DOMAIN value = full /\ \A g \in T : CapTrie!On(g, Depth) \in full
    BY <1>5 DEF TrieIInv, Terminals
  <2>2. DOMAIN value' = full' /\ \A n \in full' : value'[n] = IF n = end THEN cap ELSE value[n]
    BY <1>1, <2>1
  <2>3. ASSUME NEW g \in T PROVE value'[CapTrie!On(g, Depth)] = bound'[g]
    <3>1. value[CapTrie!On(g, Depth)] = bound[g]
      BY <1>5 DEF TrieIInv
    <3> QED
      BY <1>1, <1>6, <1>7, <1>8, <2>1, <2>2, <3>1
  <2>4. value'[end] = bound'[h]
    BY <1>1, <1>8, <2>2
  <2> QED
    BY <2>2, <2>3, <2>4 DEF end
<1>12. IsFiniteSet(T \cup {h}) /\ size' = Cardinality(T \cup {h})
  BY <1>1, <1>5, <1>6, FS_AddElement DEF TrieIInv
<1>13. IsFiniteSet(nodes') /\ nodeCount' = Cardinality(nodes' \cup {<< >>})
  <2> DEFINE old == nodes \cup {<< >>}
  <2>1. IsFiniteSet(nodes) /\ IsFiniteSet(CapTrie!Path(h)) /\ nodeCount = Cardinality(old)
    BY PathIsFinite DEF TrieIInv
  <2>2. IsFiniteSet(old) /\ IsFiniteSet(nodes')
    BY <1>1, <2>1, FS_AddElement, FS_Union
  <2>3. missing = CapTrie!Path(h) \ old
    BY <1>4, <1>5, NodesOnPath DEF missing
  <2>4. IsFiniteSet(missing)
    BY <2>1, <2>3, FS_Difference
  <2>5. old \cap missing = {} /\ nodes' \cup {<< >>} = old \cup missing
    BY <1>1, <2>3
  <2> HIDE DEF old
  <2>6. Cardinality(old \cup missing) = Cardinality(old) + Cardinality(missing)
    <3>1. /\ Cardinality(old \cup missing)
               = Cardinality(old) + Cardinality(missing) - Cardinality(old \cap missing)
          /\ Cardinality(old) \in Nat /\ Cardinality(missing) \in Nat
      BY <2>2, <2>4, FS_Union, FS_CardinalityType
    <3> QED
      BY <2>5, <3>1, FS_EmptySet
  <2> QED
    BY <1>1, <2>1, <2>2, <2>5, <2>6
<1>14. DOMAIN bound' \subseteq CapTrie!Handles \ {0} /\ nextHandle' \in CapTrie!Handles
  BY <1>1, <1>3, <1>4, <1>8 DEF TrieIInv, T
<1> QED
  BY <1>8, <1>9, <1>10, <1>11, <1>12, <1>13, <1>14 DEF TrieIInv

LEMMA TrieErase ==
  ASSUME TrieIInv, NEW h \in CapTrie!Handles, CapTrie!Erase(h)
  PROVE  TrieIInv'
<1> DEFINE T == DOMAIN bound
           U == T \ {h}
           end == CapTrie!On(h, Depth)
<1>1. /\ h # 0 /\ end \in full
      /\ full' = full \ {end}
      /\ nodes' = CapTrie!Compacted(nodes, full', h)
      /\ value' = CapTrie!Restrict(value, DOMAIN value \cap nodes')
      /\ nodeCount' = nodeCount - Cardinality(nodes \ nodes')
      /\ size' = size - 1
      /\ bound' = CapTrie!Restrict(bound, U)
      /\ nextHandle' = nextHandle
  BY TrieCounts DEF CapTrie!Erase, CapTrie!HandleInUse
<1> HIDE DEF T, end
<1>2. /\ T \subseteq CapTrie!Handles /\ IsFiniteSet(T) /\ DOMAIN bound = T
      /\ Depth \in Nat \ {0} /\ Depth \in 0..Depth
  BY TrieAssumption DEF TrieIInv, T
<1>3. h \in T
  <2>1. PICK g \in T : end = CapTrie!On(g, Depth)
    BY <1>1, <1>2 DEF TrieIInv, Terminals
  <2> QED
    BY <1>2, <2>1, NibblesTell DEF end
<1>4. \A g \in U : g \in CapTrie!Handles /\ CapTrie!On(g, Depth) # end
  BY <1>2, NibblesTell DEF end
<1>5. full' = Terminals(U)
  BY <1>1, <1>2, <1>4 DEF TrieIInv, Terminals, end
<1>6. Laid(nodes, T)
  BY <1>2 DEF TrieIInv
<1>7. nodes' = LeftOf(nodes, T, h, Depth)
  BY <1>1, <1>2, <1>3, <1>5, <1>6, CompactedLeaves
<1>8. \A x : x \in nodes' <=>
        x \in nodes /\ (x \in Paths(U) \/ ~ \E d \in 1..Depth : x = CapTrie!On(h, d))
  BY <1>2, <1>7 DEF LeftOf
<1>9. << >> \in nodes => << >> \in nodes'
  <2>1. \A d \in 1..Depth : << >> # CapTrie!On(h, d)
    BY <1>2, NodesOnPath
  <2> QED
    BY <1>8, <2>1
<1>10. Laid(nodes', U)
  <2>1. ASSUME NEW x \in Paths(U) PROVE x \in nodes'
    <3>1. x \in Paths(T)
      BY <2>1, OnPaths
    <3> QED
      BY <1>6, <1>8, <2>1, <3>1 DEF Laid
  <2>2. ASSUME NEW x \in nodes', x \notin Paths(U) PROVE x = << >>
    <3>1. x = << >> \/ x \in Paths(T)
      BY <1>6, <1>8 DEF Laid
    <3>2. ASSUME x \in Paths(T) PROVE x = << >>
      <4>1. PICK g \in T, d \in 0..Depth : x = CapTrie!On(g, d)
        BY <3>2, OnPaths
      <4>2. g = h
        BY <2>2, <4>1, OnPaths
      <4>3. d = 0
        BY <1>2, <1>8, <2>2, <4>1, <4>2
      <4> QED
        BY <1>2, <4>1, <4>2, <4>3, NodesOnPath
    <3> QED
      BY <3>1, <3>2
  <2> QED
    BY <2>1, <2>2 DEF Laid
<1>11. DOMAIN bound' = U /\ \A g \in U : bound'[g] = bound[g]
  BY <1>1 DEF CapTrie!Restrict
<1>12. DOMAIN value' = full' /\ \A g \in U : value'[CapTrie!On(g, Depth)] = bound'[g]
  <2>1. DOMAIN value \cap nodes' = full'
    <3>1. end \notin nodes'
      <4>1. end \notin Paths(U)
        <5> SUFFICES ASSUME end \in Paths(U) PROVE FALSE
          OBVIOUS
        <5>1. PICK g \in U, d \in 0..Depth : end = CapTrie!On(g, d)
          BY OnPaths
        <5>2. d = Depth
          BY <1>2, <1>4, <5>1, SameLength DEF end
        <5> QED
          BY <1>4, <5>1, <5>2
      <4>2. Depth \in 1..Depth
        BY <1>2
      <4> QED
        BY <1>8, <4>1, <4>2 DEF end
    <3>2. full' \subseteq nodes'
      <4>1. ASSUME NEW g \in U PROVE CapTrie!On(g, Depth) \in Paths(U)
        BY <1>2, OnPaths
      <4> QED
        BY <1>5, <1>10, <4>1 DEF Laid, Terminals
    <3> QED
      BY <1>1, <3>1, <3>2 DEF TrieIInv
  <2>2. DOMAIN value' = full' /\ \A n \in full' : value'[n] = value[n]
    BY <1>1, <2>1 DEF CapTrie!Restrict
  <2>3. \A g \in U : CapTrie!On(g, Depth) \in full'
    BY <1>5 DEF Terminals
  <2> QED
    BY <1>2, <1>11, <2>2, <2>3 DEF TrieIInv
<1>13. IsFiniteSet(U) /\ size' = Cardinality(U)
  BY <1>1, <1>2, <1>3, FS_RemoveElement DEF TrieIInv
<1>14. IsFiniteSet(nodes') /\ nodeCount' = Cardinality(nodes' \cup {<< >>})
  <2> DEFINE old == nodes \cup {<< >>}
             new == nodes' \cup {<< >>}
             gone == nodes \ nodes'
  <2>1. IsFiniteSet(nodes) /\ nodeCount = Cardinality(old) /\ nodes' \subseteq nodes
    BY <1>8 DEF TrieIInv
  <2>2. IsFiniteSet(nodes') /\ IsFiniteSet(gone) /\ IsFiniteSet(new)
    BY <2>1, FS_Subset, FS_Difference, FS_AddElement
  <2>3. old = new \cup gone /\ new \cap gone = {} /\ Cardinality({}) = 0
    BY <1>9, <2>1, FS_EmptySet
  <2>4. nodeCount' = nodeCount - Cardinality(gone)
    BY <1>1
  <2> HIDE DEF old, new, gone
  <2>5. Cardinality(new \cup gone) = Cardinality(new) + Cardinality(gone)
    <3>1. /\ Cardinality(new \cup gone)
               = Cardinality(new) + Cardinality(gone) - Cardinality(new \cap gone)
          /\ Cardinality(new) \in Nat /\ Cardinality(gone) \in Nat
      BY <2>2, FS_Union, FS_CardinalityType
    <3>2. Cardinality(new \cap gone) = 0
      BY <2>3
    <3> QED
      BY <3>1, <3>2
  <2>6. Cardinality(new) \in Nat /\ Cardinality(gone) \in Nat
    BY <2>2, FS_CardinalityType
  <2>7. nodeCount' = Cardinality(new)
    <3>1. Cardinality(old) = Cardinality(new \cup gone)
      BY <2>3
    <3>2. nodeCount = Cardinality(old)
      BY <2>1
    <3> QED
      BY <2>4, <2>5, <2>6, <3>1, <3>2
  <2> QED
    BY <2>2, <2>7 DEF new
<1>15. U \subseteq CapTrie!Handles \ {0} /\ nextHandle' \in CapTrie!Handles
  BY <1>1, <1>2 DEF TrieIInv
<1> HIDE DEF U
<1> QED
  BY <1>5, <1>10, <1>11, <1>12, <1>13, <1>14, <1>15 DEF TrieIInv

LEMMA TrieKept == TrieIInv /\ [CapTrie!Next]_CapTrie!vars => TrieIInv'
<1> SUFFICES ASSUME TrieIInv, [CapTrie!Next]_CapTrie!vars PROVE TrieIInv'
  OBVIOUS
<1>1. CASE UNCHANGED CapTrie!vars
  BY <1>1 DEF CapTrie!vars, TrieIInv
<1>2. CASE CapTrie!InsertFails
  <2>1. nextHandle' \in CapTrie!Handles
    <3>1. nextHandle \in Nat /\ CapTrie!HandleModulus \in Nat \ {0}
      BY Modulus DEF TrieIInv
    <3> QED
      BY <1>2, <3>1, Modulus DEF CapTrie!InsertFails
  <2> QED
    BY <1>2, <2>1 DEF CapTrie!InsertFails, TrieIInv
<1> QED
  BY <1>1, <1>2, TrieInsert, TrieErase DEF CapTrie!Next

LEMMA TrieIsMap == TrieIInv => CapTrie!TrieIsTheMap
<1> SUFFICES ASSUME TrieIInv PROVE CapTrie!TrieIsTheMap
  OBVIOUS
<1>1. ASSUME NEW h \in CapTrie!Handles
      PROVE  CapTrie!Lookup(h) = IF h \in DOMAIN bound THEN {bound[h]} ELSE {}
  <2> DEFINE end == CapTrie!On(h, Depth)
  <2>1. Depth \in Nat \ {0} /\ Depth \in 0..Depth /\ DOMAIN bound \subseteq CapTrie!Handles \ {0}
    BY TrieAssumption DEF TrieIInv
  <2>2. CASE h \in DOMAIN bound
    <3>1. end \in nodes /\ h # 0 /\ value[end] = bound[h]
      BY <2>1, <2>2, OnPaths DEF TrieIInv, Laid
    <3> QED
      BY <2>2, <3>1 DEF CapTrie!Lookup
  <2>3. CASE h \notin DOMAIN bound
    <3>1. end \notin nodes
      <4> SUFFICES ASSUME end \in nodes PROVE FALSE
        OBVIOUS
      <4>1. end # << >>
        BY <2>1, NodesOnPath
      <4>2. PICK g \in DOMAIN bound, d \in 0..Depth : end = CapTrie!On(g, d)
        BY <4>1, OnPaths DEF TrieIInv, Laid
      <4>3. g \in CapTrie!Handles /\ d = Depth
        BY <2>1, <4>2, SameLength
      <4> QED
        BY <2>3, <4>2, <4>3, NibblesTell
    <3> QED
      BY <2>3, <3>1 DEF CapTrie!Lookup
  <2> QED
    BY <2>2, <2>3
<1>2. nodes \cup {<< >>} = {<< >>} \cup UNION {CapTrie!Path(h) : h \in DOMAIN bound}
  <2>1. \A x : x \in nodes \cup {<< >>} <=> x \in {<< >>} \cup Paths(DOMAIN bound)
    BY DEF TrieIInv, Laid
  <2>2. nodes \cup {<< >>} = {<< >>} \cup Paths(DOMAIN bound)
    BY <2>1
  <2> QED
    BY <2>2 DEF Paths
<1>3. /\ size = CapTrie!Cardinality(DOMAIN bound)
      /\ nodeCount = CapTrie!Cardinality(nodes \cup {<< >>})
      /\ 0 \notin DOMAIN bound
  BY TrieCounts DEF TrieIInv
<1> QED
  BY <1>1, <1>2, <1>3 DEF CapTrie!TrieIsTheMap

-----------------------------------------------------------------------------
(* The deadline queue.  Each loop moves one entry, and all others are above*)
(* those below them, as are those above it and those below it.             *)

Entries == [deadline : Nat, seq : Nat]

\* Neither of two entries that are not above each other is between others.
LEMMA Order ==
  /\ \A x, y \in Entries : Deadlines!Higher(x, y) => ~Deadlines!Higher(y, x)
  /\ \A x, y, z \in Entries :
       ~Deadlines!Higher(x, y) /\ ~Deadlines!Higher(y, z) => ~Deadlines!Higher(x, z)
  /\ \A x, y \in Entries : ~Deadlines!Higher(x, y) => x = y \/ Deadlines!Higher(y, x)
  BY DEF Entries, Deadlines!Higher

LEMMA Halved ==
  ASSUME NEW j \in Nat \ {0}
  PROVE  /\ j \div 2 \in 0..(j - 1) /\ (j > 1 => j \div 2 >= 1)
         /\ \A i \in Nat : j \div 2 = i <=> j = 2 * i \/ j = 2 * i + 1
  OBVIOUS

\* No entry is above its parent but maybe those of Loose.
Ordered(es, Loose) ==
  \A j \in 2..Len(es) : j \notin Loose => ~Deadlines!Higher(es[j], es[j \div 2])

\* The entries below a place are below the one above it.
Bridged(es, k) ==
  \A j \in 2..Len(es) : j \div 2 = k /\ k > 1 => ~Deadlines!Higher(es[j], es[k \div 2])

States(n) == [es : {es \in Seq(Entries) : Len(es) = n}, at : 1..n]

LEMMA Swapped ==
  ASSUME NEW n \in Nat, NEW z \in States(n), NEW i \in 1..n
  PROVE  /\ [es |-> Deadlines!Swap(z.es, z.at, i), at |-> i] \in States(n)
         /\ \A j \in 1..n : Deadlines!Swap(z.es, z.at, i)[j] =
              IF j = z.at THEN z.es[i] ELSE IF j = i THEN z.es[z.at] ELSE z.es[j]
<1>1. z.es \in Seq(Entries) /\ Len(z.es) = n /\ z.at \in 1..n
  BY DEF States
<1>2. z.es[i] \in Entries /\ z.es[z.at] \in Entries
  BY <1>1
<1>3. /\ Deadlines!Swap(z.es, z.at, i) \in Seq(Entries)
      /\ Len(Deadlines!Swap(z.es, z.at, i)) = n
  BY <1>1, <1>2 DEF Deadlines!Swap
<1>4. \A j \in 1..n : Deadlines!Swap(z.es, z.at, i)[j] =
              IF j = z.at THEN z.es[i] ELSE IF j = i THEN z.es[z.at] ELSE z.es[j]
  BY <1>1 DEF Deadlines!Swap
<1> QED
  BY <1>3, <1>4 DEF States

RaisesOn(z) == z.at > 1 /\ Deadlines!Higher(z.es[z.at], z.es[z.at \div 2])

\* A turn of sift_up keeps all ordered but the entry that rises.
LEMMA RaisedKeeps ==
  ASSUME NEW n \in Nat, NEW z \in States(n), Ordered(z.es, {z.at}), Bridged(z.es, z.at),
         RaisesOn(z)
  PROVE  LET y == Deadlines!Raised(z) IN
           /\ y \in States(n) /\ y.at < z.at
           /\ Ordered(y.es, {y.at}) /\ Bridged(y.es, y.at)
<1> DEFINE p == z.at \div 2
           es == z.es
           fs == Deadlines!Swap(es, z.at, p)
<1>1. /\ es \in Seq(Entries) /\ Len(es) = n /\ z.at \in 2..n /\ p \in 1..n /\ p < z.at
      /\ \A j \in 1..n : es[j] \in Entries
  BY Halved DEF States, RaisesOn
<1>2. Deadlines!Raised(z) = [es |-> fs, at |-> p]
  BY DEF Deadlines!Raised, RaisesOn
<1>3. /\ [es |-> fs, at |-> p] \in States(n)
      /\ \A j \in 1..n : fs[j] = IF j = z.at THEN es[p] ELSE IF j = p THEN es[z.at] ELSE es[j]
  BY <1>1, Swapped
<1>4. Len(fs) = n
  BY <1>3 DEF States
<1>5. Deadlines!Higher(es[z.at], es[p])
  BY DEF RaisesOn
<1> HIDE DEF p, fs, es
<1>6. \A j \in 2..n : j # z.at => ~Deadlines!Higher(es[j], es[j \div 2])
  BY <1>1 DEF Ordered, es
<1>7. \A j \in 2..n : j \div 2 = z.at => ~Deadlines!Higher(es[j], es[p])
  BY <1>1 DEF Bridged, es, p
<1>8. \A j \in 2..n : j \div 2 \in 1..n /\ j \div 2 < j
  BY Halved
<1>9. Ordered(fs, {p})
  <2> SUFFICES ASSUME NEW j \in 2..n, j # p PROVE ~Deadlines!Higher(fs[j], fs[j \div 2])
    BY <1>4 DEF Ordered
  <2>1. CASE j = z.at
    <3>1. fs[j] = es[p] /\ fs[j \div 2] = es[z.at]
      BY <1>1, <1>3, <2>1 DEF p
    <3> QED
      BY <1>1, <1>5, <3>1, Order
  <2>2. CASE j # z.at /\ j \div 2 = p
    <3>1. fs[j] = es[j] /\ fs[j \div 2] = es[z.at]
      BY <1>1, <1>3, <2>2
    <3>2. ~Deadlines!Higher(es[j], es[p]) /\ ~Deadlines!Higher(es[p], es[z.at])
      BY <1>1, <1>5, <1>6, <2>2, Order
    <3> QED
      BY <1>1, <3>1, <3>2, Order
  <2>3. CASE j # z.at /\ j \div 2 = z.at
    <3>1. fs[j] = es[j] /\ fs[j \div 2] = es[p]
      BY <1>1, <1>3, <2>3
    <3> QED
      BY <1>7, <2>3, <3>1
  <2>4. CASE j # z.at /\ j \div 2 # p /\ j \div 2 # z.at
    <3>1. fs[j] = es[j] /\ fs[j \div 2] = es[j \div 2]
      BY <1>1, <1>3, <1>8, <2>4
    <3> QED
      BY <1>6, <2>4, <3>1
  <2> QED
    BY <2>1, <2>2, <2>3, <2>4
<1>10. Bridged(fs, p)
  <2> SUFFICES ASSUME NEW j \in 2..n, j \div 2 = p, p > 1
               PROVE  ~Deadlines!Higher(fs[j], fs[p \div 2])
    BY <1>4 DEF Bridged
  <2>1. p \div 2 \in 1..n /\ p \div 2 < p
    BY <1>1, <1>8
  <2>2. fs[p \div 2] = es[p \div 2]
    BY <1>1, <1>3, <2>1
  <2>3. ~Deadlines!Higher(es[p], es[p \div 2])
    BY <1>1, <1>6
  <2>4. CASE j = z.at
    BY <1>1, <1>3, <2>2, <2>3, <2>4
  <2>5. CASE j # z.at
    <3>1. fs[j] = es[j] /\ ~Deadlines!Higher(es[j], es[p])
      BY <1>1, <1>3, <1>6, <1>8, <2>5
    <3> QED
      BY <1>1, <2>1, <2>2, <2>3, <3>1, Order
  <2> QED
    BY <2>4, <2>5
<1> QED
  BY <1>1, <1>2, <1>3, <1>9, <1>10

LoweredOn(z) ==
  2 * z.at <= Len(z.es) /\ Deadlines!Higher(z.es[Deadlines!SmallerChild(z)], z.es[z.at])

\* The child that sift_down compares is not below its sibling.
LEMMA Child ==
  ASSUME NEW n \in Nat, NEW z \in States(n), 2 * z.at <= n
  PROVE  LET c == Deadlines!SmallerChild(z) IN
           /\ c \in 2..n /\ c \div 2 = z.at /\ c > z.at
           /\ \A j \in 2..n : j \div 2 = z.at => ~Deadlines!Higher(z.es[j], z.es[c])
<1>1. z.es \in Seq(Entries) /\ Len(z.es) = n /\ z.at \in 1..n
      /\ \A j \in 1..n : z.es[j] \in Entries
  BY DEF States
<1> DEFINE c == Deadlines!SmallerChild(z)
<1>2. c = 2 * z.at \/ (c = 2 * z.at + 1 /\ 2 * z.at < n)
  BY <1>1 DEF Deadlines!SmallerChild
<1> HIDE DEF c
<1>3. c \in 2..n /\ c > z.at /\ c \div 2 = z.at
  <2>1. z.at \in 1..n /\ 2 * z.at <= n
    BY <1>1
  <2>2. c \in 2..n /\ c > z.at
    BY <1>2, <2>1
  <2>3. c \in Nat \ {0} /\ z.at \in Nat
    BY <2>1, <2>2
  <2> QED
    BY <1>2, <2>2, <2>3, Halved
<1>4. ASSUME NEW j \in 2..n, j \div 2 = z.at PROVE ~Deadlines!Higher(z.es[j], z.es[c])
  <2>1. j = 2 * z.at \/ j = 2 * z.at + 1
    <3>1. j \in Nat \ {0} /\ z.at \in Nat
      BY <1>1
    <3> QED
      BY <1>4, <3>1, Halved
  <2>2. CASE j = c
    BY <1>1, <2>2, Order
  <2>3. CASE j # c /\ c = 2 * z.at
    BY <1>1, <2>1, <2>3 DEF c, Deadlines!SmallerChild
  <2>4. CASE j # c /\ c = 2 * z.at + 1
    <3>1. j = 2 * z.at /\ Deadlines!Higher(z.es[c], z.es[j])
      BY <1>1, <2>1, <2>4 DEF c, Deadlines!SmallerChild
    <3> QED
      BY <1>1, <1>3, <3>1, Order
  <2> QED
    BY <1>2, <2>2, <2>3, <2>4
<1> QED
  BY <1>3, <1>4 DEF c

\* A turn of sift_down keeps all ordered but what is right below the entry that sinks.
Below(k) == {j \in Nat : j \div 2 = k}

LEMMA LoweredKeeps ==
  ASSUME NEW n \in Nat, NEW z \in States(n), Ordered(z.es, Below(z.at)), Bridged(z.es, z.at),
         LoweredOn(z)
  PROVE  LET y == Deadlines!Lowered(z) IN
           /\ y \in States(n) /\ y.at > z.at
           /\ Ordered(y.es, Below(y.at)) /\ Bridged(y.es, y.at)
<1> DEFINE c == Deadlines!SmallerChild(z)
           es == z.es
           fs == Deadlines!Swap(es, z.at, c)
<1>1. /\ es \in Seq(Entries) /\ Len(es) = n /\ z.at \in 1..n
      /\ \A j \in 1..n : es[j] \in Entries
  BY DEF States
<1>2. /\ c \in 2..n /\ c \div 2 = z.at /\ c > z.at
      /\ \A j \in 2..n : j \div 2 = z.at => ~Deadlines!Higher(es[j], es[c])
  BY <1>1, Child DEF LoweredOn
<1>3. Deadlines!Lowered(z) = [es |-> fs, at |-> c]
  BY DEF Deadlines!Lowered, LoweredOn
<1>4. /\ [es |-> fs, at |-> c] \in States(n)
      /\ \A j \in 1..n : fs[j] = IF j = z.at THEN es[c] ELSE IF j = c THEN es[z.at] ELSE es[j]
  BY <1>1, <1>2, Swapped
<1>5. Len(fs) = n
  BY <1>4 DEF States
<1>6. Deadlines!Higher(es[c], es[z.at])
  BY DEF LoweredOn
<1> HIDE DEF c, fs, es
<1>7. \A j \in 2..n : j \div 2 # z.at => ~Deadlines!Higher(es[j], es[j \div 2])
  BY <1>1 DEF Ordered, Below, es
<1>8. \A j \in 2..n : j \div 2 = z.at /\ z.at > 1 => ~Deadlines!Higher(es[j], es[z.at \div 2])
  BY <1>1 DEF Bridged, es
<1>9. \A j \in 2..n : j \div 2 \in 1..n /\ j \div 2 < j
  BY Halved
<1>10. Ordered(fs, Below(c))
  <2> SUFFICES ASSUME NEW j \in 2..n, j \div 2 # c
               PROVE  ~Deadlines!Higher(fs[j], fs[j \div 2])
    <3>1. \A j \in 2..n : j \notin Below(c) <=> j \div 2 # c
      BY DEF Below
    <3> QED
      BY <1>5, <3>1 DEF Ordered
  <2>1. CASE j = c
    <3>1. fs[j] = es[z.at] /\ fs[j \div 2] = es[c]
      BY <1>1, <1>2, <1>4, <2>1
    <3> QED
      BY <1>1, <1>2, <1>6, <3>1, Order
  <2>2. CASE j # c /\ j \div 2 = z.at
    <3>1. fs[j] = es[j] /\ fs[j \div 2] = es[c]
      BY <1>1, <1>4, <1>9, <2>2
    <3> QED
      BY <1>2, <2>2, <3>1
  <2>3. CASE j = z.at
    <3>1. z.at > 1 /\ j \div 2 # z.at /\ j \div 2 # c
      BY <1>2, <1>9, <2>3
    <3>2. fs[j] = es[c] /\ fs[j \div 2] = es[z.at \div 2]
      BY <1>1, <1>4, <1>9, <2>3, <3>1
    <3> QED
      BY <1>2, <1>8, <3>1, <3>2
  <2>4. CASE j # c /\ j # z.at /\ j \div 2 # z.at
    <3>1. fs[j] = es[j] /\ fs[j \div 2] = es[j \div 2]
      BY <1>4, <1>9, <2>4
    <3> QED
      BY <1>7, <2>4, <3>1
  <2> QED
    BY <2>1, <2>2, <2>3, <2>4
<1>11. Bridged(fs, c)
  <2> SUFFICES ASSUME NEW j \in 2..n, j \div 2 = c PROVE ~Deadlines!Higher(fs[j], fs[z.at])
    BY <1>2, <1>5 DEF Bridged
  <2>1. fs[j] = es[j] /\ fs[z.at] = es[c]
    BY <1>1, <1>2, <1>4, <1>9
  <2> QED
    BY <1>2, <1>7, <2>1
<1> QED
  BY <1>2, <1>3, <1>4, <1>10, <1>11

\* SiftUp and SiftDown by names for the turns of their loops.
RaisedTurns(es, i, t) ==
  [k \in 0..Len(es) |-> IF k = 0 THEN [es |-> es, at |-> i] ELSE Deadlines!Raised(t[k - 1])]

LoweredTurns(es, i, t) ==
  [k \in 0..Len(es) |-> IF k = 0 THEN [es |-> es, at |-> i] ELSE Deadlines!Lowered(t[k - 1])]

Raising(es, i) == CHOOSE t : t = RaisedTurns(es, i, t)
Lowering(es, i) == CHOOSE t : t = LoweredTurns(es, i, t)

LEMMA RaisedIsState ==
  ASSUME NEW n \in Nat, NEW z \in States(n)
  PROVE  Deadlines!Raised(z) \in States(n)
<1>1. z.at \in 1..n
  BY DEF States
<1>2. CASE RaisesOn(z)
  <2>1. z.at \div 2 \in 1..n
    BY <1>1, <1>2, Halved DEF RaisesOn
  <2> QED
    BY <1>2, <2>1, Swapped DEF Deadlines!Raised, RaisesOn
<1>3. CASE ~RaisesOn(z)
  BY <1>3 DEF Deadlines!Raised, RaisesOn
<1> QED
  BY <1>2, <1>3

LEMMA LoweredIsState ==
  ASSUME NEW n \in Nat, NEW z \in States(n)
  PROVE  Deadlines!Lowered(z) \in States(n)
<1>1. Len(z.es) = n
  BY DEF States
<1>2. CASE LoweredOn(z)
  <2>1. Deadlines!SmallerChild(z) \in 1..n
    BY <1>1, <1>2, Child DEF LoweredOn
  <2> QED
    BY <1>2, <2>1, Swapped DEF Deadlines!Lowered, LoweredOn
<1>3. CASE ~LoweredOn(z)
  BY <1>3 DEF Deadlines!Lowered, LoweredOn
<1> QED
  BY <1>2, <1>3

LEMMA RaisingTurns ==
  ASSUME NEW n \in Nat, NEW es \in Seq(Entries), Len(es) = n, NEW i \in 1..n
  PROVE  Raising(es, i) = RaisedTurns(es, i, Raising(es, i))
<1> DEFINE start == [es |-> es, at |-> i]
           turn == [z \in States(n) |-> Deadlines!Raised(z)]
<1>1. start \in States(n)
  BY DEF States
<1>2. turn \in [States(n) -> States(n)]
  BY RaisedIsState
<1>3. \A z \in States(n) : turn[z] = Deadlines!Raised(z)
  OBVIOUS
<1> HIDE DEF start, turn
<1>4. PICK f : Loop(f, States(n), turn, start, n)
  BY <1>1, <1>2, Turns
<1>5. f = RaisedTurns(es, i, f)
  <2>1. \A k \in 0..n : k # 0 => f[k] = Deadlines!Raised(f[k - 1])
    BY <1>3, <1>4 DEF Loop
  <2> QED
    BY <1>4, <2>1 DEF Loop, RaisedTurns, start
<1> QED
  BY <1>5 DEF Raising

LEMMA LoweringTurns ==
  ASSUME NEW n \in Nat, NEW es \in Seq(Entries), Len(es) = n, NEW i \in 1..n
  PROVE  Lowering(es, i) = LoweredTurns(es, i, Lowering(es, i))
<1> DEFINE start == [es |-> es, at |-> i]
           turn == [z \in States(n) |-> Deadlines!Lowered(z)]
<1>1. start \in States(n)
  BY DEF States
<1>2. turn \in [States(n) -> States(n)]
  BY LoweredIsState
<1>3. \A z \in States(n) : turn[z] = Deadlines!Lowered(z)
  OBVIOUS
<1> HIDE DEF start, turn
<1>4. PICK f : Loop(f, States(n), turn, start, n)
  BY <1>1, <1>2, Turns
<1>5. f = LoweredTurns(es, i, f)
  <2>1. \A k \in 0..n : k # 0 => f[k] = Deadlines!Lowered(f[k - 1])
    BY <1>3, <1>4 DEF Loop
  <2> QED
    BY <1>4, <2>1 DEF Loop, LoweredTurns, start
<1> QED
  BY <1>5 DEF Lowering

\* sift_up of the only entry that may be above its parent leaves a heap: each turn that
\* changes anything comes nearer to the top, so that the last does not.
LEMMA SiftedUp ==
  ASSUME NEW n \in Nat, NEW es \in Seq(Entries), Len(es) = n, NEW i \in 1..n,
         Ordered(es, {i}), Bridged(es, i)
  PROVE  LET fs == Deadlines!SiftUp(es, i) IN
           fs \in Seq(Entries) /\ Len(fs) = n /\ Ordered(fs, {})
<1> DEFINE t == Raising(es, i)
           Good(k) == /\ t[k] \in States(n)
                      /\ Ordered(t[k].es, {t[k].at}) /\ Bridged(t[k].es, t[k].at)
                      /\ ~RaisesOn(t[k]) \/ t[k].at + k <= i
           T == {k \in 0..n : Good(k)}
<1>1. t = RaisedTurns(es, i, t)
  BY RaisingTurns
<1>2. t[0] = [es |-> es, at |-> i] /\ \A k \in 1..n : t[k] = Deadlines!Raised(t[k - 1])
  BY <1>1 DEF RaisedTurns
<1> HIDE DEF t
<1>3. 0 \in T
  <2>1. t[0].es = es /\ t[0].at = i /\ t[0] \in States(n)
    BY <1>2 DEF States
  <2>2. Good(0)
    BY <2>1
  <2> QED
    BY <2>2
<1>4. ASSUME NEW k \in 1..n, k - 1 \in T PROVE k \in T
  <2>1. /\ t[k - 1] \in States(n) /\ t[k - 1].at \in 1..n
        /\ Ordered(t[k - 1].es, {t[k - 1].at}) /\ Bridged(t[k - 1].es, t[k - 1].at)
        /\ ~RaisesOn(t[k - 1]) \/ t[k - 1].at + (k - 1) <= i
    BY <1>4 DEF States
  <2>2. CASE RaisesOn(t[k - 1])
    <3>1. /\ t[k] \in States(n) /\ t[k].at < t[k - 1].at /\ t[k].at \in 1..n
          /\ Ordered(t[k].es, {t[k].at}) /\ Bridged(t[k].es, t[k].at)
      BY <1>2, <2>1, <2>2, RaisedKeeps DEF States
    <3>2. t[k].at + k <= i
      BY <2>1, <2>2, <3>1
    <3> QED
      BY <3>1, <3>2
  <2>3. CASE ~RaisesOn(t[k - 1])
    <3>1. t[k] = t[k - 1]
      BY <1>2, <2>3 DEF Deadlines!Raised, RaisesOn
    <3>2. Good(k)
      BY <2>1, <2>3, <3>1
    <3> QED
      BY <3>2
  <2> QED
    BY <2>2, <2>3
<1> HIDE DEF T
<1>5. \A k \in 0..n : k \in T
  <2>1. \A k \in 1..n : k - 1 \in T => k \in T
    BY <1>4
  <2> QED
    BY <1>3, <2>1, UpTo
<1>6. Good(n)
  <2>1. n \in T
    BY <1>5
  <2> QED
    BY <2>1 DEF T
<1>7. t[n].at \in 1..n /\ t[n].es \in Seq(Entries) /\ Len(t[n].es) = n
  BY <1>6 DEF States
<1>8. ~RaisesOn(t[n])
  BY <1>6, <1>7
<1>9. Ordered(t[n].es, {})
  BY <1>6, <1>7, <1>8 DEF Ordered, RaisesOn
<1>10. Deadlines!SiftUp(es, i) = t[n].es
  BY DEF Deadlines!SiftUp, Raising, RaisedTurns, t
<1> QED
  BY <1>7, <1>9, <1>10

\* The same of sift_down and the entry that may be below its children.
LEMMA SiftedDown ==
  ASSUME NEW n \in Nat, NEW es \in Seq(Entries), Len(es) = n, NEW i \in 1..n,
         Ordered(es, Below(i)), Bridged(es, i)
  PROVE  LET fs == Deadlines!SiftDown(es, i) IN
           fs \in Seq(Entries) /\ Len(fs) = n /\ Ordered(fs, {})
<1> DEFINE t == Lowering(es, i)
           Good(k) == /\ t[k] \in States(n)
                      /\ Ordered(t[k].es, Below(t[k].at)) /\ Bridged(t[k].es, t[k].at)
                      /\ ~LoweredOn(t[k]) \/ t[k].at > k
           T == {k \in 0..n : Good(k)}
<1>1. t = LoweredTurns(es, i, t)
  BY LoweringTurns
<1>2. t[0] = [es |-> es, at |-> i] /\ \A k \in 1..n : t[k] = Deadlines!Lowered(t[k - 1])
  BY <1>1 DEF LoweredTurns
<1> HIDE DEF t
<1>3. 0 \in T
  <2>1. t[0].es = es /\ t[0].at = i /\ t[0] \in States(n)
    BY <1>2 DEF States
  <2>2. Good(0)
    BY <2>1
  <2> QED
    BY <2>2
<1>4. ASSUME NEW k \in 1..n, k - 1 \in T PROVE k \in T
  <2>1. /\ t[k - 1] \in States(n) /\ t[k - 1].at \in 1..n
        /\ Ordered(t[k - 1].es, Below(t[k - 1].at)) /\ Bridged(t[k - 1].es, t[k - 1].at)
        /\ ~LoweredOn(t[k - 1]) \/ t[k - 1].at > k - 1
    BY <1>4 DEF States
  <2>2. CASE LoweredOn(t[k - 1])
    <3>1. /\ t[k] \in States(n) /\ t[k].at > t[k - 1].at /\ t[k].at \in 1..n
          /\ Ordered(t[k].es, Below(t[k].at)) /\ Bridged(t[k].es, t[k].at)
      BY <1>2, <2>1, <2>2, LoweredKeeps DEF States
    <3>2. t[k].at > k
      BY <2>1, <2>2, <3>1
    <3> QED
      BY <3>1, <3>2
  <2>3. CASE ~LoweredOn(t[k - 1])
    <3>1. t[k] = t[k - 1]
      BY <1>2, <2>3 DEF Deadlines!Lowered, LoweredOn
    <3> QED
      BY <2>1, <2>3, <3>1
  <2> QED
    BY <2>2, <2>3
<1> HIDE DEF T
<1>5. \A k \in 0..n : k \in T
  <2>1. \A k \in 1..n : k - 1 \in T => k \in T
    BY <1>4
  <2> QED
    BY <1>3, <2>1, UpTo
<1>6. Good(n)
  <2>1. n \in T
    BY <1>5
  <2> QED
    BY <2>1 DEF T
<1>7. t[n] \in States(n) /\ t[n].at \in 1..n /\ t[n].es \in Seq(Entries) /\ Len(t[n].es) = n
  BY <1>6 DEF States
<1>8. ~LoweredOn(t[n])
  BY <1>6, <1>7
<1>9. ASSUME NEW j \in 2..n PROVE ~Deadlines!Higher(t[n].es[j], t[n].es[j \div 2])
  <2>1. CASE j \div 2 # t[n].at
    BY <1>6, <1>7, <2>1 DEF Ordered, Below
  <2>2. CASE j \div 2 = t[n].at
    <3>1. 2 * t[n].at <= n
      BY <2>2, <1>7, Halved
    <3>2. LET c == Deadlines!SmallerChild(t[n]) IN
            /\ c \in 2..n
            /\ ~Deadlines!Higher(t[n].es[j], t[n].es[c])
            /\ ~Deadlines!Higher(t[n].es[c], t[n].es[t[n].at])
      BY <1>7, <1>8, <2>2, <3>1, Child DEF LoweredOn
    <3> QED
      BY <1>7, <2>2, <3>2, Order
  <2> QED
    BY <2>1, <2>2
<1>10. Ordered(t[n].es, {})
  BY <1>7, <1>9 DEF Ordered
<1>11. Deadlines!SiftDown(es, i) = t[n].es
  BY DEF Deadlines!SiftDown, Lowering, LoweredTurns, t
<1> QED
  BY <1>7, <1>10, <1>11

HeapIInv == heap \in Seq(Entries) /\ nextSeq \in Nat /\ Ordered(heap, {})

LEMMA HeapInit == Deadlines!Init => HeapIInv
  BY DEF Deadlines!Init, HeapIInv, Ordered

LEMMA HeapKept == HeapIInv /\ [Deadlines!Next]_Deadlines!vars => HeapIInv'
<1> SUFFICES ASSUME HeapIInv, [Deadlines!Next]_Deadlines!vars PROVE HeapIInv'
  OBVIOUS
<1> DEFINE n == Len(heap)
<1>1. /\ heap \in Seq(Entries) /\ n \in Nat /\ nextSeq \in Nat
      /\ \A j \in 1..n : heap[j] \in Entries
      /\ \A j \in 2..n : ~Deadlines!Higher(heap[j], heap[j \div 2])
  BY DEF HeapIInv, Ordered
<1>2. CASE UNCHANGED Deadlines!vars
  BY <1>2 DEF Deadlines!vars, HeapIInv
<1>3. ASSUME NEW d \in 0..MaxTime, Deadlines!Push(d) PROVE HeapIInv'
  <2> DEFINE new == [deadline |-> d, seq |-> nextSeq]
             es == Append(heap, new)
  <2>1. new \in Entries
    BY <1>1, DeadlinesAssumption DEF Entries
  <2>2. /\ es \in Seq(Entries) /\ Len(es) = n + 1
        /\ \A j \in 1..n : es[j] = heap[j]
    BY <1>1, <2>1
  <2>3. \A j \in 2..(n + 1) : j \div 2 \in 1..n /\ j \div 2 # n + 1
    BY <1>1, Halved
  <2> HIDE DEF es
  <2>4. Ordered(es, {n + 1}) /\ Bridged(es, n + 1)
    BY <1>1, <2>2, <2>3 DEF Ordered, Bridged
  <2>5. heap' = Deadlines!SiftUp(es, n + 1) /\ nextSeq' \in Nat
    BY <1>1, <1>3 DEF Deadlines!Push, es
  <2> QED
    BY <1>1, <2>2, <2>4, <2>5, SiftedUp DEF HeapIInv
<1>4. ASSUME heap # << >>, Deadlines!Remove, nextSeq' = nextSeq PROVE HeapIInv'
  <2> DEFINE es == SubSeq([heap EXCEPT ![1] = heap[n]], 1, n - 1)
  <2>1. n # 0
    BY <1>1, <1>4
  <2>2. CASE n = 1
    BY <1>1, <1>4, <2>2 DEF Deadlines!Remove, HeapIInv, Ordered
  <2>3. CASE n # 1
    <3> DEFINE fs == [heap EXCEPT ![1] = heap[n]]
    <3>6. n \in Nat /\ n \in 2..n
      BY <1>1, <2>1, <2>3
    <3>7. /\ fs \in Seq(Entries) /\ Len(fs) = n
          /\ \A j \in 2..n : fs[j] = heap[j]
      BY <1>1, <3>6
    <3> HIDE DEF fs
    <3>1. /\ es \in Seq(Entries) /\ Len(es) = n - 1
          /\ \A j \in 2..(n - 1) : es[j] = heap[j]
      <4>1. 1 \in 1..Len(fs) /\ n - 1 \in 0..Len(fs)
        BY <3>6, <3>7
      <4>2. /\ es \in Seq(Entries) /\ Len(es) = n - 1
            /\ \A j \in 1..(n - 1) : es[j] = fs[j]
        BY <3>6, <3>7, <4>1 DEF fs
      <4> QED
        BY <3>6, <3>7, <4>2
    <3>2. heap' = Deadlines!SiftDown(es, 1)
      BY <1>4, <2>3 DEF Deadlines!Remove
    <3>3. \A j \in 2..(n - 1) : j \div 2 # 1 => j \div 2 \in 2..(n - 1)
      BY <1>1, Halved
    <3> HIDE DEF es
    <3>4. Ordered(es, Below(1)) /\ Bridged(es, 1)
      BY <1>1, <3>1, <3>3 DEF Ordered, Bridged, Below
    <3>5. n - 1 \in Nat /\ 1 \in 1..(n - 1)
      BY <3>6
    <3> QED
      BY <1>1, <1>4, <3>1, <3>2, <3>4, <3>5, SiftedDown DEF HeapIInv
  <2> QED
    BY <2>2, <2>3
<1>5. CASE Deadlines!Clear
  BY <1>1, <1>5 DEF Deadlines!Clear, HeapIInv, Ordered
<1> QED
  BY <1>2, <1>3, <1>4, <1>5 DEF Deadlines!Next, Deadlines!Pop, Deadlines!TryPop,
     Deadlines!Tick, HeapIInv

\* Nothing is above the top: not the first entry that would be.
LEMMA TopIsFirst == HeapIInv => Deadlines!EarliestFirst
<1> SUFFICES ASSUME HeapIInv, heap # << >>, NEW i \in 1..Len(heap)
             PROVE  heap[i] = heap[1] \/ Deadlines!Higher(heap[1], heap[i])
  BY DEF Deadlines!EarliestFirst, Deadlines!Pending
<1> DEFINE n == Len(heap)
           Above == {j \in 1..n : Deadlines!Higher(heap[j], heap[1])}
<1>1. /\ heap \in Seq(Entries) /\ n \in Nat /\ 1 \in 1..n
      /\ \A j \in 1..n : heap[j] \in Entries
      /\ \A j \in 2..n : ~Deadlines!Higher(heap[j], heap[j \div 2])
  BY DEF HeapIInv, Ordered
<1>2. ASSUME Above # {} PROVE FALSE
  <2>1. Above \subseteq Nat
    OBVIOUS
  <2> HIDE DEF Above
  <2>2. PICK j \in Above : \A k \in Above : j <= k
    BY <1>2, <2>1, LeastNatural
  <2>3. j \in 1..n /\ Deadlines!Higher(heap[j], heap[1])
    BY DEF Above
  <2>4. j # 1
    BY <1>1, <2>3, Order
  <2>5. j \div 2 \in 1..n /\ j \div 2 < j
    BY <1>1, <2>3, <2>4, Halved
  <2>6. j \div 2 \notin Above
    BY <2>2, <2>3, <2>5
  <2>7. ~Deadlines!Higher(heap[j \div 2], heap[1])
    BY <2>5, <2>6 DEF Above
  <2> QED
    BY <1>1, <2>3, <2>4, <2>5, <2>7, Order
<1>3. ~Deadlines!Higher(heap[i], heap[1])
  BY <1>2
<1> QED
  BY <1>1, <1>3, Order

-----------------------------------------------------------------------------
(* The theorems.                                                           *)

\* A step of the whole is a step of each component or leaves it as it is.
LEMMA Separate ==
  ASSUME [ResourcesNext]_resources
  PROVE  /\ [Arena!Next]_Arena!vars /\ [Pool!Next]_Pool!vars
         /\ [AddressSpace!Next]_AddressSpace!vars /\ [CapTrie!Next]_CapTrie!vars
         /\ [ObjectTable!Next]_ObjectTable!vars /\ [Sockets!Next]_Sockets!vars
         /\ [Deadlines!Next]_Deadlines!vars
  BY DEF ResourcesNext, ArenaStep, PoolStep, SpaceStep, TrieStep, TableStep, SocketsStep,
     DeadlinesStep, resources, arena, pool, space, trie, table, sockets, deadlines,
     Arena!vars, Pool!vars, AddressSpace!vars, CapTrie!vars, ObjectTable!vars, Sockets!vars,
     Deadlines!vars

\* Arena::allocate, checkpoint, reset_to and reset never let two blocks lie over each other,
\* Pool's free list is the blocks nobody owns whatever their owners write into them, and a
\* descriptor has one Socket, however these are moved.
THEOREM OneOwnerEach == ResourcesSpec => []OwnedOnce
<1> DEFINE IInv == ArenaIInv /\ PoolIInv /\ SocketsIInv
<1>1. ResourcesInit => IInv
  BY ArenaInit, PoolInit, SocketsInit DEF ResourcesInit
<1>2. IInv /\ [ResourcesNext]_resources => IInv'
  BY Separate, ArenaKept, PoolKept, SocketsKept
<1>3. IInv => OwnedOnce
  BY BlocksLieApart, FreeAreTheRest DEF OwnedOnce, SocketsIInv
<1> QED
  BY <1>1, <1>2, <1>3, PTL DEF ResourcesSpec

\* VmaTree::find answers for every address with what mapping and unmapping left there, for
\* any ranges; RadixPageTable::translate gives what each page was mapped to last, and it
\* knows the pages written; CapabilitySpace::lookup finds what each handle was bound to,
\* though handles wrap and erase compacts; ObjectTable finds by an id the object inserted
\* for it last, and no object by a generation of its own that it was told is past, though
\* objects share ids and slots.
THEOREM LookupsFind == ResourcesSpec => []LookupsAgree
<1> DEFINE IInv == TreeIInv /\ SpaceIInv /\ TrieIInv /\ TableIInv
<1>1. ResourcesInit => IInv
  BY TreeInit, SpaceInit, TrieInit, TableInit DEF ResourcesInit
<1>2. IInv /\ [ResourcesNext]_resources => IInv'
  BY Separate, TreeKept, SpaceKept, TrieKept, TableKept
<1>3. IInv => LookupsAgree
  BY TreeFinds, TrieIsMap, TableMaps DEF LookupsAgree, SpaceIInv
<1> QED
  BY <1>1, <1>2, <1>3, PTL DEF ResourcesSpec

\* DeadlineQueue: next_deadline shows and pop and try_pop take the earliest of all entries
\* pending and, of equal deadlines, the one pushed first.
THEOREM EarliestIsFirst == ResourcesSpec => []EarliestFirst
<1>1. ResourcesInit => HeapIInv
  BY HeapInit DEF ResourcesInit
<1>2. HeapIInv /\ [ResourcesNext]_resources => HeapIInv'
  BY Separate, HeapKept
<1>3. HeapIInv => EarliestFirst
  BY TopIsFirst DEF EarliestFirst
<1> QED
  BY <1>1, <1>2, <1>3, PTL DEF ResourcesSpec
=============================================================================

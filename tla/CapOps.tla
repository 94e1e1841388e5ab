-------------------------------- MODULE CapOps --------------------------------
(***************************************************************************)
(* neuro::sec::CapOps over CapabilitySpaces and their CapEpochs            *)
(* (src/include/neuro/sec/cap_ops.hpp, cap_space.hpp, epoch.hpp).  A space *)
(* is here what its trie stands for, a function from handles to            *)
(* capabilities; every operation is called by the space's owning thread and*)
(* is one step.  Handles and epochs wrap as their integers do, at          *)
(* HandleModulus (2^64) and EpochModulus (2^16).                           *)
(***************************************************************************)
EXTENDS Naturals, FiniteSets, FiniteSetsExt

CONSTANTS
  Spaces,
  Rights,          \* the bits of CapRight; None is the empty set
  GrantRight,      \* CapRight::Grant
  EpochModulus,
  HandleModulus,
  MaxMints,        \* bound: capabilities minted in a behaviour
  MaxInserts,      \* bound: inserts into one space
  MaxRevokes       \* bound: revocations of one space

ASSUME CapOpsAssumption ==
  /\ GrantRight \in Rights
  /\ {EpochModulus, HandleModulus} \subseteq Nat \ {0, 1}
  /\ {MaxMints, MaxInserts, MaxRevokes} \subseteq Nat

VARIABLES
  space,       \* what each space binds: a function from handles to capabilities
  nextHandle,  \* CapabilitySpace::next_handle_
  epoch,       \* CapEpoch::epoch_ of each space
  minted,      \* history: of each mint, by number, its rights, its space, and how
               \* often that space had been revoked
  copies,      \* history: for each mint, the copies made less the handles erased
  inserts,     \* history: inserts into each space
  revokes      \* history: revocations of each space

vars == <<space, nextHandle, epoch, minted, copies, inserts, revokes>>

\* A capability of the program, with the number of the mint it descends from.
Capability == [rights : SUBSET Rights, epoch : 0..(EpochModulus - 1), origin : 1..MaxMints]

Handle == 1..(HandleModulus - 1)

Bound(s) == DOMAIN space[s]

Mints == DOMAIN minted

Init ==
  /\ space = [s \in Spaces |-> << >>]
  /\ nextHandle = [s \in Spaces |-> 1]
  /\ epoch = [s \in Spaces |-> 0]
  /\ minted = << >>
  /\ copies = << >>
  /\ inserts = [s \in Spaces |-> 0]
  /\ revokes = [s \in Spaces |-> 0]

-----------------------------------------------------------------------------
(* CapabilitySpace::insert and erase.                                      *)

\* Slip: handles in use are not passed over.
Attempts_IgnoreUse(s) ==
  {k \in 0..(HandleModulus - 2) : (nextHandle[s] + k) % HandleModulus \in Handle}

\* Slip: nor is 0.
Attempts_WithZero(s) ==
  {k \in 0..(HandleModulus - 2) : (nextHandle[s] + k) % HandleModulus \notin Bound(s)}

\* mint_handle counts on from next_handle_ past 0 and the handles in use, and gives
\* up after HandleModulus - 1 attempts: these are the attempts that succeed.
Attempts(s) ==
  {k \in 0..(HandleModulus - 2) :
     (nextHandle[s] + k) % HandleModulus \in Handle \ Bound(s)}

FreshHandle(s) == (nextHandle[s] + Min(Attempts(s))) % HandleModulus

Bind(s, h, cap) == [g \in Bound(s) \cup {h} |-> IF g = h THEN cap ELSE space[s][g]]

Unbind(f, h) == [g \in DOMAIN f \ {h} |-> f[g]]

\* Counts the insert and moves next_handle_ past the handle it has found.
Insert(s) ==
  /\ inserts[s] < MaxInserts
  /\ Attempts(s) # {}
  /\ inserts' = [inserts EXCEPT ![s] = @ + 1]
  /\ nextHandle' = [nextHandle EXCEPT ![s] = (FreshHandle(s) + 1) % HandleModulus]

\* insert answers kInvalidHandle: every operation then returns without a change to
\* any space.  next_handle_ has been counted through all the attempts.
InsertFails(s) ==
  /\ Attempts(s) = {}
  /\ nextHandle' = [nextHandle EXCEPT ![s] = (@ + HandleModulus - 1) % HandleModulus]
  /\ UNCHANGED <<space, epoch, minted, copies, inserts, revokes>>

-----------------------------------------------------------------------------
(* resolve and attenuate, on capabilities.                                 *)

Has(cap, rights) == rights \subseteq cap.rights

Resolves(s, h, required) ==
  /\ h \in Bound(s)
  /\ space[s][h].epoch = epoch[s]
  /\ Has(space[s][h], required)

\* A narrower of None asks for no attenuation; one the capability does not have is
\* refused.
Narrowable(cap, narrower) == Has(cap, narrower)

Attenuated(cap, narrower) ==
  IF narrower = {} THEN cap ELSE [cap EXCEPT !.rights = @ \cap narrower]

-----------------------------------------------------------------------------
Mint(s, rights) ==
  LET n == Cardinality(Mints) + 1
      cap == [rights |-> rights, epoch |-> epoch[s], origin |-> n]
  IN  /\ n <= MaxMints
      /\ \/ /\ Insert(s)
            /\ space' = [space EXCEPT ![s] = Bind(s, FreshHandle(s), cap)]
            /\ minted' = [i \in Mints \cup {n} |-> IF i = n THEN [rights |-> rights, home |-> s, at |-> revokes[s]]
                                                   ELSE minted[i]]
            /\ copies' = [i \in Mints \cup {n} |-> IF i = n THEN 1 ELSE copies[i]]
            /\ UNCHANGED <<epoch, revokes>>
         \/ InsertFails(s)

\* Slip: the requested rights are taken as they are.
GrantCopy_Unchecked(src, dst, h, narrower) ==
  /\ Resolves(src, h, {GrantRight})
  /\ \/ LET cap == [space[src][h] EXCEPT !.rights = narrower] IN
          /\ Insert(dst)
          /\ space' = [space EXCEPT ![dst] = Bind(dst, FreshHandle(dst), cap)]
          /\ copies' = [copies EXCEPT ![cap.origin] = @ + 1]
          /\ UNCHANGED <<epoch, minted, revokes>>
     \/ InsertFails(dst)

\* grant with take = false.
GrantCopy(src, dst, h, narrower) ==
  /\ Resolves(src, h, {GrantRight})
  /\ Narrowable(space[src][h], narrower)
  /\ \/ LET cap == Attenuated(space[src][h], narrower) IN
          /\ Insert(dst)
          /\ space' = [space EXCEPT ![dst] = Bind(dst, FreshHandle(dst), cap)]
          /\ copies' = [copies EXCEPT ![cap.origin] = @ + 1]
          /\ UNCHANGED <<epoch, minted, revokes>>
     \/ InsertFails(dst)

\* Slip: the source handle is not erased when both are in one space.
Move_KeepsOwn(src, dst, h, narrower) ==
  /\ Resolves(src, h, {GrantRight})
  /\ Narrowable(space[src][h], narrower)
  /\ \/ LET cap == Attenuated(space[src][h], narrower)
            granted == [space EXCEPT ![dst] = Bind(dst, FreshHandle(dst), cap)]
        IN  /\ Insert(dst)
            /\ space' = IF src = dst THEN granted
                        ELSE [granted EXCEPT ![src] = Unbind(@, h)]
            /\ UNCHANGED <<epoch, minted, copies, revokes>>
     \/ InsertFails(dst)

\* grant with take = true, and move: the source handle is erased after the insert,
\* also when source and destination are one space.
Move(src, dst, h, narrower) ==
  /\ Resolves(src, h, {GrantRight})
  /\ Narrowable(space[src][h], narrower)
  /\ \/ LET cap == Attenuated(space[src][h], narrower)
            granted == [space EXCEPT ![dst] = Bind(dst, FreshHandle(dst), cap)]
        IN  /\ Insert(dst)
            /\ space' = [granted EXCEPT ![src] = Unbind(@, h)]
            /\ UNCHANGED <<epoch, minted, copies, revokes>>
     \/ InsertFails(dst)

\* Slip: the copy is stamped with the current epoch of its new space.
Duplicate_Refreshed(src, dst, h, narrower) ==
  /\ h \in Bound(src)
  /\ Narrowable(space[src][h], narrower)
  /\ \/ LET cap == [Attenuated(space[src][h], narrower) EXCEPT !.epoch = epoch[dst]] IN
          /\ Insert(dst)
          /\ space' = [space EXCEPT ![dst] = Bind(dst, FreshHandle(dst), cap)]
          /\ copies' = [copies EXCEPT ![cap.origin] = @ + 1]
          /\ UNCHANGED <<epoch, minted, revokes>>
     \/ InsertFails(dst)

\* duplicate asks neither for the Grant right nor for the epoch.
Duplicate(src, dst, h, narrower) ==
  /\ h \in Bound(src)
  /\ Narrowable(space[src][h], narrower)
  /\ \/ LET cap == Attenuated(space[src][h], narrower) IN
          /\ Insert(dst)
          /\ space' = [space EXCEPT ![dst] = Bind(dst, FreshHandle(dst), cap)]
          /\ copies' = [copies EXCEPT ![cap.origin] = @ + 1]
          /\ UNCHANGED <<epoch, minted, revokes>>
     \/ InsertFails(dst)

\* The owner of a space drops a handle.
Erase(s, h) ==
  /\ h \in Bound(s)
  /\ space' = [space EXCEPT ![s] = Unbind(@, h)]
  /\ copies' = [copies EXCEPT ![space[s][h].origin] = @ - 1]
  /\ UNCHANGED <<nextHandle, epoch, minted, inserts, revokes>>

Revoke(s) ==
  /\ revokes[s] < MaxRevokes
  /\ revokes' = [revokes EXCEPT ![s] = @ + 1]
  /\ epoch' = [epoch EXCEPT ![s] = (@ + 1) % EpochModulus]
  /\ UNCHANGED <<space, nextHandle, minted, copies, inserts>>

Next ==
  \E s \in Spaces :
    \/ \E r \in SUBSET Rights : Mint(s, r)
    \/ \E d \in Spaces, h \in Bound(s), r \in SUBSET Rights :
         GrantCopy(s, d, h, r) \/ Move(s, d, h, r) \/ Duplicate(s, d, h, r)
    \/ \E h \in Bound(s) : Erase(s, h)
    \/ Revoke(s)

Spec == Init /\ [][Next]_vars

-----------------------------------------------------------------------------
(* Properties.                                                             *)

\* Type correctness: handles are never 0, and every capability descends from a mint.
TypeOK ==
  /\ \A s \in Spaces : /\ Bound(s) \subseteq Handle
                       /\ \A h \in Bound(s) : space[s][h] \in Capability
                       /\ \A h \in Bound(s) : space[s][h].origin \in Mints
  /\ nextHandle \in [Spaces -> 0..(HandleModulus - 1)]
  /\ epoch \in [Spaces -> 0..(EpochModulus - 1)]
  /\ Mints = DOMAIN copies
  /\ \A n \in Mints : minted[n] \in [rights : SUBSET Rights, home : Spaces, at : Nat]
  /\ \A n \in Mints : copies[n] \in Nat
  /\ inserts \in [Spaces -> Nat] /\ revokes \in [Spaces -> Nat]

\* Rights can only be reduced: through any chain of grants, moves and duplicates
\* across the spaces, a capability has no right its mint did not have.
RightsNeverAmplified ==
  \A s \in Spaces : \A h \in Bound(s) :
    space[s][h].rights \subseteq minted[space[s][h].origin].rights

\* Capabilities move, they do not copy: there are exactly as many capabilities that
\* descend from a mint as were explicitly copied and not erased, also after a move
\* within one space.
CopiesAccounted ==
  \A n \in Mints :
    copies[n] = Cardinality({place \in Spaces \X Handle :
                               /\ place[2] \in Bound(place[1])
                               /\ space[place[1]][place[2]].origin = n})

\* A capability minted in a space before it was revoked never resolves there again,
\* nor does anything derived from it, whether it stayed or was passed through other
\* spaces and back, until the epoch has wrapped.
RevokedStaysDead ==
  \A s \in Spaces : \A h \in Bound(s) :
    LET mint == minted[space[s][h].origin] IN
      (mint.home = s /\ revokes[s] - mint.at \in 1..(EpochModulus - 1))
        => ~Resolves(s, h, {})

\* A bound handle names one and the same capability until it is erased, also when
\* next_handle_ has wrapped and comes past handles in use.
BoundHandleIsStable ==
  [][\A s \in Spaces : \A h \in Bound(s) \cap DOMAIN space'[s] :
       space'[s][h] = space[s][h]]_vars

\* What the comment on revoke() says: it revokes every capability in the space, so
\* nothing in it resolves just after.
RevokeKillsTheSpace ==
  [][\A s \in Spaces : revokes'[s] # revokes[s] => \A h \in Bound(s) : ~Resolves(s, h, {})']_vars
=============================================================================

---------------------------- MODULE AddressSpace ----------------------------
(***************************************************************************)
(* neuro::mem::VMATree and RadixPageTable (src/include/neuro/mem/          *)
(* vma_tree.hpp, page_table.hpp), each against the plain function of       *)
(* addresses it stands for.  The vector of a VMATree is kept sorted by the *)
(* code, and so is the sequence here.                                      *)
(***************************************************************************)
EXTENDS Naturals, Sequences, SequencesExt

CONSTANTS
  Addresses,    \* 0..n
  Rights,       \* of a VMA or a page
  Backings,
  PageSize,
  Frames        \* physical addresses to map pages to

VARIABLES
  entries,    \* VMATree::entries_
  mapped,     \* history: what was last mapped at each address
  pages,      \* RadixPageTable::entries_, by page base
  translated, \* history: the physical address each address was last mapped to, as a set
  written     \* history: the page bases written since they were mapped

vars == <<entries, mapped, pages, translated, written>>

Nowhere == "nowhere"

Init ==
  /\ entries = << >>
  /\ mapped = [a \in Addresses |-> Nowhere]
  /\ pages = << >>
  /\ translated = [a \in Addresses |-> {}]
  /\ written = {}

Holds(v, a) == a >= v.start /\ a < v.end

Overlap(v, w) == ~(v.end <= w.start \/ w.end <= v.start)

Indices == 1..Len(entries)

\* std::sort by the start of each entry.
Sorted(es) ==
  LET order == CHOOSE p \in Bijection(DOMAIN es, DOMAIN es) :
                 \A i, j \in DOMAIN es : i < j => es[p[i]].start <= es[p[j]].start
  IN  [i \in DOMAIN es |-> es[order[i]]]

\* std::upper_bound, one back: the last entry that starts at or before the address.
Before(a) == {i \in Indices : entries[i].start <= a /\ \A j \in Indices : j > i => entries[j].start > a}

\* An empty or overlapping interval is refused.
Insert(v) ==
  /\ v.start < v.end
  /\ \A i \in Indices : ~Overlap(entries[i], v)
  /\ entries' = Sorted(Append(entries, v))
  /\ mapped' = [a \in Addresses |-> IF Holds(v, a) THEN <<v.rights, v.backing>> ELSE mapped[a]]
  /\ UNCHANGED <<pages, translated, written>>

Erase(i) ==
  /\ mapped' = [a \in Addresses |-> IF Holds(entries[i], a) THEN Nowhere ELSE mapped[a]]
  /\ entries' = RemoveAt(entries, i)
  /\ UNCHANGED <<pages, translated, written>>

Split(a) ==
  \E i \in Before(a) :
    /\ Holds(entries[i], a) /\ a # entries[i].start
    /\ entries' = Sorted(Append([entries EXCEPT ![i].end = a], [entries[i] EXCEPT !.start = a]))
    /\ UNCHANGED <<mapped, pages, translated, written>>

Mergeable(v, w) == v.end = w.start /\ v.rights = w.rights /\ v.backing = w.backing

\* One turn of the loop of coalesce_equal: z is the entries and the index in it.
Joined(z) ==
  IF z.at >= Len(z.es) THEN z
  ELSE IF Mergeable(z.es[z.at], z.es[z.at + 1])
  THEN [z EXCEPT !.es = RemoveAt([z.es EXCEPT ![z.at].end = z.es[z.at + 1].end], z.at + 1)]
  ELSE [z EXCEPT !.at = z.at + 1]

\* It ends before it has made as many turns as there are entries; further turns change
\* nothing.
Coalesced ==
  LET turns[k \in 0..Len(entries)] ==
        IF k = 0 THEN [es |-> entries, at |-> 1] ELSE Joined(turns[k - 1])
  IN  turns[Len(entries)].es

Coalesce ==
  /\ entries' = Coalesced
  /\ UNCHANGED <<mapped, pages, translated, written>>

-----------------------------------------------------------------------------
(* RadixPageTable.                                                         *)

PageBase(a) == a - (a % PageSize)

\* map replaces whatever the page had, its bits included.
Map(a, paddr, perm) ==
  LET page == PageBase(a) IN
    /\ pages' = [b \in DOMAIN pages \cup {page} |->
                   IF b = page THEN [phys |-> paddr \div PageSize, perm |-> perm, dirty |-> FALSE]
                   ELSE pages[b]]
    /\ translated' = [b \in Addresses |->
                        IF PageBase(b) = page THEN {PageBase(paddr) + (b - page)} ELSE translated[b]]
    /\ written' = written \ {page}
    /\ UNCHANGED <<entries, mapped>>

Unmap(a) ==
  /\ PageBase(a) \in DOMAIN pages
  /\ pages' = [b \in DOMAIN pages \ {PageBase(a)} |-> pages[b]]
  /\ translated' = [b \in Addresses |-> IF PageBase(b) = PageBase(a) THEN {} ELSE translated[b]]
  /\ written' = written \ {PageBase(a)}
  /\ UNCHANGED <<entries, mapped>>

\* mark_dirty; mark_accessed is the same with another bit.
MarkDirty(a) ==
  /\ PageBase(a) \in DOMAIN pages
  /\ pages' = [pages EXCEPT ![PageBase(a)].dirty = TRUE]
  /\ written' = written \cup {PageBase(a)}
  /\ UNCHANGED <<entries, mapped, translated>>

\* The frame's number and the offset in the page, of a page that is there.
Translate(a) ==
  {(pages[p].phys * PageSize) + (a % PageSize) : p \in {PageBase(a)} \cap DOMAIN pages}

Next ==
  \/ \E s, e \in Addresses, r \in Rights, b \in Backings :
       Insert([start |-> s, end |-> e, rights |-> r, backing |-> b])
  \/ \E i \in Indices : Erase(i)
  \/ \E a \in Addresses : Split(a)
  \/ Coalesce
  \/ \E a \in Addresses :
       Unmap(a) \/ MarkDirty(a) \/ \E p \in Frames, r \in Rights : Map(a, p, r)

Spec == Init /\ [][Next]_vars

-----------------------------------------------------------------------------
\* VMATree::find.
Find(a) ==
  LET hits == {i \in Before(a) : Holds(entries[i], a)} IN
    IF hits = {} THEN Nowhere
    ELSE LET v == entries[CHOOSE i \in hits : TRUE] IN <<v.rights, v.backing>>

\* Through every order of inserting, erasing, splitting and coalescing, the binary
\* search finds at each address what was last mapped there.
FindAgrees == \A a \in Addresses : Find(a) = mapped[a]

\* Through every order of mapping, mapping again and unmapping, by any address of a page
\* and to any address of a frame: each address is translated to the frame its page was
\* mapped to last, as far into it as it is into its page, and one unmapped since to
\* nothing; and a page is dirty exactly if it was written since it was last mapped.
PagesAgree ==
  /\ \A a \in Addresses : Translate(a) = translated[a]
  /\ {p \in DOMAIN pages : pages[p].dirty} = written
=============================================================================

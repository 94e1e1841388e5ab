------------------------------- MODULE Manifests -------------------------------
(***************************************************************************)
(* The manifests that are signed or hashed: boot::Manifest (src/include/   *)
(* neuro/boot/protocol.hpp, src/src/boot/protocol.cpp) and pkg::Manifest   *)
(* (src/src/pkg/store.cpp).  Characters, lengths and numbers are all small *)
(* numbers, so that an encoding could be read in more than one way; a      *)
(* number of fixed width is one symbol rather than four or eight bytes,    *)
(* and a digest is what it was computed from.  Two manifests are edited    *)
(* side by side.  A pkg::Manifest is read off the same record: names,      *)
(* version and entries are version, build and segments.                    *)
(***************************************************************************)
EXTENDS Naturals, Sequences, SequencesExt

CONSTANTS
  Characters,    \* numbers; 9, when there, is the space, and none is a newline
  Kinds,         \* Segment::Kind
  Digests,       \* numbers that stand for the digests of segments
  MaxParts       \* bound: edits made to a manifest

VARIABLES
  first, second

vars == <<first, second>>

Space == 9
Blank == [version |-> << >>, build |-> << >>, segments |-> << >>, capabilities |-> << >>]

Parts(m) ==
  Len(m.version) + Len(m.build) + Len(m.capabilities)
    + FoldLeft(LAMBDA n, s : n + 1 + Len(s.name), 0, m.segments)

-----------------------------------------------------------------------------
(* canonicalise, sign and verify.                                          *)

\* Slip: the length is left out.
Str_NoLength(s) == s

Str(s) == <<Len(s)>> \o s

\* vaddr, memsz and filesz are left out, being like hash.
BootCanonical(m) ==
  LET segment(s) == Str(s.name) \o <<s.kind, s.hash>>
  IN  Str(m.version) \o Str(m.build)
        \o <<Len(m.segments)>> \o FlattenSeq([i \in DOMAIN m.segments |-> segment(m.segments[i])])
        \o <<Len(m.capabilities)>> \o m.capabilities

PackageCanonical(m) ==
  LET entry(e) == Str(e.name) \o <<e.hash>>
  IN  Str(m.version) \o Str(m.build)
        \o <<Len(m.segments)>> \o FlattenSeq([i \in DOMAIN m.segments |-> entry(m.segments[i])])

Sign(m, root) == <<root>> \o BootCanonical(m)

Verify(m, signature, root) == signature = Sign(m, root)

-----------------------------------------------------------------------------
(* to_text and parse_text: a line is its key and its value.                *)

Words(s) == << s.kind, Space >> \o s.name \o << Space, s.hash >>

ToText(m) ==
  << [key |-> "version", val |-> m.version], [key |-> "build", val |-> m.build] >>
    \o [i \in DOMAIN m.segments |-> [key |-> "segment", val |-> Words(m.segments[i])]]
    \o [i \in DOMAIN m.capabilities |-> [key |-> "cap", val |-> <<m.capabilities[i]>>]]

\* The word of val that begins at p, up to the next space.
WordEnd(val, p) ==
  LET k == SelectInSubSeq(val, p, Len(val), LAMBDA c : c = Space)
  IN  IF k = 0 THEN Len(val) + 1 ELSE k

Stripped(val) ==
  LET k == SelectInSeq(val, LAMBDA c : c # Space)
  IN  IF k = 0 THEN << >> ELSE SubSeq(val, k, Len(val))

\* The words after the second are numbers; stoull throws if they are not.
ParseSegment(val) ==
  LET a == WordEnd(val, 1)
      b == WordEnd(val, a + 1)
  IN  [kind |-> val[1], name |-> SubSeq(val, a + 1, b - 1), hash |-> val[b + 1]]

\* Line by line; capabilities are read over.  The manifest filled in, and whether it is
\* any good: it is not without a version.
ParseText(text) ==
  LET read[n \in 0..Len(text)] ==
        IF n = 0 THEN Blank
        ELSE LET m == read[n - 1]
                 line == text[n]
             IN  CASE line.key = "version" -> [m EXCEPT !.version = Stripped(line.val)]
                   [] line.key = "build" -> [m EXCEPT !.build = Stripped(line.val)]
                   [] line.key = "segment" -> [m EXCEPT !.segments = Append(@, ParseSegment(line.val))]
                   [] OTHER -> m
  IN  [out |-> read[Len(text)], ok |-> read[Len(text)].version # << >>]

-----------------------------------------------------------------------------
(* Editing.                                                                *)

Edited(m) ==
  {[m EXCEPT !.version = Append(@, c)] : c \in Characters}
    \cup {[m EXCEPT !.build = Append(@, c)] : c \in Characters}
    \cup {[m EXCEPT !.segments = Append(@, [kind |-> k, name |-> << >>, hash |-> h])] :
            k \in Kinds, h \in Digests}
    \cup {[m EXCEPT !.segments[Len(m.segments)].name = Append(@, c)] :
            c \in IF m.segments = << >> THEN {} ELSE Characters}
    \cup {[m EXCEPT !.capabilities = Append(@, c)] : c \in Characters}

Init == first = Blank /\ second = Blank

EditFirst == Parts(first) < MaxParts /\ first' \in Edited(first) /\ UNCHANGED second
EditSecond == Parts(second) < MaxParts /\ second' \in Edited(second) /\ UNCHANGED first

Next == EditFirst \/ EditSecond

Spec == Init /\ [][Next]_vars

-----------------------------------------------------------------------------
Spaceless(m) == \A s \in Range(m.segments) : Space \notin Range(s.name)
Trimmed(m) == m.version = Stripped(m.version) /\ m.build = Stripped(m.build)

\* What a packager sees of a boot manifest: entries have no kinds, and no capabilities.
AsPackage(m) ==
  <<m.version, m.build, [i \in DOMAIN m.segments |-> <<m.segments[i].name, m.segments[i].hash>>]>>

\* Two manifests have one encoding only if they are one, and so a signature is good for
\* no other manifest, whatever the names contain.  The text of a manifest is read back as
\* it was, but for the capabilities, if no name has a space in it and neither version nor
\* build begins with one; and only a manifest without a version is turned down.
EncodedApart ==
  /\ Verify(second, Sign(first, 0), 0) => second = first
  /\ PackageCanonical(first) = PackageCanonical(second) => AsPackage(first) = AsPackage(second)
  /\ Spaceless(first) /\ Trimmed(first) =>
       ParseText(ToText(first)) = [out |-> [first EXCEPT !.capabilities = << >>],
                                   ok |-> first.version # << >>]
=============================================================================

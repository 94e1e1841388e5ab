----------------------------- MODULE PackageStore -----------------------------
(***************************************************************************)
(* neuro::pkg::HostStore (src/src/pkg/store.cpp): bytes kept under their   *)
(* digest.  put is one critical section after the hash; put_file puts what *)
(* it read and then, in a second one, records where it came from.          *)
(***************************************************************************)
EXTENDS Naturals, Sequences, SequencesExt

CONSTANTS
  Rate,          \* kRateBytes of SHA-3
  Importers,     \* threads that import files
  Bytes,         \* the bytes contents are made of
  MaxContent,    \* bound: the bytes of a content
  Paths          \* the files; a file may hold any of them

VARIABLES
  artifacts,     \* artifacts_: of each digest the bytes and source_path
  importing,     \* of each importer in put_file after its put: the digest and the path
  put            \* history: the contents put

vars == <<artifacts, importing, put>>

None == {}

Contents == BoundedSeq(Bytes, MaxContent)

\* Of the sponge, only what the digest of a message at once is.
Sha3 == INSTANCE Sponge
  WITH MaxAbsorbed <- MaxContent, MaxSqueezed <- 0, state <- {}, buf <- {}, pos <- {},
       finalized <- {}, message <- {}, given <- {}

Hash(bytes) == Sha3!Digest(bytes, Sha3!Pads["Sha3"])

Init ==
  /\ artifacts = << >>
  /\ importing = << >>
  /\ put = {}

\* What is there under the digest already is what is asked for.
Stored(bytes) ==
  [d \in DOMAIN artifacts \cup {Hash(bytes)} |->
     IF d \in DOMAIN artifacts THEN artifacts[d] ELSE [bytes |-> bytes, source |-> None]]

Put(bytes) ==
  /\ artifacts' = Stored(bytes)
  /\ put' = put \cup {bytes}
  /\ UNCHANGED importing

PutFile(i, path, bytes) ==
  /\ i \notin DOMAIN importing
  /\ artifacts' = Stored(bytes)
  /\ put' = put \cup {bytes}
  /\ importing' = [j \in DOMAIN importing \cup {i} |->
                     IF j = i THEN [digest |-> Hash(bytes), path |-> path] ELSE importing[j]]

RecordPath(i) ==
  /\ i \in DOMAIN importing
  /\ artifacts' = [artifacts EXCEPT ![importing[i].digest].source = {importing[i].path}]
  /\ importing' = [j \in DOMAIN importing \ {i} |-> importing[j]]
  /\ UNCHANGED put

Next ==
  \/ \E bytes \in Contents :
       Put(bytes) \/ \E i \in Importers, path \in Paths : PutFile(i, path, bytes)
  \/ \E i \in Importers : RecordPath(i)

Spec == Init /\ [][Next]_vars

\* What the declarations of put and get say: the digest put returns is the one under which
\* the bytes were stored, so that get finds those bytes there.
StoreGivesBack ==
  \A bytes \in put : artifacts[Hash(bytes)].bytes = bytes
=============================================================================

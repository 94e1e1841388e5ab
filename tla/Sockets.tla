-------------------------------- MODULE Sockets --------------------------------
(***************************************************************************)
(* neuro::net::TcpSocket and UdpSocket (src/include/neuro/net/             *)
(* tcp_socket.hpp, udp_socket.hpp): objects that own a file descriptor     *)
(* and may be moved.  The kernel, which is external, gives out the lowest  *)
(* descriptor free and so uses them again.  What is read and written       *)
(* changes no object and is left out.                                      *)
(***************************************************************************)
EXTENDS Naturals, FiniteSetsExt

CONSTANTS
  Objects,
  Descriptors    \* 0..n

VARIABLES
  fd,          \* fd_ of each object that lives: {} or the descriptor
  open,        \* the kernel: descriptors that are open
  lost         \* history: whether what was not open was closed

vars == <<fd, open, lost>>

Alive == DOMAIN fd

With(f, o, x) == [p \in DOMAIN f \cup {o} |-> IF p = o THEN x ELSE f[p]]
Without(f, o) == [p \in DOMAIN f \ {o} |-> f[p]]

Init ==
  /\ fd = << >>
  /\ open = {} /\ lost = FALSE

\* TcpSocket().
Make(o) ==
  /\ o \notin Alive
  /\ fd' = With(fd, o, {})
  /\ UNCHANGED <<open, lost>>

New == Min(Descriptors \ open)

\* connect, listen, bind and accept hand a new descriptor to a new object.
Open(o) ==
  /\ o \notin Alive /\ Descriptors \ open # {}
  /\ fd' = With(fd, o, {New})
  /\ open' = open \cup {New}
  /\ UNCHANGED <<lost>>

\* connect, bind or listen fails once there is a descriptor: it is closed, and the
\* object, which has none by then, goes with the exception.
OpenFails(o) ==
  /\ o \notin Alive /\ Descriptors \ open # {}
  /\ open' = (open \cup {New}) \ {New}
  /\ UNCHANGED <<fd, lost>>

\* The kernel's close of the descriptors D.
KernelClose(D) ==
  /\ open' = open \ D
  /\ lost' = (lost \/ ~(D \subseteq open))

Close(o) ==
  /\ o \in Alive
  /\ KernelClose(fd[o])
  /\ fd' = [fd EXCEPT ![o] = {}]

Destroy(o) ==
  /\ o \in Alive
  /\ KernelClose(fd[o])
  /\ fd' = Without(fd, o)

MoveConstruct(o, from) ==
  /\ o \notin Alive /\ from \in Alive
  /\ fd' = [With(fd, o, fd[from]) EXCEPT ![from] = {}]
  /\ UNCHANGED <<open, lost>>

\* A move to itself does nothing; another closes what the object had.
MoveAssign(o, from) ==
  /\ {o, from} \subseteq Alive
  /\ IF o = from THEN UNCHANGED <<fd, open, lost>>
     ELSE /\ KernelClose(fd[o])
          /\ fd' = [fd EXCEPT ![o] = fd[from], ![from] = {}]

Next ==
  \E o \in Objects :
    \/ Make(o) \/ Open(o) \/ OpenFails(o) \/ Close(o) \/ Destroy(o)
    \/ \E from \in Objects : MoveConstruct(o, from) \/ MoveAssign(o, from)

Spec == Init /\ [][Next]_vars

-----------------------------------------------------------------------------
\* Whatever is moved, assigned, closed and destroyed, in whatever order: what is open has
\* one owner, what an object owns is open, and nothing is closed twice.
OneOwner ==
  /\ open = UNION {fd[o] : o \in Alive}
  /\ \A o, p \in Alive : o # p => fd[o] \cap fd[p] = {}
  /\ ~lost
=============================================================================

# NeuroVerse OS in TLA+

TLA+ modules, TLC configurations and TLAPS proofs for the host library of NeuroVerse
OS: the header-only components under `src/include/neuro/` and their implementation
files under `src/src/`. Every definition is translated from that code;
`PROJECT.json` names the lines each one stands for.

    tlc -workers 2 -config PairQueue.cfg PairQueue.tla
    tlapm PairQueue_proofs.tla

## 1. The system

The library is a set of components that a microkernel would have, written for a
host: threads are `std::thread`, interrupts are function calls, and the kernel's
wait queues are condition variables. There is no network protocol between machines
and nothing is persisted, so no component has crash recovery; what is hard is
concurrency inside one process, the bookkeeping of resources, and computations done
piecemeal that must agree with the whole.

| Component | State | Operations | What makes it correct | Module |
|---|---|---|---|---|
| `ipc::EndpointPair` | per direction: queue, capacity, closed flag, mutex, two condition variables | `send_nowait`, `try_send_for`, `co_await send`, `try_recv`, `try_recv_for`, `recv_blocking`, `co_await recv`, destructor | bounded FIFO channel; no lost wake-up; close releases everybody; nothing accepted afterwards | `PairQueue` |
| `ipc::Endpoint` | queue, parked coroutines, closed flag, mutex | `send_nowait`, `co_await send/recv`, `try_recv`, `recv_blocking`, `close` | FIFO; nobody parked beside a message or after close; a handed message reaches its coroutine | `Endpoint` |
| `sched::Scheduler` | per worker: queue, done flag, counters, thread; cancel set; round-robin counter | `post`, `cancel`, `Worker::run`, destructor | no coroutine on two workers; every post accounted; cancelled handles not resumed; destructor drains and returns | `Scheduler` |
| `sec::CapOps`, `CapEpoch`, `core::Capability` | capabilities by handle, 16-bit epoch | `mint`, `resolve`, `attenuate`, `grant`, `move`, `duplicate`, `revoke`, `erase` | rights only shrink; moves do not copy; revoked stays revoked; a bound handle keeps its meaning | `CapOps` |
| `sec::CapabilitySpace` | radix trie, next handle, counts | `insert`, `lookup`, `erase` with compaction | the trie is the function CapOps takes it for | `CapTrie` |
| `core::ObjectTable`, `KObject` | slots with id, generation, pointer | `insert`, `refresh`, `lookup`, `remove`, `retire` | an id finds the object inserted last; a generation known to be past never resolves | `ObjectTable` |
| `core::IrqSource` | handlers, counter | `attach`, `clear`, `fire` | a fire calls the handlers there were when it began | `IrqSource` |
| `core::log` | global sink and level, context of a thread | `set_global_*`, scoped sinks and contexts, records | a record lands in the innermost sink, with the innermost fields | `Log` |
| `proc::Thread` | state, done flag, OS thread | `start`, `join`, `join_for`, `wake`, destructor, `run_loop` | whoever is told of the end is told the truth; it runs once | `Thread` |
| `sched::ws::Scheduler` | global queue, done flag, workers | constructor, `post`, `try_get`, `stop_all` | each coroutine taken once, in order | `WorkStealing` |
| `sched::DeadlineQueue` | binary heap, sequence number | `push`, `pop`, `try_pop`, `clear` | earliest deadline first, ties in order | `DeadlineQueue` |
| `sched::MultilevelScheduler` | two atomic loads per node | `submit`, `submit_to` | nodes are kept level by submitters that read stale loads | `Multilevel` |
| `mem::Arena`, `mem::Pool` | cursor; free list inside the blocks | allocate, checkpoint, reset; allocate, deallocate | what is handed out has one owner | `Arena`, `Pool` |
| `mem::VMATree`, `RadixPageTable` | sorted vector; pages | `insert`, `erase`, `split`, `coalesce`, `find`; `map`, `unmap`, `mark_*` | lookups agree with what was mapped | `AddressSpace` |
| `fs::RamFS` | files, byte budget, access ticks | `open`, `lookup`, `write_charging` with eviction and rollback, `clear`, node `write` and `truncate` | within the budget; the oldest goes first | `RamFS` |
| `fs::OverlayFS` over `MemFS`, through `VFS` | two layers, mutex of `copy_up` | `open`, `lookup`, `copy_up`; `read_all`, `write_all`, `append` | a lone call does all of what it does to the file and nothing else; one copy-up | `OverlayFS` |
| `fabric::HostCluster` | peers with status, incarnation, last seen; clock offset | `configure`, `local`, `start`, `ping`, `mark`, `advance`, `stop` | callbacks tell every change there is one for | `Cluster` |
| `net::Channel` | queue, closed flag, condition variable | `send`, `recv`, `recv_for`, `try_recv`, `close` | FIFO channel; one notification per value is enough | `Channel` |
| `net::TcpSocket`, `UdpSocket` | a descriptor | `connect`, `listen`, `bind`, `accept`, moves, `close` | one owner, closed once | `Sockets` |
| `pulse` metrics | registry, atomics, buckets | `inc`, `set`, `observe`, registration, `scrape` | no update lost; the lines of a histogram add up | `Metrics` |
| `pkg` SHA-3 | sponge with a partial block; 25 lanes | `absorb`, `final`, `squeeze`; `keccak_f1600` | a message in pieces has the digest of the whole; the rounds are FIPS 202's | `Sponge`, `Keccak` |
| `pkg::HostStore` | artifacts by digest | `put`, `put_file`, `get` | the bytes put come back | `PackageStore` |
| `boot::Manifest`, `pkg::Manifest` | fields and segments | `canonical`, `sign`, `verify`, text form and parser | no two manifests are encoded alike | `Manifests` |
| `audio::Graph` | nodes, buffers | `add_node`, `prepare_all`, `render_block` | a block goes through all nodes | `AudioGraph` |
| `learn` optimizers | parameters, gradients pending | `observe`, `propose` | each step is the average of what was observed since the last | `Optimizer` |
| `jit` | functions, machine code | encoder, `codegen`, `execute` | the machine returns what the operations mean, if nothing lies below it on the stack | `Jit` |

Interactions. A `Process` owns a `CapabilitySpace`, its `CapEpoch` and endpoints,
and its `Thread`s reach the space through it; a coroutine that awaits an `Endpoint`
is resumed by whoever sends or closes, inside that call; a coroutine body may post
its own handle to the `Scheduler`, or call any other operation. `CapOps` keeps its
capabilities in the trie. `OverlayFS` calls two other file systems.
`MultilevelScheduler` posts to one `Scheduler` per node. `HostStore` and both
manifests are addressed and signed by SHA-3. `PROJECT.json` lists the hazards of
each component at the line where they bite.

## 2. Modules

### FifoChannel
What a message queue promises, without a queue: the histories of what was sent and
received, and whether it is shut. `Send` is refused once shut or when the backlog
would leave `Backlogs`; `Receive` continues the received history with the next
message; `Pass` is a send into the hands of a waiting receiver. `PairQueue`,
`Endpoint` and `Channel` implement it through `Fifo!Spec`.

### PairQueue
One direction of `ipc::EndpointPair`. `q` and `closed` are the fields of `Queue`,
`pc` says where each caller is and `msg` what a blocked sender holds; `accepted` and
`delivered` are histories. Each critical section is one action. The condition
variables are the sets of callers parked in `pc` (`OnNotEmpty`, `OnNotFull`);
`NotifyOne` picks any of them, `SpuriousWake` wakes without cause and `Expire` is
the deadline of a `wait_for`, after which the predicate is looked at a last time
(`send_expired`, `recv_expired`). What the code does after unlocking is a step of
its own: `NotifyNotEmpty` and `NotifyNotFull`. `try_recv`, `recv_blocking` and the
receive awaiter notify while they hold the mutex, so there the notification is in
the same step.

The awaiters are modelled as they are written for the host: `await_ready` locks,
looks and unlocks; `await_suspend` of a send calls `send_nowait` and keeps no
handle, so the coroutine stays suspended; `await_resume` of a receive reads a
message that nobody has put there when `await_ready` answered true, so the caller
gets no message of the queue. An awaited send that finds its space gone is dropped
silently.

### Endpoint
`ipc::Endpoint` with its callers: threads and coroutines. `child` says which
coroutine an actor is resuming, since `send_nowait` and `close` run the coroutine
inside the call, and `holder` is the actor inside `close`, whose critical section
lasts over the steps of the coroutines it resumes. A coroutine that suspends or ends
gives control back to its resumer (`Yield`). Messages are numbered in the order of
acceptance; number 0 is the empty message a closed endpoint returns.

### Scheduler
`sched::Scheduler` and its workers. Every critical section of `Worker::run`, of
`cancel` and of `post` is one step, as are the phases of `Worker::stop`. A handle is
an address: `Reuse` is a new coroutine in the place of a former one. The bodies of
coroutines are the environment: `BodyLeaves` ends, suspends or posts itself. Only
the owner of a suspended handle posts it, since a second post of a queued handle
would be undefined in the program; `cancel` takes any handle at any moment. `next_`
counts modulo the number of workers, which is what `post` uses of it.

### CapOps
`sec::CapOps` over capability spaces. A space is a function from handles to
capabilities. `Attempts` are the attempts at which the loop of `mint_handle` would
succeed and `FreshHandle` the first of them; the handle and the epoch wrap at
`HandleModulus` (2^64) and `EpochModulus` (2^16). Each capability carries the number
of the mint it descends from, a history like `minted`, `copies` and `revokes`.
Object identifier and generation are passed through unchanged by every operation and
are left out. `CapEpoch::revoke` is one step, since a space and its epoch belong to
one owning thread.

### Resources and lookups: Arena, Pool, Sockets, AddressSpace, CapTrie, ObjectTable
Each keeps, beside the variables of the code, a history of what callers were given:
the blocks of an arena that no `reset_to` has released, the blocks of a pool, the
descriptors that are open in the kernel, the function from addresses, handles or
references to what was last put there. The property is that the code's own, indirect
representation (a cursor, links inside the free blocks, a sorted vector with a
binary search, a trie that is compacted, slots that are probed and refreshed) stands
for that history after every order of operations. In `Pool` the owner of a block
scribbles over its link. The sums of `Arena` wrap at `Word`, the code's 2^64.
`AddressSpace` remembers for each address where its page was mapped last
(`translated`), and pages are mapped by any of their addresses, to any address of a
frame. `Sockets` has moves, self-assignment and a kernel that uses descriptors again.
`CapTrie` has radix and depth as constants; the code's are 16 and 16. In `ObjectTable`
each object has an id of its own choice and a generation of its own: objects may share
an id, since one constructor of `KObject` takes any, and replace each other in a slot.

### Scheduling: DeadlineQueue, Multilevel, WorkStealing, Thread, IrqSource
`DeadlineQueue` sifts through the heap as the code does, one turn of the loop after
the other (`Raised`, `Lowered`), against a clock that moves between calls. In
`Multilevel` each load of `pick_node` and each increment is a step of its own.
`WorkStealing` has the constructor, whose first workers run while the last are being
made, and coroutines that post others during the shutdown. `Thread` separates the
exchange of `start` from the launch of the OS thread, and the two stores of
`run_loop`. In `IrqSource` a fire calls the handlers after the lock was released,
and the handlers attach, clear and fire themselves.

### Channel and Cluster
`Channel` has the waiters of one condition variable, which time out, wake for
nothing or find the value taken; it implements `FifoChannel`. `Cluster` is one
critical section per operation, callbacks included; `hooks` are the callbacks that
are set, as `start` takes any of them, and a peer that `mark` revives gets a new
incarnation only if there is one to tell. Its history is what a listener was told of
each peer, and whether a callback was missing for any change.

### Storage: RamFS, OverlayFS, PackageStore, Manifests
`RamFS` keeps the length of each file, its access tick and `bytes_used_`, and as
history (`earlier`) which of two files was accessed before the other; node writes
that are not charged can be switched on (`NodeWrites`). In `OverlayFS` each call
into a layer is a step, as each takes only that layer's mutex: `read_all`,
`write_all` and `append` of several clients interleave with `copy_up`, which has the
overlay's mutex. `PackageStore` imports files in two critical sections, under digests
that it takes from `Sponge`. `Manifests`
edits two manifests side by side and compares their encodings; all fields are
sequences of small numbers, so that lengths, separators and names can be mistaken
for each other if the encoding allows it.

### Computations: Sponge, Keccak, Metrics, Optimizer, Log, Jit, AudioGraph
`Sponge` is the incremental hash with its buffer, its blocks and its padding, over a
free permutation, and `Keccak` the 24 rounds over lanes as sets of bits, next to the
permutation FIPS 202 defines. `Metrics` has the compare-exchange
loop of `Gauge::inc` step by step. `Optimizer` computes with whole numbers that
every count divides. `Log` is one thread with nested scopes. `Jit` gives operations
the meaning their comments give them, on a stack, and compares what the encoded
instructions do on a small machine, whose `ret` jumps to what lies on the stack.
`Execute` also says what the caller finds in `rbx`, which the code uses and does not
give back; what that does to the caller is the compiler's choice, and no property is
about it. `AudioGraph` adds nodes between blocks. Each open scope of `Log` remembers the
field it added, and each sink what was to be logged to it (`due`), both histories: the
code has only the context stack and the sink's records.

### Compositions: Kernel and Storage
Two modules compose components, with all their constants as parameters and the
assumptions on them. `Kernel` has three groups: those in which something acts (Thread,
WorkStealing, IrqSource, Channel, Cluster, Multilevel), those that hand something out
and look it up (Arena, Pool, AddressSpace, CapTrie, ObjectTable, Sockets,
DeadlineQueue), and those that compute piece by piece (Metrics, Jit, Log, Optimizer,
AudioGraph). `Storage` has two: the file systems (RamFS, OverlayFS), and what packages
are told apart by (Keccak, Sponge, Manifests). The components of a group share no
state, as the objects of the code do not: a step of a group (`ActivitiesNext`,
`ResourcesNext`, `ComputingNext`, `StorageNext`, `PackagesNext`) is a step of one
component and leaves the others as they are. The properties are those of the
components, or conjunctions of them, and it is of `ActivitiesSpec`, `ResourcesSpec`,
`ComputingSpec`, `StorageSpec` and `PackagesSpec` that they are proved.

### Model checking
`PairQueue`, `Endpoint`, `Scheduler`, `CapOps`, `RamFS` (in `ram_fs_used`) and
`PackageStore` are checked as they stand, with small sets of values given in the `.cfg`. A free product of components
that share nothing would only multiply their states, so in `MCKernel`, which extends
`Kernel`, and at the end of `Storage` a variable `unit`, chosen initially, says whose
behaviour this is: the reachable states are the disjoint union of the components' own,
and every behaviour is one of the five specifications, so that the properties checked
are the ones proved.

Definitions named `X_Something` and introduced by "Slip" are not part of any
specification: each is the definition `X` with a plausible mistake in it, and
`PROJECT.json` says which property notices it.

## 3. What the runs check

| Run | Instance | Distinct states | Shows |
|---|---|---|---|
| `pair_queue` | 3 callers, 2 messages, capacity 2, 3 sends | 231,636 | types, FIFO, no lost wake-ups, closing, refinement, liveness |
| `pair_queue_blocking` | 3 callers, capacity 1 | (violation) | `recv_blocking` is not released by close |
| `endpoint` | 2 threads, 2 coroutines, 2 sends | 212,885 | nobody stranded, delivery, refinement, handed coroutines resumed |
| `endpoint_close` | 1 thread, 2 coroutines | (violation) | close may never return |
| `scheduler` | 2 workers, 2 handles, 4 posts | 78,892 | one worker per coroutine, accounting, cancellation, draining, liveness |
| `scheduler_cancel` | the same | (violation) | a confirmed cancellation is erased |
| `cap_ops` | 2 spaces, 2 rights, 1 mint, 3 inserts per space, epochs and handles modulo 3, 3 revocations | 764,016 | rights, copies, revocation, handles |
| `cap_ops_revoke` | 2 mints, epochs modulo 4 | (violation) | revoking a space can bring a capability to life |
| `storage` | `Storage.cfg` | 377,715 | files, overlay, hashing, manifests |
| `kernel` | `Kernel.cfg`, and the tuples in `MCKernel` | 383,301 | the eighteen components below |
| `ram_fs_used` | 2 files, capacity 4 | (violation) | a failed write takes off bytes that were never added |
| `package_store` | rate 3, bytes 1 and 6 | (violation) | two contents share a digest and one is lost |

The properties of the composite runs, and what they say of which component:

| Property | Component properties |
|---|---|
| `EarliestFirst` | DeadlineQueue: the top of the heap is the first of all pending, by deadline and then by push |
| `KeptLevel` | Multilevel: no node is given more than two per submitter above another; the loads count who is in flight |
| `OwnedOnce` | Arena: live blocks are apart; Pool: the free list is what nobody owns; Sockets: one owner of each descriptor |
| `LookupsAgree` | AddressSpace: find and translate agree with what was mapped last; CapTrie: the trie is the map; ObjectTable: an id finds the object inserted last, and no object is found by a generation the table was told is past for it |
| `CallbacksTell` | Cluster: a listener with no callback missing knows every status but Leaving and Left, and counts the incarnations |
| `ThreadsEnd` | Thread: an end that is told has happened; one OS thread |
| `EachOnce` | WorkStealing: taken once and in order; IrqSource: a fire calls what it began with |
| `ReceiverOnItsWay`, `ChannelIsFifo` | Channel: a value has a receiver on its way; it implements FifoChannel |
| `ResultsAgree` | Metrics, Optimizer, AudioGraph, Log: piecemeal equals at once; Jit: the machine returns what the operations mean, for functions that return with one value on the stack |
| `UsedWithinBudget`, `EvictionTakesOldest` | RamFS |
| `AloneActsOnWhole`, `CopiedUpOnce` | OverlayFS: a lone append, write_all or read_all leaves or has read exactly what it should; one copy-up |
| `DigestsAgree` | Sponge: pieces make the whole; Keccak: the rounds of FIPS 202 |
| `EncodedApart` | Manifests: signatures are good for one manifest; the text is read back |

Bounds. Three callers of a queue are the least at which a notification can wake one
receiver while another takes the message and a third sends; capacity 2 with three
sends fills the queue and blocks a sender. Two coroutines and two threads on an
endpoint give a sender about to resume one coroutine while another parks, receives
or closes. Two workers suffice for a handle on two of them, and four posts for two
rounds each. With moduli 3 the handle counter wraps past 0 and handles in use, a
space of two handles gets full, and the epoch wraps; RevokedStaysDead speaks of
fewer than `EpochModulus` revocations, as the code's comment does. The heap of six
entries has three levels and sifts down both sides. The trie of depth 3 and radix 2
shares inner nodes between handles, compacts up to where paths part, and its counter
wraps. A pool of four blocks and an arena of seven bytes with two alignments are
used up and returned in every order; with these lengths no sum of the arena wraps,
as `ArenaAssumption` has it. An address space of four addresses allows a VMA to be split
and coalesced again; its two pages are mapped to two frames, by an aligned address and
by one that is not. Two objects of the table may share an id, have two that fall on one
slot, or on two. Half of the behaviours of the cluster have no callback for revivals. Three receivers of the channel are
one to be notified, one to time out and one to take the value in between. Three
files under a budget of three bytes make a write evict more than one, and possibly
its own file. Two clients of the overlay with two calls each overlap two copy-ups
and follow each with an append. A rate of three bytes makes messages of five span
two blocks, end on a block and one byte before it. Two starting states of Keccak
(nothing, and one bit in each of two lanes) run all 24 rounds of 64-bit lanes. The
constants named `Max...` bound the start of operations, never their continuation.
Deadlock is not checked: all of these systems may rest, when nobody calls and the
bound is used up.

Fairness. `PairQueue`: `WF(Run(t))`, a thread that is not parked runs and gets the
mutex; nothing is assumed of deadlines, spurious wake-ups or callers, so that
CloseReleases and MessageReachesWaiter rest on the notifications alone. `Endpoint`:
actors inside a call go on when they can, and a coroutine that was resumed goes on
to its next call or its end (a body that spins for ever would block its resumer in
the code as well). `Scheduler`: the worker threads run, coroutine bodies do not run
for ever, and the destructor goes on once begun. No other module states fairness:
their properties are safety properties, and where a wait is involved (`Channel`) the
safety form, a receiver on its way for each value, is the stronger statement.

### Disagreements between comments and code
Each of these six is a run that TLC violates:

- `recv_blocking` waits with no predicate and never looks at `closed`; the comment
  in `~EndpointPair` counts it among what close releases (`pair_queue_blocking`).
- `Endpoint::close` resumes coroutines while it holds `mu_`, "so it can observe the
  closed state"; a coroutine that then uses the endpoint blocks (`endpoint_close`).
- `Scheduler::cancel` "Returns true to indicate the cancellation is now in effect";
  the clean-up after a `resume` of the same handle may erase the flag
  (`scheduler_cancel`). CancelledIsNotResumed is what does hold: a handle that no
  worker still has in hand, cancelled while queued, is never resumed.
- `CapOps::revoke` revokes "every capability in `space`"; one that came from another
  space carries that space's epoch and may become valid instead (`cap_ops_revoke`).
  RevokedStaysDead is what does hold, for capabilities in the space of their mint.
- `RamFS::write_charging` subtracts, when the write fails, a delta it has not added
  (`ramfs.cpp:159`); `bytes_used` is then less than what is stored (`ram_fs_used`).
- `Sha3::final` assigns the last padding byte over the first when they fall on one
  (`sha3.hpp:260`): contents that fill a block but for one byte get the digest of
  others, and `HostStore` gives back what was put before (`package_store`).

The models have these as well, without a run of their own; a property of the passing
runs says in each case what does hold:

- `RamFS` evicts by a tick "incremented on every read/write/truncate"
  (`ramfs.hpp:11-14`), and "on truncate(0), the file counts as 0 bytes and is the next
  eviction candidate" (`ramfs.hpp:23-24`). Only `lookup`, `open` and `write_charging`
  give a file a new tick; reading, writing or truncating a node gives none, and opening
  with Truncate makes the emptied file the newest. EvictionTakesOldest holds of the
  accesses the code counts.
- `VFS::write_all` "truncates on open" (`vfs.hpp:79`); `OverlayFS::open` looks at
  Truncate only for a file it creates, and an old tail stays.
- With `VFS::append` "writes always land at the current EOF" (`vfs.hpp:93`): at the end
  as `stat` gave it, over whatever another client has appended since. What
  AloneActsOnWhole says holds for both, of calls no other writer overlaps: an append
  adds its byte, and write_all writes over the start.
- `ObjectTable::remove` "Bumps the slot's stored generation to retire dangling refs"
  (`object_table.hpp:92`) and does not: another object of the same id, whose
  generations start at 0, is found by the old reference. Nor does `retire` alone
  invalidate capabilities of the old generation, as `object_table.hpp:22-26` has it:
  the slot learns of it at the next `refresh` or `insert`. LookupsAgree is about the
  generations that the table was told are past for an object.
- "callbacks fire on every transition" (`membership.cpp:9`, and
  `tests/integration/fabric_processes.cpp:14` of three of them): there is none for
  Leaving and Left. CallbacksTell is about the statuses that have one.
- Ret is to "halt + return top" (`engine.hpp:57`); a value below the top is what the
  code returns to. ResultsAgree is about functions that leave none.

Smaller ones: the `le` lines of `scrape` hold single buckets, not cumulative counts;
`now_offset_` accumulates over the advances (`membership.cpp:123`), so that a peer
pinged a moment ago may be suspected, against `membership.hpp:66`; `mark` gives a
revived peer a new incarnation only if `on_revive` is set (`membership.cpp:97`), where
`ping` always does; a `squeeze` that did not begin a block and crosses its end reads
past it (`sha3.hpp:324`); an `AudioGraph` whose nodes were added after `prepare_all`
renders them unprepared, and a block without an input repeats the previous one; scoped
log sinks closed out of order restore the wrong sink; `engine.cpp:82` means to leave
the bytes empty when a function does not lower, but those of the functions before it
stay; the comments at `x86_64.cpp:139-140` call value what the code uses as the
address, and the reverse; the code the JIT emits uses `rbx`, which is its caller's, and
does not give it back (`x86_64.cpp:117`); the sums of `Arena::allocate` may wrap at
2^64 (`arena.hpp:46-47`), for which it does not check; `Pool::create` does not give its
block back when the constructor throws (`pool.hpp:76-80`); thread slots of a process
are not reused (`process.hpp:67`).

## 4. What is proved

Each theorem holds for every value of the constants that the assumption named
allows; the run shows the same property on one instance. Eight modules hold proofs:
`PairQueue_proofs`, `Endpoint_proofs`, `Scheduler_proofs`, `CapOps_proofs`,
`Activities_proofs`, `Resources_proofs`, `Storage_proofs`, and `Lemmas` with what
several of them need. Every safety proof has the same shape: an inductive invariant
IInv, `Init => IInv`, `IInv /\ [Next]_vars => IInv'` action by action, and `IInv =>
Inv`; an action property or a refinement takes IInv before and after the step.

`Lemmas`. Induction over data stands on `LeastNatural`: a nonempty set of naturals
has a least member, from the well-foundedness of `<`. `UpTo` is induction up to a
number in that form, a set in the place of a predicate; `Loop`, `Turns` and
`Steppings` are what a recursive function over the turns of a loop comes to; the rest is `SumOf`, the sum
over a finite set as the community modules' fold defines it, and how it changes with
one summand.

`PairQueue_proofs`, assuming `PairQueueAssumption` (capacity and bound are natural
numbers, and `NoMsg` is not a message):

- `TypeCorrect`, `Spec => []TypeOK`;
- `FifoDelivery`, `Spec => []FifoInv`: delivered followed by queued is accepted, and
  the queue stays within its capacity;
- `ClosedIsFinal`, `Spec => NothingAcceptedAfterClose`;
- `Implementation`, `Spec => ImplementsFifo`: every step is a step of the abstract
  channel, or a stutter;
- `NoMessageIsLost`, `NoSpaceIsLost` and `CloseFreesSenders`, with finitely many
  callers (`FiniteCallers`): whoever waits with a predicate has a wake-up under way
  for every message, or every free slot, there is.

The inductive invariant of the first four is `IInv == TypeOK /\ FifoInv`. FifoInv
alone is not inductive: that a resumed `try_send_for` pushes a message at all, and
not `NoMsg`, needs the link between `msg` and `pc` in TypeOK. `StepKinds` classifies
every step as a push, a pop, a close or a quiet step. For the wake-ups it is
`WakeInv`: the two properties and `SendersReleased`, which NoSpaceIsLost needs,
since a woken sender that finds the queue closed gives up without passing its
wake-up on. Both are instances of one formula, `Covered(f, n, P, W)`; `MoveAside`,
`MoveInto`, `MoveOut`, `Wake` and `WakeOther` say what the move of one caller and a
notification do to it.

`Endpoint_proofs`, assuming `EndpointAssumption` (threads and coroutines are apart,
and nobody is neither): `NobodyIsStranded`, `CloseReleasesEverybody`,
`EverybodyGetsTheirs` and `EndpointIsFifo`, the refinement. The invariant has five
parts: `Parking` (the waiters are the coroutines parked, each once, and each
coroutine handed a message has one resumer), `Budget` (sends begun and accepted stay
within the bound), `MessagesOK` (taken followed by queued is what was accepted),
`NobodyBeside` and `NobodyParkedOnClosed`. The registration needs the resumers: a
coroutine that leaves the waiters is in the hands of exactly one actor until it runs
again, so it cannot be registered twice. EverybodyGetsTheirs adds `Delivered`: for
each actor there is the increasing sequence of the positions at which it took, and
what it was returned, with what it is about to be, is the messages there.

`Scheduler_proofs`, assuming `SchedulerAssumption` (at least one worker; `None` is
no handle): `NobodyRunsTwice`, `CancelIsKept`, `DestructionDrains` and
`NoPostIsLost`. DestructionDrains speaks of the handles that are queued when the
destructor begins; one that a coroutine posts after that to a worker that has exited
stays in its queue, and NoPostIsLost counts it as left over. The invariant is TypeOK with `OnePlace` (a queued or running handle
is in one queue at one place or in one hand, and its task says which), `AloneOK` (a
handle cancelled in its queue keeps its flag, for nobody who could erase it has it
in hand), `DtorOK` (workers before the one the destructor is at have exited; what it
owes is queued at one that has not) and `Accounted`, the sums over workers of what
they ran, dropped and still have. Each action changes one summand.

`CapOps_proofs`, assuming `CapOpsAssumption` (moduli of at least two):
`TypeCorrect`, `RightsOnlyShrink`, `MovesDoNotCopy`, `RevocationHolds` and
`HandlesAreStable`. The invariant is `Shape`, `CapsOK` (each capability is sound:
its rights are within its mint's, its epoch is congruent to the count of revocations
at its mint), `EpochsOK` and `CopiesOK`. RevocationHolds is then an argument on
residues (`NoMultipleWithin`: two counts that differ by less than the modulus are
not congruent), and HandlesAreStable uses that a free handle is found, the first
attempt that succeeds.

`Activities_proofs`. Each component has an invariant of its own, and `Separate`
gives it the steps of its own specification:

- Thread, for any actors: `EndIsTold`. One actor at most is between the exchange and
  the launch (`ThreadOneLauncher`), and what the OS thread has stored at each point
  (`ThreadStored`).
- WorkStealing, for workers `1..n` (`WorkersAssumption`), and IrqSource:
  `EachOneOnce`. Taken followed by queued is posted, element by element; a joined
  worker has exited, and only one that resumes has a coroutine in hand
  (`StealingStopped`). Of each firing, what was called followed by what is left is
  what there was at its beginning (`Split`), and the handlers attached are in order,
  so that one attached meanwhile is not mistaken for an old one.
- Channel, for any finite set of receivers (`ReceiversAssumption`): `NoValueIsLeft`
  and the refinement `ImplementsFifo`. Waiting and woken receivers are apart
  (`OnItsWay`), and got followed by queued is what was sent.
- Cluster, for any members, timeouts and sets of callbacks: `CallbacksTellTheStatus`.
  `Told` relates each peer to what a listener was told of it; the rounds of `advance` are shown to
  keep it for all peers at once.
- Multilevel, for any finite sets of nodes and submitters with at least one node
  (`LevelsAssumption`): `NodesKeptLevel`. The property speaks of states between
  operations that have read stale loads, and is far from inductive. What is: the
  loads count what is on its way up to one for each submitter (`Counted`,
  `NoneWasBetter`), and, for every bound v that leaves room above a node m, what a
  node n was given *and the submitters that would still choose it with a load of at
  most v* (`Holders`) stay within v and one for each submitter (`KeptInBounds`): a
  submitter that reads moves into Holders, one that gives moves out of it.

`Storage_proofs`, assuming natural lengths (`CapacityAssumption`) and a lower layer
of sequences (`LowerFilesAssumption`): `BudgetIsKept` and `OldestGoFirst` for RamFS,
where the stamps are in the order of the accesses (`Stamped`), and `bytes_used_` is
within the budget, whatever its value has to do with the files; `NeverCopiedTwice`
and `AloneIsWhole` for OverlayFS. There `Places` says what each client may rely on
at each point of its call: who has the mutex, which of the two layers its path and
node are in; and `Undisturbed` what a client that is alone with its path sees of it,
in whichever layer. A step of one client keeps the places of another because upper
files are never removed and the mutex has one owner.

`Storage_proofs` also has the theorems of `PackagesSpec`:

- `PiecesDigestAlike` (DigestsAgree). Keccak, from any lanes, with no assumption: the
  code's passes over the lanes and the standard's conditions on single bits are
  compared bit by bit. `CountOfFive` makes the parity of a column the exclusive or
  of its five lanes; `TurnOf` says which turn of the loop of rho and pi writes a lane,
  and no other does (`WrittenOnce`); the offsets and constants the code has in tables
  are those of the standard's walk (`WalkTable`) and shift register (`RegisterTable`),
  gone through turn by turn. `RoundIsStandard` puts the round together, and since equal
  lanes stay equal the invariant is `KeccakIInv`. Sponge, for any rate of at least one
  byte (`SpongeAssumption`) and any bytes and lengths: the blocks absorbed are those of
  the message so far and the buffer is its rest (`AbsorbCuts`, since whole blocks can be
  cut off the front, `CutAfterBlocks`); what was squeezed is the output from its
  beginning (`Streamed`), up to the first byte past the rate, and each turn of the loop
  of `squeeze_bytes` keeps it so (`SqueezeStreams`, by `Turns` and `UpTo`).
- `EncodingsTellApart` (EncodedApart), for any characters, kinds and digests that are
  numbers, no kind or digest being the space (`ManifestsAssumption`: their texts are
  words and decimals). A string preceded by its length is known whatever follows it
  (`StrApart`); so is a list of such, if the lists are equally long (`FlatApart`, by
  `UpTo` along both), and their number comes first; so `BootApart` and `PackageApart`
  read the fields off an encoding one after the other. The text is read back line by
  line: `UpToLine` is the manifest after n lines, `ReadsOn` one line, `SegmentReadBack`
  the words of a segment, which end where the code looks for a space only if its name
  has none. A length is a number: the code writes 32 bits of it, and strings of 2^32
  bytes are beyond the model.

`Resources_proofs`, for any sizes, alignments, objects, descriptors and slots
(`ArenaAssumption`, `PoolAssumption`, `SocketsAssumption`, `TableAssumption`,
`SpaceAssumption`, `TrieAssumption`, `DeadlinesAssumption`: they are natural numbers,
and page size, alignments, depth and number of slots are not 0, the radix at least 2;
and that no sum of the arena wraps for the lengths asked for):

- `OneOwnerEach`. Arena: blocks lie in the order in which they were allocated, those
  from before a checkpoint below it (`InOrder`), which is why a checkpoint may be
  gone back to late, or twice. Pool: there is a list of the free blocks that the
  links follow (`FreeList`), and walking the links from the head gives exactly that
  list. Sockets: OneOwner is inductive.
- `LookupsFind`. VMA tree: the vector is in order and its intervals are apart
  (`InOrderApart`), and says of every address what mapping left there (`Stands`);
  sorting keeps the entries, so one inserted or split off ends in its place, and
  every turn of the coalescing loop keeps both. Page table: with the types of
  its pages PagesAgree is inductive as it stands; a frame's number and an offset make
  up the address that was mapped (`Offsets`). Trie: the nodes are exactly the paths of the handles in use
  (`Laid`); the nibbles tell two handles apart (`NibblesTell`, by `UpTo`), so a leaf
  is one handle's; and a turn of compaction removes the node it looks at exactly if no
  other handle's path goes through it (`Prunes`). Object table: a
  slot holds the object that was inserted last under its id (`Latest`), a generation
  known to be past is below the object's (`Retired`) and below the slot's that holds
  it, and `count_` is the slots present.
- `EarliestIsFirst` (DeadlineQueue): the heap is ordered between turns but at the
  entry that moves, whose parent and children are in order with each other
  (`Ordered`, `Bridged`); by `Turns` the sift ends with the heap ordered, and by
  `UpTo` along the parents the top is the first of all.

The components of `ComputingSpec` are proved about in `Activities_proofs` too:
`ComputedAtOnce`, assuming `MetricsAssumption` (the bounds of a histogram are in
order, since `observe` stops at the first that fits), `JitAssumption`,
`LogAssumption` (the two pointers that stand for no sink are no sinks),
`OptimizerAssumption` and `AudioAssumption` (what is computed with are numbers). What the code's loop computes
and what the property says are recursive functions; they are shown to agree at every
length by `Turns`, `Steppings` and `UpTo`:

- Metrics: the gauge is what its updates one by one would make it, and the first n
  buckets hold what is at most the n-th bound (`Bucketed`, which needs the bounds in order).
- Jit: of the function being written, what the processor does with the code so far and
  what the operations mean so far are alike (`Same`, `Alike`): the same stack and
  memory while it goes on, and when it has returned, with nothing below, the result.
  `InstructionDoes` is the step, one case for each operation; `FirstComesFirst` says
  that the code of the first function begins the module, whatever comes after it, and
  `RunDone` that nothing runs after a return.
- Log: each scope remembers what there was before it (`Nested`, by two sequences that
  say how much of the context, and of the sinks asked for, belongs to the first i
  scopes), so closing one restores it; and the context applied in order leaves of
  each key the value of the innermost scope (`InnermostIsLast`).
- Optimizer and AudioGraph: the parameters are what the closed windows step to
  (`SteppedBy`), which a new window does not change (`SteppedAlike`), and each turn of
  `render_block` fills its buffer from the one before (`Rendered`).

Only model-checked: liveness (CloseReleases, MessageReachesWaiter, HandedIsResumed,
PostedIsTaken, DtorReturns), since fairness and ENABLED are out of the prover's reach.

## 5. Not modelled

- `ipc::Message`, `core` io, result, span, endpoint and version: payloads and
  vocabulary types without state of their own; host input and output.
- `proc::Process`: its parts are modelled; its own table of threads is an
  unsynchronised vector whose operations are one assignment each.
- `net` dns, address and buffer: a `getaddrinfo` call, text parsing and a byte
  vector. Of the sockets, the bytes sent and received.
- `dev` drivers and `HostBus`: one loop that assigns each driver the state its probe
  and start answer; nothing relates two steps.
- `ui`, `proof`, `bridge`, the scratch programs and tests: a tree walk, contract
  macros, a C interface and demonstrations.
- Two threads that revoke one epoch at once: `CapEpoch::revoke` is one step in
  `CapOps`, since a space and its epoch belong to one owning thread.
- In partly modelled components: `for_each` of the capability space; the four levels
  of the page table; truncation through a node, Exclusive opens and one-layered
  overlays; `remove`, `list` and `Manifest::verify` of the package store; the files
  a boot manifest is loaded from; `apply`, `loss` and `describe` of the optimizers;
  the optimization passes and other targets of the JIT, and the bytes of its
  instructions but for one-byte immediates; the formatting of log records.

Each is marked with its status in `PROJECT.json`.

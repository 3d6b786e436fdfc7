# Verification of the FPGA accelerator host

TLA+ models of the host program that drives a 16x16 matrix multiplier in the
FPGA fabric of a Cyclone V SoC, and of the data structures it ships with.
TLC checks the models on small instances; TLAPS proves the main results for
every value of the constants.

## 1. The system

| Part | State it keeps | Operations |
|---|---|---|
| Host program, `src/src/main.c` | its place in `_pipeline`, `argv[1][0]`, the registers mapped at `virtual_base` | one multiplication (`matrix_mult16`), or one of the diagnostics '1' to '8' |
| Accelerator (FPGA image, not in the repository) | read-DMA descriptors, operand streams of two channels, instruction FIFO, product stream, write-DMA descriptors, SDRAM | stream a matrix, multiply, store a product |
| DMA buffer, `src/src/memory_utils.c` | a `udmabuf_t`; the CPU's cached copies of the buffer | `mu_get_udmabuf`, `mu_udmabuf_sync_for_device`, `mu_udmabuf_sync_for_cpu`, `cleanup_udmabuf` |
| Handles of a run, `main.c`, `memory_utils.c`, `util.c` | descriptors and mappings | open, mmap, sysfs attribute accesses, `CLEANUP` handlers |
| Hash table, `hashtable.c` | array of chains, prime index, `n_nodes` | `ht_set`, `ht_emplace`, `ht_has`, `ht_get`, `ht_take`, `ht_delete`, `ht_foreach`, `ht_purge`, `ht_free` |
| Vector, `vec.c` | block, capacity, size | push, emplace, pop, at, foreach, take_data |
| Linked list, `linkedlist.c` | `next` and `prev` of each node | init, push_back, push_front, emplace_back, remove, foreach, get, get_reverse, find |
| AVL tree, `avl.c` | a pointer tree with balances | add, delete, find, min, max, foreach in seven orders |
| Epoll hooks, `epoll_hook.c` | a context (epoll descriptor, hash table of hooks), hooks with their callbacks | register, unregister, modify, wait and dispatch |
| Error stack, `errstack.c` | text in a per-thread buffer | the `ES_*` macros |
| Pagemap helpers, `memory_utils.c` | none | virtual to physical, contiguity |
| Command line, `args.c`; address map, `hps.h` | none | not called by `main`; generated |

How they interact: the host writes descriptors and an instruction into
memory-mapped registers and polls a status register; the accelerator reads and
writes SDRAM on its own, past the CPU's data cache; the two sync calls, writes
to sysfs attributes, are all that makes cache and SDRAM agree.  The epoll hooks
keep their hooks in a hash table, and the AVL tree queues nodes in a linked
list.

What is hard here:

* the host, three engines of the accelerator and the cache run concurrently,
  and nothing but the order of register writes and syncs coordinates them;
* the hardware outlives the process: a run killed half-way leaves descriptors,
  operands or instructions for the next one;
* the waiting loops have no timeout;
* every system call can fail, and cleanup handlers run on partly built state;
* the hash table moves nodes and frees arrays while callers hold pointers;
* list operations relink several pointers whose order matters, and iteration
  goes on from nodes that were removed;
* epoll hooks are known to the kernel, to a table and to the dispatch under way,
  and callbacks, other threads and failures change them one at a time;
* the page table changes between the reads of one question about it.

`PROJECT.json` lists these hazards at their lines, with the properties that
cover them.

## 2. Modules

| Module | Models |
|---|---|
| `Accelerator` | the FPGA side (external): `ReadDma`, `Compute`, `WriteDma` |
| `DmaBuffer` | extends it with the CPU cache: `CpuRead`, `CpuWrite`, the two syncs, `Evict`, `Prefetch` |
| `Pipeline` | extends that with the program: an action per step of `_pipeline`, `Kill` anywhere, restarts |
| `PipelineInv` | the inductive invariant `IInv` |
| `PipelineProofs` | its proof and the theorems |
| `HostResources`, `HostResourcesProofs` | handles of one run: an action per system call or handler; the proofs |
| `HashTable`, `Dictionary`, `HashTableProofs` | the table, node by node, what it promises, the proof that it keeps it |
| `HashTableRaw` | `ht_emplace`, `ht_take`, and deletion inside `ht_foreach` |
| `Vec`, `Stack`, `VecProofs` | the vector, what it promises, the proof that it keeps it |
| `LinkedList`, `Rings`, `LinkedListProofs` | the list, what it promises, the proof that it keeps it |
| `LinkedListRaw` | `ll_remove` of a header, and `ll_find` |
| `EpollHook`, `EpollHookProofs` | contexts and hooks beside the kernel's interest and ready lists, threads in `eh_ctx_wait`, a client; the proofs |
| `EpollHookRaw` | callbacks that unregister their hook and go on |
| `AvlTree`, `AvlTreeProofs` | the tree, pointer by pointer; the proofs |
| `AvlForeach` | extends it with `avl_foreach` |
| `ErrStack`, `Pagemap`, `PagemapProofs` | the error stack; the pagemap helpers, which report through it; the proofs |
| `MC*` | constants for TLC |

A definition whose comment says "The mutant that ..." is a broken variant of
the definition after it.  No specification uses it; putting it in the place of
the right one shows that a property notices.

### Pipeline

A matrix is one opaque value and `Mul` an uninterpreted product, so the models
say which matrix is where, not what its entries are.  A cache line is a whole
matrix.  The buffer holds three: `mat[0]` (`dst`), `mat[1]` (`lhs`) and
`mat[2]` (`rhs`).

`pc` names the point `_pipeline` has reached.  `Main` starts a run with an
argument, or with none for the multiplication; `Acquire` stands for all of
lines 201-234, whose failures are `HostResources`' subject; `Memset`,
`Pattern`, `Sync1`, `Print1`, `Read1`, `Read2`, `Write`, `Instr`, `Poll`,
`Sync2`, `Print2` are lines 277 to 311 in order; printing a matrix reads it
and so puts it into the cache.  `Kill` ends the process at any point and tells
nobody.  Waiting loops are guards: `Instr` waits for room in the FIFO, `Poll`
for a zero status.  Hardware and cache steps interleave with all of it.

The hardware model is what the host code relies on: descriptors are executed
in order, channel 1 carries the left operand, the status of the write DMA is
non-zero until every posted address has been served, and `fill level` counts
the instructions not taken yet.  A sync writes back, or drops, the matrices
that lie wholly below `size & 0xFFFFFFF0`.

`clean` is a history variable: the hardware was idle when the run began.  A run
that begins behind the leftovers of a killed one can print a stale product, and
the properties do not claim otherwise.

### HostResources

One run of `_pipeline`, with descriptors given out lowest first, so that
closing the wrong number shows.  `close` removes the descriptor even when it
reports EINTR, as on Linux, and may leave any errno behind.  A failed mapping
is `"failed"` (`MAP_FAILED`), not NULL, and the buffer's mapping may lie above
2 GiB, where `(int) virtual_base > 0` rejects it.

### HashTable

A client's call is a step, and each loop inside the calls (rehash, purge,
foreach) takes a step per node, so the properties are also checked half-way
through a resize.  Chains are sequences.  The hash function and the primes are
constants.  `HashTableRaw` records what a held pointer designates (an element
of `ht->nodes`, or the `next` field of a node) to say what a dereference after
a resize reads.  `ht_set` increments `n_nodes` also when it overwrites: the
models follow the code, and `SizeNeverUnder` states the half that must hold.

### Vec

Cells beyond `size` hold anything, as after `realloc`.  `vec_take_data` writes to
the struct after freeing it (vec.c:139-140); this is undefined and taken to have
no effect.  A failing `realloc`
changes nothing.  `vec_front` and `vec_back` are cases of `At`.

### LinkedList

`next` and `prev` are functions on headers and nodes.  A removed node keeps its
pointers, which is what lets `ll_foreach` go on from it; `linked` is the
client's knowledge of which nodes are in a ring.  The client splices only rings
that are apart and brings no header along.  `front` is the pointer that
`ll_push_front` updates, and it is a variable of the client's own.  With
`&head.next` in its place linkedlist.c:39 changes `*dst` before lines 40 and 41
read it again: the nodes are in the ring by `next`, but `prev` is wrong at both ends of them
(`PushFrontBehind` of `LinkedListRaw`).  The properties of `LinkedList` claim
nothing of that call.  `Rings` states each call in one line: a ring is a
cyclic sequence, a push concatenates two of them, a removal drops one element.

### EpollHook

A hook is known in four places, and each has a variable: `hook` (the memory),
`owned` (`hook->owner`), `table` (`ctx->hooks`, here a function of the fd) and
`interest` (the kernel's entry).  `ready` is the kernel's ready list, with the
behaviour `epoll(7)` documents for level-triggered, edge-triggered and one-shot
entries.  `th` is where each thread is in the loop of `eh_ctx_wait`: in the
callback for ALL, between operations, in an operation's callback.  A callback
may set `new_events` as it likes and answer anything.  `eh_ctx_reg_hook` takes
two steps, because another thread may dispatch the hook between
`EPOLL_CTL_ADD` and `ht_int_set`; each may fail.

The code relies on its client for a good deal.  The rules are in the head of
the module and in the guards `MayCall`, `MayReg`, `CtxCleanup` and
`CallbackGivesUp`: several threads only with one-shot contexts, a failed
registration cleaned up before anything else happens to its fd or context, no
wait during the clean-up of the context, and a hook under dispatch left to its
own callback, which ends the dispatch when it gives the hook up.
`EpollHookRaw` drops the last rule.  Not checked by the code and kept out by
the rules:

* `eh_hook_mod_set_cbf` writes the entry without `EPOLLONESHOT` and `EPOLLET`,
  so with several threads two could dispatch the hook at once;
* a hook whose registration failed keeps its owner, and is left with a dangling
  pointer when the context is freed;
* in a threaded context that is not one-shot a second thread can dispatch a
  hook while the first frees it.

Other observations: a hangup in a context that is not one-shot unregisters the
hook, and nobody frees it; `max_events` only sizes a buffer;
`eh_ctx_get_hook_by_fd` is declared and not defined; `eh_ctx_cleanup` frees the
hooks from inside `ht_foreach`, which is what `ht_foreach_delete` shows to be
unsafe, and leaks the table.

### AvlTree

`heap` is the memory: root, children and balances, and whether a NULL has been
dereferenced.  Each function of `avl.c` is an operator from memories to
memories with the pointer it was passed (the address of a child field, or of
the root) and the balance it returns.  `_insert`, `_delete` and
`_del_with_swap` change nothing on their way down, so their recursion is a
`Descent`, the places their calls are passed, and a way `Back` over the same
places, a function of the number of the call.  `avl_foreach` calls its body
on the way, and is a recursive operator in a module of its own.  The code is
incomplete: `_rotate` never
stores the root of the part it has turned and dereferences an inner child that
need not exist (adding 1, 2, 3 in this order crashes), `_swap` leaves the
children of the exchanged nodes behind, `_delete` adds to the parent's balance
where it should subtract, and no `avl_foreach` gets to its end except in
breadth over an empty tree.  The header promises nothing that could be refuted,
so the properties say what does hold: what can be reached is a search tree and
is found, nothing is lost before the first rotation or swap, balances are right
until the first removal, and a traversal passes nodes in its order as far as it
gets.

### ErrStack and Pagemap

A message is where it comes from and how long it is.  The buffer is its write
position, the place of the first NUL and the pieces of messages before it, so
that a write behind a NUL, or past the end, shows.  `trail` is the history
variable: what the last failure reported in full.

`Pagemap` reads one entry per step, which stands for `open`, `pread` and
`close`, and lets the kernel change any page between two.  An entry shows frame
0 to a process without the privilege; `mu_virt_to_phys` then returns the offset
in the page and no error, as the property allows.  The reference definition of
contiguity is about bytes: each lies at its distance from the first.

## 3. Runs

| Run | Bounds | Shows |
|---|---|---|
| `pipeline` | 3 invocations, FIFO of depth 1, buffer of exactly 768 bytes | correctness, quiescence and termination of a multiplication; 302,189 states |
| `resources` | one run, descriptors 0..6 | no leak, no lost descriptor on any path; 840 states |
| `hashtable` | 4 keys, 2 values, array sizes 1, 2, 5, `n_nodes` up to 6 | lookup, iteration and counting across resizes; refines `Dictionary`; 47,083 states |
| `vec` | 2 elements, size up to 5 | bounds, space, iteration; refines `Stack`; 6,766 states |
| `linkedlist` | 1 header, 4 nodes, interchangeable | ring structure, iteration, indexing; refines `Rings`; 7,098 states |
| `epoll` | 2 hooks, 2 fds, 2 threads, 3 kinds of events | memory safety, agreement of owner, table and kernel, no two threads in a hook, no hook silenced by accident, every ready hook served; 458,307 states |
| `avl` | 7 keys, balances up to 4 off | what the tree keeps through losses; 19,839 states |
| `pagemap` | 3 pages of 2 bytes, 3 frames, 5 ranges, buffer of 5 bytes, 3 messages | exact answers, truthful error text; 482,954 states |
| `ht_emplace` | as `hashtable`, one value, `n_nodes` up to 5 | counterexample to what a comment of `hashtable.c` says |
| `ht_foreach_delete` | as `hashtable`, one value, `n_nodes` up to 2 | counterexample to what a comment of `hashtable.c` says |
| `ll_find` | 1 header, 2 nodes | counterexample to what `linkedlist.h` says |
| `epoll_rearm` | 2 hooks, 1 fd, 1 thread | counterexample to what `epoll_hook.h` says |

Why the bounds are enough.  Three invocations allow a run to be killed, a
diagnostic to follow and a multiplication to meet both leftovers; a FIFO of
depth 1 is full as soon as one killed run has left an instruction in it.  With
keys that are their own hashes, 1 and 6 collide in five buckets, 0, 2 and 6 in
two, and all keys in one; two growths and two shrinkages are in reach.  With
`n_nodes` up to 2 a table grows once, at the second key, and a deletion that
resizes it shrinks it.  Five elements grow a block to eight cells, and popping
them shrinks it again.  With four nodes a ring of two
is spliced into a list of two.  Of the two hooks one has a callback for ALL and
one competes for the same fd or has the other one, and two threads are enough
for one to dispatch what the other registers, modifies or frees.  Seven keys
give trees of height four; rotations that survive and removals of inner nodes
with two children happen.  Three pages distinguish a comparison
with the first frame from one with the previous, and messages of 2 and 5 bytes
end before, at and past the end of the buffer.

The properties.

* `ResultIsProduct`: a run that found the hardware idle prints the product of
  the matrices it wrote, whatever cache and engines do meanwhile and whatever
  earlier runs left in SDRAM and cache.
* `QuiescentOnReturn`: it leaves the hardware idle on every return path.
* `InstrHasDescriptor`, `FifoNeverOverflows`: what bounds the work in flight,
  with leftovers of killed runs included; a zero status means nothing is.
* `OrphansStay`: a write descriptor that no instruction will serve, from
  diagnostics '4' and '5' or a kill between lines 170 and 172, is never served.
  `MultiplyTerminates` is the other half: without one, a multiplication ends.
* `NothingLeaks`, `HandlesLive`, `StdioKept`, `CleanupEnds`: the handles.  The
  mapping of the SDRAM controller is never unmapped by the program, and a run
  that fails before it has the buffer closes descriptor 0 through the zero in
  `state.udmabuf.fd`; the properties say exactly that and no more.
* `LookupFindsAll`, `NoDuplicates`, `SizeNeverUnder`, `ForeachExact`,
  `CallsReturn`, `ImplementsDictionary`: the table.
* `InBounds`, `SpaceBounded`, `ForeachInOrder`, `ImplementsStack`: the vector.
* `Consistent`, `ForeachExact`, `GetIsModular`, `ImplementsRings`: the list.
* `NoDangling`: kernel, table and dispatches point to hooks that are allocated.
  `Registered`: owner, table and kernel agree, through failures of either half
  of a registration.  `OneAtATime`: one-shot entries keep threads apart.
  `NeverSilenced`: a registered hook hears what it has callbacks for, unless
  it was told otherwise.  `ReadyServed`: it is dispatched.
* `SearchTree`, `FindsWhatIsThere`, `SoundUntilRepair`, `ForeachInOrder`: the
  tree.
* `AnswersExact`: the pagemap helpers.  `TraceOfLastFailure` and the bounds in
  `TypeOK`: the error stack.

`TypeOK` of `HashTable`, `LinkedList` and `AvlTree` is a conjunct of
`SizeNeverUnder`, `Consistent` and `SearchTree`; that of `Vec` is part of the
invariant its theorems rest on.

Deadlock is checked in all passing runs but `resources`, where the process
ends.

Fairness.  `Pipeline` assumes weak fairness of the process as a whole and of
each engine: the process is runnable whenever its loop condition allows (the
waiting loops yield but never block), and the engines are clocked logic that
proceeds when its inputs are there.  Nothing is assumed of `Main`, `Kill` or
the cache.  `HostResources` assumes that the process runs on, `HashTable` that
a call in progress runs on; the client need not call again.  `ll_find` runs
under weak fairness of its own loop.  `EpollHook` assumes that calls and
callbacks return (weak fairness of each thread's dispatch and of a registration
under way) and that somebody keeps calling `eh_ctx_wait` (strong fairness: with
one thread the client's own calls disable it again and again).  Nothing is
assumed of events, of the client or of which thread waits.

## 4. Findings

* `ht_emplace` uses the chain position from before the resize (hashtable.c:318).
* `ht_foreach` is not safe for self-deletion when the deletion resizes the table
  (hashtable.c:384).  In the run two keys are set, so that the table grows, one
  is deleted, and a body deletes the other: the table shrinks, and `*head` is
  read in the array that was freed.  With a larger bound the table may also
  grow there: overwrites count as nodes, so that `n_nodes` can still be twice
  the size of the array after a deletion.
* `ll_find` does not advance (linkedlist.c:97).
* `eh_ctx_wait` re-arms a hook that its callback has unregistered
  (epoll_hook.c:137).

Modelled as the code has them, without a run of their own: `ht_take` cleans up
the successor and not the node taken, whose key is never freed, although
hashtable.h:34 says key_free is "always called if exists" (`Take`,
hashtable.c:354); `ll_remove` unlinks a header that has nodes, although
linkedlist.h:130-131 says "nothing happens" (`RemoveHeader`, linkedlist.c:107).
errstack.h:25 describes the ASRT macros with "!= 0"; they act on zero
(errstack.h:98).

## 5. Proofs

Every invariant and action property that a run checks is proved for every value
of the constants, except `ForeachInOrder` of the AVL tree; so are the three
refinements.  In each component one inductive invariant carries the theorems; it
is proved initial and kept by one lemma per action.

### Pipeline

For every set of matrices, product, FIFO depth, buffer size of at least 768
bytes and number of runs, `PipelineProofs` has `Inductive` (`Spec => []IInv`) and
from it `TypeCorrect`, `ResultCorrect`, `Quiescence`, `FlightBounded`,
`FifoBounded` and `OrphansAreForever`.

`ResultIsProduct` is not inductive: that the printed matrix is right depends on
what the engines were given several steps earlier.  `IInv` adds

* `Patterned`: from line 289 on SDRAM holds the two operands and no line of the
  buffer is dirty, so that no eviction can change SDRAM;
* `CleanRun`: at each place of a run that found the hardware idle, exactly
  which descriptors, operands, instruction and product are where; the product
  is underway, or delivered, or its operands are;
* `ArgOK`: which places a diagnostic can reach;
* `Backed`: at `"instr"` the descriptor of the instruction about to be sent is
  posted, which makes `InstrHasDescriptor` inductive;
* `TargetsOK`: the write DMA is never pointed at an operand.

The assumptions are `MulAssumption`, `FifoAssumption`, `BufferAssumption` and
`PatternAssumption`; `BufferAssumption` is the one the code does not check.

### Handles

`HostResourcesProofs`, for every choice of failing calls and any table of at
least seven descriptors (`MaxFdAssumption`: what one run can have open at once):
`ResourceTypes`, `NoLeak`, `HandlesStayLive`, `StdioSurvives`.  `NothingLeaks`
speaks of the end of the run only.  The invariant says who is to release what
at every point: `FdsAccounted` and `MapsAccounted` name the holder of every
descriptor and mapping (`state.fd_dev_mem`, the local `fd`, the local `tmp`,
`state.udmabuf`), `Locals`, `Memory` and `Buffer` say that what a holder names
is open and of the right kind, and `Phase` how far `mu_get_udmabuf` has come.
The hard case is the local `tmp` of `mu_get_udmabuf`: on its failing path `tmp.fd`
names the descriptor that the cleanup of `fd` has closed already.

### Hash table

`HashTableProofs`, for every set of keys and values, hash function and list of
array sizes (`TableAssumption`): `TableSizeNeverUnder`, `TableLookupFindsAll`,
`TableNoDuplicates`, `TableForeachExact` and `TableImplementsDictionary`.  The
invariant is `Shape`: in both arrays every node hangs in the chain of its key
and no chain has a key twice (`Arrays`); the arrays share no key, and the new
one is empty outside a rehash (`Apart`); the chains a loop has left are empty
(`Swept`), so that the old array is empty when it is freed; `n_nodes` is at least
the number of nodes (`Counted`).  The number of nodes is the cardinality of the
set of their places, and `Added`, `Dropped` and `Changed` say what each change
of a chain does to nodes and places.  `ForeachExact` needs `Passing` too: the
keys passed so far are those of the places before the loop, each once.

### Vector

`VecProofs`, for every element set and size: `VecInBounds`, `VecSpaceBounded`,
`VecForeachInOrder`, `VecImplementsStack`.  `TypeOK /\ InBounds` is inductive,
with `UpsizedRoom` and `ShrunkRoom` for the resized blocks.  `SpaceBounded` is
not: that a block is halved exactly, and at the right size, needs the capacity
to be a power of two.  `PowerOfTwo` says it without exponents, as the absence of
odd factors.

### Linked list

`LinkedListProofs`, for any finite set of headers and nodes (`ListAssumption`):
`ListConsistent`, `ListForeachExact`, `ListGetIsModular`, `ListImplementsRings`.
The invariant has three parts beside the types.

* `Undoes`: `prev` is the inverse of `next` on the live nodes.  That a walk
  comes back to where it began follows by the pigeonhole principle
  (`WalkReturns`), and so what a ring is (`RingShape`).
* `Looping`: the nodes a loop has still to pass are chained as they were at the
  call, also behind a node that its body has removed.
* `Owned`: some function tells for every live node the header of its ring, or
  that it has none.  Without it a removal in a loop might hit the node the
  client enters another list at.  A splice gives the nodes of `src` the owner
  of `dst` (`Recolour`).

For the refinement, `OneRing` shows that the pointers determine the ring, and
`TurnedCyclic` that a ring may be read from each of its members.  `Reforms(K, c)`
is what a call does: the nodes of `K` that stay are now the ring `c`, and no
pointer outside `K` has moved; `ReformedRings` then gives every ring after the
step.  The rings are defined by a recursive function, whose values the walk
lemmas fix by their recurrence.

### Epoll hooks

`EpollHookProofs`, for every set of hooks, descriptors, threads and events and
every choice of the client within its rules (`HookAssumption`): `EpollTypes`,
`EpollNoDangling`, `EpollRegistered`, `EpollOneAtATime`, `EpollNeverSilenced`.
No two owned hooks share an fd (`OwnedApart`), which keeps what a call does under
one fd from other hooks; a dispatched hook is owned, and its one-shot entry is
disabled (`Dispatches`), which keeps a second thread out; an unsilenced hook is
on the kernel's list (`Listed`), which its next `EPOLL_CTL_MOD` needs; `Agree`
adds to `Registered` the hook that is being stored.

### Pagemap helpers and error stack

`PagemapProofs`, for every page size, number of pages, set of frames and buffer
size (`PageAssumption`, `StackAssumption`): `PagemapTypes`, which contains the
bounds of the error stack's buffer, `PagemapAnswersExact` and
`PagemapTraceOfLastFailure`.  The invariant
says that the loop has found the pages before its index to follow each other
(`InLoop`), and what an answer rests on (`Answered`, `Translated`).  From frames
that follow each other to bytes that do is arithmetic with quotients and
remainders, and an induction over the pages.

That the error text is the trace of the last failure is not inductive either:
the text alone does not say how much of a message was cut.  `Holds(s, t)` says
what the buffer holds after the messages `t`: the pieces that fit, and, as long
as all of them do, the write position and the first NUL right behind the last.
A call that begins a report empties the buffer, and appending a message to a
buffer that holds `t` makes it hold `t` and that message.  `Cut` gives the
pieces by running totals, a recursive function whose values follow from their
recurrence.

### AVL tree

`AvlTreeProofs`, for every finite set of keys (`AvlAssumption`):
`AvlSearchTree`, which contains the types, `AvlFindsWhatIsThere` and
`AvlSoundUntilRepair`.  No bound on the balances is used.  The invariant is `AvlInv`: the types; `Ordered`, the
search order at every node the root leads to; those nodes are among the
client's members; and every other node is zeroed, which `_insert` relies on when
it hangs one in.

* What a pointer leads to is the least set closed under the children
  (`ReachIs`); that as many steps as there are nodes are enough for it is the
  pigeonhole principle.
* In an ordered memory every live node has one pointer to it, so the calls of
  a recursion are a `Line`: places one below the other, of which each is left
  alone by what happens below it.
* `_rotate` never stores the root of the part it turns.  Its place still holds
  the old root, whose inner grandchild has taken the place of the child: that
  child and its outer subtree are lost, order is not (`TurnedKeeps`).
* `_del_with_swap` leaves the children of the exchanged nodes behind.
  `Spliced` says what results: the place of the removed node leads to the
  exchanged one and what that had below it, and everything between the two is
  lost (`SwapLoses`), before and after the rotations on the way back
  (`BackLost`).
* `BackSound` carries order along the calls on their way back, for `_insert`
  and `_delete` alike.

So the code loses nodes, but never disorders what is left.

`AvlSoundUntilRepair` adds `Unspoilt` to the invariant: as long as the process
lives and nothing has been rotated or swapped (`Whole`), all members are in the
tree, and before a removal there are heights that fit the pointers and the
balances.

* A rotation and a swap leave their mark, so in a call after which the memory is
  still whole, each step back only stores a balance (`BackWhole`, `Settled`):
  an insertion then adds its node (`Grafted`) and a removal takes a leaf or
  nothing (`DeleteWhole`).
* In such an insertion the nodes of the line grow by 1 from the new one up to
  where a balance becomes 0 or stays what it was (`GrowthReturned`, `Grows`),
  and the other heights stay (`OffTheLine`): `InsertHeights`.
* `Height` is a recursive function.  Heights that fit the pointers give it a
  solution, and any two agree, by the lowest node where they would not
  (`HeightSteps`, `HeightIs`).

Induction over numbers is done by taking the least counterexample (`LeastNat`,
in each module that needs it), since the induction theorems of the library take
an operator the provers cannot instantiate.

### Only model-checked

* `MultiplyTerminates`, `CleanupEnds`, `CallsReturn`, `ReadyServed`: fairness and
  ENABLED are out of the prover's reach.
* `ForeachInOrder` of the AVL tree: `avl_foreach` and the listings it is compared
  with are recursive operators, which the prover does not accept.
* The four violations, which are counterexamples.

## 6. Not modelled

* `mu_sdram_csr_print`, `print_state`: they print registers.
* `args.c`: not called.  `hps.h`: generated constants.
* Failing copies of keys and values in the hash table; pointers into a vector
  kept across calls; popping an empty vector; a list spliced into itself; two
  processes at once.
* Undefined behaviour with no part in the properties: the write of
  `vec_take_data` to the struct it has freed; the descriptor that the sysfs
  accessors would close uninitialised if `snprintf` failed
  (memory_utils.c:99-102), which it is taken not to do with these short paths;
  what the breadth-first walk reads behind the header of its empty queue, where
  the walk is taken to end.
* `ll_push_front` through the next field of a node is in `LinkedListRaw` only,
  and so are the losses of `ht_take` in `HashTableRaw`: no property is claimed
  of them.
* `eh_ctx_cleanup` frees all hooks in one step.  In the code it does so from
  inside `ht_foreach`, and with more hooks than the table's first size holds the
  deletions may shrink the table under it.
* `errstack.c` on a memfd: `ES_BUFFER_BACKED` compiles it out.
* The user's data pointer of a hook; `mu_alloc`, a call of `valloc`.

## 7. Plan

In this order, most important first:

1. Done: `Pipeline` with `Accelerator` and `DmaBuffer`; its invariant and
   proofs; `HostResources`; `HashTable`; `Vec` with proofs; `LinkedList`;
   `EpollHook`; `AvlTree`; `ErrStack` and `Pagemap`.
2. Done: the inductive invariants and theorems of `Pipeline`, `HostResources`,
   `HashTable`, `Vec`, `LinkedList`, `EpollHook`, `Pagemap` and `AvlTree`, and
   the refinements of `Dictionary`, `Stack` and `Rings`.
3. Two host processes sharing the accelerator, and failing copies in the hash
   table.

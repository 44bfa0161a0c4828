# A formal model of bicycletub

bicycletub is a small storage engine in C++: an in-memory disk behind a
scheduler thread, a buffer pool with ARC replacement and page guards, a B+ tree
index with an iterator, and a block nested loop join. This directory holds TLA+
modules translated from its source, the TLC configurations that check them on
small instances, and proofs that TLAPS checks for every instance.

## 1. The system

Paths are relative to the repository (`src/` below is its source directory).

| Component | Source | State | Operations |
|---|---|---|---|
| ARC replacer | `src/arc_replacer.cpp` | lists `mru_`, `mfu_`, their ghost lists, `alive_map_`, `ghost_map_`, `curr_size_`, `mru_target_size_`, all under `latch_` | `RecordAccess`, `SetEvictable`, `Evict`, `Size` |
| Buffer pool manager | `src/buffer_pool_manager.cpp` | `page_table_`, `free_frames_`, the frames, `next_page_id_`, under `bpm_latch_` | `NewPage`, `CheckedReadPage`, `CheckedWritePage`, `FlushPage`, `FlushAllPages` |
| Page guards | `src/page_guard.cpp` | one pin and one hold of the frame's `rwlatch_` each | constructors, data access, `Flush`, `Drop` |
| Disk scheduler and disk | `src/disk_scheduler.cpp`, `include/disk_scheduler.h`, `src/disk_manager_memory.cpp` | the channel's queue, the worker thread, one promise per request, `pages_` | `Schedule`, the worker's loop, the destructor |
| B+ tree | `src/b_plus_tree.cpp` and the node pages | the header page and the nodes | `Insert`, `Remove`, `GetValue`, `IsEmpty` |
| Index iterator | `src/index_iterator.cpp` | a page id and an index | `Begin`, `Begin(key)`, `End`, `*`, `++`, `IsEnd` |
| Join | `src/bnlj.cpp` | the rows of a block, guards on its pages, the result | `ExecuteJoin` |
| Row pages, types, demo | `src/page.cpp`, `include/types.h`, `src/main.cpp` | - | layout, comparison, printing |

**How they interact.** A tree operation takes the write guard of the header
page, then guards of nodes. A guard comes from the pool: under `bpm_latch_` the
pool finds the page's frame, or a free one, or asks the replacer for a victim,
writes it back and reads the page through the disk scheduler, waiting for each
future. It then *releases* `bpm_latch_`, tells the replacer about the access, and
constructs the guard, whose constructor takes `bpm_latch_` again for the pin, makes
the frame non-evictable, releases `bpm_latch_`, and waits for `rwlatch_`.
Dropping a guard releases `rwlatch_` first and then, under `bpm_latch_`, the pin.

**What is hard.** The window between the lookup of a page and its pin; the two
latches (`bpm_latch_`, `rwlatch_`) that different paths take in different
orders; counters kept beside the facts they count (`curr_size_`, `pin_count_`);
a constructor that throws half-way; a `size_t` that is decremented before it is
clamped; wakeups and shutdown in the channel; trees after long mixes of splits,
redistributions and merges. `PROJECT.json` lists each of these hazards at its
line with the property that covers it.

**What makes each component correct.**

* *Replacer*: lists, maps and counter agree; a victim is an evictable frame, and
  there is one whenever some frame is evictable; no call waits for itself.
* *Pool and guards*: a frame holds at most one page; a frame somebody relies on
  is pinned, not evictable, and stays bound to its page; data under a guard
  changes only by its own writer; a flush gives `bpm_latch_` back.
* *Pool as the tree uses it*: it is a store of locked pages in which frames,
  eviction and the disk are invisible.
* *Scheduler*: each request takes effect once between call and answer; nobody
  waits for ever; shutdown abandons nothing.
* *Tree*: it is a map; its leaves are chained in key order; its pages form a
  balanced tree whose nodes keep within their sizes.
* *Iterator*: while nobody changes the map it visits the keys in order, each
  once, and reaches `End()`; beside writers it stays on leaves; what is read through
  its references is one entry, its key and its RID, as long as the leaf has
  neither changed nor lost its frame.
* *Join*: the result is the relational join, each pair once, whatever the pages
  and the block size; it is refused a page only when the frames are too few.

## 2. The modules

| Module | What it is | Built on |
|---|---|---|
| `Replacer` | contract of a replacer: tracked frames, evictable frames, answers | - |
| `ArcReplacer` | the ARC replacer, one action per public method | refines `Replacer` |
| `ArcReplacerProofs` | theorems about the replacer | extends `ArcReplacer`, `SequenceFacts` |
| `BufferPool` | pool, frames, guards and client threads | uses the `Replacer` contract |
| `PageStore` | contract of the storage layer: pages with readers-writer locks | - |
| `TreePool` | `BufferPool` restricted to the tree's way of taking guards | extends `BufferPool`, refines `PageStore` |
| `PoolProofs` | theorems about the pool, its guards and its threads, and about the pool under the tree's discipline | extends `TreePool` |
| `AtomicDisk` | contract of the scheduler: each request atomic between call and answer | - |
| `DiskScheduler` | channel, worker, promises, destructor, in-memory disk | refines `AtomicDisk` |
| `DiskSchedulerProofs` | theorems about the scheduler | extends `DiskScheduler` |
| `IndexMap` | contract of the index: a map with unique keys | - |
| `BPlusTree` | `Insert`, `Remove`, `GetValue`, `IsEmpty` on nodes | refines `IndexMap` |
| `BPlusTreeShape` | the invariant of a table of nodes, and what each change of a table does to it | extends `BPlusTree`, `SequenceFacts` |
| `BPlusTreeProofs` | theorems about the tree | extends `BPlusTreeShape` |
| `SequenceFacts` | induction, recursion and the operators on sequences, as the proofs use them | - |
| `IndexCursor` | contract of an iterator beside readers and writers | uses `IndexMap` |
| `IndexIterator` | `Begin`, `Begin(key)`, `End` and the iterator, beside the operations of the tree | extends `BPlusTree`, refines `IndexCursor` |
| `IndexIteratorProofs` | theorems about the iterator beside the tree | extends `IndexIterator`, `BPlusTreeProofs` |
| `Join` | the block nested loop join, with its guards | - |
| `JoinProofs` | theorems about the join | extends `Join` |
| `MC...` | instances for TLC: symmetry, tables, a race-free client of the replacer, the RIDs of an index | the module named |

The contracts fit together by what each layer waits for. `ArcReplacer` implements
`Replacer`, and `BufferPool` is written against `Replacer`. `DiskScheduler`
implements `AtomicDisk`; the pool calls it under `bpm_latch_` or a page lock and
waits for the future, so `BufferPool` has an atomic `disk`. `TreePool` implements
`PageStore`, and because every operation of the tree holds the header's write
guard, `BPlusTree` may let one operation at a time work on the nodes.
`IndexIterator` extends `BPlusTree` with a reader that does *not* hold the header
between its calls.

### ArcReplacer

Every public method holds `latch_` throughout, so each is one action.
`RecordAccess` has its three cases (`RecordHit`, `RecordGhostHit`, `RecordNew`);
the nested call of `Evict()` under the latch (line 69) is the flag `hung`: a
thread that gets there waits for itself. `TargetAfter` does the arithmetic
modulo `SizeMod` as `size_t` does. `Without` is `std::list::remove` on a list that
holds the element at most once, `Purged` the same on a ghost list, which may hold a
page twice: two frames may have been reported with the same page. The client is the most general one: any frame
may be reported with any page, since the pool reports after it released
`bpm_latch_`. `MCArcReplacer` adds `RaceFreeSpec`, a client that reports each frame
with the page it holds, for the run that finds fault with the arithmetic of the
target: that fault needs no race.

### BufferPool

A step is what a thread does between two points where another can get in. A
fetch is `Lookup` (under `bpm_latch_`: `LookupHit`, `LookupFree`, `LookupEvict`),
`Record` (the replacer's latch only), `Pin` or `PinThrows` (the guard's
constructor under `bpm_latch_`), and `Latch` (waiting for `rwlatch_`). Dropping is
`Drop` and `Unpin`. `BeginFlush` and `FlushOne` keep `bpm_latch_` (variable `bpmLatch`)
from the first page to the last while they wait for each frame's `rwlatch_`;
every action that needs `bpm_latch_` has the guard `LatchFree`. `PinThrows` is the
`std::logic_error` of `SetEvictable` leaving the constructor: the pin was counted
and no destructor will run. Refused fetches change nothing and are left to
stuttering. The client obeys two rules: it never asks for a page it already
guards (relocking a `shared_mutex` is undefined) and does not call a flush of the
pool while it holds a guard.

### TreePool

The same actions under `Disciplined`: the header page is taken first and alone,
every other page under the header's write guard. That is how `Insert`, `Remove`,
`GetValue`, `IsEmpty` and the constructor work; `GetRootPageId` takes the header
alone. Guards are dropped in any order. `GetValue` on a miss drops the header
before its leaf, and that case is included. The iterator and the join read
without the header, so what is shown here does not extend to a program that runs
them beside writers.

### DiskScheduler

Push and notification are separate steps, since `Put` unlocks before
`notify_all`. The worker checks, sleeps, takes, serves and answers in separate
steps and may wake spuriously. The destructor queues its `nullopt` behind
everything else and joins. A client's frame is `buf[t]`; it is touched by the
worker until the answer.

### BPlusTree

A node is the live part of its arrays. An operation is one step at the leaf,
which decides the answer, and one step per level its loop visits; `fix` holds its
local variables (`up_key`, `new_child_id`, the write set; `old_key`, `new_key`,
`key_update`) in between. The three ways the code splits a full internal node,
by where the new key falls, all amount to inserting the child and cutting after
child number `GetMinSize()`: `Adopted`, then `Lower` and `Upper`. Leaves and internal
nodes are refilled by the same rule - left neighbour, right neighbour, merge - so
`Refilled` serves both; `FromLeft`, `FromRight` and `Joined` say what moves for each
kind. `key_update` is modelled with its consequence: while it is set the loop
does not look at the node's size. Page ids are names only; a page that has left
the tree is `Unused` and its name may be taken again, which keeps the instance
finite although the program never reuses an id.

### IndexIterator

An iterator is a page and an index and holds no guard between calls. Its calls
are cut where the tree can change in the middle of them: `Begin` and `End` test
`IsEmpty` and take the header again (`BeginTest`, `BeginWalk`; `EndTest`, `EndWalk`);
`operator++` asks `IsEnd()` under one guard of the leaf and moves under another
(`AdvanceTest`, `AdvanceMove`). `operator*` returns two references into the frame of
the leaf and drops the guard, which is the only pin; the caller reads the key through
one and then the RID through the other. So there is a step for the return and one for
each read (`DerefTest`, `DerefKey`, `DerefRid`), and between them the tree may move the
entries of the leaf, and anybody's fetch may evict the leaf and put another page
into its frame (`Displaced`). The history variable `steady` says that neither has
happened: then a read finds what is in the `Slot`; otherwise it finds what is there now,
or `Unknown`, which stands for any bytes. `Begin(key)` is one step, since it
keeps the header until it has read its leaf. `TreeStep` is any step of
`BPlusTree`. A leaf that is merged away keeps its page, its old link and no
entries; because `BPlusTree` reuses names, the iterator on such a page is moved to
`Gone` (`Carried`), which remembers whether the link was the last. `adrift` is a
history variable: the tree has changed since the iterator was made. The
contract, `IndexCursor`, puts the iterator *at a key*, *at the end*, *stray* or
*adrift*, and says what each call may answer in each case. What `operator*` returns is
a *loan*, which a change of the map may void and so may anybody's fetch: a good
loan is read as one entry of the map, the one the iterator is at, and a void one as
anything. `Position` and `Loan` are the mapping.

### Join

A table is the sequence of its rows in the order of `next_rid`, each with its page
and its join column. The steps are the loops of `ExecuteJoin`: `StartBlock` and
`LoadRow` fill a block, with the count of pages that `Room` tests *before* the row
that turns the page, `StartScan`, `ReadRight`, `Compare` and `NextRight` scan the
right table for it, `EndBlock` drops the guards. `GiveUp` is the empty block of
`block_size` zero. A guard is a page in `kept`, `leftGuard` or `rightGuard`; `Fits` says
whether the pool has a frame for one more, and `Throw` is what happens when it
has not, or when the right table is empty. Two pages of one table, or of both,
are never locked twice by the thread (`TablesAssumption`): relocking a
`shared_mutex` is undefined, so such tables are outside the model, as they are
outside what the code defines.

## 3. The runs

"Distinct" is the number of distinct states TLC visits.

| Run | Instance | Checks | Distinct |
|---|---|---|---|
| `ArcReplacer` | 3 frames, 3 pages, 3 ghosts, symmetry | `TypeOK`, `ListsMatchMap`, `CountMatches`, `GhostsListed`, `NeverHangs`, `ImplementsReplacer` | 479k |
| `BufferPool` | 2 threads, 2 frames, 3 pages, 2 guards each, flushes | `TypeOK`, `TableIsBijection`, `PinsCoverGuards`, `OnlyUnpinnedEvictable`, `GuardedFramesStay` | 336k |
| `TreePool` | 2 threads, 2 frames, 3 pages, 2 values, fair | `GuardsMatch`, `PinFindsFrame`, `PinsExact`, `NoFrameLost`, `CleanMatchesDisk`, `GuardedDataStays`, `ImplementsPageStore`, `FetchUnderHeaderReturns` | 210k |
| `DiskScheduler` | 2 clients, 1 owner, 2 pages, 2 values, fair | `TypeOK`, `NothingAbandoned`, `ImplementsAtomicDisk`, `CallsReturn`, `DestructorReturns` | 104k |
| `BPlusTree` | 6 keys, leaves of 2, internal nodes of 3, 10 pages | `TypeOK`, `LeavesChained`, `TreeShaped`, `SeparatorsDistinct`, `InternalsFilled`, `LeavesWithinMax`, `ImplementsIndexMap` | 50k |
| `IndexIterator` | 5 keys, 2 values, leaves of 3, internal nodes of 3, 6 pages, one iterator | `IteratorTypeOK`, `ImplementsIndexCursor` | 145k |
| `Join` | every left table of up to 4 rows and right table of up to 2, 2 column values, block sizes 0 to 2, 2 to 5 frames, fair | `TypeOK`, `PairsOnce`, `JoinComplete`, `NeverRefused`, `JoinReturns` | 253k |

Five further runs each show one statement of the repository that is not true of
the code:

| Run | Property | What happens |
|---|---|---|
| `PoolGuardRace` | `GuardsMatch` | a frame is evicted and reused between a page's lookup and its pin: the guard is on another page's frame |
| `PoolFlushStuck` | `FlushReturns` | a flush waits for a frame under `bpm_latch_`, the holder of the frame waits for `bpm_latch_` |
| `ArcTarget` | `TargetInRange` | the target is decremented below zero and wraps |
| `TreeNodeOverflow` | `WithinMax` | `key_update` leads to a merge of nodes that needed none; the result exceeds `max_size_` |
| `IteratorGap` | `OnEntryOrEnd` | `Begin(key)` stops behind the last entry of a leaf although the next key is in the next leaf: it is at no entry and not at the end |

The window that `PoolGuardRace` shows has a second consequence. If the frame is
evicted after the access was recorded and before the pin, `SetEvictable` throws
out of the guard's constructor after the pin was counted, and the pin leaks:
`PinFindsFrame` does not hold of `BufferPool` either. Both hold of `TreePool`.

**Where the tests say otherwise.** Three comments of
`tests/buffer_pool_manager_test.cpp` (lines 11, 327 and 650) say that a page which was
evicted reads as zeroes when it is fetched again. `ImplementsPageStore`, which passes and is
proved, says the opposite: such a page reads as it was last written. The code agrees with the
property, since a dirty victim is written back before its frame is reset
(`buffer_pool_manager.cpp`, lines 73 to 80 and 124 to 131, as `FILES_OVERVIEW.md:151`
has it), and what the comments describe is `WrittenBack_Never`, the mutant that the property
catches. The comments are out of date; the test around line 327 skips a page that is
empty and compares any other, so it passes either way.

**What `operator*` does not give.** The comment in it says "Return references to the key
and value stored in the leaf page" (`index_iterator.cpp:33`), and so they are when it
returns. But the leaf is no longer pinned, and even with no writer about a fetch
can give its frame to another page before the caller has read: the behaviour
`DerefTest`, `Displaced`, `DerefKey` of `IndexIterator`, in which the key that is read is
`Unknown`. Beside writers the caller can read the key of one entry and the RID of another.
`IndexCursor` calls such a loan void and promises nothing for it.

**Why the bounds are enough.** Two threads are what each race needs, and one
frame fewer than pages makes every fetch of another page an eviction. Three
frames in `ArcReplacer` let both lists hold two frames; three ghosts let both
ghost lists be non-empty with a ratio above one, and `SizeMod = 8` keeps the
wrapped target different from every legal one. Six keys with nodes of two and
three give three levels, internal nodes that lend, borrow and merge, and a root
that grows and gives way; leaves of three in `IndexIterator` are the odd capacity,
which leaves a new leaf one entry short of its minimum. There the keys have two RIDs in
turn (`NamedSpec`; the tests, too, give each key the RID named after it), because with
one RID a key that is read with the RID of the next entry could not be told from a true
pair. Ten pages hold the largest tree that arises (six, in `IndexIterator`), and an
insert is only started when pages for all its splits are left (`RoomFor`).
`Join` runs over all small tables, so every placement of the page boundaries is
there: blocks that end on a boundary, within a page and at the end of the table.
Two to five frames are one fewer than the smallest block needs up to as many as
the largest does.
`PageBound`, `GuardLimit`, `GhostBound` and `NPages` are the bounds of the models;
each is a CONSTANT and appears in a guard.

**Deadlock.** It is checked in the runs of `ArcReplacer`,
`TreePool`, `BPlusTree` and `IndexIterator`. It is not checked in `BufferPool`, where threads with two
guards may ask for each other's pages (a client that does so is stuck, which is
not the pool's doing; the flush's own part in such a deadlock is
`PoolFlushStuck`), in `DiskScheduler`, which stops once it is destroyed, and in
`Join`, which stops when the call has returned.

**Fairness.** Weak fairness per thread on the steps of a call under way
(`Proceed`) and on dropping a guard it holds: threads are scheduled by the
operating system and a mutex that is free is taken by somebody; a guard is a
local variable that goes out of scope. Nothing obliges a thread to start a call.
The worker of `DiskScheduler` runs (`Work`), each client goes on inside a call, the
owner's join returns. Weak fairness is enough for the `rwlatch_` in `TreePool`
because only one thread at a time is beyond the header; a starved writer of
the header is not excluded, and `FetchUnderHeaderReturns` is about the pages
after it. The join is one thread that waits for nobody in the model: `JoinReturns`
assumes `WF_vars(Next)`.

## 4. The proofs

Each `...Proofs` module defines an inductive invariant, proves one lemma per
action, and derives its theorems from `Init => IInv` and
`IInv /\ [Next]_vars => IInv'`. A theorem holds for every value of the constants
that satisfies the assumptions named.

### ArcReplacerProofs

From `FramesAssumption` (finitely many frames, no more than `replacer_size_`: the
pool constructs the replacer so):

* `ListsAlwaysMatchMap`, `CountAlwaysMatches`, `NeverHangsEver`: the invariants
  `ListsMatchMap`, `CountMatches` and `NeverHangs` hold in every behaviour;
* `ArcImplementsReplacer`: `Spec => R!Spec`, the refinement of `Replacer`.

The inductive invariant `IInv` is `LiveType /\ ListsMatchMap /\ CountMatches /\
NeverHangs`. None of its parts is inductive alone: the count is kept only if the
victim was really in the list and evictable, which needs the lists and the map
to agree; the lists are kept only if a new frame is in neither list. The ghost
lists take no part, so the theorems hold whatever pages are reported.

`GhostInvariance`, and from it `TypeCorrect` and `GhostsAlwaysListed`, are about the
other half of the state. `GhostInv` is kept on top of `IInv`: an eviction lists the page
of its victim as a ghost of the victim's status, and a ghost hit takes the page
out of its list *and* out of the map (`PurgedList`: removal leaves the other pages
listed). That no hit divides by zero is the lemma `TargetIsSize`: the list whose
length is the divisor holds the page that was hit.

The proof has one lemma per operation, each of which shows that the step keeps
`IInv` *and* is a step of the contract. They rest on facts about the operators:
`WithoutList` and `PushedList` (removal from and insertion into a list without
repetition), `LastPosition` and `OldestIsEvictable` (the scan from the back finds
an evictable frame; by well-founded induction, whose theorem for relations needs
no operator parameter), `NothingToEvictMeans` (the early return is taken exactly
when nothing is evictable), and the library's theorems on cardinality.

### PoolProofs: the pool

From `PoolAssumption` (finitely many threads and frames) and for threads that do
what they like within the client's two rules:

* `PoolTypeCorrect`, `TableAlwaysBijection`, `PinsAlwaysCoverGuards`,
  `EvictsOnlyUnpinned`: the invariants of the run;
* `GuardedFramesAlwaysStay`, `GuardedDataAlwaysStays`: the action properties.

`IInv` adds to the invariants what makes them inductive. A frame is given away if
it is free or evictable, so the proof must know that nobody relies on it:
`OnlyUnpinnedEvictable` gives a pin count of zero, `PinsCounted` turns that into
"no guard and no half-made guard" (lemma `GivenAwayUnused`, which everything
rests on), and `FreeUnused` says the same of free frames. `CallsOK` keeps a
thread's request apart from the guards it has, so that pins are counted once.
`LatchesExclusive` is what `CanLatch` establishes, needed for the data; `FlushOK`
ties `bpmLatch` to the one flush under way. `PinsCounted` is an inequality, because
a constructor that throws leaks a pin.

### PoolProofs: under the discipline

From the same assumptions and the discipline in `TreeNext`:

* `TreeGuardsMatch`, `TreePinsFindFrame`, `TreePinsExact`, `TreeLosesNoFrame`,
  `TreeCleanMatchesDisk`: what the pool alone does not have;
* `TreeImplementsPageStore`: `TreeSpec => Store!Spec`.

`TInv` adds `CallsMatch` (the frame a lookup found still holds the page),
`FetchesUnderHeader` and `Recorded`. The heart is `WindowSafe`: when a thread gives a
frame away, no other thread is between the lookup of that frame and its pin.
If the evictor fetches the header, the header is not cached, so nobody guards it
and everybody else who is fetching fetches the header too, which no frame
holds. Otherwise the evictor has the header's write guard; another thread that
fetches a further page would need the same guard, and one that fetches the
header has looked up a frame the evictor has pinned.

### DiskSchedulerProofs

From `SchedulerAssumption` and `StopAssumption` (the `nullopt` is no request):
`SchedulerTypeCorrect`, `NothingEverAbandoned`, and
`SchedulerImplementsAtomicDisk`: `Spec => Disk!Spec`. `IInv` says that a request is in
exactly one place between its call and its answer (`QueueOK`, `ServingOK`,
`CallersServed`) and that the `nullopt` is behind all of them (`StopOK`): only then
is the worker's `done` the end of all work, and only then does `Serve` work on the
frame its owner waits for.

### JoinProofs

From `TablesAssumption` and `SizesAssumption`: `JoinStaysInTables`, `PairsFoundOnce`,
`JoinFindsAll` and `FramesSuffice`, for all tables, block sizes and numbers of
frames. The block is always a run of consecutive rows (`BlockIsRun`), and
`ResultsExact` says that the result is the set of matching pairs among those
`Decided` so far: everything before the block, and of the block what the two
inner loops have passed. `PagesCounted` bounds the guards by the page count.

### BPlusTreeShape and BPlusTreeProofs

From `TreeAssumption` (leaves of two or more entries, internal nodes of three or
more children) and `KeysAssumption` (the keys lie between a first and a last: an
`IntegerKey` is an `int`), for any keys, node sizes and number of pages:

* `TypeCorrect`, `LeavesStayChained`, `SeparatorsStayDistinct`: `TypeOK`,
  `LeavesChained` and `SeparatorsDistinct` hold in every state, in the middle of an
  operation, too;
* `NodesStayFilled`, `TreeStaysShaped`: `InternalsFilled` and `TreeShaped` hold between
  operations;
* `LeavesStayWithinMax`: `LeavesWithinMax`, no leaf ever has more than `leaf_max_size_`
  entries (for internal nodes the like is false, see `TreeNodeOverflow`);
* `TreeInvariant`: the inductive invariant `TreeInv` they follow from;
* `IndexMapImplemented`: `Spec => ImplementsIndexMap`, the refinement of `IndexMap`.

`TreeInv` says of each state of `fix` what the table of nodes then is. The properties
of the run are far from inductive: that a merge keeps the tree in shape depends on
which keys each node may hold. So the invariant speaks of three functions of
the pages the program does not keep but could: `lo` and `hi`, the bounds of the
keys a node answers for, and `ht`, its height above the leaves. `Core` says that
they exist and fit the table:

* `Sorted`, `Linked`, `Rooted`: the keys of a node ascend between its bounds; the
  keys of a parent are the bounds of its children, which are one level lower; every node but
  the root is somebody's child;
* `Apart`: the nodes of one level answer for disjoint keys; hence a node is the
  child of one node only (`OneParent`) and two nodes with a common key are the
  same (`SameNode`);
* `Nested`: a separator lies strictly inside no range on a lower level, which is why
  it is in one node only and `key_update` finds it;
* `Chain`: the link of a leaf leads to the leaf whose range begins where its own ends.

In between, `Growing` adds that one node beside `left` is pending (it has no parent
yet, and `top` is `hi` with `left` answering for both), that the path leads to `left`, and
that free pages are left for every level above (`RoomFor` in the model); `Shrinking`
that one internal node may lack a child. `Filled` gives the minimum sizes.

The recursive functions are reasoned about without induction over data.
`SetInduction` is induction on a set of naturals, which takes no operator
parameter; `RankRecursion` derives from it that a function defined by recursion
on a rank exists. From there `SearchFinds` shows that the binary search
(`KeyIndex`) returns the place of the key for *every* ascending sequence, and
`PathFound` that a descent (`Path`) ends, at the leaf that answers for the key.
For this `KeyIndex` is a function of one argument, a window, `Path` tests the node before
it descends, and `Purged` is a recursive function rather than the library's
`Remove`: a comprehension over `SelectSeq` cannot be expanded by the provers. TLC
checks the modules in this form.

`BPlusTreeShape` then proves for each *change of a table* that it keeps `Core`: an entry
goes into or out of a leaf (`LeafChanged`), a node is cut in two (`NodeCut`), a pending node
is adopted (`ChildAdopted`), a child is released (`ChildReleased`), two neighbours
are merged (`NodesMerged`). A redistribution is taken apart into these: release, merge,
cut at another key, adopt (`PairRecut`), so that the six kinds of refilling
need no argument of their own. `BPlusTreeProofs` has one lemma `Step...` per action,
which says which changes the action is made of, `TreeInvStep`, and one lemma per
property that derives it from the invariant; `FewKids` bounds the children of a
node by the number of pages, which the statement of `TreeShaped` relies on.

`LeavesWithinMax` is inductive only beside `TreeInv`. `KeepsLeaves(t, t2)` says of a
step that leaves that fit are followed by leaves that fit, and no leaf becomes an
internal node; `LeavesStep` shows it for each action. Only `Insert` looks at the capacity.
In `Remove` the sizes must do: a leaf that is refilled has fewer entries than its
minimum, a neighbour that lends has more than its own, and one that is merged with
it has at most its minimum, so what is merged has at most twice the minimum
minus one, which fits whether the capacity is odd or even.

The refinement maps a tree to what its leaves store: `Content` is `MapOf(Stored(node))`.
Its proof never looks at the order of the leaves, only at the *set* `Stored(t)` of
entries in a table of nodes, and each lemma `Step...` says what the action does to it:

* an insertion `Gains` the new entry, a removal `Loses` those with the key
  (`Loses` and the refilling of the leaf are one action, as they are in `Remove`);
* `GrowParent`, `GrowRoot` and the three `Shrink` actions leave the set as it was: a page
  that is no leaf stores nothing (`NotALeaf`), a cut or a redistribution divides the
  same entries in another way (`SharedStored`), a merge moves them (`MergedStored`).

The invariant is needed twice. Two entries with one key would make `MapOf` a choice;
`AlwaysUnique` excludes them, since the leaves answer for disjoint ranges and each is in
ascending order. And an answer depends on one leaf only, the one a descent ends at:
`SearchAnswers` says that a key without an entry there has none anywhere. So
`Insert` really refuses a key exactly when it is in the index, and `GetValue`
finds each entry, in the middle of whatever splits and merges came before. That
`IsEmpty` may look at the root alone is `EmptyAnswers`: a tree with a root has an
entry, because leaves are never empty.

### IndexIteratorProofs

From the assumptions of the tree and `IteratorAssumption` (`Gone` is no page, `NoIter`
no iterator), for any keys, node sizes and number of pages:

* `IteratorTypeCorrect`: `IteratorTypeOK`, the iterator is on a leaf, or on a page that
  was one, with an index at most two past the capacity of a leaf;
* `IteratorInvariant`: the inductive invariant `IterInv` this follows from;
* `IndexCursorImplemented`: `IterSpec => ImplementsIndexCursor`, the refinement of
  `IndexCursor`.

`IterInv` joins four things. `TreeInv` and `LeavesFit` are the tree's; without the second
an index has no bound, because `operator++` may walk past the end of a leaf that is not
the last. `IterTypes` is the iterator's half. `Calm` is about an iterator that the
tree has *not* changed under: no operation of the tree is under way, the iterator
is on a leaf (or it is the default one and there is no tree), and what the first half
of a call has tested still holds in its second half. `Firm` and `Unlent` are about the
references: while `steady` the slot is an entry and the key that was read is its key,
though the map may have changed elsewhere; and each loan starts afresh. `Calm`
survives the steps of the tree by `QuietSame`: an operation that starts from a tree at rest and does not change
the map changes no node. Hence a step that changes the map sets `adrift`, and one that does not
leaves the position where it was (`CursorTree`).

`FirstLeaf` and `LastLeaf` descend by recursion; `DownDefined` and `DownEnds` show with the
heights `ht` that the descent exists and ends at a leaf, and `OuterLeaves` that this is
the leaf with the least, or the greatest, bound.

The heart of the refinement is the order. `InLeaf` says that the keys of the map
between the bounds of a leaf are the keys in that leaf, `AfterLeaf` that all others above
are at or behind the first entry of the leaf its link leads to, and `OnlyLast` that a leaf
without a link is the one `End` finds. From these, `BoundFound` shows that a lower bound
in the right leaf is the first key from there on, *or* is stray behind the last entry of a
leaf that others follow, which is the case `IteratorGap` exhibits; and `AfterFound` that
`operator++` goes from each key to the next one of the map, within a leaf, across a link, or
to the end. `CursorSteps` says the steps of the contract in terms of `Content` and `Position`,
and one lemma `Cursor...` per group of calls matches the model's steps with them. `Loans`
ties the loan to `steady`. What the theorem says of a reading is therefore about
undisturbed leaves only: a torn pair, the key of one entry with the RID of
another, or bytes of another page are steps of the model, which the contract allows
for a void loan and for no other.

### Left to TLC

All liveness (`FetchUnderHeaderReturns`, `CallsReturn`, `DestructorReturns`, `JoinReturns`):
fairness and ENABLED are outside the prover's temporal fragment. Every other property
of the passing runs is a theorem.

## 5. What is not modelled

* `DumpTree`, `Print` and the demo, which only print; `Redistribute`,
  `DeallocatePage`, `DeletePage`, which nothing calls or defines; row layouts and key
  comparison.
* In `BPlusTree` every fetch succeeds. A fetch refused in the middle of a split
  leaves the tree half changed; see the hazards.
* `ShrinkRoot` leaves out the test for a root without children
  (`b_plus_tree.cpp:606`): a merge takes one child of a node that has two or more.
* A change of the tree writes the bytes of a leaf in one step. A caller of `operator*`
  holds no latch and can also read in the middle of a shift, or half of a RID; after the
  first change of the leaf `Unknown` stands for whatever it finds. The caller
  reads the key once and then the RID once, before its next call of the iterator; if it
  keeps the references for longer, nothing is promised of them.
* The iterator that `Begin` returns for an empty tree has a null `bpm_`; it can be
  compared, and is given no `*`, `++` or `IsEnd` (`Usable`).
* Record ids follow their keys inside an entry: the two arrays of a leaf move
  in step.
* `IndexIterator` takes each guard of the iterator to be on the page it names.
  Beside writers that is not certain, because the iterator reads without the header:
  `PoolGuardRace` is about such readers.
* In `Join` nobody writes to the tables during the call, and no other thread takes
  frames: `FrameCounts` is the number that is left to the join.
* The ghost lists grow without limit; the model caps them at `GhostBound`.

## 6. Plan

Done: sections 2 to 4. What could be added:

1. Fetches that may be refused in the middle of `Insert` and `Remove`: how many
   frames one operation needs at each height.
2. The pool over the real `ArcReplacer` instead of its contract.
3. A second iterator, and a bound on what an iterator that is adrift may skip or
   repeat: the contract says only what it may read while its leaf stays as it was.

# GC United in TLA+

TLA+ models, model checks and proofs for the garbage collectors of this
repository: the memory they share, the mutator that drives them, and each
collector's own algorithm.

The repository is a course. Its README says that modules 1 to 8 are left
incomplete (`todo!()`) and wrong on purpose, and that the tests and the module
notes are their specification; `gc-core` "should be correct". The models follow
the code as it is. Where the code contradicts its notes or tests, a run that
expects a violation shows it (section 5) or section 8 describes it. A `todo!()` body is modelled by its
comment and its callers, and marked external in the map: as shipped, the program
panics there, so what is checked is the rest of the module around a body that
does what its comment asks.

## 1. Inventory

| part | code | state | operations |
|---|---|---|---|
| heap arena | `gc-core/src/heap.rs` | bytes; object headers (size, slots, flags, colour, forward, count) | emplace, emplace_block, poison, relocate, walk, children |
| free-list space | `gc-core/src/space.rs` | free list, sorted flag, bump pointer, bytes in use | alloc, free, coalesce, free_blocks (sorts) |
| root set | `gc-core/src/roots.rs` | shadow stack, named globals | push, set, unwind, set_global, remove_global, iter, for_each_mut |
| mutator | `gc-core/src/mutator.rs`, `collector.rs` | a collector and a shadow model | try_alloc, store, load, dup, assign, unwind, globals, collect; the `Collector` hooks |
| shadow model | `gc-core/src/model.rs` | identities, slots, roots | the same operations, reachable, forget_unreachable |
| verifier | `gc-core/src/verify.rs` | none | compares heap and shadow model |
| statistics | `gc-core/src/stats.rs` | counters | no decision depends on them |
| 1 allocator | `gc-mod01` | free list, bump, used, policy | alloc, free, coalesce_all |
| 2 reference counting | `gc-mod02` | counts, worklist | retain, release, write_field, hooks |
| 3 cycle collection | `gc-mod03` | counts, colours, candidate buffer | possible_root, trial deletion in four passes |
| 4 mark-sweep | `gc-mod04` | mark bits, threshold, thrashing counter | mark, sweep, alloc, collect |
| 5 mark-compact | `gc-mod05` | mark bits, forwarding addresses | mark, forward, update, move |
| 6 semi-space | `gc-mod06` | two halves, scan and free pointers, forwarding | copy_object, scan, flip |
| 7 generational | `gc-mod07` | nursery, old space, remembered set, ages | minor, promote, major, barrier |
| 8 incremental | `gc-mod08` | colours, grey worklist, phase, threshold | shade, mark_step, finish, sweep, barrier |
| harness, workloads, benchmarks | `gc-harness`, `gc-workloads`, `*/bin` | none of their own | sequences of mutator operations, timing |

Everything is one thread. Parts interact by calls: the mutator changes the root
set and calls the collector's hooks; the collector reads the root set, the heap's
headers and slots, and allocates from the space; the shadow model is updated
beside the heap and knows nothing of collections. The difficulty is in sequences:
a graph rewritten between marking increments, headers that are stale after a merge
or a free, counts that must move in a certain order, per-cycle state that must be
reset, boundaries of memory, and algorithms that end only because of one test.

What makes each part correct:

- arena and space: the walk from 0 to bump meets every block; the list agrees with
  it; no object overlaps another or moves; coalescing exposes every hole.
- every collector: it implements the shadow model. Collections are invisible, and
  a reachable object's slots change only by the program's stores.
- reference counting: a count is the number of references, and never falls below it in
  the middle of an operation; what no root leads to is freed, cycles excepted.
- cycle collection: trial deletion restores the counts of what lives; garbage can
  always be found from the candidates.
- tracing collectors: what survives is what the roots reach, again in the next
  collection; failure to allocate is not permanent.
- moving collectors: each object has one new address, and every reference is
  rewritten to it.
- verifier: it reports a violation exactly if the heap is not the model's graph.
- generational: every old-to-young reference is in the remembered set.
- incremental: no black object refers to a white one; every cycle ends.

PROJECT.json lists the hazards, each at its line.

## 2. Modules

| module | models |
|---|---|
| `Arena` | headers, walk, splitting, poisoning, merging (`heap.rs` and what allocators do with it) |
| `FreeListSpace` | `space.rs` on `Arena` |
| `Allocator` | module 1 on `Arena` |
| `AbstractAllocator` | what both promise |
| `FreeListSpaceProofs` | theorems about `FreeListSpace` (its invariants, it implements `AbstractAllocator`, `coalesce` exposes every hole) and about `SizeArithmetic` |
| `MCFreeListSpace`, `MCAllocator` | refinement mappings and TLC instances |
| `ObjectGraph` | objects, references, roots, reachability |
| `Mutator` | `mutator.rs` and `roots.rs`, with the collector's hooks as parameters |
| `GraphModel` | the shadow model: what every collector must implement |
| `Lockstep` | the mutator over a heap whose addresses change: each operation on heap and model at once |
| `Verifier` | `verify.rs` on `Lockstep` |
| `RefCount` | module 2, on `Mutator` |
| `CycleCollector` | module 3, on `Mutator` |
| `MarkSweep` | module 4, on `Mutator` |
| `MarkCompact` | module 5, on `Verifier` |
| `SemiSpace` | module 6, on `Verifier` |
| `Generational` | module 7, on `Verifier` |
| `Incremental` | module 8, on `Mutator` |
| `SizeArithmetic` | sizes in 32 bits |
| `GraphProofs` | what all proofs about collectors share: lemmas on reachability, worklists and root operations; theorem: the verdict of `verify` is right; how lockstep operations keep heap and model alike |
| `RefCountProofs`, `MarkSweepProofs`, `IncrementalProofs`, `MarkCompactProofs`, `SemiSpaceProofs`, `GenerationalProofs` | theorems about modules 2, 4, 8, 5, 6 and 7 |

`MC*.cfg` are the TLC configurations; section 5 names the module each one runs.

### Arena, FreeListSpace, Allocator

A unit is ALIGN = HEADER_SIZE = 16 bytes, and every size is a multiple of it, so
the scaling loses nothing. `size` is the size word of the header at each address
(0 where the bytes are no header), `flagged` the headers with FLAG_FREE. The code
does not clear headers when it merges blocks or lowers the bump pointer; neither
does the model, so the theorems have to show that stale headers are never reached.
`live` is history: what the caller holds. Callers free only what they hold, which
`space.rs` debug-asserts and module 1 asserts.

`FreeListSpace` has one action per outcome of `alloc` (from the list, from virgin
memory, none), `Free`, `Coalesce` and the lazy sort. `coalesce` is described by its
result: runs of adjacent blocks become one block each, whatever their number.
`Allocator` differs in the discipline of its list: removal keeps the order, a split
goes to the end, a freed block goes where `partition_point` says. On a list out of
order the standard library leaves the result open, so the model takes any index
whose neighbours look right. The policy is a variable fixed at creation. The body of
`coalesce_all` is a `todo!()`. Its model takes from the comment that the runs are merged
completely, and from the tests, which call `validate()` after it, that the new list is in address
order; no property is about either.

### ObjectGraph, Mutator, GraphModel

An object is named by its address; all objects have `NumSlots` slots; scalar
payload is left out. `Mutator` defines what each operation of `mutator.rs` does to
the roots, and each collector conjoins what its hooks do. `GraphModel` is the same
mutator over the slots of what the program
can reach (`model.rs` after `forget_unreachable`). A collector implements it when
its heap, restricted to what the roots reach, changes as the model does. For the
collectors that do not move objects, identities and addresses coincide; an address
is handed out again only if the program cannot reach it.

### RefCount

`rc`, `refs` and `allocated` are the headers and slots; `pending` is the code's
worklist. One turn of `release`'s loop is one step; `dropped` (handles whose
`on_root_popped` is still to come) and `writing` (the rest of a `write_field`) are
the code's control state between turns, and the mutator runs only when all are
empty. A panic of `release`'s assertion ends the program (`panicked`). The children of a dead
object are read after `FreeListSpace::free` has emptied its header, so, as the code
stands, `pending` never holds more than one handle and nothing cascades.
`leaked` is history: the references of the dead that were never released. A store of the value a field holds already is one of the stores; in
`Spec` a root protects the value, as it does whatever a program stores through the mutator. `DirectSpec`
adds `StoreBack`, a call of `write_field` itself with the field's own value, as
`tests/refcount.rs:105` makes it. Objects have one size: an allocation fails only when no address is free, and the coalescing
that `alloc` and `collect` do is left to `FreeListSpace`, as are the failing
allocation and `collect`, which change nothing here.

### Incremental

`colour`, `grey`, `phase`, `threshold` are the code's; `pc`, `then` and `budget` are
its control state while an allocation or a collection runs: each turn of
`mark_step` is a step. `mark_step` (external) takes any grey object, since its
comment does not say which; for the same reason the order in which shading appends
to the worklist does not matter and is fixed. `stored` (the slots stored to while the cycle marks) and `garbage` are
history; `Unstored` is the graph without those slots.
DRAIN_BUDGET is left out: `finish_marking` repeats until nothing is grey, so how many objects a
call takes changes nothing. An explicit `start_cycle`, `sweep` or `mark_step` by a
test is not a mutator operation and is not modelled. When an object the program can
reach has been freed, the program is not followed further: it reads poison, which
the debug assertions of `heap.rs` reject. The passing run of
this module therefore covers every behaviour up to such a loss, and
`incremental_loss` shows that the loss happens.

### MarkSweep

`marked`, `worklist`, `threshold`, `thrashing` are the code's; `pc`, `then`, `worth` and
`before` hold the control state and the locals of `alloc` and `collect`, which are split
into steps (mark one object, sweep, take memory, retry, fail). `mark_from_roots`
(external) starts from the code's `root_set`, the shadow stack, and does not scan an object whose
mark is set: its comment says an object is scanned once. The walk of `sweep` is
described by its result, the allocated objects without a mark, since `FreeListSpace`
shows that the walk meets each block; freeing clears an object's mark, surviving
does not. Objects have one size, so bytes in use are a count and fragmentation and
coalescing are left to `FreeListSpace`. `stale` is history: what was marked already when the
collection began, which marking does not scan (`Fresh` is the graph without its fields). As in `Incremental`,
the program is not followed beyond the loss of an object that it can reach.

### Lockstep, Verifier

Where a collector moves objects an address says nothing about which object it
holds. `Lockstep` therefore keeps what `mutator.rs` keeps: the identity stamped into
every object's payload (`stamp`), which travels with the bytes, and the shadow model
beside the heap (`mStack`, `mGlobals`, `mRefs`, an instance of `GraphModel`). Each
mutator operation is the conjunction of its heap half and its model half with the
same operands; a collection touches the heap alone. The code numbers identities on
forever; the model takes again one that the program cannot reach, which it can no
longer tell apart.

`Verifier` is the report of `verify` as a function of the two graphs: the pairs of
handle and identity the walk starts from, the handles it takes, the identities it
expects at each, and the kinds of violation it records. `Faithful` says independently what
a report without violations ought to mean. A collector whose collection ends in a heap
that is not `Faithful` is `lost` and the program is followed no further.

### CycleCollector

`rc`, `colour`, `buffered`, `candidates`, `pending` are the headers, buffer and worklist
of the code. Each turn of `release`, `mark_gray`, `scan`, `scan_black` and each
step to the next candidate is a step; `pc` names the pass, and `todo`, `cycleRoots`,
`work`, `blackWork` are its lists. `mark_gray` and `collect_white` (external) do what
their comments and `scan` require. A freed address may still be listed, and may be handed
out again while it is. `missed` and `passedOver` are history: the references that
`scan_black` did not count back because the target was black already, and the candidates that
`collect_cycles` dropped from the list without clearing their flag. The collector
has no globals' hook of its own beyond retain and release.

### MarkCompact

`marked` and `forward` are the headers; `top`, `threshold`, `thrashing` the fields. A turn
of marking, an object of the update pass, the roots, and an object of the move
pass are steps. `compute_forwarding` and `move_objects` (external) follow their comments:
bottom up, mark and forwarding address cleared. `update_references` is the code's,
with its test that passes over an object that stays where it is. `still` is history:
those objects. What is above `top` after a collection is blank, since `emplace`
overwrites it before it is read.

### SemiSpace

`current` (0 or `Half`), `free`, `scan` are the code's; `idle` is the other half. A root copied, a field
replaced and an advance of `scan` are steps, so what the properties say holds half-way through
a collection too. `copy_object` is the code's: it leaves a forwarding note and
never looks for one. `scan_to_space` (external) follows its comment. The assertion
on to-space and the underflow of `before_objects - survivors` end the program
(`panicked`); the second only in a debug build, so going on is possible too.

### Generational

Addresses up to `OldSize` are the old generation, those above it the nursery, whose
size is fixed at the start from `NurserySizes`. Small objects take one unit, an object too large
for the nursery one unit more than it has. `old` gathers what `old_alloc` and `sweep_old`
work on: size words, FLAG_FREE, the free list, `old_bump`, `old_used`. `Reserved` is
one call of `old_alloc`, including the case where the caller never writes a header at
the place it got; `alloc` of a large object is two steps, because it calls it twice.
Each promotion is a step. `evacuate_nursery` (external) follows its comment: roots, then the
remembered set, then the worklist. Marking of the old generation is one step, the loop being
that of `MarkSweep`. The program stops at a promotion that finds no room (`full`), at
a sweep that meets no header (`broken`), and when a reachable object was swept (`lost`).
`wasted` is history: a reservation was forgotten since the last sweep.
FLAG_BUFFERED, which only `is_remembered` reads, is left out.

### SizeArithmetic

`align_up`, `size_for`, the room test of the bump pointer, the division of the
generational heap and its occupancy test, as a release build computes them in `u32`.
It has no state and no run; section 6 says what is proved. The state machines count
in units of 16 bytes and rely on it.

## 3. Properties

Stated with the code they are about in the modules; in short:

- `FreeListSpace`: `HeapWalkable`, `FreeListAgrees` (the tiling and the list parts of module 1's
  `validate()`, for all histories; its comparison of `used` is not stated);
  `SortedIsTrue`, the cached flag; `CoalesceExposesHoles`: after coalescing a request fails only
  if no hole can hold it.
- both allocators: `ImplementsAllocator`: no overlap, no move, no resize.
- `RefCount`: `CountsCoverReferences` (and so no count goes below zero); `OnlyTheDeadLeak`: a
  count is the number of references, up to `leaked`, at every step of an operation;
  `ImplementsModel`. Under `DirectSpec` the code breaks `ReachableIsAllocated`.
- `CycleCollector`: `CountsAreExact`: after a collection every count is the number of
  references, up to `missed`; `OnlyPassedOverEscape`: garbage hangs from a candidate that the next
  collection examines, or from one that an earlier collection passed over;
  `OnlyMissedCountsLose`: nothing reachable is freed unless a count is short;
  `OperationsReturn`.
- `MarkSweep`: `OnlyMarksAndGlobalsMislead`, of every collection: what survives out of the program's reach
  had an old mark, and what the stack leads to without passing through such an object
  survives; `OperationsReturn`.
- `MarkCompact`: `CompactionIsExact`: below the new top lies each reachable object
  once, with clean headers; `OnlyUnmovedGoStale`: what a collection can leave wrong
  are the fields of objects that did not move, and nothing else; `VerdictIsRight`:
  `verify` accepts exactly the heaps that are the model's graph.
- `SemiSpace`: `PathsAlwaysAgree`, at every step of a collection; `ScannedIsComplete`,
  Cheney's invariant; `OnlySharingIsLost`: a collection goes wrong only over an object
  with two references, and then by duplicating it; `OperationsReturn`.
- `Generational`: `EveryEdgeIsRemembered`; `GraphIsKept`, at every step;
  `OldIsAccountedFor`: blocks, free list and `old_used` agree after any mix of splits,
  promotions and sweeps; `OnlyReservationsCorrupt`: only the forgotten
  reservation corrupts the old generation; `OldUsedIsCommitted`, which the code breaks.
- `Incremental`: `IdleIsWhite`, `OnlyStoresBreakInvariant`, `OldGarbageStaysWhite`
  (floating garbage lasts one cycle), `OnlyStoredEdgesLose` (a sweep frees nothing that the
  roots of that moment reach, but behind a slot stored to in the cycle),
  `OperationsReturn`, `CyclesEnd`; and `NothingReachableIsFreed`, which the code breaks.

Where the code is known to go wrong, a property of the form "only ... goes wrong" says that
this is all that does: it would fail if any other step of the module lost an object.

## 4. Fairness

There is one thread, and an operation in progress runs to its end. So weak fairness
is assumed of the steps inside an operation (`Collector` in `Incremental`, `MarkSweep`, `CycleCollector` and `SemiSpace`) and of nothing the program chooses to do.
`CyclesEnd` has the program's continued allocation as its hypothesis, because marking advances only
there. `MarkCompact` and `Generational` are checked for safety only: their loops
are bounded walks and the marking loop of `MarkSweep`, and their specifications assume no fairness.
Nor does `RefCount`'s: as the code stands its loop has at most one handle to take.

## 5. Runs

| run | module, configuration | shows | bounds |
|---|---|---|---|
| `free_list_space` | `MCFreeListSpace` | section 3; refinement of `AbstractAllocator` | 6 units, sizes 1 to 3 |
| `allocator` | `MCAllocator` | section 3; refinement for module 1, both policies | 7 units, sizes 1 to 3 |
| `refcount` | `RefCount`, `MCRefCount.cfg` | section 3; refinement of `GraphModel` | 3 objects, 1 slot, 1 global, stack 2, count 3 |
| `refcount_store_back` | `RefCount`, `MCRefCountStoreBack.cfg` | violation: `x.f = x.f` frees what it stores | as `refcount`, with `DirectSpec` |
| `cycle_collector` | `CycleCollector`, `MCCycleCollector.cfg` | section 3 | 2 objects, 2 slots, 1 global, stack 2, count 3, 2 candidates, 1 missed count |
| `mark_sweep` | `MarkSweep`, `MCMarkSweep.cfg` | section 3 | 3 objects, 1 slot, 1 global, stack 3, thrash limit 2 |
| `mark_compact` | `MarkCompact`, `MCMarkCompact.cfg` | section 3, and the verifier | 3 objects, 1 slot, 1 global, stack 2, thrash limit 1 |
| `semi_space` | `SemiSpace`, `MCSemiSpace.cfg` | section 3 | halves of 2 objects, 2 slots, 1 global, stack 2 |
| `generational` | `Generational`, `MCGenerational.cfg` | section 3 | old generation 4, nursery 1 or 2, 2 identities, 1 slot, stack 2 |
| `generational_reservation` | `Generational`, `MCGenerationalReserved.cfg` | violation: a block is reserved and forgotten | old generation 6, nursery 2 |
| `incremental` | `Incremental`, `MCIncremental.cfg` | section 3 | 3 objects, 1 slot, 1 global, stack 2, budget 1 |
| `incremental_loss` | `Incremental`, `MCIncrementalLoss.cfg` | violation: a reachable object is swept | as `incremental` |

Why the bounds are enough. Six units with sizes 1 to 3 allow splits with and without
remainder, three adjacent free blocks, a run at the bump pointer and one below it,
holes that only merging makes large enough, and exhaustion; the theorems do not depend
on them. Three objects with one slot give chains, shared targets, self-references, and
cycles of two and three; two stack entries and a global hold any two objects apart from
the third, which is what a lost object needs. A mark budget of 1 puts the program between any two
objects of the marker; with the threshold min(2, 3 div 2) = 1 a cycle starts at the
second allocation. The larger budget 8 of the code is a coarser interleaving of the same
steps. In `MarkSweep` the
first collection that an allocation starts meets a single object, because the threshold
begins at 1; an explicit collection of the empty heap raises it to the minimum of 2, and
from then on two linked objects exist before either is marked, and one or two with old marks beside new ones.
Every case of the pacing rule occurs: the minimum, twice what is live, and the
capacity. Its stack of 3, with a global, can hold every object in more than one place. A thrashing limit
of 2, where the code has 4, is reached by two fruitless collections: above one, only
the number of repetitions differs.

`MaxRc` limits what is stored, because leaked counts grow without bound: an object with
this count is not stored into a slot that does not name it yet. A store of a slot's own value is
never cut away. Three is two references from slots beside the root that every stored
value has. In `CycleCollector` two slots are needed for two references from one object to
another, one of the cases where `scan_black` and `mark_gray` differ; two objects then
give self-references, shared targets and cycles of two. `MaxCandidates` stops
allocation, not filing: with fewer than two entries listed an object is allocated, also at
an address that is listed still. `MaxMissed` stops the program when more than one count of an
object was not restored: after the first, damaged counts go through further operations and
collections, which is where they do harm.

In `SemiSpace` two slots and two places suffice for sharing between
roots, between fields and between both, for cycles, and for an overflow. In `MarkCompact` three
places let one object stay, one die and one slide. In `Generational` four old places
take two large blocks, a split with a remainder, promotions into a hole and at the
bump pointer, and a full generation; a nursery of 1 or 2 makes a large object 2 or 3
units. Two identities limit what the program keeps, and with it how often `alloc` is
taken, not how often places are reused. `MaxRemembered` bounds the entries between
two collections. Globals are left out: `for_each_mut` treats them as it treats the
slots of the stack, and `SemiSpace` and `MarkCompact` have one.
The run uses a `VIEW`: two states count as one if they differ only in objects that no
root, remembered entry or worklist entry leads to. No action reads such an
object before it writes it (`emplace`, `relocate`), and no property of the run is about one, so the two
have the same behaviours.

`MaxDepth` disables pushes (and allocation) at the limit of the stack; the code has no such limit.
Deadlock is checked for the allocators and `RefCount`. It is off in the other
modules, where the model stops after a loss or a panic.

Violations, each with the line it contradicts, are under "findings" in
PROJECT.json.

## 6. Proofs

`FreeListSpaceProofs` proves for every `Capacity` and every `Sizes`, from the
assumptions that capacity is a positive natural and sizes are positive naturals:

- `TypeCorrect`, `AlwaysWalkable`, `ListAgreesWithWalk`, `SortedFlagCorrect`: the
  invariants `TypeOK`, `HeapWalkable`, `FreeListAgrees`, `SortedIsTrue` of the run
  `free_list_space`.

The inductive invariant `IInv` adds `Predecessors` to these four: every block but the
one at 0 has a block that ends where it begins. Tiling alone says where blocks end; a
split or a merge needs to know that nothing else starts inside the range it
rewrites and that the neighbour below still meets it. Freeing exchanges an object
for a listed block, so tiling is kept. Coalescing is the hard case: lemmas
show that every listed block lies in exactly one run, that the run's end exists, and
that no object and no other run begins inside it; then the merged blocks tile the
same range. The existence of a run's end and of the first fitting index rest on a
least-element lemma derived from the well-foundedness of strict inclusion of finite
sets.

Two more theorems go on from `IInv`, under the same assumptions:

- `SpaceImplementsAllocator`: `Spec => ImplementsAllocator`. The mapping takes the
  abstract objects to the live blocks with their sizes. Each action maps to one step: an
  allocation is `Allocate` at an address outside every live block (the block it was cut
  from had lain between them, or it starts at the bump pointer, where all have ended),
  `Free` is `Release`, and `Coalesce`, `SortFree` and a failed allocation leave the
  objects as they are.
- `CoalescingExposes`: `Spec => CoalesceExposesHoles`. A hole that starts below the new
  bump pointer starts in some block (the blocks cover the arena, by the least distance
  back to a block's start); the block is free, so it belongs to a run, which does not
  reach the bump pointer, so it ends at a live object, beyond the hole's end; `Coalesce`
  makes that run one block. A hole that starts above is served from virgin memory.

`SizeArithmetic` has no state. It defines the 32-bit computations of `space.rs`,
`heap.rs` and module 7 with their wrap-around, and the end of `FreeListSpaceProofs`
proves for every input in range where they are exact:

- `SizeForHolds`: `size_for` is large enough for the object exactly if the sum of
  header, slots and payload is at most `2^32 - 16`.
- `SplitsLeaveHeaders`: what a split of an aligned block leaves is aligned and at least a
  header long.
- `BumpTestHolds`: for every capacity, bump pointer and request in 32 bits the test
  `bump + need <= capacity` accepts exactly the requests that fit and those whose sum wraps round.
- `NurseryDivides`: a heap of at least 64 bytes is divided into two non-empty parts at
  an aligned address.
- `OccupancyIsExact`: the occupancy test of module 7, a product in 32 bits, is exact for
  an old generation of up to `2^32 / 100` bytes.

These are the ranges the other modules rely on when they compute with unbounded
naturals.

### Reachability: GraphProofs

`Reachable(refs, from)` is computed in the modules as the code computes it: a function
over sets of seen objects that goes on until nothing is added. `ReachableIsLeast` proves
for every finite set of objects and every graph that its value is the least set that
holds `from` and is closed under `Children`. Such a function is a `CHOOSE` over functions
that satisfy an equation, so one must first be shown to exist: the function that maps a
set to its closure (the intersection of the closed sets that hold it) satisfies it. That every
function satisfying it has this value is shown by a least counterexample: the sets still
to be found are finite and ordered by strict inclusion. No induction over
data is used. The other lemmas follow from leastness: reachability grows with its
roots, ignores what it cannot reach, a store makes reachable at most the stored
value and what it reaches; and from one element of the worklist to the next, what
each marker has to visit is what it had, without the popped object and with its children.

### Reference counting: RefCountProofs

For any finite `Obj`, `Name`, any `NumSlots`, `MaxDepth`:

- `CountsAlwaysCover`: `Spec => []CountsCoverReferences`.
- `CascadesAreInvisible`: `Spec => ImplementsModel`, the shadow model.

`IInv` adds to `TypeOK` and `CountsCoverReferences` that an object with a count is
allocated (`RcLive`), and that during a `write_field` the roots keep the object written to and the
new value (`WriteIsRooted`): without the second a cascade started by the old value might
be thought to free the holder in the middle of the write. A count is the cardinality of
the set of places that hold the object, so the proof starts with what one changed place
does to a cardinality, for slots, sequences and sums. Every action then moves references
between five kinds of place (stack, globals, slots, `pending`, `dropped`). Refinement needs one
more idea: a reachable object has a reference that counts, hence a positive
count, hence memory, so what a cascade frees is outside `Reachable` and
`KeepReachable` hides the slots it clears.

### Marking: MarkSweepProofs, IncrementalProofs

`MarkSweepProofs`: `TypeCorrect` and `PreciseUpToOldMarks` (`Spec => OnlyMarksAndGlobalsMislead`), for the first
collection and every later one. `IInv` says of a marking in progress (`MarkingIsExact`) that
the stack's references, and those of what this collection has marked, are marked or on the
worklist, and that all of these are reachable from the stack or were marked before it
began (`stale`). With an empty worklist the marked set therefore contains the stack's references and is
closed in `Fresh`, the graph without the fields of `stale` objects, so by leastness it holds what the
stack reaches there; and what is marked and not reachable is `stale`. `RoomToPush` carries the test of the stack's
depth from the start of `alloc` to the push at its end, collection in between included.

`IncrementalProofs`: `TypeCorrect`, `IdleHeapIsWhite`, `CollectorKeepsInvariant`, `GarbageStaysWhite`,
`OnlyStoresLose`, for every interleaving of stores with marking. What makes them inductive is
`GarbageIsOutOfReach`: from the roots, from the worklist and from every object that was
not garbage at the start of the cycle no reference leads to one that was. The three
properties are inductive only together: shading keeps garbage white because the worklist never
names it, and the worklist never names it because the program cannot store it.
`OnlyStoresLose` (`Spec => OnlyStoredEdgesLose`) needs one invariant more, `MarkingMissesNoRoot`: what is
grey is on the worklist, and once the roots have been shaded again none is white. When
a sweep begins nothing is grey, so every root is black; a black object's slot that was not
stored to leads to no white object (`OnlyStoresBreakInvariant`); so the black objects hold the roots and
are closed in `Unstored`, and leastness puts all that is reachable there among them.

### The verifier: GraphProofs

`VerdictIsSound` relates the two definitions of `Verifier` in any state of heap and model, correct
or corrupted: `VerifyOk <=> Faithful`. Its hypothesis, beside types, is that a global
the model has not bound is null in the roots, because `verify` walks over the model's
names only; `MarkCompactProofs` proves it of every reachable state (`GlobalsBound`). One
direction follows the walk: without a violation the set of visited handles has all the
root handles and all their fields, so it includes what is reachable (leastness in the heap);
the other uses leastness in the model, for `Unreachable`. The module also proves that
allocation, stores and root operations, done to the heap and to the model with the same
operands, keep `Faithful`: the heap can stop being the model's graph only by a
collection.

### Compaction: MarkCompactProofs

From `CapacityAssumption` and `PacingAssumption`, any capacity and graph:

- `VerdictCanBeReliedOn`: `Spec => []VerdictIsRight`, `VerdictIsSound` with its hypothesis discharged.
- `StaleFieldsAreOfUnmoved`: `Spec => []OnlyUnmovedGoStale`.
- `CompactionPacks`: `Spec => CompactionIsExact`.

`IInv` follows the phases of a collection. While marking, the heap is `Faithful` and marking exact.
While references are rewritten, those already rewritten lead to where their object will be
(`Leads`: an address that is already filled, or the forwarding address of one that is
not), the others to where it is (`Stays`). While objects are moved, a survivor's
destination is its rank among the survivors (`SlidingIsExact`), so it lies at or below the
place it leaves and above all places filled, and a move overwrites no survivor that is
still to be moved. Objects that stay are excepted throughout, since the code passes
over their fields, and `OnlyUnmovedGoStale` is what remains of this at the end.

### Copying: SemiSpaceProofs

From `HalfAssumption` (a half holds at least one object, and the addresses are those of the
two halves), for any graph and model:

- `PathsHold`: `Spec => []PathsAlwaysAgree`.
- `ScanIsComplete`: `Spec => []ScannedIsComplete`.
- `OnlySharingLoses`: `Spec => []OnlySharingIsLost`.

A path half-way through a collection may pass through copies and originals, but never
back: originals refer to originals (`CopiesAreNamed`), and nothing leads out of from-space
and the filled part of to-space (`HeapIsClosed`). A copy has the bytes of its original,
so redirecting one reference to it (`CopyIInv`, shared by the three places that copy)
leaves every path where it led.

That nothing but sharing does harm takes a count. The program can reach every copy, and
each is where some root or some field of a copy leads, which stands for one place of
the model. Where no identity stands in two places, the reference about to be copied for is
therefore not the one any existing copy was made for (`NoCopyYet`), so no two copies have the
same stamp (`CopiesAreSingle`); then the copies are at most the identities the program can
reach, of which a faithful heap had at most as many as it had objects (`CountsAgree`), and
they fit in a half (`CopiesFit`). With sharing the heap may duplicate objects, but since paths
agree, `verify` can report nothing else (`AgreeingIsOnlyCopied` in `GraphProofs`).

### Generations: GenerationalProofs

From `SizeAssumption` (the old generation and every nursery size are positive, and the
addresses of both generations are in `Obj`), for any graph and any model:

- `EdgesAreRemembered`: `Spec => []EveryEdgeIsRemembered`.
- `NurseryIsLeft`: when the scan of a minor collection is over, what the program can reach is old.
- `GraphStays`: `Spec => []GraphIsKept`.
- `OldAccounts`: `Spec => []OldIsAccountedFor`.
- `OnlyWastedCorrupts`: `Spec => []OnlyReservationsCorrupt`, and `TypeCorrect`.

`IInv` has three layers, each resting on the one before; TLC checked it as an invariant of the
`generational` instance before the proof was begun.

`Bookkeeping` holds whatever goes wrong: free blocks do not overlap, and their units and
`old_used` together stay within the old generation even after reservations were wasted
(`FreeIsSound`); an old object with a field in the nursery is on the remembered set or the worklist
(`EdgesAreListed`). The last is said of every old address, reachable or not: memory that was
freed is blank, so nothing is lost by it, and no step then has to be shown to leave an
unlisted object out of the program's reach. `NurseryIsLeft` follows from it by leastness:
with both lists and the roots done no old object and no root leads into the nursery.

`GraphHolds` carries the graph through a collection. `Final` names where an object will be
once the collection is over: its forwarding address, or where it is. A copy agrees with its
original up to `Final` (`CopiesAgree`), and two reachable addresses with the same identity have the
same `Final` (`FaithfulInTheEnd`), which is how "no copies" reads half-way through. Lemma
`Redirected` says that in such a heap any reference may be replaced by one with the same `Final`;
roots, fields of remembered and of promoted objects are its uses. When the nursery is empty `Final`
is the identity on what is reachable, and `Faithful` is back.

`OldIsTiled` speaks of the time when no reservation is forgotten. Blocks lie end to end from 1 to
the bump pointer, the list has each vacant one once, and the others add up to `old_used`
(`IsTiled`). `TakenFacts` shows that `old_alloc` together with the header written at the place it
returns keeps this, split or not; a large allocation that calls `old_alloc` twice breaks it
with the first call, which is what `wasted` records. `SweptFacts` shows more of a sweep: one that
meets a header at each step leaves the generation tiled whatever was there
before, so a forgotten reservation that is not noticed by one sweep is repaired by
it. That the walk meets exactly the headers (`TiledWalk`) is shown by a least
counterexample, and since the walk is a recursive function, it is first shown to exist
(`WalkExists`).

### Assumptions

Beside those named above, the proofs use what the modules assume of their constants and
TLC evaluates in the runs: `Obj`, `Name` and `Id` are finite (an arena has finitely many
addresses, a program names finitely many globals and takes finitely many identities),
`Null` is neither object nor identity, `NumSlots` and `MaxDepth` are naturals, the
colours differ. No proof rests on an unproved statement.

### Only model-checked

The properties of `Allocator` and `CycleCollector`, and `OnlyTheDeadLeak`, have no proof yet,
though nothing in the safety properties is beyond the provers. Out of reach are all liveness properties
(`OperationsReturn`, `CyclesEnd`), which need `ENABLED`, and the violations, which need a
witness.

## 7. Not modelled

- Payload bytes beyond the identity, logging, statistics, timing: nothing decides by them.
- The workloads, the benchmarks, and the harness (`checks.rs`): they are sequences of
  mutator operations, which the models take in every order, and assertions on their results.
- Of the verifier: handles out of bounds and shapes (all objects of a model are alike, and no
  step of a module makes either wrong), `check_accounting`, and the texts of the report.
- Fragmentation inside modules 2, 3, 4 and 8: their objects have one size, and what a
  mixture of sizes does to the free-list space is checked and proved there.
- The bodies left as `todo!()` other than by their comments.

What could be added: `RefCount` on `FreeListSpace` rather than on a set of addresses;
larger graphs in `CycleCollector`; theorems for its `CountsAreExact` and
`OnlyPassedOverEscape`, and for the refinement of `Allocator`; of `RefCount`, the equality
`OnlyTheDeadLeak`.

## 8. Observed divergences

The models do what the code does, and the properties named "only ..." of section 3 bound what these
divergences can damage. Three have a run of their own that shows a
test or comment violated, named here.

- Module 1: a split appends its remainder to a list documented as sorted
  (`gc-mod01/src/lib.rs:71`, `:221`), and `partition_point` then searches a list
  out of order; a request that exactly fills virgin memory is refused (`:198`), and so is
  a hole of exactly the size (`:234`), against `tests/allocator.rs:105` and `:158`.
- Module 2: the children of a dying object are read after `FreeListSpace::free` has
  set its slot count to 0, so nothing it referred to is released (`gc-mod02/src/lib.rs:124`).
  `write_field` releases the old value before it retains the new one (`:194`), against the
  notes (`:38-42`) and `tests/refcount.rs:105`: where the field holds the last
  reference, `x.f = x.f` frees the object and stores it (`refcount_store_back`). Through the
  mutator the stored value is rooted, and the order does no harm.
- Module 3: `scan_black` restores one count per object where `mark_gray` took one per
  reference (`gc-mod03/src/lib.rs:246`); a later collection can then free an object in
  use. A candidate that is no suspect when it is examined leaves the list with its
  flag set (`:277`), and `possible_root` lists nothing that has the flag, so the object is never
  suspected again and its cycle leaks, against `tests/cycles.rs:299`; these are the `passedOver` of
  `OnlyPassedOverEscape`.
- Module 4: `root_set` omits the globals (`gc-mod04/src/lib.rs:137`), so an object only a
  global names is swept; no mark is ever cleared (`:176`), so garbage that
  survived once survives again.
- Module 5: the fields of an object that stays where it is are not rewritten (`gc-mod05/src/lib.rs:169`), although their targets may move. `verify` still accepts the heap while such a
  field leads to the intact old copy and nothing else names the new one.
- Module 6: `copy_object` never looks at the note it leaves (`gc-mod06/src/lib.rs:155`): a shared
  object is copied once per reference, and a cycle fills to-space. `used_bytes` is the
  free pointer, not its distance from the start of the half (`:223`);
  `before_objects - survivors` underflows when sharing was duplicated (`:274`).
- Module 7: besides the forgotten reservation (`gc-mod07/src/lib.rs:369`; `generational_reservation`), a small object is never refused: after
  the minor collection the nursery has room, so the test at `:395` cannot be true, and
  a full old generation stops the program in `promote` instead (`:209`). The barrier
  records young holders and one entry per store (`:419`), where the notes speak of old objects, once.
  A promoted copy keeps FLAG_BUFFERED, so `is_remembered` is true of objects that are not on the list.
- Module 8: the barrier shades when the holder is not black (`gc-mod08/src/lib.rs:357`), and a newborn is
  white in every phase (`:342`); `incremental_loss`.
- `heap.rs:5` says objects are padded to an 8-byte boundary; `ALIGN` is 16.

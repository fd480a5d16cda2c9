# Nelua, verified parts

TLA+ modules of the Nelua compiler's run-time library and of the engine the
compiler runs on (`src/`), the TLC runs that check them on small instances,
and TLAPS proofs. Every definition is a translation of the code named for it
in `PROJECT.json` ("map").

## 1. Inventory

Nelua is a compiler written in Lua (`nelua/`) that turns Nelua into C, and a
library written in Nelua (`lib/`) that is compiled with the program. The
compiler runs on its own build of the Lua interpreter, with the pattern library
LPegLabel and the allocator rpmalloc linked in (`src/`); its behaviour is
theirs. The program and the interpreter are single threaded; rpmalloc is
written for threads. What is hard here is control that comes back: finalizers
that run inside a sweep, a container that rebuilds its links while a caller
holds an index, a collector that interrupts any write, a matcher that undoes
what it did, a block freed by a thread that does not own it.

| Component | State | Operations | Interacts with | Correct when |
|---|---|---|---|---|
| Garbage collector `allocators/gc` | tracked items, byte counts, address bounds, `running`, `collecting`, `frees` | alloc, realloc, dealloc, register, unregister, reregister, collect, stop, restart, setpause, destroy | malloc; calls finalizers of the program, which call it; coroutines register their stacks; keeps its items in a hash map | only unreachable blocks are freed, each finalizer runs once and before its block goes, counts are exact, a collection ends |
| Hash map `hashmap` | buckets, nodes, size, free list | index (inserts), peek, remove, rehash, reserve, clear, destroy, iterate | an allocator; used by the collector | it is a finite function; chains and free list partition the nodes; iteration is complete under growth |
| Heap allocator `allocators/heap` | nodes in front of chunks, bins of free chunks | alloc, dealloc, realloc, deallocall | none below it | chunks tile the buffer, blocks do not overlap and have their size, free memory is found |
| rpmalloc `rpmalloc/rpmalloc.c` | spans with free and deferred lists, a heap per thread, caches of the threads and a global one | allocate, aligned allocate, reallocate, free, thread and process end | the system's memory map; threads meet in the deferred lists and the global cache | no block is given twice or lost, sizes and alignments hold, everything is unmapped in the end |
| Lua collector `lua/lgc.c` | objects with colours and ages, the lists they are on, its phase | barriers, incremental and generational steps, full and emergency collections, finalizers | every write of the interpreter; finalizers of the program | nothing reachable is freed, finalizers run once, everything unreachable goes |
| Lua compiler and machine `lua/lcode.c`, `lparser.c`, `lvm.c`, `ldo.c`, `lfunc.c`, `ltm.c` | the function being compiled, registers, jump lists; frames, stack, upvalues | statements and expressions; instructions, calls, yields, errors | each other through the instructions | programs do what they mean |
| Lua tables, sort, patterns `ltable.c`, `ltablib.c`, `lstrlib.c` | array and hash part; one interval and its pivot; captures | get, set, next, length; sort; find, match, gmatch, gsub | the interpreter; order functions of the program | a table is a finite function, sort sorts, matches are those of the pattern |
| LPegLabel `lpeglabel/` | trees, code, the machine's stack and captures | the constructors of patterns, match | Lua functions called in a match | the compiled pattern matches what the expression means |
| Arena, stack, pool allocators | a cursor, a stack of cursors, a list of free chunks | the allocator operations | the allocator interface above | blocks do not overlap; freeing everything makes everything available |
| Allocator interface `allocators/allocator` | none of its own | realloc, spanalloc, spanrealloc, new, delete, ... derived from alloc and dealloc | all allocators, all containers | a failed operation leaves the old block as it was |
| Coroutines `coroutine` | status, previous coroutine, context, storage stack | create, resume, yield, close, push, pop, running | the collector (stops it around a switch, registers the stack as a root with a finalizer) | one coroutine runs; statuses form a chain of resumers; values pushed are values popped; the collector's state survives a switch |
| Containers `vector`, `sequence`, `list`, `stringbuilder` | size and buffer, or linked nodes | push, insert, remove, resize, ... | an allocator | they are sequences |
| Type inference `analyzer`, `scope`, `symbol` | possible types and unknown references of each symbol, unresolved counts, `anyphase` | traverse, add_possible_type, resolve, delay | preprocessor, types | it ends; the types do not depend on an order the source does not have |
| defer and close `cgenerator` | scopes with their deferred blocks | block ends, return, break, continue, goto | C emitter | each deferred block runs once on every way out, last first |
| C compiler driver `ccompiler` | cached C file and binary with their times | compile_code, compile_binary | file system | a binary that is reused is that of the source |
| Preprocessor, parser, types, literals | syntax, Lua code | pure or by running Lua | | |

Hazards are listed with their lines in `PROJECT.json` ("hazards"), each with
the properties that watch it or the reason why none does.

## 2. Plan

Done: the library's **GC** with **ManagedMemory**, **HashMap** and **Heap**,
each with proofs; **RpMalloc** and **RpSizes**, the second with proofs; the Lua
collector (**LuaGC**); the Lua compiler and machine (**LuaCode**); tables, sort
and patterns (**LuaTable**, **LuaSort**, **LuaStr**), sort with proofs;
**Lpeg**.

Next, proofs: of rpmalloc, that no block is handed out twice by any number of
threads, from an invariant that says for each program counter of a thread which
blocks it holds, once the spans' helpers are written without folds over lists;
`NoDangling` of the Lua collector, once its propagation is written as a
recursive function.

Next, models: **FixedAllocators**, arena, stack and pool behind the allocator
interface with one abstract allocator that they and `Heap` implement;
**Coroutine**, composed with the collector's `running` flag and roots;
**Inference**, the outer loop over symbols, possible types and unknown
references; **Containers**; **Defer**, the generator's order of deferred blocks
against an operational definition.

## 3. The modules

### GC, ManagedMemory, MCGC, GCProofs, GCSweepProofs, GCFreeProofs, GCRefinementProofs

`GC` models `lib/allocators/gc.nelua` without the platform code. A block is
its address. Memory is `content`, the addresses a block's words hold, and
`stack`, those in the C stack; the fields of the GC record are variables of
their own names. The C call stack of unfinished collector operations is
`calls`: a frame per `collect`, `destroy`, finalizing `dealloc` and
`reregister` in progress. Program actions (`Alloc`, `Dealloc`,
`ReallocInPlace`, `ReallocMoved`, `RegisterExtern`, `Unregister`, `Collect`,
`Configure`, and the pointer moves `Load`, `Store`, `Drop`) are enabled when no
operation is in progress or the innermost one is calling a finalizer: that is
how a finalizer allocates in the middle of a sweep. `CallFinalizer`,
`FinalizerReturn`, `FreeNext`, `EndCollect`, `EndDestroy` are the turns of
`GC_sweep`'s two loops. `GC_markptrs`' recursion is the least closed set.
The order in which the hash map of items is traversed is chosen
nondeterministically.

`condemned` and `fate` are history variables: what the sweep in progress may
free, and whether a finalizer is still owed to a block.

`ManagedMemory` is what a program may assume: a block goes from free to live,
from live to doomed only when nothing reachable refers to it, and to free when
its owner says so or after it was doomed. `GC!Implements` is the refinement.

Constants that are assumptions about the program, not sizes:
`QuietDestroy` (finalizers run by `destroy` do not use the collector) and
`GrowsLeaf` (the program stores pointers in a block that began smaller than a
pointer). The passing runs have `QuietDestroy = TRUE` and `GrowsLeaf = FALSE`;
sections 4 and 6 say what happens otherwise.

### HashMap, MCHashMap, HashMapProofs

`map` is the record `hashmapT`; the operations are operators from a map to a
map, so that an insertion is, as in the code, `rehash` when there are no
buckets, `_find`, the new node, and `rehash` again at the load limit, in one
step. `Path` follows `next`; a walk longer than the number of nodes is an
endless loop and makes `status` "hang"; a failed `check` makes it "panic".
Nodes are compacted by `Shifted` exactly when the span shrinks. The iterator
is a position in the span with what it has seen. `content` is history: the
function the calls define. `cleared` marks a map that was cleared and whose
links were not rebuilt yet: in the passing run the program does not insert
into it (`ReusesAfterClear = FALSE`), see section 6. The program does not call
rehash, reserve, clear or destroy while it iterates.

### Heap, MCHeap, HeapProofs

`heap.nodes` maps the address of each node to its size, `prev_adj` and whether
it is used; `heap.bins` are the sequences the bins link. `Split`, `Joined`,
`Added` and `Removed` are the steps that alloc, dealloc and realloc are built
from, in the order of the code; a join is `Absorbed` after the neighbour left
its bin. Addresses and sizes are the bytes of a 64 bit build; arithmetic on
`usize` is modulo `WORD` where it can wrap (rounding of a request, size of the
first chunk).

### RpSpans, RpMalloc, MCRpMalloc

`RpSpans` has the structures of `rpmalloc.c` as functions of the memory `m`:
spans cut out of mapped superspans, their free lists, partial and full spans of
a heap, the thread's span caches, the global cache, reserves, and what is
unmapped when. The address space is a row of slots; a list is the sequence of
its elements. `RpMalloc` runs threads on it: allocating, freeing their own
blocks and those of others, exiting and starting again, finalizing. A step goes
to the next access of a word that another thread may change (the deferred list
of a span, with its lock value, the deferred spans of a heap, the global cache,
the heaps' lock), so that the steps of `_rpmalloc_deallocate_defer_small_or_medium`
and `_rpmalloc_allocate_from_heap_fallback` interleave. Memory is sequentially
consistent. A menu says which sizes a behaviour uses and how many calls it
makes. Every size of block that the program may ask for is a class, a large
count of slots, or huge.

### RpSizes, MCRpSizes, RpSizesProofs

The arithmetic with the numbers of the default build: the tables of size
classes with their merges, small, medium, large and huge requests, aligned
blocks cut out of larger ones, the block a pointer belongs to, usable sizes, and
when a reallocation stays in place. The state is one block and what was asked
for.

### LuaHeap, LuaCollect, LuaGC, MCLuaGC

`LuaHeap` has objects, lists, colours and the marking functions;
`LuaCollect` the atomic phase, both sweeps, finalizers and the steps that
`luaC_step` and `luaC_fullgc` take; both are functions of the global state.
`LuaGC` puts a program next to it: allocations, writes with the barriers of
`lvm.c` and `lapi.c`, closing upvalues, weak tables and ephemerons, setting
finalizers, changing mode. A menu fixes which kinds of object a behaviour
makes and whether it is collected incrementally, generationally, by full or by
emergency collections. What the code decides by comparing byte counts is a free
choice.

### LuaK, LuaParser, LuaVM, LuaMeaning, LuaCode, MCLuaCode

`LuaK` is `lcode.c`, `LuaParser` is `lparser.c` from syntax trees on, and
`LuaVM` is the machine: `luaV_execute` with calls, upvalues, closing,
metamethods, errors. A register nobody wrote holds `Junk`. With `yields`, every
C function and metamethod yields and the interrupted instruction is completed
by `luaV_finishOp`. `LuaMeaning` says what a program means, on its statements:
variables are cells and scopes lists of names; it has no registers and no code.
`LuaCode` reads a program statement by statement, each one of a menu, and so
checks all programs the menu can make.

### LuaTable, LuaSort, LuaStr, MCLuaLib, LuaSortProofs

`LuaTable` is `ltable.c`: the array part with the size hint, collisions and the
free pointer, rehash with `computesizes`, `luaH_next`, `luaH_getn`. `LuaSort`
is `auxsort` with one action per comparison, which calls the program's order
function: an order, or one that answers as it likes and may raise an error.
`LuaStr` is the backtracking matcher and `find`, `match`, `gmatch`, `gsub`,
`sub`, against a definition of what a pattern matches. `MCLuaLib` runs the
three side by side, one per behaviour.

### LpegTree, LpegCode, LpegCaptures, LpegVM, LpegMeaning, Lpeg, MCLpeg

`LpegTree`, `LpegCode`, `LpegCaptures` and `LpegVM` follow `lptree.c`,
`lpcode.c`, `lpcap.c` and `lpvm.c`. `LpegMeaning` reads the same expressions as
a parsing expression grammar with labels and captures, without tree or code. An
action of `Lpeg` is one call of the library on patterns that the program keeps
on a stack, so that trees with their tables are shared, joined and compiled in
every order. `Careful` leaves out programs that meet two of the problems of
section 6.

## 4. The runs

| Run | Shows | Bounds |
|---|---|---|
| `gc_finalizers` | finalizers that use the collector during sweeps and deallocs: the free list stays exact, no check fails, each finalizer runs once, before its block goes; destroy is complete; every collection ends | two heap addresses of which one is in use at a time, an external block, a root; all with finalizers; depth 3 |
| `gc_reachability` | marking is reachability, byte counts are exact, GC implements ManagedMemory | 2 blocks, every mix of size and flags, collector running or stopped, depth 2 |
| `gc_grown_leaf` | *violation*: a reachable block is condemned | `GrowsLeaf = TRUE` |
| `hashmap` | chains, free list, content and traversal | 3 keys, 2 values, buckets from 1 to 8 |
| `hashmap_clear` | *violation*: insertion after clear loses an element | the same with `ReusesAfterClear = TRUE` |
| `heap` | tiling, bins, blocks, completeness of the search, coalescing | a buffer of up to 6 chunks, 3 sizes, 5 bins, one lookup per bin |
| `luagc` | nothing reachable is freed, the invariants of marking and of ages, finalizers, full collections | 6 objects, 11 menus, sweeps of one object a step |
| `rpmalloc` | each block is in one place at each moment, counters agree with lists, everything is unmapped | 2 threads, 5 slots, spans of 3 blocks, caches of 2 spans, 3 menus of 6 or 7 calls |
| `rpsizes` | blocks have their size and alignment and are found again; reallocation keeps bytes | 20 sizes on both sides of each limit, 6 alignments, 2 reallocations |
| `lpeg` | compiled patterns match as they mean, analyses are sound, run-time captures leave what they should | 7 menus, 5 to 7 calls, subjects of up to 2 characters |
| `luacode` | programs do what they mean, also when everything yields; no assertion of the compiler fails | 18 menus, up to 3 statements after a given beginning, small operands |
| `lualib` | tables, sort and patterns | arrays of up to 8 slots, integers up to 15, 6 elements to sort, patterns of up to 3 items |

Why the bounds are enough. GC: an address can be reused while its old entry
is still in the free list; depth 3 is a finalizer, called by a sweep or a
dealloc, that deallocates a block whose finalizer uses the collector again.
HashMap: three keys give a head, a middle and a tail of a chain, collide
differently in 2, 4 and 8 buckets, and reach every branch of the node count
(less, equal and more nodes than elements). Heap: six chunks give every
combination of free and used neighbours on both sides of a block with blocks
beyond them; one lookup per bin makes the second search necessary. Lua
collector: four objects beside the two fixed ones are tables, what they refer to
and the object a finalizer revives; with sweeps of one object the program acts
between any two steps of a phase. rpmalloc: three blocks in a span distinguish
first, middle and last free; caches of two overflow into the global cache and
from there to the system; two threads are an owner and a stranger. Lua
compiler: operands of 3 bits and constructors flushed every 2 items make every
"does not fit" path reachable with a few statements. Sort: with a limit of 4
for random pivots, 6 elements reach both pivot rules; the run has every order
of up to 6 elements of 3 ranks. LPeg: a character that matches, one that does
not, and the end of the subject before or after them.

`CHECK_DEADLOCK FALSE` stands in the runs whose program ends (after its calls
or statements are used up). The finite menus are written in the MC modules.

Fairness is assumed only in `gc_finalizers` (`FairSpec`): the collector's own
loops make progress (weak fairness of `CallFinalizer`, `FreeNext`,
`EndCollect`, `EndDestroy` and the recheck after a finalizer: they are
straight-line code), and a finalizer that is called returns (strong fairness of
`FinalizerReturn` at each depth, because it may be interrupted by the
collections it starts). The second is a promise of the program; without it a
finalizer may loop forever and the collection with it.

## 5. Proved

All theorems are for every value of the constants that satisfies the named
ASSUMEs, which TLC evaluates in every run of the module.

### The collector

`GCProofs`: `TypeCorrect`, and `MarkIsExact`: if `~GrowsLeaf`, what
`GC_markptrs` skips (words outside of `minaddr..maxaddr`, leafs, words that are
not the exact address of a block) never hides a reachable block. The inductive
invariant is `MarkInv`: the bounds cover every block that is not a root, and
leafs hold no addresses; marking is exact in every state that satisfies it
(`MarkInvSuffices`).

`GCSweepProofs`: `FinalizersRunOnce`, without a premise: `LeavingInv` and
`OnceInv` say that the blocks that wait for the finalizer of their `dealloc`
are no longer tracked, not yet freed, finalized, and told apart, at every depth
of the call stack. `ChecksNeverFail`, if `QuietDestroy`: `StackInv` (one sweep
at a time, below it the frames that may wait) and `ListInv` (what is on the
free list and not freed yet is tracked, and listed once) are kept by every
finalizer's moves, deallocs and registrations.

`GCFreeProofs`: `NoneFreedUnfinalized` (no block goes back to malloc while its
finalizer is owed); `SweepFreesTheCondemned`, if also `~GrowsLeaf`
(`CondemnedInv`: until the first deallocation of a sweep its list is exactly
what its cycle condemned and the program did not release), with the corollary
that only dead pointers are condemned; `DestroyLeavesNothing` (`TracedInv`,
`ClosingInv`, `OwnInv`: every heap block is tracked, listed or waiting, so that
when `destroy` found no more items none is left).

`GCRefinementProofs`: `CollectorImplementsManager`: `Spec => ManagedMemory!Spec`
under the mapping in `GC`, action by action; each step of the collector is a
step of the manager or a stutter. It needs `FreedInv` (what the loop has freed
is not tracked again while it goes on), `RootlessInv` (no root gets on the free
list) and the exactness of marking: a collection dooms at once exactly what
nothing reachable refers to.

The premises are needed: without `~GrowsLeaf` the run `gc_grown_leaf` violates
a consequence, without `QuietDestroy` TLC finds `ChecksHold` violated.

### The hash map

`HashMapProofs`, all if `~ReusesAfterClear` (the run `hashmap_clear` violates
the third without it): `MapTypeOK`, `MapExact` (no check fails and
no walk is endless, chains and the free list partition the nodes, one node is
always free), `MapFinds` (a lookup gives the value last put) and `MapTraversed`
(a traversal visits each element that stays exactly once, while the map grows
and shrinks under it).

A recursive walk cannot be reasoned about by induction with these provers, so
the proof replaces it: `Chain(nodes, head, S)` says that the links from `head`
run through the set `S`, from least to greatest of some injective rank, and end
with INVALID_INDEX. One lemma shows that a walk along a chain meets exactly its set
and ends; the others say what push, pop, append, cut and sort do to a chain.
The inductive invariant is made of named parts: `Table` (types and ranges),
`Entries` (no key twice, the size), `Holds` (`content` is what the nodes hold),
`Room` (a node is free), `Linkage` (a chain for each bucket, made of its nodes),
`FreeList` or, after a clear, `Wiped`, and `Tour` for the traversal (behind it is
a node of every key it has seen, ahead of it one of every key that stayed). `GrownIs` shows
that the growth at the load limit moves no node, which is why an index that a
caller got from an insertion stays good. `HashMapRoom` assumes that no table
the program can make has more nodes than INVALID_INDEX.

### The heap allocator

`HeapProofs`, if `Reasonable` (the buffer holds a chunk and rounding a request
does not wrap around): `TypeCorrect`, `AlwaysTiled`, `AlwaysBinned`,
`AlwaysFit` (blocks are aligned, have the size asked for, lie in the buffer and
are apart), `AlwaysFound` (the limit on lookups never makes an allocation
fail), `AlwaysCoalesces` (an action property: alloc and dealloc never leave more
adjacent free chunks than they find).

The inductive invariant `IInv` adds to these the converse links
(`prev_adj` of a node leads to one whose chunk ends there), the addresses'
alignment, and that each block is no larger than the chunk in front of which
its node is (`Covers`). An operation takes a heap out of that form at one node
only: `Open(g, n, L, H, h)` says that everything but node `n` is as it should
be and that the bins `L` list `n`. Each helper of the code is a lemma from
`Open` to `Open` (`RemovedOpen`, `JoinedOpen`, `SplitOpen`) or back to a well
formed heap (`AddedClose`, `UsedClose`, `HeldClose`), and alloc, dealloc and
realloc are chains of them. For coalescing, the same chain is followed on the
nodes alone: after the step each pair of free neighbours is one from before,
but for the node that was freed or cut off, which takes the place of the
neighbour it absorbed or of the whole it was part of (`NoMorePairs`).

### rpmalloc's sizes

`RpSizesProofs`: `BlocksFit` (every request of every size and alignment gets a
block with the bytes and the alignment asked for, found again from the
pointer) and `ReallocPreserves` (an action property: what both sizes hold
stays). `SizesInv` says where a block may begin (`AtStart`) and how much is
left to the end of its span or pages (`InSmall`, `InPages`). `RpAlignments` says
of alignments only what being a power of two gives.

### table.sort

`LuaSortProofs`: `SortCorrect`, for every size, pivot, threshold and order
function: the elements stay the same, no comparison leaves the interval, the
recursion is no deeper than the logarithm of the size, and with an order the
result is sorted and "invalid order function" is never raised. The invariant is
`Shape` (pending intervals nest and are apart, the two indices keep their
bounds) and `Ordering` (what is settled around the intervals, and what the
comparisons so far make known of the pivot's sides).

### Only model-checked

- `CollectionEnds` is liveness; `Accounting` is a sum by a fold, a
  recursive function whose value for every set is an induction over data.
- rpmalloc's `MemoryOnce`, `Counters` and `Released`: spans are given back,
  adopted and finalized by folds over lists, as for `Accounting`.
- `LuaGC`, `LuaCode`, `LuaTable`, `LuaStr` and `Lpeg` with the modules they are
  made of: they walk trees, code and lists by RECURSIVE operators, which the
  prover does not accept, and their properties are about what those compute.
- ENABLED, and with it deadlock freedom, in general.

## 6. What the checks found

With a run that shows it:

- A block allocated with less than a word is a leaf forever, also after it grew
  (`gc.nelua:319`): `gc_grown_leaf`.
- `hashmap:clear` leaves a free list of one node that points to itself
  (`hashmap.nelua:138`): `hashmap_clear`.

Seen by changing a constant or a menu, or by reading; the runs leave the case
out by the premise in brackets:

- `GC:destroy` sweeps without `collecting`, so a finalizer that allocates starts
  a nested collection of the same blocks (`gc.nelua:440`) [`QuietDestroy`].
- `Heap:alloc` rounds a huge size to 0 (`heap.nelua:223`) [`Reasonable`].
- An owner may count a span as empty while another thread's block is not on the
  deferred list yet (`rpmalloc.c:2219`) [`Overlap = FALSE`].
- The first set of a sequence forgets that its first part may throw
  (`lpcode.c:319`), and a throw inside of a predicate reads a field that call
  frames do not write (`lpvm.c:369`) [`Careful`].
- `return f()` inside a generic loop is compiled to a tail call although the
  loop has a value to close (`lparser.c:1602`, asserted at `lvm.c:1647`) [no
  menu has it].
- After a `__close` that yields, a RETURN is executed again and an open number
  of results counted again (`lvm.c:850`) [`recounted`, in `AgreesYielding`].
- A function statement may assign a constant variable, as `funcstat` does not
  call `check_readonly`; `singlevar` does not put a constant `_ENV` in a
  register; after an error, `gmatch` keeps its match depth (`lstrlib.c:767`)
  [no menu has them].
- Not modelled, by reading: deallocall of a pool before its first allocation
  (`pool.nelua:72`), resume restarting a collector that the program had stopped
  (`coroutine.nelua:266`).

## 7. Not modelled, and why

The components with status `not_modelled` or `partly` in `PROJECT.json` carry
the reason. In short: fixed allocators, coroutines, containers, inference and
deferred blocks are planned above; the preprocessor runs arbitrary Lua; the
parser is a grammar; the system libraries wrap the C library; of the other
vendored code nothing decides what the compiler does.

Within what is modelled: the nelua collector's `step`, `count` and the code
that finds the bounds of the stack, and failure of malloc beyond the limit on
blocks; first-class heaps, the system's calls for memory and the statistics of
rpmalloc; the pace of the Lua collector, which is a free choice; the lexer,
line information, hooks, and power, division, bitwise or and xor in the
compiler; order functions that store into the table they sort; the functions of
the table library that move elements, `concat`, `pack`, and the formatting
functions of the string library; printing of LPeg patterns.

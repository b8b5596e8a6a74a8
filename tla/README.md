# A verification project for dlmalloc-rs

This directory holds TLA+ models of the repository's two allocators, the TLC
configurations that check them on small instances, and theorems that TLAPS
checks for every value of the constants. The two are

- **the port**, the crate `dlmalloc`: `src/src/dlmalloc.rs` with the public API
  (`lib.rs`), the global allocator (`global.rs`) and the system allocators
  (`unix.rs`, `wasm.rs`, ...);
- **the original**, Doug Lea's `src/src/dlmalloc.c`, which the crate was ported
  from and keeps for reference. It has what the port left out: locks, lazy
  initialisation, `fork`, `mallopt`, `mremap`, chunks in mappings of their own,
  the footprint limit, `independent_calloc`, mspaces, footers, statistics.

Line numbers are those of the file a section is about.

Contents: [the system](#the-system), [modules](#modules),
[the port's core](#how-the-ports-core-is-modelled),
[the C heap](#how-the-c-heap-is-modelled),
[bins](#how-the-bins-are-modelled),
[locks, threads and fork](#how-locks-threads-and-fork-are-modelled),
[runs](#runs), [proofs](#proofs), [findings](#findings),
[what is left out](#what-is-left-out), [plan](#plan).

## The system

The port:

| Part | State it keeps | Operations | Modelled by |
|---|---|---|---|
| Allocation core (`dlmalloc.rs`, `struct Dlmalloc`) | the designated victim (`dv`, `dvsize`), the chunk at the end of the newest segment (`top`, `topsize`), the segment list (`seg`), `footprint`, `trim_check`, `least_addr`, `release_checks`, `granularity`, `max_release_check_rate` | `malloc`, `memalign`, `realloc`, `free`, `sys_alloc` (`prepend_alloc`, `add_segment`, `init_top`), `sys_trim`, `release_unused_segments`, `destroy`, two setters | `Dlmalloc` |
| Size arithmetic (l. 91-309) | none | padding a request, limits, alignment | `Sizes` |
| Boundary tags (`impl Chunk`, l. 1770-1880) | one header per chunk, in the heap itself: size, PINUSE, CINUSE; a free chunk's size in the word after it | the methods that write heads and feet | `Chunks` |
| Small bins, tree bins | lists, bitwise tries, two bitmaps | the same as in C | a set of chunks in `Dlmalloc`; `SmallBins`, `TreeBins`, `BinMaps`, `TreeIndex` |
| Public API (`lib.rs`) | none of its own | `malloc`, `calloc`, `free`, `realloc`, `trim`, `destroy`, setters, `c_*` | `Call`, `Configure`, `Destroy` of `Dlmalloc`; its contract by `AllocatorSpec` |
| Global allocator (`global.rs`, lock and fork handlers in `unix.rs`) | one `static mut` allocator, a pthread mutex, `FORK_PROTECTED` | every `GlobalAlloc` method under the lock; `enable_alloc_after_fork`; `fork` | `GlobalLock` |
| wasm system allocator (`wasm.rs`) | whether the linker's memory was donated | `alloc` | `WasmSystem` |
| Other system allocators | none of their own | `alloc`, `remap`, `free_part`, `free`, `can_release_part` | environment of `Dlmalloc` |

The original:

| Part | State it keeps | Operations | Modelled by |
|---|---|---|---|
| Spin locks | a word; owner and count in the recursive lock | acquire, release, try | `SpinLocks`; promise: `Mutex` |
| `mparams`, initialisation, `mallopt`, fork handlers | `mparams`, `malloc_global_mutex`, `gm->mutex` | `ensure_initialization`, `init_mparams`, `change_mparam`, `pre_fork`, `post_fork_*` | `Mparams` |
| Argument arithmetic | none | `calloc`, `memalign`, `posix_memalign`, `valloc`, `pvalloc` up to the heap | `Requests` |
| Small bins | 32 rings, `smallmap` | insert, unlink, replace the victim, `malloc`'s search | `SmallBins` |
| Tree bins | 32 tries with rings, `treemap` | insert, unlink, `tmalloc_large`, `tmalloc_small` | `TreeBins`, `TreeSizes`, `TreeIndex` |
| Bin maps | two words of bits | mark, clear, find the next | `BinMaps` |
| Chunks, segments, system | heads and feet, segment list, break, pages | `mmap_alloc`, `mmap_resize`, `init_top`, `prepend_alloc`, `add_segment`, `sys_alloc`, `release_unused_segments`, `sys_trim` | `CChunks`, `CHeap` |
| `malloc`, `free`, `realloc` and the rest of the public functions | the `malloc_state` | each under the lock, some in several sections | `CMalloc`, `DlmallocC` |
| mspaces | a `malloc_state` in its own first chunk | create, create on a base, track, destroy, and the `mspace_` copies of the public functions | `Mspaces` |
| Debug checks, `mallinfo`, `malloc_stats`, `inspect_all` | none | walks over the heap | `CChecks` |

**How the parts meet.** The client calls the API. In the port every call runs
alone (the type takes `&mut self`; the global allocator adds a lock); in C every
public function takes the heap's spin lock, but `realloc`, `memalign` and
`independent_*` take it two or three times, and `ialloc`, `mallopt` and
`set_footprint_limit` touch shared state without it. The allocator reads and
writes chunk headers inside the client's memory (boundary tags) and keeps free
chunks in exactly one place: a small bin, a tree bin, the victim, or top. When
nothing fits it asks the system for a region; the region either extends the
segment that ends in top, or is put before a segment, or becomes a new segment
whose predecessor's record is written into the predecessor's own last bytes.
Large frees count down to a pass over the segments that returns the empty ones;
a top beyond `trim_check` is cut. Nothing is persisted.

**What is hard.** Long sequences of legal calls after which a tag, a bin, a
counter or the segment list is subtly wrong; sizes at the edge of a chunk, of a
segment or of `size_t`; state that lives inside the memory being given back; a
system that places regions anywhere, refuses, moves the break under the
allocator's feet, or takes nothing back; threads that race for the first
initialisation or meet between two locked sections; a `fork` while others are at
work. `PROJECT.json` lists forty such hazards, each at its line, with the
properties that would catch it.

**What makes each part correct.** Heaps: the chunks tile the segments, the tags
tell the truth, free chunks are joined and each is in one place, nothing leaks,
blocks have room and alignment and are left alone by calls about other blocks,
segments are disjoint and add up to what the system gave, every call returns.
Bins: the links are rings and tries, the maps mirror them, searches find the
promised fit. Locks: mutual exclusion, nobody waits for a free lock, a child of
`fork` can allocate. Sizes: nothing wraps unnoticed.

## Modules

| Module | What it is |
|---|---|
| `Sizes`, `Chunks` | the port's size arithmetic (`WORD` 4 or 8, `USIZE_MAX`) and boundary tags, a partial function from addresses to headers |
| `Dlmalloc` | the port: allocator, client and system; state machine and properties |
| `AllocatorSpec` | the abstract contract both heaps implement: blocks and granted memory, no chunks |
| `FreeChunks` | the abstract promise of the bins: a queue of free chunks for each size |
| `SmallBins`, `TreeBins`, `BinMaps`, `TreeIndex` (over `TreeSizes`) | the bins, each as a state machine |
| `CChunks`, `CHeap`, `CMalloc`, `CChecks` | the C heap as operators, each EXTENDing the one before |
| `DlmallocC` | threads on the global heap; state machine and properties |
| `Mspaces` | heaps that are created, used side by side and destroyed |
| `Mutex`, `SpinLocks`, `Mparams` | the promise of a lock, the two spin locks, and the threads around the heap |
| `Requests` | the arithmetic of the functions that compute their request |
| `GlobalLock`, `WasmSystem` | the crate's global allocator and its memory on wasm |
| `MC*` | instances for TLC |
| `HeapLemmas` | lemmas about the port: its sizes and tags, that its variables keep their types, chunks that tile segments, what splitting, joining, taking and freeing do to them, and segments that are extended, put before, recorded, cut, given back |
| `HeapProofs` | the inductive invariant of the port, action by action |
| `DlmallocProofs` | the theorems about the port and its refinement |
| `AllocatorSpecProofs`, `PlatformProofs`, `ThreadsProofs` | the theorems about the contract, the crate's platform, the locks and the initialisation of `dlmalloc.c` |
| `RequestsProofs`, `BinsProofs` | the theorems about the arithmetic of requests, and about the small bins and the ways down the trees |

The refinements, each checked as a property: `Dlmalloc` and `DlmallocC` implement
`AllocatorSpec` (`KeepsContract`), with the client's blocks for `blocks` and the
segments and mappings for `regions`; `SmallBins` and `TreeBins` implement
`FreeChunks` (`MostRecentFit`, `LeastRecentFit`: ties go to the last freed small
chunk, and to the first freed large one); `SpinLocks` implements `Mutex`
(`KeepsPromise`). The heap models keep the bins as a set, from which any chunk
of the right size may be taken, so what they check holds for every choice the
bin modules make.

Several modules have a rigid variable, chosen in `Init` and never changed, so
that one run covers several programs: `scenario` (`DlmallocC`, `Mspaces`: how the
file is compiled, what the system does, what clients call), `build` (`Mparams`),
`USE_RECURSIVE_LOCKS` (`SpinLocks`), and `part` in `MCBins`, `MCThreads` and
`MCPlatform`, which says which of several independent modules moves.

`PROJECT.json` maps every definition that models code to its lines. Definitions
under a comment that begins "Mutant" are deliberately wrong variants; no action
uses them, each shows that a property notices a plausible bug.

## How the port's core is modelled

Lines are those of `dlmalloc.rs`.

A call is one to a few steps. `pc` names the part that runs next and `call` is
its frame:

    idle -> malloc -> (lead -> tail) -> idle          malloc, memalign
    idle -> realloc -> idle                           resized in place
    idle -> realloc -> malloc -> free -> ...          moved: allocate, copy, free
    idle -> malloc -> lead -> tail -> free -> ...     over-aligned realloc (lib.rs)
    idle -> free -> idle | trim | release
    trim -> idle | release          release -> release ... -> idle

| Code | Actions |
|---|---|
| `malloc` l. 323 | `MallocExactBin`, `MallocHigherBin`, `MallocSmallFromTree` (`tmalloc_small`), `MallocLargeFromTree` (`tmalloc_large`), `MallocDv`, `MallocTop`, `MallocRefused` - their guards are the order in which the code tries them |
| `sys_alloc` l. 439 | `SysAllocFails`, `SysAllocInit`, `SysAllocExtend`, `SysAllocPrepend` (four cases of the old first chunk), `SysAllocAddSegment` (with or without a leftover of the old top) |
| `memalign` l. 648 | `MemalignLead` gives back what lies before the aligned place, `MemalignTail` what lies behind the block |
| `realloc`, `try_realloc_chunk` l. 519-611 | `ReallocShrink`, `ReallocIntoTop`, `ReallocIntoDv`, `ReallocIntoNext`, `ReallocMoves` |
| `free` l. 1267, `dispose_chunk` l. 719 | `GrowTop`, `GrowDv`, `GrowBin`, shared by both; `FreeIntoTop` may go on to trim, `FreeIntoBin` counts down to a release pass |
| `sys_trim` l. 1348 | `TrimDeclined`, `TrimTop` |
| `release_unused_segments` l. 1408 | one step per segment: `SegmentStays`, `SegmentReleased`, `SegmentRefused`; then `ReleaseDone` |
| `destroy`, setters | `Destroy`, `SetGranularity`, `SetMaxReleaseCheckRate` |

**The heap.** `mem` maps the address of each chunk to its header. Writing a
head forgets the headers strictly inside the chunk, because that place is
payload (or about to be) and the client may write anything there; a read where
no header is gives `Garbage`. `prev_foot` is kept only while the chunk before is
free. So an allocator that relied on stale headers would fail in the model.

**The bins** are the set of chunks in them. Which chunk of the right size a bin
hands out is left open, so what is checked holds for any order in the lists and
any shape of the tries. Best fit is kept: `Smallest` of the fitting chunks.

**The system** answers a request with a region of at least the size asked for,
in unmapped memory, below `USIZE_MAX`, at any of `OSBases`; or with nothing. It
may refuse to take memory back at any time. `free_part` covers `remap` as well,
which only ever shrinks. Bases and sizes are multiples of 8 (the code's flag
bits rely on it).

**Undefined behaviour.** Asking the tree bins to unlink or to insert a small
chunk reads tree fields that do not exist. The model goes to `pc = "corrupt"`
and stops; `NoCorruption` says it never gets there.

**The client** keeps to the API's contract: it frees and reallocates only blocks
it holds, with the alignment it asked for. A call the code refuses at once
(`realloc` or `memalign` beyond `max_request`) changes nothing and is a
stuttering step, as is freeing null. What `memalign` computes before its `malloc`
(l. 660-664) is computed in a `usize`, wrapping (`wrap`), as a release build does; a debug
build panics instead.

Things about the code worth knowing that the model made visible:

- The last `return null` of `sys_alloc` (l. 516) is unreachable: after each way
  of using a region, top has room for the request. In the model `SysAlloc*`
  would be disabled and TLC would report a deadlock.
- The branches for mmapped chunks (both flag bits clear) are dead: nothing in
  the port creates one. They are not modelled.
- A segment whose base is 8 modulo 16 is never released by a pass: its first
  chunk starts 8 bytes late and its last free place ends before the bound.
- The comment on a unit test (`src/dlmalloc.rs:2048`) attributes the release pass to `dispose_chunk`;
  it is `free` that counts down and starts it.
- `trim` runs a release pass, and sets `trim_check` to `usize::MAX` when neither
  the cut nor the pass gave anything back (l. 1388).

## How the C heap is modelled

Lines are those of `dlmalloc.c`.

**Operators, not actions.** A heap is a record `h`: the fields of the
`malloc_state`, `h.mem` (headers by address, as in `Chunks`), and what it sees of
the system, the break and the mapped pages. A C function is an operator that
returns the set of its outcomes, each a heap and a result; `Then` runs one
function on each outcome of another. The system's answers and the choice among
chunks of one size are what makes several. So `malloc` (`CMalloc`) reads like
`dlmalloc` (l. 4539): small bins, the victim, the trees, top, `sys_alloc`, in
the order the code tries them.

| Code | Operators |
|---|---|
| heads, feet, footers (l. 2100-2330, 3040-3085) | `CChunks`: `set_inuse`, `set_inuse_and_pinuse`, `set_size_and_pinuse_of_free_chunk`, ...; `mark_inuse_foot` writes the owner's mark with `FOOTERS` |
| `mmap_alloc`, `mmap_resize` (l. 3821-3886) | of the same name in `CHeap` |
| `sys_alloc` (l. 4032) | `contiguous` (`first_extent`, `next_extent`, `partly`), `by_mmap`, `noncontiguous` - the three ways to get a region - and `use_region` |
| `sys_trim`, `release_unused_segments` (l. 4243-4355) | `sys_trim`, `trim_top` (`trim_mmapped`, `trim_break`), `release_from`, one segment a time |
| `dlfree`, `dispose_chunk` (l. 4677, 4358) | `consolidate` and `give_back`, shared; `free_chunk` adds trimming and the countdown |
| `try_realloc_chunk`, `internal_memalign`, `ialloc`, `internal_bulk_free` (l. 4806-5130) | `try_realloc_chunk` (one operator for each branch), `align_chunk`, `ialloc_split`, `internal_bulk_free` |
| `do_check_*`, `internal_mallinfo`, `internal_malloc_stats`, `internal_inspect_all` (l. 3214-3560, 5136) | `CChecks` |

**Steps.** In `DlmallocC` the part of a call between taking the lock and leaving
it is one step; `SpinLocks` is the reason that this is sound. A call of several
sections is several steps, between which the other thread runs: `realloc` is
`Realloc`, `Malloc`, `Free`; `memalign` is `Malloc`, `Align`; `independent_*` is
`Disable`, `Malloc`, `Enable`, `Split`, of which `Disable` and `Enable` are not
locked. `SetLimit` takes no lock either.

**The system.** `MORECORE` moves the break, `MMAP`, `MUNMAP` and `MREMAP` move
pages; each may fail where the scenario lets it. Others call `sbrk` too:
`OtherSbrk` between the steps, and with `races` also between the calls of one
function (`Interfered`).

**Mspaces.** A space and the system together are a heap of `CHeap`
(`Heap(i)`); every call is one step of a single client. With `FOOTERS` a block
may be passed with any space, and the call works on the one whose mark the chunk
carries (`fm`), which the run `spaces` does all the time.

## How the bins are modelled

- `SmallBins` has the links `fd`, `bk` of the chunks and of the bin headers and
  `smallmap`. An emptied bin keeps its stale links, as in the code: only the map
  says that it is empty.
- `TreeBins` has the fields of `malloc_tree_chunk` for every chunk in a bin.
  `insert_large_chunk` walks down by the bits of the size; `unlink_large_chunk`
  replaces a node by the next of its ring, or by its deepest descendant on the
  right, and hangs its children anew; `tmalloc_large` walks down and then left.
  These use RECURSIVE operators and stay with TLC.
- `BinMaps` does the arithmetic of the maps bit by bit (`Bitwise`): `left_bits`,
  `least_bit`, `compute_bit2idx`, and the tricks of `malloc` with `~smallbits & 1`.
- `TreeIndex` follows two sizes down a tree, with `compute_tree_index` in the
  gcc and in the portable version, and `leftshift_for_tree_index` (`TreeSizes`).

The port's bins (`dlmalloc.rs` l. 917-1265) are the same algorithms.

## How locks, threads and fork are modelled

- `SpinLocks`: a step is one access to shared memory. The plain lock is one word;
  the recursive one sets the word, then the owner, then the count, and clears
  only the word. Memory is sequentially consistent (the barriers of the atomic
  operations and of the volatile reads).
- `Mparams`: everything a public call does before it reaches the heap, in steps of
  one shared access where no lock protects: the unlocked read of `magic`, the
  race for the lock of locks on win32, `init_mparams`, the two reads of the
  granularity in `granularity_align`, `mallopt` without a lock, and `fork` at any
  time, with the handlers that are registered by then: those of `LOCK_AT_FORK`, or none
  (a `bare` child). Of another thread's locks the child inherits what they are. `build` has
  three programs: one that forks while others initialise `mparams` or are at work, MORECORE
  included; one with MORECORE and a thread that calls `mallopt`; one on win32, with
  `mallopt` too.
- `GlobalLock`: the crate's global allocator. A thread enters by taking the mutex
  and leaves by dropping the guard; `enable_alloc_after_fork` installs handlers
  once; `fork` runs the prepare handlers, copies the process, runs the parent's
  and the child's. `child` is the latest child: its copy of the lock, and whether
  the copy of the heap was taken in the middle of a call.
- `WasmSystem`: addresses in units of sixteen bytes; `memory.grow` may refuse, and
  others grow memory too.
- `Requests`: one call a time, over the whole domain of an eight-bit `size_t`, so
  every wrap-around of the code's expressions occurs.

## Runs

All runs explore the whole state space of their instance (no depth limit, no
state constraint; `heap` uses the symmetry of its two threads, whose properties
treat them alike). Deadlock is checked, so that in every reachable state some
path of the running call applies, except in `threads` and `recstale` (nested acquisitions
are bounded, and a thread that never comes back is done) and in `bins` (the walk of two
sizes ends where they part).

| Run | Instance | Shows | Distinct states |
|---|---|---|---|
| `port` | `Dlmalloc`, 8-byte words, alignment 64, requests up to `max_request` of a `usize` of 8191, changes of granularity and rate | `TypeOK`, `HeapOK` (chunks tile the segments, tags agree, free chunks are joined and in one place, nothing leaks), `BlocksOK` (room, alignment, `validate_size`), `NoWrap`, `CountdownRuns`, refinement `KeepsContract` | 400 494 |
| `passes` | `Dlmalloc`, 4-byte words, regions after, before and apart from the heap, some EXTERN, some with a flag of the system's own that `sys_flags` shifts onto EXTERN's bit, trims with pads, releases refused | `HeapOK`, `SegmentsSound`, `FootprintCounted` (the footprint is what the segments hold), `ExternKept` (EXTERN segments are left alone; an EXTERN region becomes one unless it lies next to a segment that looks like one) | 422 918 |
| `returns` | `Dlmalloc`, release passes over three segments | `CallsReturn` under weak fairness | 1 788 |
| `subpage` | `Dlmalloc`, granularity 32 | violates `NoCorruption` (finding 1) | |
| `heap` | `DlmallocC` in ten scenarios (below) | `HeapChecked` (the debugging checks), `SystemSound` (footprint, pages and break agree with segments and mappings, which are disjoint; records lie in their segments), `InUseAccounted` (no leak), `LiveServed`, `StatsAgree`, `LimitKept` (the limit is passed by `mremap` only), `TrimKeepsPad`, refinement `KeepsContract` | 660 416 |
| `ciallocsplit` | `DlmallocC`, two threads, `independent_comalloc` beside `free` | violates `HeapChecked` (finding 3) | |
| `spaces` | `Mspaces` with footers: two spaces side by side; one on the client's memory | `SpacesChecked` (checks and no leak for each), `SpacesApart` (disjoint, blocks in their space and marked so, the client's memory left with the client), `NothingLeaks` | 132 596 |
| `threads` | both spin locks with three threads, nested three deep; three threads in each `build` | `KeepsPromise`, `NoIdleWait`; `ReadsInitialised`, `OneInMalloc`, `WholeGranules` (whole pages, and short only after a change between two reads), `ChildSound` (what a child finds), `InitEnds` (the race ends and a child's calls come back, unless the global lock was left behind) | 56 269 |
| `recstale` | recursive lock, one of two threads comes back | violates `MutualExclusion` (finding 2) | |
| `requests` | all pairs of factors of `calloc`, ten alignments | `Served`, `RoomForBlock`, `CallReturns` (every call but one with an alignment above the highest power of two) | 276 969 |
| `bins` | six small chunks of three sizes; eight large ones of two bins; maps of ten bins; all pairs of 236 sizes next to the limits | `BinsOK`, `MostRecentFit`, `LeastRecentFit` (refinements), `LeastBinFound`, `WaysPart` | 62 022 |
| `platform` | two threads that allocate, enable and fork twice; an address space of six pages | `HeapGuarded`, `ChildServed`, `RegionsApart` | 23 083 |

Eight further configurations are no runs of their own but counterexamples: each states
without its exception what a run above states with it, and TLC ends it with a violation
(`tlc -config MCGranules.cfg MCThreads`). They are explained under the
[findings](#findings).

| Configuration | Module | Property it violates | In the runs |
|---|---|---|---|
| `MCExternflags.cfg` | `MCDlmalloc` | `ExternApart` | `ExternKept` (`passes`) |
| `MCWidealign.cfg` | `MCDlmalloc` | `NoWrap` | `NoWrap` (`port`), with alignments that fit |
| `MCDoubly.cfg` | `MCDlmallocC` | `AggregateInHeap` | `HeapChecked` (`ciallocsplit`) is about the other half of `ialloc` |
| `MCLimitremap.cfg` | `MCDlmallocC` | `LimitNeverPassed` | `LimitKept` (`heap`) |
| `MCShifted.cfg` | `MCDlmallocC` | `LiveServed` | `LiveServed` (`heap`), without `memalign` before `mremap` |
| `MCGranules.cfg` | `MCThreads` | `RequestCovered` | `WholeGranules` (`threads`) |
| `MCForkinit.cfg` | `MCThreads` | `ChildProceeds` | `ChildSound`, `InitEnds` (`threads`) |
| `MCDoubling.cfg` | `MCRequests` | `EveryCallReturns` | `CallReturns` (`requests`) |

The scenarios of `heap` (`MCDlmallocC`), each for what it makes happen:

| Scenario | What happens in it |
|---|---|
| `Break` | the break grows by whole granules and in pieces, is moved by others between calls, is lowered by trims with a pad of nothing and a small one, left alone with one that is beyond top; memory is mapped when it is used up |
| `Racing` | others move the break also between two calls of `sys_alloc` or `sys_trim`: a region that no longer follows top, one that is completed, one that is given back |
| `Maps` | mapped memory only: segments joined in front and behind, recorded and released by a pass |
| `Failing` | `sbrk`, `mmap` and `munmap` fail at any time |
| `Limited` | a limit on the footprint, set and lifted while blocks are held |
| `LimitedRemapping` | the same with `mremap`, which does not ask for the limit |
| `Direct` | chunks in mappings of their own, moved up by `memalign`, kept or copied by `realloc` |
| `Remapping` | `realloc` and `realloc_in_place` by `mremap`, in place and elsewhere |
| `Independent` | elements of the `independent_` functions, with and without an array, freed singly and by `bulk_free` |
| `TwoThreads` | two threads that meet between the sections of `realloc` and `memalign` |

**Bounds and why they are enough.** The constants of the code (granularity 64
KiB, thresholds, rate 4095, pages) are scaled down so that a heap of two or three
blocks already fills a segment, crosses the trim threshold and runs down the
countdown; the word size, chunk sizes, bin limits and foot are the code's own.
Requests are picked on either side of the limits that select a path: 12 or 24 is
a minimal chunk, 300 and 440 are large, the largest lie around `max_request`.
`MaxLive` bounds the blocks held at once: with three, every combination of free
and used neighbours around a chunk occurs, together with a victim and a top.
`MaxBusy` is the number of threads inside calls, two where it matters. In the
bins, three chunks of one size make a ring whose first, middle and last can be
removed, and the sizes of the large chunks part at the first bit, at the second
and at the last but two, so that a node has no child, one or two, and grandchildren.
The numbers of `TreeIndex` are the code's, below 2^30. Three threads are
the fewest with one that waits while two change places.
That the interesting branches are taken was confirmed with TLC's coverage; every
action of every module fires.

**Fairness.** The code is what justifies it: nothing blocks but the locks.

| Module | Assumed | Why |
|---|---|---|
| `Dlmalloc`, `Requests` | WF of the steps of a call that has begun | sequential code |
| `SpinLocks` | WF of `Running(t)`: a thread that is locking or has the lock goes on | the scheduler; a spinning thread is never disabled, so weak fairness lets it starve while others take the lock again and again, and `NoIdleWait` claims no more than that this is the only way |
| `Mparams` | WF of a thread's steps inside a call | the same |
| `GlobalLock` | WF of the child's steps; SF of a thread's steps inside | a pthread mutex admits every waiter at some time |

Nothing is assumed about clients, which may stop calling at any time, nor about
the system's answers.

## Proofs

The theorems hold for every value of the constants that the named assumptions of
the modules allow. For the port these are both word sizes, any `USIZE_MAX` (at
least 1023, one less than a multiple of 64), and any configuration, client and
system within `ConfigAssumption`: requests up to `USIZE_MAX`, any alignments that
are powers of two (`Layout`, which `lib.rs` takes, admits no others), any pads, any
power-of-two granularity the setter accepts up to the largest power of two of a
`usize`, regions at any places and of any surplus. TLC evaluates the assumptions
in every run of `MCDlmalloc`. Some theorems have a hypothesis of their own, given
below with its reason; the runs satisfy each of them.

| Theorem | States | Hypothesis |
|---|---|---|
| `TypeCorrect` | `TypeOK` | |
| `SizesNeverWrap` | `NoWrap` | `AlignmentsFit` |
| `CountdownNeverWraps` | `CountdownRuns` | |
| `HeapStructured` | the five parts of `HeapOK` about the heap | `AlignmentsFit` |
| `HeapConsistent` | `HeapOK` | `AlignmentsFit`, `WholePages(P)` |
| `BlocksStayServed` | `BlocksOK` | `AlignmentsFit` |
| `SegmentsStaySound` | `SegmentsSound` | `AlignmentsFit` |
| `ExternStaysApart` | `ExternKept` | `AlignmentsFit` |
| `ContractKept` | `KeepsContract`: the port implements `AllocatorSpec` | `AlignmentsFit` |
| `ContractIsSound` | the contract keeps blocks disjoint, aligned and in granted memory | |
| `LockGuardsHeap` | `HeapGuarded` | `~ AtforkFails` |
| `WasmRegionsApart` | `RegionsApart` | |
| `LocksKeepPromise` | `KeepsPromise`: both spin locks implement `Mutex` | `Returning[TRUE] = {}` |
| `InitialisedWhenRead`, `OneThreadInMalloc`, `ChildFindsAreaWhole` | `ReadsInitialised`, `OneInMalloc`, `ChildSound` | `Setup` |
| `GranulesStayWhole` | `WholeGranules` | `Setup`, `NeedsNumbers` |
| `FootprintStaysCounted` | `FootprintCounted` | `AlignmentsFit` |
| `ArgumentsServed`, `RoomForEveryBlock` | `Served`, `RoomForBlock` | `AlignmentsFit` (that of `RequestsProofs`), `PagesFit` |
| `RingsAlways`, `SmallBinsSound` | the small bins are rings; the small bins' part of `BinsOK` | |
| `MostRecentKept` | `MostRecentFit`: the small bins implement `FreeChunks` | |
| `WaysAlwaysPart` | `WaysPart` | `XHolds`, `PowersDouble` |

`AlignmentsFit` (`HeapLemmas`) says that `max_request` leaves room for every alignment a
client asks for, so that the subtraction at l. 660 does not wrap (see the notes below the
findings). It holds of
every alignment when granularities are at most a quarter of the address space, so of
all that are used; what it excludes is a granularity of half of it together with an
alignment of about as much. `HeapConsistent` and the others need it because a request that
has wrapped is not the one `memalign` goes on with.

### The heap of the port

`HeapOK` is not inductive, nor are `BlocksOK` and `SegmentsSound` each alone: where
a chunk ends says nothing without the segments, a segment's record is a chunk
that must be in use without being anyone's block, and what a step finds depends
on what an earlier step of the same call has promised it. The inductive
invariant `IInv` (`HeapProofs`) says of an allocator that is in use:

- `HeapSound`: the chunks tile the segments, tags agree, free chunks are joined
  and in exactly one place, `dvsize` and `topsize` are what the headers say, and no
  chunk lies behind top in its segment (`Sound`, `HeapLemmas`, stated of any
  memory, bins, victim and top, so that it can be said of the half-way states
  inside a step).
- `TopInv`: there is a top exactly if there is a segment, in the newest one, which
  has no record yet.
- `SegsInv`: segments are disjoint, above `least_addr`, and each but the newest holds
  its record.
- `OwnersInv`: a chunk in use is a block of the client's, the chunk the call has in
  hand, a record or a fencepost, and only one of these; this is what "nothing
  leaks" and "free accepts it" rest on.
- `BlocksInv`: the chunk of a block has room for it and at most two minimal chunks
  too many (so that `validate_size` accepts it), and the block is aligned.
- `FrameInv`: what the frame of a call promises the part of the call that runs
  next. Without it `MemalignLead` could not know that the chunk it cuts is long
  enough for the lead and the block, nor `MemalignTail` that the block is aligned
  by now, nor a moving `realloc` that the old block is still the client's.

The proof that a step keeps `IInv` has one lemma for each action. Below them lie
the lemmas about operators. The most used are those that write one head
(`WriteHead`): a step of the allocator turns one chunk into two or two into one,
so that its effect is that the stretch between two chunk borders is tiled anew,
while everything outside is left alone. `HeapLemmas` has this for taking from a
free chunk, from the victim and from top, for splitting a used chunk and giving
back a part, and for freeing with both neighbours (`GrowTop`, `GrowDv`, `GrowBin`,
of `free` and of `dispose_chunk`). It has the same for the system's side:
a new top in a new region, a segment extended at its end, a region put before a
segment and its first chunk joined with the first of the old one or not, the
record and the fenceposts of a segment that is no longer the newest, a top that is cut
at a place a trim may cut, a whole segment that goes.

From `IInv` follow `HeapStructured`, `BlocksStayServed` and `SegmentsStaySound`
without any further hypothesis: also with tiny granularities, with a system that places
regions anywhere, refuses and takes back at any time.

`HeapConsistent` adds `NoCorruption`: that a release pass never takes a small chunk
for a large one. It is false with granularities below a page (finding 1, run
`subpage`). The hypothesis `WholePages(P)` is what `set_granularity` describes as the
ordinary case: the default and every accepted granularity, and what the system adds
to a request, are multiples of some `P` of at least 512. Then every segment is
(`PagesInv`, kept through growing and trimming), and one that is free from end to
end is longer than 256 bytes, beyond the small bins.

`ExternStaysApart` is about a step and needs `IInv` for one thing only: that segments are
disjoint, so that the segment which a region joins or a pass removes is not the EXTERN one.
A step that trims or releases asks for EXTERN's bit as it is stored, and one that joins a
region compares `sys_flags` of the segment with the region's flags (l. 477, 490): where
these agree and the region is EXTERN, the segment's own flags look like it
(`LooksExtern`), which is the exception of `ExternKept`.

`FootprintStaysCounted` is about a sum over a list of any length. `held` is a
recursive function, not an operator, and induction along the list is done by the
least counterexample: every set of natural numbers has a least element, which the
library proves from the well-foundedness of `<`. So `held` exists for every list and
obeys the laws the steps need: a segment put in front, one resized, one taken out.
The steps themselves need `IInv`, because a segment that grows is the one `TopInv`
says holds top, or the one that is found to begin where the region ends.

### The port implements its contract

`ContractKept` shows that every step maps to a step of `AllocatorSpec` or to a
stutter, with the client's blocks for `blocks` and the segments for `regions`.

- The contract says of single blocks what `IInv` says of the heap: `GoodBlocks`
  derives it (blocks lie in a segment, aligned and apart, because they are chunks
  of a tiling). `GoodNow` and `GoodNext` say it of both ends of a step.
- A step that hands out a block: the place lies where no block was, inside what
  the segments are after the step. `Vacant(p)` says that `p` is free, or new memory,
  and each path of `malloc` and `sys_alloc` takes a vacant place (`MallocVacant`);
  `GrowthGranted` shows that what the segments gain is a new, disjoint region.
- A step that resizes: the block keeps its place, no other block changes (`ResizeKeeps`).
- A step that frees: one block goes (`FreeKeeps`). Everything else (`SameKeeps`) changes no
  block, and what it takes from the segments, no block lies in.

Together with `ContractIsSound` the chain is closed for the port, for all values
of the constants: the code's steps as modelled implement the contract, and the contract
keeps every block intact.

### Types, sizes and the countdown

- `TypeCorrect`: `TypeOK` is inductive. The proof takes it apart by what a step
  writes (heap, system side, counters, configuration, call, blocks); each
  operator gets a lemma and each action a lemma that uses them. It needs more than
  bookkeeping in two places: rounding to the granularity and to an alignment
  divides by numbers that must be positive, which is why `TypeOK` says that the
  granularity is one the setter accepts; and `raised` makes every alignment positive.
- `SizesNeverWrap`: the invariant `Bounded` adds that the granularity is at most
  half the address space and that the frame of a reallocation holds a size a
  moving one may ask for. What is then left is arithmetic: a power of two that is at
  least the alignment is a multiple of it (`Granules`), so the limit in
  `max_request` is a multiple and clearing a bit of it loses nothing that a
  padded request could use (`ClearBit`, `RequestFits`); small requests are not held
  against the limit but are small enough (`SmallRequestFits`); an over-aligned
  request stays a size (`AlignedRequestFits`), because what `memalign` subtracts and adds
  in a `usize` does not wrap (`AllocateFits`, the only use of `AlignmentsFit`).
- `CountdownNeverWraps`: a free must know that the countdown was started. `Counting`
  adds that an allocator without segments has nothing at all, so that only
  `SysAllocInit`, which starts the countdown, leads out of that state; and that a
  pass looks only at segments after the first, so that it never empties the list.

### Locks, forks and wasm

- `LockGuardsHeap`: `LockInv` says which thread has the mutex at which place, through
  the handlers of a fork, and that the handlers are there whenever a fork may run;
  `ChildWhole` that no child was copied in the middle of a call. `~ AtforkFails`: the
  code ignores the result of `pthread_atfork` (see the notes below the findings).
- `WasmRegionsApart`: `WasmInv` keeps the linker's memory below what `memory.grow`
  gives, given at most once, and every region below the end of memory.
  `WasmAssumption` has what a wasm module guarantees about them.
- `LocksKeepPromise`: `SpinInv` says which thread owns the word at which of its
  accesses, that the owner's id in the recursive lock is only another thread's
  after that thread has gone for good, and how deep it is nested. The hypothesis
  excludes threads that come back for the recursive lock, for which the theorem
  is false (finding 2); for the plain lock every thread may come back.
- `InitialisedWhenRead`, `OneThreadInMalloc`, `ChildFindsAreaWhole`: `ParamInv` has the
  order in which one thread fills in `mparams` and writes `magic` last, the single winner
  of the race for the lock of locks, who has which lock where, that the handlers are there
  before `magic` is, and only the thread that is about to write it stands between
  (`Registered`), and what the threads were doing that a child does not have (`Forked`).
  So a child may find the global lock taken by one that was in `init_mparams`, never by one
  in MORECORE, which would have had the lock of the main area as well. `Setup` says what
  builds and callers of `mallopt` are like: granularities are multiples of the page that leave
  room for the padding in the address space (`Leaves`), no threshold of zero is asked for.
- `GranulesStayWhole`: what a thread has read first is, like what it reads then, a
  multiple of the page and a power of two (`Granules`, on top of `ParamInv`). Whichever of
  the two values is used in which place, the mask leaves a multiple of the page; where
  both are the same and the result is not refused, it covers what was asked for
  (`RoundedUp`). `NeedsNumbers`: what is needed is a number of bytes that leaves room for
  the padding.

### Requests and bins of `dlmalloc.c`

- `ArgumentsServed`, `RoomForEveryBlock`: `RequestsInv` says for each place in a call what
  has been promised to the rest of it: that the number which is doubled is a power of two
  and divides the range of `size_t`, so that it reaches the alignment or wraps to 0 and
  never passes it by (`Climbing`); that what is asked of `malloc` is the promise or
  `MAX_SIZE_T`, which fails; that the padded request covers block, alignment and least chunk
  (`PaddedEnough`). The hypotheses exclude what
  the notes below the findings say of l. 4891 and l. 5297: an alignment above the highest
  power of two, and a size in the last page.
- `RingsAlways`: `RingsInv` says that the links are those of 32 lists of chunks. It is stated
  with `Rings`, which follows the links the way `Ring` does, so it needs no history; that a
  walk of at most as many steps as there are chunks comes round is a lemma
  (`RingOfFound`). `PushedLinks` and `RemovedLinks` show that what `insert_small_chunk`,
  `unlink_small_chunk` and `unlink_first_small_chunk` store are the links of the lists with
  one chunk more or less, also when the ring becomes empty and its header keeps stale links.
- `MostRecentKept`: the queue of a size is the ring of its bin. Sizes and requests are multiples
  of 8 and bins 8 apart, so each bin has one size, and the least marked bin that is not below
  the request's is the least size that fits (`FitsAreCandidates`).
- `WaysAlwaysPart`: a size of bin `2 * K + b` is `2 + b` times 2^(K + 7) and a rest (`SizeParts`),
  and the shift brings just that rest to the top of the word. `WayInv` says of two ways at the
  same node that the sizes agree above the bits that are left; so while the next bits are equal
  there is another one, and where they differ the smaller size has the 0. `XHolds` is what
  the note on l. 2835 is about: X must hold the shifted size. `PowersDouble` says that
  2^(n + 1) is twice 2^n up to the width of `size_t`; the provers know no law of
  exponentiation. TLC evaluates it in the run `bins`.

The inductive invariants `Bounded`, `Counting`, `LockInv`, `WasmInv`, `ParamInv`,
`Granules`, `SpinInv`, `IInv`, `RequestsInv`, `RingsInv` and `WayInv` were checked with TLC
on the instances of the runs before they were proved.

### Only model-checked

- Liveness under fairness: `CallsReturn`, `NoIdleWait`, `InitEnds`,
  `CallReturns`, `ChildServed` are beyond the prover.
- The modules with RECURSIVE operators: `TreeBins` (`LeastRecentFit` and the trees' part of
  `BinsOK`), and `CHeap` with what extends it, so `DlmallocC` and `Mspaces`. The prover has no
  SMT backend there.
- `BinMaps` (`LeastBinFound` and the maps), whose operators are those of `Bitwise`.
- What a walk over the heap computes for any input (`CChecks`): it is recursive as well.

## Findings

Each is a run that TLC ends with a violation of what the repository says.

1. `subpage` (`dlmalloc.rs`) - `release_unused_segments` takes the only chunk of a
   segment to be a large one and calls `unlink_large_chunk` (l. 1432) on it. With a
   sub-page granularity, which `set_granularity` documents as intentionally allowed
   (l. 172) and of which a test says that "dlmalloc itself must remain
   consistent" (l. 2091-2094), a segment can be smaller than a large chunk; the
   chunk then sits in a small bin and the tree fields read from it are whatever
   follows its header.
2. `recstale` (`dlmalloc.c`) - the recursive spin lock clears its word but not the
   owner's id on release. A thread that had the lock before and comes back may find
   the word set by another thread that has not yet written its own id (l. 1932-1933),
   takes the lock for nested (l. 1938), and both are inside. While no thread comes
   back, the lock is sound: `KeepsPromise` of the run `threads`.
3. `ciallocsplit` (`dlmalloc.c`) - `ialloc` allocates the aggregate and takes the lock
   again only to split it (l. 5021-5027). When the chunk before is freed in between,
   the first element's head says that it is in use (l. 5056): two free chunks are
   never joined and a free chunk's neighbour denies it, against l. 3253 and l. 3436.

The following was met while modelling. The passing runs make the first eight happen or
name them: their properties have the exception written out, and the configuration shows
what it hides. Where constants of a run show one of the others, they are named.

- `dlmalloc.rs` l. 477, 490 (`MCExternflags.cfg`): `sys_flags` of the old segment (shifted
  right by one) is compared with the unshifted flags of the new region, so a region flagged
  EXTERN only (1) is merged into a segment with the lowest flag of the system's own (2) and
  loses the bit, against `lib.rs` l. 36-37. `ExternKept` shows that this is the only way. The
  crate's own systems return 0 only.
- `dlmalloc.rs` l. 660 (`MCWidealign.cfg`): `max_request() - alignment` wraps when the
  alignment is above the limit, and so does the sum at l. 664: a small chunk is handed out
  for a large request, against `lib.rs` l. 333-338. It takes a granularity of half the
  address space, which the setter accepts, and such an alignment, which of the public
  functions only `c_memalign` can pass on with a size that is not zero. In a debug build the
  subtraction panics.
- l. 5019-5023 (`MCDoubly.cfg`): `ialloc` switches direct mapping off and on again without
  the lock. Of two calls at once the second saves the flag the first has cleared, the first
  restores it, and the second's aggregate is mmapped, against l. 5015-5017 and the assertion
  at l. 5031.
- l. 3866-3878 (`MCLimitremap.cfg`): growing a mapping by `mremap` does not ask for the
  footprint limit, against l. 1002-1004. `LimitKept` shows that it is the only way past it.
- l. 3865 (`MCShifted.cfg`): `mmap_resize` computes the new size without the offset of a
  chunk that `memalign` has moved up in its mapping, then takes the offset off it (l. 3870):
  the block may get less room than it asked for, against l. 873-876.
- l. 2671 (`MCGranules.cfg`): `granularity_align` reads the granularity twice while `mallopt`
  may change it (l. 3197, no lock). What is asked of the system may then be less than the
  request and its padding, against l. 4072-4073. `WholeGranules` shows that nothing worse
  can happen to it: it stays whole pages, and short only after such a change.
- l. 3153 (`MCForkinit.cfg`): `init_mparams` registers the handlers before it writes `magic`
  (l. 3178), with `malloc_global_mutex` held, which `pre_fork` (l. 3091) does not take. The
  child of a fork in between has no parameters, and its first call waits at l. 3103 for a
  thread it does not have; l. 281-283 say what the handlers are for. `ChildSound` and
  `InitEnds` say which forks do this, and that the child of any other goes on.
- l. 4891 (`MCDoubling.cfg`): `internal_memalign` doubles up to the alignment; above the
  highest power of two of `size_t` the doubled number becomes 0 and stays 0, against
  l. 916-917. `CallReturns` shows that all other calls come back.
- l. 3509: `mallinfo` counts the segments' feet and records as `hblkhd`, which
  l. 1058 calls the bytes in mmapped regions.
- l. 4120: when a second `sbrk` completes a granule, nobody asks whether its answer
  follows the first. Under `races`, a foreign piece of the break may become part of
  a segment; `SystemSound` excludes foreign memory only without them.
- l. 5297: `pvalloc` of a size in the last page of `size_t` rounds to 0. `Served` fails
  with `Bytes` up to 255 in `requests`.
- l. 5354: `set_footprint_limit(0)` says "Use minimal size" and lifts the limit, because
  the next `if` has no `else` before it.
- l. 5411, 5441: `create_mspace_with_base` takes a capacity that, once the base is aligned,
  is too small for top, or that is odd. `SpacesChecked` fails in `OnBase` with a base of
  2052 and a size of 153, and with a size of 511.
- l. 5460: a chunk that was mmapped before tracking was switched on stays untracked, so that
  `destroy_mspace` does not unmap it; `NothingLeaks` speaks of spaces that have
  tracked their chunks from the first (`tracked`).
- l. 2835: the gcc version of `compute_tree_index` keeps the shifted size in an `unsigned int`,
  so sizes from 2^40 on get a wrong bin. `WaysPart` fails in `bins` with `UINT_BITS = 18`; there
  the width is such that no size is cut off (`XHolds`).
- `unix.rs` l. 123: the result of `pthread_atfork` is ignored. With `AtforkFails = TRUE`
  `HeapGuarded` and `ChildServed` fail.
- `wasm.rs` l. 70: a region that ends with the address space is sixteen bytes short of
  whole pages, also when all of them were asked for (`lib.rs` l. 33: "at least").

## What is left out

- Payloads: the zeroing of `calloc` and the copying of `realloc`. That source
  and destination do not overlap is part of the contract.
- In the port: `max_footprint` (a statistic), the accessors, the debug checks (their
  assertions are the invariants), mmapped chunks (nothing creates one), the windows,
  xous and dummy system allocators (single calls, covered as environments).
- In C: `mspace_calloc`, `mspace_realloc_in_place` and the wrappers of statistics and limits
  for mspaces, which repeat the global functions; recovery from a corrupted heap
  (`PROCEED_ON_ERROR`, `reset_on_error`), since the clients here keep the contract;
  `win32mmap` and its like; what `malloc_stats` prints; the yields and back-off of the spin
  locks; the sizes of `ialloc` that wrap when multiplied; pthread and win32 locks,
  which are the system's. `bulk_free` joins neighbours that follow each other in the
  array and frees one chunk after the other, all under one lock.
- Weak memory: memory is sequentially consistent.
- `CanRelease = FALSE` (a system that takes nothing back) is a constant of `Dlmalloc`
  that the runs do not set, since a refusal at every release is among the behaviours
  with TRUE.
- Tests and fuzzer were read for how the API is called.

## Plan

Modelled, checked and proved: everything above. What a next step would be, in this order:

1. `TreeBins` with recursive functions for its walks, as `SmallBins` has one for its rings;
   then the trees' part of `BinsOK` can be proved with the lemmas about two ways
   down a tree, and `LeastRecentFit` like `MostRecentFit`.
2. The same for `CHeap`: the walk that `Then` makes over outcomes is the only one that is not
   over a list. The lemmas of `HeapLemmas` about tilings are stated of any memory and carry over.
3. `BinMaps` over functions from bits to {0, 1}, for which the tricks with the lowest bit are
   arithmetic.

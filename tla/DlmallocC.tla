----------------------------- MODULE DlmallocC -----------------------------
(***************************************************************************)
(* dlmalloc.c with its global malloc_state, compiled with USE_LOCKS, and   *)
(* the threads that call it.  What a call does between taking the lock and *)
(* leaving it is one step (SpinLocks says why): malloc, free, trim and     *)
(* bulk_free are one; realloc, memalign and the independent_ functions are *)
(* several, and other threads come in between, as they do where a function *)
(* touches mflags or the limit without the lock.  A client frees or        *)
(* reallocates only blocks it holds, and one at a time.                    *)
(***************************************************************************)
EXTENDS CChecks

CONSTANT Threads

Calls == scenario.calls              \* the functions that are called
Requests == scenario.requests        \* sizes asked for
Alignments == scenario.alignments    \* arguments of memalign
Elements == scenario.elements        \* what the independent_ functions are asked for, by their sizes
Pads == scenario.pads                \* arguments of malloc_trim
Limits == scenario.limits            \* arguments of set_footprint_limit
MaxBusy == scenario.max_busy         \* bound: the threads inside calls at a time
MaxLive == scenario.max_live         \* bound: the blocks the clients hold or are about to get

ASSUME ClientAssumption ==
  \A s \in Scenarios :
    /\ s.calls \subseteq {"malloc", "free", "realloc", "realloc_in_place", "memalign",
                          "independent", "bulk_free", "trim", "limit"}
    /\ \A n \in s.requests : n < MAX_REQUEST \/ n >= HALF_MAX_SIZE_T

VARIABLES
  heap,         \* _gm_, with its memory and the system
  pc, call,     \* what each thread is about to do, and its locals
  live          \* the blocks the clients hold: what they were promised, by pointer

vars == <<scenario, heap, pc, call, live>>

NoCall == [req |-> 0, size |-> 0, align |-> MALLOC_ALIGNMENT, old |-> NULL, move |-> FALSE,
           p |-> NULL, sizes |-> << >>, given |-> FALSE, was_enabled |-> FALSE, array |-> << >>]

Go(t, where, frame) == pc' = [pc EXCEPT ![t] = where] /\ call' = [call EXCEPT ![t] = frame]
Idle(t) == Go(t, "idle", NoCall)
Reached(t, where) == pc[t] = where

Keep(S) == [b \in S |-> live[b]]
With(L, b, size, align) == [x \in DOMAIN L \cup {b} |-> IF x = b THEN [size |-> size, align |-> align] ELSE L[x]]

-----------------------------------------------------------------------------
(* Calls                                                                     *)

\* Blocks no call is working on.
Mine == DOMAIN live \ {call[t].old : t \in Threads}
Pending(t) == IF pc[t] \in {"idle", "free", "bulk", "trim", "realloc"} THEN 0
              ELSE IF call[t].sizes # << >> THEN Len(call[t].sizes) + 1 ELSE 1
Room(n) == Cardinality(DOMAIN live) + MapThenSumSet(Pending, Threads) + n <= MaxLive

Asking(size, align, req) == [NoCall EXCEPT !.size = size, !.align = align, !.req = req]

CallMalloc(t) ==
  /\ "malloc" \in Calls /\ Room(1)
  /\ \E n \in Requests : Go(t, "malloc", Asking(n, MALLOC_ALIGNMENT, n))
  /\ UNCHANGED live

CallMemalign(t) ==
  /\ "memalign" \in Calls /\ Room(1)
  /\ \E n \in Requests, a \in Alignments :
       ~ memalign_refused(a, n) /\ Go(t, "malloc", Asking(n, a, memalign_request(a, n)))
  /\ UNCHANGED live

CallFree(t) ==
  /\ "free" \in Calls
  /\ \E b \in Mine : live' = Keep(DOMAIN live \ {b}) /\ Go(t, "free", [NoCall EXCEPT !.p = b])

CallRealloc(t) ==
  /\ \E b \in Mine, n \in Requests, f \in {"realloc", "realloc_in_place"} \cap Calls :
       /\ n < MAX_REQUEST
       /\ Go(t, "realloc",
             [Asking(n, MALLOC_ALIGNMENT, n) EXCEPT !.old = b, !.move = (f = "realloc")])
  /\ UNCHANGED live

\* ialloc: only the first step sees whether mmap is enabled.
CallIndependent(t) ==
  /\ "independent" \in Calls
  /\ \E sizes \in Elements, given \in BOOLEAN :
       /\ Room(Len(sizes) + 1)
       /\ Go(t, "disable", [NoCall EXCEPT !.sizes = sizes, !.given = given,
                                           !.req = ialloc_request(sizes, given)])
  /\ UNCHANGED live

CallBulkFree(t) ==
  /\ "bulk_free" \in Calls
  /\ \E b, c \in Mine : \E array \in {<<b, c>>, <<b, NULL, c>>} :
       /\ b # c
       /\ live' = Keep(DOMAIN live \ {b, c})
       /\ Go(t, "bulk", [NoCall EXCEPT !.array = array])

CallTrim(t) ==
  /\ "trim" \in Calls
  /\ \E pad \in Pads : Go(t, "trim", [NoCall EXCEPT !.req = pad])
  /\ UNCHANGED live

Call(t) ==
  /\ Reached(t, "idle") /\ Cardinality({u \in Threads : pc[u] # "idle"}) < MaxBusy
  /\ \/ CallMalloc(t) \/ CallMemalign(t) \/ CallFree(t) \/ CallRealloc(t)
     \/ CallIndependent(t) \/ CallBulkFree(t) \/ CallTrim(t)
  /\ UNCHANGED <<scenario, heap>>

\* set_footprint_limit takes no lock.
SetLimit ==
  /\ "limit" \in Calls
  /\ \E n \in Limits : heap' = set_footprint_limit(heap, n)
  /\ UNCHANGED <<scenario, pc, call, live>>

-----------------------------------------------------------------------------
(* Under the lock                                                            *)

\* Mutant: a reallocation that moved does not free the old block.
moved_leaking(t, p) ==
  /\ live' = With(Keep(DOMAIN live \ {call[t].old}), chunk2mem(p), call[t].size, MALLOC_ALIGNMENT)
  /\ Idle(t)

\* The contents are copied to p; then the old block is freed.
Moved(t, p) ==
  /\ live' = With(Keep(DOMAIN live \ {call[t].old}), chunk2mem(p), call[t].size, MALLOC_ALIGNMENT)
  /\ Go(t, "free", [NoCall EXCEPT !.p = call[t].old])

\* malloc returns chunk p to its caller.
Got(t, p) ==
  LET c == call[t]
  IN  \/ c.sizes # << >> /\ Go(t, "enable", [c EXCEPT !.p = p]) /\ UNCHANGED live
      \/ c.sizes = << >> /\ p = NULL /\ Idle(t) /\ UNCHANGED live
      \/ c.sizes = << >> /\ p # NULL /\ c.old # NULL /\ Moved(t, p)
      \/ c.align > MALLOC_ALIGNMENT /\ p # NULL /\ Go(t, "align", [c EXCEPT !.p = p]) /\ UNCHANGED live
      \/ /\ c.sizes = << >> /\ p # NULL /\ c.old = NULL /\ c.align = MALLOC_ALIGNMENT
         /\ live' = With(live, chunk2mem(p), c.size, c.align)
         /\ Idle(t)

Malloc(t) ==
  /\ Reached(t, "malloc")
  /\ \E o \in malloc(heap, call[t].req) : heap' = o.h /\ Got(t, o.p)
  /\ UNCHANGED scenario

Align(t) ==
  /\ Reached(t, "align")
  /\ \E o \in align_chunk(heap, call[t].p, call[t].align, call[t].size) :
       heap' = o.h /\ live' = With(live, chunk2mem(o.p), call[t].size, call[t].align)
  /\ Idle(t) /\ UNCHANGED scenario

Free(t) ==
  /\ Reached(t, "free")
  /\ heap' \in free(heap, call[t].p)
  /\ Idle(t) /\ UNCHANGED <<scenario, live>>

\* dlrealloc takes any chunk it gets; dlrealloc_in_place only the one it had.
Realloc(t) ==
  /\ Reached(t, "realloc")
  /\ \E o \in try_realloc_chunk(heap, mem2chunk(call[t].old), request2size(call[t].size), call[t].move) :
       /\ heap' = o.h
       /\ \/ /\ o.p # NULL /\ Idle(t)
             /\ live' = With(Keep(DOMAIN live \ {call[t].old}), chunk2mem(o.p), call[t].size,
                             IF chunk2mem(o.p) = call[t].old
                             THEN live[call[t].old].align ELSE MALLOC_ALIGNMENT)
          \/ o.p = NULL /\ call[t].move /\ Go(t, "malloc", call[t]) /\ UNCHANGED live
          \/ o.p = NULL /\ ~ call[t].move /\ Idle(t) /\ UNCHANGED live
  /\ UNCHANGED scenario

BulkFree(t) ==
  /\ Reached(t, "bulk")
  /\ heap' \in internal_bulk_free(heap, call[t].array)
  /\ Idle(t) /\ UNCHANGED <<scenario, live>>

Trim(t) ==
  /\ Reached(t, "trim")
  /\ \E o \in sys_trim(heap, call[t].req) : heap' = o.h
  /\ Idle(t) /\ UNCHANGED <<scenario, live>>

-----------------------------------------------------------------------------
(* ialloc around its malloc: the first two without the lock                  *)

Disabled(h) == [h EXCEPT !.mmapping = FALSE]

Disable(t) ==
  /\ Reached(t, "disable")
  /\ heap' = Disabled(heap)
  /\ Go(t, "malloc", [call[t] EXCEPT !.was_enabled = heap.mmapping])
  /\ UNCHANGED <<scenario, live>>

Enable(t) ==
  /\ Reached(t, "enable")
  /\ heap' = [heap EXCEPT !.mmapping = @ \/ call[t].was_enabled]
  /\ IF call[t].p = NULL THEN Idle(t) ELSE Go(t, "split", call[t])
  /\ UNCHANGED <<scenario, live>>

\* The client gets the elements, and the array if it did not provide one.
Split(t) ==
  /\ Reached(t, "split")
  /\ LET c == call[t]
         els == {chunk2mem(element(c.p, c.sizes, i)) : i \in DOMAIN c.sizes}
         array == IF c.given THEN {} ELSE {chunk2mem(c.p + contents_size(c.sizes))}
         size(b) == IF b \in array THEN Len(c.sizes) * SIZE_T_SIZE
                    ELSE c.sizes[CHOOSE i \in DOMAIN c.sizes : b = chunk2mem(element(c.p, c.sizes, i))]
     IN  /\ heap' = ialloc_split(heap, c.p, c.sizes, c.given)
         /\ live' = [b \in DOMAIN live \cup els \cup array |->
                       IF b \in els \cup array THEN [size |-> size(b), align |-> MALLOC_ALIGNMENT]
                       ELSE live[b]]
  /\ Idle(t) /\ UNCHANGED scenario

-----------------------------------------------------------------------------
\* Somebody who is not malloc calls sbrk.
OtherSbrk ==
  /\ Cardinality(heap.foreign) < Foreigners /\ heap.brk + Foreign <= BREAK_END
  /\ heap' = foreign_sbrk(heap)
  /\ UNCHANGED <<scenario, pc, call, live>>

Init ==
  /\ scenario \in Scenarios
  /\ heap = no_malloc_state(1)
  /\ pc = [t \in Threads |-> "idle"] /\ call = [t \in Threads |-> NoCall]
  /\ live = << >>

Step(t) ==
  \/ Malloc(t) \/ Align(t) \/ Free(t) \/ Realloc(t) \/ BulkFree(t) \/ Trim(t)
  \/ Disable(t) \/ Enable(t) \/ Split(t)

Next == SetLimit \/ OtherSbrk \/ \E t \in Threads : Call(t) \/ Step(t)
Spec == Init /\ [][Next]_vars

-----------------------------------------------------------------------------
(* Properties *)

Mapped == {p \in DOMAIN heap.mem : is_mmapped(heap.mem, p) /\ size_of(heap, p) >= MIN_LARGE_SIZE}
MappedRegion(p) == [base |-> p - heap.mem[p].foot, size |-> munmap_size(heap, p)]
SegRegions == {[base |-> heap.segs[i].base, size |-> heap.segs[i].size] : i \in DOMAIN heap.segs}
Regions == SegRegions \cup {MappedRegion(p) : p \in Mapped}
Sizes(R) == MapThenSumSet(LAMBDA r : r.size, R)
Quiet == \A t \in Threads : pc[t] = "idle"

\* What check_malloc_state asserts, check_malloced_chunk of a chunk that a call has
\* from malloc and still works on, and check_mmapped_chunk of every mmapped chunk
\* while no call has mmap disabled.
HeapChecked ==
  /\ check_malloc_state(heap)
  /\ \A t \in Threads : pc[t] \in {"align", "enable"} /\ call[t].p # NULL =>
       check_malloced_chunk(heap, call[t].p, request2size(call[t].req))
  /\ Quiet => \A p \in Mapped : check_mmapped_chunk(heap, p)

\* Nothing leaks and nothing is in use twice: the chunks in use are the clients'
\* blocks, what calls are working on, and the records of the older segments. (An
\* mmapped chunk whose munmap is refused stays behind.)
InUseAccounted ==
  LET working == {call[t].p : t \in {u \in Threads : pc[u] \in {"align", "enable", "split"}}}
                 \cup {mem2chunk(call[t].p) : t \in {u \in Threads : pc[u] = "free"}}
                 \cup UNION {{mem2chunk(b) : b \in ToSet(call[t].array) \ {NULL}} :
                               t \in {u \in Threads : pc[u] = "bulk"}}
      records == {mem2chunk(heap.segs[i].rec) : i \in DOMAIN heap.segs \ {1}}
      used == {p \in Met(heap) : is_inuse(heap.mem, p)} \cup Mapped
  IN  "munmap" \notin MayFail =>
        used = {mem2chunk(b) : b \in DOMAIN live} \cup records \cup (working \ {NULL})

\* A block has the room and the alignment that were asked for, and no check of free
\* or realloc takes it for a usage error.
LiveServed ==
  \A b \in DOMAIN live :
    /\ usable_size(heap, b) >= live[b].size /\ b % live[b].align = 0
    /\ is_mmapped(heap.mem, mem2chunk(b)) \/ Usable(heap, mem2chunk(b))

\* l. 5015-5017 and 5031: the aggregate that ialloc splits is not mmapped, since its
\* elements could not be freed then.
AggregateInHeap ==
  \A t \in Threads : pc[t] = "split" => ~ is_mmapped(heap.mem, call[t].p)

\* The footprint is what the segments and the mmapped chunks take, exactly the
\* pages that are mapped and a part of the break that is ours, if nobody moves the
\* break between two calls of sys_alloc. Each older segment holds its own record,
\* so that unmapping it takes no other's.
SystemSound ==
  /\ heap.footprint = Sizes(Regions)
  /\ heap.pages = UNION {PagesOf(r.base, r.size) : r \in {s \in Regions : s.base >= BREAK_END}}
  /\ \A r \in Regions : r.base < BREAK_END =>
       /\ BREAK <= r.base /\ r.base + r.size <= heap.brk
       /\ ~ RACES => \A f \in heap.foreign : r.base + r.size <= f.base \/ f.base + f.size <= r.base
  /\ \A r, s \in Regions : r = s \/ r.base + r.size <= s.base \/ s.base + s.size <= r.base
  /\ \A i \in DOMAIN heap.segs \ {1} : segment_holds(heap.segs[i], heap.segs[i].rec)

\* The statistics account for what the clients hold, and for little besides:
\* the feet and records of the segments. inspect_all shows every block.
StatsAgree ==
  LET used == stats_used(heap)
      held == MapThenSumSet(LAMBDA b : size_of(heap, mem2chunk(b)), {b \in DOMAIN live : mem2chunk(b) \notin Mapped})
              + Sizes({MappedRegion(p) : p \in Mapped})
  IN  Quiet => /\ held <= used /\ used <= held + Len(heap.segs) * 2 * TOP_FOOT_SIZE
               /\ internal_mallinfo(heap).uordblks = used
               /\ \A b \in DOMAIN live : mem2chunk(b) \notin Mapped =>
                    \E r \in internal_inspect_all(heap) : r.start = b /\ r.used >= live[b].size

\* l. 1000-1012: the footprint is not taken beyond the limit, neither by the break
\* nor by mapping, in no order of setting the limit and asking for memory - but for
\* mremap (l. 3866), which asks for no limit: only a realloc of a block in a mapping
\* of its own may end beyond it, and only by what that mapping grows.
LimitKept ==
  [][ heap'.footprint > heap.footprint /\ heap.footprint_limit # 0 =>
        \/ heap'.footprint <= heap.footprint_limit
        \/ \E t \in Threads :
             /\ pc[t] = "realloc" /\ mem2chunk(call[t].old) \in Mapped
             /\ heap'.footprint - heap.footprint =
                  mmap_size(request2size(call[t].size)) - munmap_size(heap, mem2chunk(call[t].old)) ]_vars

\* The same without the exception, as l. 1000-1012 have it: "the maximum number of
\* bytes to obtain from the system".
LimitNeverPassed ==
  [][ heap'.footprint > heap.footprint /\ heap.footprint_limit # 0 =>
        heap'.footprint <= heap.footprint_limit ]_vars

\* Trimming leaves the pad asked for at the end of the heap.
TrimKeepsPad ==
  [][ \A t \in Threads : pc[t] = "trim" /\ heap'.topsize # heap.topsize =>
        heap'.topsize >= call[t].req ]_vars

\* The allocator keeps the contract of AllocatorSpec. The calls that take or give
\* several blocks at once, and mremap, which moves a block and its region in one
\* step, are outside it.
InContract == ~ HAVE_MREMAP /\ Calls \cap {"independent", "bulk_free"} = {}
Contract == INSTANCE AllocatorSpec WITH
              blocks <- IF InContract THEN live ELSE << >>,
              regions <- IF InContract THEN Regions ELSE {}
KeepsContract == Contract!Spec
=============================================================================

------------------------------ MODULE Dlmalloc ------------------------------
(***************************************************************************)
(* dlmalloc::Dlmalloc<A>: one allocator, its heap and the system allocator *)
(* A it grows from, driven by a client that keeps to the API's contracts.  *)
(*                                                                         *)
(* A call is a few steps, one for each place where the code branches on    *)
(* the state it finds: malloc takes one of its paths; memalign is malloc   *)
(* followed by giving back what lies before and behind the aligned block;  *)
(* realloc either resizes in place or is malloc followed by free; free may *)
(* go on to trim and to release segments.  `pc` says which part comes next *)
(* and `call` is that call's frame.                                        *)
(*                                                                         *)
(* The bins are here the set of the free chunks they hold: which chunk of  *)
(* the right size a bin hands out is left open.                            *)
(***************************************************************************)
EXTENDS Chunks, Sequences, FiniteSets, FiniteSetsExt, Functions

CONSTANTS
  DEFAULT_GRANULARITY,       \* 64 KiB in the code
  DEFAULT_TRIM_THRESHOLD,    \* 2 MiB in the code
  DEFAULT_RATE,              \* max_release_check_rate, 4095 in the code
  Granularities,             \* what set_granularity is called with
  Rates,                     \* what set_max_release_check_rate is called with
  Requests,                  \* sizes the client asks for
  Alignments,                \* alignments it asks for beyond the natural one
  Pads,                      \* arguments of trim
  OSBases,                   \* where A::alloc may place a region
  OSSurplus,                 \* how much more than asked it may return
  OSFlags,                   \* flags it may return
  CanRelease,                \* what A::can_release_part answers
  MaxLive,                   \* bound: blocks the client holds at once
  MaxCountdown               \* bound: decrements of a disabled countdown

ASSUME ConfigAssumption ==
  /\ is_power_of_two(DEFAULT_GRANULARITY) /\ DEFAULT_GRANULARITY >= MIN_GRANULARITY
  /\ DEFAULT_GRANULARITY \in Nat /\ Granularities \subseteq Nat
  /\ \A g \in Granularities \cup {DEFAULT_GRANULARITY} :
       g <= (USIZE_MAX + 1) \div 2                      \* the largest power of two of a usize
  /\ DEFAULT_TRIM_THRESHOLD \in Nat
  /\ DEFAULT_RATE \in Nat /\ Rates \subseteq Nat
  /\ Requests \subseteq 0..USIZE_MAX /\ Pads \subseteq Nat
  /\ Alignments \subseteq Nat /\ \A a \in Alignments : is_power_of_two(a)
  /\ OSBases \subseteq Nat \ {NULL} /\ OSSurplus \subseteq Nat /\ OSFlags \subseteq Nat
  /\ \A a \in OSBases \cup OSSurplus : a % 8 = 0    \* the three FLAG_BITS stay clear
  /\ CanRelease \in BOOLEAN
  /\ MaxLive \in Nat /\ MaxCountdown \in Nat

VARIABLES
  mem,              \* chunk headers by address
  bins,             \* the chunks in the small bins and in the tree bins
  dv, dvsize,       \* the designated victim
  top, topsize,     \* the chunk at the end of the newest segment
  segs,             \* the segments, newest first; the first is self.seg
  footprint,        \* bytes obtained from the system
  trim_check,       \* free trims when top grows beyond this
  least_addr,       \* the lowest address ever obtained
  release_checks,   \* large frees until the next release pass
  granularity, max_release_check_rate,
  pc, call,         \* the part of the call that runs next, and its frame
  live,             \* client: the blocks it holds, by pointer
  externs           \* system: the regions it handed out flagged EXTERN

config == <<granularity, max_release_check_rate>>
heap == <<mem, bins, dv, dvsize, top, topsize>>
system == <<segs, footprint, least_addr, externs>>
counters == <<trim_check, release_checks>>
vars == <<heap, system, counters, config, pc, call, live>>

-----------------------------------------------------------------------------
(* Segments *)

\* A segment: [base, base + size), the system's flags, and where its record lies.
segment(base, size, flags, rec) == [base |-> base, size |-> size, flags |-> flags, rec |-> rec]

EXTERN(flags) == flags % 2 = 1
sys_flags(seg) == seg.flags \div 2
segment_top(seg) == seg.base + seg.size
holds(seg, addr) == seg.base <= addr /\ addr < segment_top(seg)

Segs == {segs[i] : i \in DOMAIN segs}

\* The position of the first segment that holds addr, if there is one.
segment_holding(addr) ==
  {i \in DOMAIN segs : holds(segs[i], addr) /\ \A j \in 1..(i - 1) : ~ holds(segs[j], addr)}

\* A record of the list lies inside the segment (the first is a static, at 0).
has_segment_link(seg) == \E s \in Segs : holds(seg, s.rec)

\* Mutant: a rate of zero is taken as it is.
target_is_rate(rate) == rate

release_check_target(rate) == IF rate = 0 THEN USIZE_MAX ELSE rate

-----------------------------------------------------------------------------
(* The end of a call *)

\* The frame of a call that asks for a chunk (`req` of malloc) for a block of
\* `size` bytes aligned to `align`, to replace block `old` if there is one.
Asking(req, size, align, old) ==
  [req |-> req, size |-> size, align |-> align, old |-> old, p |-> NULL, pad |-> 0,
   trimming |-> FALSE, released |-> FALSE, sp |-> 0, nsegs |-> 0]

NoCall == Asking(0, 0, 0, NULL)
Giving(p) == [NoCall EXCEPT !.p = p]
Trimming(pad) == [[NoCall EXCEPT !.pad = pad] EXCEPT !.trimming = TRUE]

Idle == pc' = "idle" /\ call' = NoCall

\* Start the release pass, at the segment after the newest.
Scan(frame) == pc' = "release" /\ call' = [frame EXCEPT !.sp = 2]

\* What the client is promised about the block the current call is to return.
Promise == [size |-> call.size, align |-> call.align]

\* Mutant: a reallocation that moved does not free the block it came from.
finish_leaking(p) ==
  IF p = NULL THEN Idle /\ UNCHANGED live
  ELSE Idle /\ live' = Put(Restrict(live, DOMAIN live \ {call.old}), to_mem(p), Promise)

\* The client learns the outcome of an allocation: chunk p, or nothing.  A
\* reallocation that moved goes on to free the block it came from.
Finish(p) ==
  \/ p = NULL /\ Idle /\ UNCHANGED live
  \/ p # NULL /\ call.old = NULL /\ Idle /\ live' = Put(live, to_mem(p), Promise)
  \/ /\ p # NULL /\ call.old # NULL
     /\ live' = Put(Restrict(live, DOMAIN live \ {call.old}), to_mem(p), Promise)
     /\ pc' = "free" /\ call' = Giving(from_mem(call.old))

\* dlmalloc::malloc returns chunk p to its caller: memalign, or the API.
Return(p) ==
  IF p # NULL /\ call.align > malloc_alignment
  THEN pc' = "lead" /\ call' = [call EXCEPT !.p = p] /\ UNCHANGED live
  ELSE Finish(p)

-----------------------------------------------------------------------------
(* malloc: from the bins *)

nb == request2size(call.req)
small == call.req <= max_small_request
idx == small_index(nb)
refused == ~ small /\ call.req >= max_request(granularity)

SizeOf(p) == HeaderAt(mem, p).size
SmallAt(I) == {p \in bins : is_small(SizeOf(p)) /\ small_index(SizeOf(p)) \in I}
Large == {p \in bins : ~ is_small(SizeOf(p))}
Smallest(S) == {p \in S : \A q \in S : SizeOf(p) <= SizeOf(q)}

\* The guards of the paths, each tried where those before it found nothing.
ExactBin == small /\ SmallAt({idx, idx + 1}) # {}
HigherBin == small /\ ~ ExactBin /\ nb > dvsize /\ SmallAt(idx..(NSMALLBINS - 1)) # {}
SmallFromTree ==
  small /\ ~ ExactBin /\ nb > dvsize /\ SmallAt(idx..(NSMALLBINS - 1)) = {} /\ Large # {}
Fitting == {p \in Large : SizeOf(p) >= nb}
LargeFromTree ==
  /\ ~ small /\ ~ refused
  /\ \E p \in Smallest(Fitting) : dvsize >= nb => SizeOf(p) - nb < dvsize - nb
NotFromBins ==
  pc = "malloc" /\ ~ refused /\ ~ ExactBin /\ ~ HigherBin /\ ~ SmallFromTree /\ ~ LargeFromTree

\* Mutant: a remainder is kept with the block until it is four chunks long.
splits_late(rsize) == rsize < 4 * min_chunk_size

TooSmall(rsize) == rsize < min_chunk_size

\* Chunk p, unlinked, is handed out whole; or its tail becomes the designated
\* victim, and the old victim goes to its small bin.
TakeWhole(p) ==
  /\ mem' = set_inuse_and_pinuse(mem, p, SizeOf(p))
  /\ bins' = bins \ {p}
  /\ UNCHANGED <<dv, dvsize>>

SplitIntoDv(p) ==
  LET r == p + nb
      rsize == SizeOf(p) - nb
  IN  /\ mem' = set_size_and_pinuse_of_free_chunk(
                  set_size_and_pinuse_of_inuse_chunk(mem, p, nb), r, rsize)
      /\ bins' = (bins \ {p}) \cup (IF dvsize # 0 THEN {dv} ELSE {})
      /\ dv' = r /\ dvsize' = rsize

FromBinsFrame == UNCHANGED <<top, topsize, system, counters, config>>

MallocExactBin ==
  /\ pc = "malloc" /\ ExactBin
  /\ LET i == IF SmallAt({idx}) # {} THEN idx ELSE idx + 1
     IN  \E p \in SmallAt({i}) : TakeWhole(p) /\ Return(p)
  /\ FromBinsFrame

MallocHigherBin ==
  /\ pc = "malloc" /\ HigherBin
  /\ \E p \in Smallest(SmallAt(idx..(NSMALLBINS - 1))) :
       /\ IF WORD # 4 /\ TooSmall(SizeOf(p) - nb) THEN TakeWhole(p) ELSE SplitIntoDv(p)
       /\ Return(p)
  /\ FromBinsFrame

MallocSmallFromTree ==
  /\ pc = "malloc" /\ SmallFromTree
  /\ \E p \in Smallest(Large) :
       /\ IF TooSmall(SizeOf(p) - nb) THEN TakeWhole(p) ELSE SplitIntoDv(p)
       /\ Return(p)
  /\ FromBinsFrame

MallocLargeFromTree ==
  /\ pc = "malloc" /\ LargeFromTree
  /\ \E p \in Smallest(Fitting) :
       /\ \/ TooSmall(SizeOf(p) - nb) /\ TakeWhole(p)
          \/ /\ ~ TooSmall(SizeOf(p) - nb)
             /\ mem' = set_size_and_pinuse_of_free_chunk(
                         set_size_and_pinuse_of_inuse_chunk(mem, p, nb), p + nb, SizeOf(p) - nb)
             /\ bins' = (bins \ {p}) \cup {p + nb}
             /\ UNCHANGED <<dv, dvsize>>
       /\ Return(p)
  /\ FromBinsFrame

MallocRefused ==
  /\ pc = "malloc" /\ refused
  /\ Finish(NULL)
  /\ UNCHANGED <<heap, system, counters, config>>

-----------------------------------------------------------------------------
(* malloc: from the designated victim, then from top *)

MallocDv ==
  /\ NotFromBins /\ nb <= dvsize
  /\ \/ /\ ~ TooSmall(dvsize - nb)
        /\ mem' = set_size_and_pinuse_of_inuse_chunk(
                    set_size_and_pinuse_of_free_chunk(mem, dv + nb, dvsize - nb), dv, nb)
        /\ dv' = dv + nb /\ dvsize' = dvsize - nb
     \/ /\ TooSmall(dvsize - nb)
        /\ mem' = set_inuse_and_pinuse(mem, dv, dvsize)
        /\ dv' = NULL /\ dvsize' = 0
  /\ Return(dv)
  /\ UNCHANGED <<bins, top, topsize, system, counters, config>>

\* Cut the request off the front of a top chunk of size ts at t in memory m.
TakeFromTop(m, t, ts) ==
  /\ nb < ts
  /\ mem' = set_size_and_pinuse_of_inuse_chunk(SetHead(m, t + nb, ts - nb, TRUE, FALSE), t, nb)
  /\ top' = t + nb /\ topsize' = ts - nb
  /\ Return(t)

MallocTop ==
  /\ NotFromBins /\ nb > dvsize
  /\ TakeFromTop(mem, top, topsize)
  /\ UNCHANGED <<bins, dv, dvsize, system, counters, config>>

-----------------------------------------------------------------------------
(* sys_alloc: nothing the allocator has will do *)

NeedsSystem == NotFromBins /\ nb > dvsize /\ nb >= topsize

\* The regions the system may answer with: at least what is asked for, in
\* memory that is not mapped.
asize == align_up(nb + top_foot_size + malloc_alignment, granularity)
Regions ==
  {r \in [base : OSBases, size : {asize + e : e \in OSSurplus}, flags : OSFlags] :
     /\ segment_top(r) <= USIZE_MAX
     /\ \A s \in Segs : segment_top(r) <= s.base \/ segment_top(s) <= r.base}

\* Mutant: the region is not counted.
obtained_uncounted(r) == UNCHANGED <<footprint, externs>>

Obtained(r) ==
  /\ footprint' = footprint + r.size
  /\ externs' = IF EXTERN(r.flags)
                THEN externs \cup {[base |-> r.base, size |-> r.size]} ELSE externs

\* init_top: where the top chunk starts in [ptr, ptr + size), and its size.
TopAt(ptr) == align_as_chunk(ptr)
TopSize(ptr, size) == size - (align_as_chunk(ptr) - ptr)
InitTop(m, ptr, size) == SetHead(m, TopAt(ptr), TopSize(ptr, size), TRUE, FALSE)

\* Mutant: a region joins an EXTERN segment.
matches_flags_only(s, r) == sys_flags(s) = r.flags

Matches(s, r) == ~ EXTERN(s.flags) /\ sys_flags(s) = r.flags

ExtendedBy(r) ==
  {i \in DOMAIN segs : segment_top(segs[i]) = r.base /\ Matches(segs[i], r) /\ holds(segs[i], top)}
PrecededBy(r) == {i \in DOMAIN segs : segs[i].base = segment_top(r) /\ Matches(segs[i], r)}

SysAllocFails ==
  /\ NeedsSystem
  /\ Finish(NULL)
  /\ UNCHANGED <<heap, system, counters, config>>

SysAllocInit ==
  /\ NeedsSystem /\ top = NULL
  /\ \E r \in Regions :
       /\ Obtained(r)
       /\ least_addr' = IF least_addr = NULL \/ r.base < least_addr THEN r.base ELSE least_addr
       /\ segs' = << segment(r.base, r.size, r.flags, NULL) >>
       /\ LET size == r.size - top_foot_size
          IN  TakeFromTop(InitTop(mem, r.base, size), TopAt(r.base), TopSize(r.base, size))
  /\ release_checks' = release_check_target(max_release_check_rate)
  /\ trim_check' = DEFAULT_TRIM_THRESHOLD
  /\ UNCHANGED <<bins, dv, dvsize, config>>

SysAllocExtend ==
  /\ NeedsSystem /\ top # NULL
  /\ \E r \in Regions : \E i \in ExtendedBy(r) :
       /\ Obtained(r)
       /\ segs' = [segs EXCEPT ![i] = segment(@.base, @.size + r.size, @.flags, @.rec)]
       /\ LET size == topsize + r.size
          IN  TakeFromTop(InitTop(mem, top, size), TopAt(top), TopSize(top, size))
  /\ trim_check' = DEFAULT_TRIM_THRESHOLD
  /\ UNCHANGED <<bins, dv, dvsize, least_addr, release_checks, config>>

\* prepend_alloc: the request at the start of the new region, the rest of which
\* joins the first chunk of the segment it now belongs to.
SysAllocPrepend ==
  /\ NeedsSystem /\ top # NULL
  /\ \E r \in Regions : \E i \in PrecededBy(r) :
       LET p == align_as_chunk(r.base)
           oldfirst == align_as_chunk(segs[i].base)
           q == p + nb
           qsize == oldfirst - p - nb
           m == set_size_and_pinuse_of_inuse_chunk(mem, p, nb)
           nsize == SizeOf(oldfirst)
       IN  /\ ExtendedBy(r) = {}
           /\ Obtained(r)
           /\ least_addr' = Min({r.base, least_addr})
           /\ segs' = [segs EXCEPT ![i] = segment(r.base, @.size + r.size, @.flags, @.rec)]
           /\ \/ /\ oldfirst = top
                 /\ mem' = SetHead(m, q, topsize + qsize, TRUE, FALSE)
                 /\ top' = q /\ topsize' = topsize + qsize
                 /\ UNCHANGED <<bins, dv, dvsize>>
              \/ /\ oldfirst # top /\ oldfirst = dv
                 /\ mem' = set_size_and_pinuse_of_free_chunk(m, q, dvsize + qsize)
                 /\ dv' = q /\ dvsize' = dvsize + qsize
                 /\ UNCHANGED <<bins, top, topsize>>
              \/ /\ oldfirst \notin {top, dv} /\ ~ inuse(mem, oldfirst)
                 /\ mem' = set_free_with_pinuse(m, q, qsize + nsize, oldfirst + nsize)
                 /\ bins' = (bins \ {oldfirst}) \cup {q}
                 /\ UNCHANGED <<dv, dvsize, top, topsize>>
              \/ /\ oldfirst \notin {top, dv} /\ inuse(mem, oldfirst)
                 /\ mem' = set_free_with_pinuse(m, q, qsize, oldfirst)
                 /\ bins' = bins \cup {q}
                 /\ UNCHANGED <<dv, dvsize, top, topsize>>
           /\ Return(p)
  /\ UNCHANGED <<counters, config>>

\* Mutant: the place for the record is not aligned.
record_anywhere(old_end) ==
  LET asp == old_end - (segment_record_size + 4 * WORD + malloc_alignment - 1)
  IN  IF asp < top + min_chunk_size THEN top ELSE asp

\* add_segment: the old segment keeps its own record near its end, behind what
\* is left of the old top, and fenceposts up to the end; the new region is top.
record_chunk(old_end) ==
  LET asp == align_as_chunk(old_end - (segment_record_size + 4 * WORD + malloc_alignment - 1))
  IN  IF asp < top + min_chunk_size THEN top ELSE asp

fenceposts(tnext, old_end) ==
  {tnext} \cup {tnext + k * WORD : k \in {n \in 1..((old_end - tnext) \div WORD) :
                                            tnext + (n + 1) * WORD < old_end}}

fencepost_head == [size |-> WORD, pinuse |-> TRUE, cinuse |-> TRUE, prev_foot |-> 0]

\* The memory in which chunk csp holds the old segment's record.
retired(m, csp, old_end) ==
  LET F == fenceposts(csp + segment_record_size, old_end)
      m1 == set_size_and_pinuse_of_inuse_chunk(m, csp, segment_record_size)
      m2 == [a \in DOMAIN m1 \cup F |-> IF a \in F THEN fencepost_head ELSE m1[a]]
  IN  IF csp # top THEN set_free_with_pinuse(m2, top, csp - top, csp) ELSE m2

SysAllocAddSegment ==
  /\ NeedsSystem /\ top # NULL
  /\ \E r \in Regions, oldsp \in segment_holding(top) :
       LET size == r.size - top_foot_size
           csp == record_chunk(segment_top(segs[oldsp]))
       IN  /\ ExtendedBy(r) = {} /\ PrecededBy(r) = {}
           /\ Obtained(r)
           /\ least_addr' = Min({r.base, least_addr})
           /\ segs' = << segment(r.base, r.size, r.flags, NULL) >>
                        \o [segs EXCEPT ![1] = segment(@.base, @.size, @.flags, to_mem(csp))]
           /\ bins' = IF csp # top THEN bins \cup {top} ELSE bins
           /\ TakeFromTop(retired(InitTop(mem, r.base, size), csp, segment_top(segs[oldsp])),
                          TopAt(r.base), TopSize(r.base, size))
  /\ trim_check' = DEFAULT_TRIM_THRESHOLD
  /\ UNCHANGED <<dv, dvsize, release_checks, config>>

-----------------------------------------------------------------------------
(* Giving a chunk back: what free and dispose_chunk share.  With chunks B in    *)
(* the bins of a memory m, [p, p + psize) is joined with a free chunk before    *)
(* it, then with what follows.                                                  *)

Merged(m, p) == ~ pinuse(m, p)
FirstOf(m, p) == IF Merged(m, p) THEN p - HeaderAt(m, p).prev_foot ELSE p
Joined(m, p, psize) == p + psize - FirstOf(m, p)
Unlinked(B, m, p) == IF Merged(m, p) THEN B \ {FirstOf(m, p)} ELSE B
IsDv(m, p) == Merged(m, p) /\ FirstOf(m, p) = dv

GrowTop(B, m, p, psize) ==
  LET q == FirstOf(m, p)
  IN  /\ p + psize = top
      /\ topsize' = topsize + Joined(m, p, psize)
      /\ top' = q
      /\ mem' = SetHead(m, q, topsize', TRUE, FALSE)
      /\ bins' = Unlinked(B, m, p)
      /\ IF q = dv THEN dv' = NULL /\ dvsize' = 0 ELSE UNCHANGED <<dv, dvsize>>

GrowDv(B, m, p, psize) ==
  LET q == FirstOf(m, p)
      size == Joined(m, p, psize)
      next == p + psize
      nsize == HeaderAt(m, next).size
  IN  /\ next # top
      /\ \/ /\ IsDv(m, p) /\ cinuse(m, next) /\ pinuse(m, next)
            /\ dv' = q /\ dvsize' = size
            /\ mem' = set_free_with_pinuse(m, q, size, next)
            /\ bins' = B
         \/ /\ next = dv
            /\ dv' = q /\ dvsize' = dvsize + size
            /\ mem' = set_size_and_pinuse_of_free_chunk(m, q, dvsize')
            /\ bins' = Unlinked(B, m, p)
         \/ /\ IsDv(m, p) /\ next # dv /\ ~ cinuse(m, next)
            /\ dv' = q /\ dvsize' = size + nsize
            /\ mem' = set_size_and_pinuse_of_free_chunk(m, q, dvsize')
            /\ bins' = B \ {next}
      /\ UNCHANGED <<top, topsize>>

BinnedSize(m, p, psize) ==
  Joined(m, p, psize) + (IF cinuse(m, p + psize) THEN 0 ELSE HeaderAt(m, p + psize).size)

GrowBin(B, m, p, psize) ==
  LET q == FirstOf(m, p)
      size == BinnedSize(m, p, psize)
      next == p + psize
  IN  /\ next \notin {top, dv} /\ ~ IsDv(m, p)
      /\ \/ /\ cinuse(m, next)
            /\ mem' = set_free_with_pinuse(m, q, size, next)
            /\ bins' = Unlinked(B, m, p) \cup {q}
         \/ /\ ~ cinuse(m, next)
            /\ mem' = set_size_and_pinuse_of_free_chunk(m, q, size)
            /\ bins' = (Unlinked(B, m, p) \ {next}) \cup {q}
      /\ UNCHANGED <<dv, dvsize, top, topsize>>

dispose_chunk(B, m, p, psize) == GrowTop(B, m, p, psize) \/ GrowDv(B, m, p, psize) \/ GrowBin(B, m, p, psize)

-----------------------------------------------------------------------------
(* memalign, after its malloc has returned chunk call.p *)

\* memalign never works with less than a chunk's alignment.
raised(align) == IF align < min_chunk_size THEN min_chunk_size ELSE align

\* Mutant: the chunk rather than the block is aligned.
aligned_chunk(p) == align_up(p + min_chunk_size + 1, raised(call.align))

\* The first place in chunk p where a block is aligned and the space before it,
\* if there is any, can be a chunk of its own.
AlignedIn(p) ==
  LET br == from_mem(align_up(to_mem(p), raised(call.align)))
  IN  IF to_mem(p) % raised(call.align) = 0 THEN p
      ELSE IF br - p > min_chunk_size THEN br ELSE br + raised(call.align)

MemalignLead ==
  /\ pc = "lead"
  /\ LET p == call.p
         newp == AlignedIn(p)
         leadsize == newp - p
     IN  \/ newp = p /\ UNCHANGED heap
         \/ /\ newp # p
            /\ dispose_chunk(bins,
                 set_inuse(set_inuse(mem, newp, SizeOf(p) - leadsize), p, leadsize), p, leadsize)
  /\ pc' = "tail" /\ call' = [call EXCEPT !.p = AlignedIn(call.p)]
  /\ UNCHANGED <<system, counters, config, live>>

MemalignTail ==
  /\ pc = "tail"
  /\ LET p == call.p
         n == request2size(call.size)
         rest == SizeOf(p) - n
     IN  /\ \/ rest <= min_chunk_size /\ UNCHANGED heap
            \/ /\ rest > min_chunk_size
               /\ dispose_chunk(bins, set_inuse(set_inuse(mem, p, n), p + n, rest), p + n, rest)
         /\ Finish(p)
  /\ UNCHANGED <<system, counters, config>>

-----------------------------------------------------------------------------
(* realloc: try_realloc_chunk on the block call.old, else malloc and move *)

oldp == from_mem(call.old)
oldsize == SizeOf(oldp)
newnb == request2size(call.size)
after == oldp + oldsize

\* The block stays where it is.
Resized ==
  /\ Idle
  /\ live' = [live EXCEPT ![call.old] = Promise]
  /\ UNCHANGED <<system, counters, config>>

ReallocShrink ==
  /\ pc = "realloc" /\ oldsize >= newnb
  /\ LET rsize == oldsize - newnb
         r == oldp + newnb
     IN  \/ TooSmall(rsize) /\ UNCHANGED heap
         \/ /\ ~ TooSmall(rsize)
            /\ dispose_chunk(bins, set_inuse(set_inuse(mem, oldp, newnb), r, rsize), r, rsize)
  /\ Resized

ReallocIntoTop ==
  /\ pc = "realloc" /\ oldsize < newnb /\ after = top
  /\ oldsize + topsize > newnb
  /\ top' = oldp + newnb /\ topsize' = oldsize + topsize - newnb
  /\ mem' = SetHead(set_inuse(mem, oldp, newnb), top', topsize', TRUE, FALSE)
  /\ UNCHANGED <<bins, dv, dvsize>>
  /\ Resized

ReallocIntoDv ==
  /\ pc = "realloc" /\ oldsize < newnb /\ after = dv
  /\ oldsize + dvsize >= newnb
  /\ LET dsize == oldsize + dvsize - newnb
         r == oldp + newnb
     IN  \/ /\ ~ TooSmall(dsize)
            /\ mem' = clear_pinuse(
                        set_size_and_pinuse_of_free_chunk(set_inuse(mem, oldp, newnb), r, dsize),
                        r + dsize)
            /\ dv' = r /\ dvsize' = dsize
         \/ /\ TooSmall(dsize)
            /\ mem' = set_inuse(mem, oldp, oldsize + dvsize)
            /\ dv' = NULL /\ dvsize' = 0
  /\ UNCHANGED <<bins, top, topsize>>
  /\ Resized

NextIsFree == after \notin {top, dv} /\ ~ cinuse(mem, after)

ReallocIntoNext ==
  /\ pc = "realloc" /\ oldsize < newnb /\ NextIsFree
  /\ oldsize + SizeOf(after) >= newnb
  /\ LET rsize == oldsize + SizeOf(after) - newnb
         r == oldp + newnb
     IN  \/ /\ TooSmall(rsize)
            /\ mem' = set_inuse(mem, oldp, oldsize + SizeOf(after))
            /\ bins' = bins \ {after}
            /\ UNCHANGED <<dv, dvsize, top, topsize>>
         \/ /\ ~ TooSmall(rsize)
            /\ dispose_chunk(bins \ {after},
                             set_inuse(set_inuse(mem, oldp, newnb), r, rsize), r, rsize)
  /\ Resized

ReallocMoves ==
  /\ pc = "realloc" /\ oldsize < newnb
  /\ after = top => oldsize + topsize <= newnb
  /\ after # top /\ after = dv => oldsize + dvsize < newnb
  /\ NextIsFree => oldsize + SizeOf(after) < newnb
  /\ pc' = "malloc" /\ call' = [call EXCEPT !.req = call.size]
  /\ UNCHANGED <<heap, system, counters, config, live>>

-----------------------------------------------------------------------------
(* free: chunk call.p goes back *)

FreeIntoTop ==
  /\ pc = "free"
  /\ GrowTop(bins, mem, call.p, SizeOf(call.p))
  /\ IF topsize' > trim_check
     THEN pc' = "trim" /\ call' = Trimming(0)
     ELSE Idle
  /\ UNCHANGED <<system, counters, config, live>>

FreeIntoDv ==
  /\ pc = "free"
  /\ GrowDv(bins, mem, call.p, SizeOf(call.p))
  /\ Idle
  /\ UNCHANGED <<system, counters, config, live>>

FreeIntoBin ==
  /\ pc = "free"
  /\ GrowBin(bins, mem, call.p, SizeOf(call.p))
  /\ IF is_small(BinnedSize(mem, call.p, SizeOf(call.p)))
     THEN Idle /\ UNCHANGED release_checks
     ELSE /\ release_checks' = release_checks - 1
          /\ IF release_checks' = 0 THEN Scan(NoCall) ELSE Idle
  /\ UNCHANGED <<system, trim_check, config, live>>

-----------------------------------------------------------------------------
(* sys_trim: cut the end of top off, then release whole segments *)

\* How much of top goes, when `pad` bytes and the foot must stay: all the whole
\* units of granularity but the last begun one.
extra(pad) ==
  ((topsize - pad + granularity - 1) \div granularity - 1) * granularity

TrimDeclined ==
  /\ pc = "trim" /\ (call.pad >= max_request(granularity) \/ top = NULL)
  /\ Idle
  /\ UNCHANGED <<heap, system, counters, config, live>>

TrimTop ==
  /\ pc = "trim" /\ call.pad < max_request(granularity) /\ top # NULL
  /\ LET pad == call.pad + top_foot_size
         cut == extra(pad)
     IN  \/ \* the system gives the tail back
            /\ topsize > pad
            /\ \E sp \in segment_holding(top) :
                 /\ ~ EXTERN(segs[sp].flags) /\ CanRelease
                 /\ segs[sp].size >= cut /\ ~ has_segment_link(segs[sp])
                 /\ segs' = [segs EXCEPT ![sp] = segment(@.base, @.size - cut, @.flags, @.rec)]
            /\ cut # 0
            /\ footprint' = footprint - cut
            /\ top' = TopAt(top) /\ topsize' = TopSize(top, topsize - cut)
            /\ mem' = InitTop(mem, top, topsize - cut)
            /\ trim_check' = DEFAULT_TRIM_THRESHOLD
            /\ Scan([call EXCEPT !.released = TRUE])
         \/ \* nothing to cut, not allowed, or the system refuses
            /\ Scan(call)
            /\ UNCHANGED <<segs, footprint, top, topsize, mem, trim_check>>
  /\ UNCHANGED <<bins, dv, dvsize, least_addr, externs, release_checks, config, live>>

-----------------------------------------------------------------------------
(* release_unused_segments: every segment but the newest whose first chunk is   *)
(* free and reaches its end is offered to the system, which may refuse.  One    *)
(* step looks at segment call.sp.                                               *)

FirstChunk(s) == align_as_chunk(s.base)

Unused(s) ==
  /\ CanRelease /\ ~ EXTERN(s.flags)
  /\ ~ inuse(mem, FirstChunk(s))
  /\ next_of(mem, FirstChunk(s)) >= segment_top(s) - top_foot_size

\* Unless it is the designated victim, the first chunk is unlinked from the tree
\* bins, and if the system refuses it is inserted there, whatever its size.  No
\* tree holds a small chunk: what happens to one is undefined.
InTree(p) == IF is_small(SizeOf(p)) THEN pc' = "corrupt" ELSE UNCHANGED pc

\* Mutant: the designated victim is kept, though its segment goes.
withdrawn_not(p) == UNCHANGED <<dv, dvsize>>

\* The first chunk of a segment is no longer the designated victim.
Withdrawn(p) == IF p = dv THEN dv' = NULL /\ dvsize' = 0 ELSE UNCHANGED <<dv, dvsize>>

Visited == [call EXCEPT !.nsegs = @ + 1]

\* Mutant: the walk does not move on.
on_the_spot == call

Onward == [Visited EXCEPT !.sp = @ + 1]

SegmentStays ==
  /\ pc = "release" /\ call.sp \in DOMAIN segs /\ ~ Unused(segs[call.sp])
  /\ call' = Onward
  /\ UNCHANGED <<heap, system, counters, config, pc, live>>

SegmentReleased ==
  /\ pc = "release" /\ call.sp \in DOMAIN segs /\ Unused(segs[call.sp])
  /\ LET s == segs[call.sp]
         p == FirstChunk(s)
     IN  /\ Withdrawn(p) /\ bins' = bins \ {p}
         /\ IF p = dv THEN UNCHANGED pc ELSE InTree(p)
         /\ mem' = Restrict(mem, {a \in DOMAIN mem : ~ holds(s, a)})
         /\ footprint' = footprint - s.size
         /\ segs' = SubSeq(segs, 1, call.sp - 1) \o SubSeq(segs, call.sp + 1, Len(segs))
  /\ call' = [Visited EXCEPT !.released = TRUE]
  /\ UNCHANGED <<top, topsize, least_addr, externs, counters, config, live>>

SegmentRefused ==
  /\ pc = "release" /\ call.sp \in DOMAIN segs /\ Unused(segs[call.sp])
  /\ LET p == FirstChunk(segs[call.sp])
     IN  Withdrawn(p) /\ bins' = bins \cup {p} /\ InTree(p)
  /\ call' = Onward
  /\ UNCHANGED <<mem, top, topsize, system, counters, config, live>>

\* The end of the pass, and of the trim it was part of.
ReleaseDone ==
  /\ pc = "release" /\ call.sp \notin DOMAIN segs
  /\ release_checks' = Max({call.nsegs, release_check_target(max_release_check_rate)})
  /\ trim_check' = IF call.trimming /\ ~ call.released /\ topsize > trim_check
                   THEN USIZE_MAX ELSE trim_check
  /\ Idle
  /\ UNCHANGED <<heap, system, config, live>>

-----------------------------------------------------------------------------
(* The API.  A refused call that changes nothing is a stuttering step.          *)

Free(ptr) ==
  /\ live' = Restrict(live, DOMAIN live \ {ptr})
  /\ pc' = "free" /\ call' = Giving(from_mem(ptr))

\* Arithmetic of a usize, without the overflow checks of a debug build.
wrap(n) == n % (USIZE_MAX + 1)

\* malloc, c_malloc, calloc, and malloc and c_memalign when over-aligned; `old`
\* is the block an over-aligned realloc is to replace.
Allocate(size, align, old) ==
  /\ Cardinality(DOMAIN live) < MaxLive \/ old # NULL
  /\ pc' = "malloc"
  /\ IF align <= malloc_alignment
     THEN call' = Asking(size, size, malloc_alignment, NULL)
     ELSE /\ size < wrap(max_request(granularity) - raised(align))
          /\ call' = Asking(wrap(request2size(size) + raised(align) + min_chunk_size - chunk_overhead),
                             size, align, old)
  /\ UNCHANGED live

Realloc(ptr, size) ==
  /\ size < max_request(granularity)
  /\ pc' = "realloc"
  /\ call' = Asking(0, size, malloc_alignment, ptr)
  /\ UNCHANGED live

Trim(pad) ==
  /\ pc' = "trim" /\ call' = Trimming(pad)
  /\ UNCHANGED live

CountdownBound == max_release_check_rate = 0 => release_checks > USIZE_MAX - MaxCountdown

Call ==
  /\ pc = "idle" /\ CountdownBound
  /\ \/ \E size \in Requests, align \in Alignments \cup {malloc_alignment} :
          Allocate(size, align, NULL)
     \/ \E ptr \in DOMAIN live : Free(ptr)
     \/ \E ptr \in DOMAIN live, size \in Requests : Realloc(ptr, size)
     \/ \E ptr \in DOMAIN live, size \in Requests, align \in Alignments :
          live[ptr].align = align /\ align > malloc_alignment /\ Allocate(size, align, ptr)
     \/ \E pad \in Pads : Trim(pad)
  /\ UNCHANGED <<heap, system, counters, config>>

\* Mutant: only powers of two are asked for.
accepts_small(g) == is_power_of_two(g)

Accepted(g) == is_power_of_two(g) /\ g >= MIN_GRANULARITY

SetGranularity ==
  /\ pc = "idle"
  /\ granularity' \in {g \in Granularities : Accepted(g)}
  /\ UNCHANGED <<heap, system, counters, max_release_check_rate, pc, call, live>>

SetMaxReleaseCheckRate ==
  /\ pc = "idle"
  /\ \E rate \in Rates :
       /\ max_release_check_rate' = rate
       /\ release_checks' = release_check_target(rate)
  /\ UNCHANGED <<heap, system, trim_check, granularity, pc, call, live>>

\* destroy consumes the allocator, and the client's blocks go with it.
Destroy ==
  /\ pc = "idle" /\ pc' = "destroyed"
  /\ live' = << >> /\ mem' = << >> /\ segs' = << >>
  /\ UNCHANGED <<bins, dv, dvsize, top, topsize, footprint, least_addr, externs,
                 counters, config, call>>

Gone == pc \in {"destroyed", "corrupt"} /\ UNCHANGED vars

-----------------------------------------------------------------------------
Init ==
  /\ mem = << >> /\ bins = {}
  /\ dv = NULL /\ dvsize = 0 /\ top = NULL /\ topsize = 0
  /\ segs = << >> /\ footprint = 0 /\ least_addr = NULL /\ externs = {}
  /\ trim_check = 0 /\ release_checks = 0
  /\ granularity = DEFAULT_GRANULARITY /\ max_release_check_rate = DEFAULT_RATE
  /\ pc = "idle" /\ call = NoCall
  /\ live = << >>

Malloc ==
  \/ MallocExactBin \/ MallocHigherBin \/ MallocSmallFromTree \/ MallocLargeFromTree
  \/ MallocDv \/ MallocTop \/ MallocRefused

SysAlloc ==
  \/ SysAllocFails \/ SysAllocInit \/ SysAllocExtend \/ SysAllocPrepend \/ SysAllocAddSegment

Rest ==
  \/ MemalignLead \/ MemalignTail
  \/ ReallocShrink \/ ReallocIntoTop \/ ReallocIntoDv \/ ReallocIntoNext \/ ReallocMoves
  \/ FreeIntoTop \/ FreeIntoDv \/ FreeIntoBin
  \/ TrimDeclined \/ TrimTop
  \/ SegmentStays \/ SegmentReleased \/ SegmentRefused \/ ReleaseDone

Configure == SetGranularity \/ SetMaxReleaseCheckRate

Next == Call \/ Malloc \/ SysAlloc \/ Rest \/ Configure \/ Destroy \/ Gone

Spec == Init /\ [][Next]_vars
-----------------------------------------------------------------------------
(* Properties *)

Frame == [req : Int, size : Int, align : Int, old : Int, p : Int, pad : Int,
          trimming : BOOLEAN, released : BOOLEAN, sp : Int, nsegs : Int]
Segment == [base : Int, size : Int, flags : Int, rec : Int]

\* Every variable holds a value of its kind: addresses and sizes are integers,
\* and the granularity is one that keeps the flag bits of top's size clear.
TypeOK ==
  /\ mem \in [DOMAIN mem -> Headers] /\ DOMAIN mem \subseteq Int
  /\ bins \subseteq Int
  /\ dv \in Int /\ dvsize \in Int /\ top \in Int /\ topsize \in Int
  /\ segs \in Seq(Segment) /\ footprint \in Int /\ least_addr \in Int
  /\ externs \subseteq [base : Int, size : Int]
  /\ trim_check \in Int /\ release_checks \in Int
  /\ granularity \in Nat /\ is_power_of_two(granularity) /\ granularity >= MIN_GRANULARITY
  /\ granularity \in Granularities \cup {DEFAULT_GRANULARITY}
  /\ max_release_check_rate \in Nat
  /\ pc \in {"idle", "malloc", "lead", "tail", "realloc", "free", "trim", "release",
             "destroyed", "corrupt"}
  /\ call \in Frame
  /\ live \in [DOMAIN live -> [size : Int, align : Int]] /\ DOMAIN live \subseteq Int

Usable == pc \notin {"destroyed", "corrupt"}

EndOf(a) == a + mem[a].size
InUse == {a \in DOMAIN mem : mem[a].cinuse}
FreeChunks == DOMAIN mem \ InUse
IsFence(a) == mem[a].size = WORD
LastFence(a) == IsFence(a) /\ \E s \in Segs : holds(s, a) /\ a + 2 * WORD >= segment_top(s)

\* Chunks tile every segment: they start at its first aligned place, follow each
\* other without gap or overlap, and end with the top chunk (whose foot fills
\* the rest of the newest segment) or with the fenceposts of an older one.
HeapTiled ==
  Usable =>
    /\ \A s \in Segs : FirstChunk(s) \in DOMAIN mem
    /\ \A a \in DOMAIN mem :
         /\ a < EndOf(a)
         /\ \E s \in Segs : s.base <= a /\ EndOf(a) <= segment_top(s)
         /\ \A b \in DOMAIN mem : a < b => EndOf(a) <= b
         /\ EndOf(a) \in DOMAIN mem \/ a = top \/ LastFence(a)
    /\ top # NULL => top + topsize + top_foot_size = segment_top(segs[1])

\* The boundary tags tell the truth: PINUSE is the state of the chunk before,
\* prev_foot is the size of a free chunk before, a first chunk has no free one.
TagsAgree ==
  Usable =>
    /\ \A s \in Segs : pinuse(mem, FirstChunk(s))
    /\ \A a \in DOMAIN mem : EndOf(a) \in DOMAIN mem =>
         /\ pinuse(mem, EndOf(a)) = cinuse(mem, a)
         /\ ~ cinuse(mem, a) => mem[EndOf(a)].prev_foot = mem[a].size

\* Free neighbours are always joined: what surrounds a free chunk is in use.
Coalesced ==
  Usable => \A a \in FreeChunks :
    pinuse(mem, a) /\ (a # top => EndOf(a) # top /\ cinuse(mem, EndOf(a)))

\* Every free chunk is in exactly one place - a bin, the designated victim, or
\* top - and dvsize and topsize are the sizes their headers give.
FreeAccounted ==
  Usable =>
    /\ FreeChunks = bins \cup ({dv, top} \ {NULL})
    /\ dv \notin bins /\ top \notin bins /\ (dv = top => dv = NULL)
    /\ dvsize = HeaderAt(mem, dv).size /\ topsize = HeaderAt(mem, top).size
    /\ \A a \in FreeChunks \ {top} : mem[a].size >= min_chunk_size

\* Nothing leaks: a chunk in use is a block of the client, a block the current
\* call is working on, a segment's record or a fencepost.
UseAccounted ==
  Usable =>
    InUse = {from_mem(b) : b \in DOMAIN live}
            \cup {from_mem(segs[i].rec) : i \in DOMAIN segs \ {1}}
            \cup {a \in InUse : IsFence(a)}
            \cup (IF pc \in {"lead", "tail", "free"} THEN {call.p} ELSE {})

\* A block the client holds is a chunk in use in mapped memory, with the room
\* and the alignment that were asked for.
LiveServed ==
  Usable =>
    \A b \in DOMAIN live :
      /\ from_mem(b) \in InUse
      /\ live[b].size + chunk_overhead <= mem[from_mem(b)].size
      /\ b % live[b].align = 0

\* validate_size, with which free and realloc check the size the client passes,
\* accepts every block with the size it was last asked to have.
ValidSize ==
  pc = "idle" =>
    \A b \in DOMAIN live :
      SizeOf(from_mem(b)) <= live[b].size + chunk_overhead + 2 * min_chunk_size + WORD - 1

\* Segments are disjoint, top is in the newest, and each other one holds its own
\* record, in a chunk of its own.
SegmentsSound ==
  Usable =>
    /\ \A i, j \in DOMAIN segs : i < j =>
         \/ segment_top(segs[i]) <= segs[j].base
         \/ segment_top(segs[j]) <= segs[i].base
    /\ top # NULL => holds(segs[1], top) /\ segs[1].rec = NULL
    /\ \A i \in DOMAIN segs \ {1} :
         /\ holds(segs[i], segs[i].rec)
         /\ HeaderAt(mem, from_mem(segs[i].rec)).size = segment_record_size
         /\ segs[i].rec % malloc_alignment = 0
    /\ \A s \in Segs : s.base >= least_addr

\* The sizes of the segments of a list, added up.
held(list) ==
  LET upto[i \in 0..Len(list)] == IF i = 0 THEN 0 ELSE upto[i - 1] + list[i].size
  IN  upto[Len(list)]

\* What is counted as obtained from the system is what the segments hold: nothing
\* is lost or counted twice as segments grow, shrink and go.
FootprintCounted == Usable => footprint = held(segs)

\* The countdown to the next release pass is at least one whenever no pass is
\* under way, so that decrementing it cannot wrap and skip the pass.
CountdownRuns == Usable /\ top # NULL /\ pc # "release" => release_checks >= 1

\* No size wraps on its way to the system: what an over-aligned request asks for
\* covers the block, the alignment and a chunk to give back, with the header's word
\* on top; nor does adding the foot to a chunk and rounding up to the granularity.
NoWrap ==
  pc = "malloc" =>
    /\ call.align > malloc_alignment =>
         /\ call.req >= call.size + raised(call.align) + min_chunk_size
         /\ call.req + chunk_overhead <= USIZE_MAX
    /\ ~ refused => nb + top_foot_size + malloc_alignment + (granularity - 1) <= USIZE_MAX

\* The tree bins are only ever asked to unlink or to insert a large chunk.
NoCorruption == pc # "corrupt"

\* A segment flagged EXTERN stays as it is: no region joins it, no trim and no pass
\* takes anything from it. A region that the system flags EXTERN becomes such a
\* segment, unless it lies next to one with a flag of the system's own that sys_flags
\* shifts onto EXTERN: that one it joins, and is no longer told apart (l. 477, 490).
LooksExtern(s) == ~ EXTERN(s.flags) /\ EXTERN(sys_flags(s))
NextTo(e, s) == segment_top(s) = e.base \/ s.base = segment_top(e)
IsSegment(e, S) == \E s \in S : s.base = e.base /\ s.size = e.size /\ EXTERN(s.flags)

ExternKept ==
  [][ Usable /\ Usable' =>
        /\ \A s \in Segs : EXTERN(s.flags) => IsSegment(s, Segs')
        /\ \A e \in externs' \ externs :
             IsSegment(e, Segs') \/ \E s \in Segs : LooksExtern(s) /\ NextTo(e, s) ]_vars

\* What the documentation of Allocator::alloc says of EXTERN, for all flags: a region
\* that has it stays a segment of its own.
ExternApart == Usable => \A e \in externs : IsSegment(e, Segs)

\* A running call is never stopped from outside: the code is sequential.
Inside == Malloc \/ SysAlloc \/ Rest
FairSpec == Spec /\ WF_vars(Inside)

\* Every call comes back - the walk over the segments ends although it removes
\* segments from the list it follows - and none ends in undefined behaviour.
CallsReturn == (pc \notin {"idle", "destroyed"}) ~> (pc = "idle")

\* The allocator keeps the abstract promise to its client.
Contract == INSTANCE AllocatorSpec WITH
  blocks <- live,
  regions <- {[base |-> s.base, size |-> s.size] : s \in Segs}
KeepsContract == Contract!Spec

\* The heap is consistent: what check_malloc_state asserts of chunks, bins,
\* designated victim and top, and more, taken together; and the tree functions
\* were never called for a small chunk.
HeapOK ==
  HeapTiled /\ TagsAgree /\ Coalesced /\ FreeAccounted /\ UseAccounted /\ NoCorruption

\* A block of the client's is served as it was asked for, and free and realloc
\* accept the size that the client passes back with it.
BlocksOK == LiveServed /\ ValidSize
=============================================================================

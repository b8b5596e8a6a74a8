------------------------------- MODULE CHeap -------------------------------
(***************************************************************************)
(* The heap of one malloc_state of dlmalloc.c, as operators.  A heap is a  *)
(* record h: the fields of the malloc_state, the memory its chunks are in, *)
(* and what of the system it sees, the break and the mapped pages.  What a *)
(* function does is the set of its outcomes: a heap and a result, a chunk  *)
(* or NULL where the C code returns memory.  Most functions have one       *)
(* outcome; the system's answers and the choice among chunks of one size   *)
(* (which SmallBins and TreeBins settle) make more.                        *)
(***************************************************************************)
EXTENDS CChunks, Sequences, SequencesExt, FiniteSetsExt

CONSTANTS
  page_size, granularity, trim_threshold,   \* mparams
  MORECORE_CONTIGUOUS,
  BREAK,               \* where the break starts
  Foreign,             \* how far others move it
  Scenarios            \* what a behaviour may be about

\* Chosen at the start and never changed: how the file is compiled, the system it
\* meets, and what the clients do.
VARIABLE scenario

HAVE_MORECORE == scenario.have_morecore
HAVE_MMAP == scenario.have_mmap
HAVE_MREMAP == scenario.have_mremap
MAX_RELEASE_CHECK_RATE == scenario.max_release_check_rate
mmap_threshold == scenario.mmap_threshold
BREAK_END == scenario.break_end      \* the break cannot pass it
MMapBases == scenario.mmap_bases     \* where the system may map memory
MayFail == scenario.may_fail         \* the calls that may fail: "sbrk", "mmap", "munmap"
Foreigners == scenario.foreigners    \* bound: how often others move the break
RACES == scenario.races              \* they move it also between two calls of one function

ASSUME HeapAssumption ==
  /\ page_size \in Nat \ {0} /\ granularity % page_size = 0
  /\ granularity >= TOP_FOOT_SIZE + MIN_LARGE_SIZE   \* as with any real page
  /\ \A s \in Scenarios :
       /\ s.mmap_threshold >= MIN_LARGE_SIZE
       /\ \A b \in s.mmap_bases : b % page_size = 0 /\ b >= s.break_end

CMFAIL == -1
Result(h, p) == [h |-> h, p |-> p]
Only(h, p) == {Result(h, p)}
\* The outcomes of f for each of the outcomes before it.
Then(outcomes, f(_)) == UNION {f(o) : o \in outcomes}

-----------------------------------------------------------------------------
(* The system                                                                *)

page_align(n) == up(n, page_size)
granularity_align(n) == up(n, granularity)
mmap_align(n) == page_align(n)

PagesOf(base, n) == {base + i * page_size : i \in 0..((n \div page_size) - 1)}

\* Somebody else moves the break.
foreign_sbrk(h) ==
  [h EXCEPT !.brk = @ + Foreign, !.foreign = @ \cup {[base |-> h.brk, size |-> Foreign]}]
Interfered(h) ==
  {h} \cup (IF RACES /\ Cardinality(h.foreign) < Foreigners THEN {foreign_sbrk(h)} ELSE {})

\* sbrk(n): the break moves and the result is where it was.
MORECORE(h, n) ==
  UNION {
    IF HAVE_MORECORE /\ g.brk + n <= BREAK_END
    THEN Only([g EXCEPT !.brk = @ + n, !.mem = IF n < 0 THEN forget(@, g.brk + n, -n) ELSE @], g.brk)
         \cup (IF "sbrk" \in MayFail /\ n # 0 THEN Only(g, CMFAIL) ELSE {})
    ELSE Only(g, CMFAIL) : g \in Interfered(h)}

MMAP(h, n) ==
  LET free == {b \in MMapBases : PagesOf(b, n) \cap h.pages = {}}
  IN  {Result([h EXCEPT !.pages = @ \cup PagesOf(b, n)], b) : b \in IF HAVE_MMAP THEN free ELSE {}}
      \cup (IF ~ HAVE_MMAP \/ free = {} \/ "mmap" \in MayFail THEN Only(h, CMFAIL) ELSE {})

unmapped(h, base, n) ==
  [h EXCEPT !.pages = @ \ PagesOf(base, n), !.mem = forget(@, base, n)]

\* munmap(base, n): the result is 0 or CMFAIL.
MUNMAP(h, base, n) ==
  Only(unmapped(h, base, n), 0)
  \cup (IF "munmap" \in MayFail THEN Only(h, CMFAIL) ELSE {})

\* mremap: in place if the pages behind are free, elsewhere if it may move.
MREMAP(h, base, old, new, may_move) ==
  LET rest == h.pages \ PagesOf(base, old)
      places == {b \in {base} \cup (IF may_move THEN MMapBases ELSE {}) :
                   PagesOf(b, new) \cap rest = {}}
  IN  {Result([h EXCEPT !.pages = rest \cup PagesOf(b, new)], b) :
         b \in IF base \in places THEN {base} ELSE places}
      \cup (IF places = {} THEN Only(h, CMFAIL) ELSE {})

-----------------------------------------------------------------------------
(* Segments and bins                                                         *)

segment(base, size, mmapped, extern, rec) ==
  [base |-> base, size |-> size, mmapped |-> mmapped, extern |-> extern, rec |-> rec]

segment_end(s) == s.base + s.size
segment_holds(s, a) == s.base <= a /\ a < segment_end(s)
\* The position in the list of the first segment that holds a.
segment_holding(h, a) == SelectInSeq(h.segs, LAMBDA s : segment_holds(s, a))
\* The record of a segment lies in s; that of the first is in the malloc_state,
\* which is in the memory of an mspace and nowhere for the global one.
has_segment_link(h, s) == \E i \in DOMAIN h.segs : segment_holds(s, h.segs[i].rec)

is_initialized(h) == h.top # NULL
should_trim(h, s) == s > h.trim_check
ok_address(h, a) == a >= h.least_addr

size_of(h, p) == chunksize(h.mem, p)
unlink_chunk(h, p) == [h EXCEPT !.bins = @ \ {p}]
insert_chunk(h, p) == [h EXCEPT !.bins = @ \cup {p}]
replace_dv(h, p, s) ==
  [h EXCEPT !.bins = IF h.dvsize # 0 THEN @ \cup {h.dv} ELSE @, !.dv = p, !.dvsize = s]
no_dv(h) == [h EXCEPT !.dv = NULL, !.dvsize = 0]

add_footprint(h, n) ==
  [h EXCEPT !.footprint = @ + n, !.max_footprint = IF h.footprint + n > @ THEN h.footprint + n ELSE @]

\* Mutant: the limit is not looked at.
limit_ignored(h, n) == FALSE

\* Obtaining n bytes more would exceed the limit.
exceeds_limit(h, n) ==
  /\ h.footprint_limit # 0
  /\ LET fp == wrap(h.footprint + n) IN fp <= h.footprint \/ fp > h.footprint_limit

lower_least(h, a) == [h EXCEPT !.least_addr = IF a < @ THEN a ELSE @]

\* Top is what of psize bytes at p is left when p is aligned; a fake chunk
\* follows, as large as the foot.
init_top(h, p, psize) ==
  LET q == align_as_chunk(p)
      s == wrap(psize - (q - p))
  IN  [h EXCEPT !.top = q, !.topsize = s, !.trim_check = trim_threshold,
                !.mem = put(set_top_head(@, q, s), q + s, head(TOP_FOOT_SIZE, FALSE, FALSE, 0))]

\* The request off the front of top.
split_top(h, nb) ==
  LET p == h.top
      r == p + nb
      rsize == h.topsize - nb
  IN  Only([h EXCEPT !.top = r, !.topsize = rsize,
                     !.mem = set_size_and_pinuse_of_inuse_chunk(h.id,
                               set_top_head(@, r, rsize), p, nb)], p)

-----------------------------------------------------------------------------
(* Chunks in a mapping of their own                                          *)

mmap_size(nb) == mmap_align(wrap(nb + 6 * SIZE_T_SIZE + MALLOC_ALIGNMENT - 1))

mmap_alloc(h, nb) ==
  LET mmsize == mmap_size(nb)
      mapped(o) ==
        LET offset == align_offset(chunk2mem(o.p))
            psize == mmsize - offset - MMAP_FOOT_PAD
            g == [o.h EXCEPT !.mem = set_mmapped(h.id, @, o.p + offset, psize, offset)]
            least == IF g.least_addr = NULL THEN [g EXCEPT !.least_addr = o.p] ELSE lower_least(g, o.p)
        IN  IF o.p = CMFAIL THEN Only(o.h, NULL)
            ELSE Only(add_footprint(least, mmsize), o.p + offset)
  IN  IF exceeds_limit(h, mmsize) \/ mmsize <= nb THEN Only(h, NULL)
      ELSE Then(MMAP(h, mmsize), mapped)

\* What the offset takes from an mmapped chunk of mmsize bytes.
resized(mmsize, offset) == mmsize - offset - MMAP_FOOT_PAD

\* Mutant: the second word of overhead is forgotten.
keeps_if_as_large(oldsize, nb) == oldsize >= nb /\ oldsize - nb <= 2 * granularity

\* A chunk is kept if it is large enough and not too large.
keeps_chunk(oldsize, nb) == oldsize >= nb + SIZE_T_SIZE /\ oldsize - nb <= 2 * granularity

mmap_resize(h, p, nb, may_move) ==
  LET oldsize == size_of(h, p)
      offset == At(h.mem, p).foot
      oldmmsize == oldsize + offset + MMAP_FOOT_PAD
      newmmsize == mmap_size(nb)
      remapped(o) ==
        IF o.p = CMFAIL THEN Only(o.h, NULL)
        ELSE Only(add_footprint(
                    lower_least(
                      [o.h EXCEPT !.mem = set_mmapped(h.id, forget(@, p - offset, oldmmsize),
                         o.p + offset, resized(newmmsize, offset), offset)], o.p),
                    newmmsize - oldmmsize), o.p + offset)
  IN  IF is_small(nb) THEN Only(h, NULL)
      ELSE IF keeps_chunk(oldsize, nb) THEN Only(h, p)
      ELSE IF HAVE_MMAP /\ HAVE_MREMAP
           THEN Then(MREMAP(h, p - offset, oldmmsize, newmmsize, may_move), remapped)
           ELSE Only(h, NULL)

munmap_size(h, p) == size_of(h, p) + At(h.mem, p).foot + MMAP_FOOT_PAD

\* Mutant: the footprint falls though the chunk stays mapped.
munmapped_anyway(h, p) ==
  LET n == munmap_size(h, p)
  IN  {[o.h EXCEPT !.footprint = @ - n] : o \in MUNMAP(h, p - At(h.mem, p).foot, n)}

\* An mmapped chunk goes back to the system, or stays mapped and is lost.
munmap_chunk(h, p) ==
  LET n == munmap_size(h, p)
  IN  {IF o.p = 0 THEN [o.h EXCEPT !.footprint = @ - n] ELSE o.h :
         o \in MUNMAP(h, p - At(h.mem, p).foot, n)}

-----------------------------------------------------------------------------
(* Growing                                                                   *)

\* The request at the start of a region; the rest of it joins the first chunk
\* of the segment behind.
prepend_alloc(h, newbase, oldbase, nb) ==
  LET p == align_as_chunk(newbase)
      oldfirst == align_as_chunk(oldbase)
      q == p + nb
      qsize == (oldfirst - p) - nb
      nsize == size_of(h, oldfirst)
      g == [h EXCEPT !.mem = set_size_and_pinuse_of_inuse_chunk(h.id, @, p, nb)]
      joined ==
        IF oldfirst = h.top
        THEN [g EXCEPT !.top = q, !.topsize = @ + qsize,
                       !.mem = set_top_head(@, q, h.topsize + qsize)]
        ELSE IF oldfirst = h.dv
        THEN [g EXCEPT !.dv = q, !.dvsize = @ + qsize,
                       !.mem = set_size_and_pinuse_of_free_chunk(@, q, h.dvsize + qsize)]
        ELSE IF ~ is_inuse(h.mem, oldfirst)
        THEN insert_chunk([unlink_chunk(g, oldfirst) EXCEPT
               !.mem = set_free_with_pinuse(@, q, qsize + nsize, oldfirst + nsize)], q)
        ELSE insert_chunk([g EXCEPT !.mem = set_free_with_pinuse(@, q, qsize, oldfirst)], q)
  IN  Only(joined, p)

\* Where the record of the old segment goes: as near its end as it fits, or at
\* the old top if what lay before it could not be a chunk.
record_chunk(old_top, old_end) ==
  LET rawsp == old_end - (SEGMENT_RECORD + 4 * SIZE_T_SIZE + MALLOC_ALIGNMENT - 1)
      asp == rawsp + align_offset(chunk2mem(rawsp))
  IN  IF asp < old_top + MIN_CHUNK_SIZE THEN old_top ELSE asp

\* Fenceposts from tnext as long as the next one's head is before old_end.
fenceposts(tnext, old_end) ==
  {tnext} \cup {a \in {tnext + i * SIZE_T_SIZE : i \in 1..((old_end - tnext) \div SIZE_T_SIZE)} :
                 a + SIZE_T_SIZE < old_end}

\* Mutant: what is left of the old top is dropped.
old_top_dropped(h, old_top, csp) == h

\* What is left of the old top before the record becomes a free chunk.
old_top_binned(h, old_top, csp) ==
  IF csp = old_top THEN h
  ELSE insert_chunk([h EXCEPT !.mem = set_free_with_pinuse(@, old_top, csp - old_top, csp)], old_top)

add_segment(h, tbase, tsize, mmapped) ==
  LET oldsp == segment_holding(h, h.top)
      old_end == segment_end(h.segs[oldsp])
      csp == record_chunk(h.top, old_end)
      F == fenceposts(csp + SEGMENT_RECORD, old_end)
      g == init_top(h, tbase, tsize - TOP_FOOT_SIZE)
      m == set_size_and_pinuse_of_inuse_chunk(h.id, g.mem, csp, SEGMENT_RECORD)
  IN  old_top_binned(
        [g EXCEPT
           !.mem = [a \in {x \in DOMAIN m : x <= csp \/ x >= old_end} \cup F |->
                      IF a \in F THEN [FENCEPOST_HEAD EXCEPT !.foot = At(m, a).foot] ELSE m[a]],
           !.segs = << segment(tbase, tsize, mmapped, FALSE, @[1].rec) >>
                    \o [@ EXCEPT ![1].rec = chunk2mem(csp)]],
        h.top, csp)

\* A region obtained from the system, if base is not CMFAIL.
Region(h, base, size, mmapped) == [h |-> h, base |-> base, size |-> size, mmapped |-> mmapped]
Nowhere(h) == Region(h, CMFAIL, 0, FALSE)
disable_contiguous(h) == [h EXCEPT !.noncontiguous = TRUE]

\* sbrk gave ssize bytes at br, not behind top: ask for more until the request
\* fits there, or give it back.
partly(h, br, ssize, nb) ==
  LET need == wrap(nb + SYS_ALLOC_PADDING)
      esize == granularity_align(need - ssize)
      more(o) ==
        IF o.p # CMFAIL THEN {Region(o.h, br, ssize + esize, FALSE)}
        ELSE {Nowhere(disable_contiguous(o2.h)) : o2 \in MORECORE(o.h, -ssize)}
  IN  IF br = CMFAIL THEN {Nowhere(disable_contiguous(h))}
      ELSE IF ssize < HALF_MAX_SIZE_T /\ ssize < need /\ esize < HALF_MAX_SIZE_T
           THEN Then(MORECORE(h, esize), more)
           ELSE {Region(h, br, ssize, FALSE)}

first_extent(h, nb, asize) ==
  LET extent(o) ==
        LET base == o.p
            ssize == asize + (page_align(base) - base)
            got(o2) == IF o2.p = base THEN {Region(o2.h, base, ssize, FALSE)}
                       ELSE partly(o2.h, o2.p, ssize, nb)
        IN  IF base # CMFAIL /\ ssize > nb /\ ssize < HALF_MAX_SIZE_T /\ ~ exceeds_limit(o.h, ssize)
            THEN Then(MORECORE(o.h, ssize), got)
            ELSE {Nowhere(disable_contiguous(o.h))}
  IN  Then(MORECORE(h, 0), extent)

extends(a, s) == a = segment_end(s)

next_extent(h, nb) ==
  LET ss == h.segs[segment_holding(h, h.top)]
      ssize == granularity_align(wrap(nb - h.topsize + SYS_ALLOC_PADDING))
      got(o) == IF extends(o.p, ss) THEN {Region(o.h, o.p, ssize, FALSE)}
                ELSE partly(o.h, o.p, ssize, nb)
  IN  IF ssize < HALF_MAX_SIZE_T THEN Then(MORECORE(h, ssize), got)
      ELSE {Nowhere(disable_contiguous(h))}

contiguous(h, nb, asize) ==
  IF ~ MORECORE_CONTIGUOUS \/ h.noncontiguous THEN {Nowhere(h)}
  ELSE IF h.top = NULL THEN first_extent(h, nb, asize) ELSE next_extent(h, nb)

by_mmap(r, asize) ==
  IF r.base # CMFAIL THEN {r} ELSE {Region(o.h, o.p, asize, o.p # CMFAIL) : o \in MMAP(r.h, asize)}

noncontiguous(r, nb, asize) ==
  LET upto(o) == {IF o.p # CMFAIL /\ e.p # CMFAIL /\ o.p < e.p /\ e.p - o.p > nb + TOP_FOOT_SIZE
                  THEN Region(e.h, o.p, e.p - o.p, FALSE) ELSE Nowhere(e.h) : e \in MORECORE(o.h, 0)}
  IN  IF r.base # CMFAIL \/ asize >= HALF_MAX_SIZE_T THEN {r} ELSE Then(MORECORE(r.h, asize), upto)

\* Top is first set up: at the start of the region for the global malloc_state.
\* (That of an mspace is never without top.)
first_top(h, r) ==
  init_top([h EXCEPT !.least_addr = IF @ = NULL \/ r.base < @ THEN r.base ELSE @,
                     !.segs = << segment(r.base, r.size, r.mmapped, FALSE, NULL) >>,
                     !.release_checks = MAX_RELEASE_CHECK_RATE],
           r.base, r.size - TOP_FOOT_SIZE)

mergeable(s, r) == ~ s.extern /\ s.mmapped = r.mmapped

\* The region joins the segment before it if that holds top, or that behind it,
\* or is a segment of its own.
use_region(r, nb) ==
  LET h == add_footprint(r.h, r.size)
      before == SelectInSeq(h.segs, LAMBDA s : segment_end(s) = r.base)
      behind == SelectInSeq(h.segs, LAMBDA s : s.base = r.base + r.size)
      from_top(g) == IF nb < g.topsize THEN split_top(g, nb) ELSE Only(g, NULL)
      low == lower_least(h, r.base)
  IN  IF ~ is_initialized(h) THEN from_top(first_top(h, r))
      ELSE IF before # 0 /\ mergeable(h.segs[before], r) /\ segment_holds(h.segs[before], h.top)
      THEN from_top(init_top([h EXCEPT !.segs[before].size = @ + r.size], h.top, h.topsize + r.size))
      ELSE IF behind # 0 /\ mergeable(h.segs[behind], r)
      THEN prepend_alloc([low EXCEPT !.segs[behind].base = r.base, !.segs[behind].size = @ + r.size],
                         r.base, h.segs[behind].base, nb)
      ELSE from_top(add_segment(low, r.base, r.size, r.mmapped))

grow(h, nb) ==
  LET asize == granularity_align(wrap(nb + SYS_ALLOC_PADDING))
      regions == UNION {UNION {noncontiguous(r2, nb, asize) : r2 \in by_mmap(r1, asize)} :
                          r1 \in contiguous(h, nb, asize)}
  IN  IF asize <= nb \/ exceeds_limit(h, asize) THEN Only(h, NULL)
      ELSE UNION {IF r.base = CMFAIL THEN Only(r.h, NULL) ELSE use_region(r, nb) : r \in regions}

sys_alloc(h, nb) ==
  LET direct == IF h.mmapping /\ nb >= mmap_threshold /\ h.topsize # 0
                THEN mmap_alloc(h, nb) ELSE Only(h, NULL)
      otherwise(o) == IF o.p # NULL THEN {o} ELSE grow(o.h, nb)
  IN  Then(direct, otherwise)

-----------------------------------------------------------------------------
(* Shrinking                                                                 *)

\* Mutant: the chunk need not be the whole segment.
whole_if_free(h, s) == ~ is_inuse(h.mem, align_as_chunk(s.base))

\* The segment is a single free chunk, behind which only its own record lies.
unused(h, s) ==
  LET p == align_as_chunk(s.base)
  IN  /\ s.mmapped /\ ~ s.extern
      /\ ~ is_inuse(h.mem, p) /\ p + size_of(h, p) >= segment_end(s) - TOP_FOOT_SIZE

\* Unmap the i-th segment, or put its chunk back.
unmap_segment(h, i) ==
  LET s == h.segs[i]
      p == align_as_chunk(s.base)
      g == IF p = h.dv THEN no_dv(h) ELSE unlink_chunk(h, p)
  IN  {IF o.p = 0
       THEN Result([o.h EXCEPT !.footprint = @ - s.size, !.segs = RemoveAt(@, i)], s.size)
       ELSE Result(insert_chunk(o.h, p), 0) : o \in MUNMAP(g, s.base, s.size)}

next_countdown(nsegs) == IF nsegs > MAX_RELEASE_CHECK_RATE THEN nsegs ELSE MAX_RELEASE_CHECK_RATE

\* The pass from the i-th segment on, with `released` bytes released so far and
\* nsegs segments seen.  The result is the number of bytes released.
RECURSIVE release_from(_, _, _, _)
release_from(h, i, released, nsegs) ==
  IF i > Len(h.segs)
  THEN Only([h EXCEPT !.release_checks = next_countdown(nsegs)], released)
  ELSE IF unused(h, h.segs[i])
  THEN UNION {release_from(o.h, IF o.p = 0 THEN i + 1 ELSE i, released + o.p, nsegs + 1) :
                o \in unmap_segment(h, i)}
  ELSE release_from(h, i + 1, released, nsegs + 1)

release_unused_segments(h) == release_from(h, 2, 0, 0)

\* Shrinking the segment of top by `extra`: the heap and the bytes released.
trim_mmapped(h, i, extra) ==
  LET s == h.segs[i]
  IN  IF HAVE_MMAP /\ s.size >= extra /\ ~ has_segment_link(h, s)
      THEN {IF o.p = 0 THEN Result(o.h, extra) ELSE Result(o.h, 0) :
              o \in MUNMAP(h, segment_end(s) - extra, extra)}
      ELSE Only(h, 0)

\* The break is where we last left it.
unmoved(s, brk) == brk = segment_end(s)

trim_break(h, i, wanted) ==
  LET extra == IF wanted >= HALF_MAX_SIZE_T THEN HALF_MAX_SIZE_T + 1 - granularity ELSE wanted
      back(o) == UNION {{Result(o3.h, IF o2.p # CMFAIL /\ o3.p < o.p THEN o.p - o3.p ELSE 0) :
                           o3 \in MORECORE(o2.h, 0)} : o2 \in MORECORE(o.h, -extra)}
  IN  IF ~ HAVE_MORECORE THEN Only(h, 0)
      ELSE UNION {IF unmoved(h.segs[i], o.p) THEN back(o) ELSE Only(o.h, 0) : o \in MORECORE(h, 0)}

\* Mutant: the pad is not kept.
kept_without_pad(pad) == TOP_FOOT_SIZE

kept(pad) == pad + TOP_FOOT_SIZE

\* The whole units that top can do without.
extra_units(h, pad) ==
  (((h.topsize - kept(pad) + granularity - 1) \div granularity) - 1) * granularity

trim_top(h, pad) ==
  LET extra == extra_units(h, pad)
      i == segment_holding(h, h.top)
      s == h.segs[i]
      shrunk(o) ==
        IF o.p = 0 THEN {o}
        ELSE Only(init_top([o.h EXCEPT !.segs[i].size = @ - o.p, !.footprint = @ - o.p],
                           h.top, h.topsize - o.p), o.p)
  IN  IF h.topsize <= kept(pad) \/ s.extern THEN Only(h, 0)
      ELSE Then(IF s.mmapped THEN trim_mmapped(h, i, extra) ELSE trim_break(h, i, extra), shrunk)

\* The result is the number of bytes released; sys_trim returns whether it is 0.
sys_trim(h, pad) ==
  LET released(o) == IF ~ HAVE_MMAP THEN {o}
                     ELSE {Result(o2.h, o.p + o2.p) : o2 \in release_unused_segments(o.h)}
      settled(o) == IF o.p = 0 /\ o.h.topsize > o.h.trim_check
                    THEN Only([o.h EXCEPT !.trim_check = MAX_SIZE_T], 0) ELSE {o}
  IN  IF pad < MAX_REQUEST /\ is_initialized(h)
      THEN Then(Then(trim_top(h, pad), released), settled)
      ELSE Only(h, 0)
=============================================================================

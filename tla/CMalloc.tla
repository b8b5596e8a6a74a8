------------------------------ MODULE CMalloc ------------------------------
(***************************************************************************)
(* What malloc, free, realloc, memalign, the independent_ functions and    *)
(* bulk_free of dlmalloc.c do to a heap between taking its lock and        *)
(* leaving it; mspace_malloc and the others are copies of them.            *)
(***************************************************************************)
EXTENDS CHeap

-----------------------------------------------------------------------------
(* malloc                                                                    *)

SmallAt(h, I) == {p \in h.bins : is_small(size_of(h, p)) /\ small_index(size_of(h, p)) \in I}
Large(h) == {p \in h.bins : ~ is_small(size_of(h, p))}
Smallest(h, S) == {p \in S : \A q \in S : size_of(h, p) <= size_of(h, q)}

\* Chunk p of a bin, whole.
take_whole(h, p) ==
  Only([unlink_chunk(h, p) EXCEPT !.mem = set_inuse_and_pinuse(h.id, @, p, size_of(h, p))], p)

\* The request off the front of free memory [p, p + size).
split_mem(h, p, size, nb) ==
  set_size_and_pinuse_of_inuse_chunk(h.id,
    set_size_and_pinuse_of_free_chunk(h.mem, p + nb, size - nb), p, nb)

\* The front of chunk p; the rest is the new designated victim, or is binned.
split_into_dv(h, p, nb) ==
  LET rsize == size_of(h, p) - nb
  IN  Only(replace_dv([unlink_chunk(h, p) EXCEPT !.mem = split_mem(h, p, size_of(h, p), nb)],
                      p + nb, rsize), p)
split_into_bin(h, p, nb) ==
  Only(insert_chunk([unlink_chunk(h, p) EXCEPT !.mem = split_mem(h, p, size_of(h, p), nb)], p + nb), p)

tmalloc_small(h, nb) ==
  UNION {IF size_of(h, p) - nb < MIN_CHUNK_SIZE THEN take_whole(h, p) ELSE split_into_dv(h, p, nb) :
           p \in Smallest(h, Large(h))}

\* The best fit, unless the designated victim is as good.
BestFit(h, nb) ==
  {p \in Smallest(h, {q \in Large(h) : size_of(h, q) >= nb}) :
     size_of(h, p) - nb < wrap(h.dvsize - nb)}

tmalloc_large(h, nb) ==
  UNION {IF size_of(h, p) - nb < MIN_CHUNK_SIZE THEN take_whole(h, p) ELSE split_into_bin(h, p, nb) :
           p \in BestFit(h, nb)}

dv_exhausted(h, nb) == h.dvsize - nb < MIN_CHUNK_SIZE

from_dv(h, nb) ==
  LET p == h.dv
  IN  IF dv_exhausted(h, nb)
      THEN Only([no_dv(h) EXCEPT !.mem = set_inuse_and_pinuse(h.id, @, p, h.dvsize)], p)
      ELSE Only([h EXCEPT !.dv = p + nb, !.dvsize = @ - nb, !.mem = split_mem(h, p, h.dvsize, nb)], p)

\* The designated victim, else top, else the system.
not_from_bins(h, nb) ==
  IF nb <= h.dvsize THEN from_dv(h, nb)
  ELSE IF nb < h.topsize THEN split_top(h, nb)
  ELSE sys_alloc(h, nb)

malloc_small(h, nb) ==
  LET idx == small_index(nb)
      exact == SmallAt(h, {idx, idx + 1})
      higher == SmallAt(h, idx..31)
  IN  IF exact # {} THEN UNION {take_whole(h, p) : p \in Smallest(h, exact)}
      ELSE IF nb > h.dvsize /\ higher # {}
      THEN UNION {IF SIZE_T_SIZE # 4 /\ size_of(h, p) - nb < MIN_CHUNK_SIZE
                  THEN take_whole(h, p) ELSE split_into_dv(h, p, nb) : p \in Smallest(h, higher)}
      ELSE IF nb > h.dvsize /\ Large(h) # {} THEN tmalloc_small(h, nb)
      ELSE not_from_bins(h, nb)

malloc_large(h, nb) ==
  IF BestFit(h, nb) # {} THEN tmalloc_large(h, nb) ELSE not_from_bins(h, nb)

malloc(h, bytes) ==
  IF bytes <= MAX_SMALL_REQUEST THEN malloc_small(h, request2size(bytes))
  ELSE IF bytes >= MAX_REQUEST THEN not_from_bins(h, MAX_SIZE_T)
  ELSE malloc_large(h, pad_request(bytes))

-----------------------------------------------------------------------------
(* free, and dispose_chunk, which does the same without trimming              *)

Merged(h, p) == ~ pinuse(h.mem, p)
FrontOf(h, p) == IF Merged(h, p) THEN prev_chunk(h.mem, p) ELSE p

\* The chunk [q, q + s) is given back with a free chunk before it already
\* joined; `next` is behind.  The result says where it went.
give_back(h, q, s, next) ==
  LET m == h.mem
      nsize == chunksize(m, next)
      whole == set_size_and_pinuse_of_free_chunk(m, q, s + nsize)
      alone == set_free_with_pinuse(m, q, s, next)
      into_top == [h EXCEPT !.top = q, !.topsize = @ + s,
                            !.mem = set_top_head(@, q, h.topsize + s)]
      grown == [unlink_chunk(h, next) EXCEPT !.mem = whole]
  IN  IF q = h.dv /\ cinuse(m, next) /\ pinuse(m, next)
      THEN Result([h EXCEPT !.dvsize = s, !.mem = alone], "dv")
      ELSE IF cinuse(m, next) THEN Result(insert_chunk([h EXCEPT !.mem = alone], q), "bin")
      ELSE IF next = h.top THEN Result(IF q = h.dv THEN no_dv(into_top) ELSE into_top, "top")
      ELSE IF next = h.dv
      THEN Result([h EXCEPT !.dv = q, !.dvsize = @ + s,
                            !.mem = set_size_and_pinuse_of_free_chunk(m, q, h.dvsize + s)], "dv")
      ELSE IF q = h.dv THEN Result([grown EXCEPT !.dvsize = s + nsize], "dv")
      ELSE Result(insert_chunk(grown, q), "bin")

\* Join [p, p + psize) with the free chunks around it.
consolidate(h, p, psize) ==
  LET q == FrontOf(h, p)
      g == IF q # p /\ q # h.dv THEN unlink_chunk(h, q) ELSE h
  IN  give_back(g, q, p + psize - q, p + psize)

dispose_chunk(h, p, psize) ==
  IF is_mmapped(h.mem, p) THEN munmap_chunk(h, p) ELSE {consolidate(h, p, psize).h}

\* Top may be trimmed; freeing large chunks counts down to a release pass.
free_chunk(h, p) ==
  LET o == consolidate(h, p, size_of(h, p))
      q == FrontOf(h, p)
      counted == [o.h EXCEPT !.release_checks = wrap(@ - 1)]
  IN  IF o.p = "top" /\ should_trim(o.h, o.h.topsize) THEN {t.h : t \in sys_trim(o.h, 0)}
      ELSE IF o.p = "bin" /\ ~ is_small(size_of(o.h, q))
      THEN IF counted.release_checks = 0 THEN {t.h : t \in release_unused_segments(counted)}
           ELSE {counted}
      ELSE {o.h}

\* A chunk that fails the checks is a usage error, which aborts.
Usable(h, p) ==
  /\ ok_address(h, p) /\ is_inuse(h.mem, p) /\ p < next_chunk(h.mem, p) /\ next_pinuse(h.mem, p)

free(h, mem) ==
  LET p == mem2chunk(mem)
  IN  IF is_mmapped(h.mem, p) THEN munmap_chunk(h, p) ELSE free_chunk(h, p)

-----------------------------------------------------------------------------
(* realloc in place                                                           *)

shrink(h, p, nb) ==
  LET rsize == size_of(h, p) - nb
      m == set_inuse(h.id, set_inuse(h.id, h.mem, p, nb), p + nb, rsize)
  IN  IF rsize < MIN_CHUNK_SIZE THEN Only(h, p)
      ELSE {Result(g, p) : g \in dispose_chunk([h EXCEPT !.mem = m], p + nb, rsize)}

into_top(h, p, nb) ==
  LET newsize == size_of(h, p) + h.topsize
  IN  IF newsize <= nb THEN Only(h, NULL)
      ELSE Only([h EXCEPT !.top = p + nb, !.topsize = newsize - nb,
                          !.mem = set_top_head(set_inuse(h.id, @, p, nb), p + nb, newsize - nb)], p)

into_dv(h, p, nb) ==
  LET newsize == size_of(h, p) + h.dvsize
      dsize == newsize - nb
  IN  IF newsize < nb THEN Only(h, NULL)
      ELSE IF dsize < MIN_CHUNK_SIZE
      THEN Only([no_dv(h) EXCEPT !.mem = set_inuse(h.id, @, p, newsize)], p)
      ELSE Only([h EXCEPT !.dv = p + nb, !.dvsize = dsize,
                          !.mem = clear_pinuse(set_size_and_pinuse_of_free_chunk(
                                    set_inuse(h.id, @, p, nb), p + nb, dsize), p + newsize)], p)

into_next(h, p, nb) ==
  LET next == next_chunk(h.mem, p)
      newsize == size_of(h, p) + size_of(h, next)
  IN  IF newsize < nb THEN Only(h, NULL)
      ELSE shrink([unlink_chunk(h, next) EXCEPT !.mem = set_inuse(h.id, @, p, newsize)], p, nb)

try_realloc_chunk(h, p, nb, can_move) ==
  LET next == next_chunk(h.mem, p)
  IN  IF is_mmapped(h.mem, p) THEN mmap_resize(h, p, nb, can_move)
      ELSE IF size_of(h, p) >= nb THEN shrink(h, p, nb)
      ELSE IF next = h.top THEN into_top(h, p, nb)
      ELSE IF next = h.dv THEN into_dv(h, p, nb)
      ELSE IF ~ cinuse(h.mem, next) THEN into_next(h, p, nb)
      ELSE Only(h, NULL)

-----------------------------------------------------------------------------
(* memalign, after its malloc                                                 *)

\* internal_memalign asks malloc for this much.
raised(alignment) == IF alignment < MIN_CHUNK_SIZE THEN MIN_CHUNK_SIZE ELSE alignment
memalign_refused(alignment, bytes) == bytes >= wrap(MAX_REQUEST - raised(alignment))
\* Mutant: no room is asked for what lies before the block.
memalign_request_bare(alignment, bytes) == request2size(bytes) + raised(alignment) - CHUNK_OVERHEAD

memalign_request(alignment, bytes) ==
  request2size(bytes) + raised(alignment) + MIN_CHUNK_SIZE - CHUNK_OVERHEAD

\* The place in p whose memory is aligned; what lies before it can be a chunk.
aligned_place(p, alignment) ==
  LET br == mem2chunk(up(chunk2mem(p), alignment))
  IN  IF chunk2mem(p) % alignment = 0 THEN p
      ELSE IF br - p >= MIN_CHUNK_SIZE THEN br ELSE br + alignment

moved_mmapped(m, p, q) ==
  put(forget(m, p, q - p), q, head(chunksize(m, p) - (q - p), FALSE, FALSE, m[p].foot + (q - p)))

without_leader(h, p, q) ==
  LET m == set_inuse(h.id, set_inuse(h.id, h.mem, q, size_of(h, p) - (q - p)), p, q - p)
  IN  IF q = p THEN {h}
      ELSE IF is_mmapped(h.mem, p) THEN {[h EXCEPT !.mem = moved_mmapped(@, p, q)]}
      ELSE dispose_chunk([h EXCEPT !.mem = m], p, q - p)

without_trailer(h, q, nb) ==
  IF ~ is_mmapped(h.mem, q) /\ size_of(h, q) > nb + MIN_CHUNK_SIZE THEN shrink(h, q, nb) ELSE Only(h, q)

align_chunk(h, p, alignment, bytes) ==
  LET q == aligned_place(p, raised(alignment))
  IN  UNION {without_trailer(g, q, request2size(bytes)) : g \in without_leader(h, p, q)}

-----------------------------------------------------------------------------
(* independent_calloc and independent_comalloc; bulk_free                      *)

contents_size(sizes) == FoldSeq(LAMBDA s, sum : request2size(s) + sum, 0, sizes)
\* Without an array to fill in, one is allocated behind the elements.
array_size(sizes, given) == IF given THEN 0 ELSE request2size(Len(sizes) * SIZE_T_SIZE)
ialloc_request(sizes, given) == contents_size(sizes) + array_size(sizes, given) - CHUNK_OVERHEAD

\* Where the i-th element starts in chunk p.
element(p, sizes, i) == p + contents_size(SubSeq(sizes, 1, i - 1))

\* The last element has all that is left.
element_size(p, sizes, end, i) ==
  IF i = Len(sizes) THEN end - element(p, sizes, i) ELSE request2size(sizes[i])

\* The chunks that p is cut into: the elements and, at the end, the array.
ialloc_split(h, p, sizes, given) ==
  LET end == IF given THEN next_chunk(h.mem, p) ELSE p + contents_size(sizes)
      m == IF given THEN h.mem
           ELSE set_size_and_pinuse_of_inuse_chunk(h.id, h.mem, end, next_chunk(h.mem, p) - end)
  IN  [h EXCEPT !.mem =
         FoldLeft(LAMBDA mm, i : set_size_and_pinuse_of_inuse_chunk(h.id, mm,
                    element(p, sizes, i), element_size(p, sizes, end, i)),
                  m, [i \in DOMAIN sizes |-> i])]

\* Free the blocks of an array: one that is followed in the array by the block
\* behind it is joined with that first.
RECURSIVE free_each(_, _)
free_each(h, array) ==
  IF array = << >> THEN {h}
  ELSE LET p == mem2chunk(Head(array))
           next == next_chunk(h.mem, p)
           joined == [h EXCEPT !.mem = set_inuse(h.id, @, p, size_of(h, p) + size_of(h, next))]
       IN  IF Head(array) = NULL THEN free_each(h, Tail(array))
           ELSE IF FOOTERS /\ get_mstate_for(h.mem, p) # h.id THEN free_each(h, Tail(array))
           ELSE IF Len(array) > 1 /\ array[2] = chunk2mem(next)
           THEN free_each(joined, << Head(array) >> \o SubSeq(array, 3, Len(array)))
           ELSE UNION {free_each(g, Tail(array)) : g \in dispose_chunk(h, p, size_of(h, p))}

internal_bulk_free(h, array) ==
  UNION {IF should_trim(g, g.topsize) THEN {o.h : o \in sys_trim(g, 0)} ELSE {g} :
           g \in free_each(h, array)}

-----------------------------------------------------------------------------
(* The memory and the limit of a malloc_state                                 *)

no_malloc_state(id) ==
  [id |-> id, mem |-> << >>, bins |-> {}, dv |-> NULL, dvsize |-> 0, top |-> NULL, topsize |-> 0,
   least_addr |-> NULL, trim_check |-> 0, release_checks |-> 0, footprint |-> 0,
   max_footprint |-> 0, footprint_limit |-> 0, mmapping |-> TRUE, noncontiguous |-> FALSE,
   segs |-> << >>, brk |-> BREAK, pages |-> {}, foreign |-> {}]

\* An argument of 0 gets the least limit for a moment only: the next test has no
\* else of its own.
limit_for(bytes) == IF bytes = MAX_SIZE_T THEN 0 ELSE granularity_align(bytes)
set_footprint_limit(h, bytes) == [h EXCEPT !.footprint_limit = limit_for(bytes)]

usable_size(h, mem) ==
  IF mem # NULL /\ is_inuse(h.mem, mem2chunk(mem))
  THEN size_of(h, mem2chunk(mem)) - overhead_for(h.mem, mem2chunk(mem)) ELSE 0
=============================================================================

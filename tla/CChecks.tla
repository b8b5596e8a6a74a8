------------------------------ MODULE CChecks ------------------------------
(***************************************************************************)
(* The debugging checks, the statistics and the traversal of dlmalloc.c:   *)
(* each is a walk over the chunks of every segment, from its first aligned *)
(* place up to top or a fencepost.                                         *)
(***************************************************************************)
EXTENDS CMalloc

\* The chunks a walk of segment s from q meets.
RECURSIVE walk(_, _, _)
walk(h, s, q) ==
  IF segment_holds(s, q) /\ q # h.top /\ At(h.mem, q).size # SIZE_T_SIZE /\ chunksize(h.mem, q) > 0
  THEN <<q>> \o walk(h, s, next_chunk(h.mem, q))
  ELSE << >>

Walked(h) ==
  IF is_initialized(h)
  THEN [i \in DOMAIN h.segs |-> walk(h, h.segs[i], align_as_chunk(h.segs[i].base))]
  ELSE << >>

sum_sizes(h, S) == MapThenSumSet(LAMBDA p : size_of(h, p), S)
Met(h) == UNION {ToSet(w) : w \in ToSet(Walked(h))}

is_fencepost(m, p) ==
  At(m, p).size = SIZE_T_SIZE /\ cinuse(m, p) /\ pinuse(m, p)

-----------------------------------------------------------------------------
(* The debugging checks, as what their assertions say                        *)

check_any_chunk(h, p) ==
  /\ chunk2mem(p) % MALLOC_ALIGNMENT = 0 \/ is_fencepost(h.mem, p)
  /\ ok_address(h, p)

check_top_chunk(h) ==
  LET i == segment_holding(h, h.top)
  IN  /\ i # 0 /\ check_any_chunk(h, h.top)
      /\ size_of(h, h.top) = h.topsize /\ h.topsize > 0
      /\ h.topsize = segment_end(h.segs[i]) - h.top - TOP_FOOT_SIZE
      /\ pinuse(h.mem, h.top) /\ ~ pinuse(h.mem, h.top + h.topsize)

check_mmapped_chunk(h, p) ==
  LET sz == size_of(h, p)
  IN  /\ is_mmapped(h.mem, p) /\ h.mmapping /\ check_any_chunk(h, p)
      /\ ~ is_small(sz)
      /\ (sz + At(h.mem, p).foot + MMAP_FOOT_PAD) % page_size = 0
      /\ is_fencepost(h.mem, p + sz) /\ chunksize(h.mem, p + sz + SIZE_T_SIZE) = 0

check_inuse_chunk(h, p) ==
  /\ check_any_chunk(h, p) /\ is_inuse(h.mem, p) /\ next_pinuse(h.mem, p)
  /\ \/ is_mmapped(h.mem, p) \/ pinuse(h.mem, p)
     \/ next_chunk(h.mem, prev_chunk(h.mem, p)) = p
  /\ is_mmapped(h.mem, p) => check_mmapped_chunk(h, p)

check_free_chunk(h, p) ==
  LET sz == size_of(h, p)
      next == p + sz
  IN  /\ check_any_chunk(h, p)
      /\ ~ is_inuse(h.mem, p) /\ ~ pinuse(h.mem, next) /\ ~ is_mmapped(h.mem, p)
      /\ p \in {h.dv, h.top} \/
           /\ sz >= MIN_CHUNK_SIZE /\ sz % MALLOC_ALIGNMENT = 0
           /\ At(h.mem, next).foot = sz /\ pinuse(h.mem, p)
           /\ next = h.top \/ is_inuse(h.mem, next)

\* A chunk malloc returns for nb bytes.
check_malloced_chunk(h, p, nb) ==
  LET sz == size_of(h, p)
  IN  /\ check_inuse_chunk(h, p)
      /\ sz % MALLOC_ALIGNMENT = 0 /\ sz >= MIN_CHUNK_SIZE /\ sz >= nb
      /\ is_mmapped(h.mem, p) \/ sz < nb + MIN_CHUNK_SIZE

\* traverse_and_check, and the total of what it meets.
check_walked(h) ==
  \A w \in ToSet(Walked(h)) :
    /\ w # << >> => pinuse(h.mem, Head(w))
    /\ \A i \in DOMAIN w :
         IF is_inuse(h.mem, w[i]) THEN w[i] \notin h.bins /\ check_inuse_chunk(h, w[i])
         ELSE /\ w[i] = h.dv \/ w[i] \in h.bins
              /\ i = 1 \/ is_inuse(h.mem, w[i - 1])
              /\ check_free_chunk(h, w[i])

total(h) ==
  IF is_initialized(h) THEN h.topsize + TOP_FOOT_SIZE + sum_sizes(h, Met(h)) ELSE 0

check_bins(h) ==
  \A p \in h.bins :
    /\ check_free_chunk(h, p)
    /\ is_fencepost(h.mem, next_chunk(h.mem, p)) \/ check_inuse_chunk(h, next_chunk(h.mem, p))

check_malloc_state(h) ==
  /\ check_bins(h)
  /\ h.dvsize # 0 =>
       /\ check_any_chunk(h, h.dv) /\ h.dvsize = size_of(h, h.dv)
       /\ h.dvsize >= MIN_CHUNK_SIZE /\ h.dv \notin h.bins
  /\ is_initialized(h) => check_top_chunk(h) /\ h.top \notin h.bins
  /\ check_walked(h)
  /\ total(h) <= h.footprint /\ h.footprint <= h.max_footprint

-----------------------------------------------------------------------------
(* Statistics and traversal                                                  *)

\* Mutant: the designated victim is not counted.
free_in_bins(h) == Met(h) \cap h.bins

FreeMet(h) == {p \in Met(h) : ~ is_inuse(h.mem, p)}

internal_mallinfo(h) ==
  LET mfree == h.topsize + TOP_FOOT_SIZE + sum_sizes(h, FreeMet(h))
  IN  IF ~ is_initialized(h)
      THEN [arena |-> 0, ordblks |-> 0, hblkhd |-> 0, usmblks |-> 0, uordblks |-> 0,
            fordblks |-> 0, keepcost |-> 0]
      ELSE [arena |-> total(h), ordblks |-> 1 + Cardinality(FreeMet(h)),
            hblkhd |-> h.footprint - total(h), usmblks |-> h.max_footprint,
            uordblks |-> h.footprint - mfree, fordblks |-> mfree, keepcost |-> h.topsize]

\* "in use bytes" of malloc_stats.
stats_used(h) ==
  IF is_initialized(h)
  THEN h.footprint - (h.topsize + TOP_FOOT_SIZE) - sum_sizes(h, FreeMet(h)) ELSE 0

\* A region that the handler of inspect_all is called with.  Free chunks keep
\* their links: four words, and four more in a tree.
inspected(h, q) ==
  LET sz == size_of(h, q)
      used == IF is_inuse(h.mem, q) THEN sz - CHUNK_OVERHEAD ELSE 0
      start == IF is_inuse(h.mem, q) THEN chunk2mem(q)
               ELSE q + (IF is_small(sz) THEN 4 ELSE 8) * SIZE_T_SIZE
  IN  [start |-> start, end |-> q + sz, used |-> used]

internal_inspect_all(h) ==
  {r \in {inspected(h, q) : q \in Met(h) \cup ({h.top} \ {NULL})} : r.start < r.end}
=============================================================================

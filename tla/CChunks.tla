------------------------------ MODULE CChunks ------------------------------
(***************************************************************************)
(* The chunks of dlmalloc.c: the sizes they can have and the words around  *)
(* them.  Memory is a partial function from chunk addresses to headers.  A *)
(* header's `foot` is prev_foot: the size of a free chunk before; the      *)
(* offset of an mmapped chunk in its region; with FOOTERS, the mark of the *)
(* mstate that the chunk before belongs to.  An mmapped chunk has neither  *)
(* bit set.  As in Chunks, a header strictly inside a chunk is forgotten   *)
(* when the chunk is written, because it is the client's from then on.     *)
(***************************************************************************)
EXTENDS Integers

CONSTANTS
  SIZE_T_SIZE,     \* sizeof(size_t), and sizeof(void*)
  MAX_SIZE_T,      \* brought down so that addresses fit in an instance
  FOOTERS          \* chunks in use are marked with their mstate

ASSUME ChunksAssumption ==
  SIZE_T_SIZE \in {4, 8} /\ MAX_SIZE_T \in Nat /\ (MAX_SIZE_T + 1) % 64 = 0 /\ FOOTERS \in BOOLEAN

NULL == 0
wrap(n) == n % (MAX_SIZE_T + 1)
\* (n + a - 1) & ~(a - 1), a a power of two.
up(n, a) == (wrap(n + a - 1) \div a) * a

MALLOC_ALIGNMENT == 2 * SIZE_T_SIZE
align_offset(a) == up(a, MALLOC_ALIGNMENT) - a
HALF_MAX_SIZE_T == MAX_SIZE_T \div 2

CHUNK_OVERHEAD == IF FOOTERS THEN 2 * SIZE_T_SIZE ELSE SIZE_T_SIZE
MMAP_CHUNK_OVERHEAD == 2 * SIZE_T_SIZE
MMAP_FOOT_PAD == 4 * SIZE_T_SIZE
MIN_CHUNK_SIZE == up(4 * SIZE_T_SIZE, MALLOC_ALIGNMENT)
chunk2mem(p) == p + 2 * SIZE_T_SIZE
mem2chunk(mem) == mem - 2 * SIZE_T_SIZE
align_as_chunk(a) == a + align_offset(chunk2mem(a))
MAX_REQUEST == wrap(4 * (MAX_SIZE_T + 1 - MIN_CHUNK_SIZE))
MIN_REQUEST == MIN_CHUNK_SIZE - CHUNK_OVERHEAD - 1
pad_request(req) == up(req + CHUNK_OVERHEAD, MALLOC_ALIGNMENT)
request2size(req) == IF req < MIN_REQUEST THEN MIN_CHUNK_SIZE ELSE pad_request(req)

MIN_LARGE_SIZE == 256
MAX_SMALL_REQUEST == MIN_LARGE_SIZE - 1 - (MALLOC_ALIGNMENT - 1) - CHUNK_OVERHEAD
is_small(s) == s < MIN_LARGE_SIZE
small_index(s) == s \div 8
SEGMENT_RECORD == pad_request(4 * SIZE_T_SIZE)
TOP_FOOT_SIZE == align_offset(chunk2mem(0)) + SEGMENT_RECORD + MIN_CHUNK_SIZE
SYS_ALLOC_PADDING == TOP_FOOT_SIZE + MALLOC_ALIGNMENT

-----------------------------------------------------------------------------
(* Heads and feet                                                            *)

head(size, pin, cin, foot) == [size |-> size, pinuse |-> pin, cinuse |-> cin, foot |-> foot]
FENCEPOST_HEAD == head(SIZE_T_SIZE, TRUE, TRUE, 0)
Garbage == head(0, FALSE, FALSE, 0)

At(m, p) == IF p \in DOMAIN m THEN m[p] ELSE Garbage
chunksize(m, p) == At(m, p).size
cinuse(m, p) == At(m, p).cinuse
pinuse(m, p) == At(m, p).pinuse
is_inuse(m, p) == cinuse(m, p) \/ ~ pinuse(m, p)
is_mmapped(m, p) == ~ cinuse(m, p) /\ ~ pinuse(m, p)
next_chunk(m, p) == p + chunksize(m, p)
prev_chunk(m, p) == p - At(m, p).foot
next_pinuse(m, p) == pinuse(m, next_chunk(m, p))

put(m, p, hd) == [a \in DOMAIN m \cup {p} |-> IF a = p THEN hd ELSE m[a]]
\* The addresses [a, a + n) are nobody's, or the client's.
forget(m, a, n) == [x \in {y \in DOMAIN m : y < a \/ a + n <= y} |-> m[x]]

\* p->head = s | bits
set_head(m, p, s, pin, cin) == put(forget(m, p + 1, s - 1), p, head(s, pin, cin, At(m, p).foot))
\* The same for top, whose size need not be a multiple of anything: its two low
\* bits are the flags then.
set_top_head(m, p, s) ==
  put(forget(m, p + 1, s - 1), p, head(s - (s % 4), TRUE, s % 4 >= 2, At(m, p).foot))
set_pinuse(m, p) == put(m, p, [At(m, p) EXCEPT !.pinuse = TRUE, !.foot = 0])
clear_pinuse(m, p) == put(m, p, [At(m, p) EXCEPT !.pinuse = FALSE])
set_foot(m, p, s) == put(m, p + s, [At(m, p + s) EXCEPT !.foot = s])

\* The foot that marks a chunk in use; without FOOTERS the word is the client's.
mark_inuse_foot(k, m, p, s) ==
  IF FOOTERS THEN put(m, p + s, [At(m, p + s) EXCEPT !.foot = k]) ELSE m

set_size_and_pinuse_of_free_chunk(m, p, s) == set_foot(set_head(m, p, s, TRUE, FALSE), p, s)

set_free_with_pinuse(m, p, s, n) == set_size_and_pinuse_of_free_chunk(clear_pinuse(m, n), p, s)

set_inuse(k, m, p, s) ==
  mark_inuse_foot(k, set_pinuse(set_head(m, p, s, pinuse(m, p), TRUE), p + s), p, s)

set_inuse_and_pinuse(k, m, p, s) ==
  mark_inuse_foot(k, set_pinuse(set_head(m, p, s, TRUE, TRUE), p + s), p, s)

set_size_and_pinuse_of_inuse_chunk(k, m, p, s) ==
  mark_inuse_foot(k, set_head(m, p, s, TRUE, TRUE), p, s)

get_mstate_for(m, p) == At(m, next_chunk(m, p)).foot

\* An mmapped chunk of size s at p, `offset` behind the start of its region, and
\* the fake chunk that follows it.
set_mmapped(k, m, p, s, offset) ==
  put(put(put(forget(m, p, s + MMAP_FOOT_PAD), p, head(s, FALSE, FALSE, offset)),
          p + s, [FENCEPOST_HEAD EXCEPT !.foot = IF FOOTERS THEN k ELSE 0]),
      p + s + SIZE_T_SIZE, head(0, FALSE, FALSE, 0))

overhead_for(m, p) == IF is_mmapped(m, p) THEN MMAP_CHUNK_OVERHEAD ELSE CHUNK_OVERHEAD
=============================================================================

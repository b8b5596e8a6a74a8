------------------------------- MODULE Sizes -------------------------------
(***************************************************************************)
(* The size arithmetic of dlmalloc-rs: how a request of so many bytes      *)
(* becomes the size of a chunk, and where the limits of the small bins, of *)
(* a segment's foot and of a request lie.  Names are those of the methods. *)
(* Word size is a parameter: 8 is a 64-bit target, 4 is wasm32.            *)
(***************************************************************************)
EXTENDS Integers

CONSTANTS
  WORD,         \* mem::size_of::<usize>()
  USIZE_MAX     \* usize::MAX, brought down so that addresses fit in an instance

ASSUME WordAssumption == WORD \in {4, 8}
ASSUME UsizeAssumption == USIZE_MAX \in Nat /\ USIZE_MAX >= 1023 /\ (USIZE_MAX + 1) % 64 = 0

NULL == 0

SMALLBIN_SHIFT == 3
TREEBIN_SHIFT == 8
NSMALLBINS == 32

\* Both uses of align_up in the code pass a power of two, for which masking and
\* this rounding agree.
align_up(a, alignment) == ((a + alignment - 1) \div alignment) * alignment

malloc_alignment == 2 * WORD
chunk_overhead == WORD
mem_offset == 2 * WORD
min_large_size == 2 ^ TREEBIN_SHIFT
max_small_size == min_large_size - 1
max_small_request == max_small_size - (malloc_alignment - 1) - chunk_overhead
min_chunk_size == align_up(4 * WORD, malloc_alignment)   \* struct Chunk has four words
min_request == min_chunk_size - chunk_overhead - 1
MIN_GRANULARITY == 2 * WORD

pad_request(amt) == align_up(amt + chunk_overhead, malloc_alignment)

request2size(req) ==
  IF req < min_request THEN min_chunk_size ELSE pad_request(req)

small_index(size) == size \div 2 ^ SMALLBIN_SHIFT
is_small(s) == small_index(s) < NSMALLBINS

align_offset_usize(addr) == align_up(addr, malloc_alignment) - addr

segment_record_size == pad_request(4 * WORD)             \* struct Segment, padded

top_foot_size ==
  align_offset_usize(mem_offset) + segment_record_size + min_chunk_size

to_mem(p) == p + mem_offset
from_mem(mem) == mem - mem_offset

\* The first place at or after ptr whose payload is aligned.
align_as_chunk(ptr) == ptr + align_offset_usize(to_mem(ptr))

\* x & !bit for a power of two: the code clears this one bit only.
clear_bit(x, bit) == IF (x \div bit) % 2 = 1 THEN x - bit ELSE x

\* Mutant: the foot of the top chunk is left out of the limit.
max_without_foot(granularity) ==
  USIZE_MAX - (granularity + malloc_alignment) + 1 - chunk_overhead + 1

\* Requests of this many bytes or more are refused before any size is padded.
max_request(granularity) ==
  LET footprint_limit == USIZE_MAX - (granularity + top_foot_size + malloc_alignment) + 1
      min_sys_alloc_space == clear_bit(footprint_limit, malloc_alignment) - chunk_overhead + 1
      wrapped == (USIZE_MAX + 1) - 4 * min_chunk_size    \* (!min_chunk_size + 1) << 2
  IN  IF wrapped <= min_sys_alloc_space THEN wrapped ELSE min_sys_alloc_space

\* No odd number but one divides it.
is_power_of_two(g) == g > 0 /\ \A d \in 2..g : g % d = 0 => d % 2 = 0
=============================================================================

------------------------------ MODULE Requests ------------------------------
(***************************************************************************)
(* What dlmalloc.c computes from the arguments of calloc, memalign,        *)
(* posix_memalign, valloc and pvalloc before it asks dlmalloc for a chunk, *)
(* and how internal_memalign finds the aligned block in the chunk it gets. *)
(* All numbers are a size_t: they wrap at MAX_SIZE_T.  dlmalloc is here    *)
(* only its promise: null, or a chunk that is large enough.                *)
(***************************************************************************)
EXTENDS Integers

CONSTANTS
  SIZE_T_SIZE,        \* sizeof(size_t), and sizeof(void*)
  MAX_SIZE_T,         \* brought down to the size of the instance
  HALF_WORD,          \* 0xffff: a product of two numbers up to it cannot wrap
  page_size,
  Factors,            \* arguments of calloc
  Alignments, Bytes,  \* arguments of memalign and the others
  Places              \* where a chunk may be

IsPowerOf2(n) == n > 0 /\ \A d \in 2..n : n % d = 0 => d % 2 = 0   \* no odd divisor but 1

ASSUME RequestsAssumption ==
  /\ SIZE_T_SIZE \in {4, 8} /\ MAX_SIZE_T \in Nat /\ MAX_SIZE_T >= 32 * SIZE_T_SIZE - 1
  /\ IsPowerOf2(MAX_SIZE_T + 1)
  /\ HALF_WORD \in Nat /\ HALF_WORD * HALF_WORD <= MAX_SIZE_T
  /\ page_size \in 1..MAX_SIZE_T
  /\ Factors \cup Alignments \cup Bytes \subseteq 0..MAX_SIZE_T
  /\ Places \subseteq Nat /\ \A a \in Places : a % (2 * SIZE_T_SIZE) = 0

VARIABLES
  fn, arg, bytes,   \* the call: its function, its alignment (or elem_size), its size
  align,            \* the alignment worked with
  pc, req,          \* the part of the call that is next; what dlmalloc is asked for
  p, size, lead     \* the chunk, its size, and what of it lies before the block

vars == <<fn, arg, bytes, align, pc, req, p, size, lead>>

wrap(n) == n % (MAX_SIZE_T + 1)
up(n, a) == (wrap(n + a - 1) \div a) * a   \* (n + a-1) & ~(a-1), a a power of two

MALLOC_ALIGNMENT == 2 * SIZE_T_SIZE
CHUNK_OVERHEAD == SIZE_T_SIZE
MIN_CHUNK_SIZE == 4 * SIZE_T_SIZE
MAX_REQUEST == wrap(4 * (MAX_SIZE_T + 1 - MIN_CHUNK_SIZE))
MIN_REQUEST == MIN_CHUNK_SIZE - CHUNK_OVERHEAD - 1
chunk2mem(q) == q + 2 * SIZE_T_SIZE
mem2chunk(mem) == mem - 2 * SIZE_T_SIZE

pad_request(r) == up(r + CHUNK_OVERHEAD, MALLOC_ALIGNMENT)
request2size(r) == IF r < MIN_REQUEST THEN MIN_CHUNK_SIZE ELSE pad_request(r)

Ask(n) == pc' = "malloc" /\ req' = n
Refuse == pc' = "null" /\ req' = 0

-----------------------------------------------------------------------------
(* The exported functions                                                    *)

\* Mutant: the product is taken to have wrapped only if it became smaller.
product_if_smaller(n, e) == IF wrap(n * e) < n THEN MAX_SIZE_T ELSE wrap(n * e)

\* n * e, or, if dividing shows that it wrapped, a size that dlmalloc refuses.
\* Two numbers up to HALF_WORD are not divided.
Product(n, e) ==
  IF n # 0 /\ (n > HALF_WORD \/ e > HALF_WORD) /\ wrap(n * e) \div n # e
  THEN MAX_SIZE_T
  ELSE wrap(n * e)

dlcalloc(n, e) ==
  /\ fn' = "calloc" /\ arg' = e /\ bytes' = n
  /\ Ask(Product(n, e)) /\ align' = MALLOC_ALIGNMENT

Raised(a) == IF a < MIN_CHUNK_SIZE THEN MIN_CHUNK_SIZE ELSE a

\* internal_memalign: a power of two at least the smallest chunk.
StartMemalign(a) ==
  IF IsPowerOf2(Raised(a))
  THEN pc' = "size" /\ align' = Raised(a)
  ELSE pc' = "double" /\ align' = 2 * MALLOC_ALIGNMENT

dlmemalign(f, a, n, m) ==
  /\ fn' = f /\ arg' = a /\ bytes' = n
  /\ IF a <= MALLOC_ALIGNMENT
     THEN Ask(m) /\ align' = MALLOC_ALIGNMENT
     ELSE StartMemalign(a) /\ req' = m

dlvalloc(n) == dlmemalign("valloc", page_size, n, n)
dlpvalloc(n) == dlmemalign("pvalloc", page_size, n, up(n, page_size))

\* EINVAL and ENOMEM are both null here.
dlposix_memalign(a, n) ==
  LET d == a \div SIZE_T_SIZE
  IN  /\ fn' = "posix_memalign" /\ arg' = a /\ bytes' = n
      /\ \/ a = MALLOC_ALIGNMENT /\ Ask(n) /\ align' = a
         \/ /\ a # MALLOC_ALIGNMENT /\ (a % SIZE_T_SIZE # 0 \/ ~ IsPowerOf2(d))
            /\ Refuse /\ align' = a
         \/ /\ a # MALLOC_ALIGNMENT /\ a % SIZE_T_SIZE = 0 /\ IsPowerOf2(d)
            /\ IF n <= wrap(MAX_REQUEST - a)
               THEN StartMemalign(a) /\ req' = n
               ELSE Refuse /\ align' = a

Call ==
  /\ pc = "idle"
  /\ \/ \E n, e \in Factors : dlcalloc(n, e)
     \/ \E a \in Alignments, n \in Bytes : dlmemalign("memalign", a, n, n)
     \/ \E a \in Alignments, n \in Bytes : dlposix_memalign(a, n)
     \/ \E n \in Bytes : dlvalloc(n) \/ dlpvalloc(n)
  /\ UNCHANGED <<p, size, lead>>

-----------------------------------------------------------------------------
(* internal_memalign                                                         *)

\* Mutant: the shift is not assigned.
doubled_not == align

\* a <<= 1, while a is less than the alignment
Doubled == wrap(2 * align)

RoundUp ==
  /\ pc = "double"
  /\ IF align < Raised(arg)
     THEN align' = Doubled /\ UNCHANGED pc
     ELSE pc' = "size" /\ UNCHANGED align
  /\ UNCHANGED <<fn, arg, bytes, req, p, size, lead>>

Padded(n) == request2size(n) + align + MIN_CHUNK_SIZE - CHUNK_OVERHEAD

Pad ==
  /\ pc = "size"
  /\ IF req >= wrap(MAX_REQUEST - align) THEN Refuse ELSE Ask(wrap(Padded(req)))
  /\ UNCHANGED <<fn, arg, bytes, align, p, size, lead>>

\* dlmalloc refuses what is too large, may fail, and hands out up to a chunk too much,
\* all of it below the end of memory.
Malloc ==
  /\ pc = "malloc"
  /\ \/ pc' = "null" /\ UNCHANGED <<p, size>>
     \/ /\ req < MAX_REQUEST
        /\ p' \in Places
        /\ size' \in {request2size(req), request2size(req) + MALLOC_ALIGNMENT}
        /\ p' + size' <= MAX_SIZE_T + 1
        /\ pc' = IF align > MALLOC_ALIGNMENT THEN "lead" ELSE "block"
  /\ UNCHANGED <<fn, arg, bytes, align, req, lead>>

\* Mutant: the first aligned place will do.
aligned_first(q) == mem2chunk(up(chunk2mem(q), align))

\* The first aligned place with nothing, or a chunk, in front of it.
AlignedPlace(q) ==
  LET br == mem2chunk(up(chunk2mem(q), align))
  IN  IF chunk2mem(q) % align = 0 THEN q
      ELSE IF br - q >= MIN_CHUNK_SIZE THEN br ELSE br + align

\* The request the caller of internal_memalign made.
Wanted == wrap(req + CHUNK_OVERHEAD - align - MIN_CHUNK_SIZE)

\* Leading and trailing space goes back, if there is enough.
Place ==
  /\ pc = "lead"
  /\ lead' = AlignedPlace(p) - p
  /\ p' = AlignedPlace(p)
  /\ LET rest == size - lead'
     IN  size' = IF rest > Wanted + MIN_CHUNK_SIZE THEN Wanted ELSE rest
  /\ pc' = "block"
  /\ UNCHANGED <<fn, arg, bytes, align, req>>

Return ==
  /\ pc \in {"null", "block"}
  /\ pc' = "idle" /\ p' = 0 /\ size' = 0 /\ lead' = 0 /\ req' = 0 /\ align' = 0
  /\ fn' = "none" /\ arg' = 0 /\ bytes' = 0

Init ==
  /\ fn = "none" /\ arg = 0 /\ bytes = 0 /\ align = 0
  /\ pc = "idle" /\ req = 0 /\ p = 0 /\ size = 0 /\ lead = 0

Next == Call \/ RoundUp \/ Pad \/ Malloc \/ Place \/ Return

Running == RoundUp \/ Pad \/ Malloc \/ Place \/ Return
Spec == Init /\ [][Next]_vars /\ WF_vars(Running)

-----------------------------------------------------------------------------
(* Properties *)

\* The bytes the documentation promises for the call, as a number.
Promised ==
  IF fn = "calloc" THEN bytes * arg
  ELSE IF fn = "pvalloc" THEN ((bytes + page_size - 1) \div page_size) * page_size
  ELSE bytes

\* The block of a call that did not fail has the bytes that were asked for,
\* products and roundings included, beside the chunk's own overhead, and is aligned
\* as was asked for; to the next power of two if that is none (dlcalloc, dlmemalign,
\* dlposix_memalign, dlvalloc, dlpvalloc).
Served ==
  pc = "block" =>
    /\ size - CHUNK_OVERHEAD >= Promised
    /\ fn # "calloc" /\ arg > 0 =>
         \E a \in arg..(2 * arg - 1) : IsPowerOf2(a) /\ chunk2mem(p) % a = 0

\* internal_memalign always finds an aligned place in the chunk it got: what it
\* gives back in front is nothing or a chunk, and the block fits in the rest.
RoomForBlock ==
  pc = "block" =>
    /\ lead = 0 \/ lead >= MIN_CHUNK_SIZE
    /\ size >= MIN_CHUNK_SIZE /\ size % MALLOC_ALIGNMENT = 0

\* A call comes back, unless its alignment is above the highest power of two there
\* is: up to that the doubling reaches the alignment before it wraps, and it only
\* begins where the alignment is none (internal_memalign).
CallReturns ==
  (pc # "idle" /\ (pc = "double" => arg <= (MAX_SIZE_T + 1) \div 2)) ~> pc = "idle"

\* Every call comes back, whatever its alignment: dlmemalign takes one that is not a
\* power of two for the next greater one.
EveryCallReturns == pc # "idle" ~> pc = "idle"
=============================================================================

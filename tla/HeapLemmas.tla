----------------------------- MODULE HeapLemmas -----------------------------
(*****************************************************************************)
(* What the sizes and the boundary tags of the port are, for every word      *)
(* size the crate has and any limit of the address space, and type           *)
(* correctness of the allocator: TypeOK is inductive as it stands. The       *)
(* invariant is taken apart by what a step writes - the heap, the system     *)
(* side, the counters, the call, the client's blocks - because most steps    *)
(* write only some of these and leave the others alone.                      *)
(*                                                                           *)
(* Then, what a heap is, and what keeps it one. A heap is a memory m of      *)
(* headers whose chunks tile a set S of segments, with the top chunk t as    *)
(* the one chunk that may end where no other chunk begins. Whatever the      *)
(* allocator does to the memory, it cuts a range of it anew: the range       *)
(* becomes one chunk or two. One lemma says when a heap is a heap after such *)
(* a cut. The operations on the chunks of a heap follow from it: handing one *)
(* out, giving one back, resizing one in place. So do those on segments: a   *)
(* first one, one extended at its end or put before another, the record of   *)
(* one that is no longer the newest, a top cut short, a segment given back.  *)
(*****************************************************************************)
EXTENDS Dlmalloc, SequenceTheorems, TLAPS

-----------------------------------------------------------------------------
(* Size arithmetic                                                            *)

\* The constants of a 64-bit target and of wasm32.
LEMMA Constants ==
  \/ /\ WORD = 4 /\ malloc_alignment = 8 /\ chunk_overhead = 4 /\ mem_offset = 8
     /\ min_chunk_size = 16 /\ min_request = 11 /\ segment_record_size = 24 /\ top_foot_size = 40
  \/ /\ WORD = 8 /\ malloc_alignment = 16 /\ chunk_overhead = 8 /\ mem_offset = 16
     /\ min_chunk_size = 32 /\ min_request = 23 /\ segment_record_size = 48 /\ top_foot_size = 80
BY WordAssumption
   DEF malloc_alignment, chunk_overhead, mem_offset, min_chunk_size, min_request,
       segment_record_size, top_foot_size, align_offset_usize, pad_request, align_up

\* Rounding up goes to a multiple, and never past the next one.
LEMMA AlignUp ==
  ASSUME NEW a \in Int, NEW n \in Nat \ {0}
  PROVE  /\ align_up(a, n) \in Int /\ align_up(a, n) % n = 0
         /\ a <= align_up(a, n) /\ align_up(a, n) < a + n
BY DEF align_up

\* A chunk has room for its header and the request, and is aligned.
LEMMA Request2Size ==
  ASSUME NEW req \in Int
  PROVE  /\ request2size(req) \in Int /\ request2size(req) > 0
         /\ request2size(req) % malloc_alignment = 0
         /\ req + chunk_overhead <= request2size(req)
         /\ \/ request2size(req) = min_chunk_size
            \/ request2size(req) < req + chunk_overhead + malloc_alignment
<1>1. malloc_alignment \in Nat \ {0} /\ chunk_overhead \in Nat
  BY Constants
<1>2. CASE req < min_request
  BY <1>2, Constants DEF request2size
<1>3. CASE ~ (req < min_request)
  <2>1. request2size(req) = align_up(req + chunk_overhead, malloc_alignment)
    BY <1>3 DEF request2size, pad_request
  <2>2. /\ request2size(req) \in Int /\ request2size(req) % malloc_alignment = 0
        /\ req + chunk_overhead <= request2size(req)
        /\ request2size(req) < req + chunk_overhead + malloc_alignment
    BY <2>1, <1>1, AlignUp
  <2>3. req > 0
    BY <1>3, Constants
  <2> QED
    BY <2>2, <2>3, <1>1
<1> QED
  BY <1>2, <1>3

\* A power of two that is at least the malloc alignment is a multiple of it.
LEMMA Granules ==
  ASSUME NEW g \in Nat, is_power_of_two(g), g >= MIN_GRANULARITY
  PROVE  g % malloc_alignment = 0
<1>1. g \in Nat /\ g >= 2 * WORD /\ \A d \in 2..g : g % d = 0 => d % 2 = 0
  BY DEF is_power_of_two, MIN_GRANULARITY
<1>2. g >= 8
  BY <1>1, WordAssumption
<1>3. g % 2 = 0
  <2>1. g \in 2..g /\ g % g = 0
    BY <1>2
  <2> QED
    BY <2>1, <1>1
<1>4. g % 4 = 0
  <2>1. PICK h \in Nat : g = 2 * h
    BY <1>3
  <2>2. h \in 2..g /\ g % h = 0
    BY <2>1, <1>2
  <2> QED
    BY <2>1, <2>2, <1>1
<1>5. g % 8 = 0
  <2>1. PICK h \in Nat : g = 4 * h
    BY <1>4
  <2>2. h \in 2..g /\ g % h = 0
    BY <2>1, <1>2
  <2> QED
    BY <2>1, <2>2, <1>1
<1>6. CASE WORD = 4
  BY <1>5, <1>6 DEF malloc_alignment
<1>7. CASE WORD = 8
  <2>1. PICK h \in Nat : g = 8 * h
    BY <1>5
  <2>2. h \in 2..g /\ g % h = 0
    BY <2>1, <1>1, <1>7
  <2>3. h % 2 = 0
    BY <2>2, <1>1
  <2> QED
    BY <2>1, <2>3, <1>7 DEF malloc_alignment
<1> QED
  BY <1>6, <1>7, WordAssumption

\* Clearing a bit of a multiple of it gives a multiple of it, and nothing larger.
LEMMA ClearBit ==
  ASSUME NEW x \in Int, NEW b \in {8, 16}, x % b = 0
  PROVE  clear_bit(x, b) \in Int /\ clear_bit(x, b) <= x /\ clear_bit(x, b) % b = 0
<1>1. CASE b = 8
  BY <1>1 DEF clear_bit
<1>2. CASE b = 16
  BY <1>2 DEF clear_bit
<1> QED
  BY <1>1, <1>2

\* A request below max_request, made into a chunk, with the foot, the alignment
\* and all but one of a granule, still fits in the address space.
LEMMA RequestFits ==
  ASSUME NEW g \in Nat, g % malloc_alignment = 0,
         NEW req \in Int, req < max_request(g), ~ (req < min_request)
  PROVE  request2size(req) + top_foot_size + malloc_alignment + (g - 1) <= USIZE_MAX
<1> DEFINE limit == USIZE_MAX - (g + top_foot_size + malloc_alignment) + 1
           cleared == clear_bit(limit, malloc_alignment)
<1>1. /\ malloc_alignment \in Nat \ {0} /\ chunk_overhead \in Nat /\ top_foot_size \in Nat
      /\ min_chunk_size \in Nat /\ top_foot_size % malloc_alignment = 0
      /\ malloc_alignment \in {8, 16}
  BY Constants
<1>2. USIZE_MAX \in Nat /\ (USIZE_MAX + 1) % malloc_alignment = 0
  BY <1>1, UsizeAssumption
<1>3. limit \in Int /\ limit % malloc_alignment = 0
  BY <1>1, <1>2
<1>4. cleared \in Int /\ cleared <= limit /\ cleared % malloc_alignment = 0
  BY <1>1, <1>3, ClearBit
<1>5. req < cleared - chunk_overhead + 1
  BY <1>1, <1>2, <1>4 DEF max_request
<1>6. request2size(req) \in Int /\ request2size(req) < req + chunk_overhead + malloc_alignment
      /\ request2size(req) % malloc_alignment = 0
  BY SMTT(30), <1>1, AlignUp DEF request2size, pad_request
<1>7. request2size(req) < cleared + malloc_alignment
  BY <1>1, <1>4, <1>5, <1>6
<1>8. request2size(req) <= cleared
  BY <1>1, <1>4, <1>6, <1>7
<1> QED
  BY <1>1, <1>2, <1>3, <1>4, <1>6, <1>8

\* So does a small request, which is not held against max_request.
LEMMA SmallRequestFits ==
  ASSUME NEW g \in Nat, g <= (USIZE_MAX + 1) \div 2,
         NEW req \in Int, req <= max_small_request
  PROVE  request2size(req) + top_foot_size + malloc_alignment + (g - 1) <= USIZE_MAX
<1>1. max_small_request \in {232, 244}
  BY Constants DEF max_small_request, max_small_size, min_large_size, TREEBIN_SHIFT
<1>2. /\ request2size(req) \in Int
      /\ \/ request2size(req) = min_chunk_size
         \/ request2size(req) < req + chunk_overhead + malloc_alignment
  BY Request2Size
<1>3. request2size(req) + top_foot_size + malloc_alignment <= 383
  BY <1>1, <1>2, Constants
<1>4. g <= 512 + (USIZE_MAX - 1023) /\ USIZE_MAX \in Nat
  BY UsizeAssumption
<1> QED
  BY <1>2, <1>3, <1>4, Constants

\* Nor does the request memalign makes, the alignment and a chunk on top.
LEMMA AlignedRequestFits ==
  ASSUME NEW g \in Nat, g % malloc_alignment = 0,
         NEW align \in Nat, NEW size \in Nat, size < max_request(g) - align
  PROVE  request2size(size) + align + min_chunk_size <= USIZE_MAX
<1>1. max_request(g) \in Int /\ max_request(g) <= USIZE_MAX + 1 - 4 * min_chunk_size
  BY Constants, UsizeAssumption DEF max_request, clear_bit
<1>2. /\ request2size(size) \in Int
      /\ \/ request2size(size) = min_chunk_size
         \/ request2size(size) < size + chunk_overhead + malloc_alignment
  BY Request2Size
<1> QED
  BY <1>1, <1>2, Constants, UsizeAssumption

-----------------------------------------------------------------------------
(* What the operations on boundary tags return: a memory of headers again     *)

IsMem(m) == m \in [DOMAIN m -> Headers] /\ DOMAIN m \subseteq Int

\* What is read at an address is a header.
LEMMA HeaderAtType ==
  ASSUME NEW m, IsMem(m), NEW a
  PROVE  HeaderAt(m, a) \in Headers
BY DEF IsMem, HeaderAt, Garbage, Headers

\* Its fields have their kinds.
LEMMA TagTypes ==
  ASSUME NEW m, IsMem(m), NEW a
  PROVE  /\ HeaderAt(m, a).size \in Int /\ HeaderAt(m, a).prev_foot \in Int
         /\ pinuse(m, a) \in BOOLEAN /\ cinuse(m, a) \in BOOLEAN
BY HeaderAtType DEF Headers, pinuse, cinuse

\* Overwriting one value of a function over addresses.
LEMMA PutType ==
  ASSUME NEW T, NEW f, f \in [DOMAIN f -> T], DOMAIN f \subseteq Int,
         NEW a \in Int, NEW v \in T
  PROVE  /\ Put(f, a, v) \in [DOMAIN Put(f, a, v) -> T]
         /\ DOMAIN Put(f, a, v) = DOMAIN f \cup {a} /\ DOMAIN Put(f, a, v) \subseteq Int
BY DEF Put

\* Writing a header leaves a memory of headers,
LEMMA PutMem ==
  ASSUME NEW m, IsMem(m), NEW a \in Int, NEW h \in Headers
  PROVE  IsMem(Put(m, a, h))
BY PutType DEF IsMem

\* and so does every operation on tags.
LEMMA SetHeadType ==
  ASSUME NEW m, IsMem(m), NEW me \in Int, NEW size \in Int,
         NEW pin \in BOOLEAN, NEW cin \in BOOLEAN
  PROVE  IsMem(SetHead(m, me, size, pin, cin))
<1> DEFINE D == {y \in DOMAIN m : y <= me \/ y >= me + size} \cup {me}
           h == [HeaderAt(m, me) EXCEPT !.size = size, !.pinuse = pin, !.cinuse = cin]
<1>1. h \in Headers
  BY HeaderAtType DEF Headers
<1>2. D \subseteq Int
  BY DEF IsMem
<1>3. \A x \in D : (IF x = me THEN h ELSE m[x]) \in Headers
  BY <1>1 DEF IsMem
<1>4. SetHead(m, me, size, pin, cin) = [x \in D |-> IF x = me THEN h ELSE m[x]]
  BY DEF SetHead
<1> HIDE DEF D, h
<1> QED
  BY <1>2, <1>3, <1>4 DEF IsMem

\* so does marking the chunk after it,
LEMMA MarkTypes ==
  ASSUME NEW m, IsMem(m), NEW me \in Int, NEW size \in Int
  PROVE  IsMem(mark_pinuse(m, me)) /\ IsMem(clear_pinuse(m, me)) /\ IsMem(set_foot(m, me, size))
<1>1. ASSUME NEW h \in Headers
      PROVE  /\ [h EXCEPT !.pinuse = TRUE, !.prev_foot = 0] \in Headers
             /\ [h EXCEPT !.pinuse = FALSE] \in Headers
             /\ [h EXCEPT !.prev_foot = size] \in Headers
  <2>0. 0 \in Int
    OBVIOUS
  <2>1. [h EXCEPT !.pinuse = TRUE, !.prev_foot = 0] \in Headers
    BY <2>0, Zenon DEF Headers
  <2>2. [h EXCEPT !.pinuse = FALSE] \in Headers
    BY DEF Headers
  <2>3. [h EXCEPT !.prev_foot = size] \in Headers
    BY DEF Headers
  <2> QED
    BY <2>1, <2>2, <2>3
<1>2. HeaderAt(m, me) \in Headers /\ HeaderAt(m, me + size) \in Headers /\ me + size \in Int
  BY HeaderAtType
<1>3. IsMem(mark_pinuse(m, me))
  BY <1>1, <1>2, PutMem DEF mark_pinuse
<1>4. IsMem(clear_pinuse(m, me))
  BY <1>1, <1>2, PutMem DEF clear_pinuse
<1>5. IsMem(set_foot(m, me, size))
  BY <1>1, <1>2, PutMem DEF set_foot
<1> QED
  BY <1>3, <1>4, <1>5

\* set_inuse,
LEMMA SetInuseType ==
  ASSUME NEW m, IsMem(m), NEW me \in Int, NEW size \in Int
  PROVE  IsMem(set_inuse(m, me, size)) /\ IsMem(set_inuse_and_pinuse(m, me, size))
<1>1. pinuse(m, me) \in BOOLEAN
  BY TagTypes
<1>2. IsMem(SetHead(m, me, size, pinuse(m, me), TRUE)) /\ IsMem(SetHead(m, me, size, TRUE, TRUE))
  BY <1>1, SetHeadType
<1>3. me + size \in Int
  OBVIOUS
<1> QED
  BY <1>2, <1>3, MarkTypes DEF set_inuse, set_inuse_and_pinuse

\* giving a chunk a size,
LEMMA SetSizeTypes ==
  ASSUME NEW m, IsMem(m), NEW me \in Int, NEW size \in Int
  PROVE  /\ IsMem(set_size_and_pinuse_of_inuse_chunk(m, me, size))
         /\ IsMem(set_size_and_pinuse_of_free_chunk(m, me, size))
<1>1. IsMem(SetHead(m, me, size, TRUE, TRUE)) /\ IsMem(SetHead(m, me, size, TRUE, FALSE))
  BY SetHeadType
<1> QED
  BY <1>1, MarkTypes
     DEF set_size_and_pinuse_of_inuse_chunk, set_size_and_pinuse_of_free_chunk

\* and setting it free.
LEMMA SetFreeType ==
  ASSUME NEW m, IsMem(m), NEW p \in Int, NEW size \in Int, NEW n \in Int
  PROVE  IsMem(set_free_with_pinuse(m, p, size, n))
<1>1. IsMem(clear_pinuse(m, n))
  BY MarkTypes
<1> QED
  BY <1>1, SetSizeTypes DEF set_free_with_pinuse

-----------------------------------------------------------------------------
(* The types of a state and of a step                                         *)

HeapType ==
  /\ IsMem(mem) /\ bins \subseteq Int
  /\ dv \in Int /\ dvsize \in Int /\ top \in Int /\ topsize \in Int
SystemType ==
  /\ segs \in Seq(Segment) /\ footprint \in Int /\ least_addr \in Int
  /\ externs \subseteq [base : Int, size : Int]
CountersType == trim_check \in Int /\ release_checks \in Int
ConfigType ==
  /\ granularity \in Nat /\ is_power_of_two(granularity) /\ granularity >= MIN_GRANULARITY
  /\ granularity \in Granularities \cup {DEFAULT_GRANULARITY}
  /\ max_release_check_rate \in Nat
Controls == {"idle", "malloc", "lead", "tail", "realloc", "free", "trim", "release",
             "destroyed", "corrupt"}
CallType == pc \in Controls /\ call \in Frame
Blocks == [size : Int, align : Int]
LiveType == live \in [DOMAIN live -> Blocks] /\ DOMAIN live \subseteq Int

\* The type invariant, part by part, before a step
LEMMA TypeParts ==
  TypeOK <=> HeapType /\ SystemType /\ CountersType /\ ConfigType /\ CallType /\ LiveType
BY DEF TypeOK, HeapType, IsMem, SystemType, CountersType, ConfigType, CallType, Controls,
       Blocks, LiveType

\* and after it.
LEMMA TypePartsPrime ==
  TypeOK' <=> HeapType' /\ SystemType' /\ CountersType' /\ ConfigType' /\ CallType' /\ LiveType'
BY DEF TypeOK, HeapType, IsMem, SystemType, CountersType, ConfigType, CallType, Controls,
       Blocks, LiveType

\* What is left alone keeps its type.
LEMMA Untouched ==
  /\ HeapType /\ UNCHANGED heap => HeapType'
  /\ SystemType /\ UNCHANGED system => SystemType'
  /\ CountersType /\ UNCHANGED counters => CountersType'
  /\ ConfigType /\ UNCHANGED config => ConfigType'
  /\ CallType /\ UNCHANGED <<pc, call>> => CallType'
  /\ LiveType /\ UNCHANGED live => LiveType'
BY DEF HeapType, IsMem, SystemType, CountersType, ConfigType, CallType, LiveType,
       heap, system, counters, config

-----------------------------------------------------------------------------
(* Over-aligned requests                                                       *)

\* No alignment is above the limit of a request: max_request() - alignment, l. 660,
\* is a usize. With granularities up to a quarter of the address space it always is.
AlignmentsFit ==
  \A g \in Granularities \cup {DEFAULT_GRANULARITY}, a \in Alignments : raised(a) <= max_request(g)

\* Then nothing wraps on memalign's way to malloc.
LEMMA AllocateFits ==
  ASSUME AlignmentsFit, TypeOK, NEW size \in 0..USIZE_MAX,
         NEW align \in Alignments \cup {malloc_alignment}, ~ (align <= malloc_alignment),
         NEW old, Allocate(size, align, old)
  PROVE  /\ raised(align) \in Nat
         /\ request2size(size) \in Int /\ request2size(size) >= size + chunk_overhead
         /\ request2size(size) + raised(align) + min_chunk_size <= USIZE_MAX
         /\ call' = Asking(request2size(size) + raised(align) + min_chunk_size - chunk_overhead,
                           size, align, old)
<1> DEFINE limit == max_request(granularity)
           req == request2size(size) + raised(align) + min_chunk_size - chunk_overhead
<1>1. /\ granularity \in Nat /\ granularity % malloc_alignment = 0
      /\ granularity \in Granularities \cup {DEFAULT_GRANULARITY}
  BY TypeParts, Granules DEF ConfigType
<1>2. /\ malloc_alignment \in Nat /\ chunk_overhead \in Nat /\ min_chunk_size \in Nat
      /\ min_chunk_size >= chunk_overhead /\ USIZE_MAX \in Nat /\ size \in Nat
  BY Constants, UsizeAssumption
<1>3. align \in Alignments /\ align \in Nat
  BY <1>2, ConfigAssumption
<1>4. raised(align) \in Nat
  BY <1>2, <1>3 DEF raised
<1>5. limit \in Int /\ limit <= USIZE_MAX
  BY <1>1, Constants, UsizeAssumption DEF max_request, clear_bit
<1>6. raised(align) <= limit
  BY <1>1, <1>3 DEF AlignmentsFit
<1>7. wrap(limit - raised(align)) = limit - raised(align)
  <2>1. limit - raised(align) \in 0..USIZE_MAX
    BY <1>2, <1>4, <1>5, <1>6
  <2> QED
    BY <1>2, <2>1 DEF wrap
<1>8. /\ size < wrap(limit - raised(align))
      /\ call' = Asking(wrap(req), size, align, old)
  BY DEF Allocate
<1>9. request2size(size) \in Int /\ request2size(size) >= size + chunk_overhead
  BY <1>2, Request2Size
<1>10. request2size(size) + raised(align) + min_chunk_size <= USIZE_MAX
  BY <1>1, <1>2, <1>4, <1>7, <1>8, AlignedRequestFits
<1>11. wrap(req) = req
  <2>1. req \in 0..USIZE_MAX
    BY <1>2, <1>4, <1>9, <1>10
  <2> QED
    BY <1>2, <2>1 DEF wrap
<1> QED
  BY <1>4, <1>8, <1>9, <1>10, <1>11

-----------------------------------------------------------------------------
(* Frames *)

\* The frame of a call that asks.
LEMMA AskingType ==
  ASSUME NEW req \in Int, NEW size \in Int, NEW align \in Int, NEW old \in Int
  PROVE  Asking(req, size, align, old) \in Frame
<1>1. 0 \in Int /\ NULL \in Int
  BY DEF NULL
<1> QED
  BY <1>1 DEF Asking, Frame

\* The frames of the other calls.
LEMMA FrameTypes ==
  ASSUME NEW f \in Frame, NEW n \in Int
  PROVE  /\ [f EXCEPT !.p = n] \in Frame /\ [f EXCEPT !.req = n] \in Frame
         /\ [f EXCEPT !.sp = n] \in Frame /\ [f EXCEPT !.nsegs = n] \in Frame
         /\ [f EXCEPT !.pad = n] \in Frame
         /\ [f EXCEPT !.trimming = TRUE] \in Frame /\ [f EXCEPT !.released = TRUE] \in Frame
BY DEF Frame

\* What a frame holds.
LEMMA FrameFields ==
  ASSUME NEW f \in Frame
  PROVE  /\ f.req \in Int /\ f.size \in Int /\ f.align \in Int /\ f.old \in Int /\ f.p \in Int
         /\ f.pad \in Int /\ f.sp \in Int /\ f.nsegs \in Int
BY DEF Frame

\* A frame with one field replaced is a frame.
LEMMA SmallFrames ==
  ASSUME NEW n \in Int
  PROVE  NoCall \in Frame /\ Giving(n) \in Frame /\ Trimming(n) \in Frame
<1>1. 0 \in Int /\ NULL \in Int
  BY DEF NULL
<1>2. NoCall \in Frame
  BY <1>1, AskingType DEF NoCall
<1>3. Giving(n) \in Frame
  BY <1>2, FrameTypes DEF Giving
<1>4. [NoCall EXCEPT !.pad = n] \in Frame
  BY <1>2, FrameTypes
<1>5. Trimming(n) \in Frame
  BY <1>4, FrameTypes DEF Trimming
<1> QED
  BY <1>2, <1>3, <1>5

\* A call that ends leaves a frame,
LEMMA IdleType == Idle => CallType'
<1>1. 0 \in Int
  OBVIOUS
<1>2. NoCall \in Frame
  BY <1>1, SmallFrames
<1> QED
  BY <1>2 DEF Idle, CallType, Controls

\* and so does one that goes on to a release pass.
LEMMA ScanType ==
  ASSUME NEW f \in Frame, Scan(f)
  PROVE  CallType'
<1>1. 2 \in Int
  OBVIOUS
<1>2. [f EXCEPT !.sp = 2] \in Frame
  BY <1>1, FrameTypes
<1> QED
  BY <1>2 DEF Scan, CallType, Controls

-----------------------------------------------------------------------------
(* The end of a call *)

\* What a block is promised.
LEMMA PromiseType == CallType => Promise \in Blocks
BY FrameFields DEF CallType, Promise, Blocks

\* Part of a memory is a memory.
LEMMA RestrictType ==
  ASSUME NEW x, LiveType
  PROVE  LET f == Restrict(live, DOMAIN live \ {x})
         IN  f \in [DOMAIN f -> Blocks] /\ DOMAIN f \subseteq Int /\ DOMAIN f \subseteq DOMAIN live
BY DEF LiveType, Restrict

\* Chunks and blocks are at integers.
LEMMA MemAddresses ==
  ASSUME NEW p \in Int
  PROVE  to_mem(p) \in Int /\ from_mem(p) \in Int
BY Constants DEF to_mem, from_mem

\* The end of a call.
LEMMA FinishType ==
  ASSUME CallType, LiveType, NEW p \in Int, Finish(p)
  PROVE  CallType' /\ LiveType'
<1>1. Promise \in Blocks /\ to_mem(p) \in Int
  BY PromiseType, MemAddresses
<1>2. CASE p = NULL /\ Idle /\ UNCHANGED live
  BY <1>2, IdleType DEF LiveType
<1>3. CASE p # NULL /\ call.old = NULL /\ Idle /\ live' = Put(live, to_mem(p), Promise)
  <2>1. LiveType'
    BY <1>1, <1>3, PutType DEF LiveType
  <2> QED
    BY <1>3, <2>1, IdleType
<1>4. CASE /\ p # NULL /\ call.old # NULL
           /\ live' = Put(Restrict(live, DOMAIN live \ {call.old}), to_mem(p), Promise)
           /\ pc' = "free" /\ call' = Giving(from_mem(call.old))
  <2> DEFINE f == Restrict(live, DOMAIN live \ {call.old})
  <2>1. f \in [DOMAIN f -> Blocks] /\ DOMAIN f \subseteq Int
    BY RestrictType
  <2>2. live' = Put(f, to_mem(p), Promise)
    BY <1>4
  <2> HIDE DEF f
  <2>3. LiveType'
    BY <1>1, <2>1, <2>2, PutType DEF LiveType
  <2>4. from_mem(call.old) \in Int
    BY FrameFields, MemAddresses DEF CallType
  <2>5. CallType'
    BY <1>4, <2>4, SmallFrames DEF CallType, Controls
  <2> QED
    BY <2>3, <2>5
<1> QED
  BY <1>2, <1>3, <1>4 DEF Finish

\* What malloc returns leaves the call and the blocks their types.
LEMMA ReturnType ==
  ASSUME CallType, LiveType, NEW p \in Int, Return(p)
  PROVE  CallType' /\ LiveType'
<1>1. CASE p # NULL /\ call.align > malloc_alignment
  <2>1. pc' = "lead" /\ call' = [call EXCEPT !.p = p] /\ live' = live
    BY <1>1 DEF Return
  <2>2. [call EXCEPT !.p = p] \in Frame
    BY FrameTypes DEF CallType
  <2> QED
    BY <2>1, <2>2 DEF CallType, Controls, LiveType
<1>2. CASE ~ (p # NULL /\ call.align > malloc_alignment)
  BY <1>2, FinishType DEF Return
<1> QED
  BY <1>1, <1>2

-----------------------------------------------------------------------------
(* malloc *)

\* A chunk has a size.
LEMMA NbType == CallType => nb \in Int
BY FrameFields, Request2Size DEF CallType, nb

\* The size in a header.
LEMMA SizeOfType ==
  ASSUME IsMem(mem), NEW p
  PROVE  SizeOf(p) \in Int
BY TagTypes DEF SizeOf

\* A chunk of a bin handed out whole,
LEMMA TakeWholeType ==
  ASSUME HeapType, NEW p \in bins, TakeWhole(p), UNCHANGED <<top, topsize>>
  PROVE  HeapType'
<1>1. p \in Int /\ SizeOf(p) \in Int
  BY SizeOfType DEF HeapType
<1>2. IsMem(mem')
  BY <1>1, SetInuseType DEF TakeWhole, HeapType
<1> QED
  BY <1>2 DEF TakeWhole, HeapType

\* The two chunks an unlinked chunk is split into are written with good headers.
LEMMA SplitType ==
  ASSUME HeapType, CallType, NEW p \in bins
  PROVE  /\ p + nb \in Int /\ SizeOf(p) - nb \in Int
         /\ IsMem(set_size_and_pinuse_of_free_chunk(
                    set_size_and_pinuse_of_inuse_chunk(mem, p, nb), p + nb, SizeOf(p) - nb))
<1>1. p \in Int /\ SizeOf(p) \in Int /\ nb \in Int
  BY SizeOfType, NbType DEF HeapType
<1>2. IsMem(set_size_and_pinuse_of_inuse_chunk(mem, p, nb))
  BY <1>1, SetSizeTypes DEF HeapType
<1>3. p + nb \in Int /\ SizeOf(p) - nb \in Int
  BY <1>1
<1> QED
  BY <1>2, <1>3, SetSizeTypes

\* or split,
LEMMA SplitIntoDvType ==
  ASSUME HeapType, CallType, NEW p \in bins, SplitIntoDv(p), UNCHANGED <<top, topsize>>
  PROVE  HeapType'
BY SplitType DEF SplitIntoDv, HeapType

\* so every path of malloc from the bins.
LEMMA FromBinsType ==
  ASSUME TypeOK, MallocExactBin \/ MallocHigherBin \/ MallocSmallFromTree \/ MallocLargeFromTree
  PROVE  TypeOK'
<1>0. HeapType /\ SystemType /\ CountersType /\ ConfigType /\ CallType /\ LiveType
  BY TypeParts
<1>1. FromBinsFrame
  BY DEF MallocExactBin, MallocHigherBin, MallocSmallFromTree, MallocLargeFromTree
<1>2. UNCHANGED <<top, topsize>> /\ SystemType' /\ CountersType' /\ ConfigType'
  BY <1>0, <1>1, Untouched DEF FromBinsFrame
<1>3. PICK p \in bins :
        /\ Return(p)
        /\ \/ TakeWhole(p)
           \/ SplitIntoDv(p)
           \/ /\ mem' = set_size_and_pinuse_of_free_chunk(
                          set_size_and_pinuse_of_inuse_chunk(mem, p, nb), p + nb, SizeOf(p) - nb)
              /\ bins' = (bins \ {p}) \cup {p + nb}
              /\ UNCHANGED <<dv, dvsize>>
  <2>1. CASE MallocExactBin
    BY <2>1 DEF MallocExactBin, SmallAt
  <2>2. CASE MallocHigherBin
    BY <2>2 DEF MallocHigherBin, SmallAt, Smallest
  <2>3. CASE MallocSmallFromTree
    BY <2>3 DEF MallocSmallFromTree, Large, Smallest
  <2>4. CASE MallocLargeFromTree
    BY <2>4 DEF MallocLargeFromTree, Fitting, Large, Smallest
  <2> QED
    BY <2>1, <2>2, <2>3, <2>4
<1>4. p \in Int
  BY <1>0 DEF HeapType
<1>5. CallType' /\ LiveType'
  BY <1>0, <1>3, <1>4, ReturnType
<1>6. HeapType'
  <2>1. CASE TakeWhole(p)
    BY <1>0, <1>2, <2>1, TakeWholeType
  <2>2. CASE SplitIntoDv(p)
    BY <1>0, <1>2, <2>2, SplitIntoDvType
  <2>3. CASE /\ mem' = set_size_and_pinuse_of_free_chunk(
                         set_size_and_pinuse_of_inuse_chunk(mem, p, nb), p + nb, SizeOf(p) - nb)
             /\ bins' = (bins \ {p}) \cup {p + nb}
             /\ UNCHANGED <<dv, dvsize>>
    BY <1>0, <1>2, <2>3, SplitType DEF HeapType
  <2> QED
    BY <1>3, <2>1, <2>2, <2>3
<1> QED
  BY <1>2, <1>5, <1>6, TypePartsPrime

\* A request cut off the front of top.
LEMMA TakeFromTopType ==
  ASSUME CallType, LiveType, NEW m, IsMem(m), NEW t \in Int, NEW ts \in Int,
         TakeFromTop(m, t, ts)
  PROVE  IsMem(mem') /\ top' \in Int /\ topsize' \in Int /\ CallType' /\ LiveType'
<1>1. nb \in Int /\ t + nb \in Int /\ ts - nb \in Int
  BY NbType
<1>2. IsMem(SetHead(m, t + nb, ts - nb, TRUE, FALSE))
  BY <1>1, SetHeadType
<1>3. IsMem(mem')
  BY <1>1, <1>2, SetSizeTypes DEF TakeFromTop
<1> QED
  BY <1>1, <1>3, ReturnType DEF TakeFromTop

\* The other paths of malloc.
LEMMA MallocElseType ==
  ASSUME TypeOK, MallocRefused \/ MallocDv \/ MallocTop \/ SysAllocFails
  PROVE  TypeOK'
<1>0. /\ HeapType /\ SystemType /\ CountersType /\ ConfigType /\ CallType /\ LiveType
      /\ nb \in Int /\ dv \in Int /\ dvsize \in Int /\ IsMem(mem)
  BY TypeParts, NbType DEF HeapType
<1>1. SystemType' /\ CountersType' /\ ConfigType'
  BY <1>0, Untouched DEF MallocRefused, MallocDv, MallocTop, SysAllocFails
<1>2. CASE MallocRefused \/ SysAllocFails
  <2>1. NULL \in Int
    BY DEF NULL
  <2>2. CallType' /\ LiveType' /\ HeapType'
    BY <1>0, <1>2, <2>1, FinishType, Untouched DEF MallocRefused, SysAllocFails
  <2> QED
    BY <1>1, <2>2, TypePartsPrime
<1>3. CASE MallocDv
  <2>1. CallType' /\ LiveType'
    BY <1>0, <1>3, ReturnType DEF MallocDv
  <2>2. dv + nb \in Int /\ dvsize - nb \in Int /\ NULL \in Int /\ 0 \in Int
    BY <1>0 DEF NULL
  <2>3. IsMem(set_size_and_pinuse_of_free_chunk(mem, dv + nb, dvsize - nb))
    BY <1>0, <2>2, SetSizeTypes
  <2>4. IsMem(set_size_and_pinuse_of_inuse_chunk(
                set_size_and_pinuse_of_free_chunk(mem, dv + nb, dvsize - nb), dv, nb))
    BY <1>0, <2>3, SetSizeTypes
  <2>5. IsMem(set_inuse_and_pinuse(mem, dv, dvsize))
    BY <1>0, SetInuseType
  <2>6. HeapType'
    BY <1>0, <1>3, <2>2, <2>4, <2>5 DEF MallocDv, HeapType
  <2> QED
    BY <1>1, <2>1, <2>6, TypePartsPrime
<1>4. CASE MallocTop
  <2>1. top \in Int /\ topsize \in Int
    BY <1>0 DEF HeapType
  <2>2. IsMem(mem') /\ top' \in Int /\ topsize' \in Int /\ CallType' /\ LiveType'
    BY <1>0, <1>4, <2>1, TakeFromTopType DEF MallocTop
  <2>3. HeapType'
    BY <1>0, <1>4, <2>2 DEF MallocTop, HeapType
  <2> QED
    BY <1>1, <2>2, <2>3, TypePartsPrime
<1> QED
  BY <1>2, <1>3, <1>4

-----------------------------------------------------------------------------
(* sys_alloc *)

\* A list of two parts.
LEMMA TwoOf ==
  ASSUME NEW a \in Int, NEW b \in Int
  PROVE  /\ Min({a, b}) \in Int
         /\ Max({a, b}) \in Int /\ Max({a, b}) >= a /\ Max({a, b}) >= b
<1>1. \E x \in {a, b} : \A y \in {a, b} : x =< y
  OBVIOUS
<1>2. \E x \in {a, b} : \A y \in {a, b} : x >= y
  OBVIOUS
<1>3. Min({a, b}) \in {a, b}
  BY <1>1 DEF Min
<1>4. Max({a, b}) \in {a, b} /\ \A y \in {a, b} : Max({a, b}) >= y
  BY <1>2 DEF Max
<1> QED
  BY <1>3, <1>4

\* The first place for a chunk.
LEMMA AlignAsChunkType ==
  ASSUME NEW a \in Int
  PROVE  align_as_chunk(a) \in Int /\ align_as_chunk(a) >= a
<1>1. malloc_alignment \in Nat \ {0} /\ to_mem(a) \in Int
  BY Constants, MemAddresses
<1>2. align_up(to_mem(a), malloc_alignment) \in Int
      /\ align_up(to_mem(a), malloc_alignment) >= to_mem(a)
  BY <1>1, AlignUp
<1> QED
  BY <1>1, <1>2 DEF align_as_chunk, align_offset_usize

\* A new top chunk.
LEMMA InitTopType ==
  ASSUME NEW m, IsMem(m), NEW a \in Int, NEW size \in Int
  PROVE  TopAt(a) \in Int /\ TopSize(a, size) \in Int /\ IsMem(InitTop(m, a, size))
<1>1. TopAt(a) \in Int /\ TopSize(a, size) \in Int
  BY AlignAsChunkType DEF TopAt, TopSize
<1> QED
  BY <1>1, SetHeadType DEF InitTop

\* A region is a region of integers, not smaller than a chunk for the request.
LEMMA RegionsType ==
  ASSUME TypeOK, NEW r \in Regions
  PROVE  /\ r.base \in Int /\ r.size \in Int /\ r.flags \in Int
         /\ r.base > 0 /\ r.size >= nb + top_foot_size + malloc_alignment
<1>1. granularity \in Nat \ {0}
  BY TypeParts, WordAssumption DEF ConfigType, MIN_GRANULARITY
<1>2. nb \in Int /\ top_foot_size \in Int /\ malloc_alignment \in Int
  BY TypeParts, NbType, Constants
<1>3. asize \in Int /\ asize >= nb + top_foot_size + malloc_alignment
  BY <1>1, <1>2, AlignUp DEF asize
<1>4. r.base \in OSBases /\ r.flags \in OSFlags /\ \E e \in OSSurplus : r.size = asize + e
  BY DEF Regions
<1>5. PICK e \in OSSurplus : r.size = asize + e
  BY <1>4
<1>6. r.base \in Nat \ {0} /\ r.flags \in Nat /\ e \in Nat
  BY <1>4, ConfigAssumption DEF NULL
<1>7. r.size \in Int /\ r.size >= asize
  BY <1>3, <1>5, <1>6
<1>8. r.size >= nb + top_foot_size + malloc_alignment
  BY <1>2, <1>3, <1>7
<1> QED
  BY <1>6, <1>7, <1>8

\* A region from the system is counted.
LEMMA ObtainedType ==
  ASSUME TypeOK, NEW r \in Regions, Obtained(r)
  PROVE  footprint' \in Int /\ externs' \subseteq [base : Int, size : Int]
<1>1. r.base \in Int /\ r.size \in Int
  BY RegionsType
<1>2. footprint \in Int /\ externs \subseteq [base : Int, size : Int]
  BY TypeParts DEF SystemType
<1> QED
  BY <1>1, <1>2 DEF Obtained

\* A segment of the list
LEMMA SegmentType ==
  ASSUME NEW base \in Int, NEW size \in Int, NEW flags \in Int, NEW rec \in Int
  PROVE  segment(base, size, flags, rec) \in Segment
BY DEF segment, Segment

\* and its fields.
LEMMA SegmentFields ==
  ASSUME SystemType, NEW i \in DOMAIN segs
  PROVE  /\ segs[i].base \in Int /\ segs[i].size \in Int
         /\ segs[i].flags \in Int /\ segs[i].rec \in Int
<1>1. segs[i] \in Segment
  BY LenProperties, ElementOfSeq DEF SystemType
<1> QED
  BY <1>1 DEF Segment

\* A list with one segment replaced.
LEMMA SegmentReplaced ==
  ASSUME SystemType, NEW i \in DOMAIN segs, NEW s \in Segment
  PROVE  [segs EXCEPT ![i] = s] \in Seq(Segment) /\ [segs EXCEPT ![i] = s] # << >>
<1>1. i \in 1..Len(segs) /\ Len(segs) \in Nat /\ segs \in Seq(Segment)
  BY LenProperties DEF SystemType
<1>2. /\ [segs EXCEPT ![i] = s] \in Seq(Segment)
      /\ Len([segs EXCEPT ![i] = s]) = Len(segs)
  BY <1>1, ExceptSeq
<1>3. Len(segs) # 0
  BY <1>1
<1> QED
  BY <1>2, <1>3, EmptySeq

\* The first region from the system,
LEMMA SysAllocInitType ==
  ASSUME TypeOK, SysAllocInit
  PROVE  TypeOK' /\ segs' # << >>
<1>0. HeapType /\ SystemType /\ CountersType /\ ConfigType /\ CallType /\ LiveType
  BY TypeParts
<1>1. PICK r \in Regions :
        /\ Obtained(r)
        /\ least_addr' = IF least_addr = NULL \/ r.base < least_addr THEN r.base ELSE least_addr
        /\ segs' = << segment(r.base, r.size, r.flags, NULL) >>
        /\ LET size == r.size - top_foot_size
           IN  TakeFromTop(InitTop(mem, r.base, size), TopAt(r.base), TopSize(r.base, size))
  BY DEF SysAllocInit
<1>2. /\ r.base \in Int /\ r.size \in Int /\ r.flags \in Int /\ NULL \in Int
      /\ r.size - top_foot_size \in Int
  BY RegionsType, Constants DEF NULL
<1>3. segs' \in Seq(Segment) /\ segs' # << >>
  BY <1>1, <1>2, SegmentType
<1>4. SystemType'
  BY <1>0, <1>1, <1>2, <1>3, ObtainedType DEF SystemType
<1>5. IsMem(mem') /\ top' \in Int /\ topsize' \in Int /\ CallType' /\ LiveType'
  <2>1. IsMem(mem)
    BY <1>0 DEF HeapType
  <2> QED
    BY <1>0, <1>1, <1>2, <2>1, InitTopType, TakeFromTopType
<1>6. HeapType'
  BY <1>0, <1>5 DEF HeapType, SysAllocInit
<1>7. CountersType'
  <2>1. release_check_target(max_release_check_rate) \in Int /\ DEFAULT_TRIM_THRESHOLD \in Int
    BY <1>0, UsizeAssumption, ConfigAssumption DEF ConfigType, release_check_target
  <2> QED
    BY <2>1 DEF SysAllocInit, CountersType
<1>8. ConfigType'
  BY <1>0, Untouched DEF SysAllocInit
<1> QED
  BY <1>3, <1>4, <1>5, <1>6, <1>7, <1>8, TypePartsPrime

\* one behind the newest segment,
LEMMA SysAllocExtendType ==
  ASSUME TypeOK, SysAllocExtend
  PROVE  TypeOK' /\ segs' # << >>
<1>0. HeapType /\ SystemType /\ CountersType /\ ConfigType /\ CallType /\ LiveType
  BY TypeParts
<1>1. PICK r \in Regions, i \in DOMAIN segs :
        /\ Obtained(r)
        /\ segs' = [segs EXCEPT ![i] =
                      segment(segs[i].base, segs[i].size + r.size, segs[i].flags, segs[i].rec)]
        /\ TakeFromTop(InitTop(mem, top, topsize + r.size), TopAt(top), TopSize(top, topsize + r.size))
  BY DEF SysAllocExtend, ExtendedBy
<1>2. /\ r.size \in Int /\ top \in Int /\ topsize + r.size \in Int /\ IsMem(mem)
  BY <1>0, RegionsType DEF HeapType
<1>3. segs' \in Seq(Segment) /\ segs' # << >>
  <2>1. segs[i].size + r.size \in Int
    BY <1>0, <1>2, SegmentFields
  <2>2. segment(segs[i].base, segs[i].size + r.size, segs[i].flags, segs[i].rec) \in Segment
    BY <1>0, <2>1, SegmentFields, SegmentType
  <2> QED
    BY <1>0, <1>1, <2>2, SegmentReplaced
<1>4. SystemType'
  BY <1>0, <1>1, <1>3, ObtainedType DEF SystemType, SysAllocExtend
<1>5. IsMem(mem') /\ top' \in Int /\ topsize' \in Int /\ CallType' /\ LiveType'
  BY <1>0, <1>1, <1>2, InitTopType, TakeFromTopType
<1>6. HeapType'
  BY <1>0, <1>5 DEF HeapType, SysAllocExtend
<1>7. CountersType' /\ ConfigType'
  BY <1>0, ConfigAssumption, Untouched DEF SysAllocExtend, CountersType
<1> QED
  BY <1>3, <1>4, <1>5, <1>6, <1>7, TypePartsPrime

\* one in front of a segment,
LEMMA SysAllocPrependType ==
  ASSUME TypeOK, SysAllocPrepend
  PROVE  TypeOK' /\ segs' # << >>
<1>0. HeapType /\ SystemType /\ CountersType /\ ConfigType /\ CallType /\ LiveType
  BY TypeParts
<1>1. PICK r \in Regions, i \in DOMAIN segs :
       LET p == align_as_chunk(r.base)
           oldfirst == align_as_chunk(segs[i].base)
           q == p + nb
           qsize == oldfirst - p - nb
           m == set_size_and_pinuse_of_inuse_chunk(mem, p, nb)
           nsize == SizeOf(oldfirst)
       IN  /\ Obtained(r)
           /\ least_addr' = Min({r.base, least_addr})
           /\ segs' = [segs EXCEPT ![i] =
                         segment(r.base, segs[i].size + r.size, segs[i].flags, segs[i].rec)]
           /\ \/ /\ mem' = SetHead(m, q, topsize + qsize, TRUE, FALSE)
                 /\ top' = q /\ topsize' = topsize + qsize
                 /\ UNCHANGED <<bins, dv, dvsize>>
              \/ /\ mem' = set_size_and_pinuse_of_free_chunk(m, q, dvsize + qsize)
                 /\ dv' = q /\ dvsize' = dvsize + qsize
                 /\ UNCHANGED <<bins, top, topsize>>
              \/ /\ mem' = set_free_with_pinuse(m, q, qsize + nsize, oldfirst + nsize)
                 /\ bins' = (bins \ {oldfirst}) \cup {q}
                 /\ UNCHANGED <<dv, dvsize, top, topsize>>
              \/ /\ mem' = set_free_with_pinuse(m, q, qsize, oldfirst)
                 /\ bins' = bins \cup {q}
                 /\ UNCHANGED <<dv, dvsize, top, topsize>>
           /\ Return(p)
  BY ZenonT(60) DEF SysAllocPrepend, PrecededBy
<1> DEFINE p == align_as_chunk(r.base)
           oldfirst == align_as_chunk(segs[i].base)
           q == p + nb
           qsize == oldfirst - p - nb
           m == set_size_and_pinuse_of_inuse_chunk(mem, p, nb)
           nsize == SizeOf(oldfirst)
<1>2. /\ r.base \in Int /\ r.size \in Int /\ IsMem(mem) /\ bins \subseteq Int
      /\ top \in Int /\ topsize \in Int /\ dv \in Int /\ dvsize \in Int /\ least_addr \in Int
  BY <1>0, RegionsType DEF HeapType, SystemType
<1>3. p \in Int /\ oldfirst \in Int /\ nsize \in Int /\ nb \in Int
  BY <1>0, <1>2, SegmentFields, AlignAsChunkType, SizeOfType, NbType
<1>4. /\ q \in Int /\ qsize \in Int /\ topsize + qsize \in Int /\ dvsize + qsize \in Int
      /\ qsize + nsize \in Int /\ oldfirst + nsize \in Int
  <2> HIDE DEF p, oldfirst, nsize
  <2> QED
    BY <1>2, <1>3
<1>5. IsMem(m)
  BY <1>2, <1>3, SetSizeTypes
<1>6. CallType' /\ LiveType'
  BY <1>0, <1>1, <1>3, ReturnType
<1>7. SystemType' /\ segs' # << >>
  <2>1. segs[i].size + r.size \in Int
    BY <1>0, <1>2, SegmentFields
  <2>2. segment(r.base, segs[i].size + r.size, segs[i].flags, segs[i].rec) \in Segment
    BY <1>0, <1>2, <2>1, SegmentFields, SegmentType
  <2>3. segs' \in Seq(Segment) /\ segs' # << >>
    BY <1>0, <1>1, <2>2, SegmentReplaced
  <2>4. least_addr' \in Int
    BY <1>1, <1>2, TwoOf
  <2> QED
    BY <1>1, <2>3, <2>4, ObtainedType DEF SystemType
<1>8. HeapType'
  <2>1. /\ IsMem(SetHead(m, q, topsize + qsize, TRUE, FALSE))
        /\ IsMem(set_size_and_pinuse_of_free_chunk(m, q, dvsize + qsize))
        /\ IsMem(set_free_with_pinuse(m, q, qsize + nsize, oldfirst + nsize))
        /\ IsMem(set_free_with_pinuse(m, q, qsize, oldfirst))
    <3> HIDE DEF p, oldfirst, nsize, q, qsize, m
    <3> QED
      BY <1>3, <1>4, <1>5, SetHeadType, SetSizeTypes, SetFreeType
  <2>2. \/ /\ mem' = SetHead(m, q, topsize + qsize, TRUE, FALSE)
           /\ top' = q /\ topsize' = topsize + qsize
           /\ UNCHANGED <<bins, dv, dvsize>>
        \/ /\ mem' = set_size_and_pinuse_of_free_chunk(m, q, dvsize + qsize)
           /\ dv' = q /\ dvsize' = dvsize + qsize
           /\ UNCHANGED <<bins, top, topsize>>
        \/ /\ mem' = set_free_with_pinuse(m, q, qsize + nsize, oldfirst + nsize)
           /\ bins' = (bins \ {oldfirst}) \cup {q}
           /\ UNCHANGED <<dv, dvsize, top, topsize>>
        \/ /\ mem' = set_free_with_pinuse(m, q, qsize, oldfirst)
           /\ bins' = bins \cup {q}
           /\ UNCHANGED <<dv, dvsize, top, topsize>>
    BY <1>1
  <2> HIDE DEF p, oldfirst, nsize, q, qsize, m
  <2> QED
    BY <1>2, <1>4, <2>1, <2>2 DEF HeapType
<1>9. CountersType' /\ ConfigType'
  BY <1>0, Untouched DEF SysAllocPrepend
<1> QED
  BY <1>6, <1>7, <1>8, <1>9, TypePartsPrime

\* The old segment's record and fenceposts are written with good headers.
LEMMA RetiredType ==
  ASSUME HeapType, NEW m, IsMem(m), NEW csp \in Int, NEW old_end \in Int
  PROVE  IsMem(retired(m, csp, old_end))
<1> DEFINE F == fenceposts(csp + segment_record_size, old_end)
           m1 == set_size_and_pinuse_of_inuse_chunk(m, csp, segment_record_size)
           m2 == [a \in DOMAIN m1 \cup F |-> IF a \in F THEN fencepost_head ELSE m1[a]]
<1>1. /\ segment_record_size \in Int /\ csp + segment_record_size \in Int /\ WORD \in Int
      /\ top \in Int /\ csp - top \in Int
  BY Constants, WordAssumption DEF HeapType
<1>2. F \subseteq Int
  BY <1>1 DEF fenceposts
<1>3. fencepost_head \in Headers
  BY <1>1 DEF fencepost_head, Headers
<1>4. IsMem(m1)
  BY <1>1, SetSizeTypes
<1>5. IsMem(m2)
  <2> HIDE DEF m1, F
  <2> QED
    BY <1>2, <1>3, <1>4 DEF IsMem
<1>6. retired(m, csp, old_end) =
        IF csp # top THEN set_free_with_pinuse(m2, top, csp - top, csp) ELSE m2
  BY DEF retired
<1> HIDE DEF m2
<1>7. IsMem(set_free_with_pinuse(m2, top, csp - top, csp))
  BY <1>1, <1>5, SetFreeType
<1> QED
  BY <1>5, <1>6, <1>7

\* and one of its own.
LEMMA SysAllocAddSegmentType ==
  ASSUME TypeOK, SysAllocAddSegment
  PROVE  TypeOK' /\ segs' # << >>
<1>0. HeapType /\ SystemType /\ CountersType /\ ConfigType /\ CallType /\ LiveType
  BY TypeParts
<1>1. PICK r \in Regions, oldsp \in segment_holding(top) :
       LET size == r.size - top_foot_size
           csp == record_chunk(segment_top(segs[oldsp]))
       IN  /\ Obtained(r)
           /\ least_addr' = Min({r.base, least_addr})
           /\ segs' = << segment(r.base, r.size, r.flags, NULL) >>
                        \o [segs EXCEPT ![1] = segment(segs[1].base, segs[1].size, segs[1].flags,
                                                       to_mem(csp))]
           /\ bins' = IF csp # top THEN bins \cup {top} ELSE bins
           /\ TakeFromTop(retired(InitTop(mem, r.base, size), csp, segment_top(segs[oldsp])),
                          TopAt(r.base), TopSize(r.base, size))
  BY DEF SysAllocAddSegment
<1> DEFINE old_end == segment_top(segs[oldsp])
           csp == record_chunk(old_end)
           size == r.size - top_foot_size
<1>2. /\ r.base \in Int /\ r.size \in Int /\ r.flags \in Int /\ IsMem(mem) /\ bins \subseteq Int
      /\ top \in Int /\ least_addr \in Int /\ NULL \in Int /\ size \in Int
  BY <1>0, RegionsType, Constants DEF HeapType, SystemType, NULL
<1>3. oldsp \in DOMAIN segs /\ 1 \in DOMAIN segs
  <2>1. oldsp \in DOMAIN segs
    BY DEF segment_holding
  <2>2. DOMAIN segs = 1..Len(segs) /\ Len(segs) \in Nat
    BY <1>0, LenProperties DEF SystemType
  <2> QED
    BY <2>1, <2>2
<1>4. old_end \in Int
  BY <1>0, <1>3, SegmentFields DEF segment_top
<1>5. csp \in Int
  <2> HIDE DEF old_end
  <2>1. old_end - (segment_record_size + 4 * WORD + malloc_alignment - 1) \in Int
    BY <1>4, Constants, WordAssumption
  <2> QED
    BY <1>2, <2>1, AlignAsChunkType DEF record_chunk
<1>6. IsMem(mem') /\ top' \in Int /\ topsize' \in Int /\ CallType' /\ LiveType'
  <2>1. TopAt(r.base) \in Int /\ TopSize(r.base, size) \in Int /\ IsMem(InitTop(mem, r.base, size))
    BY <1>2, InitTopType
  <2>2. TakeFromTop(retired(InitTop(mem, r.base, size), csp, old_end),
                    TopAt(r.base), TopSize(r.base, size))
    BY <1>1
  <2> HIDE DEF old_end, csp, size
  <2>3. IsMem(retired(InitTop(mem, r.base, size), csp, old_end))
    BY <1>0, <1>4, <1>5, <2>1, RetiredType
  <2> QED
    BY <1>0, <2>1, <2>2, <2>3, TakeFromTopType
<1>7. HeapType'
  <2>1. bins' \subseteq bins \cup {top}
    BY <1>1
  <2> QED
    BY <1>0, <1>2, <1>6, <2>1 DEF HeapType, SysAllocAddSegment
<1>8. segs' \in Seq(Segment) /\ segs' # << >>
  <2>1. segs' = << segment(r.base, r.size, r.flags, NULL) >>
                  \o [segs EXCEPT ![1] = segment(segs[1].base, segs[1].size, segs[1].flags,
                                                 to_mem(csp))]
    BY <1>1
  <2>2. << segment(r.base, r.size, r.flags, NULL) >> \in Seq(Segment)
    BY <1>2, SegmentType
  <2> HIDE DEF csp
  <2>3. segment(segs[1].base, segs[1].size, segs[1].flags, to_mem(csp)) \in Segment
    BY <1>0, <1>3, <1>5, MemAddresses, SegmentFields, SegmentType
  <2>4. [segs EXCEPT ![1] = segment(segs[1].base, segs[1].size, segs[1].flags, to_mem(csp))]
          \in Seq(Segment)
    BY <1>0, <1>3, <2>3, SegmentReplaced
  <2> QED
    BY <2>1, <2>2, <2>4, ConcatProperties, ConcatEqualIffEmpty
<1>9. SystemType'
  <2>1. least_addr' \in Int
    BY <1>1, <1>2, TwoOf
  <2> QED
    BY <1>1, <1>8, <2>1, ObtainedType DEF SystemType
<1>10. CountersType' /\ ConfigType'
  BY <1>0, ConfigAssumption, Untouched DEF SysAllocAddSegment, CountersType
<1> QED
  BY <1>6, <1>7, <1>8, <1>9, <1>10, TypePartsPrime

-----------------------------------------------------------------------------
(* Giving a chunk back *)

\* A chunk joined to the free one before it.
LEMMA JoinTypes ==
  ASSUME NEW m, IsMem(m), NEW B, B \subseteq Int, NEW p \in Int, NEW psize \in Int
  PROVE  /\ FirstOf(m, p) \in Int /\ Joined(m, p, psize) \in Int
         /\ Unlinked(B, m, p) \subseteq Int /\ p + psize \in Int
         /\ HeaderAt(m, p + psize).size \in Int /\ BinnedSize(m, p, psize) \in Int
<1>1. HeaderAt(m, p).prev_foot \in Int /\ HeaderAt(m, p + psize).size \in Int
  BY TagTypes
<1>2. FirstOf(m, p) \in Int
  BY <1>1 DEF FirstOf
<1>3. Joined(m, p, psize) \in Int
  BY <1>2 DEF Joined
<1>4. BinnedSize(m, p, psize) \in Int
  BY <1>1, <1>3 DEF BinnedSize
<1>5. Unlinked(B, m, p) \subseteq Int
  BY DEF Unlinked
<1> QED
  BY <1>1, <1>2, <1>3, <1>4, <1>5

\* A chunk that goes to top,
LEMMA GrowTopType ==
  ASSUME HeapType, NEW m, IsMem(m), NEW B, B \subseteq Int, NEW p \in Int, NEW psize \in Int,
         GrowTop(B, m, p, psize)
  PROVE  HeapType'
<1>0. /\ FirstOf(m, p) \in Int /\ Joined(m, p, psize) \in Int /\ Unlinked(B, m, p) \subseteq Int
  BY JoinTypes
<1>1. topsize + Joined(m, p, psize) \in Int /\ NULL \in Int /\ 0 \in Int
  BY <1>0 DEF HeapType, NULL
<1>2. IsMem(SetHead(m, FirstOf(m, p), topsize + Joined(m, p, psize), TRUE, FALSE))
  BY <1>0, <1>1, SetHeadType
<1>3. /\ topsize' = topsize + Joined(m, p, psize)
      /\ mem' = SetHead(m, FirstOf(m, p), topsize', TRUE, FALSE)
      /\ top' = FirstOf(m, p) /\ bins' = Unlinked(B, m, p)
      /\ dv' \in {NULL, dv} /\ dvsize' \in {0, dvsize}
  BY DEF GrowTop
<1>4. IsMem(mem')
  BY <1>2, <1>3
<1>5. dv' \in Int /\ dvsize' \in Int
  BY <1>1, <1>3 DEF HeapType
<1> QED
  BY <1>0, <1>1, <1>3, <1>4, <1>5 DEF HeapType

\* to the designated victim,
LEMMA GrowDvType ==
  ASSUME HeapType, NEW m, IsMem(m), NEW B, B \subseteq Int, NEW p \in Int, NEW psize \in Int,
         GrowDv(B, m, p, psize)
  PROVE  HeapType'
<1> DEFINE q == FirstOf(m, p)
           size == Joined(m, p, psize)
           next == p + psize
           nsize == HeaderAt(m, next).size
<1>1. /\ q \in Int /\ size \in Int /\ next \in Int /\ nsize \in Int
      /\ Unlinked(B, m, p) \subseteq Int
  BY JoinTypes
<1>2. /\ UNCHANGED <<top, topsize>>
      /\ \/ dv' = q /\ dvsize' = size /\ mem' = set_free_with_pinuse(m, q, size, next) /\ bins' = B
         \/ /\ dv' = q /\ dvsize' = dvsize + size
            /\ mem' = set_size_and_pinuse_of_free_chunk(m, q, dvsize + size)
            /\ bins' = Unlinked(B, m, p)
         \/ /\ dv' = q /\ dvsize' = size + nsize
            /\ mem' = set_size_and_pinuse_of_free_chunk(m, q, size + nsize)
            /\ bins' = B \ {next}
  BY DEF GrowDv
<1> HIDE DEF q, size, next, nsize
<1>3. dvsize + size \in Int /\ size + nsize \in Int
  BY <1>1 DEF HeapType
<1>4. /\ IsMem(set_free_with_pinuse(m, q, size, next))
      /\ IsMem(set_size_and_pinuse_of_free_chunk(m, q, dvsize + size))
      /\ IsMem(set_size_and_pinuse_of_free_chunk(m, q, size + nsize))
  BY <1>1, <1>3, SetFreeType, SetSizeTypes
<1> QED
  BY <1>1, <1>2, <1>3, <1>4 DEF HeapType

\* or to a bin,
LEMMA GrowBinType ==
  ASSUME HeapType, NEW m, IsMem(m), NEW B, B \subseteq Int, NEW p \in Int, NEW psize \in Int,
         GrowBin(B, m, p, psize)
  PROVE  HeapType'
<1> DEFINE q == FirstOf(m, p)
           size == BinnedSize(m, p, psize)
           next == p + psize
<1>1. q \in Int /\ size \in Int /\ next \in Int /\ Unlinked(B, m, p) \subseteq Int
  BY JoinTypes
<1>2. /\ UNCHANGED <<dv, dvsize, top, topsize>>
      /\ \/ mem' = set_free_with_pinuse(m, q, size, next) /\ bins' = Unlinked(B, m, p) \cup {q}
         \/ /\ mem' = set_size_and_pinuse_of_free_chunk(m, q, size)
            /\ bins' = (Unlinked(B, m, p) \ {next}) \cup {q}
  BY DEF GrowBin
<1> HIDE DEF q, size, next
<1>3. /\ IsMem(set_free_with_pinuse(m, q, size, next))
      /\ IsMem(set_size_and_pinuse_of_free_chunk(m, q, size))
  BY <1>1, SetFreeType, SetSizeTypes
<1> QED
  BY <1>1, <1>2, <1>3 DEF HeapType

\* so dispose_chunk in each case.
LEMMA DisposeType ==
  ASSUME HeapType, NEW m, IsMem(m), NEW B, B \subseteq Int, NEW p \in Int, NEW psize \in Int,
         dispose_chunk(B, m, p, psize)
  PROVE  HeapType'
BY GrowTopType, GrowDvType, GrowBinType DEF dispose_chunk

-----------------------------------------------------------------------------
(* memalign *)

\* The place of an aligned chunk.
LEMMA AlignedInType ==
  ASSUME CallType, NEW p \in Int
  PROVE  AlignedIn(p) \in Int
<1>1. raised(call.align) \in Nat \ {0}
  <2>1. call.align \in Int /\ min_chunk_size \in Nat \ {0}
    BY FrameFields, Constants DEF CallType
  <2> QED
    BY <2>1 DEF raised
<1>2. to_mem(p) \in Int
  BY MemAddresses
<1>3. align_up(to_mem(p), raised(call.align)) \in Int
  BY <1>1, <1>2, AlignUp
<1>4. from_mem(align_up(to_mem(p), raised(call.align))) \in Int
  BY <1>3, MemAddresses
<1> QED
  BY <1>1, <1>4 DEF AlignedIn

\* memalign gives back what is before the block
LEMMA MemalignLeadType ==
  ASSUME TypeOK, MemalignLead
  PROVE  TypeOK'
<1>0. HeapType /\ SystemType /\ CountersType /\ ConfigType /\ CallType /\ LiveType
  BY TypeParts
<1> DEFINE p == call.p
           newp == AlignedIn(p)
           leadsize == newp - p
<1>1. p \in Int /\ newp \in Int /\ SizeOf(p) \in Int
  BY <1>0, FrameFields, AlignedInType, SizeOfType DEF CallType, HeapType
<1>2. leadsize \in Int /\ SizeOf(p) - leadsize \in Int
  BY <1>1
<1>3. \/ UNCHANGED heap
      \/ dispose_chunk(bins, set_inuse(set_inuse(mem, newp, SizeOf(p) - leadsize), p, leadsize),
                       p, leadsize)
  BY DEF MemalignLead
<1>4. CallType'
  <2>1. call' = [call EXCEPT !.p = newp] /\ pc' = "tail"
    BY DEF MemalignLead
  <2>2. [call EXCEPT !.p = newp] \in Frame
    BY <1>0, <1>1, FrameTypes DEF CallType
  <2> QED
    BY <2>1, <2>2 DEF CallType, Controls
<1> HIDE DEF p, newp, leadsize
<1>5. IsMem(set_inuse(set_inuse(mem, newp, SizeOf(p) - leadsize), p, leadsize))
  BY <1>0, <1>1, <1>2, SetInuseType DEF HeapType
<1>6. HeapType'
  <2>1. bins \subseteq Int
    BY <1>0 DEF HeapType
  <2> QED
    BY <1>0, <1>1, <1>2, <1>3, <1>5, <2>1, DisposeType, Untouched
<1>7. SystemType' /\ CountersType' /\ ConfigType' /\ LiveType'
  BY <1>0, Untouched DEF MemalignLead
<1> QED
  BY <1>4, <1>6, <1>7, TypePartsPrime

\* and what is behind it.
LEMMA MemalignTailType ==
  ASSUME TypeOK, MemalignTail
  PROVE  TypeOK'
<1>0. HeapType /\ SystemType /\ CountersType /\ ConfigType /\ CallType /\ LiveType
  BY TypeParts
<1> DEFINE p == call.p
           n == request2size(call.size)
           rest == SizeOf(p) - n
<1>1. p \in Int /\ n \in Int /\ SizeOf(p) \in Int
  BY <1>0, FrameFields, Request2Size, SizeOfType DEF CallType, HeapType
<1>2. rest \in Int /\ p + n \in Int
  BY <1>1
<1>3. \/ UNCHANGED heap
      \/ dispose_chunk(bins, set_inuse(set_inuse(mem, p, n), p + n, rest), p + n, rest)
  BY DEF MemalignTail
<1>4. Finish(p)
  BY DEF MemalignTail
<1> HIDE DEF p, n, rest
<1>5. IsMem(set_inuse(set_inuse(mem, p, n), p + n, rest)) /\ bins \subseteq Int
  BY <1>0, <1>1, <1>2, SetInuseType DEF HeapType
<1>6. HeapType'
  BY <1>0, <1>2, <1>3, <1>5, DisposeType, Untouched
<1>7. CallType' /\ LiveType'
  BY <1>0, <1>1, <1>4, FinishType
<1>8. SystemType' /\ CountersType' /\ ConfigType'
  BY <1>0, Untouched DEF MemalignTail
<1> QED
  BY <1>6, <1>7, <1>8, TypePartsPrime

-----------------------------------------------------------------------------
(* realloc *)

\* The sizes that realloc works with.
LEMMA ReallocSizes ==
  ASSUME HeapType, CallType
  PROVE  oldp \in Int /\ oldsize \in Int /\ newnb \in Int /\ after \in Int /\ SizeOf(after) \in Int
<1>1. oldp \in Int /\ oldsize \in Int /\ newnb \in Int
  BY FrameFields, MemAddresses, SizeOfType, Request2Size
     DEF HeapType, CallType, oldp, oldsize, newnb
<1>2. after \in Int
  BY <1>1 DEF after
<1> QED
  BY <1>1, <1>2, SizeOfType DEF HeapType

\* A block resized in place.
LEMMA ResizedType ==
  ASSUME SystemType, CountersType, ConfigType, CallType, LiveType, Resized
  PROVE  SystemType' /\ CountersType' /\ ConfigType' /\ CallType' /\ LiveType'
<1>1. Promise \in Blocks
  BY PromiseType
<1>2. LiveType'
  BY <1>1 DEF Resized, LiveType
<1>3. SystemType' /\ CountersType' /\ ConfigType'
  BY Untouched DEF Resized
<1> QED
  BY <1>2, <1>3, IdleType DEF Resized

\* A block cut to newnb, and the chunk behind it of size rsize given back.
LEMMA CutType ==
  ASSUME HeapType, CallType, NEW B, B \subseteq Int, NEW rsize \in Int,
         dispose_chunk(B, set_inuse(set_inuse(mem, oldp, newnb), oldp + newnb, rsize),
                       oldp + newnb, rsize)
  PROVE  HeapType'
<1>1. oldp \in Int /\ newnb \in Int /\ oldp + newnb \in Int
  BY ReallocSizes
<1>2. IsMem(set_inuse(set_inuse(mem, oldp, newnb), oldp + newnb, rsize))
  BY <1>1, SetInuseType DEF HeapType
<1> QED
  BY <1>1, <1>2, DisposeType

\* The paths of realloc in place
LEMMA ReallocType ==
  ASSUME TypeOK, ReallocShrink \/ ReallocIntoTop \/ ReallocIntoDv \/ ReallocIntoNext
  PROVE  TypeOK'
<1>0. /\ HeapType /\ SystemType /\ CountersType /\ ConfigType /\ CallType /\ LiveType
      /\ IsMem(mem) /\ bins \subseteq Int /\ topsize \in Int /\ dvsize \in Int
  BY TypeParts DEF HeapType
<1>1. oldp \in Int /\ oldsize \in Int /\ newnb \in Int /\ after \in Int /\ SizeOf(after) \in Int
  BY <1>0, ReallocSizes
<1>2. SystemType' /\ CountersType' /\ ConfigType' /\ CallType' /\ LiveType'
  BY <1>0, ResizedType DEF ReallocShrink, ReallocIntoTop, ReallocIntoDv, ReallocIntoNext
<1>3. CASE ReallocShrink
  <2>1. \/ UNCHANGED heap
        \/ dispose_chunk(bins, set_inuse(set_inuse(mem, oldp, newnb), oldp + newnb,
                                         oldsize - newnb), oldp + newnb, oldsize - newnb)
    BY <1>3 DEF ReallocShrink
  <2>2. oldsize - newnb \in Int
    BY <1>1
  <2>3. HeapType'
    BY <1>0, <2>1, <2>2, CutType, Untouched
  <2> QED
    BY <1>2, <2>3, TypePartsPrime
<1>4. CASE ReallocIntoTop
  <2>1. oldp + newnb \in Int /\ oldsize + topsize - newnb \in Int
    BY <1>0, <1>1
  <2>2. IsMem(SetHead(set_inuse(mem, oldp, newnb), oldp + newnb, oldsize + topsize - newnb,
                      TRUE, FALSE))
    BY <1>0, <1>1, <2>1, SetInuseType, SetHeadType
  <2>3. /\ top' = oldp + newnb /\ topsize' = oldsize + topsize - newnb
        /\ mem' = SetHead(set_inuse(mem, oldp, newnb), top', topsize', TRUE, FALSE)
        /\ UNCHANGED <<bins, dv, dvsize>>
    BY <1>4 DEF ReallocIntoTop
  <2>4. IsMem(mem')
    BY <2>2, <2>3
  <2>5. HeapType'
    BY <1>0, <2>1, <2>3, <2>4 DEF HeapType
  <2> QED
    BY <1>2, <2>5, TypePartsPrime
<1>5. CASE ReallocIntoDv
  <2> DEFINE dsize == oldsize + dvsize - newnb
             r == oldp + newnb
             m1 == set_inuse(mem, oldp, newnb)
             m2 == set_size_and_pinuse_of_free_chunk(m1, r, dsize)
  <2>1. dsize \in Int /\ r \in Int /\ r + dsize \in Int /\ oldsize + dvsize \in Int
    BY <1>0, <1>1
  <2>2. IsMem(m1) /\ IsMem(set_inuse(mem, oldp, oldsize + dvsize))
    BY <1>0, <1>1, <2>1, SetInuseType
  <2>3. /\ UNCHANGED <<bins, top, topsize>>
        /\ \/ mem' = clear_pinuse(m2, r + dsize) /\ dv' = r /\ dvsize' = dsize
           \/ mem' = set_inuse(mem, oldp, oldsize + dvsize) /\ dv' = NULL /\ dvsize' = 0
    BY <1>5 DEF ReallocIntoDv
  <2> HIDE DEF dsize, r, m1
  <2>4. IsMem(m2)
    BY <2>1, <2>2, SetSizeTypes
  <2> HIDE DEF m2
  <2>5. IsMem(clear_pinuse(m2, r + dsize))
    BY <2>1, <2>4, MarkTypes
  <2>6. HeapType'
    BY <1>0, <2>1, <2>2, <2>3, <2>5 DEF HeapType, NULL
  <2> QED
    BY <1>2, <2>6, TypePartsPrime
<1>6. CASE ReallocIntoNext
  <2> DEFINE rsize == oldsize + SizeOf(after) - newnb
             r == oldp + newnb
  <2>1. rsize \in Int /\ oldsize + SizeOf(after) \in Int /\ bins \ {after} \subseteq Int
    BY <1>0, <1>1
  <2>2. IsMem(set_inuse(mem, oldp, oldsize + SizeOf(after)))
    BY <1>0, <1>1, <2>1, SetInuseType
  <2>3. \/ /\ mem' = set_inuse(mem, oldp, oldsize + SizeOf(after))
           /\ bins' = bins \ {after}
           /\ UNCHANGED <<dv, dvsize, top, topsize>>
        \/ dispose_chunk(bins \ {after},
                         set_inuse(set_inuse(mem, oldp, newnb), r, rsize), r, rsize)
    BY <1>6 DEF ReallocIntoNext
  <2> HIDE DEF rsize
  <2>4. HeapType'
    <3>1. CASE /\ mem' = set_inuse(mem, oldp, oldsize + SizeOf(after))
               /\ bins' = bins \ {after}
               /\ UNCHANGED <<dv, dvsize, top, topsize>>
      BY <1>0, <2>1, <2>2, <3>1 DEF HeapType
    <3>2. CASE dispose_chunk(bins \ {after},
                             set_inuse(set_inuse(mem, oldp, newnb), r, rsize), r, rsize)
      BY <1>0, <2>1, <3>2, CutType
    <3> QED
      BY <2>3, <3>1, <3>2
  <2> QED
    BY <1>2, <2>4, TypePartsPrime
<1> QED
  BY <1>3, <1>4, <1>5, <1>6

\* and the one that goes on to malloc.
LEMMA ReallocMovesType ==
  ASSUME TypeOK, ReallocMoves
  PROVE  TypeOK'
<1>0. HeapType /\ SystemType /\ CountersType /\ ConfigType /\ CallType /\ LiveType
  BY TypeParts
<1>1. [call EXCEPT !.req = call.size] \in Frame
  BY <1>0, FrameFields, FrameTypes DEF CallType
<1>2. CallType'
  BY <1>1 DEF ReallocMoves, CallType, Controls
<1>3. HeapType' /\ SystemType' /\ CountersType' /\ ConfigType' /\ LiveType'
  BY <1>0, Untouched DEF ReallocMoves
<1> QED
  BY <1>2, <1>3, TypePartsPrime

-----------------------------------------------------------------------------
(* free *)

\* The paths of free.
LEMMA FreeType ==
  ASSUME TypeOK, FreeIntoTop \/ FreeIntoDv \/ FreeIntoBin
  PROVE  TypeOK'
<1>0. /\ HeapType /\ SystemType /\ CountersType /\ ConfigType /\ CallType /\ LiveType
      /\ IsMem(mem) /\ bins \subseteq Int
  BY TypeParts DEF HeapType
<1>1. call.p \in Int /\ SizeOf(call.p) \in Int
  BY <1>0, FrameFields, SizeOfType DEF CallType
<1>2. HeapType'
  BY <1>0, <1>1, GrowTopType, GrowDvType, GrowBinType DEF FreeIntoTop, FreeIntoDv, FreeIntoBin
<1>3. SystemType' /\ ConfigType' /\ LiveType'
  BY <1>0, Untouched DEF FreeIntoTop, FreeIntoDv, FreeIntoBin
<1>4. CallType'
  <2>1. 0 \in Int /\ NoCall \in Frame /\ Trimming(0) \in Frame
    BY SmallFrames
  <2>2. CASE FreeIntoTop
    BY <2>1, <2>2, IdleType DEF FreeIntoTop, CallType, Controls
  <2>3. CASE FreeIntoDv
    BY <2>3, IdleType DEF FreeIntoDv
  <2>4. CASE FreeIntoBin
    BY <2>1, <2>4, IdleType, ScanType DEF FreeIntoBin
  <2> QED
    BY <2>2, <2>3, <2>4
<1>5. CountersType'
  BY <1>0 DEF FreeIntoTop, FreeIntoDv, FreeIntoBin, counters, CountersType
<1> QED
  BY <1>2, <1>3, <1>4, <1>5, TypePartsPrime

-----------------------------------------------------------------------------
(* trim and the release of segments *)

\* A trim that does nothing
LEMMA TrimDeclinedType ==
  ASSUME TypeOK, TrimDeclined
  PROVE  TypeOK'
<1>1. HeapType /\ SystemType /\ CountersType /\ ConfigType /\ CallType /\ LiveType
  BY TypeParts
<1> QED
  BY <1>1, IdleType, Untouched, TypePartsPrime DEF TrimDeclined

\* and one that cuts top.
LEMMA TrimTopType ==
  ASSUME TypeOK, TrimTop
  PROVE  TypeOK'
<1>0. HeapType /\ SystemType /\ CountersType /\ ConfigType /\ CallType /\ LiveType
  BY TypeParts
<1> DEFINE cut == extra(call.pad + top_foot_size)
<1>1. cut \in Int
  <2>1. /\ granularity \in Nat \ {0} /\ topsize \in Int /\ call.pad \in Int /\ top_foot_size \in Int
    BY <1>0, FrameFields, Constants, WordAssumption
       DEF ConfigType, MIN_GRANULARITY, HeapType, CallType
  <2> QED
    BY <2>1 DEF extra
<1>2. ConfigType' /\ LiveType'
  BY <1>0 DEF TrimTop, config, ConfigType, LiveType
<1>3. UNCHANGED <<bins, dv, dvsize, least_addr, externs, release_checks>>
  BY DEF TrimTop
<1>4. CASE UNCHANGED <<segs, footprint, top, topsize, mem, trim_check>> /\ Scan(call)
  <2>1. HeapType' /\ SystemType' /\ CountersType'
    BY <1>0, <1>3, <1>4 DEF HeapType, IsMem, SystemType, CountersType
  <2>2. CallType'
    BY <1>0, <1>4, ScanType DEF CallType
  <2> QED
    BY <1>2, <2>1, <2>2, TypePartsPrime
<1>5. CASE \E sp \in segment_holding(top) :
             /\ segs' = [segs EXCEPT ![sp] = segment(segs[sp].base, segs[sp].size - cut,
                                                     segs[sp].flags, segs[sp].rec)]
             /\ footprint' = footprint - cut
             /\ top' = TopAt(top) /\ topsize' = TopSize(top, topsize - cut)
             /\ mem' = InitTop(mem, top, topsize - cut)
             /\ trim_check' = DEFAULT_TRIM_THRESHOLD
             /\ Scan([call EXCEPT !.released = TRUE])
  <2>1. PICK sp \in segment_holding(top) :
          segs' = [segs EXCEPT ![sp] = segment(segs[sp].base, segs[sp].size - cut,
                                               segs[sp].flags, segs[sp].rec)]
    BY <1>5
  <2>2. sp \in DOMAIN segs
    BY DEF segment_holding
  <2> HIDE DEF cut
  <2>3. segs[sp].size - cut \in Int
    BY <1>0, <1>1, <2>2, SegmentFields
  <2>4. segment(segs[sp].base, segs[sp].size - cut, segs[sp].flags, segs[sp].rec) \in Segment
    BY <1>0, <2>2, <2>3, SegmentFields, SegmentType
  <2>5. segs' \in Seq(Segment)
    BY <1>0, <2>1, <2>2, <2>4, SegmentReplaced
  <2>6. SystemType'
    BY <1>0, <1>1, <1>3, <1>5, <2>5 DEF SystemType
  <2>7. HeapType'
    <3>1. top \in Int /\ topsize - cut \in Int /\ IsMem(mem)
      BY <1>0, <1>1 DEF HeapType
    <3>2. /\ TopAt(top) \in Int /\ TopSize(top, topsize - cut) \in Int
          /\ IsMem(InitTop(mem, top, topsize - cut))
      BY <3>1, InitTopType
    <3> QED
      BY <1>0, <1>3, <1>5, <3>2 DEF HeapType
  <2>8. CallType'
    <3>1. call \in Frame /\ 0 \in Int
      BY <1>0 DEF CallType
    <3>2. [call EXCEPT !.released = TRUE] \in Frame
      BY <3>1, FrameTypes
    <3> QED
      BY <1>5, <3>2, ScanType
  <2>9. CountersType'
    BY <1>0, <1>3, <1>5, ConfigAssumption DEF CountersType
  <2> QED
    BY <1>2, <2>6, <2>7, <2>8, <2>9, TypePartsPrime
<1> QED
  BY <1>4, <1>5 DEF TrimTop

\* The walk over the segments moves on.
LEMMA OnwardType ==
  ASSUME CallType
  PROVE  Onward \in Frame /\ [Visited EXCEPT !.released = TRUE] \in Frame
<1>1. call \in Frame /\ call.nsegs + 1 \in Int
  BY FrameFields DEF CallType
<1>2. Visited \in Frame
  BY <1>1, FrameTypes DEF Visited
<1>3. Visited.sp + 1 \in Int
  BY <1>2, FrameFields
<1> QED
  BY <1>2, <1>3, FrameTypes DEF Onward

\* The first chunk of a segment.
LEMMA FirstChunkType ==
  ASSUME SystemType, NEW i \in DOMAIN segs
  PROVE  FirstChunk(segs[i]) \in Int
BY SegmentFields, AlignAsChunkType DEF FirstChunk

\* It is no longer the designated victim.
LEMMA WithdrawnType ==
  ASSUME HeapType, NEW p, Withdrawn(p)
  PROVE  dv' \in Int /\ dvsize' \in Int
BY DEF Withdrawn, HeapType, NULL

\* A segment is left or refused
LEMMA SegmentStaysType ==
  ASSUME TypeOK, SegmentStays \/ SegmentRefused
  PROVE  TypeOK'
<1>0. HeapType /\ SystemType /\ CountersType /\ ConfigType /\ CallType /\ LiveType
  BY TypeParts
<1>1. SystemType' /\ CountersType' /\ ConfigType' /\ LiveType'
  BY <1>0, Untouched DEF SegmentStays, SegmentRefused
<1>2. CallType'
  <2>1. call' = Onward /\ pc' \in {pc, "corrupt"}
    BY DEF SegmentStays, SegmentRefused, InTree
  <2> QED
    BY <1>0, <2>1, OnwardType DEF CallType, Controls
<1>3. CASE SegmentStays
  <2>1. HeapType'
    BY <1>0, <1>3, Untouched DEF SegmentStays
  <2> QED
    BY <1>1, <1>2, <2>1, TypePartsPrime
<1>4. CASE SegmentRefused
  <2> DEFINE p == FirstChunk(segs[call.sp])
  <2>1. p \in Int
    BY <1>0, <1>4, FirstChunkType DEF SegmentRefused
  <2>2. Withdrawn(p) /\ bins' = bins \cup {p} /\ UNCHANGED <<mem, top, topsize>>
    BY <1>4 DEF SegmentRefused
  <2> HIDE DEF p
  <2>3. dv' \in Int /\ dvsize' \in Int
    BY <1>0, <2>2, WithdrawnType
  <2>4. HeapType'
    BY <1>0, <2>1, <2>2, <2>3 DEF HeapType, IsMem
  <2> QED
    BY <1>1, <1>2, <2>4, TypePartsPrime
<1> QED
  BY <1>3, <1>4

\* or released.
LEMMA SegmentReleasedType ==
  ASSUME TypeOK, SegmentReleased
  PROVE  TypeOK'
<1>0. HeapType /\ SystemType /\ CountersType /\ ConfigType /\ CallType /\ LiveType
  BY TypeParts
<1> DEFINE s == segs[call.sp]
           p == FirstChunk(s)
           D == {a \in DOMAIN mem : ~ holds(s, a)}
<1>1. /\ call.sp \in DOMAIN segs /\ Withdrawn(p) /\ bins' = bins \ {p}
      /\ pc' \in {pc, "corrupt"} /\ mem' = Restrict(mem, D)
      /\ footprint' = footprint - s.size
      /\ segs' = SubSeq(segs, 1, call.sp - 1) \o SubSeq(segs, call.sp + 1, Len(segs))
      /\ call' = [Visited EXCEPT !.released = TRUE]
      /\ UNCHANGED <<top, topsize, least_addr, externs>>
  BY DEF SegmentReleased, InTree
<1>2. CallType'
  BY <1>0, <1>1, OnwardType DEF CallType, Controls
<1>3. IsMem(mem')
  <2>1. D \subseteq DOMAIN mem
    OBVIOUS
  <2> HIDE DEF D
  <2> QED
    BY <1>0, <1>1, <2>1 DEF HeapType, IsMem, Restrict
<1>4. HeapType'
  <2>1. dv' \in Int /\ dvsize' \in Int
    BY <1>0, <1>1, WithdrawnType
  <2> HIDE DEF p
  <2> QED
    BY <1>0, <1>1, <1>3, <2>1 DEF HeapType
<1>5. segs' \in Seq(Segment)
  <2>1. /\ Len(segs) \in Nat /\ call.sp \in 1..Len(segs)
        /\ \A i \in 1..Len(segs) : segs[i] \in Segment
    BY <1>0, <1>1, LenProperties, ElementOfSeq DEF SystemType
  <2>2. SubSeq(segs, 1, call.sp - 1) \in Seq(Segment)
    BY <2>1, SubSeqProperties
  <2>3. SubSeq(segs, call.sp + 1, Len(segs)) \in Seq(Segment)
    BY <2>1, SubSeqProperties
  <2> QED
    BY <1>1, <2>2, <2>3, ConcatProperties
<1>6. SystemType'
  <2>1. s.size \in Int
    BY <1>0, <1>1, SegmentFields
  <2> QED
    BY SMTT(30), <1>0, <1>1, <1>5, <2>1 DEF SystemType
<1>7. CountersType' /\ ConfigType' /\ LiveType'
  BY <1>0, Untouched DEF SegmentReleased
<1> QED
  BY <1>2, <1>4, <1>6, <1>7, TypePartsPrime

\* The countdown starts at one or more.
LEMMA TargetType ==
  ASSUME NEW rate \in Nat
  PROVE  release_check_target(rate) \in Int /\ release_check_target(rate) >= 1
BY UsizeAssumption DEF release_check_target

\* The end of a pass.
LEMMA ReleaseDoneType ==
  ASSUME TypeOK, ReleaseDone
  PROVE  TypeOK'
<1>0. HeapType /\ SystemType /\ CountersType /\ ConfigType /\ CallType /\ LiveType
  BY TypeParts
<1>1. HeapType' /\ SystemType' /\ ConfigType' /\ LiveType' /\ CallType'
  BY <1>0, IdleType, Untouched DEF ReleaseDone
<1>2. release_checks' \in Int
  <2>1. call.nsegs \in Int /\ release_check_target(max_release_check_rate) \in Int
    BY <1>0, FrameFields, TargetType DEF CallType, ConfigType
  <2> QED
    BY <2>1, TwoOf DEF ReleaseDone
<1>3. trim_check' \in Int
  BY <1>0, UsizeAssumption DEF ReleaseDone, CountersType
<1> QED
  BY <1>1, <1>2, <1>3, TypePartsPrime DEF CountersType

-----------------------------------------------------------------------------
(* The API *)

\* What a call to allocate leaves.
LEMMA AllocateType ==
  ASSUME LiveType, ConfigType, NEW size \in Int, NEW align \in Int, NEW old \in Int,
         Allocate(size, align, old)
  PROVE  CallType' /\ LiveType'
<1>1. NULL \in Int /\ malloc_alignment \in Int /\ min_chunk_size \in Int /\ chunk_overhead \in Int
  BY Constants DEF NULL
<1>2. wrap(request2size(size) + raised(align) + min_chunk_size - chunk_overhead) \in Int
  <2>1. request2size(size) + raised(align) + min_chunk_size - chunk_overhead \in Int
    BY <1>1, Request2Size DEF raised
  <2> QED
    BY <2>1, UsizeAssumption DEF wrap
<1>3. call' \in Frame
  BY <1>1, <1>2, AskingType DEF Allocate
<1> QED
  BY <1>3 DEF Allocate, CallType, Controls, LiveType

\* A call of the API.
LEMMA CallStepType ==
  ASSUME TypeOK, Call
  PROVE  TypeOK'
<1>0. HeapType /\ SystemType /\ CountersType /\ ConfigType /\ CallType /\ LiveType
  BY TypeParts
<1>1. HeapType' /\ SystemType' /\ CountersType' /\ ConfigType'
  BY <1>0, Untouched DEF Call
<1>2. /\ NULL \in Int /\ malloc_alignment \in Int /\ 0 \in Int
      /\ Requests \subseteq Int /\ Alignments \subseteq Int /\ Pads \subseteq Int
      /\ DOMAIN live \subseteq Int /\ \A ptr \in DOMAIN live : live[ptr].align \in Int
  BY <1>0, Constants, ConfigAssumption, UsizeAssumption DEF NULL, LiveType, Blocks
<1>3. CallType' /\ LiveType'
  <2>1. ASSUME NEW size \in Requests, NEW align \in Alignments \cup {malloc_alignment},
               Allocate(size, align, NULL)
        PROVE  CallType' /\ LiveType'
    BY <1>0, <1>2, <2>1, AllocateType
  <2>2. ASSUME NEW ptr \in DOMAIN live, Free(ptr)
        PROVE  CallType' /\ LiveType'
    <3>1. from_mem(ptr) \in Int
      BY <1>2, MemAddresses
    <3>2. CallType'
      BY <2>2, <3>1, SmallFrames DEF Free, CallType, Controls
    <3>3. LiveType'
      BY <1>0, <2>2, RestrictType DEF Free, LiveType
    <3> QED
      BY <3>2, <3>3
  <2>3. ASSUME NEW ptr \in DOMAIN live, NEW size \in Requests, Realloc(ptr, size)
        PROVE  CallType' /\ LiveType'
    <3>1. Asking(0, size, malloc_alignment, ptr) \in Frame
      BY <1>2, AskingType
    <3> QED
      BY <1>0, <2>3, <3>1 DEF Realloc, CallType, Controls, LiveType
  <2>4. ASSUME NEW ptr \in DOMAIN live, NEW size \in Requests, NEW align \in Alignments,
               Allocate(size, align, ptr)
        PROVE  CallType' /\ LiveType'
    BY <1>0, <1>2, <2>4, AllocateType
  <2>5. ASSUME NEW pad \in Pads, Trim(pad)
        PROVE  CallType' /\ LiveType'
    <3>1. Trimming(pad) \in Frame
      BY <1>2, SmallFrames
    <3> QED
      BY <1>0, <2>5, <3>1 DEF Trim, CallType, Controls, LiveType
  <2> QED
    BY <2>1, <2>2, <2>3, <2>4, <2>5 DEF Call
<1> QED
  BY <1>1, <1>3, TypePartsPrime

\* The setters.
LEMMA ConfigureType ==
  ASSUME TypeOK, Configure
  PROVE  TypeOK'
<1>0. HeapType /\ SystemType /\ CountersType /\ ConfigType /\ CallType /\ LiveType
  BY TypeParts
<1>1. HeapType' /\ SystemType' /\ CallType' /\ LiveType'
  BY <1>0, Untouched DEF Configure, SetGranularity, SetMaxReleaseCheckRate
<1>2. CASE SetGranularity
  <2>1. ConfigType'
    BY <1>0, <1>2, ConfigAssumption DEF SetGranularity, Accepted, ConfigType
  <2>2. CountersType'
    BY <1>0, <1>2, Untouched DEF SetGranularity
  <2> QED
    BY <1>1, <2>1, <2>2, TypePartsPrime
<1>3. CASE SetMaxReleaseCheckRate
  <2>1. ConfigType' /\ CountersType'
    BY <1>0, <1>3, ConfigAssumption, TargetType
       DEF SetMaxReleaseCheckRate, ConfigType, CountersType
  <2> QED
    BY <1>1, <2>1, TypePartsPrime
<1> QED
  BY <1>2, <1>3 DEF Configure

\* A function with no argument is one into any set.
LEMMA NothingType ==
  ASSUME NEW T
  PROVE  << >> \in [DOMAIN << >> -> T] /\ DOMAIN << >> = {}
OBVIOUS

\* destroy, and what comes after it.
LEMMA DestroyType ==
  ASSUME TypeOK, Destroy
  PROVE  TypeOK'
<1>0. HeapType /\ SystemType /\ CountersType /\ ConfigType /\ CallType /\ LiveType
  BY TypeParts
<1>1. IsMem(<< >>) /\ << >> \in [DOMAIN << >> -> Blocks] /\ DOMAIN << >> \subseteq Int
  BY NothingType DEF IsMem
<1>2. mem' = << >> /\ live' = << >> /\ segs' = << >>
  BY DEF Destroy
<1>3. HeapType' /\ LiveType'
  BY <1>0, <1>1, <1>2 DEF Destroy, HeapType, LiveType
<1>4. SystemType'
  BY <1>0, <1>2, EmptySeq DEF Destroy, SystemType
<1>5. CountersType' /\ ConfigType' /\ CallType'
  BY <1>0, Untouched DEF Destroy, CallType, Controls
<1> QED
  BY <1>3, <1>4, <1>5, TypePartsPrime

\* The allocator starts with its types right.
LEMMA InitType == Init => TypeOK
<1> SUFFICES ASSUME Init PROVE TypeOK
  OBVIOUS
<1>1. IsMem(<< >>) /\ << >> \in [DOMAIN << >> -> Blocks] /\ DOMAIN << >> \subseteq Int
  BY NothingType DEF IsMem
<1>2. HeapType /\ LiveType
  BY <1>1 DEF Init, HeapType, LiveType, NULL
<1>3. SystemType
  BY EmptySeq DEF Init, SystemType, NULL
<1>4. CountersType /\ ConfigType
  BY ConfigAssumption DEF Init, CountersType, ConfigType
<1>5. CallType
  <2>1. 0 \in Int
    OBVIOUS
  <2> QED
    BY <2>1, SmallFrames DEF Init, CallType, Controls
<1> QED
  BY <1>2, <1>3, <1>4, <1>5, TypeParts

\* Every step keeps the types.
LEMMA NextType == TypeOK /\ [Next]_vars => TypeOK'
<1> SUFFICES ASSUME TypeOK, [Next]_vars PROVE TypeOK'
  OBVIOUS
<1>1. CASE Call
  BY <1>1, CallStepType
<1>2. CASE Malloc
  BY <1>2, FromBinsType, MallocElseType DEF Malloc
<1>3. CASE SysAlloc
  BY <1>3, MallocElseType, SysAllocInitType, SysAllocExtendType, SysAllocPrependType,
     SysAllocAddSegmentType DEF SysAlloc
<1>4. CASE Rest
  BY <1>4, MemalignLeadType, MemalignTailType, ReallocType, ReallocMovesType, FreeType,
     TrimDeclinedType, TrimTopType, SegmentStaysType, SegmentReleasedType, ReleaseDoneType
     DEF Rest
<1>5. CASE Configure
  BY <1>5, ConfigureType
<1>6. CASE Destroy
  BY <1>6, DestroyType
<1>7. CASE Gone \/ UNCHANGED vars
  <2>1. UNCHANGED <<heap, system, counters, config, pc, call, live>>
    BY <1>7 DEF Gone, vars
  <2> QED
    BY <2>1, TypeParts, Untouched, TypePartsPrime
<1> QED
  BY <1>1, <1>2, <1>3, <1>4, <1>5, <1>6, <1>7 DEF Next

\* In every reachable state each variable holds a value of its kind; above all,
\* the granularity is a power of two that keeps the flag bits of top's size clear.
THEOREM TypeCorrect == Spec => []TypeOK
BY InitType, NextType, PTL DEF Spec

-----------------------------------------------------------------------------
(* Heaps *)

Aligned(a) == a % malloc_alignment = 0
End(m, a) == a + m[a].size
Fence(m, a) == m[a].size = WORD /\ m[a].cinuse
EndsSegment(S, a) ==
  \E s \in S : s.base <= a /\ a < segment_top(s) /\ a + 2 * WORD >= segment_top(s)
Within(S, lo, hi) == \E s \in S : FirstChunk(s) <= lo /\ hi < segment_top(s)

\* Segments are apart, and each has room for a chunk.
Mapped(S) ==
  /\ S \subseteq Segment
  /\ \A s \in S : s.base > 0 /\ FirstChunk(s) < segment_top(s)
  /\ \A s, r \in S : s # r => segment_top(s) <= r.base \/ segment_top(r) <= s.base

\* Chunks follow each other inside a segment.
Tiled(m, S, t) ==
  \A a \in DOMAIN m :
    /\ a < End(m, a) /\ Within(S, a, End(m, a))
    /\ \A b \in DOMAIN m : a < b => End(m, a) <= b
    /\ End(m, a) \in DOMAIN m \/ a = t \/ (Fence(m, a) /\ EndsSegment(S, a))

\* What a chunk says of the one before it is true, and no two free ones meet.
Tagged(m) ==
  \A a \in DOMAIN m : End(m, a) \in DOMAIN m =>
    /\ m[End(m, a)].pinuse = m[a].cinuse
    /\ ~ m[a].cinuse => m[End(m, a)].prev_foot = m[a].size /\ m[End(m, a)].cinuse

\* Where a chunk says that there is a free one before it, there is one.
Footed(m) ==
  \A a \in DOMAIN m : ~ m[a].pinuse => \E b \in DOMAIN m : End(m, b) = a /\ ~ m[b].cinuse

\* Chunks but fenceposts are aligned, and but for top of an aligned size.
Shaped(m, t) ==
  \A a \in DOMAIN m :
    \/ Fence(m, a)
    \/ /\ Aligned(a)
       /\ a # t => Aligned(m[a].size) /\ m[a].size >= min_chunk_size

\* A segment begins with a chunk that has none before it.
Rooted(m, S) == \A s \in S : FirstChunk(s) \in DOMAIN m /\ m[FirstChunk(s)].pinuse
RootedBut(m, S, x) ==
  \A s \in S : FirstChunk(s) # x => FirstChunk(s) \in DOMAIN m /\ m[FirstChunk(s)].pinuse

Heap(m, S, t) ==
  /\ IsMem(m) /\ Mapped(S) /\ Tiled(m, S, t) /\ Tagged(m) /\ Footed(m) /\ Shaped(m, t)
  /\ Rooted(m, S) /\ (t \in DOMAIN m => ~ m[t].cinuse)

\* A heap but for the segment that begins at x, which has no chunk there yet.
HeapBut(m, S, t, x) ==
  /\ IsMem(m) /\ Mapped(S) /\ Tiled(m, S, t) /\ Tagged(m) /\ Footed(m) /\ Shaped(m, t)
  /\ RootedBut(m, S, x) /\ (t \in DOMAIN m => ~ m[t].cinuse)

FreeOf(m) == {a \in DOMAIN m : ~ m[a].cinuse}

\* Every free chunk is in one place: in B, the designated victim v, or top.
Binned(m, B, v, t) ==
  /\ FreeOf(m) = B \cup ({v, t} \ {NULL})
  /\ v \notin B /\ t \notin B /\ (v = t => v = NULL)

-----------------------------------------------------------------------------
(* Facts about one heap *)

\* The first chunk of a segment is a place in it.
LEMMA FirstChunkFacts ==
  ASSUME NEW s \in Segment
  PROVE  /\ FirstChunk(s) \in Int /\ Aligned(FirstChunk(s))
         /\ s.base <= FirstChunk(s) /\ FirstChunk(s) < s.base + malloc_alignment
         /\ segment_top(s) \in Int /\ s.base \in Int /\ s.size \in Int
<1>1. s.base \in Int /\ s.size \in Int
  BY DEF Segment
<1> QED
  BY <1>1, Constants
     DEF FirstChunk, align_as_chunk, align_offset_usize, align_up, to_mem, segment_top, Aligned

\* Sums of aligned sizes and places are aligned.
LEMMA AlignedSum ==
  ASSUME NEW a \in Int, NEW b \in Int, Aligned(a), Aligned(b)
  PROVE  Aligned(a + b) /\ Aligned(a - b)
BY Constants DEF Aligned

\* A heap is made of records.
LEMMA MemFacts ==
  ASSUME NEW m, IsMem(m), NEW a \in DOMAIN m
  PROVE  /\ a \in Int /\ m[a] \in Headers
         /\ m[a].size \in Int /\ m[a].prev_foot \in Int
         /\ m[a].pinuse \in BOOLEAN /\ m[a].cinuse \in BOOLEAN
         /\ End(m, a) \in Int
BY DEF IsMem, Headers, End

\* A range inside one segment meets the first chunk of no other.
LEMMA OneSegment ==
  ASSUME NEW S, Mapped(S), NEW lo \in Int, NEW hi \in Int, lo < hi, Within(S, lo, hi),
         NEW r \in S
  PROVE  FirstChunk(r) <= lo \/ FirstChunk(r) > hi
<1>1. PICK s \in S : FirstChunk(s) <= lo /\ hi < segment_top(s)
  BY DEF Within
<1>2. r \in Segment /\ s \in Segment
  BY DEF Mapped
<1>3. CASE r = s
  BY <1>1, <1>3
<1>4. CASE r # s
  BY <1>1, <1>2, <1>4, FirstChunkFacts DEF Mapped
<1> QED
  BY <1>3, <1>4

-----------------------------------------------------------------------------
(* A cut: [lo, hi) becomes a chunk that ends at mid, and if that is not the end *)
(* of the range a second one behind it; the first of two is in use.             *)

LastPiece(lo, mid, hi) == IF mid = hi THEN lo ELSE mid

Cut(m, n, lo, mid, hi) ==
  /\ \A a : a \in DOMAIN n <=>
       a \in {lo, LastPiece(lo, mid, hi)} \/ (a \in DOMAIN m /\ (a < lo \/ a >= hi))
  /\ \A a \in DOMAIN m : a < lo \/ a > hi => n[a] = m[a]
  /\ n[lo].size = mid - lo
  /\ mid # hi => n[lo].cinuse /\ n[mid].size = hi - mid /\ n[mid].pinuse
  /\ hi \in DOMAIN m =>
       LET last == n[LastPiece(lo, mid, hi)]
       IN  /\ n[hi].size = m[hi].size /\ n[hi].cinuse = m[hi].cinuse
           /\ n[hi].pinuse = last.cinuse
           /\ ~ last.cinuse => n[hi].prev_foot = last.size

\* Places rewritten so that they tile, and mark, what they did make a heap again.
LEMMA CutHeap ==
  ASSUME NEW m, NEW n, NEW S, NEW t, NEW u, NEW lo \in Int, HeapBut(m, S, t, lo), IsMem(n),
         NEW mid \in Int, NEW hi \in Int, lo < mid, mid <= hi,
         Within(S, lo, hi), Cut(m, n, lo, mid, hi),
         \/ /\ lo \in DOMAIN m /\ Rooted(m, S)
            /\ n[lo].pinuse = m[lo].pinuse /\ n[lo].prev_foot = m[lo].prev_foot
         \/ n[lo].pinuse /\ \A a \in DOMAIN m : a < lo => End(m, a) < lo,
         \A a \in DOMAIN m : a < hi => End(m, a) <= hi \/ End(m, a) \notin DOMAIN m,
         ~ n[lo].cinuse => n[lo].pinuse,
         hi \in DOMAIN m => n[LastPiece(lo, mid, hi)].cinuse \/ m[hi].cinuse,
         hi \in DOMAIN m \/ u = LastPiece(lo, mid, hi),
         u = t \/ (lo <= t /\ t < hi) \/ t \notin DOMAIN m, t \in Int,
         u \in DOMAIN n => ~ n[u].cinuse,
         Aligned(lo), Aligned(mid) \/ mid = hi,
         lo # u => Aligned(mid - lo) /\ mid - lo >= min_chunk_size,
         mid # hi /\ mid # u =>
           Aligned(hi - mid) /\ hi - mid >= min_chunk_size
  PROVE  Heap(n, S, u)
<1> DEFINE last == LastPiece(lo, mid, hi)
<1>1. /\ IsMem(m) /\ Mapped(S) /\ Tiled(m, S, t) /\ Tagged(m) /\ Footed(m) /\ Shaped(m, t)
      /\ RootedBut(m, S, lo)
  BY DEF HeapBut
<1>2. \A a \in DOMAIN m : /\ a \in Int /\ m[a].size \in Int /\ End(m, a) \in Int
                          /\ m[a].pinuse \in BOOLEAN /\ m[a].cinuse \in BOOLEAN
  BY <1>1, MemFacts
<1>3. \A a \in DOMAIN n : /\ a \in Int /\ n[a].size \in Int /\ End(n, a) \in Int
                          /\ n[a].pinuse \in BOOLEAN /\ n[a].cinuse \in BOOLEAN
  BY MemFacts
<1>4. \A a : a \in DOMAIN n <=> a \in {lo, last} \/ (a \in DOMAIN m /\ (a < lo \/ a >= hi))
  BY DEF Cut
<1>5. \A a \in DOMAIN m : a < lo \/ a >= hi =>
        /\ a \in DOMAIN n /\ End(n, a) = End(m, a) /\ n[a].size = m[a].size
        /\ n[a].cinuse = m[a].cinuse
  BY <1>2, <1>4 DEF Cut, End
<1>6. /\ last \in DOMAIN n /\ lo \in DOMAIN n /\ End(n, last) = hi
      /\ last = lo \/ (last = mid /\ End(n, lo) = mid /\ mid < hi /\ n[lo].cinuse /\ n[mid].pinuse)
  BY <1>4 DEF Cut, LastPiece, End
<1>7. \A a \in DOMAIN m : a < lo => End(m, a) <= lo /\ (End(m, a) = lo => lo \in DOMAIN m)
  <2> SUFFICES ASSUME NEW a \in DOMAIN m, a < lo PROVE End(m, a) <= lo /\ (End(m, a) = lo => lo \in DOMAIN m)
    OBVIOUS
  <2>1. CASE lo \in DOMAIN m
    BY <1>1, <2>1 DEF Tiled
  <2>2. CASE \A x \in DOMAIN m : x < lo => End(m, x) < lo
    BY <1>2, <2>2
  <2> QED
    BY <2>1, <2>2
<1>8. \A a \in DOMAIN m : a >= hi => End(m, a) > hi
  BY <1>1, <1>2 DEF Tiled
<1> HIDE DEF last
<1>9. Tiled(n, S, u)
  <2> SUFFICES ASSUME NEW a \in DOMAIN n
               PROVE  /\ a < End(n, a) /\ Within(S, a, End(n, a))
                      /\ \A b \in DOMAIN n : a < b => End(n, a) <= b
                      /\ End(n, a) \in DOMAIN n \/ a = u \/ (Fence(n, a) /\ EndsSegment(S, a))
    BY DEF Tiled
  <2>1. CASE a \in DOMAIN m /\ (a < lo \/ a >= hi)
    <3>1. /\ a < End(m, a) /\ Within(S, a, End(m, a))
          /\ \A b \in DOMAIN m : a < b => End(m, a) <= b
          /\ End(m, a) \in DOMAIN m \/ a = t \/ (Fence(m, a) /\ EndsSegment(S, a))
      BY <1>1, <2>1 DEF Tiled
    <3>2. \A b \in DOMAIN n : a < b => End(n, a) <= b
      BY <1>2, <1>3, <1>4, <1>5, <1>6, <1>7, <2>1, <3>1
    <3>3. End(m, a) \in DOMAIN m => End(m, a) \in DOMAIN n
      BY <1>2, <1>4, <1>7, <1>8, <2>1
    <3>4. a = t => a = u
      BY <2>1
    <3>5. Fence(m, a) => Fence(n, a)
      BY <1>5, <2>1 DEF Fence
    <3> QED
      BY <1>5, <2>1, <3>1, <3>2, <3>3, <3>4, <3>5
  <2>2. CASE a \in {lo, last}
    <3>1. lo <= a /\ a < End(n, a) /\ End(n, a) <= hi
      BY <1>3, <1>6, <2>2
    <3>2. Within(S, a, End(n, a))
      <4>1. PICK s \in S : FirstChunk(s) <= lo /\ hi < segment_top(s)
        BY DEF Within
      <4>2. FirstChunk(s) \in Int /\ segment_top(s) \in Int
        BY <1>1, FirstChunkFacts DEF Mapped
      <4> QED
        BY <1>3, <3>1, <4>1, <4>2 DEF Within
    <3>3. \A b \in DOMAIN n : a < b => End(n, a) <= b
      BY <1>2, <1>3, <1>4, <1>6, <2>2
    <3>4. End(n, a) \in DOMAIN n \/ a = u
      <4>1. CASE a = last
        BY <1>4, <1>5, <1>6, <4>1 DEF last
      <4>2. CASE a = lo /\ a # last
        BY <1>6, <4>2
      <4> QED
        BY <2>2, <4>1, <4>2
    <3> QED
      BY <3>1, <3>2, <3>3, <3>4
  <2> QED
    BY <1>4, <2>1, <2>2
<1>10. hi \in DOMAIN m => n[hi].pinuse = n[last].cinuse /\ (~ n[last].cinuse => n[hi].prev_foot = n[last].size)
  BY DEF Cut, last
<1>11. \A a \in DOMAIN m : a < lo \/ a > hi => n[a] = m[a]
  BY DEF Cut
<1>12. Tagged(n)
  <2> SUFFICES ASSUME NEW a \in DOMAIN n, End(n, a) \in DOMAIN n
               PROVE  /\ n[End(n, a)].pinuse = n[a].cinuse
                      /\ ~ n[a].cinuse =>
                           n[End(n, a)].prev_foot = n[a].size /\ n[End(n, a)].cinuse
    BY DEF Tagged
  <2>1. CASE a \in DOMAIN m /\ (a < lo \/ a >= hi)
    <3>1. End(n, a) = End(m, a) /\ n[a].cinuse = m[a].cinuse /\ n[a].size = m[a].size
      BY <1>5, <2>1
    <3>2. CASE End(m, a) = lo
      <4>1. lo \in DOMAIN m /\ a < lo
        BY <1>2, <1>7, <1>8, <2>1, <3>2
      <4>2. n[lo].pinuse = m[lo].pinuse /\ (~ m[a].cinuse => n[lo].prev_foot = m[lo].prev_foot)
        <5>1. CASE \A x \in DOMAIN m : x < lo => End(m, x) < lo
          BY <1>2, <2>1, <3>2, <4>1, <5>1
        <5> QED
          BY <5>1
      <4>3. m[lo].pinuse = m[a].cinuse /\ (~ m[a].cinuse => m[lo].prev_foot = m[a].size)
        BY <1>1, <2>1, <3>2, <4>1 DEF Tagged
      <4>4. ~ m[a].cinuse => n[lo].cinuse
        BY <4>2, <4>3
      <4> QED
        BY <3>1, <3>2, <4>2, <4>3, <4>4
    <3>3. CASE End(m, a) # lo
      <4>1. End(m, a) \in DOMAIN m /\ (End(m, a) < lo \/ End(m, a) > hi)
        <5>1. CASE a < lo
          BY <1>2, <1>3, <1>4, <1>6, <1>7, <2>1, <3>1, <3>3, <5>1
        <5>2. CASE a >= hi
          BY <1>2, <1>3, <1>4, <1>6, <1>8, <2>1, <3>1, <3>3, <5>2
        <5> QED
          BY <2>1, <5>1, <5>2
      <4>2. n[End(m, a)] = m[End(m, a)]
        BY <1>11, <4>1
      <4> QED
        BY <1>1, <2>1, <3>1, <4>1, <4>2 DEF Tagged
    <3> QED
      BY <3>2, <3>3
  <2>2. CASE a = last
    <3>1. hi \in DOMAIN m /\ End(n, a) = hi
      BY <1>3, <1>4, <1>6, <2>2
    <3>2. n[hi].cinuse = m[hi].cinuse
      BY <1>2, <1>5, <3>1
    <3> QED
      BY <1>10, <2>2, <3>1, <3>2 DEF last
  <2>3. CASE a = lo /\ a # last
    BY <1>3, <1>6, <2>3
  <2> QED
    BY <1>4, <2>1, <2>2, <2>3
<1>13. Footed(n)
  <2> SUFFICES ASSUME NEW a \in DOMAIN n, ~ n[a].pinuse
               PROVE  \E b \in DOMAIN n : End(n, b) = a /\ ~ n[b].cinuse
    BY DEF Footed
  <2>1. CASE a = lo
    <3>1. lo \in DOMAIN m /\ ~ m[lo].pinuse
      BY <2>1
    <3>2. PICK b \in DOMAIN m : End(m, b) = lo /\ ~ m[b].cinuse
      BY <1>1, <3>1 DEF Footed
    <3>3. b < lo
      BY <1>1, <1>2, <3>2 DEF Tiled
    <3> QED
      BY <1>5, <2>1, <3>2, <3>3
  <2>2. CASE a = last /\ a # lo
    BY <1>6, <2>2
  <2>3. CASE a = hi /\ a \in DOMAIN m
    BY <1>3, <1>6, <1>10, <2>3
  <2>4. CASE a \in DOMAIN m /\ (a < lo \/ a > hi)
    <3>1. ~ m[a].pinuse
      BY <1>11, <2>4
    <3>2. PICK b \in DOMAIN m : End(m, b) = a /\ ~ m[b].cinuse
      BY <1>1, <2>4, <3>1 DEF Footed
    <3>3. b < a
      BY <1>1, <1>2, <3>2 DEF Tiled
    <3>4. CASE b < lo \/ b >= hi
      BY <1>5, <3>2, <3>4
    <3>5. CASE lo <= b /\ b < hi
      \* a free chunk of the range that ended behind it: its end is no chunk's start
      <4>1. a > hi
        BY <1>2, <2>4, <3>3, <3>5
      <4>2. End(m, b) <= hi
        BY <2>4, <3>2, <3>5
      <4> QED
        BY <1>2, <3>2, <4>1, <4>2
    <3> QED
      BY <1>2, <3>4, <3>5
  <2> QED
    BY <1>2, <1>4, <2>1, <2>2, <2>3, <2>4
<1>14. Shaped(n, u)
  <2> SUFFICES ASSUME NEW a \in DOMAIN n
               PROVE  \/ Fence(n, a)
                      \/ /\ Aligned(a)
                         /\ a # u => /\ Aligned(n[a].size)
                                      /\ n[a].size >= min_chunk_size
    BY DEF Shaped
  <2>1. CASE a \in DOMAIN m /\ (a < lo \/ a >= hi)
    <3>1. n[a].size = m[a].size /\ (Fence(m, a) <=> Fence(n, a)) /\ (a # u => a # t)
      BY <1>5, <2>1 DEF Fence
    <3> QED
      BY <1>1, <2>1, <3>1 DEF Shaped
  <2>2. CASE a = lo
    <3>1. n[lo].size = mid - lo
      BY DEF Cut
    <3> QED
      BY <2>2, <3>1
  <2>3. CASE a = last /\ a # lo
    <3>1. n[last].size = hi - mid /\ last = mid /\ mid # hi
      BY <1>6, <2>3 DEF Cut
    <3> QED
      BY <2>3, <3>1
  <2> QED
    BY <1>4, <2>1, <2>2, <2>3
<1>15. Rooted(n, S)
  <2> SUFFICES ASSUME NEW s \in S PROVE FirstChunk(s) \in DOMAIN n /\ n[FirstChunk(s)].pinuse
    BY DEF Rooted
  <2>1. FirstChunk(s) # lo => FirstChunk(s) \in DOMAIN m /\ m[FirstChunk(s)].pinuse
    BY <1>1 DEF RootedBut
  <2>5. FirstChunk(s) = lo => n[lo].pinuse
    BY DEF Rooted
  <2>2. FirstChunk(s) <= lo \/ FirstChunk(s) > hi
    BY <1>1, OneSegment
  <2>3. CASE FirstChunk(s) = lo
    BY <1>4, <2>5, <2>3
  <2>4. CASE FirstChunk(s) # lo
    BY <1>2, <1>5, <1>11, <2>1, <2>2, <2>4
  <2> QED
    BY <2>3, <2>4
<1> QED
  BY <1>1, <1>9, <1>12, <1>13, <1>14, <1>15 DEF Heap

-----------------------------------------------------------------------------
(* What the operations on tags write                                            *)

\* n is m with the chunk [me, me + size) made one.
Headed(m, n, me, size) ==
  /\ IsMem(n)
  /\ \A y : y \in DOMAIN n <=> y = me \/ (y \in DOMAIN m /\ (y <= me \/ y >= me + size))
  /\ \A x \in DOMAIN n : x # me => n[x] = m[x]
  /\ n[me].size = size /\ n[me].prev_foot = HeaderAt(m, me).prev_foot

\* n is m but for what the chunk at a says of the one before it.
Retagged(m, n, a) ==
  /\ IsMem(n)
  /\ \A y : y \in DOMAIN n <=> y = a \/ y \in DOMAIN m
  /\ \A x \in DOMAIN n : x # a => n[x] = m[x]
  /\ n[a].size = HeaderAt(m, a).size /\ n[a].cinuse = HeaderAt(m, a).cinuse

\* What set_head writes.
LEMMA SetHeadIs ==
  ASSUME NEW m, IsMem(m), NEW me \in Int, NEW size \in Int
  PROVE  /\ \A n : n = SetHead(m, me, size, TRUE, TRUE) =>
              Headed(m, n, me, size) /\ n[me].pinuse /\ n[me].cinuse
         /\ \A n : n = SetHead(m, me, size, TRUE, FALSE) =>
              Headed(m, n, me, size) /\ n[me].pinuse /\ ~ n[me].cinuse
         /\ \A n : n = SetHead(m, me, size, pinuse(m, me), TRUE) =>
              Headed(m, n, me, size) /\ n[me].pinuse = pinuse(m, me) /\ n[me].cinuse
<1>1. HeaderAt(m, me) \in Headers /\ pinuse(m, me) \in BOOLEAN
  BY HeaderAtType, TagTypes
<1>2. ASSUME NEW pin \in BOOLEAN, NEW cin \in BOOLEAN, NEW n, n = SetHead(m, me, size, pin, cin)
      PROVE  Headed(m, n, me, size) /\ n[me].pinuse = pin /\ n[me].cinuse = cin
  <2>1. IsMem(n)
    BY <1>2, SetHeadType
  <2>2. /\ \A y : y \in DOMAIN n <=> y = me \/ (y \in DOMAIN m /\ (y <= me \/ y >= me + size))
        /\ \A x \in DOMAIN n : x # me => n[x] = m[x]
    BY <1>2 DEF SetHead
  <2>3. n[me] = [HeaderAt(m, me) EXCEPT !.size = size, !.pinuse = pin, !.cinuse = cin]
    BY <1>2 DEF SetHead
  <2>4. /\ n[me].size = size /\ n[me].prev_foot = HeaderAt(m, me).prev_foot
        /\ n[me].pinuse = pin /\ n[me].cinuse = cin
    BY <1>1, <2>3 DEF Headers
  <2> QED
    BY <2>1, <2>2, <2>4 DEF Headed
<1>3. ASSUME NEW n, n = SetHead(m, me, size, TRUE, TRUE)
      PROVE  Headed(m, n, me, size) /\ n[me].pinuse /\ n[me].cinuse
  BY <1>2, <1>3
<1>4. ASSUME NEW n, n = SetHead(m, me, size, TRUE, FALSE)
      PROVE  Headed(m, n, me, size) /\ n[me].pinuse /\ ~ n[me].cinuse
  BY <1>2, <1>4
<1>5. ASSUME NEW n, n = SetHead(m, me, size, pinuse(m, me), TRUE)
      PROVE  Headed(m, n, me, size) /\ n[me].pinuse = pinuse(m, me) /\ n[me].cinuse
  BY <1>1, <1>2, <1>5
<1> QED
  BY <1>3, <1>4, <1>5

\* What it is to mark the next chunk.
LEMMA MarkIs ==
  ASSUME NEW m, IsMem(m), NEW a \in Int
  PROVE  \A n : n = mark_pinuse(m, a) => Retagged(m, n, a) /\ n[a].pinuse
<1> SUFFICES ASSUME NEW n, n = mark_pinuse(m, a) PROVE Retagged(m, n, a) /\ n[a].pinuse
  OBVIOUS
<1>1. HeaderAt(m, a) \in Headers
  BY HeaderAtType
<1>2. IsMem(n)
  BY MarkTypes, 0 \in Int
<1>3. /\ \A y : y \in DOMAIN n <=> y = a \/ y \in DOMAIN m
      /\ \A x \in DOMAIN n : x # a => n[x] = m[x]
  BY DEF mark_pinuse, Put
<1>4. n[a].size = HeaderAt(m, a).size /\ n[a].cinuse = HeaderAt(m, a).cinuse /\ n[a].pinuse
  BY <1>1 DEF mark_pinuse, Put, Headers
<1> QED
  BY <1>2, <1>3, <1>4 DEF Retagged

\* What it is to clear the mark of the next chunk.
LEMMA ClearIs ==
  ASSUME NEW m, IsMem(m), NEW a \in Int
  PROVE  \A n : n = clear_pinuse(m, a) =>
           Retagged(m, n, a) /\ ~ n[a].pinuse /\ n[a].prev_foot = HeaderAt(m, a).prev_foot
<1> SUFFICES ASSUME NEW n, n = clear_pinuse(m, a)
             PROVE  Retagged(m, n, a) /\ ~ n[a].pinuse /\ n[a].prev_foot = HeaderAt(m, a).prev_foot
  OBVIOUS
<1>1. HeaderAt(m, a) \in Headers
  BY HeaderAtType
<1>2. IsMem(n)
  BY MarkTypes, 0 \in Int
<1>3. /\ \A y : y \in DOMAIN n <=> y = a \/ y \in DOMAIN m
      /\ \A x \in DOMAIN n : x # a => n[x] = m[x]
  BY DEF clear_pinuse, Put
<1>4. /\ n[a].size = HeaderAt(m, a).size /\ n[a].cinuse = HeaderAt(m, a).cinuse
      /\ ~ n[a].pinuse /\ n[a].prev_foot = HeaderAt(m, a).prev_foot
  BY <1>1 DEF clear_pinuse, Put, Headers
<1> QED
  BY <1>2, <1>3, <1>4 DEF Retagged

\* What set_foot writes.
LEMMA FootIs ==
  ASSUME NEW m, IsMem(m), NEW me \in Int, NEW size \in Int
  PROVE  \A n : n = set_foot(m, me, size) =>
           /\ Retagged(m, n, me + size)
           /\ n[me + size].pinuse = pinuse(m, me + size) /\ n[me + size].prev_foot = size
<1> SUFFICES ASSUME NEW n, n = set_foot(m, me, size)
             PROVE  /\ Retagged(m, n, me + size)
                    /\ n[me + size].pinuse = pinuse(m, me + size)
                    /\ n[me + size].prev_foot = size
  OBVIOUS
<1>1. HeaderAt(m, me + size) \in Headers
  BY HeaderAtType
<1>2. IsMem(n)
  BY MarkTypes
<1>3. /\ \A y : y \in DOMAIN n <=> y = me + size \/ y \in DOMAIN m
      /\ \A x \in DOMAIN n : x # me + size => n[x] = m[x]
  BY DEF set_foot, Put
<1>4. /\ n[me + size].size = HeaderAt(m, me + size).size
      /\ n[me + size].cinuse = HeaderAt(m, me + size).cinuse
      /\ n[me + size].pinuse = HeaderAt(m, me + size).pinuse /\ n[me + size].prev_foot = size
  BY <1>1 DEF set_foot, Put, Headers
<1> QED
  BY <1>2, <1>3, <1>4 DEF Retagged, pinuse

\* The kind of a place whose header is written.
LEMMA HeaderIs ==
  ASSUME NEW m, NEW a \in DOMAIN m
  PROVE  HeaderAt(m, a) = m[a] /\ cinuse(m, a) = m[a].cinuse /\ pinuse(m, a) = m[a].pinuse
BY DEF HeaderAt, cinuse, pinuse

\* The kind of a place whose header is not.
LEMMA NoHeader ==
  ASSUME NEW m, NEW a, a \notin DOMAIN m
  PROVE  HeaderAt(m, a).size = 0 /\ ~ cinuse(m, a) /\ ~ pinuse(m, a)
BY DEF HeaderAt, cinuse, pinuse, Garbage

-----------------------------------------------------------------------------
(* Writing a chunk [lo, hi): of what surrounds it only the tag at hi may change *)

Wrote(m, n, lo, hi) ==
  /\ IsMem(n) /\ lo \in DOMAIN n
  /\ \A y : y # hi => (y \in DOMAIN n <=> y = lo \/ (y \in DOMAIN m /\ (y < lo \/ y > hi)))
  /\ \A x \in DOMAIN n : x # lo /\ x # hi => n[x] = m[x]
  /\ n[lo].size = hi - lo /\ n[lo].prev_foot = HeaderAt(m, lo).prev_foot
  /\ hi \in DOMAIN m => hi \in DOMAIN n /\ n[hi].size = m[hi].size /\ n[hi].cinuse = m[hi].cinuse

\* One header written changes one place.
LEMMA HeadedWrote ==
  ASSUME NEW m, IsMem(m), NEW n, NEW lo \in Int, NEW size \in Int, size > 0, Headed(m, n, lo, size)
  PROVE  /\ Wrote(m, n, lo, lo + size)
         /\ lo + size \in DOMAIN n => lo + size \in DOMAIN m /\ n[lo + size] = m[lo + size]
<1>1. /\ IsMem(n)
      /\ \A y : y \in DOMAIN n <=> y = lo \/ (y \in DOMAIN m /\ (y <= lo \/ y >= lo + size))
      /\ \A x \in DOMAIN n : x # lo => n[x] = m[x]
      /\ n[lo].size = size /\ n[lo].prev_foot = HeaderAt(m, lo).prev_foot
  BY DEF Headed
<1>2. lo # lo + size /\ (lo + size) - lo = size /\ lo + size \in Int
  OBVIOUS
<1>3. \A y \in DOMAIN m : y \in Int
  BY DEF IsMem
<1>4. \A y : y # lo + size =>
        (y \in DOMAIN n <=> y = lo \/ (y \in DOMAIN m /\ (y < lo \/ y > lo + size)))
  BY <1>1, <1>2, <1>3
<1>5. lo + size \in DOMAIN m => lo + size \in DOMAIN n /\ n[lo + size] = m[lo + size]
  BY <1>1, <1>2
<1>6. lo + size \in DOMAIN n => lo + size \in DOMAIN m /\ n[lo + size] = m[lo + size]
  BY <1>1, <1>2
<1> QED
  BY <1>1, <1>2, <1>4, <1>5, <1>6 DEF Wrote

\* A chunk written at one place.
LEMMA WriteHead ==
  ASSUME NEW m, IsMem(m), NEW lo \in Int, NEW size \in Int, size > 0,
         NEW n, \/ n = set_size_and_pinuse_of_inuse_chunk(m, lo, size)
                \/ n = SetHead(m, lo, size, TRUE, FALSE)
  PROVE  /\ Wrote(m, n, lo, lo + size) /\ n[lo].pinuse
         /\ n = set_size_and_pinuse_of_inuse_chunk(m, lo, size) => n[lo].cinuse
         /\ n = SetHead(m, lo, size, TRUE, FALSE) => ~ n[lo].cinuse
         /\ lo + size \in DOMAIN n => lo + size \in DOMAIN m /\ n[lo + size] = m[lo + size]
<1>1. n = set_size_and_pinuse_of_inuse_chunk(m, lo, size) =>
        Headed(m, n, lo, size) /\ n[lo].pinuse /\ n[lo].cinuse
  BY SetHeadIs DEF set_size_and_pinuse_of_inuse_chunk
<1>2. n = SetHead(m, lo, size, TRUE, FALSE) =>
        Headed(m, n, lo, size) /\ n[lo].pinuse /\ ~ n[lo].cinuse
  BY SetHeadIs
<1>3. Headed(m, n, lo, size)
  BY <1>1, <1>2
<1> QED
  BY <1>1, <1>2, <1>3, HeadedWrote

\* A tag at hi changed, once more.
LEMMA WroteRetagged ==
  ASSUME NEW m, IsMem(m), NEW k, NEW n, NEW lo \in Int, NEW hi \in Int, lo < hi,
         Wrote(m, k, lo, hi), Retagged(k, n, hi)
  PROVE  Wrote(m, n, lo, hi) /\ hi \in DOMAIN n /\ n[lo] = k[lo]
<1>1. hi \in DOMAIN n /\ lo \in DOMAIN n /\ n[lo] = k[lo] /\ IsMem(n)
  BY DEF Wrote, Retagged
<1>2. \A y : y # hi => (y \in DOMAIN n <=> y = lo \/ (y \in DOMAIN m /\ (y < lo \/ y > hi)))
  BY DEF Wrote, Retagged
<1>3. \A x \in DOMAIN n : x # lo /\ x # hi => n[x] = m[x]
  BY DEF Wrote, Retagged
<1>4. hi \in DOMAIN m => n[hi].size = m[hi].size /\ n[hi].cinuse = m[hi].cinuse
  BY HeaderIs DEF Wrote, Retagged
<1> QED
  BY <1>1, <1>2, <1>3, <1>4 DEF Wrote

\* A chunk in use written over one place and its neighbour.
LEMMA WriteInuse ==
  ASSUME NEW m, IsMem(m), NEW lo \in Int, NEW size \in Int, size > 0,
         NEW n, n = set_inuse(m, lo, size) \/ n = set_inuse_and_pinuse(m, lo, size)
  PROVE  /\ Wrote(m, n, lo, lo + size) /\ n[lo].cinuse
         /\ n = set_inuse(m, lo, size) => n[lo].pinuse = pinuse(m, lo)
         /\ n = set_inuse_and_pinuse(m, lo, size) => n[lo].pinuse
         /\ lo + size \in DOMAIN n /\ n[lo + size].pinuse
<1>0. lo + size \in Int /\ lo < lo + size
  OBVIOUS
<1>1. CASE n = set_inuse(m, lo, size)
  <2> DEFINE k == SetHead(m, lo, size, pinuse(m, lo), TRUE)
  <2>1. Headed(m, k, lo, size) /\ k[lo].pinuse = pinuse(m, lo) /\ k[lo].cinuse
    BY ZenonT(60), SetHeadIs
  <2>2. n = mark_pinuse(k, lo + size)
    BY <1>1 DEF set_inuse
  <2> HIDE DEF k
  <2>3. IsMem(k) /\ Wrote(m, k, lo, lo + size)
    BY <2>1, HeadedWrote DEF Headed
  <2>4. Retagged(k, n, lo + size) /\ n[lo + size].pinuse
    BY <1>0, <2>2, <2>3, MarkIs
  <2>5. Wrote(m, n, lo, lo + size) /\ lo + size \in DOMAIN n /\ n[lo] = k[lo]
    BY <1>0, <2>3, <2>4, WroteRetagged
  <2>6. n[lo].cinuse /\ n[lo].pinuse = pinuse(m, lo)
    BY <2>1, <2>5
  <2>7. CASE n = set_inuse_and_pinuse(m, lo, size)
    <3> DEFINE j == SetHead(m, lo, size, TRUE, TRUE)
    <3>1. Headed(m, j, lo, size) /\ j[lo].pinuse
      BY SetHeadIs
    <3>2. n = mark_pinuse(j, lo + size)
      BY <2>7 DEF set_inuse_and_pinuse
    <3> HIDE DEF j
    <3>3. IsMem(j) /\ Wrote(m, j, lo, lo + size)
      BY <3>1, HeadedWrote DEF Headed
    <3>4. Retagged(j, n, lo + size)
      BY <1>0, <3>2, <3>3, MarkIs
    <3>5. n[lo] = j[lo]
      BY <1>0, <3>3, <3>4, WroteRetagged
    <3> QED
      BY <2>4, <2>5, <2>6, <3>1, <3>5
  <2> QED
    BY <2>4, <2>5, <2>6, <2>7
<1>2. CASE n = set_inuse_and_pinuse(m, lo, size) /\ n # set_inuse(m, lo, size)
  <2> DEFINE k == SetHead(m, lo, size, TRUE, TRUE)
  <2>1. Headed(m, k, lo, size) /\ k[lo].pinuse /\ k[lo].cinuse
    BY SetHeadIs
  <2>2. n = mark_pinuse(k, lo + size)
    BY <1>2 DEF set_inuse_and_pinuse
  <2> HIDE DEF k
  <2>3. IsMem(k) /\ Wrote(m, k, lo, lo + size)
    BY <2>1, HeadedWrote DEF Headed
  <2>4. Retagged(k, n, lo + size) /\ n[lo + size].pinuse
    BY <1>0, <2>2, <2>3, MarkIs
  <2>5. Wrote(m, n, lo, lo + size) /\ lo + size \in DOMAIN n /\ n[lo] = k[lo]
    BY <1>0, <2>3, <2>4, WroteRetagged
  <2> QED
    BY <1>2, <2>1, <2>4, <2>5
<1> QED
  BY <1>1, <1>2

\* A free chunk written over one place and its neighbour.
LEMMA WriteFree ==
  ASSUME NEW m, IsMem(m), NEW lo \in Int, NEW size \in Int, size > 0,
         NEW n, \/ n = set_size_and_pinuse_of_free_chunk(m, lo, size) /\ ~ pinuse(m, lo + size)
                \/ n = set_free_with_pinuse(m, lo, size, lo + size)
  PROVE  /\ Wrote(m, n, lo, lo + size) /\ n[lo].pinuse /\ ~ n[lo].cinuse
         /\ lo + size \in DOMAIN n /\ ~ n[lo + size].pinuse /\ n[lo + size].prev_foot = size
<1>0. lo + size \in Int /\ lo < lo + size
  OBVIOUS
<1>1. ASSUME NEW k, IsMem(k), n = set_size_and_pinuse_of_free_chunk(k, lo, size),
             ~ pinuse(k, lo + size), k = m \/ Retagged(m, k, lo + size)
      PROVE  /\ Wrote(m, n, lo, lo + size) /\ n[lo].pinuse /\ ~ n[lo].cinuse
             /\ lo + size \in DOMAIN n /\ ~ n[lo + size].pinuse /\ n[lo + size].prev_foot = size
  <2> DEFINE j == SetHead(k, lo, size, TRUE, FALSE)
  <2>1. Headed(k, j, lo, size) /\ j[lo].pinuse /\ ~ j[lo].cinuse
    BY <1>1, SetHeadIs
  <2>2. n = set_foot(j, lo, size)
    BY <1>1 DEF set_size_and_pinuse_of_free_chunk
  <2> HIDE DEF j
  <2>3. IsMem(j) /\ Wrote(k, j, lo, lo + size)
    BY <1>1, <2>1, HeadedWrote DEF Headed
  <2>4. /\ Retagged(j, n, lo + size)
        /\ n[lo + size].pinuse = pinuse(j, lo + size) /\ n[lo + size].prev_foot = size
    BY <2>2, <2>3, FootIs
  <2>8. IsMem(k) /\ Retagged(j, n, lo + size)
    BY <1>1, <2>4
  <2>5. Wrote(k, n, lo, lo + size) /\ lo + size \in DOMAIN n /\ n[lo] = j[lo]
    BY <1>0, <2>3, <2>8, WroteRetagged
  <2>6. pinuse(j, lo + size) = pinuse(k, lo + size)
    BY <1>0, <2>1 DEF Headed, pinuse, HeaderAt
  <2>7. Wrote(m, n, lo, lo + size)
    <3>1. CASE k = m
      BY <2>5, <3>1
    <3>2. CASE Retagged(m, k, lo + size)
      <4>1. /\ \A y : y # lo + size => (y \in DOMAIN k <=> y \in DOMAIN m)
            /\ \A x \in DOMAIN k : x # lo + size => k[x] = m[x]
            /\ lo + size \in DOMAIN m =>
                 /\ lo + size \in DOMAIN k /\ k[lo + size].size = m[lo + size].size
                 /\ k[lo + size].cinuse = m[lo + size].cinuse
        BY <3>2, HeaderIs DEF Retagged
      <4>2. HeaderAt(k, lo) = HeaderAt(m, lo)
        BY <1>0, <4>1 DEF HeaderAt
      <4> QED
        BY <1>0, <2>5, <4>1, <4>2 DEF Wrote
    <3> QED
      BY <1>1, <3>1, <3>2
  <2> QED
    BY <1>1, <2>1, <2>4, <2>5, <2>6, <2>7
<1>2. CASE n = set_size_and_pinuse_of_free_chunk(m, lo, size) /\ ~ pinuse(m, lo + size)
  BY <1>1, <1>2
<1>3. CASE n = set_free_with_pinuse(m, lo, size, lo + size)
  <2> DEFINE k == clear_pinuse(m, lo + size)
  <2>1. Retagged(m, k, lo + size) /\ ~ k[lo + size].pinuse
    BY <1>0, ClearIs
  <2>2. n = set_size_and_pinuse_of_free_chunk(k, lo, size)
    BY <1>3 DEF set_free_with_pinuse
  <2> HIDE DEF k
  <2>3. IsMem(k) /\ ~ pinuse(k, lo + size)
    BY <2>1 DEF Retagged, pinuse, HeaderAt
  <2> QED
    BY <1>1, <2>1, <2>2, <2>3
<1> QED
  BY <1>2, <1>3

\* One chunk written is a cut, if the tag at its end is true.
LEMMA CutOne ==
  ASSUME NEW m, IsMem(m), NEW n, NEW lo \in Int, NEW hi \in Int, lo < hi, Wrote(m, n, lo, hi),
         hi \in DOMAIN n => hi \in DOMAIN m,
         hi \in DOMAIN m =>
           n[hi].pinuse = n[lo].cinuse /\ (~ n[lo].cinuse => n[hi].prev_foot = n[lo].size)
  PROVE  Cut(m, n, lo, hi, hi)
<1>1. \A a : a \in DOMAIN n <=> a = lo \/ (a \in DOMAIN m /\ (a < lo \/ a >= hi))
  <2>1. hi \in DOMAIN m <=> hi \in DOMAIN n
    BY DEF Wrote
  <2>2. \A a \in DOMAIN m : a \in Int
    BY DEF IsMem
  <2> QED
    BY <2>1, <2>2 DEF Wrote
<1>2. \A a \in DOMAIN m : a < lo \/ a > hi => n[a] = m[a]
  BY <1>1 DEF Wrote, IsMem
<1>3. LastPiece(lo, hi, hi) = lo
  BY DEF LastPiece
<1> QED
  BY <1>1, <1>2, <1>3 DEF Wrote, Cut

\* Two chunks written are one too, from the front to the back and the other way.
LEMMA CutFront ==
  ASSUME NEW m, IsMem(m), NEW k, NEW n, NEW lo \in Int, NEW mid \in Int, NEW hi \in Int,
         lo < mid, mid < hi, Wrote(m, k, lo, mid), Wrote(k, n, mid, hi),
         k[lo].cinuse, n[mid].pinuse,
         hi \in DOMAIN n => hi \in DOMAIN m,
         hi \in DOMAIN m =>
           n[hi].pinuse = n[mid].cinuse /\ (~ n[mid].cinuse => n[hi].prev_foot = n[mid].size)
  PROVE  /\ Cut(m, n, lo, mid, hi)
         /\ n[lo] = k[lo] /\ n[lo].prev_foot = HeaderAt(m, lo).prev_foot
<1>0. \A a \in DOMAIN m : a \in Int
  BY DEF IsMem
<1>1. hi \in DOMAIN m <=> hi \in DOMAIN n
  BY DEF Wrote
<1>2. \A a : a \in DOMAIN n <=> a \in {lo, mid} \/ (a \in DOMAIN m /\ (a < lo \/ a >= hi))
  BY <1>0, <1>1 DEF Wrote
<1>3. n[lo] = k[lo]
  BY <1>2 DEF Wrote
<1>4. \A a \in DOMAIN m : a < lo \/ a > hi => a \in DOMAIN k /\ n[a] = m[a]
  BY <1>0, <1>2 DEF Wrote
<1>5. hi \in DOMAIN m => n[hi].size = m[hi].size /\ n[hi].cinuse = m[hi].cinuse
  BY DEF Wrote
<1>6. LastPiece(lo, mid, hi) = mid
  BY DEF LastPiece
<1>7. n[lo].size = mid - lo /\ n[lo].cinuse /\ n[mid].size = hi - mid
  BY <1>3 DEF Wrote
<1>8. Cut(m, n, lo, mid, hi)
  BY <1>2, <1>4, <1>5, <1>6, <1>7 DEF Cut
<1> QED
  BY <1>3, <1>8 DEF Wrote

\* The last piece of a range is written first, then the one before it.
BackFirst(m, k, n, lo, mid, hi) ==
  /\ IsMem(m) /\ lo < mid /\ mid < hi /\ Wrote(m, k, mid, hi) /\ Wrote(k, n, lo, mid)
  /\ n[lo].cinuse /\ n[mid].pinuse
  /\ hi \in DOMAIN k => hi \in DOMAIN m
  /\ hi \in DOMAIN m =>
       k[hi].pinuse = k[mid].cinuse /\ (~ k[mid].cinuse => k[hi].prev_foot = k[mid].size)

\* Together they are a cut.
LEMMA CutBack ==
  ASSUME NEW m, NEW k, NEW n, NEW lo \in Int, NEW mid \in Int, NEW hi \in Int,
         BackFirst(m, k, n, lo, mid, hi)
  PROVE  /\ Cut(m, n, lo, mid, hi)
         /\ n[mid].cinuse = k[mid].cinuse /\ n[lo].prev_foot = HeaderAt(m, lo).prev_foot
<1> USE DEF BackFirst
<1>0. \A a \in DOMAIN m : a \in Int
  BY DEF IsMem
<1>1. mid \in DOMAIN k /\ mid \in DOMAIN n /\ n[mid].size = hi - mid /\ n[mid].cinuse = k[mid].cinuse
  BY DEF Wrote
<1>2. hi \in DOMAIN n <=> hi \in DOMAIN m
  BY DEF Wrote
<1>3. \A a : a \in DOMAIN n <=> a \in {lo, mid} \/ (a \in DOMAIN m /\ (a < lo \/ a >= hi))
  BY <1>0, <1>1, <1>2 DEF Wrote
<1>4. \A a \in DOMAIN m : a < lo \/ a > hi => a \in DOMAIN k /\ n[a] = m[a]
  BY <1>0, <1>3 DEF Wrote
<1>5. hi \in DOMAIN m => hi \in DOMAIN k /\ n[hi] = k[hi]
  BY <1>2 DEF Wrote
<1>6. hi \in DOMAIN m => n[hi].size = m[hi].size /\ n[hi].cinuse = m[hi].cinuse
  BY <1>5 DEF Wrote
<1>7. LastPiece(lo, mid, hi) = mid
  BY DEF LastPiece
<1>8. n[lo].size = mid - lo /\ k[mid].size = hi - mid
  BY DEF Wrote
<1>9. Cut(m, n, lo, mid, hi)
  BY <1>1, <1>3, <1>4, <1>5, <1>6, <1>7, <1>8 DEF Cut
<1>10. HeaderAt(k, lo) = HeaderAt(m, lo)
  <2>1. lo \in DOMAIN k <=> lo \in DOMAIN m
    BY DEF Wrote
  <2>2. lo \in DOMAIN k => k[lo] = m[lo]
    BY DEF Wrote
  <2> QED
    BY <2>1, <2>2 DEF HeaderAt
<1>11. n[lo].prev_foot = HeaderAt(m, lo).prev_foot
  BY <1>10 DEF Wrote
<1> QED
  BY <1>1, <1>9, <1>11

-----------------------------------------------------------------------------
(* Chunks of a heap and their neighbours                                        *)

UsedOf(m) == {a \in DOMAIN m : m[a].cinuse}

\* What a chunk of a sound heap is.
LEMMA ChunkFacts ==
  ASSUME NEW m, NEW S, NEW t, Heap(m, S, t), NEW a \in DOMAIN m
  PROVE  /\ a \in Int /\ a > 0 /\ End(m, a) \in Int /\ m[a].size \in Int /\ m[a].prev_foot \in Int
         /\ m[a].size > 0 /\ a < End(m, a) /\ End(m, a) = a + m[a].size
         /\ m[a].pinuse \in BOOLEAN /\ m[a].cinuse \in BOOLEAN
         /\ Within(S, a, End(m, a))
         /\ \A b \in DOMAIN m : b <= a \/ b >= End(m, a)
         /\ \A b \in DOMAIN m : b < End(m, a) => End(m, b) <= End(m, a)
         /\ \A b \in DOMAIN m : b < a => End(m, b) <= a
<1>1. IsMem(m) /\ Tiled(m, S, t) /\ Mapped(S)
  BY DEF Heap
<1>2. \A b \in DOMAIN m : b \in Int /\ End(m, b) \in Int /\ m[b].size \in Int
  BY <1>1, MemFacts
<1>3. a < End(m, a) /\ End(m, a) = a + m[a].size /\ Within(S, a, End(m, a))
  BY <1>1 DEF Tiled, End
<1>4. \A b \in DOMAIN m : b < a => End(m, b) <= a
  BY <1>1 DEF Tiled
<1>5. \A b \in DOMAIN m : a < b => End(m, a) <= b
  BY <1>1 DEF Tiled
<1>6. a > 0
  <2>1. PICK s \in S : FirstChunk(s) <= a
    BY <1>3 DEF Within
  <2>2. s \in Segment /\ s.base > 0
    BY <1>1 DEF Mapped
  <2> QED
    BY <1>2, <2>1, <2>2, FirstChunkFacts
<1>7. \A b \in DOMAIN m : b < End(m, a) => End(m, b) <= End(m, a)
  BY <1>2, <1>3, <1>4, <1>5
<1> QED
  BY <1>1, <1>2, <1>3, <1>4, <1>5, <1>6, <1>7, MemFacts

\* NULL is no chunk.
LEMMA NullFree ==
  ASSUME NEW m, NEW S, NEW t, Heap(m, S, t)
  PROVE  NULL \notin DOMAIN m
BY ChunkFacts DEF NULL

\* A free chunk but top has a chunk in use before it and one behind it, which
\* knows its size.
LEMMA FreeFacts ==
  ASSUME NEW m, NEW S, NEW t, Heap(m, S, t), NEW a \in DOMAIN m, ~ m[a].cinuse
  PROVE  /\ m[a].pinuse /\ Aligned(a)
         /\ a # t => /\ End(m, a) \in DOMAIN m /\ m[End(m, a)].cinuse /\ ~ m[End(m, a)].pinuse
                     /\ m[End(m, a)].prev_foot = m[a].size
                     /\ Aligned(m[a].size) /\ m[a].size >= min_chunk_size
                     /\ End(m, a) # t /\ Aligned(End(m, a))
<1>1. Tiled(m, S, t) /\ Tagged(m) /\ Footed(m) /\ Shaped(m, t) /\ (t \in DOMAIN m => ~ m[t].cinuse)
  BY DEF Heap
<1>2. m[a].pinuse
  <2> SUFFICES ASSUME ~ m[a].pinuse PROVE FALSE
    OBVIOUS
  <2>1. PICK b \in DOMAIN m : End(m, b) = a /\ ~ m[b].cinuse
    BY <1>1 DEF Footed
  <2> QED
    BY <1>1, <2>1 DEF Tagged
<1>3. /\ Aligned(a)
      /\ a # t => Aligned(m[a].size) /\ m[a].size >= min_chunk_size
  BY <1>1 DEF Shaped, Fence
<1>4. a # t => End(m, a) \in DOMAIN m
  BY <1>1 DEF Tiled, Fence
<1>5. a # t => /\ m[End(m, a)].cinuse /\ m[End(m, a)].pinuse = m[a].cinuse
               /\ m[End(m, a)].prev_foot = m[a].size
  BY <1>1, <1>4 DEF Tagged
<1>6. a # t => End(m, a) # t
  BY <1>1, <1>4, <1>5
<1>7. a # t => Aligned(End(m, a))
  <2>1. PICK s \in Int : s = m[a].size
    BY ChunkFacts
  <2>2. a \in Int /\ End(m, a) = a + s
    BY <2>1, ChunkFacts
  <2>3. a # t => Aligned(a) /\ Aligned(s)
    BY <1>3, <2>1
  <2> QED
    BY <2>1, <2>2, <2>3, AlignedSum
<1> QED
  BY <1>2, <1>3, <1>4, <1>5, <1>6, <1>7

\* A chunk in use that is no fencepost has a chunk behind it.
LEMMA UsedFacts ==
  ASSUME NEW m, NEW S, NEW t, Heap(m, S, t), NEW a \in DOMAIN m, m[a].cinuse, ~ Fence(m, a)
  PROVE  /\ a # t /\ Aligned(a)
         /\ End(m, a) \in DOMAIN m /\ m[End(m, a)].pinuse
         /\ Aligned(m[a].size) /\ m[a].size >= min_chunk_size
         /\ Aligned(End(m, a))
<1>1. Tiled(m, S, t) /\ Tagged(m) /\ Shaped(m, t) /\ (t \in DOMAIN m => ~ m[t].cinuse)
  BY DEF Heap
<1>2. a # t
  BY <1>1
<1>3. End(m, a) \in DOMAIN m
  BY <1>1, <1>2 DEF Tiled
<1>4. m[End(m, a)].pinuse
  BY <1>1, <1>3, ChunkFacts DEF Tagged
<1>5. /\ Aligned(a)
      /\ Aligned(m[a].size) /\ m[a].size >= min_chunk_size
  BY <1>1, <1>2 DEF Shaped
<1>6. Aligned(End(m, a))
  <2>1. PICK s \in Int : s = m[a].size
    BY ChunkFacts
  <2>2. a \in Int /\ End(m, a) = a + s
    BY <2>1, ChunkFacts
  <2>3. Aligned(a) /\ Aligned(s)
    BY <1>5, <2>1
  <2> QED
    BY <2>1, <2>2, <2>3, AlignedSum
<1> QED
  BY <1>2, <1>3, <1>4, <1>5, <1>6

\* prev_foot leads to the free chunk before.
LEMMA BeforeFacts ==
  ASSUME NEW m, NEW S, NEW t, Heap(m, S, t), NEW p \in DOMAIN m, ~ m[p].pinuse
  PROVE  LET q == p - m[p].prev_foot
         IN  q \in DOMAIN m /\ ~ m[q].cinuse /\ End(m, q) = p /\ q < p /\ m[p].cinuse
<1>1. Tagged(m) /\ Footed(m)
  BY DEF Heap
<1>2. PICK b \in DOMAIN m : End(m, b) = p /\ ~ m[b].cinuse
  BY <1>1 DEF Footed
<1>3. m[p].prev_foot = m[b].size /\ m[p].cinuse
  BY <1>1, <1>2 DEF Tagged
<1>4. p = b + m[b].size /\ b \in Int /\ m[b].size \in Int /\ b < p
  BY <1>2, ChunkFacts
<1>5. b = p - m[p].prev_foot
  BY <1>3, <1>4
<1> QED
  BY <1>2, <1>3, <1>4, <1>5

\* What a cut does to the free chunks and to those in use.
LEMMA CutSets ==
  ASSUME NEW m, IsMem(m), NEW n, IsMem(n), NEW lo \in Int, NEW mid \in Int, NEW hi \in Int,
         lo < mid, mid <= hi, Cut(m, n, lo, mid, hi)
  PROVE  /\ \A a : a \in FreeOf(n) <=>
              \/ a \in FreeOf(m) /\ (a < lo \/ a >= hi)
              \/ a \in {lo, LastPiece(lo, mid, hi)} /\ ~ n[a].cinuse
         /\ \A a : a \in UsedOf(n) <=>
              \/ a \in UsedOf(m) /\ (a < lo \/ a >= hi)
              \/ a \in {lo, LastPiece(lo, mid, hi)} /\ n[a].cinuse
         /\ \A a \in DOMAIN m : a < lo \/ a >= hi =>
              a \in DOMAIN n /\ n[a].size = m[a].size /\ n[a].cinuse = m[a].cinuse
<1>1. \A a \in DOMAIN m : a \in Int /\ m[a].cinuse \in BOOLEAN
  BY MemFacts
<1>2. \A a \in DOMAIN n : a \in Int /\ n[a].cinuse \in BOOLEAN
  BY MemFacts
<1>3. \A a : a \in DOMAIN n <=>
        a \in {lo, LastPiece(lo, mid, hi)} \/ (a \in DOMAIN m /\ (a < lo \/ a >= hi))
  BY DEF Cut
<1>4. \A a \in DOMAIN m : a < lo \/ a >= hi =>
        a \in DOMAIN n /\ n[a].size = m[a].size /\ n[a].cinuse = m[a].cinuse
  BY <1>1, <1>3 DEF Cut
<1>5. lo < hi /\ LastPiece(lo, mid, hi) \in Int /\ LastPiece(lo, mid, hi) >= lo
      /\ LastPiece(lo, mid, hi) < hi
  BY DEF LastPiece
<1> QED
  BY <1>1, <1>2, <1>3, <1>4, <1>5 DEF FreeOf, UsedOf

-----------------------------------------------------------------------------
(* A heap, its free chunks where they belong, and top at the end of a segment   *)
(* that ends at e: chunks B in the bins, designated victim v, top chunk t.      *)

Sound(m, S, e, B, v, vs, t, ts) ==
  /\ Heap(m, S, t) /\ Binned(m, B, v, t)
  /\ vs = HeaderAt(m, v).size /\ ts = HeaderAt(m, t).size
  /\ t # NULL => End(m, t) + top_foot_size = e /\ \A a \in DOMAIN m : a <= t \/ a >= e

\* A sound heap is a heap.
LEMMA SoundHeap ==
  ASSUME NEW m, NEW S, NEW e, NEW B, NEW v, NEW vs, NEW t, NEW ts,
         Sound(m, S, e, B, v, vs, t, ts)
  PROVE  Heap(m, S, t) /\ IsMem(m) /\ Mapped(S) /\ t \in Int /\ v \in Int /\ NULL \notin DOMAIN m
<1>1. Heap(m, S, t) /\ IsMem(m) /\ Mapped(S)
  BY DEF Sound, Heap
<1>2. (v = NULL \/ v \in DOMAIN m) /\ (t = NULL \/ t \in DOMAIN m)
  BY DEF Sound, Binned, FreeOf
<1>3. t \in Int /\ v \in Int
  BY <1>1, <1>2, MemFacts DEF NULL
<1> QED
  BY <1>1, <1>3, NullFree

\* A chunk in a bin is free, and neither the designated victim nor top.
LEMMA BinFacts ==
  ASSUME NEW m, NEW S, NEW e, NEW B, NEW v, NEW vs, NEW t, NEW ts,
         Sound(m, S, e, B, v, vs, t, ts), NEW b \in B
  PROVE  b \in DOMAIN m /\ ~ m[b].cinuse /\ b # t /\ b # v
BY DEF Sound, Binned, FreeOf

\* What the designated victim is.
LEMMA VictimFacts ==
  ASSUME NEW m, NEW S, NEW e, NEW B, NEW v, NEW vs, NEW t, NEW ts,
         Sound(m, S, e, B, v, vs, t, ts)
  PROVE  /\ v # NULL => v \in DOMAIN m /\ ~ m[v].cinuse /\ v # t /\ vs = m[v].size
         /\ v = NULL => vs = 0
<1>1. v # NULL => v \in DOMAIN m /\ ~ m[v].cinuse /\ v # t
  BY DEF Sound, Binned, FreeOf
<1>2. vs = HeaderAt(m, v).size
  BY DEF Sound
<1> QED
  BY <1>1, <1>2, SoundHeap, HeaderIs, NoHeader

\* What the top chunk is.
LEMMA TopFacts ==
  ASSUME NEW m, NEW S, NEW e \in Int, NEW B, NEW v, NEW vs, NEW t, NEW ts,
         Sound(m, S, e, B, v, vs, t, ts)
  PROVE  /\ t # NULL => /\ t \in DOMAIN m /\ ~ m[t].cinuse /\ ts = m[t].size
                        /\ End(m, t) \notin DOMAIN m /\ Aligned(t)
                        /\ End(m, t) + top_foot_size = e
                        /\ \A a \in DOMAIN m : a <= t \/ a >= e
         /\ t = NULL => ts = 0
<1>1. /\ ts = HeaderAt(m, t).size
      /\ t # NULL => End(m, t) + top_foot_size = e /\ \A a \in DOMAIN m : a <= t \/ a >= e
  BY DEF Sound
<1>2. t # NULL => t \in DOMAIN m /\ ~ m[t].cinuse
  BY DEF Sound, Binned, FreeOf
<1>3. t = NULL => ts = 0
  BY <1>1, SoundHeap, NoHeader
<1>4. t # NULL => ts = m[t].size
  BY <1>1, <1>2, HeaderIs
<1>5. ASSUME t # NULL PROVE End(m, t) \notin DOMAIN m /\ Aligned(t)
  <2>0. Heap(m, S, t)
    BY SoundHeap
  <2>1. t < End(m, t) /\ t \in Int /\ End(m, t) \in Int
    BY <1>2, <1>5, <2>0, ChunkFacts
  <2>2. End(m, t) \notin DOMAIN m
    BY <1>1, <1>5, <2>1, Constants
  <2>3. Aligned(t)
    BY <1>2, <1>5, <2>0, FreeFacts
  <2> QED
    BY <2>2, <2>3
<1> QED
  BY <1>1, <1>2, <1>3, <1>4, <1>5

\* A free chunk is in a bin, the designated victim or top.
LEMMA FreePlaces ==
  ASSUME NEW m, NEW S, NEW e, NEW B, NEW v, NEW vs, NEW t, NEW ts,
         Sound(m, S, e, B, v, vs, t, ts), NEW a \in DOMAIN m, ~ m[a].cinuse
  PROVE  a \in B \/ a = v \/ a = t
BY DEF Sound, Binned, FreeOf

\* Two ranges that meet make one.
LEMMA WithinJoin ==
  ASSUME NEW S, Mapped(S), NEW a \in Int, NEW b \in Int, NEW c \in Int, a < b, b < c,
         Within(S, a, b), Within(S, b, c)
  PROVE  Within(S, a, c)
<1>1. PICK s \in S : FirstChunk(s) <= a /\ b < segment_top(s)
  BY DEF Within
<1>2. PICK r \in S : FirstChunk(r) <= b /\ c < segment_top(r)
  BY DEF Within
<1>3. r \in Segment /\ s \in Segment
  BY DEF Mapped
<1>4. CASE r = s
  BY <1>1, <1>2, <1>4 DEF Within
<1>5. CASE r # s
  BY <1>1, <1>2, <1>3, <1>5, FirstChunkFacts DEF Mapped
<1> QED
  BY <1>4, <1>5

\* What lies outside a cut is as it was.
LEMMA OutsideCut ==
  ASSUME NEW m, IsMem(m), NEW n, IsMem(n), NEW lo \in Int, NEW mid \in Int, NEW hi \in Int,
         lo < mid, mid <= hi, Cut(m, n, lo, mid, hi), NEW x \in Int, x < lo \/ x >= hi
  PROVE  HeaderAt(n, x).size = HeaderAt(m, x).size
<1>1. x \in DOMAIN n <=> x \in DOMAIN m
  BY DEF Cut, LastPiece
<1>2. CASE x \in DOMAIN m
  BY <1>1, <1>2, CutSets, HeaderIs
<1>3. CASE x \notin DOMAIN m
  BY <1>1, <1>3, NoHeader
<1> QED
  BY <1>2, <1>3

\* A cut of the chunks between two others that leaves top alone.
InnerCut(m, n, S, t, lo, mid, hi) ==
  /\ IsMem(n) /\ lo \in DOMAIN m /\ hi \in DOMAIN m /\ lo < mid /\ mid <= hi
  /\ Within(S, lo, hi) /\ (t < lo \/ t >= hi) /\ Cut(m, n, lo, mid, hi)
  /\ n[lo].pinuse = m[lo].pinuse /\ n[lo].prev_foot = m[lo].prev_foot
  /\ ~ n[lo].cinuse => n[lo].pinuse
  /\ n[LastPiece(lo, mid, hi)].cinuse \/ m[hi].cinuse
  /\ Aligned(lo) /\ Aligned(mid) /\ mid - lo >= min_chunk_size
  /\ mid # hi => Aligned(hi) /\ hi - mid >= min_chunk_size

\* A cut that leaves the marks of the chunk after it alone.
LEMMA InnerCutHeap ==
  ASSUME NEW m, NEW n, NEW S, NEW e \in Int, NEW B, NEW v, NEW vs, NEW t, NEW ts,
         Sound(m, S, e, B, v, vs, t, ts),
         NEW lo \in Int, NEW mid \in Int, NEW hi \in Int, InnerCut(m, n, S, t, lo, mid, hi)
  PROVE  /\ Heap(n, S, t) /\ ts = HeaderAt(n, t).size
         /\ t # NULL => End(n, t) + top_foot_size = e /\ \A a \in DOMAIN n : a <= t \/ a >= e
         /\ \A x \in Int : x < lo \/ x >= hi => HeaderAt(n, x).size = HeaderAt(m, x).size
<1>1. Heap(m, S, t) /\ IsMem(m) /\ t \in Int
  BY SoundHeap
<1>0. /\ IsMem(n) /\ lo \in DOMAIN m /\ hi \in DOMAIN m /\ lo < mid /\ mid <= hi
      /\ Within(S, lo, hi) /\ (t < lo \/ t >= hi) /\ Cut(m, n, lo, mid, hi)
  BY DEF InnerCut
<1>10. /\ n[lo].pinuse = m[lo].pinuse /\ n[lo].prev_foot = m[lo].prev_foot
       /\ ~ n[lo].cinuse => n[lo].pinuse
       /\ n[LastPiece(lo, mid, hi)].cinuse \/ m[hi].cinuse
  BY DEF InnerCut
<1>11. /\ Aligned(lo) /\ Aligned(mid) /\ mid - lo >= min_chunk_size
       /\ mid # hi => Aligned(hi) /\ hi - mid >= min_chunk_size
  BY DEF InnerCut
<1>2. \A a \in DOMAIN m : a < hi => End(m, a) <= hi
  BY <1>0, <1>1, ChunkFacts
<1>3. /\ mid # hi => Aligned(hi - mid)
      /\ Aligned(mid - lo)
  BY <1>0, <1>2, <1>11, AlignedSum
<1>4. HeapBut(m, S, t, lo) /\ Rooted(m, S)
  BY <1>1 DEF Heap, HeapBut, Rooted, RootedBut
<1>5. \A x \in Int : x < lo \/ x >= hi => HeaderAt(n, x).size = HeaderAt(m, x).size
  BY <1>0, <1>1, <1>2, OutsideCut
<1>6. t \in DOMAIN n => ~ n[t].cinuse
  <2>1. t \in DOMAIN n => t \in DOMAIN m
    BY <1>0, <1>1, <1>2 DEF Cut, LastPiece
  <2>2. t \in DOMAIN m => n[t].cinuse = m[t].cinuse
    BY <1>0, <1>1, <1>2, CutSets
  <2> QED
    BY <1>1, <2>1, <2>2 DEF Heap
<1>7. Heap(n, S, t)
  BY <1>0, <1>1, <1>2, <1>3, <1>4, <1>6, <1>10, <1>11, CutHeap
<1>8. ts = HeaderAt(n, t).size
  BY <1>0, <1>1, <1>5 DEF Sound
<1>9. ASSUME t # NULL
      PROVE  End(n, t) + top_foot_size = e /\ \A a \in DOMAIN n : a <= t \/ a >= e
  <2>1. t \in DOMAIN m /\ End(m, t) + top_foot_size = e /\ \A a \in DOMAIN m : a <= t \/ a >= e
    BY <1>9, TopFacts
  <2>2. End(n, t) = End(m, t)
    BY <1>0, <1>1, <1>2, <2>1, CutSets DEF End
  <2>3. \A a \in DOMAIN n : a \in DOMAIN m \/ a = mid
    BY <1>0 DEF Cut, LastPiece
  <2>4. mid # hi => mid <= t \/ mid >= e
    BY <1>0, <1>1, <1>2, <2>1
  <2> QED
    BY <1>0, <2>1, <2>2, <2>3, <2>4
<1> QED
  BY <1>5, <1>7, <1>8, <1>9

\* A free chunk but top is handed out whole.
LEMMA TakenWhole ==
  ASSUME NEW m, NEW S, NEW e \in Int, NEW B, NEW v, NEW vs, NEW t, NEW ts,
         Sound(m, S, e, B, v, vs, t, ts), NEW p \in DOMAIN m, ~ m[p].cinuse, p # t,
         NEW n, n = set_inuse_and_pinuse(m, p, m[p].size)
  PROVE  /\ Heap(n, S, t) /\ ts = HeaderAt(n, t).size
         /\ t # NULL => End(n, t) + top_foot_size = e /\ \A a \in DOMAIN n : a <= t \/ a >= e
         /\ \A a : a \in FreeOf(n) <=> a \in FreeOf(m) /\ a # p
         /\ \A a : a \in UsedOf(n) <=> a \in UsedOf(m) \/ a = p
         /\ \A a \in DOMAIN m : a \in DOMAIN n /\ n[a].size = m[a].size
         /\ \A x \in Int : HeaderAt(n, x).size = HeaderAt(m, x).size
<1> DEFINE hi == End(m, p)
<1>1. Heap(m, S, t) /\ IsMem(m) /\ t \in Int
  BY SoundHeap
<1>2. /\ p \in Int /\ hi \in Int /\ p < hi /\ hi = p + m[p].size /\ Within(S, p, hi)
      /\ m[p].size \in Int /\ m[p].size > 0
      /\ \A a \in DOMAIN m : a \in Int /\ (a <= p \/ a >= hi)
  BY <1>1, ChunkFacts
<1>3. /\ m[p].pinuse /\ Aligned(p) /\ hi \in DOMAIN m /\ Aligned(hi)
      /\ m[p].size >= min_chunk_size
  BY <1>1, FreeFacts
<1>4. /\ Wrote(m, n, p, hi) /\ n[p].cinuse /\ n[p].pinuse /\ hi \in DOMAIN n /\ n[hi].pinuse
  BY <1>1, <1>2, WriteInuse
<1>5. IsMem(n) /\ Cut(m, n, p, hi, hi) /\ n[p].prev_foot = m[p].prev_foot /\ n[p].size = m[p].size
  <2>1. n[hi].pinuse = n[p].cinuse
    BY <1>2, <1>4, MemFacts DEF Wrote
  <2>2. Cut(m, n, p, hi, hi)
    BY <1>1, <1>2, <1>3, <1>4, <2>1, CutOne
  <2> QED
    BY <1>2, <1>4, <2>2, HeaderIs DEF Wrote
<1>6. LastPiece(p, hi, hi) = p
  BY DEF LastPiece
<1>7. n[p].pinuse = m[p].pinuse
  BY <1>1, <1>3, <1>4, <1>5, MemFacts DEF Wrote
<1>8. t < p \/ t >= hi
  <2>1. CASE t \in DOMAIN m
    BY <1>2, <2>1
  <2>2. CASE t \notin DOMAIN m
    BY <1>1, <1>2, <2>2, TopFacts, ChunkFacts DEF NULL
  <2> QED
    BY <2>1, <2>2
<1> HIDE DEF hi
<1>9. /\ Heap(n, S, t) /\ ts = HeaderAt(n, t).size
      /\ t # NULL => End(n, t) + top_foot_size = e /\ \A a \in DOMAIN n : a <= t \/ a >= e
      /\ \A x \in Int : x < p \/ x >= hi => HeaderAt(n, x).size = HeaderAt(m, x).size
  <2>1. InnerCut(m, n, S, t, p, hi, hi)
    BY <1>2, <1>3, <1>4, <1>5, <1>6, <1>7, <1>8 DEF InnerCut
  <2>2. p \in Int /\ hi \in Int
    BY <1>2
  <2> QED
    BY <2>1, <2>2, InnerCutHeap
<1>10. /\ \A a : a \in FreeOf(n) <=> a \in FreeOf(m) /\ (a < p \/ a >= hi)
       /\ \A a : a \in UsedOf(n) <=> (a \in UsedOf(m) /\ (a < p \/ a >= hi)) \/ a = p
       /\ \A a \in DOMAIN m : a < p \/ a >= hi => a \in DOMAIN n /\ n[a].size = m[a].size
  BY <1>1, <1>2, <1>4, <1>5, <1>6, CutSets
<1>11. \A a : a \in FreeOf(n) <=> a \in FreeOf(m) /\ a # p
  BY <1>2, <1>10 DEF FreeOf
<1>12. \A a : a \in UsedOf(n) <=> a \in UsedOf(m) \/ a = p
  BY <1>2, <1>10 DEF UsedOf
<1>13. \A a \in DOMAIN m : a \in DOMAIN n /\ n[a].size = m[a].size
  BY <1>2, <1>4, <1>5, <1>10 DEF Wrote
<1>14. \A x \in Int : HeaderAt(n, x).size = HeaderAt(m, x).size
  <2> SUFFICES ASSUME NEW x \in Int, x > p, x < hi
               PROVE  HeaderAt(n, x).size = HeaderAt(m, x).size
    BY <1>2, <1>4, <1>5, <1>9, HeaderIs DEF Wrote
  <2>1. x \notin DOMAIN m /\ x \notin DOMAIN n
    BY <1>2, <1>5, <1>6 DEF Cut
  <2> QED
    BY <2>1, NoHeader
<1> QED
  BY <1>9, <1>11, <1>12, <1>13, <1>14

\* Where top lies if a range of other chunks is cut.
LEMMA TopApart ==
  ASSUME NEW m, NEW S, NEW e \in Int, NEW B, NEW v, NEW vs, NEW t, NEW ts,
         Sound(m, S, e, B, v, vs, t, ts), NEW lo \in Int, lo > 0, NEW hi \in Int,
         t \notin DOMAIN m \/ t < lo \/ t >= hi
  PROVE  t < lo \/ t >= hi
<1>1. (t = NULL \/ t \in DOMAIN m) /\ t \in Int
  BY SoundHeap, TopFacts
<1> QED
  BY <1>1 DEF NULL

\* The front of a free chunk but top is handed out.
LEMMA TakenFront ==
  ASSUME NEW m, NEW S, NEW e \in Int, NEW B, NEW v, NEW vs, NEW t, NEW ts,
         Sound(m, S, e, B, v, vs, t, ts), NEW p \in DOMAIN m, ~ m[p].cinuse, p # t,
         NEW want \in Int, Aligned(want), want >= min_chunk_size,
         NEW rest \in Int, rest = m[p].size - want, rest >= min_chunk_size,
         NEW r \in Int, r = p + want,
         NEW n, \/ n = set_size_and_pinuse_of_free_chunk(
                         set_size_and_pinuse_of_inuse_chunk(m, p, want), r, rest)
                \/ n = set_size_and_pinuse_of_inuse_chunk(
                         set_size_and_pinuse_of_free_chunk(m, r, rest), p, want)
  PROVE  /\ Heap(n, S, t) /\ ts = HeaderAt(n, t).size
         /\ t # NULL => End(n, t) + top_foot_size = e /\ \A a \in DOMAIN n : a <= t \/ a >= e
         /\ \A a : a \in FreeOf(n) <=> (a \in FreeOf(m) /\ a # p) \/ a = r
         /\ \A a : a \in UsedOf(n) <=> a \in UsedOf(m) \/ a = p
         /\ \A a \in DOMAIN m : a # p => a \in DOMAIN n /\ n[a].size = m[a].size
         /\ n[p].size = want /\ r \in DOMAIN n /\ n[r].size = rest /\ r \notin DOMAIN m
         /\ \A x \in Int : x < p \/ x >= End(m, p) => HeaderAt(n, x).size = HeaderAt(m, x).size
<1> DEFINE hi == End(m, p)
<1>1. Heap(m, S, t) /\ IsMem(m) /\ t \in Int
  BY SoundHeap
<1>2. p \in Int /\ hi \in Int /\ p > 0
  BY <1>1, ChunkFacts
<1>3. /\ p < hi /\ hi = p + m[p].size /\ Within(S, p, hi) /\ m[p].size \in Int
      /\ \A a \in DOMAIN m : a \in Int /\ (a <= p \/ a >= hi)
  BY <1>1, ChunkFacts
<1>4. /\ m[p].pinuse /\ hi \in DOMAIN m /\ ~ m[hi].pinuse /\ m[hi].cinuse
  BY <1>1, FreeFacts
<1>0. /\ Aligned(p) /\ Aligned(hi) /\ Aligned(r)
  <2>1. Aligned(p) /\ Aligned(hi)
    BY <1>1, FreeFacts
  <2>2. Aligned(r)
    BY <1>2, <2>1, AlignedSum
  <2> QED
    BY <2>1, <2>2
<1>5. p < r /\ r < hi /\ hi = r + rest /\ want > 0 /\ rest > 0
  BY <1>2, <1>3, Constants
<1>6. hi \notin {p, r} /\ p # r /\ r \notin DOMAIN m
  BY <1>2, <1>3, <1>5
<1>19. hi - r >= min_chunk_size /\ r - p >= min_chunk_size
  BY <1>2, <1>5
<1> HIDE DEF hi
<1>7. /\ IsMem(n) /\ Cut(m, n, p, r, hi) /\ n[p].cinuse /\ n[p].pinuse
      /\ n[p].prev_foot = m[p].prev_foot /\ ~ n[r].cinuse
  <2>1. CASE n = set_size_and_pinuse_of_free_chunk(
                   set_size_and_pinuse_of_inuse_chunk(m, p, want), r, rest)
    <3> DEFINE k == set_size_and_pinuse_of_inuse_chunk(m, p, want)
    <3>1. Wrote(m, k, p, r) /\ k[p].pinuse /\ k[p].cinuse
      BY <1>1, <1>2, <1>5, WriteHead
    <3>2. n = set_size_and_pinuse_of_free_chunk(k, r, rest)
      BY <2>1
    <3> HIDE DEF k
    <3>4. IsMem(k) /\ ~ pinuse(k, hi)
      BY <1>4, <1>6, <3>1, HeaderIs, NoHeader DEF Wrote
    <3>5. ~ pinuse(k, r + rest)
      BY <1>5, <3>4
    <3>6. /\ Wrote(k, n, r, hi) /\ n[r].pinuse /\ ~ n[r].cinuse
          /\ hi \in DOMAIN n /\ ~ n[hi].pinuse /\ n[hi].prev_foot = rest
      BY <1>5, <3>2, <3>4, <3>5, WriteFree
    <3>7. n[r].size = rest /\ n[hi].pinuse = n[r].cinuse /\ IsMem(n)
      BY <1>4, <1>5, <3>6, MemFacts DEF Wrote
    <3>8. /\ Cut(m, n, p, r, hi) /\ n[p] = k[p] /\ n[p].prev_foot = HeaderAt(m, p).prev_foot
      <4>1. /\ p < r /\ r < hi /\ k[p].cinuse /\ n[r].pinuse /\ hi \in DOMAIN m
            /\ n[hi].pinuse = n[r].cinuse /\ n[hi].prev_foot = n[r].size
        BY <1>4, <1>5, <3>1, <3>6, <3>7
      <4> QED
        BY <1>1, <1>2, <3>1, <3>6, <4>1, CutFront
    <3> QED
      BY <3>1, <3>6, <3>7, <3>8, HeaderIs
  <2>2. CASE n = set_size_and_pinuse_of_inuse_chunk(
                   set_size_and_pinuse_of_free_chunk(m, r, rest), p, want)
    <3> DEFINE k == set_size_and_pinuse_of_free_chunk(m, r, rest)
    <3>1. ~ pinuse(m, r + rest)
      BY <1>4, <1>5, HeaderIs
    <3>2. /\ Wrote(m, k, r, hi) /\ k[r].pinuse /\ ~ k[r].cinuse
          /\ hi \in DOMAIN k /\ ~ k[hi].pinuse /\ k[hi].prev_foot = rest
      BY <1>1, <1>5, <3>1, WriteFree
    <3>3. n = set_size_and_pinuse_of_inuse_chunk(k, p, want)
      BY <2>2
    <3> HIDE DEF k
    <3>4. IsMem(k) /\ k[r].size = rest /\ r \in DOMAIN k
      BY <1>5, <3>2 DEF Wrote
    <3>5. /\ Wrote(k, n, p, r) /\ n[p].pinuse /\ n[p].cinuse
      BY <1>2, <1>5, <3>3, <3>4, WriteHead
    <3>6. n[r] = k[r] /\ IsMem(n)
      <4>0. Headed(k, n, p, want)
        BY <1>2, <3>3, <3>4, SetHeadIs DEF set_size_and_pinuse_of_inuse_chunk
      <4>1. r \in DOMAIN n => n[r] = k[r]
        BY <1>6, <4>0 DEF Headed
      <4> QED
        BY <3>4, <3>5, <4>1 DEF Wrote
    <3>7. k[hi].pinuse = k[r].cinuse
      BY <3>2, <3>4, MemFacts
    <3>8. /\ Cut(m, n, p, r, hi) /\ n[p].prev_foot = HeaderAt(m, p).prev_foot
      <4>1. /\ p < r /\ r < hi /\ n[p].cinuse /\ n[r].pinuse /\ hi \in DOMAIN m
            /\ k[hi].pinuse = k[r].cinuse /\ k[hi].prev_foot = k[r].size
        BY <1>4, <1>5, <3>2, <3>4, <3>5, <3>6, <3>7
      <4> QED
        <5>1. BackFirst(m, k, n, p, r, hi) /\ p \in Int /\ r \in Int /\ hi \in Int
          BY <1>1, <1>2, <3>2, <3>5, <4>1 DEF BackFirst
        <5> QED
          BY <5>1, CutBack
    <3> QED
      BY <3>2, <3>5, <3>6, <3>8, HeaderIs
  <2> QED
    BY <2>1, <2>2
<1>8. LastPiece(p, r, hi) = r
  BY <1>5 DEF LastPiece
<1>9. n[p].pinuse = m[p].pinuse
  BY <1>1, <1>4, <1>7, MemFacts DEF Cut
<1>10. t < p \/ t >= hi
  BY <1>2, <1>3, TopApart
<1>11. InnerCut(m, n, S, t, p, r, hi)
  BY <1>0, <1>3, <1>4, <1>5, <1>7, <1>8, <1>9, <1>10, <1>19 DEF InnerCut
<1>12. /\ Heap(n, S, t) /\ ts = HeaderAt(n, t).size
       /\ t # NULL => End(n, t) + top_foot_size = e /\ \A a \in DOMAIN n : a <= t \/ a >= e
       /\ \A x \in Int : x < p \/ x >= hi => HeaderAt(n, x).size = HeaderAt(m, x).size
  BY <1>2, <1>11, InnerCutHeap
<1>13. p < r /\ r <= hi /\ IsMem(n) /\ Cut(m, n, p, r, hi)
  BY <1>2, <1>5, <1>7
<1>14. /\ \A a : a \in FreeOf(n) <=>
            (a \in FreeOf(m) /\ (a < p \/ a >= hi)) \/ (a \in {p, r} /\ ~ n[a].cinuse)
       /\ \A a : a \in UsedOf(n) <=>
            (a \in UsedOf(m) /\ (a < p \/ a >= hi)) \/ (a \in {p, r} /\ n[a].cinuse)
       /\ \A a \in DOMAIN m : a < p \/ a >= hi => a \in DOMAIN n /\ n[a].size = m[a].size
  BY <1>1, <1>2, <1>8, <1>13, CutSets
<1>15. /\ n[p].size = want /\ r \in DOMAIN n /\ n[r].size = rest
  BY <1>2, <1>5, <1>7, <1>8 DEF Cut
<1>16. \A a : a \in FreeOf(n) <=> (a \in FreeOf(m) /\ a # p) \/ a = r
  BY <1>2, <1>3, <1>7, <1>14 DEF FreeOf
<1>17. \A a : a \in UsedOf(n) <=> a \in UsedOf(m) \/ a = p
  BY <1>2, <1>3, <1>7, <1>14 DEF UsedOf
<1>18. \A a \in DOMAIN m : a # p => a \in DOMAIN n /\ n[a].size = m[a].size
  BY <1>2, <1>3, <1>14
<1> QED
  BY <1>6, <1>12, <1>15, <1>16, <1>17, <1>18 DEF hi

-----------------------------------------------------------------------------
(* A chunk in use, with a free one behind it or not, is cut anew                *)

\* [p, hi) is chunk p, in use, or that and the free chunk q behind it; in n it
\* is a chunk in use up to mid, and what there is behind that.
Recutting(m, n, t, p, q, mid, hi) ==
  /\ p \in DOMAIN m /\ m[p].cinuse /\ ~ Fence(m, p) /\ q \in DOMAIN m /\ hi = End(m, q)
  /\ q = p \/ (q = End(m, p) /\ ~ m[q].cinuse /\ q # t)
  /\ p < mid /\ mid <= hi /\ Aligned(mid) /\ mid - p >= min_chunk_size
  /\ mid # hi => hi - mid >= min_chunk_size
  /\ IsMem(n) /\ Cut(m, n, p, mid, hi)
  /\ n[p].cinuse /\ n[p].pinuse = m[p].pinuse /\ n[p].prev_foot = m[p].prev_foot
  /\ mid # hi /\ ~ n[mid].cinuse => q # p

\* The ranges such a cut covers.
LEMMA RecutRange ==
  ASSUME NEW m, NEW S, NEW e \in Int, NEW B, NEW v, NEW vs, NEW t, NEW ts,
         Sound(m, S, e, B, v, vs, t, ts),
         NEW p \in DOMAIN m, m[p].cinuse, ~ Fence(m, p),
         NEW q \in DOMAIN m, q = p \/ (q = End(m, p) /\ ~ m[q].cinuse /\ q # t)
  PROVE  /\ p \in Int /\ q \in Int /\ End(m, q) \in Int /\ p > 0 /\ p < End(m, q)
         /\ End(m, q) \in DOMAIN m /\ Aligned(p) /\ Aligned(End(m, q))
         /\ Within(S, p, End(m, q)) /\ (t < p \/ t >= End(m, q))
         /\ \A a \in DOMAIN m : a < p \/ a >= End(m, q) <=> a # p /\ a # q
         /\ q # p => m[End(m, q)].cinuse /\ p < q /\ End(m, q) = p + m[p].size + m[q].size
         /\ q = p => End(m, q) = p + m[p].size
<1>1. Heap(m, S, t) /\ IsMem(m) /\ t \in Int /\ Mapped(S)
  BY SoundHeap
<1>2. p \in Int /\ p > 0 /\ End(m, p) \in Int /\ p < End(m, p) /\ End(m, p) = p + m[p].size
      /\ Within(S, p, End(m, p)) /\ m[p].size \in Int
      /\ \A b \in DOMAIN m : b <= p \/ b >= End(m, p)
  BY <1>1, ChunkFacts
<1>3. p # t /\ Aligned(p) /\ End(m, p) \in DOMAIN m /\ Aligned(End(m, p))
  BY <1>1, UsedFacts
<1>4. \A a \in DOMAIN m : a \in Int
  BY <1>1 DEF IsMem
<1>5. CASE q = p
  <2>1. \A a \in DOMAIN m : a < p \/ a >= End(m, p) <=> a # p
    BY <1>2, <1>4
  <2>2. t < p \/ t >= End(m, p)
    BY <1>2, <1>3, <2>1, TopApart
  <2> QED
    BY <1>2, <1>3, <1>5, <2>1, <2>2
<1>6. CASE q # p
  <2>1. q = End(m, p) /\ ~ m[q].cinuse /\ q # t
    BY <1>6
  <2>2. /\ End(m, q) \in Int /\ q < End(m, q) /\ End(m, q) = q + m[q].size /\ m[q].size \in Int
        /\ Within(S, q, End(m, q)) /\ \A b \in DOMAIN m : b <= q \/ b >= End(m, q)
    BY <1>1, ChunkFacts
  <2>3. End(m, q) \in DOMAIN m /\ m[End(m, q)].cinuse /\ Aligned(End(m, q))
    BY <1>1, <2>1, FreeFacts
  <2>4. Within(S, p, End(m, q))
    BY <1>1, <1>2, <2>1, <2>2, WithinJoin
  <2>5. \A a \in DOMAIN m : a < p \/ a >= End(m, q) <=> a # p /\ a # q
    BY <1>2, <1>4, <2>1, <2>2
  <2>6. t < p \/ t >= End(m, q)
    <3>1. t \notin DOMAIN m \/ t < p \/ t >= End(m, q)
      BY <1>3, <2>1, <2>5
    <3> QED
      BY <1>2, <2>2, <3>1, TopApart
  <2> QED
    BY <1>2, <1>3, <2>1, <2>2, <2>3, <2>4, <2>5, <2>6
<1> QED
  BY <1>5, <1>6

\* What m becomes when p, and the free chunk q behind it, are cut anew at mid.
Recuts(m, n, S, e, t, ts, p, q, mid, hi) ==
  /\ Heap(n, S, t) /\ ts = HeaderAt(n, t).size
  /\ t # NULL => End(n, t) + top_foot_size = e /\ \A a \in DOMAIN n : a <= t \/ a >= e
  /\ \A a : a \in FreeOf(n) <=>
       (a \in FreeOf(m) /\ a # q) \/ (a = mid /\ mid # hi /\ ~ n[mid].cinuse)
  /\ \A a : a \in UsedOf(n) <=>
       a \in UsedOf(m) \/ (a = mid /\ mid # hi /\ n[mid].cinuse)
  /\ \A a \in DOMAIN m : a # p /\ a # q => a \in DOMAIN n /\ n[a].size = m[a].size
  /\ n[p].size = mid - p
  /\ mid # hi => mid \in DOMAIN n /\ n[mid].size = hi - mid /\ mid \notin UsedOf(m)

\* What it leaves: the same heap, but for what lies behind mid.
LEMMA Recut ==
  ASSUME NEW m, NEW S, NEW e \in Int, NEW B, NEW v, NEW vs, NEW t, NEW ts,
         Sound(m, S, e, B, v, vs, t, ts), NEW n, NEW p, NEW q, NEW mid \in Int, NEW hi,
         Recutting(m, n, t, p, q, mid, hi)
  PROVE  Recuts(m, n, S, e, t, ts, p, q, mid, hi)
<1>1. Heap(m, S, t) /\ IsMem(m) /\ t \in Int /\ Mapped(S)
  BY SoundHeap
<1>2. /\ p \in DOMAIN m /\ m[p].cinuse /\ ~ Fence(m, p) /\ q \in DOMAIN m /\ hi = End(m, q)
      /\ q = p \/ (q = End(m, p) /\ ~ m[q].cinuse /\ q # t)
  BY DEF Recutting
<1>3. /\ p < mid /\ mid <= hi /\ Aligned(mid) /\ mid - p >= min_chunk_size
      /\ mid # hi => hi - mid >= min_chunk_size
      /\ IsMem(n) /\ Cut(m, n, p, mid, hi)
  BY DEF Recutting
<1>4. /\ n[p].cinuse /\ n[p].pinuse = m[p].pinuse /\ n[p].prev_foot = m[p].prev_foot
      /\ mid # hi /\ ~ n[mid].cinuse => q # p
  BY DEF Recutting
<1>5. /\ p \in Int /\ q \in Int /\ hi \in Int /\ p > 0 /\ p < hi
      /\ hi \in DOMAIN m /\ Aligned(p) /\ Aligned(hi)
      /\ Within(S, p, hi) /\ (t < p \/ t >= hi)
      /\ \A a \in DOMAIN m : a < p \/ a >= hi <=> a # p /\ a # q
      /\ q # p => m[hi].cinuse
  BY <1>2, RecutRange
<1>6. n[LastPiece(p, mid, hi)].cinuse \/ m[hi].cinuse
  BY <1>4, <1>5 DEF LastPiece
<1>7. InnerCut(m, n, S, t, p, mid, hi)
  BY <1>2, <1>3, <1>4, <1>5, <1>6 DEF InnerCut
<1>8. /\ Heap(n, S, t) /\ ts = HeaderAt(n, t).size
      /\ t # NULL => End(n, t) + top_foot_size = e /\ \A a \in DOMAIN n : a <= t \/ a >= e
  BY <1>5, <1>7, InnerCutHeap
<1>9. /\ \A a : a \in FreeOf(n) <=>
           \/ a \in FreeOf(m) /\ (a < p \/ a >= hi)
           \/ a \in {p, LastPiece(p, mid, hi)} /\ ~ n[a].cinuse
      /\ \A a : a \in UsedOf(n) <=>
           \/ a \in UsedOf(m) /\ (a < p \/ a >= hi)
           \/ a \in {p, LastPiece(p, mid, hi)} /\ n[a].cinuse
      /\ \A a \in DOMAIN m : a < p \/ a >= hi => a \in DOMAIN n /\ n[a].size = m[a].size
  BY <1>1, <1>3, <1>5, CutSets
<1>10. \A a : a \in FreeOf(n) <=>
         (a \in FreeOf(m) /\ a # q) \/ (a = mid /\ mid # hi /\ ~ n[mid].cinuse)
  BY <1>2, <1>4, <1>5, <1>9 DEF FreeOf, LastPiece
<1>11. q # p => ~ m[q].cinuse
  BY <1>2
<1>12. \A a : a \in UsedOf(n) <=> a \in UsedOf(m) \/ (a = mid /\ mid # hi /\ n[mid].cinuse)
  BY <1>2, <1>4, <1>5, <1>9, <1>11 DEF UsedOf, LastPiece
<1>13. \A a \in DOMAIN m : a # p /\ a # q => a \in DOMAIN n /\ n[a].size = m[a].size
  BY <1>5, <1>9
<1>14. /\ n[p].size = mid - p
       /\ mid # hi => mid \in DOMAIN n /\ n[mid].size = hi - mid
  BY <1>3 DEF Cut, LastPiece
<1>15. mid # hi => mid \notin UsedOf(m)
  BY <1>3, <1>5, <1>11 DEF UsedOf
<1> QED
  BY <1>8, <1>10, <1>12, <1>13, <1>14, <1>15 DEF Recuts

\* Two chunks in use are written over one chunk or over a chunk and a free one,
\* the first before the second or the second before the first.
LEMMA WriteTwo ==
  ASSUME NEW m, IsMem(m), NEW p \in Int, p \in DOMAIN m, NEW mid \in Int, NEW hi \in Int,
         NEW front \in Int, NEW back \in Int, front > 0, back > 0,
         mid = p + front, hi = mid + back, hi \in DOMAIN m,
         NEW n, \/ n = set_inuse(set_inuse(m, p, front), mid, back)
                \/ n = set_inuse(set_inuse(m, mid, back), p, front)
  PROVE  /\ IsMem(n) /\ Cut(m, n, p, mid, hi)
         /\ n[p].cinuse /\ n[p].pinuse = m[p].pinuse /\ n[p].prev_foot = m[p].prev_foot
         /\ n[mid].cinuse
<1>0. p < mid /\ mid < hi
  OBVIOUS
<1>1. CASE n = set_inuse(set_inuse(m, p, front), mid, back)
  <2> DEFINE k == set_inuse(m, p, front)
  <2>1. /\ Wrote(m, k, p, mid) /\ k[p].cinuse /\ k[p].pinuse = pinuse(m, p)
        /\ mid \in DOMAIN k /\ k[mid].pinuse
    BY <1>0, WriteInuse
  <2>2. n = set_inuse(k, mid, back)
    BY <1>1
  <2> HIDE DEF k
  <2>3. IsMem(k)
    BY <2>1 DEF Wrote
  <2>4. /\ Wrote(k, n, mid, hi) /\ n[mid].cinuse /\ n[mid].pinuse = pinuse(k, mid)
        /\ hi \in DOMAIN n /\ n[hi].pinuse
    BY <1>0, <2>2, <2>3, WriteInuse
  <2>5. n[mid].pinuse /\ IsMem(n)
    BY <2>1, <2>4, HeaderIs DEF Wrote
  <2>6. n[hi].pinuse = n[mid].cinuse
    BY <2>4, <2>5, MemFacts DEF Wrote
  <2>7. Cut(m, n, p, mid, hi) /\ n[p] = k[p] /\ n[p].prev_foot = HeaderAt(m, p).prev_foot
    <3>1. k[p].cinuse /\ n[mid].pinuse
      BY <2>1, <2>5
    <3>2. hi \in DOMAIN m =>
            /\ n[hi].pinuse = n[mid].cinuse
            /\ ~ n[mid].cinuse => n[hi].prev_foot = n[mid].size
      BY <2>4, <2>6
    <3>3. Wrote(m, k, p, mid) /\ Wrote(k, n, mid, hi)
      BY <2>1, <2>4
    <3> QED
      BY <1>0, <3>1, <3>2, <3>3, CutFront
  <2> QED
    BY <2>1, <2>4, <2>5, <2>7, HeaderIs
<1>2. CASE n = set_inuse(set_inuse(m, mid, back), p, front)
  <2> DEFINE k == set_inuse(m, mid, back)
  <2>1. /\ Wrote(m, k, mid, hi) /\ k[mid].cinuse /\ hi \in DOMAIN k /\ k[hi].pinuse
    BY <1>0, WriteInuse
  <2>2. n = set_inuse(k, p, front)
    BY <1>2
  <2> HIDE DEF k
  <2>3. IsMem(k)
    BY <2>1 DEF Wrote
  <2>4. /\ Wrote(k, n, p, mid) /\ n[p].cinuse /\ n[p].pinuse = pinuse(k, p)
        /\ mid \in DOMAIN n /\ n[mid].pinuse
    BY <1>0, <2>2, <2>3, WriteInuse
  <2>5. k[hi].pinuse = k[mid].cinuse /\ IsMem(n) /\ mid \in DOMAIN k
    BY <2>1, <2>3, <2>4, MemFacts DEF Wrote
  <2>6. /\ Cut(m, n, p, mid, hi) /\ n[mid].cinuse = k[mid].cinuse
        /\ n[p].prev_foot = HeaderAt(m, p).prev_foot
    <3>1. /\ n[p].cinuse /\ n[mid].pinuse /\ hi \in DOMAIN m
          /\ k[hi].pinuse = k[mid].cinuse
          /\ ~ k[mid].cinuse => k[hi].prev_foot = k[mid].size
      BY <2>1, <2>4, <2>5
    <3>2. Wrote(m, k, mid, hi) /\ Wrote(k, n, p, mid)
      BY <2>1, <2>4
    <3>3. PICK u \in Int : u = mid
      OBVIOUS
    <3>4. PICK v \in Int : v = hi
      OBVIOUS
    <3>5. BackFirst(m, k, n, p, u, v)
      BY <1>0, <3>1, <3>2, <3>3, <3>4 DEF BackFirst
    <3>6. /\ Cut(m, n, p, u, v) /\ n[u].cinuse = k[u].cinuse
          /\ n[p].prev_foot = HeaderAt(m, p).prev_foot
      BY <3>3, <3>4, <3>5, CutBack
    <3> QED
      BY <3>3, <3>4, <3>6
  <2>7. pinuse(k, p) = m[p].pinuse
    <3>1. p \in DOMAIN k /\ k[p] = m[p]
      BY <2>1 DEF Wrote
    <3> QED
      BY <3>1, HeaderIs
  <2> QED
    BY <2>1, <2>4, <2>5, <2>6, <2>7, HeaderIs
<1> QED
  BY <1>1, <1>2

\* One chunk in use is written over one chunk and what lies behind it.
LEMMA WriteOver ==
  ASSUME NEW m, IsMem(m), NEW p \in Int, p \in DOMAIN m, NEW hi \in Int, hi \in DOMAIN m, p < hi,
         NEW n, n = set_inuse(m, p, hi - p)
  PROVE  /\ IsMem(n) /\ Cut(m, n, p, hi, hi)
         /\ n[p].cinuse /\ n[p].pinuse = m[p].pinuse /\ n[p].prev_foot = m[p].prev_foot
<1>0. hi - p \in Int /\ hi - p > 0 /\ p + (hi - p) = hi
  OBVIOUS
<1>1. /\ Wrote(m, n, p, hi) /\ n[p].cinuse /\ n[p].pinuse = pinuse(m, p)
      /\ hi \in DOMAIN n /\ n[hi].pinuse
  BY <1>0, WriteInuse
<1>2. IsMem(n) /\ n[hi].pinuse = n[p].cinuse
  BY <1>1, MemFacts DEF Wrote
<1>3. Cut(m, n, p, hi, hi)
  BY <1>1, <1>2, CutOne
<1> QED
  BY <1>1, <1>2, <1>3, HeaderIs DEF Wrote

\* A chunk in use and a free one behind it are written over the two.
LEMMA WriteUsedFree ==
  ASSUME NEW m, IsMem(m), NEW p \in Int, p \in DOMAIN m, NEW mid \in Int, NEW hi \in Int,
         hi \in DOMAIN m, ~ m[hi].pinuse, p < mid, mid < hi,
         NEW n, n = clear_pinuse(set_size_and_pinuse_of_free_chunk(
                                   set_inuse(m, p, mid - p), mid, hi - mid), hi)
  PROVE  /\ IsMem(n) /\ Cut(m, n, p, mid, hi)
         /\ n[p].cinuse /\ n[p].pinuse = m[p].pinuse /\ n[p].prev_foot = m[p].prev_foot
         /\ ~ n[mid].cinuse
<1>0. /\ mid - p \in Int /\ hi - mid \in Int /\ mid - p > 0 /\ hi - mid > 0
      /\ p + (mid - p) = mid /\ mid + (hi - mid) = hi /\ hi # p /\ hi # mid
  OBVIOUS
<1> DEFINE k == set_inuse(m, p, mid - p)
<1> DEFINE j == set_size_and_pinuse_of_free_chunk(k, mid, hi - mid)
<1>1. /\ Wrote(m, k, p, mid) /\ k[p].cinuse /\ k[p].pinuse = pinuse(m, p)
      /\ mid \in DOMAIN k /\ k[mid].pinuse
  BY <1>0, WriteInuse
<1>2. n = clear_pinuse(j, hi) /\ j = set_size_and_pinuse_of_free_chunk(k, mid, hi - mid)
  OBVIOUS
<1> HIDE DEF j, k
<1>3. IsMem(k) /\ ~ pinuse(k, hi)
  BY <1>0, <1>1, HeaderIs DEF Wrote
<1>4. ~ pinuse(k, mid + (hi - mid))
  BY <1>0, <1>3
<1>5. /\ Wrote(k, j, mid, hi) /\ j[mid].pinuse /\ ~ j[mid].cinuse
      /\ hi \in DOMAIN j /\ ~ j[hi].pinuse /\ j[hi].prev_foot = hi - mid
  BY <1>0, <1>2, <1>3, <1>4, WriteFree
<1>6. IsMem(j)
  BY <1>5 DEF Wrote
<1>7. Retagged(j, n, hi) /\ ~ n[hi].pinuse /\ n[hi].prev_foot = HeaderAt(j, hi).prev_foot
  BY <1>2, <1>6, ClearIs
<1>8. Wrote(k, n, mid, hi) /\ hi \in DOMAIN n /\ n[mid] = j[mid]
  BY <1>3, <1>5, <1>7, WroteRetagged
<1>9. n[mid].pinuse /\ ~ n[mid].cinuse /\ IsMem(n) /\ n[mid].size = hi - mid
  BY <1>5, <1>8 DEF Wrote
<1>10. n[hi].pinuse = n[mid].cinuse /\ n[hi].prev_foot = n[mid].size
  <2>1. n[hi].prev_foot = hi - mid
    BY <1>5, <1>7, HeaderIs
  <2>2. n[hi].pinuse \in BOOLEAN /\ n[mid].cinuse \in BOOLEAN
    BY <1>8, <1>9, MemFacts DEF Wrote
  <2> QED
    BY <1>7, <1>9, <2>1, <2>2
<1>11. Cut(m, n, p, mid, hi) /\ n[p] = k[p] /\ n[p].prev_foot = HeaderAt(m, p).prev_foot
  <2>1. p < mid /\ mid < hi /\ k[p].cinuse /\ n[mid].pinuse /\ hi \in DOMAIN m
        /\ n[hi].pinuse = n[mid].cinuse /\ n[hi].prev_foot = n[mid].size
    BY <1>1, <1>9, <1>10
  <2> QED
    BY <1>1, <1>8, <2>1, CutFront
<1> QED
  BY <1>1, <1>9, <1>11, HeaderIs

-----------------------------------------------------------------------------
(* A chunk is given back                                                        *)

\* In n, [q, hi) is one free chunk: chunk p of m, which was in use, the free
\* chunk q before it if there was one, and the free chunk x behind it if there
\* was one (q = p, x = p: there was none).
Freeing(m, n, t, p, q, x, hi) ==
  /\ p \in DOMAIN m /\ m[p].cinuse /\ ~ Fence(m, p)
  /\ q \in DOMAIN m
  /\ \/ q = p /\ m[p].pinuse
     \/ ~ m[q].cinuse /\ End(m, q) = p
  /\ x \in DOMAIN m /\ hi = End(m, x)
  /\ \/ x = p /\ m[hi].cinuse
     \/ x = End(m, p) /\ ~ m[x].cinuse /\ x # t
  /\ IsMem(n) /\ Cut(m, n, q, hi, hi)
  /\ ~ n[q].cinuse /\ n[q].pinuse /\ n[q].prev_foot = m[q].prev_foot

\* The ranges it covers.
LEMMA FreeRange ==
  ASSUME NEW m, NEW S, NEW e \in Int, NEW B, NEW v, NEW vs, NEW t, NEW ts,
         Sound(m, S, e, B, v, vs, t, ts),
         NEW p \in DOMAIN m, m[p].cinuse, ~ Fence(m, p),
         NEW q \in DOMAIN m, (q = p /\ m[p].pinuse) \/ (~ m[q].cinuse /\ End(m, q) = p),
         NEW x \in DOMAIN m, x = p \/ (x = End(m, p) /\ ~ m[x].cinuse)
  PROVE  /\ p \in Int /\ q \in Int /\ x \in Int /\ End(m, x) \in Int /\ q > 0
         /\ q < End(m, x) /\ q # t
         /\ m[q].pinuse /\ Aligned(q) /\ Within(S, q, End(m, x))
         /\ \A a \in DOMAIN m : (a < q \/ a >= End(m, x)) <=> (a # q /\ a # p /\ a # x)
         /\ x # t => End(m, x) \in DOMAIN m /\ Aligned(End(m, x)) /\ (t < q \/ t >= End(m, x))
         /\ End(m, x) - q = m[p].size + (IF q = p THEN 0 ELSE m[q].size)
                                      + (IF x = p THEN 0 ELSE m[x].size)
<1>1. Heap(m, S, t) /\ IsMem(m) /\ t \in Int /\ Mapped(S)
  BY SoundHeap
<1>2. /\ p \in Int /\ p > 0 /\ End(m, p) \in Int /\ p < End(m, p) /\ End(m, p) = p + m[p].size
      /\ m[p].size \in Int /\ Within(S, p, End(m, p))
      /\ \A b \in DOMAIN m : b <= p \/ b >= End(m, p)
  BY <1>1, ChunkFacts
<1>3. p # t /\ Aligned(p) /\ End(m, p) \in DOMAIN m /\ Aligned(End(m, p))
  BY <1>1, UsedFacts
<1>4. \A a \in DOMAIN m : a \in Int
  BY <1>1 DEF IsMem
<1>5. /\ q \in Int /\ q > 0 /\ End(m, q) \in Int /\ q < End(m, q) /\ End(m, q) = q + m[q].size
      /\ m[q].size \in Int /\ Within(S, q, End(m, q))
      /\ \A b \in DOMAIN m : b <= q \/ b >= End(m, q)
  BY <1>1, ChunkFacts
<1>6. /\ x \in Int /\ End(m, x) \in Int /\ x < End(m, x) /\ End(m, x) = x + m[x].size
      /\ m[x].size \in Int /\ Within(S, x, End(m, x))
      /\ \A b \in DOMAIN m : b <= x \/ b >= End(m, x)
  BY <1>1, ChunkFacts
<1>7. m[q].pinuse /\ Aligned(q)
  <2>1. CASE q = p /\ m[p].pinuse
    BY <1>3, <2>1
  <2>2. CASE ~ m[q].cinuse
    BY <1>1, <2>2, FreeFacts
  <2> QED
    BY <2>1, <2>2
<1>8. q = p \/ (q # p /\ End(m, q) = p /\ q # t)
  <2>1. CASE q = t
    <3>1. t # NULL
      BY <1>5, <2>1 DEF NULL
    <3>2. End(m, t) \notin DOMAIN m
      BY <3>1, TopFacts
    <3> QED
      BY <1>3, <2>1, <3>2
  <2> QED
    BY <1>5, <2>1
<1>9. x = p \/ (x # p /\ x = End(m, p))
  BY <1>2
<1>10. Within(S, q, End(m, x))
  <2>1. Within(S, q, End(m, p)) /\ q < End(m, p)
    BY <1>1, <1>2, <1>5, <1>8, WithinJoin
  <2> QED
    BY <1>1, <1>2, <1>6, <1>5, <1>9, <2>1, WithinJoin
<1>11. \A a \in DOMAIN m : (a < q \/ a >= End(m, x)) <=> (a # q /\ a # p /\ a # x)
  BY <1>2, <1>4, <1>5, <1>6, <1>8, <1>9
<1>12. q < End(m, x) /\ q # t
  BY <1>2, <1>3, <1>5, <1>6, <1>8, <1>9
<1>13. ASSUME x # t PROVE End(m, x) \in DOMAIN m /\ Aligned(End(m, x)) /\ (t < q \/ t >= End(m, x))
  <2>1. End(m, x) \in DOMAIN m /\ Aligned(End(m, x))
    BY <1>1, <1>3, <1>13, FreeFacts
  <2>2. t \notin DOMAIN m \/ t < q \/ t >= End(m, x)
    BY <1>3, <1>11, <1>12, <1>13
  <2> QED
    BY <1>5, <1>6, <2>1, <2>2, TopApart
<1>14. End(m, x) - q = m[p].size + (IF q = p THEN 0 ELSE m[q].size)
                                 + (IF x = p THEN 0 ELSE m[x].size)
  BY <1>2, <1>5, <1>6, <1>8, <1>9
<1> QED
  BY <1>2, <1>5, <1>6, <1>7, <1>10, <1>11, <1>12, <1>13, <1>14

\* A chunk given back, alone or with its free neighbours.
LEMMA Freed ==
  ASSUME NEW m, NEW S, NEW e \in Int, NEW B, NEW v, NEW vs, NEW t, NEW ts,
         Sound(m, S, e, B, v, vs, t, ts), NEW n, NEW p, NEW q, NEW x, NEW hi,
         Freeing(m, n, t, p, q, x, hi)
  PROVE  /\ Heap(n, S, t) /\ ts = HeaderAt(n, t).size
         /\ t # NULL => End(n, t) + top_foot_size = e /\ \A a \in DOMAIN n : a <= t \/ a >= e
         /\ \A a : a \in FreeOf(n) <=> (a \in FreeOf(m) /\ a # x) \/ a = q
         /\ \A a : a \in UsedOf(n) <=> a \in UsedOf(m) /\ a # p
         /\ \A a \in DOMAIN m : a # p /\ a # q /\ a # x => a \in DOMAIN n /\ n[a].size = m[a].size
         /\ q \in DOMAIN n /\ n[q].size = hi - q
<1>1. Heap(m, S, t) /\ IsMem(m) /\ t \in Int /\ Mapped(S)
  BY SoundHeap
<1>2. /\ p \in DOMAIN m /\ m[p].cinuse /\ ~ Fence(m, p) /\ q \in DOMAIN m
      /\ (q = p /\ m[p].pinuse) \/ (~ m[q].cinuse /\ End(m, q) = p)
      /\ x \in DOMAIN m /\ hi = End(m, x)
      /\ x = p \/ (x = End(m, p) /\ ~ m[x].cinuse)
  BY DEF Freeing
<1>3. /\ IsMem(n) /\ Cut(m, n, q, hi, hi)
      /\ ~ n[q].cinuse /\ n[q].pinuse /\ n[q].prev_foot = m[q].prev_foot
      /\ (x = p /\ m[hi].cinuse) \/ (x # t /\ ~ m[x].cinuse)
  BY DEF Freeing
<1>4. x # t
  BY <1>1, <1>2, <1>3, UsedFacts
<1>5. /\ p \in Int /\ q \in Int /\ hi \in Int /\ q < hi /\ q # t
      /\ m[q].pinuse /\ Aligned(q) /\ Within(S, q, hi)
      /\ \A a \in DOMAIN m : (a < q \/ a >= hi) <=> (a # q /\ a # p /\ a # x)
      /\ hi \in DOMAIN m /\ Aligned(hi) /\ (t < q \/ t >= hi)
  BY <1>2, <1>4, FreeRange
<1>6. m[hi].cinuse
  BY <1>1, <1>2, <1>3, <1>4, FreeFacts
<1>7. hi - q >= min_chunk_size
  <2>1. CASE q = p
    <3>1. m[p].size >= min_chunk_size /\ End(m, p) = p + m[p].size /\ m[p].size \in Int
      BY <1>1, <1>2, UsedFacts, ChunkFacts
    <3>2. hi >= End(m, p) /\ End(m, p) \in Int
      BY <1>1, <1>2, ChunkFacts
    <3> QED
      BY <1>5, <2>1, <3>1, <3>2, Constants
  <2>2. CASE q # p
    <3>1. m[q].size >= min_chunk_size /\ End(m, q) = q + m[q].size /\ m[q].size \in Int
      BY <1>1, <1>2, <1>5, <2>2, FreeFacts, ChunkFacts
    <3>2. hi >= p /\ End(m, q) = p
      BY <1>1, <1>2, <2>2, ChunkFacts
    <3> QED
      BY <1>5, <3>1, <3>2, Constants
  <2> QED
    BY <2>1, <2>2
<1>8. LastPiece(q, hi, hi) = q
  BY DEF LastPiece
<1>9. n[q].pinuse = m[q].pinuse
  BY <1>1, <1>2, <1>3, <1>5, MemFacts DEF Cut
<1>10. InnerCut(m, n, S, t, q, hi, hi)
  BY <1>2, <1>3, <1>5, <1>6, <1>7, <1>8, <1>9 DEF InnerCut
<1>11. /\ Heap(n, S, t) /\ ts = HeaderAt(n, t).size
       /\ t # NULL => End(n, t) + top_foot_size = e /\ \A a \in DOMAIN n : a <= t \/ a >= e
  BY <1>5, <1>10, InnerCutHeap
<1>12. /\ \A a : a \in FreeOf(n) <=> (a \in FreeOf(m) /\ (a < q \/ a >= hi)) \/ (a = q /\ ~ n[a].cinuse)
       /\ \A a : a \in UsedOf(n) <=> (a \in UsedOf(m) /\ (a < q \/ a >= hi)) \/ (a = q /\ n[a].cinuse)
       /\ \A a \in DOMAIN m : a < q \/ a >= hi => a \in DOMAIN n /\ n[a].size = m[a].size
  BY <1>1, <1>3, <1>5, <1>8, CutSets
<1>13. \A a : a \in FreeOf(n) <=> (a \in FreeOf(m) /\ a # x) \/ a = q
  BY <1>2, <1>3, <1>5, <1>12 DEF FreeOf
<1>14. \A a : a \in UsedOf(n) <=> a \in UsedOf(m) /\ a # p
  BY <1>2, <1>3, <1>5, <1>12 DEF UsedOf
<1>15. \A a \in DOMAIN m : a # p /\ a # q /\ a # x => a \in DOMAIN n /\ n[a].size = m[a].size
  BY <1>5, <1>12
<1>16. q \in DOMAIN n /\ n[q].size = hi - q
  BY <1>3 DEF Cut
<1> QED
  BY <1>11, <1>13, <1>14, <1>15, <1>16

-----------------------------------------------------------------------------
(* Cuts at the end of a segment: the last piece is the top chunk                *)

EndCut(m, n, S, t, lo, mid, hi) ==
  /\ IsMem(n) /\ lo < mid /\ mid <= hi /\ Within(S, lo, hi) /\ Cut(m, n, lo, mid, hi)
  /\ hi \notin DOMAIN m
  /\ \/ /\ lo \in DOMAIN m /\ Rooted(m, S)
        /\ n[lo].pinuse = m[lo].pinuse /\ n[lo].prev_foot = m[lo].prev_foot
     \/ n[lo].pinuse /\ \A a \in DOMAIN m : a < lo => End(m, a) < lo
  /\ \A a \in DOMAIN m : a < hi => End(m, a) <= hi \/ End(m, a) \notin DOMAIN m
  /\ (lo <= t /\ t < hi) \/ t \notin DOMAIN m
  /\ ~ n[LastPiece(lo, mid, hi)].cinuse /\ (mid = hi => n[lo].pinuse)
  /\ Aligned(lo) /\ (mid # hi => Aligned(mid) /\ mid - lo >= min_chunk_size)

\* A cut of the last piece of a segment.
LEMMA EndCutHeap ==
  ASSUME NEW m, NEW n, NEW S, NEW t \in Int, NEW lo \in Int, NEW mid \in Int, NEW hi \in Int,
         HeapBut(m, S, t, lo), EndCut(m, n, S, t, lo, mid, hi),
         NEW u, u = LastPiece(lo, mid, hi)
  PROVE  /\ Heap(n, S, u) /\ u \in DOMAIN n /\ n[u].size = hi - u /\ End(n, u) = hi
         /\ \A a : a \in FreeOf(n) <=> (a \in FreeOf(m) /\ (a < lo \/ a >= hi)) \/ a = u
         /\ \A a : a \in UsedOf(n) <=>
              (a \in UsedOf(m) /\ (a < lo \/ a >= hi)) \/ (a = lo /\ mid # hi)
         /\ \A a \in DOMAIN m : a < lo \/ a >= hi => a \in DOMAIN n /\ n[a].size = m[a].size
         /\ \A a \in DOMAIN n : a \in DOMAIN m \/ a <= u
         /\ mid # hi => n[lo].size = mid - lo
<1>1. /\ IsMem(n) /\ lo < mid /\ mid <= hi /\ Within(S, lo, hi) /\ Cut(m, n, lo, mid, hi)
      /\ hi \notin DOMAIN m
  BY DEF EndCut
<1>2. \/ /\ lo \in DOMAIN m /\ Rooted(m, S)
         /\ n[lo].pinuse = m[lo].pinuse /\ n[lo].prev_foot = m[lo].prev_foot
      \/ n[lo].pinuse /\ \A a \in DOMAIN m : a < lo => End(m, a) < lo
  BY DEF EndCut
<1>3. /\ \A a \in DOMAIN m : a < hi => End(m, a) <= hi \/ End(m, a) \notin DOMAIN m
      /\ (lo <= t /\ t < hi) \/ t \notin DOMAIN m
  BY DEF EndCut
<1>4. /\ ~ n[u].cinuse /\ (mid = hi => n[lo].pinuse)
      /\ Aligned(lo) /\ (mid # hi => Aligned(mid) /\ mid - lo >= min_chunk_size)
  BY DEF EndCut
<1>5. /\ mid = hi => u = lo
      /\ mid # hi => u = mid /\ n[lo].cinuse /\ n[lo].size = mid - lo
  BY <1>1 DEF LastPiece, Cut
<1>6. /\ ~ n[lo].cinuse => n[lo].pinuse
      /\ Aligned(mid) \/ mid = hi
      /\ lo # u => Aligned(mid - lo) /\ mid - lo >= min_chunk_size
      /\ mid # hi /\ mid # u => Aligned(hi - mid) /\ hi - mid >= min_chunk_size
  BY <1>1, <1>4, <1>5, AlignedSum
<1>7. Heap(n, S, u)
  BY <1>1, <1>2, <1>3, <1>4, <1>6, CutHeap
<1>8. IsMem(m)
  BY DEF HeapBut
<1>9. /\ \A a : a \in FreeOf(n) <=>
           (a \in FreeOf(m) /\ (a < lo \/ a >= hi)) \/ (a \in {lo, u} /\ ~ n[a].cinuse)
      /\ \A a : a \in UsedOf(n) <=>
           (a \in UsedOf(m) /\ (a < lo \/ a >= hi)) \/ (a \in {lo, u} /\ n[a].cinuse)
      /\ \A a \in DOMAIN m : a < lo \/ a >= hi => a \in DOMAIN n /\ n[a].size = m[a].size
  BY <1>1, <1>8, CutSets
<1>10. /\ \A a : a \in FreeOf(n) <=> (a \in FreeOf(m) /\ (a < lo \/ a >= hi)) \/ a = u
       /\ \A a : a \in UsedOf(n) <=>
            (a \in UsedOf(m) /\ (a < lo \/ a >= hi)) \/ (a = lo /\ mid # hi)
  BY <1>4, <1>5, <1>9
<1>11. u \in DOMAIN n /\ n[u].size = hi - u
  BY <1>1, <1>5 DEF Cut
<1>12. \A a \in DOMAIN n : a \in DOMAIN m \/ a <= u
  BY <1>1, <1>5 DEF Cut, LastPiece
<1>13. End(n, u) = hi
  BY <1>5, <1>11 DEF End
<1> QED
  BY <1>5, <1>7, <1>9, <1>10, <1>11, <1>12, <1>13

\* The chunk at me becomes top.
TopFrom(m, me, size) == SetHead(m, me, size, TRUE, FALSE)

\* What is written at the end of a segment: one free chunk, ...
LEMMA WriteEnd ==
  ASSUME NEW m, IsMem(m), NEW lo \in Int, NEW size \in Int, size > 0, NEW hi \in Int,
         hi = lo + size, hi \notin DOMAIN m, NEW n, n = TopFrom(m, lo, size)
  PROVE  /\ IsMem(n) /\ Cut(m, n, lo, hi, hi) /\ ~ n[lo].cinuse /\ n[lo].pinuse
         /\ n[lo].prev_foot = HeaderAt(m, lo).prev_foot
<1>1. /\ Wrote(m, n, lo, hi) /\ n[lo].pinuse /\ ~ n[lo].cinuse
      /\ hi \in DOMAIN n => hi \in DOMAIN m
  BY WriteHead DEF TopFrom
<1>2. lo < hi
  OBVIOUS
<1>3. Cut(m, n, lo, hi, hi)
  BY <1>1, <1>2, CutOne
<1> QED
  BY <1>1, <1>3 DEF Wrote

\* ... or top behind a chunk that was written before ...
LEMMA WriteTopBehind ==
  ASSUME NEW m, IsMem(m), NEW lo \in Int, NEW mid \in Int, NEW hi \in Int,
         NEW back \in Int, back > 0, lo < mid, hi = mid + back, hi \notin DOMAIN m,
         NEW k, Wrote(m, k, lo, mid), k[lo].cinuse, NEW n, n = TopFrom(k, mid, back)
  PROVE  /\ IsMem(n) /\ Cut(m, n, lo, mid, hi) /\ n[lo] = k[lo] /\ ~ n[mid].cinuse
         /\ n[lo].prev_foot = HeaderAt(m, lo).prev_foot
<1>0. mid < hi /\ hi \notin {lo, mid}
  OBVIOUS
<1>1. IsMem(k) /\ hi \notin DOMAIN k
  BY <1>0 DEF Wrote
<1>2. /\ Wrote(k, n, mid, hi) /\ n[mid].pinuse /\ ~ n[mid].cinuse
      /\ hi \in DOMAIN n => hi \in DOMAIN k
  BY <1>1, WriteHead DEF TopFrom
<1>3. hi \notin DOMAIN n
  BY <1>1, <1>2
<1>4. Cut(m, n, lo, mid, hi) /\ n[lo] = k[lo] /\ n[lo].prev_foot = HeaderAt(m, lo).prev_foot
  BY <1>0, <1>2, <1>3, CutFront
<1> QED
  BY <1>2, <1>4 DEF Wrote

\* A header written for a chunk in use.
LEMMA WriteUsed ==
  ASSUME NEW m, IsMem(m), NEW lo \in Int, NEW size \in Int, size > 0,
         NEW n, n = set_size_and_pinuse_of_inuse_chunk(m, lo, size)
  PROVE  /\ Wrote(m, n, lo, lo + size) /\ n[lo].pinuse /\ n[lo].cinuse
         /\ lo + size \in DOMAIN n => lo + size \in DOMAIN m /\ n[lo + size] = m[lo + size]
<1>1. Headed(m, n, lo, size) /\ n[lo].pinuse /\ n[lo].cinuse
  BY SetHeadIs DEF set_size_and_pinuse_of_inuse_chunk
<1> QED
  BY <1>1, HeadedWrote

\* The front of a top chunk of size ts handed out.
FrontOfTop(m, t, ts, want) ==
  set_size_and_pinuse_of_inuse_chunk(TopFrom(m, t + want, ts - want), t, want)

\* ... or before one.
LEMMA WriteFrontOfTop ==
  ASSUME NEW m, IsMem(m), NEW lo \in Int, NEW size \in Int, NEW front \in Int, front > 0,
         front < size, lo + size \notin DOMAIN m, NEW n, n = FrontOfTop(m, lo, size, front)
  PROVE  /\ IsMem(n) /\ Cut(m, n, lo, lo + front, lo + size) /\ n[lo].cinuse /\ n[lo].pinuse
         /\ ~ n[lo + front].cinuse /\ n[lo].prev_foot = HeaderAt(m, lo).prev_foot
<1> DEFINE mid == lo + front
           hi == lo + size
           back == size - front
           k == TopFrom(m, mid, back)
<1>0. /\ mid \in Int /\ hi \in Int /\ back \in Int /\ back > 0 /\ lo < mid /\ mid < hi
      /\ hi = mid + back /\ hi \notin DOMAIN m
  OBVIOUS
<1>1. n = set_size_and_pinuse_of_inuse_chunk(k, lo, front) /\ mid = lo + front
  BY DEF FrontOfTop
<1> HIDE DEF hi, back
<1>2. /\ Wrote(m, k, mid, hi) /\ k[mid].pinuse /\ ~ k[mid].cinuse
      /\ hi \in DOMAIN k => hi \in DOMAIN m
  BY ZenonT(60), <1>0, WriteHead DEF TopFrom
<1>3. IsMem(k) /\ mid \in DOMAIN k
  BY <1>2 DEF Wrote
<1> HIDE DEF k, mid
<1>4. /\ Wrote(k, n, lo, mid) /\ n[lo].pinuse /\ n[lo].cinuse
      /\ mid \in DOMAIN n => n[mid] = k[mid]
  <2>1. /\ Wrote(k, n, lo, lo + front) /\ n[lo].pinuse /\ n[lo].cinuse
        /\ lo + front \in DOMAIN n => n[lo + front] = k[lo + front]
    BY <1>1, <1>3, WriteUsed
  <2> QED
    BY <1>1, <2>1
<1>5. mid \in DOMAIN n
  BY <1>3, <1>4 DEF Wrote
<1>6. n[mid].pinuse /\ hi \notin DOMAIN k
  BY <1>0, <1>2, <1>4, <1>5
<1>7. /\ Cut(m, n, lo, mid, hi)
      /\ n[mid].cinuse = k[mid].cinuse /\ n[lo].prev_foot = HeaderAt(m, lo).prev_foot
  <2>1. BackFirst(m, k, n, lo, mid, hi)
    BY <1>0, <1>2, <1>4, <1>6 DEF BackFirst
  <2> QED
    BY <1>0, <2>1, CutBack
<1>8. IsMem(n) /\ ~ n[mid].cinuse
  BY <1>2, <1>4, <1>7 DEF Wrote
<1> QED
  BY <1>4, <1>7, <1>8 DEF mid, hi

-----------------------------------------------------------------------------
(* What a step does to the chunks in use                                        *)

\* p comes into use, in a chunk that has room for want and not one more chunk.
Gained(m, n, p, want) ==
  /\ p \notin UsedOf(m) /\ p \in Int /\ p > 0 /\ Aligned(p)
  /\ \A a : a \in UsedOf(n) <=> a \in UsedOf(m) \/ a = p
  /\ \A a \in UsedOf(m) : n[a].size = m[a].size
  /\ n[p].size \in Int /\ want <= n[p].size /\ n[p].size < want + min_chunk_size

\* p is in use no more.
Lost(m, n, p) ==
  /\ \A a : a \in UsedOf(n) <=> a \in UsedOf(m) /\ a # p
  /\ \A a \in UsedOf(n) : n[a].size = m[a].size

\* p has a new size, between want and one chunk more.
Resizes(m, n, p, want) ==
  /\ \A a : a \in UsedOf(n) <=> a \in UsedOf(m)
  /\ \A a \in UsedOf(m) : a # p => n[a].size = m[a].size
  /\ n[p].size \in Int /\ want <= n[p].size /\ n[p].size < want + min_chunk_size

\* The size of the designated victim tells if there is one.
LEMMA VictimSize ==
  ASSUME NEW m, NEW S, NEW e, NEW B, NEW v, NEW vs, NEW t, NEW ts,
         Sound(m, S, e, B, v, vs, t, ts)
  PROVE  vs \in Int /\ (vs = 0 <=> v = NULL) /\ vs >= 0
<1>1. v # NULL => v \in DOMAIN m /\ vs = m[v].size
  BY VictimFacts
<1>2. v = NULL => vs = 0
  BY VictimFacts
<1>3. v # NULL => vs \in Int /\ vs > 0
  BY <1>1, SoundHeap, ChunkFacts
<1> QED
  BY <1>2, <1>3

\* p is in a bin or is the designated victim; it fits a request and leaves too little.
Loose(p, B, v) == p \in B \/ (p = v /\ v # NULL)
Fits(want, size) == want <= size /\ size < want + min_chunk_size

\* A chunk of a bin, or the designated victim, handed out whole.
LEMMA WholeSound ==
  ASSUME NEW m, NEW S, NEW e \in Int, NEW B, NEW v, NEW vs, NEW t, NEW ts,
         Sound(m, S, e, B, v, vs, t, ts), NEW p, Loose(p, B, v),
         NEW size \in Int, size = HeaderAt(m, p).size,
         NEW n, n = set_inuse_and_pinuse(m, p, size),
         NEW want \in Int, Fits(want, size)
  PROVE  /\ p \in B => Sound(n, S, e, B \ {p}, v, vs, t, ts)
         /\ p = v => Sound(n, S, e, B, NULL, 0, t, ts)
         /\ Gained(m, n, p, want)
<1>1. p \in DOMAIN m /\ ~ m[p].cinuse /\ p # t /\ (p \in B => p # v)
  BY BinFacts, VictimFacts DEF Loose
<1>2. Heap(m, S, t) /\ IsMem(m)
  BY SoundHeap
<1>3. size = m[p].size /\ p \in Int /\ p > 0 /\ size \in Int /\ Aligned(p)
  BY <1>1, <1>2, HeaderIs, ChunkFacts, FreeFacts
<1>4. /\ Heap(n, S, t) /\ ts = HeaderAt(n, t).size
      /\ t # NULL => End(n, t) + top_foot_size = e /\ \A a \in DOMAIN n : a <= t \/ a >= e
      /\ \A a : a \in FreeOf(n) <=> a \in FreeOf(m) /\ a # p
      /\ \A a : a \in UsedOf(n) <=> a \in UsedOf(m) \/ a = p
      /\ \A a \in DOMAIN m : a \in DOMAIN n /\ n[a].size = m[a].size
      /\ \A y \in Int : HeaderAt(n, y).size = HeaderAt(m, y).size
  BY <1>1, <1>3, TakenWhole
<1>5. FreeOf(m) = B \cup ({v, t} \ {NULL}) /\ v \notin B /\ t \notin B /\ (v = t => v = NULL)
      /\ vs = HeaderAt(m, v).size
  BY DEF Sound, Binned
<1>9. v \in Int /\ t \in Int /\ NULL \notin DOMAIN n
  BY <1>4, SoundHeap, NullFree
<1>6. ASSUME p \in B PROVE Sound(n, S, e, B \ {p}, v, vs, t, ts)
  <2>1. Binned(n, B \ {p}, v, t)
    BY <1>1, <1>4, <1>5, <1>6 DEF Binned
  <2> QED
    BY <1>4, <1>5, <1>9, <2>1 DEF Sound
<1>7. ASSUME p = v PROVE Sound(n, S, e, B, NULL, 0, t, ts)
  <2>1. Binned(n, B, NULL, t)
    <3>1. NULL \notin B
      <4>1. B \subseteq DOMAIN m
        BY <1>5 DEF FreeOf
      <4> QED
        BY <4>1, SoundHeap
    <3> QED
      BY <1>1, <1>4, <1>5, <1>7, <3>1 DEF Binned
  <2>2. HeaderAt(n, NULL).size = 0
    BY <1>9, NoHeader
  <2> QED
    BY <1>4, <2>1, <2>2 DEF Sound
<1>8. Gained(m, n, p, want)
  BY <1>1, <1>3, <1>4 DEF Gained, UsedOf, Fits
<1> QED
  BY <1>6, <1>7, <1>8

\* What is left over of p becomes chunk r, which goes to a bin or is the victim.
SplitOff(m, n, p, want, r, rest) ==
  \/ n = set_size_and_pinuse_of_free_chunk(
           set_size_and_pinuse_of_inuse_chunk(m, p, want), r, rest)
  \/ n = set_size_and_pinuse_of_inuse_chunk(
           set_size_and_pinuse_of_free_chunk(m, r, rest), p, want)
Tailed(C, B, p, r) == C = (B \ {p}) \cup {r}
Demoted(C, B, p, v, vs) == C = (B \ {p}) \cup (IF vs # 0 THEN {v} ELSE {})

\* The same, but for its tail.
LEMMA FrontSound ==
  ASSUME NEW m, NEW S, NEW e \in Int, NEW B, NEW v, NEW vs, NEW t, NEW ts,
         Sound(m, S, e, B, v, vs, t, ts), NEW p, Loose(p, B, v),
         NEW want \in Int, Aligned(want), want >= min_chunk_size,
         NEW rest \in Int, rest = HeaderAt(m, p).size - want, rest >= min_chunk_size,
         NEW r \in Int, r = p + want,
         NEW n, SplitOff(m, n, p, want, r, rest)
  PROVE  /\ p \in B => /\ \A C : Tailed(C, B, p, r) => Sound(n, S, e, C, v, vs, t, ts)
                       /\ \A C : Demoted(C, B, p, v, vs) => Sound(n, S, e, C, r, rest, t, ts)
         /\ p = v => Sound(n, S, e, B, r, rest, t, ts)
         /\ Gained(m, n, p, want)
<1>1. p \in DOMAIN m /\ ~ m[p].cinuse /\ p # t /\ (p \in B => p # v)
  BY BinFacts, VictimFacts DEF Loose
<1>2. Heap(m, S, t) /\ IsMem(m)
  BY SoundHeap
<1>3. /\ rest = m[p].size - want /\ p \in Int /\ p > 0 /\ m[p].size \in Int /\ Aligned(p)
      /\ rest \in Int /\ r \in Int
  BY <1>1, <1>2, HeaderIs, ChunkFacts, FreeFacts
<1>4. /\ Heap(n, S, t) /\ ts = HeaderAt(n, t).size
      /\ t # NULL => End(n, t) + top_foot_size = e /\ \A a \in DOMAIN n : a <= t \/ a >= e
      /\ \A a : a \in FreeOf(n) <=> (a \in FreeOf(m) /\ a # p) \/ a = r
      /\ \A a : a \in UsedOf(n) <=> a \in UsedOf(m) \/ a = p
      /\ \A a \in DOMAIN m : a # p => a \in DOMAIN n /\ n[a].size = m[a].size
      /\ n[p].size = want /\ r \in DOMAIN n /\ n[r].size = rest /\ r \notin DOMAIN m
  BY <1>1, <1>3, TakenFront DEF SplitOff
<1>5. FreeOf(m) = B \cup ({v, t} \ {NULL}) /\ v \notin B /\ t \notin B /\ (v = t => v = NULL)
      /\ vs = HeaderAt(m, v).size
  BY DEF Sound, Binned
<1>6. NULL \notin DOMAIN n /\ NULL \notin DOMAIN m
  BY <1>4, SoundHeap, NullFree
<1>7. r \notin B /\ r # v /\ r # t /\ r # NULL
  <2>1. r \notin FreeOf(m) /\ r # NULL
    BY <1>4, <1>6 DEF FreeOf
  <2> QED
    BY <1>5, <2>1
<1>8. HeaderAt(n, r).size = rest
  BY <1>4, HeaderIs
<1>9. p # v => HeaderAt(n, v).size = vs
  <2>1. CASE v = NULL
    BY <1>5, <1>6, <2>1, NoHeader
  <2>2. CASE v # NULL
    BY <1>4, <1>5, <2>2, VictimFacts, HeaderIs
  <2> QED
    BY <2>1, <2>2
<1>10. vs # 0 <=> v # NULL
  BY VictimSize
<1>11. ASSUME p \in B
       PROVE  /\ Sound(n, S, e, (B \ {p}) \cup {r}, v, vs, t, ts)
              /\ Sound(n, S, e, (B \ {p}) \cup (IF vs # 0 THEN {v} ELSE {}), r, rest, t, ts)
  <2>1. Binned(n, (B \ {p}) \cup {r}, v, t)
    BY <1>1, <1>4, <1>5, <1>7, <1>11 DEF Binned
  <2>2. Binned(n, (B \ {p}) \cup (IF vs # 0 THEN {v} ELSE {}), r, t)
    <3>1. CASE v = NULL
      BY <1>1, <1>4, <1>5, <1>7, <1>10, <1>11, <3>1 DEF Binned
    <3>2. CASE v # NULL
      BY <1>1, <1>4, <1>5, <1>7, <1>10, <1>11, <3>2 DEF Binned
    <3> QED
      BY <3>1, <3>2
  <2> QED
    BY <1>1, <1>4, <1>8, <1>9, <1>11, <2>1, <2>2 DEF Sound
<1>12. ASSUME p = v PROVE Sound(n, S, e, B, r, rest, t, ts)
  <2>1. Binned(n, B, r, t)
    BY <1>1, <1>4, <1>5, <1>7, <1>12 DEF Binned
  <2> QED
    BY <1>4, <1>8, <2>1 DEF Sound
<1>13. Gained(m, n, p, want)
  BY <1>1, <1>3, <1>4, Constants DEF Gained, UsedOf
<1> QED
  BY <1>11, <1>12, <1>13 DEF Tailed, Demoted

\* The free chunks outside of [lo, hi) are those of B and the victim v.
Kept(m, B, v, lo, hi) ==
  /\ v \in Int /\ v \notin B /\ B \subseteq Int
  /\ \A a \in Int : a \in B \/ (a = v /\ v # NULL)
                    <=> a \in FreeOf(m) /\ (a < lo \/ a >= hi)

\* Between hi and e, where its segment ends, there is the foot of top and nothing else.
FootAt(m, hi, e) == e = hi + top_foot_size /\ \A a \in DOMAIN m : a < hi \/ a >= e

\* A heap whose last piece was cut anew, with the free chunks that are left.
LEMMA TopMade ==
  ASSUME NEW m, NEW n, NEW S, NEW t \in Int, NEW lo \in Int, NEW mid \in Int, NEW hi \in Int,
         HeapBut(m, S, t, lo), EndCut(m, n, S, t, lo, mid, hi), NEW e \in Int, FootAt(m, hi, e),
         NEW u \in Int, u = LastPiece(lo, mid, hi), NEW us \in Int, us = hi - u,
         NEW B, NEW v, NEW vs, vs = HeaderAt(m, v).size, Kept(m, B, v, lo, hi)
  PROVE  /\ Sound(n, S, e, B, v, vs, u, us)
         /\ \A a : a \in UsedOf(n) <=>
              (a \in UsedOf(m) /\ (a < lo \/ a >= hi)) \/ (a = lo /\ mid # hi)
         /\ \A a \in DOMAIN m : a < lo \/ a >= hi => a \in DOMAIN n /\ n[a].size = m[a].size
         /\ mid # hi => n[lo].size = mid - lo
<1>1. /\ Heap(n, S, u) /\ u \in DOMAIN n /\ n[u].size = hi - u /\ End(n, u) = hi
      /\ \A a : a \in FreeOf(n) <=> (a \in FreeOf(m) /\ (a < lo \/ a >= hi)) \/ a = u
      /\ \A a : a \in UsedOf(n) <=>
           (a \in UsedOf(m) /\ (a < lo \/ a >= hi)) \/ (a = lo /\ mid # hi)
      /\ \A a \in DOMAIN m : a < lo \/ a >= hi => a \in DOMAIN n /\ n[a].size = m[a].size
      /\ \A a \in DOMAIN n : a \in DOMAIN m \/ a <= u
      /\ mid # hi => n[lo].size = mid - lo
  BY EndCutHeap
<1>2. IsMem(n) /\ IsMem(m) /\ lo < mid /\ mid <= hi /\ Cut(m, n, lo, mid, hi)
  BY DEF EndCut, HeapBut
<1>3. lo <= u /\ u < hi /\ u \in Int
  BY <1>2 DEF LastPiece
<1>4. u # NULL /\ NULL \notin DOMAIN n
  BY <1>1, NullFree
<1>0. /\ v \in Int /\ v \notin B /\ B \subseteq Int
      /\ \A a \in Int : a \in B \/ (a = v /\ v # NULL)
                        <=> a \in FreeOf(m) /\ (a < lo \/ a >= hi)
  BY DEF Kept
<1>14. e = hi + top_foot_size /\ \A a \in DOMAIN m : a < hi \/ a >= e
  BY DEF FootAt
<1>5. \A a : a \in FreeOf(n) => a \in Int
  BY <1>2 DEF FreeOf, IsMem
<1>6. \A a : a \in FreeOf(n) <=> a \in B \/ (a = v /\ v # NULL) \/ a = u
  BY <1>0, <1>1, <1>3, <1>5
<1>7. v # NULL => v \in FreeOf(m) /\ (v < lo \/ v >= hi)
  BY <1>0
<1>8. u \notin B /\ u # v
  BY <1>0, <1>3, <1>4, <1>7
<1>9. Binned(n, B, v, u)
  <2>1. FreeOf(n) = B \cup ({v, u} \ {NULL})
    BY <1>4, <1>6
  <2> QED
    BY <1>0, <1>8, <2>1 DEF Binned
<1>10. vs = HeaderAt(n, v).size
  <2>1. CASE v = NULL
    <3>1. NULL \notin DOMAIN m
      <4>1. NULL < lo
        <5>1. PICK s \in S : FirstChunk(s) <= lo
          BY DEF EndCut, Within
        <5>2. s \in Segment /\ s.base > 0
          BY DEF HeapBut, Mapped
        <5> QED
          BY <5>1, <5>2, FirstChunkFacts DEF NULL
      <4> QED
        BY <1>1, <1>4, <4>1
    <3> QED
      BY <1>4, <2>1, <3>1, NoHeader
  <2>2. CASE v # NULL
    <3>1. v \in DOMAIN m /\ v \in DOMAIN n /\ n[v].size = m[v].size
      BY <1>1, <1>7, <2>2 DEF FreeOf
    <3> QED
      BY <3>1, HeaderIs
  <2> QED
    BY <2>1, <2>2
<1>11. us = HeaderAt(n, u).size
  BY <1>1, HeaderIs
<1>12. \A a \in DOMAIN n : a <= u \/ a >= e
  <2> SUFFICES ASSUME NEW a \in DOMAIN n, ~ (a <= u) PROVE a >= e
    OBVIOUS
  <2>1. a \in Int /\ a \in DOMAIN m
    BY <1>1, <1>2 DEF IsMem
  <2>2. a >= hi
    <3>1. u < a
      BY <1>3, <2>1
    <3> QED
      BY <1>1, <1>3, <2>1, <3>1, ChunkFacts
  <2> QED
    BY <1>14, <2>1, <2>2
<1>13. Sound(n, S, e, B, v, vs, u, us)
  BY <1>1, <1>9, <1>10, <1>11, <1>12, <1>14 DEF Sound
<1> QED
  BY <1>1, <1>13

\* What is left of a heap's free chunks without those of a range with top in it.
LEMMA FreeBut ==
  ASSUME NEW m, NEW S, NEW e \in Int, NEW B, NEW v, NEW vs, NEW t, NEW ts,
         Sound(m, S, e, B, v, vs, t, ts), t # NULL
  PROVE  /\ B \subseteq Int /\ v \in Int /\ v \notin B
         /\ \A a \in Int : a \in B \/ (a = v /\ v # NULL) <=> a \in FreeOf(m) /\ a # t
<1>1. FreeOf(m) = B \cup ({v, t} \ {NULL}) /\ v \notin B /\ t \notin B /\ (v = t => v = NULL)
  BY DEF Sound, Binned
<1>2. IsMem(m) /\ v \in Int
  BY SoundHeap
<1>3. FreeOf(m) \subseteq Int
  BY <1>2 DEF FreeOf, IsMem
<1> QED
  BY <1>1, <1>2, <1>3

\* The front of top is handed out.
LEMMA TopSound ==
  ASSUME NEW m, NEW S, NEW e \in Int, NEW B, NEW v, NEW vs, NEW t, NEW ts,
         Sound(m, S, e, B, v, vs, t, ts), t # NULL,
         NEW want \in Int, Aligned(want), want >= min_chunk_size,
         NEW rest \in Int, rest = ts - want, rest > 0, NEW r \in Int, r = t + want,
         NEW n, n = FrontOfTop(m, t, ts, want)
  PROVE  Sound(n, S, e, B, v, vs, r, rest) /\ Gained(m, n, t, want)
<1>1. /\ t \in DOMAIN m /\ ~ m[t].cinuse /\ ts = m[t].size /\ End(m, t) \notin DOMAIN m /\ Aligned(t)
      /\ End(m, t) + top_foot_size = e /\ \A a \in DOMAIN m : a <= t \/ a >= e
  BY TopFacts
<1>2. Heap(m, S, t) /\ IsMem(m) /\ Mapped(S) /\ t \in Int /\ v \in Int /\ NULL \notin DOMAIN m
  BY SoundHeap
<1> DEFINE hi == End(m, t)
<1>3. /\ t > 0 /\ hi \in Int /\ m[t].size \in Int /\ t < hi /\ hi = t + m[t].size
      /\ Within(S, t, hi) /\ m[t].pinuse
      /\ \A b \in DOMAIN m : b < hi => End(m, b) <= hi
      /\ \A b \in DOMAIN m : b <= t \/ b >= hi
  BY <1>1, <1>2, ChunkFacts, FreeFacts
<1>4. /\ want > 0 /\ t < r /\ r < hi /\ hi = r + rest /\ r - t = want /\ hi - r = rest
      /\ want < ts /\ ts \in Int /\ t + ts = hi
  <2>1. want > 0
    BY Constants
  <2>2. ts = m[t].size
    BY <1>1
  <2>3. hi = r + rest
    BY <1>2, <1>3, <2>2
  <2> QED
    BY <1>2, <1>3, <2>1, <2>2, <2>3
<1>5. hi \notin DOMAIN m
  BY <1>1
<1> HIDE DEF hi
<1>6. /\ IsMem(n) /\ Cut(m, n, t, r, hi) /\ n[t].cinuse /\ n[t].pinuse /\ ~ n[r].cinuse
      /\ n[t].prev_foot = HeaderAt(m, t).prev_foot
  BY <1>2, <1>4, <1>5, WriteFrontOfTop
<1>7. n[t].pinuse = m[t].pinuse /\ n[t].prev_foot = m[t].prev_foot
  <2>1. n[t].pinuse \in BOOLEAN /\ m[t].pinuse \in BOOLEAN
    <3>1. t \in DOMAIN n
      BY <1>6 DEF Cut
    <3> QED
      BY <1>1, <1>2, <1>6, <3>1, MemFacts
  <2> QED
    BY <1>1, <1>3, <1>6, <2>1, HeaderIs
<1>8. r = LastPiece(t, r, hi) /\ r # hi
  BY <1>4 DEF LastPiece
<1>9. Aligned(r)
  BY <1>1, <1>2, AlignedSum
<1>10. HeapBut(m, S, t, t) /\ Rooted(m, S)
  BY <1>2 DEF Heap, HeapBut, Rooted, RootedBut
<1>11. EndCut(m, n, S, t, t, r, hi)
  <2>1. /\ IsMem(n) /\ t < r /\ r <= hi /\ Within(S, t, hi) /\ Cut(m, n, t, r, hi)
        /\ hi \notin DOMAIN m
    BY <1>3, <1>4, <1>5, <1>6
  <2>2. /\ t \in DOMAIN m /\ Rooted(m, S)
        /\ n[t].pinuse = m[t].pinuse /\ n[t].prev_foot = m[t].prev_foot
    BY <1>1, <1>7, <1>10
  <2>3. /\ \A a \in DOMAIN m : a < hi => End(m, a) <= hi \/ End(m, a) \notin DOMAIN m
        /\ (t <= t /\ t < hi) \/ t \notin DOMAIN m
    BY <1>2, <1>3
  <2>4. /\ ~ n[LastPiece(t, r, hi)].cinuse /\ (r = hi => n[t].pinuse)
        /\ Aligned(t) /\ (r # hi => Aligned(r) /\ r - t >= min_chunk_size)
    BY <1>1, <1>4, <1>6, <1>8, <1>9
  <2> QED
    BY <2>1, <2>2, <2>3, <2>4 DEF EndCut
<1>12. \A a \in DOMAIN m : (a < t \/ a >= hi) <=> a # t
  <2>1. \A a \in DOMAIN m : a \in Int
    BY <1>2 DEF IsMem
  <2> QED
    BY <1>2, <1>3, <2>1
<1>13. /\ B \subseteq Int /\ v \in Int /\ v \notin B
       /\ \A a \in Int : a \in B \/ (a = v /\ v # NULL) <=> a \in FreeOf(m) /\ a # t
  BY FreeBut
<1>14. \A a \in Int : a \in B \/ (a = v /\ v # NULL)
                      <=> a \in FreeOf(m) /\ (a < t \/ a >= hi)
  BY <1>12, <1>13 DEF FreeOf
<1>15. e = hi + top_foot_size /\ \A a \in DOMAIN m : a < hi \/ a >= e
  <2>1. \A a \in DOMAIN m : a \in Int
    BY <1>2 DEF IsMem
  <2> QED
    BY <1>1, <1>2, <1>3, <2>1 DEF hi
<1>16. vs = HeaderAt(m, v).size
  BY DEF Sound
<1>17. /\ Sound(n, S, e, B, v, vs, r, rest)
       /\ \A a : a \in UsedOf(n) <=>
            (a \in UsedOf(m) /\ (a < t \/ a >= hi)) \/ (a = t /\ r # hi)
       /\ \A a \in DOMAIN m : a < t \/ a >= hi => a \in DOMAIN n /\ n[a].size = m[a].size
       /\ r # hi => n[t].size = r - t
  <2>1. rest = hi - r /\ r = LastPiece(t, r, hi)
    BY <1>2, <1>4, <1>8
  <2>2. Kept(m, B, v, t, hi) /\ FootAt(m, hi, e)
    BY <1>13, <1>14, <1>15 DEF Kept, FootAt
  <2> QED
    BY <1>2, <1>3, <1>10, <1>11, <1>16, <2>1, <2>2, TopMade
<1>18. Gained(m, n, t, want)
  <2>1. /\ \A a : a \in UsedOf(m) => a \in DOMAIN m /\ a # t
    BY <1>1 DEF UsedOf
  <2>2. /\ \A a : a \in UsedOf(n) <=> a \in UsedOf(m) \/ a = t
        /\ \A a \in UsedOf(m) : n[a].size = m[a].size
    BY <1>8, <1>12, <1>17, <2>1
  <2>3. n[t].size = want /\ want < want + min_chunk_size
    BY <1>4, <1>8, <1>17, Constants
  <2> QED
    BY <1>1, <1>2, <1>3, <2>1, <2>2, <2>3 DEF Gained
<1> QED
  BY <1>17, <1>18

\* A chunk given back, with the free chunk before it (q, or p itself) and the one
\* after it (x, or p itself), is the designated victim if one of them was, or else
\* a chunk of a bin.
LEMMA PutBack ==
  ASSUME NEW m, NEW S, NEW e \in Int, NEW B, NEW v, NEW vs, NEW t, NEW ts,
         Sound(m, S, e, B, v, vs, t, ts), NEW n, NEW p, NEW q, NEW x, NEW hi,
         Freeing(m, n, t, p, q, x, hi)
  PROVE  /\ v \notin {q, x} => Sound(n, S, e, (B \ {x}) \cup {q}, v, vs, t, ts)
         /\ v \in {q, x} => Sound(n, S, e, B \ {q, x}, q, hi - q, t, ts)
         /\ Lost(m, n, p)
<1>1. /\ Heap(n, S, t) /\ ts = HeaderAt(n, t).size
      /\ t # NULL => End(n, t) + top_foot_size = e /\ \A a \in DOMAIN n : a <= t \/ a >= e
      /\ \A a : a \in FreeOf(n) <=> (a \in FreeOf(m) /\ a # x) \/ a = q
      /\ \A a : a \in UsedOf(n) <=> a \in UsedOf(m) /\ a # p
      /\ \A a \in DOMAIN m : a # p /\ a # q /\ a # x => a \in DOMAIN n /\ n[a].size = m[a].size
      /\ q \in DOMAIN n /\ n[q].size = hi - q
  BY Freed
<1>2. FreeOf(m) = B \cup ({v, t} \ {NULL}) /\ v \notin B /\ t \notin B /\ (v = t => v = NULL)
      /\ vs = HeaderAt(m, v).size
  BY DEF Sound, Binned
<1>3. NULL \notin DOMAIN n /\ NULL \notin DOMAIN m /\ Heap(m, S, t)
  BY <1>1, SoundHeap, NullFree
<1>4. /\ p \in DOMAIN m /\ m[p].cinuse /\ ~ Fence(m, p) /\ q \in DOMAIN m /\ x \in DOMAIN m
      /\ (q = p /\ m[p].pinuse) \/ (~ m[q].cinuse /\ End(m, q) = p)
      /\ x = p \/ (x = End(m, p) /\ ~ m[x].cinuse /\ x # t)
  BY DEF Freeing
<1>5. p # t /\ q # t /\ x # t /\ q # NULL /\ x # NULL /\ p # NULL
  <2>1. q # t
    <3>1. q = p \/ q # t
      BY <1>3, <1>4, TopFacts
    <3>2. p # t
      BY <1>3, <1>4, UsedFacts
    <3> QED
      BY <3>1, <3>2
  <2>2. p # t
    BY <1>3, <1>4, UsedFacts
  <2> QED
    BY <1>3, <1>4, <2>1, <2>2
<1>6. p \notin B /\ p # v
  <2>1. p \notin FreeOf(m)
    BY <1>4 DEF FreeOf
  <2> QED
    BY <1>2, <1>5, <2>1
<1>7. (q = p \/ q \in B \/ q = v) /\ (x = p \/ x \in B \/ x = v)
  <2>1. (q = p \/ q \in FreeOf(m)) /\ (x = p \/ x \in FreeOf(m))
    BY <1>4 DEF FreeOf
  <2> QED
    BY <1>2, <1>5, <2>1
<1>8. ASSUME v \notin {q, x} PROVE Sound(n, S, e, (B \ {x}) \cup {q}, v, vs, t, ts)
  <2>1. \A a : a \in FreeOf(n) <=> a \in ((B \ {x}) \cup {q}) \cup ({v, t} \ {NULL})
    BY <1>1, <1>2, <1>5, <1>8
  <2>2. Binned(n, (B \ {x}) \cup {q}, v, t)
    BY <1>2, <1>5, <1>8, <2>1 DEF Binned
  <2>3. vs = HeaderAt(n, v).size
    <3>1. CASE v = NULL
      BY <1>2, <1>3, <3>1, NoHeader
    <3>2. CASE v # NULL
      <4>1. v \in DOMAIN m /\ vs = m[v].size
        BY <3>2, VictimFacts
      <4> QED
        BY <1>1, <1>6, <1>8, <4>1, HeaderIs
    <3> QED
      BY <3>1, <3>2
  <2> QED
    BY <1>1, <2>2, <2>3 DEF Sound
<1>9. ASSUME v \in {q, x} PROVE Sound(n, S, e, B \ {q, x}, q, hi - q, t, ts)
  <2>1. \A a : a \in FreeOf(n) <=> a \in (B \ {q, x}) \cup ({q, t} \ {NULL})
    BY <1>1, <1>2, <1>5, <1>6, <1>7, <1>9
  <2>2. Binned(n, B \ {q, x}, q, t)
    BY <1>2, <1>5, <1>9, <2>1 DEF Binned
  <2>3. hi - q = HeaderAt(n, q).size
    BY <1>1, HeaderIs
  <2> QED
    BY <1>1, <2>2, <2>3 DEF Sound
<1>10. Lost(m, n, p)
  <2>1. \A a \in UsedOf(n) : a \in DOMAIN m /\ a # p /\ a # q /\ a # x
    <3>1. \A a \in UsedOf(m) : a \in DOMAIN m /\ m[a].cinuse
      BY DEF UsedOf
    <3> QED
      BY <1>1, <1>4, <3>1
  <2> QED
    BY <1>1, <2>1 DEF Lost
<1> QED
  BY <1>8, <1>9, <1>10

\* What free reads at a chunk in use: the free chunk before it, if its tag says that
\* there is one, and the chunk after it.
LEMMA GiveFacts ==
  ASSUME NEW m, NEW S, NEW e \in Int, NEW B, NEW v, NEW vs, NEW t, NEW ts,
         Sound(m, S, e, B, v, vs, t, ts), NEW p \in DOMAIN m, m[p].cinuse, ~ Fence(m, p),
         NEW psize, psize = m[p].size
  PROVE  /\ p \in Int /\ psize \in Int /\ p + psize \in DOMAIN m /\ p + psize = End(m, p)
         /\ FirstOf(m, p) \in DOMAIN m /\ FirstOf(m, p) \in Int
         /\ \/ FirstOf(m, p) = p /\ m[p].pinuse
            \/ /\ ~ m[FirstOf(m, p)].cinuse /\ End(m, FirstOf(m, p)) = p /\ FirstOf(m, p) < p
         /\ FirstOf(m, p) # t /\ p # t /\ p # v /\ p \notin B
         /\ Unlinked(B, m, p) = B \ {FirstOf(m, p)}
         /\ IsDv(m, p) <=> FirstOf(m, p) = dv /\ FirstOf(m, p) # p
         /\ FirstOf(m, p) # NULL
         /\ m[p + psize].pinuse /\ p < p + psize
<1>1. Heap(m, S, t) /\ NULL \notin DOMAIN m
  BY SoundHeap
<1>2. p \in Int /\ m[p].size \in Int /\ End(m, p) = p + m[p].size /\ p < End(m, p)
      /\ m[p].pinuse \in BOOLEAN
  BY <1>1, ChunkFacts
<1>3. p # t /\ End(m, p) \in DOMAIN m /\ m[End(m, p)].pinuse
  BY <1>1, UsedFacts
<1>4. p \notin B /\ p # v
  <2>1. p \notin FreeOf(m) /\ p # NULL
    BY <1>1 DEF FreeOf
  <2> QED
    BY <2>1 DEF Sound, Binned
<1>5. Merged(m, p) = ~ m[p].pinuse
  BY HeaderIs DEF Merged
<1>6. CASE m[p].pinuse
  <2>1. FirstOf(m, p) = p /\ ~ Merged(m, p)
    BY <1>5, <1>6 DEF FirstOf
  <2>2. Unlinked(B, m, p) = B \ {p} /\ ~ IsDv(m, p)
    BY <1>4, <2>1 DEF Unlinked, IsDv
  <2>3. p # NULL
    BY <1>1
  <2> QED
    BY <1>2, <1>3, <1>4, <1>6, <2>1, <2>2, <2>3
<1>7. CASE ~ m[p].pinuse
  <2> DEFINE q == p - m[p].prev_foot
  <2>1. q \in DOMAIN m /\ ~ m[q].cinuse /\ End(m, q) = p /\ q < p
    BY <1>1, <1>7, BeforeFacts
  <2>2. FirstOf(m, p) = q /\ Merged(m, p)
    BY <1>5, <1>7, HeaderIs DEF FirstOf
  <2>3. Unlinked(B, m, p) = B \ {FirstOf(m, p)} /\ (IsDv(m, p) <=> FirstOf(m, p) = dv)
    BY <2>2 DEF Unlinked, IsDv
  <2> HIDE DEF q
  <2>4. q # t
    <3>1. t # NULL => End(m, t) \notin DOMAIN m
      BY TopFacts
    <3> QED
      BY <1>1, <2>1, <3>1
  <2>5. q \in Int /\ q # NULL
    BY <1>1, <2>1, ChunkFacts
  <2>6. q # p
    BY <1>2, <2>1, <2>5
  <2> QED
    BY <1>2, <1>3, <1>4, <2>1, <2>2, <2>3, <2>4, <2>5, <2>6
<1> QED
  BY <1>2, <1>6, <1>7

\* The two ways in which free writes the chunk it has joined.
LEMMA GiveAlone ==
  ASSUME NEW m, NEW S, NEW e \in Int, NEW B, NEW v, NEW vs, NEW t, NEW ts,
         Sound(m, S, e, B, v, vs, t, ts), NEW p \in DOMAIN m, m[p].cinuse, ~ Fence(m, p),
         NEW q, q = FirstOf(m, p), NEW size, NEW hi, hi = p + m[p].size, size = hi - q,
         m[hi].cinuse, NEW n, n = set_free_with_pinuse(m, q, size, hi)
  PROVE  Freeing(m, n, t, p, q, p, hi)
<1>1. IsMem(m) /\ Heap(m, S, t)
  BY SoundHeap
<1>2. /\ p \in Int /\ hi \in DOMAIN m /\ hi = End(m, p) /\ q \in DOMAIN m /\ q \in Int /\ p < hi
      /\ (q = p /\ m[p].pinuse) \/ (~ m[q].cinuse /\ End(m, q) = p /\ q < p)
  BY GiveFacts
<1>3. hi \in Int /\ q < hi /\ size \in Int /\ size > 0 /\ q + size = hi /\ hi - q = size
  BY <1>1, <1>2 DEF IsMem
<1>4. n = set_free_with_pinuse(m, q, size, q + size)
  BY <1>3
<1>5. /\ Wrote(m, n, q, hi) /\ n[q].pinuse /\ ~ n[q].cinuse
      /\ hi \in DOMAIN n /\ ~ n[hi].pinuse /\ n[hi].prev_foot = size
  BY <1>1, <1>2, <1>3, <1>4, WriteFree
<1>6. n[q].size = size /\ IsMem(n) /\ n[q].prev_foot = m[q].prev_foot
  BY <1>2, <1>3, <1>5, HeaderIs DEF Wrote
<1>7. n[hi].pinuse = n[q].cinuse
  <2>1. n[hi].pinuse \in BOOLEAN /\ n[q].cinuse \in BOOLEAN
    <3>1. q \in DOMAIN n
      BY <1>5 DEF Wrote
    <3> QED
      BY <1>5, <1>6, <3>1, MemFacts
  <2> QED
    BY <1>5, <2>1
<1>8. Cut(m, n, q, hi, hi)
  BY <1>1, <1>2, <1>3, <1>5, <1>6, <1>7, CutOne
<1> QED
  BY <1>2, <1>5, <1>6, <1>8 DEF Freeing

\* A chunk given back together with the free chunk after it.
LEMMA GiveWithNext ==
  ASSUME NEW m, NEW S, NEW e \in Int, NEW B, NEW v, NEW vs, NEW t, NEW ts,
         Sound(m, S, e, B, v, vs, t, ts), NEW p \in DOMAIN m, m[p].cinuse, ~ Fence(m, p),
         NEW q, q = FirstOf(m, p), NEW x, x = p + m[p].size, x # t, ~ m[x].cinuse,
         NEW size, NEW hi, hi = x + m[x].size, size = hi - q,
         NEW n, n = set_size_and_pinuse_of_free_chunk(m, q, size)
  PROVE  Freeing(m, n, t, p, q, x, hi)
<1>1. IsMem(m) /\ Heap(m, S, t)
  BY SoundHeap
<1>2. /\ p \in Int /\ x \in DOMAIN m /\ x = End(m, p) /\ q \in DOMAIN m /\ q \in Int /\ p < x
      /\ (q = p /\ m[p].pinuse) \/ (~ m[q].cinuse /\ End(m, q) = p /\ q < p)
  BY GiveFacts
<1>3. hi \in DOMAIN m /\ ~ m[hi].pinuse /\ hi = End(m, x) /\ x < hi /\ x \in Int
  BY <1>1, <1>2, FreeFacts, ChunkFacts
<1>4. hi \in Int /\ q < hi /\ size \in Int /\ size > 0 /\ q + size = hi /\ hi - q = size
  BY <1>1, <1>2, <1>3 DEF IsMem
<1>5. \/ n = set_size_and_pinuse_of_free_chunk(m, q, size) /\ ~ pinuse(m, q + size)
      \/ n = set_free_with_pinuse(m, q, size, q + size)
  BY SMTT(30), <1>3, <1>4, HeaderIs
<1>6. /\ Wrote(m, n, q, hi) /\ n[q].pinuse /\ ~ n[q].cinuse
      /\ hi \in DOMAIN n /\ ~ n[hi].pinuse /\ n[hi].prev_foot = size
  <2>1. /\ Wrote(m, n, q, q + size) /\ n[q].pinuse /\ ~ n[q].cinuse
        /\ q + size \in DOMAIN n /\ ~ n[q + size].pinuse /\ n[q + size].prev_foot = size
    <3>1. IsMem(m) /\ q \in Int /\ size \in Int /\ size > 0
      BY <1>1, <1>2, <1>4
    <3> QED
      BY <3>1, <1>5, WriteFree
  <2> QED
    BY <1>4, <2>1
<1>7. n[q].size = size /\ IsMem(n) /\ n[q].prev_foot = m[q].prev_foot
  BY SMTT(30), <1>2, <1>4, <1>6, HeaderIs DEF Wrote
<1>8. n[hi].pinuse = n[q].cinuse
  <2>1. n[hi].pinuse \in BOOLEAN /\ n[q].cinuse \in BOOLEAN
    <3>1. q \in DOMAIN n
      BY <1>6 DEF Wrote
    <3> QED
      BY SMTT(30), <1>6, <1>7, <3>1, MemFacts
  <2> QED
    BY SMTT(30), <1>6, <2>1
<1>9. Cut(m, n, q, hi, hi)
  BY <1>1, <1>2, <1>3, <1>4, <1>6, <1>7, <1>8, CutOne
<1> QED
  BY <1>2, <1>3, <1>6, <1>7, <1>9 DEF Freeing

\* A chunk given back before top becomes the front of top.
LEMMA PutBackTop ==
  ASSUME NEW m, NEW S, NEW e \in Int, NEW B, NEW v, NEW vs, NEW t, NEW ts,
         Sound(m, S, e, B, v, vs, t, ts), NEW p \in DOMAIN m, m[p].cinuse, ~ Fence(m, p),
         NEW q, q = FirstOf(m, p), p + m[p].size = t, t # NULL,
         NEW size, size = ts + (t - q), NEW n, n = TopFrom(m, q, size)
  PROVE  /\ v # q => Sound(n, S, e, B \ {q}, v, vs, q, size)
         /\ v = q => Sound(n, S, e, B \ {q}, NULL, 0, q, size)
         /\ Lost(m, n, p)
<1>1. /\ IsMem(m) /\ Heap(m, S, t) /\ t \in Int /\ v \in Int /\ NULL \notin DOMAIN m
      /\ Mapped(S)
  BY SoundHeap
<1>2. /\ p \in Int /\ t = End(m, p) /\ q \in DOMAIN m /\ q \in Int /\ p < t
      /\ (q = p /\ m[p].pinuse) \/ (~ m[q].cinuse /\ End(m, q) = p /\ q < p)
      /\ q # t /\ p # t /\ p # v /\ p \notin B /\ q # NULL
  BY GiveFacts
<1> DEFINE hi == End(m, t)
<1>3. /\ t \in DOMAIN m /\ ~ m[t].cinuse /\ ts = m[t].size /\ hi \notin DOMAIN m
      /\ hi + top_foot_size = e /\ \A a \in DOMAIN m : a <= t \/ a >= e
  BY TopFacts
<1>4. /\ hi \in Int /\ q < hi /\ m[q].pinuse /\ Aligned(q) /\ Within(S, q, hi)
      /\ \A a \in DOMAIN m : (a < q \/ a >= hi) <=> (a # q /\ a # p /\ a # t)
      /\ \A a \in DOMAIN m : a < hi => End(m, a) <= hi
      /\ t + ts = hi /\ ts \in Int
  <2>1. (q = p /\ m[p].pinuse) \/ (~ m[q].cinuse /\ End(m, q) = p)
    BY <1>2
  <2>2. /\ hi \in Int /\ q < hi /\ m[q].pinuse /\ Aligned(q) /\ Within(S, q, hi)
        /\ \A a \in DOMAIN m : (a < q \/ a >= hi) <=> (a # q /\ a # p /\ a # t)
    BY <1>2, <1>3, <2>1, FreeRange
  <2>3. /\ \A a \in DOMAIN m : a < hi => End(m, a) <= hi
        /\ hi = t + m[t].size /\ m[t].size \in Int
    BY <1>1, <1>3, ChunkFacts
  <2> QED
    BY <1>3, <2>2, <2>3
<1> HIDE DEF hi
<1>5. size \in Int /\ hi = q + size /\ size > 0 /\ size = hi - q
  BY <1>1, <1>2, <1>4
<1>6. /\ IsMem(n) /\ Cut(m, n, q, hi, hi) /\ ~ n[q].cinuse /\ n[q].pinuse
      /\ n[q].prev_foot = HeaderAt(m, q).prev_foot
  BY <1>1, <1>2, <1>3, <1>4, <1>5, WriteEnd
<1>7. q = LastPiece(q, hi, hi)
  BY DEF LastPiece
<1>8. HeapBut(m, S, t, q) /\ Rooted(m, S)
  BY <1>1 DEF Heap, HeapBut, Rooted, RootedBut
<1>9. n[q].pinuse = m[q].pinuse /\ n[q].prev_foot = m[q].prev_foot
  <2>1. n[q].pinuse \in BOOLEAN /\ m[q].pinuse \in BOOLEAN
    <3>1. q \in DOMAIN n
      BY <1>6, <1>7 DEF Cut
    <3> QED
      BY <1>1, <1>2, <1>6, <3>1, MemFacts
  <2> QED
    BY <1>2, <1>4, <1>6, <2>1, HeaderIs
<1>10. EndCut(m, n, S, t, q, hi, hi)
  <2>1. /\ IsMem(n) /\ q < hi /\ hi <= hi /\ Within(S, q, hi) /\ Cut(m, n, q, hi, hi)
        /\ hi \notin DOMAIN m
    BY <1>3, <1>4, <1>6
  <2>2. /\ q \in DOMAIN m /\ Rooted(m, S)
        /\ n[q].pinuse = m[q].pinuse /\ n[q].prev_foot = m[q].prev_foot
    BY <1>2, <1>8, <1>9
  <2>3. /\ \A a \in DOMAIN m : a < hi => End(m, a) <= hi \/ End(m, a) \notin DOMAIN m
        /\ (q <= t /\ t < hi) \/ t \notin DOMAIN m
    <3>1. ~ (t < q \/ t >= hi)
      BY <1>3, <1>4
    <3> QED
      BY <1>1, <1>2, <1>4, <3>1
  <2>4. /\ ~ n[LastPiece(q, hi, hi)].cinuse /\ (hi = hi => n[q].pinuse)
        /\ Aligned(q)
    BY <1>4, <1>6, <1>7
  <2> QED
    BY <2>1, <2>2, <2>3, <2>4 DEF EndCut
<1>11. FootAt(m, hi, e)
  <2>1. \A a \in DOMAIN m : a \in Int
    BY <1>1 DEF IsMem
  <2> QED
    BY <1>1, <1>3, <1>4, <2>1, ChunkFacts DEF FootAt, hi
<1>12. /\ B \subseteq Int /\ v \notin B
       /\ \A a \in Int : a \in B \/ (a = v /\ v # NULL) <=> a \in FreeOf(m) /\ a # t
  BY <1>2, FreeBut
<1>13. \A a \in Int : a \in FreeOf(m) /\ a # t /\ a # q
                      <=> a \in FreeOf(m) /\ (a < q \/ a >= hi)
  BY <1>2, <1>4 DEF FreeOf
<1>14. vs = HeaderAt(m, v).size /\ 0 = HeaderAt(m, NULL).size /\ NULL \in Int
  BY <1>1, NoHeader DEF Sound, NULL
<1>15. ASSUME NEW w, NEW ws, ws = HeaderAt(m, w).size, Kept(m, B \ {q}, w, q, hi)
       PROVE  /\ Sound(n, S, e, B \ {q}, w, ws, q, size)
              /\ \A a : a \in UsedOf(n) <=> a \in UsedOf(m) /\ (a < q \/ a >= hi)
              /\ \A a \in DOMAIN m : a < q \/ a >= hi => n[a].size = m[a].size
  <2>1. e \in Int /\ hi \in Int /\ q \in Int /\ t \in Int
    BY <1>1, <1>2, <1>4
  <2> QED
    BY <1>5, <1>7, <1>8, <1>10, <1>11, <1>15, <2>1, TopMade
<1>16. v # q => Kept(m, B \ {q}, v, q, hi)
  BY <1>1, <1>12, <1>13 DEF Kept
<1>17. v = q => Kept(m, B \ {q}, NULL, q, hi)
  <2>1. NULL \notin FreeOf(m)
    BY <1>1 DEF FreeOf
  <2> QED
    BY <1>1, <1>12, <1>13, <1>14, <2>1 DEF Kept
<1>18. /\ v # q => Sound(n, S, e, B \ {q}, v, vs, q, size)
       /\ v = q => Sound(n, S, e, B \ {q}, NULL, 0, q, size)
  BY <1>14, <1>15, <1>16, <1>17
<1>19. Lost(m, n, p)
  <2>1. /\ \A a : a \in UsedOf(n) <=> a \in UsedOf(m) /\ (a < q \/ a >= hi)
        /\ \A a \in DOMAIN m : a < q \/ a >= hi => n[a].size = m[a].size
    BY <1>14, <1>15, <1>16, <1>17
  <2>2. \A a \in UsedOf(m) : a \in DOMAIN m /\ (a < q \/ a >= hi <=> a # p)
    BY <1>2, <1>3, <1>4 DEF UsedOf
  <2> QED
    BY <2>1, <2>2 DEF Lost
<1> QED
  BY <1>18, <1>19

-----------------------------------------------------------------------------
(* dispose_chunk, and free, which does the same                                 *)

\* dispose_chunk keeps the heap sound and takes one chunk out of use: when the chunk
\* becomes part of top,
LEMMA GrownTop ==
  ASSUME NEW m, NEW S, NEW e \in Int, NEW B, Sound(m, S, e, B, dv, dvsize, top, topsize),
         NEW p \in DOMAIN m, m[p].cinuse, ~ Fence(m, p), NEW psize, psize = m[p].size,
         GrowTop(B, m, p, psize)
  PROVE  Sound(mem', S, e, bins', dv', dvsize', top', topsize') /\ Lost(m, mem', p)
<1> DEFINE q == FirstOf(m, p)
<1>1. /\ p \in Int /\ psize \in Int /\ p + psize \in DOMAIN m /\ q \in Int
      /\ Unlinked(B, m, p) = B \ {q} /\ q # top
  BY GiveFacts
<1>2. top # NULL /\ p + psize = top
  <2>1. p + psize = top
    BY DEF GrowTop
  <2> QED
    BY <1>1, <2>1, SoundHeap
<1>3. /\ topsize' = topsize + Joined(m, p, psize) /\ top' = q
      /\ mem' = TopFrom(m, q, topsize') /\ bins' = Unlinked(B, m, p)
      /\ IF q = dv THEN dv' = NULL /\ dvsize' = 0 ELSE dv' = dv /\ dvsize' = dvsize
  BY DEF GrowTop, TopFrom
<1>4. topsize' = topsize + (top - q) /\ mem' = TopFrom(m, q, topsize')
  <2>1. Joined(m, p, psize) = top - q
    BY <1>1, <1>2 DEF Joined
  <2> QED
    BY <1>3, <2>1
<1>5. p + m[p].size = top
  BY <1>2
<1>6. q = FirstOf(m, p)
  OBVIOUS
<1> HIDE DEF q
<1>7. /\ dv # q => Sound(mem', S, e, B \ {q}, dv, dvsize, q, topsize')
      /\ dv = q => Sound(mem', S, e, B \ {q}, NULL, 0, q, topsize')
      /\ Lost(m, mem', p)
  BY <1>2, <1>4, <1>5, <1>6, PutBackTop
<1>8. bins' = B \ {q}
  BY <1>1, <1>3
<1> QED
  BY <1>3, <1>7, <1>8

\* of the designated victim,
LEMMA GrownDv ==
  ASSUME NEW m, NEW S, NEW e \in Int, NEW B, Sound(m, S, e, B, dv, dvsize, top, topsize),
         NEW p \in DOMAIN m, m[p].cinuse, ~ Fence(m, p), NEW psize, psize = m[p].size,
         GrowDv(B, m, p, psize)
  PROVE  Sound(mem', S, e, bins', dv', dvsize', top', topsize') /\ Lost(m, mem', p)
<1> DEFINE q == FirstOf(m, p)
           x == p + psize
<1>1. /\ p \in Int /\ psize \in Int /\ x \in DOMAIN m /\ q \in Int /\ q \in DOMAIN m
      /\ Unlinked(B, m, p) = B \ {q} /\ p # dv /\ p \notin B
      /\ IsDv(m, p) <=> q = dv /\ q # p
      /\ x \in Int /\ x # NULL
  <2>1. /\ p \in Int /\ psize \in Int /\ x \in DOMAIN m /\ q \in Int /\ q \in DOMAIN m
        /\ Unlinked(B, m, p) = B \ {q} /\ p # dv /\ p \notin B
        /\ IsDv(m, p) <=> q = dv /\ q # p
    BY GiveFacts
  <2>2. IsMem(m) /\ NULL \notin DOMAIN m
    BY SoundHeap
  <2> QED
    BY <2>1, <2>2
<1>2. /\ x # top /\ top' = top /\ topsize' = topsize
      /\ Joined(m, p, psize) = x - q
  BY <1>1 DEF GrowDv, Joined
<1>3. HeaderAt(m, x).size = m[x].size /\ cinuse(m, x) = m[x].cinuse /\ m[x].size \in Int
  BY <1>1, HeaderIs, SoundHeap, ChunkFacts
<1>4. q = FirstOf(m, p) /\ x = p + m[p].size
  OBVIOUS
<1>5. /\ dv = x => dvsize = m[x].size
      /\ dv \notin B
  <2>1. dv \notin B
    BY DEF Sound, Binned
  <2> QED
    BY <1>1, <2>1, VictimFacts
<1>6. \/ /\ IsDv(m, p) /\ cinuse(m, x)
         /\ dv' = q /\ dvsize' = x - q /\ mem' = set_free_with_pinuse(m, q, x - q, x) /\ bins' = B
      \/ /\ x = dv /\ dv' = q /\ dvsize' = dvsize + (x - q)
         /\ mem' = set_size_and_pinuse_of_free_chunk(m, q, dvsize') /\ bins' = Unlinked(B, m, p)
      \/ /\ IsDv(m, p) /\ x # dv /\ ~ cinuse(m, x)
         /\ dv' = q /\ dvsize' = (x - q) + m[x].size
         /\ mem' = set_size_and_pinuse_of_free_chunk(m, q, dvsize') /\ bins' = B \ {x}
  BY <1>2, <1>3 DEF GrowDv
<1> HIDE DEF q, x
<1>7. CASE /\ IsDv(m, p) /\ cinuse(m, x)
           /\ dv' = q /\ dvsize' = x - q /\ mem' = set_free_with_pinuse(m, q, x - q, x) /\ bins' = B
  <2>1. m[x].cinuse
    BY <1>3, <1>7
  <2>2. Freeing(m, mem', top, p, q, p, x)
    BY <1>4, <1>7, <2>1, GiveAlone
  <2>3. dv \in {q, p} /\ B \ {q, p} = B
    BY <1>1, <1>5, <1>7
  <2>4. Sound(mem', S, e, B \ {q, p}, q, x - q, top, topsize) /\ Lost(m, mem', p)
    BY <2>2, <2>3, PutBack
  <2> QED
    BY <1>2, <1>7, <2>3, <2>4
<1>8. CASE /\ x = dv \/ (IsDv(m, p) /\ x # dv /\ ~ cinuse(m, x))
           /\ dv' = q /\ dvsize' = (x - q) + m[x].size
           /\ mem' = set_size_and_pinuse_of_free_chunk(m, q, dvsize')
           /\ bins' = B \ {q, x}
  <2>1. ~ m[x].cinuse
    BY <1>1, <1>3, <1>8, VictimFacts
  <2> DEFINE hi == x + m[x].size
  <2>2. dvsize' = hi - q
    BY <1>1, <1>3, <1>8
  <2>3. hi = x + m[x].size
    OBVIOUS
  <2> HIDE DEF hi
  <2>4. Freeing(m, mem', top, p, q, x, hi)
    BY <1>2, <1>4, <1>8, <2>1, <2>2, <2>3, GiveWithNext
  <2>5. dv \in {q, x}
    BY <1>1, <1>8
  <2>6. Sound(mem', S, e, B \ {q, x}, q, hi - q, top, topsize) /\ Lost(m, mem', p)
    BY <2>4, <2>5, PutBack
  <2> QED
    BY <1>2, <1>8, <2>2, <2>6
<1>9. x = dv => B \ {q} = B \ {q, x} /\ dvsize = m[x].size /\ dvsize + (x - q) = (x - q) + m[x].size
  BY <1>1, <1>3, <1>5
<1>10. IsDv(m, p) => B \ {x} = B \ {q, x}
  BY <1>1, <1>5
<1> QED
  BY <1>1, <1>6, <1>7, <1>8, <1>9, <1>10

\* or a chunk of a bin,
LEMMA GrownBin ==
  ASSUME NEW m, NEW S, NEW e \in Int, NEW B, Sound(m, S, e, B, dv, dvsize, top, topsize),
         NEW p \in DOMAIN m, m[p].cinuse, ~ Fence(m, p), NEW psize, psize = m[p].size,
         GrowBin(B, m, p, psize)
  PROVE  Sound(mem', S, e, bins', dv', dvsize', top', topsize') /\ Lost(m, mem', p)
<1> DEFINE q == FirstOf(m, p)
           x == p + psize
<1>1. /\ p \in Int /\ psize \in Int /\ x \in DOMAIN m /\ q \in Int /\ q \in DOMAIN m
      /\ Unlinked(B, m, p) = B \ {q} /\ p # dv /\ p \notin B
      /\ IsDv(m, p) <=> q = dv /\ q # p
      /\ x \in Int
  <2>1. /\ p \in Int /\ psize \in Int /\ x \in DOMAIN m /\ q \in Int /\ q \in DOMAIN m
        /\ Unlinked(B, m, p) = B \ {q} /\ p # dv /\ p \notin B
        /\ IsDv(m, p) <=> q = dv /\ q # p
    BY GiveFacts
  <2>2. IsMem(m)
    BY SoundHeap
  <2> QED
    BY <2>1, <2>2
<1>2. /\ x # top /\ x # dv /\ ~ IsDv(m, p) /\ top' = top /\ topsize' = topsize
      /\ dv' = dv /\ dvsize' = dvsize /\ Joined(m, p, psize) = x - q
  BY <1>1 DEF GrowBin, Joined
<1>3. HeaderAt(m, x).size = m[x].size /\ cinuse(m, x) = m[x].cinuse /\ m[x].size \in Int
  BY <1>1, HeaderIs, SoundHeap, ChunkFacts
<1>4. q = FirstOf(m, p) /\ x = p + m[p].size
  OBVIOUS
<1>5. dv \notin {q, x}
  BY <1>1, <1>2
<1>6. \/ /\ cinuse(m, x) /\ mem' = set_free_with_pinuse(m, q, x - q, x)
         /\ bins' = Unlinked(B, m, p) \cup {q}
      \/ /\ ~ cinuse(m, x) /\ mem' = set_size_and_pinuse_of_free_chunk(m, q, (x - q) + m[x].size)
         /\ bins' = (Unlinked(B, m, p) \ {x}) \cup {q}
  <2>1. BinnedSize(m, p, psize) = (x - q) + (IF cinuse(m, x) THEN 0 ELSE m[x].size)
    BY <1>2, <1>3 DEF BinnedSize
  <2>2. cinuse(m, x) => BinnedSize(m, p, psize) = x - q
    BY <1>1, <2>1
  <2>3. ~ cinuse(m, x) => BinnedSize(m, p, psize) = (x - q) + m[x].size
    BY <2>1
  <2> QED
    BY <2>2, <2>3 DEF GrowBin
<1> HIDE DEF q, x
<1>7. CASE /\ cinuse(m, x) /\ mem' = set_free_with_pinuse(m, q, x - q, x)
           /\ bins' = Unlinked(B, m, p) \cup {q}
  <2>1. m[x].cinuse
    BY <1>3, <1>7
  <2>2. Freeing(m, mem', top, p, q, p, x)
    BY <1>4, <1>7, <2>1, GiveAlone
  <2>3. dv \notin {q, p} /\ bins' = (B \ {p}) \cup {q}
    BY <1>1, <1>5, <1>7
  <2>4. Sound(mem', S, e, (B \ {p}) \cup {q}, dv, dvsize, top, topsize) /\ Lost(m, mem', p)
    BY <2>2, <2>3, PutBack
  <2> QED
    BY <1>2, <2>3, <2>4
<1>8. CASE /\ ~ cinuse(m, x) /\ mem' = set_size_and_pinuse_of_free_chunk(m, q, (x - q) + m[x].size)
           /\ bins' = (Unlinked(B, m, p) \ {x}) \cup {q}
  <2>1. ~ m[x].cinuse
    BY <1>3, <1>8
  <2> DEFINE hi == x + m[x].size
  <2>2. (x - q) + m[x].size = hi - q
    BY <1>1, <1>3
  <2>3. hi = x + m[x].size
    OBVIOUS
  <2> HIDE DEF hi
  <2>4. Freeing(m, mem', top, p, q, x, hi)
    BY <1>2, <1>4, <1>8, <2>1, <2>2, <2>3, GiveWithNext
  <2>5. bins' = (B \ {x}) \cup {q}
    BY <1>1, <1>8
  <2>6. Sound(mem', S, e, (B \ {x}) \cup {q}, dv, dvsize, top, topsize) /\ Lost(m, mem', p)
    BY <1>5, <2>4, PutBack
  <2> QED
    BY <1>2, <2>5, <2>6
<1> QED
  BY <1>6, <1>7, <1>8

\* and so in every case.
LEMMA Disposed ==
  ASSUME NEW m, NEW S, NEW e \in Int, NEW B, Sound(m, S, e, B, dv, dvsize, top, topsize),
         NEW p \in DOMAIN m, m[p].cinuse, ~ Fence(m, p), NEW psize, psize = m[p].size,
         dispose_chunk(B, m, p, psize)
  PROVE  Sound(mem', S, e, bins', dv', dvsize', top', topsize') /\ Lost(m, mem', p)
BY GrownTop, GrownDv, GrownBin DEF dispose_chunk

-----------------------------------------------------------------------------
(* A chunk in use cut in two, or made larger by the free chunk after it         *)

Without(C, B, x) == C = B \ {x}

\* A chunk in use is in none of the places of free chunks.
LEMMA UsedPlaces ==
  ASSUME NEW m, NEW S, NEW e \in Int, NEW B, NEW v, NEW vs, NEW t, NEW ts,
         Sound(m, S, e, B, v, vs, t, ts), NEW p, p \in DOMAIN m, m[p].cinuse
  PROVE  p # v /\ p \notin B /\ p # t
<1>1. Heap(m, S, t) /\ NULL \notin DOMAIN m
  BY SoundHeap
<1>2. p \notin FreeOf(m) /\ p # NULL
  BY <1>1 DEF FreeOf
<1> QED
  BY <1>2 DEF Sound, Binned

\* What a cut of a chunk in use and of what is behind it leaves of a sound heap.
LEMMA RecutSound ==
  ASSUME NEW m, NEW S, NEW e \in Int, NEW B, NEW v, NEW vs, NEW t, NEW ts,
         Sound(m, S, e, B, v, vs, t, ts), NEW n, NEW p, NEW q, NEW mid \in Int, NEW hi,
         Recutting(m, n, t, p, q, mid, hi),
         NEW C, Without(C, B, q)
  PROVE  /\ (mid = hi \/ n[mid].cinuse) =>
              /\ v # q => Sound(n, S, e, C, v, vs, t, ts)
              /\ v = q => Sound(n, S, e, B, NULL, 0, t, ts)
         /\ mid # hi /\ ~ n[mid].cinuse /\ v = q => Sound(n, S, e, B, mid, hi - mid, t, ts)
         /\ \A a \in UsedOf(m) : a # p => n[a].size = m[a].size
<1>0. Recuts(m, n, S, e, t, ts, p, q, mid, hi)
  BY Recut
<1>1. /\ Heap(n, S, t) /\ ts = HeaderAt(n, t).size
      /\ t # NULL => End(n, t) + top_foot_size = e /\ \A a \in DOMAIN n : a <= t \/ a >= e
      /\ \A a : a \in FreeOf(n) <=>
           (a \in FreeOf(m) /\ a # q) \/ (a = mid /\ mid # hi /\ ~ n[mid].cinuse)
      /\ \A a : a \in UsedOf(n) <=>
           a \in UsedOf(m) \/ (a = mid /\ mid # hi /\ n[mid].cinuse)
      /\ \A a \in DOMAIN m : a # p /\ a # q => a \in DOMAIN n /\ n[a].size = m[a].size
      /\ n[p].size = mid - p
      /\ mid # hi => mid \in DOMAIN n /\ n[mid].size = hi - mid /\ mid \notin UsedOf(m)
  BY <1>0 DEF Recuts
<1>2. FreeOf(m) = B \cup ({v, t} \ {NULL}) /\ v \notin B /\ t \notin B /\ (v = t => v = NULL)
      /\ vs = HeaderAt(m, v).size
  BY DEF Sound, Binned
<1>3. NULL \notin DOMAIN n /\ NULL \notin DOMAIN m /\ Heap(m, S, t)
  BY <1>1, SoundHeap, NullFree
<1>4. /\ p \in DOMAIN m /\ m[p].cinuse /\ ~ Fence(m, p) /\ q \in DOMAIN m
      /\ q = p \/ (q = End(m, p) /\ ~ m[q].cinuse /\ q # t)
  BY DEF Recutting
<1>5. p # t /\ q # t /\ q # NULL /\ p # NULL /\ p \notin B /\ p # v
  <2>1. p # t
    BY <1>3, <1>4, UsedFacts
  <2>2. p \notin FreeOf(m) /\ p # NULL /\ q # NULL
    BY <1>3, <1>4 DEF FreeOf
  <2> QED
    BY <1>2, <1>4, <2>1, <2>2
<1>6. v # q => vs = HeaderAt(n, v).size
  <2>1. CASE v = NULL
    BY <1>2, <1>3, <2>1, NoHeader
  <2>2. CASE v # NULL
    <3>1. v \in DOMAIN m /\ vs = m[v].size
      BY <2>2, VictimFacts
    <3> QED
      BY <1>1, <1>5, <3>1, HeaderIs
  <2> QED
    BY <2>1, <2>2
<1>7. ASSUME mid = hi \/ n[mid].cinuse
      PROVE  /\ v # q => Sound(n, S, e, C, v, vs, t, ts)
             /\ v = q => Sound(n, S, e, B, NULL, 0, t, ts)
  <2>1. \A a : a \in FreeOf(n) <=> a \in FreeOf(m) /\ a # q
    BY <1>1, <1>7
  <2>2. v # q => Binned(n, C, v, t)
    BY <1>2, <1>5, <2>1 DEF Binned, Without
  <2>3. NULL \notin B
    BY <1>2, <1>3 DEF FreeOf
  <2>4. v = q => Binned(n, B, NULL, t)
    BY <1>2, <1>5, <2>1, <2>3 DEF Binned
  <2>5. HeaderAt(n, NULL).size = 0
    BY <1>3, NoHeader
  <2> QED
    BY <1>1, <1>6, <2>2, <2>4, <2>5 DEF Sound
<1>8. ASSUME mid # hi, ~ n[mid].cinuse, v = q
      PROVE  Sound(n, S, e, B, mid, hi - mid, t, ts)
  <2>1. \A a : a \in FreeOf(n) <=> (a \in FreeOf(m) /\ a # q) \/ a = mid
    BY <1>1, <1>8
  <2>2. mid \in DOMAIN n /\ mid # NULL /\ HeaderAt(n, mid).size = hi - mid
    BY <1>1, <1>3, <1>8, HeaderIs
  <2>3. mid # t /\ mid \notin B
    <3>1. mid \in DOMAIN m => mid = q
      <4>1. p < mid /\ mid < hi /\ hi = End(m, q) /\ hi \in Int /\ p \in Int
            /\ \A a \in DOMAIN m : a < p \/ a >= hi <=> a # p /\ a # q
        <5>1. p < mid /\ mid <= hi /\ hi = End(m, q)
          BY DEF Recutting
        <5>2. /\ End(m, q) \in Int /\ p \in Int
              /\ \A a \in DOMAIN m : a < p \/ a >= End(m, q) <=> a # p /\ a # q
          BY <1>4, RecutRange
        <5> QED
          BY <1>8, <5>1, <5>2
      <4> QED
        BY <4>1
    <3>2. t # NULL => t \in DOMAIN m
      BY TopFacts
    <3>3. B \subseteq DOMAIN m
      BY <1>2 DEF FreeOf
    <3> QED
      BY <1>2, <1>5, <1>8, <2>2, <3>1, <3>2, <3>3
  <2>4. Binned(n, B, mid, t)
    BY <1>2, <1>5, <1>8, <2>1, <2>2, <2>3 DEF Binned
  <2> QED
    BY <1>1, <2>2, <2>4 DEF Sound
<1>9. \A a \in UsedOf(m) : a # p => n[a].size = m[a].size
  BY <1>1, <1>4 DEF UsedOf
<1> QED
  BY <1>7, <1>8, <1>9

\* The same, told apart by what lies behind mid: nothing or a chunk in use, ...
LEMMA RecutUsed ==
  ASSUME NEW m, NEW S, NEW e \in Int, NEW B, NEW v, NEW vs, NEW t, NEW ts,
         Sound(m, S, e, B, v, vs, t, ts), NEW n, NEW p, NEW q, NEW mid \in Int, NEW hi,
         Recutting(m, n, t, p, q, mid, hi),
         mid = hi \/ mid \in UsedOf(n),
         NEW C, Without(C, B, q)
  PROVE  /\ v # q => Sound(n, S, e, C, v, vs, t, ts)
         /\ v = q => Sound(n, S, e, B, NULL, 0, t, ts)
         /\ \A a : a \in UsedOf(n) <=> a \in UsedOf(m) \/ (a = mid /\ mid # hi)
         /\ \A a \in UsedOf(m) : a # p => n[a].size = m[a].size
         /\ n[p].size = mid - p
         /\ mid # hi => n[mid].size = hi - mid /\ mid \notin UsedOf(m)
<1>0. mid = hi \/ n[mid].cinuse
  BY DEF UsedOf
<1>1. /\ v # q => Sound(n, S, e, C, v, vs, t, ts)
      /\ v = q => Sound(n, S, e, B, NULL, 0, t, ts)
      /\ \A a \in UsedOf(m) : a # p => n[a].size = m[a].size
  BY <1>0, RecutSound
<1>3. Recuts(m, n, S, e, t, ts, p, q, mid, hi)
  BY Recut
<1>2. /\ \A a : a \in UsedOf(n) <=>
           a \in UsedOf(m) \/ (a = mid /\ mid # hi /\ n[mid].cinuse)
      /\ n[p].size = mid - p
      /\ mid # hi => mid \in DOMAIN n /\ n[mid].size = hi - mid /\ mid \notin UsedOf(m)
  BY <1>3 DEF Recuts
<1> QED
  BY <1>0, <1>1, <1>2

\* ... or a free chunk.
LEMMA RecutFree ==
  ASSUME NEW m, NEW S, NEW e \in Int, NEW B, NEW v, NEW vs, NEW t, NEW ts,
         Sound(m, S, e, B, v, vs, t, ts), NEW n, NEW p, NEW q, NEW mid \in Int, NEW hi,
         Recutting(m, n, t, p, q, mid, hi),
         mid # hi, mid \notin UsedOf(n), v = q
  PROVE  /\ Sound(n, S, e, B, mid, hi - mid, t, ts)
         /\ \A a : a \in UsedOf(n) <=> a \in UsedOf(m)
         /\ \A a \in UsedOf(m) : a # p => n[a].size = m[a].size
         /\ n[p].size = mid - p /\ n[mid].size = hi - mid /\ mid \notin UsedOf(m)
<1>4. Recuts(m, n, S, e, t, ts, p, q, mid, hi)
  BY Recut
<1>0. ~ n[mid].cinuse
  BY <1>4 DEF Recuts, UsedOf
<1> DEFINE C == B \ {q}
<1>3. Without(C, B, q)
  BY DEF Without
<1> HIDE DEF C
<1>1. /\ Sound(n, S, e, B, mid, hi - mid, t, ts)
      /\ \A a \in UsedOf(m) : a # p => n[a].size = m[a].size
  BY <1>0, <1>3, RecutSound
<1>2. /\ \A a : a \in UsedOf(n) <=>
           a \in UsedOf(m) \/ (a = mid /\ mid # hi /\ n[mid].cinuse)
      /\ n[p].size = mid - p
      /\ mid # hi => mid \in DOMAIN n /\ n[mid].size = hi - mid /\ mid \notin UsedOf(m)
  BY <1>4 DEF Recuts
<1> QED
  BY <1>0, <1>1, <1>2

\* A chunk in use that is as small as a chunk can be is no fencepost.
LEMMA NoFence ==
  ASSUME NEW n, NEW a, n[a].size >= min_chunk_size
  PROVE  ~ Fence(n, a)
BY Constants DEF Fence

\* Chunk p of memory m, in use, is cut in two in memory n: front bytes, and at r the
\* rest, back bytes, both in use; realloc and memalign set the tags in either order.
Splits(m, n, p, front, back, r) ==
  /\ p \in DOMAIN m /\ m[p].cinuse /\ ~ Fence(m, p)
  /\ Aligned(front) /\ front >= min_chunk_size /\ back >= min_chunk_size
  /\ m[p].size = front + back /\ r = p + front
  /\ \/ n = set_inuse(set_inuse(m, p, front), r, back)
     \/ n = set_inuse(set_inuse(m, r, back), p, front)

\* Such a cut leaves the heap sound, with one more chunk in use.
LEMMA SplitSound ==
  ASSUME NEW m, NEW S, NEW e \in Int, NEW B, NEW v, NEW vs, NEW t, NEW ts,
         Sound(m, S, e, B, v, vs, t, ts), NEW p \in Int,
         NEW front \in Int, NEW back \in Int, NEW r \in Int, NEW n,
         Splits(m, n, p, front, back, r)
  PROVE  /\ Sound(n, S, e, B, v, vs, t, ts)
         /\ n[p].size = front /\ n[r].size = back /\ r \notin UsedOf(m) /\ r # p
         /\ \A a : a \in UsedOf(n) <=> a \in UsedOf(m) \/ a = r
         /\ \A a \in UsedOf(m) : a # p => n[a].size = m[a].size
<1> USE DEF Splits
<1>1. /\ IsMem(m) /\ Heap(m, S, t)
  BY SoundHeap
<1> DEFINE hi == End(m, p)
<1>2. /\ p \in Int /\ hi \in DOMAIN m /\ hi \in Int /\ Aligned(p) /\ hi = p + m[p].size
  BY <1>1, UsedFacts, ChunkFacts
<1>3. front > 0 /\ back > 0
  BY Constants
<1>4. /\ r \in Int /\ r = p + front /\ hi = r + back /\ Aligned(r) /\ p < r /\ r < hi
      /\ r - p = front /\ hi - r = back /\ r # hi /\ r # p
  <2>1. r \in Int /\ hi = r + back
    BY <1>2
  <2>2. Aligned(p + front)
    BY <1>2, AlignedSum
  <2> HIDE DEF hi
  <2> QED
    BY <1>2, <1>3, <2>1, <2>2
<1> HIDE DEF hi
<1>5. /\ IsMem(n) /\ Cut(m, n, p, r, hi)
      /\ n[p].cinuse /\ n[p].pinuse = m[p].pinuse /\ n[p].prev_foot = m[p].prev_foot
      /\ n[r].cinuse
  BY <1>1, <1>2, <1>3, <1>4, WriteTwo
<1>6. Recutting(m, n, t, p, p, r, hi)
  BY <1>4, <1>5 DEF Recutting, hi
<1>7. v # p
  BY UsedPlaces
<1>8. /\ Sound(n, S, e, B, v, vs, t, ts)
      /\ \A a : a \in UsedOf(n) <=> a \in UsedOf(m) \/ a = r
      /\ \A a \in UsedOf(m) : a # p => n[a].size = m[a].size
      /\ n[p].size = r - p
      /\ n[r].size = hi - r /\ r \notin UsedOf(m)
  <2>1. r \in UsedOf(n)
    BY <1>4, <1>5 DEF UsedOf, Cut, LastPiece
  <2>2. Without(B, B, p)
    BY UsedPlaces DEF Without
  <2> QED
    BY <1>4, <1>6, <1>7, <2>1, <2>2, RecutUsed
<1> QED
  BY <1>4, <1>8

\* A chunk in use and the free chunk x after it, which is not top: one chunk, or a
\* chunk of size front and the rest in use, or free.
Joins(m, n, t, p, x, both) ==
  /\ p \in DOMAIN m /\ m[p].cinuse /\ ~ Fence(m, p)
  /\ x = p + m[p].size /\ x # t /\ ~ m[x].cinuse
  /\ both = m[p].size + m[x].size /\ n = set_inuse(m, p, both)

\* The first of these leaves the heap sound.
LEMMA JoinSound ==
  ASSUME NEW m, NEW S, NEW e \in Int, NEW B, NEW v, NEW vs, NEW t, NEW ts,
         Sound(m, S, e, B, v, vs, t, ts), NEW p \in Int, NEW x \in Int, NEW both, NEW n,
         Joins(m, n, t, p, x, both), NEW C, Without(C, B, x)
  PROVE  /\ v # x => Sound(n, S, e, C, v, vs, t, ts)
         /\ v = x => Sound(n, S, e, B, NULL, 0, t, ts)
         /\ \A a : a \in UsedOf(n) <=> a \in UsedOf(m)
         /\ \A a \in UsedOf(m) : a # p => n[a].size = m[a].size
         /\ n[p].size = both
<1> USE DEF Joins
<1>1. /\ IsMem(m) /\ Heap(m, S, t)
  BY SoundHeap
<1>2. /\ p \in Int /\ x \in DOMAIN m /\ x = End(m, p) /\ Aligned(p) /\ m[p].size > 0
      /\ m[p].size >= min_chunk_size
  BY <1>1, UsedFacts, ChunkFacts
<1> DEFINE hi == End(m, x)
<1>3. hi \in DOMAIN m /\ hi = x + m[x].size /\ x \in Int /\ m[x].size > 0 /\ Aligned(hi)
  BY <1>1, <1>2, FreeFacts, ChunkFacts
<1>4. /\ hi \in Int /\ p < hi /\ both = hi - p /\ both >= min_chunk_size
  <2>1. m[p].size \in Int /\ m[x].size \in Int /\ hi \in Int
    BY <1>1, <1>2, ChunkFacts
  <2> QED
    BY <1>2, <1>3, <2>1, Constants
<1> HIDE DEF hi
<1>5. /\ IsMem(n) /\ Cut(m, n, p, hi, hi)
      /\ n[p].cinuse /\ n[p].pinuse = m[p].pinuse /\ n[p].prev_foot = m[p].prev_foot
  BY <1>1, <1>2, <1>3, <1>4, WriteOver
<1>6. Recutting(m, n, t, p, x, hi, hi)
  BY <1>2, <1>3, <1>4, <1>5 DEF Recutting, hi
<1> QED
  BY <1>4, <1>6, RecutUsed

\* The pieces of the second and the third: front bytes at p, and back bytes at r ...
Shares(m, t, p, x, front, back, r) ==
  /\ p \in DOMAIN m /\ m[p].cinuse /\ ~ Fence(m, p)
  /\ x = p + m[p].size /\ x # t /\ ~ m[x].cinuse
  /\ Aligned(front) /\ front >= min_chunk_size
  /\ front + back = m[p].size + m[x].size /\ back >= min_chunk_size /\ r = p + front

\* ... in use, ...
SharesUsed(m, n, t, p, x, front, back, r) ==
  /\ Shares(m, t, p, x, front, back, r)
  /\ n = set_inuse(set_inuse(m, p, front), r, back)

\* ... or free.
SharesFree(m, n, t, p, x, front, back, r) ==
  /\ Shares(m, t, p, x, front, back, r)
  /\ n = clear_pinuse(set_size_and_pinuse_of_free_chunk(set_inuse(m, p, front), r, back), r + back)

\* Where the pieces lie.
LEMMA SharePlaces ==
  ASSUME NEW m, NEW S, NEW e \in Int, NEW B, NEW v, NEW vs, NEW t, NEW ts,
         Sound(m, S, e, B, v, vs, t, ts), NEW p \in Int, NEW x \in Int,
         NEW front \in Int, NEW back \in Int, NEW r \in Int,
         Shares(m, t, p, x, front, back, r)
  PROVE  \E hi \in Int :
           /\ IsMem(m) /\ Heap(m, S, t) /\ front > 0 /\ back > 0
           /\ p \in Int /\ x \in DOMAIN m /\ x = End(m, p) /\ Aligned(p)
           /\ hi \in DOMAIN m /\ hi = x + m[x].size /\ ~ m[hi].pinuse /\ hi = End(m, x)
           /\ hi = r + back /\ Aligned(r)
           /\ p < r /\ r < hi /\ r - p = front /\ hi - r = back /\ r # hi /\ r # p
<1> USE DEF Shares
<1>1. /\ IsMem(m) /\ Heap(m, S, t)
  BY SoundHeap
<1>2. /\ p \in Int /\ x \in DOMAIN m /\ x = End(m, p) /\ Aligned(p)
  BY <1>1, UsedFacts, ChunkFacts
<1> DEFINE hi == End(m, x)
<1>3. hi \in DOMAIN m /\ hi = x + m[x].size /\ x \in Int /\ ~ m[hi].pinuse
  BY <1>1, <1>2, FreeFacts, ChunkFacts
<1>4. front > 0 /\ back > 0
  BY Constants
<1>5. /\ hi \in Int /\ r \in Int /\ r = p + front /\ hi = r + back /\ Aligned(r)
      /\ p < r /\ r < hi /\ r - p = front /\ hi - r = back /\ r # hi /\ r # p
  <2>1. m[p].size \in Int /\ m[x].size \in Int /\ hi \in Int
    BY <1>1, <1>2, ChunkFacts
  <2>2. hi = x + m[x].size /\ x = p + m[p].size /\ front + back = m[p].size + m[x].size
    BY <1>3
  <2> HIDE DEF hi
  <2>3. hi = r + back
    BY <2>1, <2>2
  <2>4. Aligned(p + front)
    BY <1>2, AlignedSum
  <2> QED
    BY <1>4, <2>1, <2>3, <2>4
<1>6. hi = End(m, x)
  OBVIOUS
<1> QED
  BY <1>1, <1>2, <1>3, <1>4, <1>5, <1>6

\* The second leaves the heap sound, with one more chunk in use.
LEMMA JoinSplitSound ==
  ASSUME NEW m, NEW S, NEW e \in Int, NEW B, NEW v, NEW vs, NEW t, NEW ts,
         Sound(m, S, e, B, v, vs, t, ts), NEW p \in Int, NEW x \in Int, v # x,
         NEW front \in Int, NEW back \in Int, NEW r \in Int, NEW n,
         SharesUsed(m, n, t, p, x, front, back, r), NEW C, Without(C, B, x)
  PROVE  /\ n[p].size = front /\ n[r].size = back /\ r \notin UsedOf(m) /\ r # p
         /\ \A a \in UsedOf(m) : a # p => n[a].size = m[a].size
         /\ Sound(n, S, e, C, v, vs, t, ts)
         /\ \A a : a \in UsedOf(n) <=> a \in UsedOf(m) \/ a = r
<1>0. Shares(m, t, p, x, front, back, r) /\ n = set_inuse(set_inuse(m, p, front), r, back)
  BY DEF SharesUsed
<1>1. PICK hi \in Int :
           /\ IsMem(m) /\ Heap(m, S, t) /\ front > 0 /\ back > 0
           /\ p \in Int /\ x \in DOMAIN m /\ x = End(m, p) /\ Aligned(p)
           /\ hi \in DOMAIN m /\ hi = x + m[x].size /\ ~ m[hi].pinuse /\ hi = End(m, x)
           /\ hi = r + back /\ Aligned(r)
           /\ p < r /\ r < hi /\ r - p = front /\ hi - r = back /\ r # hi /\ r # p
  BY <1>0, SharePlaces
<1>2. /\ p \in DOMAIN m /\ m[p].cinuse /\ ~ Fence(m, p) /\ x # t /\ ~ m[x].cinuse
      /\ front >= min_chunk_size /\ back >= min_chunk_size
  BY <1>0 DEF Shares
<1>3. /\ IsMem(n) /\ Cut(m, n, p, r, hi)
      /\ n[p].cinuse /\ n[p].pinuse = m[p].pinuse /\ n[p].prev_foot = m[p].prev_foot
      /\ n[r].cinuse
  <2>1. /\ hi \in Int /\ hi = r + back /\ hi \in DOMAIN m /\ IsMem(m) /\ front > 0 /\ back > 0
        /\ r = p + front /\ p \in DOMAIN m
    BY <1>0, <1>1, <1>2 DEF Shares
  <2>2. n = set_inuse(set_inuse(m, p, front), r, back)
    BY <1>0
  <2> QED
    BY <2>1, <2>2, WriteTwo
<1>4. Recutting(m, n, t, p, x, r, hi)
  BY <1>1, <1>2, <1>3 DEF Recutting
<1>5. r \in UsedOf(n)
  BY <1>1, <1>3 DEF UsedOf, Cut, LastPiece
<1>6. /\ n[p].size = r - p /\ n[r].size = hi - r /\ r \notin UsedOf(m)
      /\ \A a \in UsedOf(m) : a # p => n[a].size = m[a].size
      /\ Sound(n, S, e, C, v, vs, t, ts)
      /\ \A a : a \in UsedOf(n) <=> a \in UsedOf(m) \/ a = r
  BY <1>1, <1>4, <1>5, RecutUsed
<1> QED
  BY <1>1, <1>6

\* The third does, with the rest as the designated victim instead of x.
LEMMA JoinDvSound ==
  ASSUME NEW m, NEW S, NEW e \in Int, NEW B, NEW v, NEW vs, NEW t, NEW ts,
         Sound(m, S, e, B, v, vs, t, ts), NEW p \in Int, NEW x \in Int, v = x,
         NEW front \in Int, NEW back \in Int, NEW r \in Int, NEW n,
         SharesFree(m, n, t, p, x, front, back, r)
  PROVE  /\ n[p].size = front
         /\ \A a \in UsedOf(m) : a # p => n[a].size = m[a].size
         /\ Sound(n, S, e, B, r, back, t, ts)
         /\ \A a : a \in UsedOf(n) <=> a \in UsedOf(m)
<1>0. Shares(m, t, p, x, front, back, r) /\ n = clear_pinuse(set_size_and_pinuse_of_free_chunk(
                                                          set_inuse(m, p, front), r, back), r + back)
  BY DEF SharesFree
<1>1. PICK hi \in Int :
           /\ IsMem(m) /\ Heap(m, S, t) /\ front > 0 /\ back > 0
           /\ p \in Int /\ x \in DOMAIN m /\ x = End(m, p) /\ Aligned(p)
           /\ hi \in DOMAIN m /\ hi = x + m[x].size /\ ~ m[hi].pinuse /\ hi = End(m, x)
           /\ hi = r + back /\ Aligned(r)
           /\ p < r /\ r < hi /\ r - p = front /\ hi - r = back /\ r # hi /\ r # p
  BY <1>0, SharePlaces
<1>2. /\ p \in DOMAIN m /\ m[p].cinuse /\ ~ Fence(m, p) /\ x # t /\ ~ m[x].cinuse
      /\ front >= min_chunk_size /\ back >= min_chunk_size
  BY <1>0 DEF Shares
<1>3. /\ IsMem(n) /\ Cut(m, n, p, r, hi)
      /\ n[p].cinuse /\ n[p].pinuse = m[p].pinuse /\ n[p].prev_foot = m[p].prev_foot
      /\ ~ n[r].cinuse
  <2>1. n = clear_pinuse(set_size_and_pinuse_of_free_chunk(
                           set_inuse(m, p, r - p), r, hi - r), hi)
    BY <1>0, <1>1
  <2> QED
    BY <1>1, <1>2, <2>1, WriteUsedFree
<1>4. x # p
  BY <1>1, <1>2, ChunkFacts
<1>5. Recutting(m, n, t, p, x, r, hi)
  BY <1>1, <1>2, <1>3, <1>4 DEF Recutting
<1>6. r \notin UsedOf(n)
  BY <1>3 DEF UsedOf
<1>7. /\ Sound(n, S, e, B, r, hi - r, t, ts)
      /\ \A a : a \in UsedOf(n) <=> a \in UsedOf(m)
      /\ \A a \in UsedOf(m) : a # p => n[a].size = m[a].size
      /\ n[p].size = r - p
  BY <1>1, <1>5, <1>6, RecutFree
<1> QED
  BY <1>1, <1>7

\* Chunk p, in use, made larger by the front of top, which then starts at r.
JoinsTop(m, n, t, ts, p, front, back, r) ==
  /\ p \in DOMAIN m /\ m[p].cinuse /\ ~ Fence(m, p) /\ p + m[p].size = t
  /\ Aligned(front) /\ front >= min_chunk_size
  /\ front + back = m[p].size + ts /\ back > 0 /\ r = p + front
  /\ n = TopFrom(set_inuse(m, p, front), r, back)

\* That leaves the heap sound.
LEMMA JoinTopSound ==
  ASSUME NEW m, NEW S, NEW e \in Int, NEW B, NEW v, NEW vs, NEW t, NEW ts,
         Sound(m, S, e, B, v, vs, t, ts), NEW p \in Int, NEW front \in Int,
         NEW back \in Int, NEW r \in Int, NEW n, JoinsTop(m, n, t, ts, p, front, back, r)
  PROVE  /\ Sound(n, S, e, B, v, vs, r, back)
         /\ n[p].size = front
         /\ \A a : a \in UsedOf(n) <=> a \in UsedOf(m)
         /\ \A a \in UsedOf(m) : a # p => n[a].size = m[a].size
<1> USE DEF JoinsTop
<1>1. /\ IsMem(m) /\ Heap(m, S, t) /\ t \in Int /\ v \in Int /\ NULL \notin DOMAIN m
      /\ Mapped(S)
  BY SoundHeap
<1>2. /\ p \in Int /\ t \in DOMAIN m /\ t = End(m, p) /\ Aligned(p) /\ p < t /\ m[p].size \in Int
      /\ Within(S, p, t)
  BY <1>1, UsedFacts, ChunkFacts
<1> DEFINE hi == End(m, t)
<1>3. /\ ~ m[t].cinuse /\ ts = m[t].size /\ hi \notin DOMAIN m
      /\ hi + top_foot_size = e /\ \A a \in DOMAIN m : a <= t \/ a >= e
  BY <1>1, <1>2, TopFacts
<1>4. /\ hi \in Int /\ t < hi /\ hi = t + ts /\ ts \in Int /\ Within(S, t, hi)
      /\ \A a \in DOMAIN m : a < hi => End(m, a) <= hi
      /\ \A a \in DOMAIN m : a <= t \/ a >= hi
  BY <1>1, <1>2, <1>3, ChunkFacts
<1>5. /\ \A a \in DOMAIN m : a <= p \/ a >= t
      /\ \A a \in DOMAIN m : a < p => End(m, a) <= p
  BY <1>1, <1>2, ChunkFacts
<1>6. /\ front > 0 /\ r \in Int /\ p < r /\ hi = r + back /\ r < hi /\ Aligned(r)
      /\ r - p = front /\ hi - r = back /\ r # hi
  <2>1. front > 0
    BY Constants
  <2>2. Aligned(p + front)
    BY <1>2, AlignedSum
  <2>3. hi = t + ts /\ t = p + m[p].size /\ front + back = m[p].size + ts
    BY <1>4
  <2> HIDE DEF hi
  <2>4. hi = r + back
    BY <1>2, <1>4, <2>3
  <2> QED
    BY <1>2, <1>4, <2>1, <2>2, <2>4
<1> DEFINE k == set_inuse(m, p, front)
<1>7. /\ Wrote(m, k, p, r) /\ k[p].cinuse /\ k[p].pinuse = pinuse(m, p)
  BY <1>1, <1>2, <1>6, WriteInuse
<1> HIDE DEF hi
<1>8. n = TopFrom(k, r, back)
  OBVIOUS
<1> HIDE DEF k
<1>9. /\ IsMem(n) /\ Cut(m, n, p, r, hi) /\ n[p] = k[p] /\ ~ n[r].cinuse
      /\ n[p].prev_foot = HeaderAt(m, p).prev_foot
  <2>1. hi \in Int /\ hi = r + back /\ p < r /\ hi \notin DOMAIN m /\ IsMem(m)
    BY <1>1, <1>3, <1>4, <1>6
  <2> QED
    BY <1>7, <1>8, <2>1, WriteTopBehind
<1>10. n[p].pinuse = m[p].pinuse /\ n[p].prev_foot = m[p].prev_foot
  BY <1>7, <1>9, HeaderIs
<1>11. HeapBut(m, S, t, p) /\ Rooted(m, S)
  BY <1>1 DEF Heap, HeapBut, Rooted, RootedBut
<1>12. r = LastPiece(p, r, hi)
  BY <1>6 DEF LastPiece
<1>13. EndCut(m, n, S, t, p, r, hi)
  <2>1. /\ IsMem(n) /\ p < r /\ r <= hi /\ Within(S, p, hi) /\ Cut(m, n, p, r, hi)
        /\ hi \notin DOMAIN m
    BY <1>1, <1>2, <1>3, <1>4, <1>6, <1>9, WithinJoin
  <2>2. /\ p \in DOMAIN m /\ Rooted(m, S)
        /\ n[p].pinuse = m[p].pinuse /\ n[p].prev_foot = m[p].prev_foot
    BY <1>10, <1>11
  <2>3. /\ \A a \in DOMAIN m : a < hi => End(m, a) <= hi \/ End(m, a) \notin DOMAIN m
        /\ (p <= t /\ t < hi) \/ t \notin DOMAIN m
    BY <1>1, <1>2, <1>4
  <2>4. /\ ~ n[LastPiece(p, r, hi)].cinuse /\ (r = hi => n[p].pinuse)
        /\ Aligned(p) /\ (r # hi => Aligned(r) /\ r - p >= min_chunk_size)
    BY <1>2, <1>6, <1>9, <1>12
  <2> QED
    BY <2>1, <2>2, <2>3, <2>4 DEF EndCut
<1>14. FootAt(m, hi, e)
  <2>1. \A a \in DOMAIN m : a \in Int
    BY <1>1 DEF IsMem
  <2> QED
    BY <1>1, <1>3, <1>4, <2>1 DEF FootAt
<1>15. \A a \in DOMAIN m : a < p \/ a >= hi <=> a # p /\ a # t
  <2>1. \A a \in DOMAIN m : a \in Int
    BY <1>1 DEF IsMem
  <2> QED
    BY <1>1, <1>2, <1>4, <1>5, <2>1
<1>16. Kept(m, B, v, p, hi)
  <2>1. /\ B \subseteq Int /\ v \notin B
        /\ \A a \in Int : a \in B \/ (a = v /\ v # NULL) <=> a \in FreeOf(m) /\ a # t
    BY <1>1, <1>2, FreeBut
  <2>2. \A a \in FreeOf(m) : a \in DOMAIN m /\ a # p
    BY DEF FreeOf
  <2> QED
    BY <1>1, <1>15, <2>1, <2>2 DEF Kept
<1>17. /\ Sound(n, S, e, B, v, vs, r, back)
       /\ \A a : a \in UsedOf(n) <=> (a \in UsedOf(m) /\ (a < p \/ a >= hi)) \/ (a = p /\ r # hi)
       /\ \A a \in DOMAIN m : a < p \/ a >= hi => a \in DOMAIN n /\ n[a].size = m[a].size
       /\ r # hi => n[p].size = r - p
  <2>1. vs = HeaderAt(m, v).size
    BY DEF Sound
  <2>2. back = hi - r
    BY <1>6
  <2>3. p \in Int /\ r \in Int /\ hi \in Int /\ e \in Int /\ t \in Int
    BY <1>1, <1>2, <1>4, <1>6
  <2> QED
    BY <1>11, <1>12, <1>13, <1>14, <1>16, <2>1, <2>2, <2>3, TopMade
<1>18. \A a : a \in UsedOf(m) => a \in DOMAIN m /\ a # t
  BY <1>3 DEF UsedOf
<1>19. p \in UsedOf(m)
  BY DEF UsedOf
<1> QED
  BY <1>6, <1>15, <1>17, <1>18, <1>19

-----------------------------------------------------------------------------
(* Segments that change their bounds                                          *)

SameUsed(m, n) ==
  /\ \A a : a \in UsedOf(n) <=> a \in UsedOf(m)
  /\ \A a \in UsedOf(m) : n[a].size = m[a].size

\* Two segments do not meet.
Apart(s, r) == segment_top(s) <= r.base \/ segment_top(r) <= s.base

\* A segment takes the place of s.
Replaced(S, R, s, r) == \A x : x \in R <=> (x \in S /\ x # s) \/ x = r

\* A heap one of whose segments changes its bounds but keeps its chunks.
LEMMA Reshaped ==
  ASSUME NEW m, NEW S, NEW t, Heap(m, S, t), NEW s \in S, NEW r \in Segment,
         r.base > 0, FirstChunk(r) < segment_top(r), \A x \in S : x # s => Apart(x, r),
         NEW R, Replaced(S, R, s, r),
         \A a \in DOMAIN m : FirstChunk(s) <= a /\ End(m, a) < segment_top(s) =>
           FirstChunk(r) <= a /\ End(m, a) < segment_top(r),
         \A a \in DOMAIN m : Fence(m, a) /\ s.base <= a /\ a < segment_top(s)
                             /\ a + 2 * WORD >= segment_top(s) =>
           r.base <= a /\ a < segment_top(r) /\ a + 2 * WORD >= segment_top(r)
  PROVE  /\ HeapBut(m, R, t, FirstChunk(r))
         /\ FirstChunk(r) = FirstChunk(s) => Heap(m, R, t)
<1>1. /\ IsMem(m) /\ Mapped(S) /\ Tiled(m, S, t) /\ Tagged(m) /\ Footed(m) /\ Shaped(m, t)
      /\ Rooted(m, S) /\ (t \in DOMAIN m => ~ m[t].cinuse)
  BY DEF Heap
<1>2. Mapped(R)
  <2>1. R \subseteq Segment /\ \A x \in R : x.base > 0 /\ FirstChunk(x) < segment_top(x)
    BY <1>1 DEF Replaced, Mapped
  <2>2. \A x, y \in R : x # y => Apart(x, y)
    BY <1>1 DEF Replaced, Mapped, Apart
  <2> QED
    BY <2>1, <2>2 DEF Mapped, Apart
<1>3. \A a \in DOMAIN m : Within(R, a, End(m, a))
  <2> SUFFICES ASSUME NEW a \in DOMAIN m PROVE Within(R, a, End(m, a))
    OBVIOUS
  <2>1. PICK x \in S : FirstChunk(x) <= a /\ End(m, a) < segment_top(x)
    BY <1>1 DEF Tiled, Within
  <2>2. CASE x = s
    BY <2>1, <2>2 DEF Replaced, Within
  <2>3. CASE x # s
    BY <2>1, <2>3 DEF Replaced, Within
  <2> QED
    BY <2>2, <2>3
<1>4. \A a \in DOMAIN m : Fence(m, a) /\ EndsSegment(S, a) => EndsSegment(R, a)
  <2> SUFFICES ASSUME NEW a \in DOMAIN m, Fence(m, a), EndsSegment(S, a) PROVE EndsSegment(R, a)
    OBVIOUS
  <2>1. PICK x \in S : x.base <= a /\ a < segment_top(x) /\ a + 2 * WORD >= segment_top(x)
    BY DEF EndsSegment
  <2>2. CASE x = s
    BY <2>1, <2>2 DEF Replaced, EndsSegment
  <2>3. CASE x # s
    BY <2>1, <2>3 DEF Replaced, EndsSegment
  <2> QED
    BY <2>2, <2>3
<1>5. Tiled(m, R, t)
  BY <1>1, <1>3, <1>4 DEF Tiled
<1>6. RootedBut(m, R, FirstChunk(r)) /\ (FirstChunk(r) = FirstChunk(s) => Rooted(m, R))
  BY <1>1 DEF Rooted, RootedBut, Replaced
<1> QED
  BY <1>1, <1>2, <1>5, <1>6 DEF Heap, HeapBut

\* A heap that gets one more segment.
LEMMA Joined1 ==
  ASSUME NEW m, NEW S, NEW t, Heap(m, S, t), NEW r \in Segment,
         r.base > 0, FirstChunk(r) < segment_top(r), \A x \in S : Apart(x, r),
         NEW R, \A x : x \in R <=> x \in S \/ x = r
  PROVE  HeapBut(m, R, t, FirstChunk(r))
<1>1. /\ IsMem(m) /\ Mapped(S) /\ Tiled(m, S, t) /\ Tagged(m) /\ Footed(m) /\ Shaped(m, t)
      /\ Rooted(m, S) /\ (t \in DOMAIN m => ~ m[t].cinuse)
  BY DEF Heap
<1>2. Mapped(R)
  <2>1. R \subseteq Segment /\ \A x \in R : x.base > 0 /\ FirstChunk(x) < segment_top(x)
    BY <1>1 DEF Mapped
  <2>2. \A x, y \in R : x # y => Apart(x, y)
    BY <1>1 DEF Mapped, Apart
  <2> QED
    BY <2>1, <2>2 DEF Mapped, Apart
<1>3. Tiled(m, R, t)
  BY <1>1 DEF Tiled, Within, EndsSegment
<1>4. RootedBut(m, R, FirstChunk(r))
  BY <1>1 DEF Rooted, RootedBut
<1> QED
  BY <1>1, <1>2, <1>3, <1>4 DEF HeapBut

\* Top changes its size.
LEMMA TopResized ==
  ASSUME NEW m, NEW S, NEW e \in Int, NEW B, NEW v, NEW vs, NEW t, NEW ts,
         Sound(m, S, e, B, v, vs, t, ts), t # NULL, NEW R, Heap(m, R, t),
         NEW size \in Int, size > 0, NEW hi \in Int, hi = t + size, Within(R, t, hi),
         NEW f \in Int, f = hi + top_foot_size, \A a \in DOMAIN m : a <= t \/ a >= f,
         NEW n, n = TopFrom(m, t, size)
  PROVE  Sound(n, R, f, B, v, vs, t, size) /\ SameUsed(m, n)
<1>1. /\ t \in DOMAIN m /\ ~ m[t].cinuse /\ End(m, t) \notin DOMAIN m /\ Aligned(t)
  BY TopFacts
<1>2. Heap(m, S, t) /\ IsMem(m) /\ t \in Int /\ v \in Int /\ m[t].pinuse /\ Rooted(m, R)
  BY <1>1, SoundHeap, FreeFacts DEF Heap
<1>3. /\ \A a \in DOMAIN m : a \in Int /\ End(m, a) \in Int
      /\ \A a \in DOMAIN m : a < t => End(m, a) <= t
  BY <1>1, <1>2, ChunkFacts
<1>4. hi \notin DOMAIN m /\ t < hi
  BY <1>2, <1>3, Constants
<1>5. /\ IsMem(n) /\ Cut(m, n, t, hi, hi) /\ ~ n[t].cinuse /\ n[t].pinuse
      /\ n[t].prev_foot = HeaderAt(m, t).prev_foot
  BY <1>2, <1>4, WriteEnd
<1>6. t = LastPiece(t, hi, hi) /\ size = hi - t
  BY <1>2 DEF LastPiece
<1>7. HeapBut(m, R, t, t)
  BY DEF Heap, HeapBut, Rooted, RootedBut
<1>8. EndCut(m, n, R, t, t, hi, hi)
  <2>1. n[t].prev_foot = m[t].prev_foot /\ n[t].pinuse = m[t].pinuse
    <3>1. t \in DOMAIN n
      BY <1>5 DEF Cut
    <3>2. n[t].pinuse \in BOOLEAN /\ m[t].pinuse \in BOOLEAN
      BY <1>1, <1>2, <1>5, <3>1, MemFacts
    <3> QED
      BY <1>1, <1>2, <1>5, <3>2, HeaderIs
  <2>2. \A a \in DOMAIN m : a < hi => End(m, a) <= hi \/ End(m, a) \notin DOMAIN m
    <3> SUFFICES ASSUME NEW a \in DOMAIN m, a < hi
                 PROVE  End(m, a) <= hi \/ End(m, a) \notin DOMAIN m
      OBVIOUS
    <3>1. a <= t
      BY <1>2, <1>3, Constants
    <3>2. CASE a = t
      BY <1>1, <3>2
    <3>3. CASE a < t
      BY <1>2, <1>3, <1>4, <3>3
    <3> QED
      BY <1>2, <1>3, <3>1, <3>2, <3>3
  <2> QED
    BY <1>1, <1>2, <1>4, <1>5, <1>6, <2>1, <2>2 DEF EndCut
<1>9. \A a \in DOMAIN m : (a < t \/ a >= hi) <=> a # t
  BY <1>2, <1>3, <1>4, Constants
<1>10. Kept(m, B, v, t, hi)
  <2>1. /\ B \subseteq Int /\ v \in Int /\ v \notin B
        /\ \A a \in Int : a \in B \/ (a = v /\ v # NULL) <=> a \in FreeOf(m) /\ a # t
    BY FreeBut
  <2> QED
    BY <1>9, <2>1 DEF Kept, FreeOf
<1>11. FootAt(m, hi, f)
  BY <1>2, <1>3, <1>4 DEF FootAt
<1>12. vs = HeaderAt(m, v).size
  BY DEF Sound
<1>13. /\ Sound(n, R, f, B, v, vs, t, size)
       /\ \A a : a \in UsedOf(n) <=>
            (a \in UsedOf(m) /\ (a < t \/ a >= hi)) \/ (a = t /\ hi # hi)
       /\ \A a \in DOMAIN m : a < t \/ a >= hi => a \in DOMAIN n /\ n[a].size = m[a].size
  BY <1>2, <1>6, <1>7, <1>8, <1>10, <1>11, <1>12, TopMade
<1>14. \A a : a \in UsedOf(m) => a \in DOMAIN m /\ a # t
  BY <1>1 DEF UsedOf
<1> QED
  BY <1>9, <1>13, <1>14 DEF SameUsed

\* A heap without a top chunk: its free chunks are in B and the designated victim.
Topless(m, S, t, B, v, vs) ==
  /\ Heap(m, S, t) /\ t \notin DOMAIN m
  /\ v \notin B /\ \A a : a \in FreeOf(m) <=> a \in B \/ (a = v /\ v # NULL)
  /\ vs = HeaderAt(m, v).size

\* R are the segments S and r, which a chunk [lo, hi) and a foot fill.
OneMore(S, R, r, lo, size, hi) ==
  /\ r.base > 0 /\ (\A x \in S : Apart(x, r)) /\ (\A x : x \in R <=> x \in S \/ x = r)
  /\ lo = FirstChunk(r) /\ size > 0 /\ lo + size + top_foot_size = segment_top(r) /\ hi = lo + size

\* A top chunk in a new segment of a heap that has none.
LEMMA NewTop ==
  ASSUME NEW m, NEW S, NEW t \in Int, NEW B, NEW v \in Int, NEW vs, Topless(m, S, t, B, v, vs),
         NEW r \in Segment, NEW R, NEW lo \in Int, NEW size \in Int, NEW hi \in Int,
         OneMore(S, R, r, lo, size, hi),
         NEW n, IsMem(n), Cut(m, n, lo, hi, hi), ~ n[lo].cinuse, n[lo].pinuse
  PROVE  Sound(n, R, segment_top(r), B, v, vs, lo, size) /\ SameUsed(m, n)
<1> USE DEF Topless, OneMore
<1>1. /\ FirstChunk(r) \in Int /\ Aligned(FirstChunk(r)) /\ r.base <= lo
      /\ segment_top(r) \in Int /\ r.base \in Int
  BY FirstChunkFacts
<1>2. lo < hi /\ hi < segment_top(r) /\ segment_top(r) = hi + top_foot_size
  BY <1>1, Constants
<1>3. HeapBut(m, R, t, lo)
  BY <1>1, <1>2, Joined1
<1>4. IsMem(m) /\ Mapped(S)
  BY DEF Heap
<1>5. \A a \in DOMAIN m : a \in Int /\ End(m, a) \in Int
                          /\ (End(m, a) < r.base \/ a >= segment_top(r))
  <2> SUFFICES ASSUME NEW a \in DOMAIN m
               PROVE  a \in Int /\ End(m, a) \in Int
                      /\ (End(m, a) < r.base \/ a >= segment_top(r))
    OBVIOUS
  <2>1. a \in Int /\ End(m, a) \in Int /\ Within(S, a, End(m, a))
    BY ChunkFacts
  <2>2. PICK x \in S : FirstChunk(x) <= a /\ End(m, a) < segment_top(x)
    BY <2>1 DEF Within
  <2>3. Apart(x, r) /\ x \in Segment
    BY <1>4 DEF Mapped
  <2>4. x.base \in Int /\ segment_top(x) \in Int /\ x.base <= FirstChunk(x) /\ FirstChunk(x) \in Int
    BY <2>3, FirstChunkFacts
  <2> QED
    BY <1>1, <2>1, <2>2, <2>3, <2>4 DEF Apart
<1>6. hi \notin DOMAIN m /\ \A a \in DOMAIN m : a < lo \/ a >= hi
  <2> SUFFICES ASSUME NEW a \in DOMAIN m PROVE a # hi /\ (a < lo \/ a >= hi)
    OBVIOUS
  <2>1. a < End(m, a)
    BY ChunkFacts
  <2> QED
    BY <1>1, <1>2, <1>5, <2>1
<1>7. EndCut(m, n, R, t, lo, hi, hi)
  <2>1. Within(R, lo, hi)
    BY <1>1, <1>2 DEF Within
  <2>2. /\ \A a \in DOMAIN m : a < lo => End(m, a) < lo
        /\ \A a \in DOMAIN m : a < hi => End(m, a) <= hi \/ End(m, a) \notin DOMAIN m
    <3> SUFFICES ASSUME NEW a \in DOMAIN m, a < hi PROVE End(m, a) < lo
      BY <1>1, <1>2, <1>5
    <3> QED
      BY <1>1, <1>2, <1>5
  <2>3. lo = LastPiece(lo, hi, hi)
    BY DEF LastPiece
  <2>4. ~ n[LastPiece(lo, hi, hi)].cinuse
    BY <2>3
  <2> QED
    <3>1. /\ IsMem(n) /\ lo < hi /\ hi <= hi /\ Within(R, lo, hi) /\ Cut(m, n, lo, hi, hi)
          /\ hi \notin DOMAIN m
          /\ (lo <= t /\ t < hi) \/ t \notin DOMAIN m
      BY <1>2, <1>6, <2>1
    <3>2. n[lo].pinuse /\ \A a \in DOMAIN m : a < lo => End(m, a) < lo
      BY <2>2
    <3>3. /\ ~ n[LastPiece(lo, hi, hi)].cinuse /\ (hi = hi => n[lo].pinuse)
          /\ Aligned(lo) /\ (hi # hi => Aligned(hi) /\ hi - lo >= min_chunk_size)
      BY <1>1, <2>4
    <3> QED
      BY <2>2, <3>1, <3>2, <3>3 DEF EndCut
<1>8. Kept(m, B, v, lo, hi)
  <2>1. FreeOf(m) \subseteq DOMAIN m
    BY DEF FreeOf
  <2>2. B \subseteq Int
    BY <1>5, <2>1
  <2> QED
    BY <1>6, <2>1, <2>2 DEF Kept
<1>9. FootAt(m, hi, segment_top(r))
  <2> SUFFICES ASSUME NEW a \in DOMAIN m PROVE a < hi \/ a >= segment_top(r)
    BY <1>2 DEF FootAt
  <2>1. a < End(m, a)
    BY ChunkFacts
  <2> QED
    BY <1>1, <1>2, <1>5, <2>1
<1>10. lo = LastPiece(lo, hi, hi) /\ size = hi - lo
  BY DEF LastPiece
<1> DEFINE e == segment_top(r)
<1>11. e \in Int /\ FootAt(m, hi, e)
  BY <1>1, <1>9
<1> HIDE DEF e
<1>12. /\ Sound(n, R, e, B, v, vs, lo, size)
       /\ \A a : a \in UsedOf(n) <=>
            (a \in UsedOf(m) /\ (a < lo \/ a >= hi)) \/ (a = lo /\ hi # hi)
       /\ \A a \in DOMAIN m : a < lo \/ a >= hi => a \in DOMAIN n /\ n[a].size = m[a].size
  BY <1>3, <1>7, <1>8, <1>10, <1>11, TopMade
<1> QED
  BY <1>6, <1>12 DEF SameUsed, UsedOf, e

-----------------------------------------------------------------------------
(* The end of a segment that is no longer the newest                            *)

\* Fenceposts follow each other, and the last one is at the end.
LEMMA FenceFacts ==
  ASSUME NEW tn \in Int, NEW e \in Int, tn + WORD < e
  PROVE  LET F == fenceposts(tn, e)
         IN  /\ tn \in F /\ F \subseteq Int
             /\ \A f \in F : /\ tn <= f /\ f + WORD < e
                             /\ f + WORD \in F \/ f + 2 * WORD >= e
             /\ \A f, g \in F : f < g => f + WORD <= g
<1> DEFINE F == fenceposts(tn, e)
<1>1. WORD \in {4, 8}
  BY WordAssumption
<1>2. \A f : f \in F <=> \E k \in Nat : f = tn + k * WORD /\ (k = 0 \/ tn + (k + 1) * WORD < e)
  <2>1. ASSUME NEW f \in F
        PROVE  \E k \in Nat : f = tn + k * WORD /\ (k = 0 \/ tn + (k + 1) * WORD < e)
    <3>1. CASE f = tn
      <4>1. 0 \in Nat /\ f = tn + 0 * WORD
        BY <1>1, <3>1
      <4> QED
        BY <4>1
    <3>2. CASE f # tn
      <4>1. PICK k \in 1..((e - tn) \div WORD) : tn + (k + 1) * WORD < e /\ f = tn + k * WORD
        BY <3>2 DEF fenceposts
      <4>2. k \in Nat
        BY <1>1
      <4> QED
        BY <4>1, <4>2
    <3> QED
      BY <3>1, <3>2
  <2>2. ASSUME NEW k \in Nat, NEW f, f = tn + k * WORD, k = 0 \/ tn + (k + 1) * WORD < e
        PROVE  f \in F
    <3>1. CASE k = 0
      <4>1. f = tn
        BY <1>1, <2>2, <3>1
      <4> QED
        BY <4>1 DEF fenceposts
    <3>2. CASE k # 0
      <4>1. k \in 1..((e - tn) \div WORD)
        <5>1. CASE WORD = 4
          BY <2>2, <3>2, <5>1
        <5>2. CASE WORD = 8
          BY <2>2, <3>2, <5>2
        <5> QED
          BY <1>1, <5>1, <5>2
      <4> QED
        BY <2>2, <3>2, <4>1 DEF fenceposts
    <3> QED
      BY <3>1, <3>2
  <2> QED
    BY <2>1, <2>2
<1> HIDE DEF F
<1>3. tn \in F
  <2>1. 0 \in Nat /\ tn = tn + 0 * WORD
    BY <1>1
  <2> QED
    BY <1>2, <2>1
<1>4. ASSUME NEW f \in F
      PROVE  /\ f \in Int /\ tn <= f /\ f + WORD < e
             /\ f + WORD \in F \/ f + 2 * WORD >= e
  <2>1. PICK k \in Nat : f = tn + k * WORD /\ (k = 0 \/ tn + (k + 1) * WORD < e)
    BY <1>2
  <2>2. /\ f \in Int /\ tn <= f /\ f + WORD < e /\ f + WORD = tn + (k + 1) * WORD
        /\ tn + ((k + 1) + 1) * WORD = f + 2 * WORD
    <3>1. CASE WORD = 4
      BY <2>1, <3>1
    <3>2. CASE WORD = 8
      BY <2>1, <3>2
    <3> QED
      BY <1>1, <3>1, <3>2
  <2>3. f + 2 * WORD < e => f + WORD \in F
    <3> SUFFICES ASSUME f + 2 * WORD < e PROVE f + WORD \in F
      OBVIOUS
    <3>1. k + 1 \in Nat /\ tn + ((k + 1) + 1) * WORD < e
      BY <2>2
    <3> QED
      BY <1>2, <2>2, <3>1
  <2>4. f + 2 * WORD < e \/ f + 2 * WORD >= e
    BY <1>1, <2>2
  <2> QED
    BY <2>2, <2>3, <2>4
<1>5. ASSUME NEW f \in F, NEW g \in F, f < g
      PROVE  f + WORD <= g
  <2>1. PICK k \in Nat : f = tn + k * WORD
    BY <1>2
  <2>2. PICK j \in Nat : g = tn + j * WORD
    BY <1>2
  <2>3. CASE WORD = 4
    BY <1>5, <2>1, <2>2, <2>3
  <2>4. CASE WORD = 8
    BY <1>5, <2>1, <2>2, <2>4
  <2> QED
    BY <1>1, <2>3, <2>4
<1> QED
  BY <1>3, <1>4, <1>5 DEF F

\* Between t and e, n has what is left of the old top, a chunk c for the segment's
\* record, and the fenceposts F.
Retired(m, n, t, c, F) ==
  /\ IsMem(n)
  /\ \A a : a \in DOMAIN n <=> a \in {t, c} \/ a \in F \/ (a \in DOMAIN m /\ a # t)
  /\ \A a \in DOMAIN m : a # t => n[a] = m[a]
  /\ c # t => /\ n[t].size = c - t /\ ~ n[t].cinuse /\ n[t].pinuse
              /\ ~ n[c].pinuse /\ n[c].prev_foot = c - t
  /\ c = t => n[c].pinuse
  /\ n[c].size = segment_record_size /\ n[c].cinuse
  /\ \A f \in F : n[f].size = WORD /\ n[f].cinuse /\ n[f].pinuse

\* Where it all lies.
RetiredPlaces(t, c, F, e) ==
  /\ c \in Int /\ t <= c /\ (c # t => c - t >= min_chunk_size) /\ Aligned(c)
  /\ c + segment_record_size \in F /\ F \subseteq Int
  /\ \A f \in F : /\ c + segment_record_size <= f /\ f + WORD < e
                  /\ f + WORD \in F \/ f + 2 * WORD >= e
  /\ \A f, g \in F : f < g => f + WORD <= g

\* The heap without its top.
LEMMA RetiredHeap ==
  ASSUME NEW m, NEW S, NEW t \in Int, Heap(m, S, t), t \in DOMAIN m, ~ m[t].cinuse,
         End(m, t) \notin DOMAIN m, NEW s \in S, FirstChunk(s) <= t, NEW e \in Int, e = segment_top(s),
         \A a \in DOMAIN m : a <= t \/ a >= e,
         NEW c, NEW F, RetiredPlaces(t, c, F, e), NEW n, Retired(m, n, t, c, F),
         NEW u \in Int, u \notin DOMAIN n
  PROVE  /\ Heap(n, S, u)
         /\ \A a : a \in FreeOf(n) <=> (a \in FreeOf(m) /\ a # t) \/ (a = t /\ c # t)
         /\ \A a : a \in UsedOf(n) <=> a \in UsedOf(m) \/ a = c \/ a \in F
         /\ \A a \in DOMAIN m : a # t => a \in DOMAIN n /\ n[a].size = m[a].size
         /\ \A a \in F : n[a].size = WORD
         /\ n[c].size = segment_record_size /\ c \notin F /\ c \notin UsedOf(m)
<1>1. /\ IsMem(m) /\ Mapped(S) /\ Tiled(m, S, t) /\ Tagged(m) /\ Footed(m) /\ Shaped(m, t)
      /\ Rooted(m, S)
  BY DEF Heap
<1>2. /\ c \in Int /\ t <= c /\ (c # t => c - t >= min_chunk_size) /\ Aligned(c)
      /\ c + segment_record_size \in F /\ F \subseteq Int
      /\ \A f \in F : /\ c + segment_record_size <= f /\ f + WORD < e
                      /\ f + WORD \in F \/ f + 2 * WORD >= e
      /\ \A f, g \in F : f < g => f + WORD <= g
  BY DEF RetiredPlaces
<1>3. /\ IsMem(n)
      /\ \A a : a \in DOMAIN n <=> a \in {t, c} \/ a \in F \/ (a \in DOMAIN m /\ a # t)
      /\ \A a \in DOMAIN m : a # t => n[a] = m[a]
      /\ c # t => /\ n[t].size = c - t /\ ~ n[t].cinuse /\ n[t].pinuse
                  /\ ~ n[c].pinuse /\ n[c].prev_foot = c - t
      /\ c = t => n[c].pinuse
      /\ n[c].size = segment_record_size /\ n[c].cinuse
      /\ \A f \in F : n[f].size = WORD /\ n[f].cinuse /\ n[f].pinuse
  BY DEF Retired
<1>4. WORD \in Int /\ WORD > 0 /\ segment_record_size \in Int /\ segment_record_size > 0
      /\ segment_record_size >= min_chunk_size /\ segment_record_size % malloc_alignment = 0
      /\ min_chunk_size \in Int /\ min_chunk_size > 0 /\ WORD < min_chunk_size
  BY Constants
<1>5. \A a \in DOMAIN m : /\ a \in Int /\ End(m, a) \in Int /\ m[a].size \in Int
                          /\ m[a].pinuse \in BOOLEAN /\ m[a].cinuse \in BOOLEAN
                          /\ a < End(m, a) /\ (a < t => End(m, a) <= t)
  BY ChunkFacts
<1>6. \A a \in DOMAIN n : /\ a \in Int /\ End(n, a) \in Int /\ n[a].size \in Int
                          /\ n[a].pinuse \in BOOLEAN /\ n[a].cinuse \in BOOLEAN
  BY <1>3, MemFacts
<1>7. \A f \in F : f \in Int /\ c < f /\ t < f /\ f < e /\ End(n, f) = f + WORD
  BY <1>2, <1>3, <1>4 DEF End
<1>8. /\ End(n, c) = c + segment_record_size /\ c < e
      /\ c # t => End(n, t) = c /\ t < c
  BY <1>2, <1>3, <1>4, <1>7 DEF End
<1>9. \A a \in DOMAIN m : a # t => /\ a \in DOMAIN n /\ End(n, a) = End(m, a) /\ n[a].size = m[a].size
                                   /\ n[a].cinuse = m[a].cinuse /\ a \notin F /\ a # c
  <2> SUFFICES ASSUME NEW a \in DOMAIN m, a # t
               PROVE  /\ a \in DOMAIN n /\ End(n, a) = End(m, a) /\ n[a].size = m[a].size
                      /\ n[a].cinuse = m[a].cinuse /\ a \notin F /\ a # c
    OBVIOUS
  <2>1. a < t \/ a >= e
    BY <1>5
  <2>2. a \notin F /\ a # c
    BY <1>2, <1>5, <1>7, <1>8, <2>1
  <2> QED
    BY <1>3, <2>2 DEF End
<1>10. \A a \in DOMAIN n : \/ a \in F \/ a = c \/ (a = t /\ c # t)
                           \/ a \in DOMAIN m /\ a # t /\ (a < t \/ a >= e)
  BY <1>3, <1>5
<1>11. t \in DOMAIN n /\ c \in DOMAIN n /\ c \notin F
  BY <1>3, <1>7
<1>12. \A lo, hi \in Int : FirstChunk(s) <= lo /\ hi < e => Within(S, lo, hi)
  BY DEF Within
<1>13. FirstChunk(s) \in Int /\ s.base <= t /\ s.base \in Int
  BY <1>1, FirstChunkFacts DEF Mapped
<1>14. Tiled(n, S, u)
  <2> SUFFICES ASSUME NEW a \in DOMAIN n
               PROVE  /\ a < End(n, a) /\ Within(S, a, End(n, a))
                      /\ \A b \in DOMAIN n : a < b => End(n, a) <= b
                      /\ End(n, a) \in DOMAIN n \/ a = u \/ (Fence(n, a) /\ EndsSegment(S, a))
    BY DEF Tiled
  <2>1. CASE a \in F
    <3>1. a < End(n, a) /\ Within(S, a, End(n, a))
      BY <1>2, <1>4, <1>6, <1>7, <1>12, <1>13, <2>1
    <3>2. \A b \in DOMAIN n : a < b => End(n, a) <= b
      <4> SUFFICES ASSUME NEW b \in DOMAIN n, a < b PROVE End(n, a) <= b
        OBVIOUS
      <4>1. b \in F \/ b >= e
        <5>1. b > c /\ b > t
          BY <1>2, <1>6, <1>7, <2>1
        <5> QED
          BY <1>2, <1>6, <1>10, <5>1
      <4> QED
        BY <1>2, <1>4, <1>6, <1>7, <2>1, <4>1
    <3>3. a + WORD \notin F => Fence(n, a) /\ EndsSegment(S, a)
      <4>1. s.base <= a /\ a < segment_top(s)
        BY <1>7, <1>13, <2>1
      <4> QED
        BY <1>2, <1>3, <2>1, <4>1 DEF Fence, EndsSegment
    <3> QED
      BY <1>3, <1>7, <2>1, <3>1, <3>2, <3>3
  <2>2. CASE a = c
    <3>1. a < End(n, a) /\ Within(S, a, End(n, a))
      BY <1>2, <1>4, <1>6, <1>7, <1>8, <1>12, <1>13, <2>2
    <3>2. \A b \in DOMAIN n : a < b => End(n, a) <= b
      <4> SUFFICES ASSUME NEW b \in DOMAIN n, a < b PROVE End(n, a) <= b
        OBVIOUS
      <4>1. b \in F \/ b >= e
        BY <1>2, <1>5, <1>7, <1>10, <2>2
      <4> QED
        BY <1>2, <1>4, <1>6, <1>7, <1>8, <2>2, <4>1
    <3> QED
      BY <1>2, <1>3, <1>8, <2>2, <3>1, <3>2
  <2>3. CASE a = t /\ c # t
    <3>1. a < End(n, a) /\ Within(S, a, End(n, a))
      BY <1>2, <1>8, <1>12, <1>13, <2>3
    <3>2. \A b \in DOMAIN n : a < b => End(n, a) <= b
      <4> SUFFICES ASSUME NEW b \in DOMAIN n, a < b PROVE c <= b
        BY <1>8, <2>3
      <4>1. b \in F \/ b = c \/ b >= e
        BY <1>6, <1>10, <2>3
      <4> QED
        BY <1>2, <1>6, <1>7, <1>8, <4>1
    <3> QED
      BY <1>8, <1>11, <2>3, <3>1, <3>2
  <2>4. CASE a \in DOMAIN m /\ a # t
    <3>1. /\ a < End(m, a) /\ Within(S, a, End(m, a))
          /\ \A b \in DOMAIN m : a < b => End(m, a) <= b
          /\ End(m, a) \in DOMAIN m \/ (Fence(m, a) /\ EndsSegment(S, a))
      BY <1>1, <2>4 DEF Tiled
    <3>2. \A b \in DOMAIN n : a < b => End(n, a) <= b
      <4> SUFFICES ASSUME NEW b \in DOMAIN n, a < b PROVE End(n, a) <= b
        OBVIOUS
      <4>1. b \in DOMAIN m \/ (a < t /\ t <= b)
        <5>1. CASE b \in F \/ b = c
          <6>1. t <= b /\ b < e /\ b \in Int
            <7>1. CASE b \in F
              BY <1>7, <7>1
            <7>2. CASE b = c
              BY <1>2, <1>8, <7>2
            <7> QED
              BY <5>1, <7>1, <7>2
          <6>2. a < e /\ a \in Int
            BY <1>6, <6>1
          <6> QED
            BY <1>5, <2>4, <6>1, <6>2
        <5>2. CASE b = t
          BY <5>2
        <5> QED
          BY <1>10, <5>1, <5>2
      <4> QED
        BY <1>5, <1>6, <1>9, <2>4, <3>1, <4>1
    <3>3. End(m, a) \in DOMAIN m => End(m, a) \in DOMAIN n
      BY <1>9, <1>11
    <3>4. Fence(m, a) => Fence(n, a)
      BY <1>9, <2>4 DEF Fence
    <3> QED
      BY <1>9, <2>4, <3>1, <3>2, <3>3, <3>4
  <2> QED
    BY <1>10, <2>1, <2>2, <2>3, <2>4
<1>15. m[t].pinuse
  BY FreeFacts
<1>16. n[t].pinuse
  BY <1>3
<1>17. Tagged(n)
  <2> SUFFICES ASSUME NEW a \in DOMAIN n, End(n, a) \in DOMAIN n
               PROVE  /\ n[End(n, a)].pinuse = n[a].cinuse
                      /\ ~ n[a].cinuse =>
                           n[End(n, a)].prev_foot = n[a].size /\ n[End(n, a)].cinuse
    BY DEF Tagged
  <2>1. CASE a \in F
    <3>1. End(n, a) \in F
      <4>1. End(n, a) > c /\ End(n, a) > t /\ End(n, a) < e
        <5>1. a \in Int /\ c < a /\ t < a /\ a + WORD < e /\ End(n, a) = a + WORD
          BY <1>2, <1>7, <2>1
        <5> QED
          BY <1>2, <1>4, <5>1
      <4> QED
        BY <1>2, <1>6, <1>10, <4>1
    <3>2. n[a].cinuse = TRUE /\ n[End(n, a)].pinuse = TRUE
      BY <1>3, <1>6, <2>1, <3>1
    <3> QED
      BY <3>2
  <2>2. CASE a = c
    <3>1. End(n, a) \in F
      BY <1>2, <1>8, <2>2
    <3>2. n[a].cinuse = TRUE /\ n[End(n, a)].pinuse = TRUE
      BY <1>3, <1>6, <2>2, <3>1
    <3> QED
      BY <3>2
  <2>3. CASE a = t /\ c # t
    <3>1. n[a].cinuse = FALSE /\ n[c].pinuse = FALSE /\ n[c].cinuse /\ End(n, a) = c
      BY <1>3, <1>6, <1>8, <1>11, <2>3
    <3> QED
      BY <1>3, <2>3, <3>1
  <2>4. CASE a \in DOMAIN m /\ a # t
    <3>1. End(m, a) \in DOMAIN m \/ End(m, a) \in F \/ End(m, a) = c
      BY <1>9, <1>10, <2>4
    <3>2. End(m, a) \in DOMAIN m
      <4>1. a < t \/ a >= e
        BY <1>5, <2>4
      <4> QED
        BY <1>2, <1>5, <1>7, <1>8, <2>4, <3>1, <4>1
    <3>3. /\ m[End(m, a)].pinuse = m[a].cinuse
          /\ ~ m[a].cinuse => m[End(m, a)].prev_foot = m[a].size /\ m[End(m, a)].cinuse
      BY <1>1, <2>4, <3>2 DEF Tagged
    <3>4. CASE End(m, a) = t
      <4>1. m[a].cinuse = TRUE /\ n[t].pinuse = TRUE
        BY <1>5, <1>6, <1>11, <1>15, <1>16, <2>4, <3>3, <3>4
      <4> QED
        BY <1>9, <2>4, <3>4, <4>1
    <3>5. CASE End(m, a) # t
      BY <1>3, <1>9, <2>4, <3>2, <3>3, <3>5
    <3> QED
      BY <3>4, <3>5
  <2> QED
    BY <1>10, <2>1, <2>2, <2>3, <2>4
<1>18. Footed(n)
  <2> SUFFICES ASSUME NEW a \in DOMAIN n, ~ n[a].pinuse
               PROVE  \E b \in DOMAIN n : End(n, b) = a /\ ~ n[b].cinuse
    BY DEF Footed
  <2>1. CASE a = c /\ c # t
    BY <1>3, <1>8, <1>11, <2>1
  <2>2. CASE a \in DOMAIN m /\ a # t
    <3>1. PICK b \in DOMAIN m : End(m, b) = a /\ ~ m[b].cinuse
      BY <1>1, <1>3, <2>2 DEF Footed
    <3>2. b # t
      BY <2>2, <3>1
    <3> QED
      BY <1>9, <3>1, <3>2
  <2> QED
    BY <1>3, <1>10, <1>16, <2>1, <2>2
<1>19. Shaped(n, u)
  <2> SUFFICES ASSUME NEW a \in DOMAIN n
               PROVE  \/ Fence(n, a)
                      \/ Aligned(a) /\ Aligned(n[a].size) /\ n[a].size >= min_chunk_size
    BY DEF Shaped
  <2>1. CASE a \in F
    BY <1>3, <2>1 DEF Fence
  <2>2. CASE a = c
    BY <1>2, <1>3, <1>4, <2>2 DEF Aligned
  <2>3. CASE a = t /\ c # t
    <3>1. Aligned(t)
      BY FreeFacts
    <3> QED
      BY <1>2, <1>3, <2>3, <3>1, AlignedSum
  <2>4. CASE a \in DOMAIN m /\ a # t
    BY <1>1, <1>9, <2>4 DEF Shaped, Fence
  <2> QED
    BY <1>10, <2>1, <2>2, <2>3, <2>4
<1>20. Rooted(n, S)
  <2> SUFFICES ASSUME NEW x \in S PROVE FirstChunk(x) \in DOMAIN n /\ n[FirstChunk(x)].pinuse
    BY DEF Rooted
  <2>1. FirstChunk(x) \in DOMAIN m /\ m[FirstChunk(x)].pinuse
    BY <1>1 DEF Rooted
  <2> QED
    BY <1>3, <1>11, <1>16, <2>1
<1>21. Heap(n, S, u)
  BY <1>1, <1>3, <1>14, <1>17, <1>18, <1>19, <1>20 DEF Heap
<1>22. \A a : a \in FreeOf(n) <=> (a \in FreeOf(m) /\ a # t) \/ (a = t /\ c # t)
  BY <1>3, <1>9, <1>10, <1>11 DEF FreeOf
<1>23. \A a : a \in UsedOf(n) <=> a \in UsedOf(m) \/ a = c \/ a \in F
  BY <1>3, <1>9, <1>10, <1>11 DEF UsedOf
<1>24. c \notin UsedOf(m)
  BY <1>9 DEF UsedOf
<1> QED
  BY <1>3, <1>9, <1>11, <1>21, <1>22, <1>23, <1>24

\* What retired writes.
LEMMA RetiredIs ==
  ASSUME NEW k, IsMem(k), NEW c \in Int, NEW e \in Int, top \in Int, top \in DOMAIN k,
         \A a \in DOMAIN k : a <= top \/ a >= e, c = top => k[top].pinuse,
         RetiredPlaces(top, c, fenceposts(c + segment_record_size, e), e),
         NEW n, n = retired(k, c, e)
  PROVE  Retired(k, n, top, c, fenceposts(c + segment_record_size, e))
<1> DEFINE F == fenceposts(c + segment_record_size, e)
           k1 == set_size_and_pinuse_of_inuse_chunk(k, c, segment_record_size)
           k2 == [a \in DOMAIN k1 \cup F |-> IF a \in F THEN fencepost_head ELSE k1[a]]
<1>1. /\ c \in Int /\ top <= c /\ (c # top => c - top >= min_chunk_size)
      /\ c + segment_record_size \in F /\ F \subseteq Int
      /\ \A f \in F : c + segment_record_size <= f /\ f + WORD < e
  BY DEF RetiredPlaces
<1>2. n = IF c # top THEN set_free_with_pinuse(k2, top, c - top, c) ELSE k2
  BY DEF retired
<1>3. /\ segment_record_size \in Int /\ segment_record_size > 0 /\ WORD \in Int /\ WORD > 0
      /\ min_chunk_size > 0
  BY Constants
<1>4. c + segment_record_size \in Int /\ c + segment_record_size < e /\ c < e
  BY <1>1, <1>3
<1>5. \A a \in DOMAIN k : a \in Int
  BY DEF IsMem
<1>6. Headed(k, k1, c, segment_record_size) /\ k1[c].pinuse /\ k1[c].cinuse
  BY <1>1, <1>3, SetHeadIs DEF set_size_and_pinuse_of_inuse_chunk
<1>7. /\ IsMem(k1) /\ \A y : y \in DOMAIN k1 <=> y = c \/ y \in DOMAIN k
      /\ \A x \in DOMAIN k1 : x # c => k1[x] = k[x]
      /\ k1[c].size = segment_record_size
  <2>1. \A y \in DOMAIN k : y <= c \/ y >= c + segment_record_size
    BY <1>1, <1>4, <1>5
  <2> QED
    BY <1>6, <2>1 DEF Headed
<1>8. \A f \in F : f \in Int /\ f # c /\ f > c /\ f # top /\ f \notin DOMAIN k
  BY <1>1, <1>3, <1>4, <1>5
<1>81. \A f \in F : f >= c
  BY <1>8
<1>9. /\ fencepost_head \in Headers /\ fencepost_head.size = WORD /\ fencepost_head.pinuse
      /\ fencepost_head.cinuse
  BY <1>3 DEF fencepost_head, Headers
<1> HIDE DEF k1, F
<1>10. /\ IsMem(k2) /\ \A y : y \in DOMAIN k2 <=> y = c \/ y \in F \/ y \in DOMAIN k
       /\ \A x \in DOMAIN k : x # c => k2[x] = k[x]
       /\ \A f \in F : k2[f] = fencepost_head
       /\ c \in DOMAIN k2 /\ k2[c] = k1[c]
  <2>1. DOMAIN k2 = DOMAIN k1 \cup F
    OBVIOUS
  <2>2. /\ \A f \in F : k2[f] = fencepost_head
        /\ \A x \in DOMAIN k1 : x \notin F => k2[x] = k1[x]
    OBVIOUS
  <2>3. \A x \in DOMAIN k2 : x \in Int /\ k2[x] \in Headers
    BY <1>1, <1>7, <1>9, <2>1, <2>2 DEF IsMem
  <2>4. k2 \in [DOMAIN k2 -> Headers]
    BY <2>3
  <2>5. IsMem(k2)
    BY <2>3, <2>4 DEF IsMem
  <2> QED
    BY <1>7, <1>8, <2>1, <2>2, <2>5
<1> HIDE DEF k2
<1>11. CASE c = top
  <2>1. n = k2
    BY <1>2, <1>11
  <2>2. k2[c].pinuse /\ k2[c].cinuse /\ k2[c].size = segment_record_size
    BY <1>6, <1>7, <1>10
  <2>3. \A x \in DOMAIN k : x # top => n[x] = k[x]
    BY <1>10, <1>11, <2>1
  <2>4. \A f \in F : n[f].size = WORD /\ n[f].cinuse /\ n[f].pinuse
    BY <1>9, <1>10, <2>1
  <2>5. \A a : a \in DOMAIN n <=> a \in {top, c} \/ a \in F \/ (a \in DOMAIN k /\ a # top)
    BY <1>10, <1>11, <2>1
  <2> QED
    BY <1>10, <1>11, <2>1, <2>2, <2>3, <2>4, <2>5 DEF Retired, F
<1>12. CASE c # top
  <2> DEFINE size == c - top
             k3 == clear_pinuse(k2, c)
             k4 == SetHead(k3, top, size, TRUE, FALSE)
  <2>1. size \in Int /\ size > 0 /\ top + size = c /\ top < c
    BY <1>1, <1>3, <1>12
  <2>2. n = set_foot(k4, top, size)
    BY <1>2, <1>12 DEF set_free_with_pinuse, set_size_and_pinuse_of_free_chunk
  <2>3. Retagged(k2, k3, c) /\ ~ k3[c].pinuse
    BY <1>1, <1>10, ClearIs
  <2>4. /\ IsMem(k3) /\ \A y : y \in DOMAIN k3 <=> y \in DOMAIN k2
        /\ \A x \in DOMAIN k3 : x # c => k3[x] = k2[x]
        /\ k3[c].size = segment_record_size /\ k3[c].cinuse
    BY <1>6, <1>7, <1>10, <2>3, HeaderIs DEF Retagged
  <2> HIDE DEF k3
  <2>6. \A y \in DOMAIN k3 : y <= top \/ y >= c
    <3> SUFFICES ASSUME NEW y \in DOMAIN k3 PROVE y <= top \/ y >= c
      OBVIOUS
    <3>1. y = c \/ y \in F \/ y \in DOMAIN k
      BY <1>10, <2>4
    <3>2. y \in F => y >= c
      BY <1>81
    <3>3. y \in DOMAIN k => y <= top \/ y >= c
      BY <1>1, <1>4, <1>5
    <3> QED
      BY <1>1, <3>1, <3>2, <3>3
  <2> HIDE DEF size
  <2>5. Headed(k3, k4, top, size) /\ k4[top].pinuse /\ ~ k4[top].cinuse
    <3>1. size \in Int /\ top \in Int /\ IsMem(k3)
      BY <2>1, <2>4
    <3> QED
      BY <3>1, SetHeadIs
  <2>7. /\ IsMem(k4) /\ \A y : y \in DOMAIN k4 <=> y \in DOMAIN k3
        /\ \A x \in DOMAIN k4 : x # top => k4[x] = k3[x]
        /\ k4[top].size = size
    BY <1>10, <2>1, <2>4, <2>5, <2>6 DEF Headed
  <2> HIDE DEF k4
  <2>8. /\ Retagged(k4, n, top + size)
        /\ n[top + size].pinuse = pinuse(k4, top + size) /\ n[top + size].prev_foot = size
    BY <2>1, <2>2, <2>7, FootIs
  <2>9. /\ IsMem(n) /\ \A y : y \in DOMAIN n <=> y \in DOMAIN k4
        /\ \A x \in DOMAIN n : x # c => n[x] = k4[x]
        /\ n[c].size = segment_record_size /\ n[c].cinuse /\ n[c].prev_foot = size
        /\ ~ n[c].pinuse
    <3>1. c \in DOMAIN k4 /\ k4[c] = k3[c]
      BY <1>10, <1>12, <2>4, <2>7
    <3>2. HeaderAt(k4, c) = k3[c] /\ pinuse(k4, c) = k3[c].pinuse
      BY <3>1, HeaderIs
    <3> QED
      BY <2>1, <2>3, <2>4, <2>8, <3>1, <3>2 DEF Retagged
  <2>10. \A y : y \in DOMAIN n <=> y = c \/ y \in F \/ y \in DOMAIN k
    BY <1>10, <2>4, <2>7, <2>9
  <2>11. /\ \A x \in DOMAIN k : x # top => n[x] = k[x]
         /\ \A f \in F : n[f] = fencepost_head
    <3>1. \A x \in DOMAIN k : x # c
      BY <1>1, <1>4, <1>5, <1>12
    <3>2. \A x \in DOMAIN n : x # c /\ x # top => n[x] = k2[x]
      BY <2>4, <2>7, <2>9
    <3> QED
      BY <1>8, <1>10, <2>10, <3>1, <3>2
  <2>12. n[top].size = size /\ ~ n[top].cinuse /\ n[top].pinuse
    BY <1>12, <2>5, <2>7, <2>9, <2>10
  <2>13. \A f \in F : n[f].size = WORD /\ n[f].cinuse /\ n[f].pinuse
    BY <1>9, <2>11
  <2>14. \A a : a \in DOMAIN n <=> a \in {top, c} \/ a \in F \/ (a \in DOMAIN k /\ a # top)
    BY <2>10
  <2> QED
    BY <1>12, <2>9, <2>11, <2>12, <2>13, <2>14 DEF Retired, F, size
<1> QED
  BY <1>11, <1>12

\* A chunk lies outside of a region that meets no segment.
LEMMA OutsideRegion ==
  ASSUME NEW m, NEW S, NEW t, Heap(m, S, t), NEW r \in Segment, \A x \in S : Apart(x, r),
         NEW a, a \in DOMAIN m
  PROVE  /\ a \in Int /\ End(m, a) \in Int /\ a < End(m, a)
         /\ End(m, a) < r.base \/ a >= segment_top(r)
<1>1. /\ a \in Int /\ End(m, a) \in Int /\ a < End(m, a) /\ Within(S, a, End(m, a))
      /\ Mapped(S)
  BY ChunkFacts DEF Heap
<1>2. PICK x \in S : FirstChunk(x) <= a /\ End(m, a) < segment_top(x)
  BY <1>1 DEF Within
<1>3. Apart(x, r) /\ x \in Segment
  BY <1>1 DEF Mapped
<1>4. /\ x.base \in Int /\ segment_top(x) \in Int /\ x.base <= FirstChunk(x) /\ FirstChunk(x) \in Int
      /\ r.base \in Int /\ segment_top(r) \in Int
  BY <1>3, FirstChunkFacts
<1> QED
  BY <1>1, <1>2, <1>3, <1>4 DEF Apart

\* What align_as_chunk returns.
LEMMA AsChunk ==
  ASSUME NEW a \in Int
  PROVE  /\ align_as_chunk(a) \in Int /\ Aligned(align_as_chunk(a))
         /\ a <= align_as_chunk(a) /\ align_as_chunk(a) < a + malloc_alignment
         /\ Aligned(a) => align_as_chunk(a) = a
<1>1. mem_offset \in Int /\ malloc_alignment \in Nat \ {0} /\ Aligned(mem_offset)
  BY Constants DEF Aligned
<1> DEFINE up == align_up(a + mem_offset, malloc_alignment)
<1>2. a + mem_offset \in Int
  BY <1>1
<1>3. up \in Int /\ up % malloc_alignment = 0 /\ a + mem_offset <= up
      /\ up < a + mem_offset + malloc_alignment
  BY <1>1, <1>2, AlignUp
<1>4. align_as_chunk(a) = a + (up - (a + mem_offset))
  BY DEF align_as_chunk, align_offset_usize, to_mem
<1> HIDE DEF up
<1>5. align_as_chunk(a) = up - mem_offset
  BY <1>1, <1>3, <1>4
<1>6. Aligned(up)
  BY <1>3 DEF Aligned
<1>7. Aligned(align_as_chunk(a))
  BY <1>1, <1>3, <1>5, <1>6, AlignedSum
<1>8. align_as_chunk(a) \in Int /\ a <= align_as_chunk(a)
      /\ align_as_chunk(a) < a + malloc_alignment
  BY <1>1, <1>3, <1>5
<1>9. ASSUME Aligned(a) PROVE align_as_chunk(a) = a
  <2> DEFINE d == align_as_chunk(a) - a
  <2>1. Aligned(d)
    BY <1>7, <1>8, <1>9, AlignedSum
  <2>2. d \in Int /\ 0 <= d /\ d < malloc_alignment
    BY <1>1, <1>8
  <2> HIDE DEF d
  <2>3. d = 0
    BY <2>1, <2>2, Constants DEF Aligned
  <2> QED
    BY <1>8, <2>3 DEF d
<1> QED
  BY <1>7, <1>8, <1>9

\* Where the record of a segment, whose end the foot of top fills, comes to lie.
LEMMA RecordPlaces ==
  ASSUME top \in Int, NEW e \in Int, NEW size \in Int, size > 0, top + size + top_foot_size = e,
         Aligned(top), NEW c \in Int, c = record_chunk(e)
  PROVE  RetiredPlaces(top, c, fenceposts(c + segment_record_size, e), e)
<1> DEFINE x == e - (segment_record_size + 4 * WORD + malloc_alignment - 1)
           asp == align_as_chunk(x)
<1>1. /\ segment_record_size \in Int /\ malloc_alignment \in Int /\ WORD \in Int /\ WORD > 0
      /\ mem_offset \in Int /\ mem_offset = malloc_alignment /\ malloc_alignment > 0
      /\ min_chunk_size = 4 * WORD /\ top_foot_size = segment_record_size + 4 * WORD
      /\ malloc_alignment = 2 * WORD
  BY Constants
<1>2. x \in Int
  BY <1>1
<1> HIDE DEF x
<1>5. asp \in Int /\ x <= asp /\ asp < x + malloc_alignment /\ Aligned(asp)
  BY <1>2, AsChunk
<1>8. c = IF asp < top + min_chunk_size THEN top ELSE asp
  BY DEF record_chunk, x
<1> HIDE DEF asp
<1>7. asp <= e - segment_record_size - 4 * WORD
  BY <1>1, <1>5 DEF x
<1>9. /\ top <= c /\ Aligned(c) /\ (c # top => c - top >= min_chunk_size)
      /\ c + segment_record_size + WORD < e
  BY <1>1, <1>5, <1>7, <1>8
<1>10. c + segment_record_size \in Int
  BY <1>1
<1> DEFINE tn == c + segment_record_size
<1> HIDE DEF tn
<1>11. tn \in Int /\ tn + WORD < e
  BY <1>9, <1>10 DEF tn
<1>12. /\ tn \in fenceposts(tn, e) /\ fenceposts(tn, e) \subseteq Int
       /\ \A f \in fenceposts(tn, e) : /\ tn <= f /\ f + WORD < e
                                       /\ f + WORD \in fenceposts(tn, e) \/ f + 2 * WORD >= e
       /\ \A f, g \in fenceposts(tn, e) : f < g => f + WORD <= g
  BY <1>11, FenceFacts
<1> QED
  BY <1>9, <1>12 DEF RetiredPlaces, tn

\* The bins once the old top, if any of it is left before c, is in one of them.
LeftOfTop(C, c) == C = IF c # top THEN bins \cup {top} ELSE bins

\* A region r, its top at lo, is added to the segments S as the newest; s, the newest
\* until now, ends at e and becomes s1, with its record in c and fenceposts F behind it.
Adds(S, e, s, s1, S2, r, R, lo, size, c, F, C, n) ==
  /\ s \in S /\ FirstChunk(s) <= top /\ e = segment_top(s)
  /\ s1 \in Segment /\ s1.base = s.base /\ s1.size = s.size /\ Replaced(S, S2, s, s1)
  /\ r \in Segment /\ r.base > 0 /\ \A x \in S : Apart(x, r)
  /\ \A x : x \in R <=> x \in S2 \/ x = r
  /\ lo \in Int /\ lo = FirstChunk(r) /\ size \in Int /\ size > 0
  /\ lo + size + top_foot_size = segment_top(r)
  /\ c \in Int /\ c = record_chunk(e) /\ F = fenceposts(c + segment_record_size, e)
  /\ LeftOfTop(C, c) /\ n = retired(TopFrom(mem, lo, size), c, e)

\* A new segment whose start becomes top, behind which the old top keeps the
\* record of its segment.
LEMMA AddedSound ==
  ASSUME NEW S, NEW e \in Int, Sound(mem, S, e, bins, dv, dvsize, top, topsize), top # NULL,
         NEW s, NEW s1, NEW S2, NEW r, NEW R, NEW lo, NEW size, NEW c, NEW F, NEW C, NEW n,
         Adds(S, e, s, s1, S2, r, R, lo, size, c, F, C, n)
  PROVE  /\ Sound(n, R, segment_top(r), C, dv, dvsize, lo, size)
         /\ \A a : a \in UsedOf(n) <=> a \in UsedOf(mem) \/ a = c \/ a \in F
         /\ \A a \in UsedOf(mem) : n[a].size = mem[a].size
         /\ c \notin UsedOf(mem) /\ c \notin F /\ n[c].size = segment_record_size
         /\ \A a \in F : n[a].size = WORD
         /\ c \in Int /\ s.base <= c /\ c + segment_record_size < e
<1> USE DEF Adds
<1> DEFINE hi == lo + size
           k == TopFrom(mem, lo, size)
           m1 == [a \in DOMAIN n \ {lo} |-> n[a]]
<1>1. /\ Heap(mem, S, top) /\ IsMem(mem) /\ Mapped(S) /\ top \in Int /\ dv \in Int
      /\ NULL \notin DOMAIN mem
  BY SoundHeap
<1>2. /\ top \in DOMAIN mem /\ ~ mem[top].cinuse /\ topsize = mem[top].size
      /\ End(mem, top) \notin DOMAIN mem /\ Aligned(top)
      /\ End(mem, top) + top_foot_size = e
      /\ \A a \in DOMAIN mem : a <= top \/ a >= e
  BY TopFacts
<1>3. mem[top].pinuse /\ top > 0 /\ topsize \in Int /\ topsize > 0 /\ top + topsize + top_foot_size = e
  <2>1. mem[top].pinuse
    BY <1>1, <1>2, FreeFacts
  <2>2. top > 0 /\ mem[top].size \in Int /\ mem[top].size > 0 /\ End(mem, top) = top + mem[top].size
    BY <1>1, <1>2, ChunkFacts
  <2> QED
    BY <1>2, <2>1, <2>2
<1>4. /\ s \in Segment /\ s.base \in Int /\ segment_top(s) \in Int /\ s.base <= FirstChunk(s)
      /\ FirstChunk(s) \in Int
      /\ r.base <= lo /\ segment_top(r) \in Int /\ r.base \in Int /\ Aligned(lo)
  <2>1. s \in Segment
    BY <1>1 DEF Mapped
  <2> QED
    BY <2>1, FirstChunkFacts
<1>5. hi \in Int /\ lo < hi /\ hi < segment_top(r)
  BY <1>4, Constants
<1>6. /\ \A a \in DOMAIN mem : a < lo \/ a > hi
      /\ lo \notin DOMAIN mem /\ hi \notin DOMAIN mem
  <2> SUFFICES ASSUME NEW a, a \in DOMAIN mem PROVE a \in Int /\ (a < lo \/ a > hi)
    BY <1>5
  <2>1. a \in Int /\ End(mem, a) \in Int /\ a < End(mem, a)
        /\ (End(mem, a) < r.base \/ a >= segment_top(r))
    BY <1>1, OutsideRegion
  <2> QED
    BY <1>4, <1>5, <2>1
<1>7. RetiredPlaces(top, c, F, e)
  BY <1>1, <1>2, <1>3, RecordPlaces
<1>8. lo >= e \/ lo < top
  <2>1. Apart(s, r)
    OBVIOUS
  <2> QED
    BY <1>1, <1>4, <1>5, <2>1 DEF Apart
<1>9. IsMem(k) /\ Cut(mem, k, lo, hi, hi) /\ ~ k[lo].cinuse /\ k[lo].pinuse
  <2> HIDE DEF k, hi
  <2>1. k = TopFrom(mem, lo, size) /\ hi = lo + size
    BY DEF k, hi
  <2> QED
    BY <1>1, <1>5, <1>6, <2>1, WriteEnd
<1>10. /\ \A a : a \in DOMAIN k <=> a = lo \/ a \in DOMAIN mem
       /\ \A a \in DOMAIN mem : k[a] = mem[a]
       /\ k[lo].size = size
  <2>1. LastPiece(lo, hi, hi) = lo
    BY DEF LastPiece
  <2>2. size = hi - lo
    OBVIOUS
  <2> HIDE DEF hi, k
  <2>3. k[lo].size = hi - lo
    BY <1>9 DEF Cut
  <2>4. \A a \in DOMAIN mem : a # lo /\ (a < lo \/ a > hi)
    BY <1>6
  <2>5. \A a : a \in DOMAIN k <=> a \in {lo, LastPiece(lo, hi, hi)}
                                  \/ (a \in DOMAIN mem /\ (a < lo \/ a >= hi))
    BY <1>9 DEF Cut
  <2>6. \A a : a \in DOMAIN k <=> a = lo \/ a \in DOMAIN mem
    <3>1. \A a \in DOMAIN mem : a < lo \/ a >= hi
      BY <1>1, <1>5, <2>4 DEF IsMem
    <3> QED
      BY <2>1, <2>5, <3>1
  <2>7. \A a \in DOMAIN mem : k[a] = mem[a]
    BY <1>9, <2>4 DEF Cut
  <2> QED
    BY <2>2, <2>3, <2>6, <2>7
<1>11. Retired(k, n, top, c, F)
  <2>1. \A a \in DOMAIN k : a <= top \/ a >= e
    BY <1>1, <1>2, <1>8, <1>10
  <2>2. top \in DOMAIN k /\ (c = top => k[top].pinuse)
    BY <1>2, <1>3, <1>10
  <2>3. n = retired(k, c, e)
    OBVIOUS
  <2>4. RetiredPlaces(top, c, fenceposts(c + segment_record_size, e), e)
    BY <1>7
  <2> HIDE DEF k
  <2>5. Retired(k, n, top, c, fenceposts(c + segment_record_size, e))
    BY <1>1, <1>9, <2>1, <2>2, <2>3, <2>4, RetiredIs
  <2> QED
    BY <2>5
<1> HIDE DEF k
<1>12. /\ IsMem(n)
       /\ \A a : a \in DOMAIN n <=> a \in {top, c} \/ a \in F \/ (a \in DOMAIN k /\ a # top)
       /\ \A a \in DOMAIN k : a # top => n[a] = k[a]
       /\ c # top => /\ n[top].size = c - top /\ ~ n[top].cinuse /\ n[top].pinuse
                     /\ ~ n[c].pinuse /\ n[c].prev_foot = c - top
       /\ c = top => n[c].pinuse
       /\ n[c].size = segment_record_size /\ n[c].cinuse
       /\ \A f \in F : n[f].size = WORD /\ n[f].cinuse /\ n[f].pinuse
  BY <1>11 DEF Retired
<1>13. /\ c \in Int /\ top <= c /\ c + segment_record_size \in F /\ F \subseteq Int
       /\ \A f \in F : c + segment_record_size <= f /\ f + WORD < e
  BY <1>7 DEF RetiredPlaces
<1>14. /\ c < e /\ c + segment_record_size < e /\ lo # c /\ lo # top
       /\ \A f \in F : f \in Int /\ f # lo /\ f # hi /\ f > top
  <2>1. /\ segment_record_size \in Int /\ segment_record_size > 0 /\ WORD \in Int /\ WORD > 0
    BY Constants
  <2>2. c + segment_record_size \in Int /\ c + segment_record_size < e /\ c < e
    BY <1>13, <2>1
  <2>3. hi >= e \/ hi < top
    <3>1. Apart(s, r)
      OBVIOUS
    <3> QED
      BY <1>1, <1>4, <1>5, <3>1 DEF Apart
  <2>4. ASSUME NEW f \in F PROVE f \in Int /\ f # lo /\ f # hi /\ f > top
    BY <1>1, <1>5, <1>8, <1>13, <2>1, <2>3
  <2> QED
    BY <1>1, <1>8, <1>13, <2>2, <2>4
<1>15. /\ IsMem(m1) /\ \A a : a \in DOMAIN m1 <=> a \in DOMAIN n /\ a # lo
       /\ \A a \in DOMAIN m1 : m1[a] = n[a]
  <2>1. DOMAIN m1 = DOMAIN n \ {lo}
    OBVIOUS
  <2>2. \A a \in DOMAIN m1 : m1[a] = n[a]
    OBVIOUS
  <2>3. \A a \in DOMAIN m1 : a \in Int /\ m1[a] \in Headers
    BY <1>12, <2>1, <2>2 DEF IsMem
  <2>4. m1 \in [DOMAIN m1 -> Headers]
    BY <2>3
  <2> QED
    BY <2>1, <2>2, <2>3, <2>4 DEF IsMem
<1> HIDE DEF m1
<1>16. Retired(mem, m1, top, c, F)
  <2>1. \A a : a \in DOMAIN m1 <=> a \in {top, c} \/ a \in F \/ (a \in DOMAIN mem /\ a # top)
    BY <1>6, <1>10, <1>12, <1>14, <1>15
  <2>2. top \in DOMAIN m1 /\ c \in DOMAIN m1 /\ m1[top] = n[top] /\ m1[c] = n[c]
    BY <1>15, <2>1
  <2>3. \A f \in F : m1[f] = n[f]
    BY <1>15, <2>1
  <2>4. \A a \in DOMAIN mem : a # top => m1[a] = mem[a]
    BY <1>10, <1>12, <1>15, <2>1
  <2>5. /\ c # top => /\ m1[top].size = c - top /\ ~ m1[top].cinuse /\ m1[top].pinuse
                      /\ ~ m1[c].pinuse /\ m1[c].prev_foot = c - top
        /\ c = top => m1[c].pinuse
        /\ m1[c].size = segment_record_size /\ m1[c].cinuse
    BY <1>12, <2>2
  <2>6. \A f \in F : m1[f].size = WORD /\ m1[f].cinuse /\ m1[f].pinuse
    BY <1>12, <2>3
  <2> QED
    BY <1>15, <2>1, <2>4, <2>5, <2>6 DEF Retired
<1>17. Heap(mem, S2, top)
  <2>1. FirstChunk(s1) = FirstChunk(s) /\ segment_top(s1) = segment_top(s)
    BY DEF FirstChunk, segment_top
  <2>2. s1.base > 0 /\ FirstChunk(s1) < segment_top(s1)
    BY <1>1, <2>1 DEF Mapped
  <2>3. \A x \in S : x # s => Apart(x, s1)
    BY <1>1, <2>1 DEF Mapped, Apart
  <2> QED
    BY <1>1, <2>1, <2>2, <2>3, Reshaped
<1>18. /\ s1 \in S2 /\ FirstChunk(s1) <= top /\ e = segment_top(s1)
       /\ \A x \in S2 : Apart(x, r)
  <2>1. FirstChunk(s1) = FirstChunk(s) /\ segment_top(s1) = segment_top(s)
    BY DEF FirstChunk, segment_top
  <2>2. Apart(s1, r)
    <3>1. Apart(s, r)
      OBVIOUS
    <3> QED
      BY <2>1, <3>1 DEF Apart
  <2> QED
    BY <2>1, <2>2 DEF Replaced
<1>19. NULL \in Int /\ NULL \notin DOMAIN m1
  <2>1. \A f \in F : f > 0
    BY <1>1, <1>3, <1>14
  <2> QED
    BY <1>1, <1>3, <1>13, <1>16, <2>1 DEF Retired, NULL
<1>20. /\ Heap(m1, S2, NULL)
       /\ \A a : a \in FreeOf(m1) <=> (a \in FreeOf(mem) /\ a # top) \/ (a = top /\ c # top)
       /\ \A a : a \in UsedOf(m1) <=> a \in UsedOf(mem) \/ a = c \/ a \in F
       /\ \A a \in DOMAIN mem : a # top => a \in DOMAIN m1 /\ m1[a].size = mem[a].size
       /\ \A a \in F : m1[a].size = WORD
       /\ m1[c].size = segment_record_size /\ c \notin F /\ c \notin UsedOf(mem)
  <2> DEFINE u == NULL
  <2>1. u \in Int /\ u \notin DOMAIN m1
    BY <1>19
  <2> HIDE DEF u
  <2>2. /\ Heap(m1, S2, u)
        /\ \A a : a \in FreeOf(m1) <=> (a \in FreeOf(mem) /\ a # top) \/ (a = top /\ c # top)
        /\ \A a : a \in UsedOf(m1) <=> a \in UsedOf(mem) \/ a = c \/ a \in F
        /\ \A a \in DOMAIN mem : a # top => a \in DOMAIN m1 /\ m1[a].size = mem[a].size
        /\ \A a \in F : m1[a].size = WORD
        /\ m1[c].size = segment_record_size /\ c \notin F /\ c \notin UsedOf(mem)
    BY <1>1, <1>2, <1>7, <1>16, <1>17, <1>18, <2>1, RetiredHeap
  <2> QED
    BY <2>2 DEF u
<1>21. FreeOf(mem) = bins \cup ({dv, top} \ {NULL}) /\ dv \notin bins /\ top \notin bins
       /\ (dv = top => dv = NULL) /\ dvsize = HeaderAt(mem, dv).size
  BY DEF Sound, Binned
<1>22. dv \notin C /\ \A a : a \in FreeOf(m1) <=> a \in C \/ (a = dv /\ dv # NULL)
  <2>1. dv # top
    BY <1>21
  <2>2. dv \notin C
    BY <1>21, <2>1 DEF LeftOfTop
  <2>3. \A a : a \in FreeOf(m1) <=> a \in C \/ (a = dv /\ dv # NULL)
    BY <1>20, <1>21, <2>1 DEF LeftOfTop
  <2> QED
    BY <2>2, <2>3
<1>23. dvsize = HeaderAt(m1, dv).size
  <2>1. CASE dv = NULL
    BY <1>1, <1>19, <1>21, <2>1, NoHeader
  <2>2. CASE dv # NULL
    <3>1. dv \in FreeOf(mem) /\ dv # top
      BY <1>21, <2>2
    <3>2. dv \in DOMAIN mem
      BY <3>1 DEF FreeOf
    <3>3. dv \in DOMAIN m1 /\ m1[dv].size = mem[dv].size
      BY <1>20, <3>1, <3>2
    <3> QED
      BY <1>21, <3>2, <3>3, HeaderIs
  <2> QED
    BY <2>1, <2>2
<1>24. Cut(m1, n, lo, hi, hi) /\ ~ n[lo].cinuse /\ n[lo].pinuse
  <2>1. LastPiece(lo, hi, hi) = lo
    BY DEF LastPiece
  <2>2. lo \in DOMAIN k /\ n[lo] = k[lo] /\ lo \in DOMAIN n
    BY <1>10, <1>12, <1>14
  <2>3. hi \notin DOMAIN m1
    <3>1. hi # top /\ hi # c
      <4>1. Apart(s, r)
        OBVIOUS
      <4> QED
        BY <1>1, <1>4, <1>5, <1>13, <1>14, <4>1 DEF Apart
    <3> QED
      BY <1>6, <1>14, <1>16, <3>1 DEF Retired
  <2>4. \A a \in DOMAIN m1 : a < lo \/ a >= hi
    <3> SUFFICES ASSUME NEW a, a \in DOMAIN m1 PROVE a < lo \/ a >= hi
      OBVIOUS
    <3>1. a \in DOMAIN mem \/ (a \in Int /\ top <= a /\ a < e)
      <4>1. a \in DOMAIN mem \/ a = top \/ a = c \/ a \in F
        BY <1>16 DEF Retired
      <4>2. a \in F => a \in Int /\ top <= a /\ a < e
        <5>1. WORD \in Int /\ WORD > 0
          BY Constants
        <5> QED
          BY <1>1, <1>13, <1>14, <5>1
      <4>3. top <= top /\ top < e
        BY <1>1, <1>13, <1>14
      <4>4. c \in Int /\ top <= c /\ c < e
        BY <1>13, <1>14
      <4>5. a = top => a \in Int /\ top <= a /\ a < e
        BY <1>1, <4>3
      <4>6. a = c => a \in Int /\ top <= a /\ a < e
        BY <4>4
      <4> QED
        BY <4>1, <4>2, <4>5, <4>6
    <3>2. CASE a \in DOMAIN mem
      <4>1. a \in Int
        BY <1>1, <3>2 DEF IsMem
      <4> QED
        BY <1>5, <1>6, <3>2, <4>1
    <3>3. CASE a \in Int /\ top <= a /\ a < e
      <4>1. Apart(s, r)
        OBVIOUS
      <4> QED
        BY <1>1, <1>4, <1>5, <3>3, <4>1 DEF Apart
    <3> QED
      BY <3>1, <3>2, <3>3
  <2>5. \A a : a \in DOMAIN n <=> a = lo \/ (a \in DOMAIN m1 /\ (a < lo \/ a >= hi))
    BY <1>15, <2>2, <2>4
  <2>6. n[lo].size = hi - lo
    BY <1>5, <1>10, <2>2
  <2> HIDE DEF hi
  <2>7. \A a \in DOMAIN m1 : n[a] = m1[a]
    BY <1>15
  <2> QED
    BY <1>9, <2>1, <2>2, <2>3, <2>5, <2>6, <2>7 DEF Cut
<1>25. Sound(n, R, segment_top(r), C, dv, dvsize, lo, size) /\ SameUsed(m1, n)
  <2> DEFINE u == NULL
  <2>1. u \in Int /\ u \notin DOMAIN m1 /\ Heap(m1, S2, u)
    BY <1>19, <1>20
  <2>2. hi \in Int /\ hi = lo + size
    BY <1>5
  <2>3. /\ r \in Segment /\ r.base > 0 /\ \A x : x \in R <=> x \in S2 \/ x = r
        /\ lo \in Int /\ lo = FirstChunk(r) /\ size \in Int /\ size > 0
        /\ lo + size + top_foot_size = segment_top(r)
    OBVIOUS
  <2> HIDE DEF u, hi, Adds
  <2> QED
    <3>1. Topless(m1, S2, u, C, dv, dvsize)
      BY <1>22, <1>23, <2>1 DEF Topless
    <3>2. \A x \in S2 : Apart(x, r)
      BY <1>18
    <3>3. OneMore(S2, R, r, lo, size, hi)
      BY <2>2, <2>3, <3>2 DEF OneMore
    <3>4. IsMem(n) /\ dv \in Int
      BY <1>1, <1>12
    <3> QED
      BY <1>24, <2>1, <2>2, <2>3, <3>1, <3>3, <3>4, NewTop
<1>26. /\ \A a : a \in UsedOf(n) <=> a \in UsedOf(mem) \/ a = c \/ a \in F
       /\ \A a \in UsedOf(mem) : n[a].size = mem[a].size
       /\ \A a \in F : n[a].size = WORD
  <2>1. \A a \in UsedOf(mem) : a \in DOMAIN mem /\ a # top
    BY <1>2 DEF UsedOf
  <2>2. \A a \in F : a \in UsedOf(m1)
    BY <1>20
  <2> QED
    BY <1>12, <1>20, <1>25, <2>1, <2>2 DEF SameUsed
<1>27. s.base <= c
  BY <1>1, <1>4, <1>13
<1> QED
  BY <1>12, <1>13, <1>14, <1>20, <1>25, <1>26, <1>27

-----------------------------------------------------------------------------
(* The newest segment grows at its end, and top with it                       *)

\* No fencepost is near the end of the segment of top.
LEMMA NoFenceAtTop ==
  ASSUME NEW m, NEW S, NEW t, Heap(m, S, t), t \in DOMAIN m, NEW e \in Int,
         t + 2 * WORD < e, \A a \in DOMAIN m : a <= t \/ a >= e,
         NEW a \in DOMAIN m, Fence(m, a), a < e
  PROVE  a + 2 * WORD < e
<1>1. ~ m[t].cinuse /\ t \in Int /\ a \in Int
  BY ChunkFacts DEF Heap
<1>2. a <= t
  BY <1>1
<1> QED
  BY <1>1, <1>2, WordAssumption

\* More room behind top.
LEMMA ExtendedSound ==
  ASSUME NEW m, NEW S, NEW e \in Int, NEW B, NEW v, NEW vs, NEW t, NEW ts,
         Sound(m, S, e, B, v, vs, t, ts), t # NULL,
         NEW s \in S, FirstChunk(s) <= t, segment_top(s) = e, NEW more \in Int, more >= 0,
         NEW r \in Segment, r.base = s.base, r.size = s.size + more,
         \A x \in S : x # s => Apart(x, r), NEW R, Replaced(S, R, s, r),
         \A a \in DOMAIN m : a <= t \/ a >= e + more,
         NEW size \in Int, size = ts + more, NEW n, n = TopFrom(m, t, size)
  PROVE  Sound(n, R, e + more, B, v, vs, t, size) /\ SameUsed(m, n)
<1>1. Heap(m, S, t) /\ IsMem(m) /\ Mapped(S) /\ t \in Int
  BY SoundHeap
<1>2. /\ t \in DOMAIN m /\ ts = m[t].size /\ End(m, t) + top_foot_size = e
      /\ \A a \in DOMAIN m : a <= t \/ a >= e
  BY TopFacts
<1>3. ts \in Int /\ ts > 0 /\ End(m, t) = t + ts
  BY <1>1, <1>2, ChunkFacts
<1>4. /\ s \in Segment /\ s.base \in Int /\ s.size \in Int /\ FirstChunk(s) \in Int
      /\ s.base <= FirstChunk(s) /\ segment_top(s) \in Int
  <2>1. s \in Segment
    BY <1>1 DEF Mapped
  <2> QED
    BY <2>1, FirstChunkFacts
<1>5. FirstChunk(r) = FirstChunk(s) /\ segment_top(r) = e + more /\ s.base > 0
  <2>1. FirstChunk(r) = FirstChunk(s) /\ s.base > 0
    BY <1>1 DEF FirstChunk, Mapped
  <2>2. segment_top(r) = segment_top(s) + more
    BY <1>4 DEF segment_top
  <2> QED
    BY <2>1, <2>2
<1>6. WORD \in Int /\ WORD > 0 /\ top_foot_size \in Int /\ top_foot_size > 2 * WORD
  BY Constants
<1>7. Heap(m, R, t)
  <2>1. r.base > 0 /\ FirstChunk(r) < segment_top(r)
    BY <1>1, <1>3, <1>4, <1>5, <1>6, <1>2
  <2>2. \A a \in DOMAIN m : FirstChunk(s) <= a /\ End(m, a) < segment_top(s) =>
           FirstChunk(r) <= a /\ End(m, a) < segment_top(r)
    <3> SUFFICES ASSUME NEW a \in DOMAIN m, End(m, a) < e PROVE End(m, a) < e + more
      BY <1>5
    <3>1. End(m, a) \in Int
      BY <1>1, ChunkFacts
    <3> QED
      BY <3>1
  <2>3. t + 2 * WORD < e
    BY <1>1, <1>2, <1>3, <1>6
  <2>4. \A a \in DOMAIN m : Fence(m, a) /\ s.base <= a /\ a < segment_top(s)
                             /\ a + 2 * WORD >= segment_top(s) =>
           r.base <= a /\ a < segment_top(r) /\ a + 2 * WORD >= segment_top(r)
    <3> SUFFICES ASSUME NEW a \in DOMAIN m, Fence(m, a), a < e, a + 2 * WORD >= e PROVE FALSE
      OBVIOUS
    <3>1. a + 2 * WORD < e /\ a \in Int
      BY <1>1, <1>2, <2>3, NoFenceAtTop DEF IsMem
    <3> QED
      BY <1>6, <3>1
  <2>5. HeapBut(m, R, t, FirstChunk(r)) /\ (FirstChunk(r) = FirstChunk(s) => Heap(m, R, t))
    BY <1>1, <2>1, <2>2, <2>4, Reshaped
  <2> QED
    BY <1>5, <2>5
<1> DEFINE hi == t + size
           f == e + more
<1>8. /\ hi \in Int /\ hi = t + size /\ size > 0 /\ f \in Int /\ f = hi + top_foot_size
      /\ hi < segment_top(r)
  BY <1>1, <1>2, <1>3, <1>5, <1>6
<1>9. Within(R, t, hi)
  BY <1>5, <1>8 DEF Within, Replaced
<1>10. \A a \in DOMAIN m : a <= t \/ a >= f
  OBVIOUS
<1> HIDE DEF hi, f
<1>11. Sound(n, R, f, B, v, vs, t, size) /\ SameUsed(m, n)
  BY <1>7, <1>8, <1>9, <1>10, TopResized
<1> QED
  BY <1>11 DEF f

\* The end of top cut off, and with it the end of its segment s, which is now r.
Trims(m, n, S, R, e, d, t, ts, s, r, cut, size) ==
  /\ t # NULL /\ s \in S /\ FirstChunk(s) <= t /\ segment_top(s) = e
  /\ cut >= 0 /\ d = e - cut /\ size + cut = ts /\ size > 0
  /\ r.base = s.base /\ r.size = s.size - cut /\ Replaced(S, R, s, r)
  /\ n = TopFrom(m, t, size)

\* That leaves the heap sound.
LEMMA TrimmedSound ==
  ASSUME NEW m, NEW S, NEW e \in Int, NEW B, NEW v, NEW vs, NEW t, NEW ts,
         Sound(m, S, e, B, v, vs, t, ts), NEW s, NEW cut \in Int, NEW r \in Segment, NEW R,
         NEW size \in Int, NEW n, NEW d \in Int, Trims(m, n, S, R, e, d, t, ts, s, r, cut, size)
  PROVE  Sound(n, R, d, B, v, vs, t, size) /\ SameUsed(m, n)
<1>0. /\ t # NULL /\ s \in S /\ FirstChunk(s) <= t /\ segment_top(s) = e
      /\ cut >= 0 /\ d = e - cut /\ size + cut = ts /\ size > 0
      /\ r.base = s.base /\ r.size = s.size - cut /\ Replaced(S, R, s, r)
      /\ n = TopFrom(m, t, size)
  BY DEF Trims
<1> USE <1>0
<1>1. Heap(m, S, t) /\ IsMem(m) /\ Mapped(S) /\ t \in Int
  BY SoundHeap
<1>2. /\ t \in DOMAIN m /\ ts = m[t].size /\ End(m, t) + top_foot_size = e
      /\ \A a \in DOMAIN m : a <= t \/ a >= e
  BY TopFacts
<1>3. ts \in Int /\ ts > 0 /\ End(m, t) = t + ts
  BY <1>1, <1>2, ChunkFacts
<1>4. /\ s \in Segment /\ s.base \in Int /\ s.size \in Int /\ FirstChunk(s) \in Int
      /\ s.base <= FirstChunk(s) /\ segment_top(s) \in Int
  <2>1. s \in Segment
    BY <1>1 DEF Mapped
  <2> QED
    BY <2>1, FirstChunkFacts
<1>5. FirstChunk(r) = FirstChunk(s) /\ segment_top(r) = e - cut /\ s.base > 0
  <2>1. FirstChunk(r) = FirstChunk(s) /\ s.base > 0
    BY <1>1 DEF FirstChunk, Mapped
  <2>2. segment_top(r) = segment_top(s) - cut
    BY <1>4 DEF segment_top
  <2> QED
    BY <2>1, <2>2
<1>6. WORD \in Int /\ WORD > 0 /\ top_foot_size \in Int /\ top_foot_size > 2 * WORD
  BY Constants
<1> DEFINE hi == t + size
           f == e - cut
<1>7. /\ hi \in Int /\ hi = t + size /\ f \in Int /\ f = hi + top_foot_size
      /\ hi < segment_top(s) /\ f <= e /\ t + 2 * WORD < f /\ t < f
  BY <1>1, <1>2, <1>3, <1>5, <1>6
<1>8. Within(S, t, hi)
  BY <1>7 DEF Within
<1>9. \A a \in DOMAIN m : a <= t \/ a >= f
  <2> SUFFICES ASSUME NEW a \in DOMAIN m PROVE a <= t \/ a >= f
    OBVIOUS
  <2>1. a \in Int /\ (a <= t \/ a >= e)
    BY <1>1, <1>2 DEF IsMem
  <2> HIDE DEF f
  <2> QED
    BY <1>1, <1>7, <2>1
<1> HIDE DEF hi
<1>10. Sound(n, S, f, B, v, vs, t, size) /\ SameUsed(m, n)
  <2> HIDE DEF f
  <2> QED
    BY <1>1, <1>7, <1>8, <1>9, TopResized
<1>11. Heap(n, S, t) /\ IsMem(n)
  <2> HIDE DEF f
  <2> QED
    BY <1>10, SoundHeap
<1>12. /\ t \in DOMAIN n /\ End(n, t) + top_foot_size = f
       /\ \A a \in DOMAIN n : a <= t \/ a >= f
  <2> HIDE DEF f
  <2> QED
    BY <1>7, <1>10, TopFacts
<1>13. segment_top(r) = f
  BY <1>5
<1> HIDE DEF f
<1>14. Heap(n, R, t)
  <2>1. r.base > 0 /\ FirstChunk(r) < segment_top(r)
    BY <1>1, <1>4, <1>5, <1>7, <1>13
  <2>2. \A a \in DOMAIN n : FirstChunk(s) <= a /\ End(n, a) < segment_top(s) =>
           FirstChunk(r) <= a /\ End(n, a) < segment_top(r)
    <3> SUFFICES ASSUME NEW a \in DOMAIN n, FirstChunk(s) <= a, End(n, a) < e PROVE End(n, a) < f
      BY <1>5, <1>13
    <3>1. End(n, a) \in Int /\ a \in Int /\ a < End(n, a) /\ End(n, t) \in Int
      BY <1>11, <1>12, ChunkFacts
    <3>2. a <= t \/ a >= f
      BY <1>12
    <3>3. CASE a >= f
      \* in n the places from f on were in m, and those are from e on
      <4>1. a # t /\ a \in DOMAIN m
        <5>1. a # t
          BY <1>1, <1>7, <3>1, <3>3
        <5>2. TopFrom(m, t, size) = SetHead(m, t, size, TRUE, FALSE)
          BY DEF TopFrom
        <5>3. Headed(m, n, t, size)
          BY <1>1, <5>2, SetHeadIs
        <5> QED
          BY <5>1, <5>3 DEF Headed
      <4> QED
        BY <1>1, <1>2, <1>7, <3>1, <3>3, <4>1
    <3>4. CASE a <= t
      <4>1. a < t => End(n, a) <= t
        BY <1>11, <1>12, ChunkFacts
      <4>2. CASE a = t
        BY <1>6, <1>7, <1>12, <3>1, <4>2
      <4>3. CASE a < t
        BY <1>1, <1>7, <3>1, <4>1, <4>3
      <4> QED
        BY <1>1, <3>1, <3>4, <4>2, <4>3
    <3> QED
      BY <3>2, <3>3, <3>4
  <2>3. \A a \in DOMAIN n : Fence(n, a) /\ s.base <= a /\ a < segment_top(s)
                             /\ a + 2 * WORD >= segment_top(s) =>
           r.base <= a /\ a < segment_top(r) /\ a + 2 * WORD >= segment_top(r)
    <3> SUFFICES ASSUME NEW a \in DOMAIN n, Fence(n, a), s.base <= a, a < e, a + 2 * WORD >= e
                 PROVE FALSE
      OBVIOUS
    <3>1. a # t /\ a \in Int /\ a \in DOMAIN m /\ n[a] = m[a]
      <4>1. a # t
        BY <1>11, <1>12 DEF Fence, Heap
      <4>2. Headed(m, n, t, size)
        BY ZenonT(60), <1>1, SetHeadIs DEF TopFrom
      <4> QED
        BY <1>11, <4>1, <4>2 DEF Headed, IsMem
    <3>2. Fence(m, a)
      BY <3>1 DEF Fence
    <3>3. t + 2 * WORD < e
      BY <1>1, <1>6, <1>7
    <3>4. a + 2 * WORD < e
      BY <1>1, <1>2, <3>1, <3>2, <3>3, NoFenceAtTop
    <3> QED
      BY <1>6, <3>1, <3>4
  <2>4. \A x \in S : x # s => Apart(x, r)
    <3> SUFFICES ASSUME NEW x \in S, x # s PROVE Apart(x, r)
      OBVIOUS
    <3>1. segment_top(x) <= s.base \/ e <= x.base
      BY <1>1 DEF Mapped
    <3>2. x \in Segment
      BY <1>1 DEF Mapped
    <3>3. x.base \in Int
      BY <3>2, FirstChunkFacts
    <3> QED
      BY <1>4, <1>7, <1>13, <3>1, <3>3 DEF Apart
  <2>5. HeapBut(n, R, t, FirstChunk(r)) /\ (FirstChunk(r) = FirstChunk(s) => Heap(n, R, t))
    BY <1>11, <2>1, <2>2, <2>3, <2>4, Reshaped
  <2> QED
    BY <1>5, <2>5
<1>15. Sound(n, R, f, B, v, vs, t, size)
  BY <1>10, <1>14 DEF Sound
<1> QED
  BY <1>10, <1>15 DEF f

-----------------------------------------------------------------------------
(* A segment grows at its front                                               *)

\* A region was joined to the front of the segment whose first chunk is old: from
\* p on, where the segment now begins, there is room for two chunks before it.
FrontPlaces(m, R, t, p, q, old) ==
  /\ IsMem(m) /\ HeapBut(m, R, t, p)
  /\ p \in Int /\ p > 0 /\ q \in Int /\ old \in Int
  /\ p < q /\ q < old /\ Aligned(p) /\ Aligned(q)
  /\ Aligned(q - p) /\ q - p >= min_chunk_size
  /\ Aligned(old) /\ Aligned(old - q) /\ old - q >= min_chunk_size
  /\ old \in DOMAIN m /\ m[old].pinuse
  /\ \A a \in DOMAIN m : (a < p /\ End(m, a) < p) \/ a >= old
  /\ \A h \in Int : p < h /\ h <= End(m, old) => Within(R, p, h)

\* What a region joined to the front of a segment makes room for.
LEMMA FrontPlaced ==
  ASSUME NEW m, NEW S, NEW t, Heap(m, S, t), NEW s \in S, NEW g \in Segment, g.base > 0,
         \A x \in S : Apart(x, g), segment_top(g) = s.base,
         NEW r \in Segment, r.base = g.base, r.size = g.size + s.size,
         NEW R, Replaced(S, R, s, r),
         NEW p \in Int, p = FirstChunk(r), NEW old \in Int, old = FirstChunk(s),
         NEW want \in Int, Aligned(want), want >= min_chunk_size,
         NEW q \in Int, q = p + want, old - q >= min_chunk_size
  PROVE  FrontPlaces(m, R, t, p, q, old)
<1>1. IsMem(m) /\ Mapped(S) /\ Rooted(m, S) /\ s \in Segment
  BY DEF Heap, Mapped
<1>2. /\ s.base \in Int /\ s.size \in Int /\ s.base <= old /\ segment_top(s) \in Int
      /\ old < s.base + malloc_alignment /\ Aligned(old)
      /\ g.base \in Int /\ g.size \in Int
      /\ g.base <= p /\ Aligned(p) /\ segment_top(r) \in Int /\ old < segment_top(s)
  BY <1>1, FirstChunkFacts DEF Mapped
<1>3. g.base + g.size = s.base /\ segment_top(r) = segment_top(s)
  BY <1>2 DEF segment_top
<1>4. old \in DOMAIN m /\ m[old].pinuse
  BY <1>1 DEF Rooted
<1>5. /\ p > 0 /\ p < q /\ q < old /\ p < s.base /\ q - p = want /\ old - q \in Int
  BY <1>2, Constants
<1>6. Aligned(q) /\ Aligned(old - q)
  <2>1. Aligned(p + want)
    BY <1>2, AlignedSum
  <2>2. Aligned(q)
    BY <2>1
  <2> HIDE DEF Aligned
  <2>3. Aligned(old - q)
    BY <1>2, <2>2, AlignedSum
  <2> QED
    BY <2>2, <2>3
<1>7. \A a \in DOMAIN m : (a < p /\ End(m, a) < p) \/ a >= old
  <2> SUFFICES ASSUME NEW a, a \in DOMAIN m PROVE (a < p /\ End(m, a) < p) \/ a >= old
    OBVIOUS
  <2>1. /\ a \in Int /\ End(m, a) \in Int /\ a < End(m, a)
        /\ End(m, a) < g.base \/ a >= segment_top(g)
    BY OutsideRegion
  <2>2. CASE End(m, a) < g.base
    BY <1>2, <2>1, <2>2
  <2>3. CASE a >= s.base
    \* nothing lies before the first chunk of a segment
    <3>1. Within(S, a, End(m, a))
      BY ChunkFacts
    <3>2. PICK x \in S : FirstChunk(x) <= a /\ End(m, a) < segment_top(x)
      BY <3>1 DEF Within
    <3>3. x \in Segment /\ (x # s => segment_top(x) <= s.base \/ segment_top(s) <= x.base)
      BY <1>1 DEF Mapped
    <3>4. FirstChunk(x) \in Int /\ segment_top(x) \in Int /\ x.base <= FirstChunk(x) /\ x.base \in Int
      BY <3>3, FirstChunkFacts
    <3>5. CASE x = s
      BY <3>2, <3>5
    <3>6. CASE x # s
      BY <1>2, <2>1, <2>3, <3>2, <3>3, <3>4, <3>6
    <3> QED
      BY <3>5, <3>6
  <2> QED
    BY <2>1, <2>2, <2>3
<1>8. \A h \in Int : p < h /\ h <= End(m, old) => Within(R, p, h)
  <2> SUFFICES ASSUME NEW h \in Int, h <= End(m, old) PROVE Within(R, p, h)
    OBVIOUS
  <2>1. End(m, old) \in Int /\ Within(S, old, End(m, old))
    BY <1>4, ChunkFacts
  <2>2. PICK x \in S : FirstChunk(x) <= old /\ End(m, old) < segment_top(x)
    BY <2>1 DEF Within
  <2>3. x = s
    <3> SUFFICES ASSUME x # s PROVE FALSE
      OBVIOUS
    <3>1. x \in Segment /\ (segment_top(x) <= s.base \/ segment_top(s) <= x.base)
      BY <1>1 DEF Mapped
    <3>2. /\ FirstChunk(x) \in Int /\ segment_top(x) \in Int /\ x.base <= FirstChunk(x)
          /\ x.base \in Int /\ old < End(m, old)
      BY <1>4, <3>1, FirstChunkFacts, ChunkFacts
    <3> QED
      BY <1>2, <2>1, <2>2, <3>1, <3>2
  <2>4. h < segment_top(r) /\ r \in R
    BY <1>2, <1>3, <2>1, <2>2, <2>3 DEF Replaced
  <2> QED
    BY <1>2, <2>4 DEF Within
<1>9. HeapBut(m, R, t, p)
  <2>1. r.base > 0 /\ FirstChunk(r) < segment_top(r)
    BY <1>2, <1>3, <1>5
  <2>2. \A x \in S : x # s => Apart(x, r)
    <3> SUFFICES ASSUME NEW x \in S, x # s PROVE Apart(x, r)
      OBVIOUS
    <3>1. x \in Segment /\ (segment_top(x) <= s.base \/ segment_top(s) <= x.base) /\ Apart(x, g)
      BY <1>1 DEF Mapped
    <3>2. segment_top(x) \in Int /\ x.base \in Int /\ x.base < segment_top(x)
      <4>1. segment_top(x) \in Int /\ x.base \in Int /\ x.base <= FirstChunk(x)
            /\ FirstChunk(x) \in Int
        BY <3>1, FirstChunkFacts
      <4> QED
        BY <1>1, <4>1 DEF Mapped
    <3>3. s.base < segment_top(s)
      BY <1>2
    <3> QED
      BY <1>2, <1>3, <3>1, <3>2, <3>3 DEF Apart
  <2>3. \A a \in DOMAIN m : FirstChunk(s) <= a /\ End(m, a) < segment_top(s) =>
           FirstChunk(r) <= a /\ End(m, a) < segment_top(r)
    <3> SUFFICES ASSUME NEW a \in DOMAIN m, old <= a PROVE p <= a
      BY <1>3
    <3>1. a \in Int
      BY <1>1 DEF IsMem
    <3> QED
      BY <1>5, <3>1
  <2>4. \A a \in DOMAIN m : Fence(m, a) /\ s.base <= a /\ a < segment_top(s)
                             /\ a + 2 * WORD >= segment_top(s) =>
           r.base <= a /\ a < segment_top(r) /\ a + 2 * WORD >= segment_top(r)
    <3> SUFFICES ASSUME NEW a \in DOMAIN m, s.base <= a PROVE g.base <= a
      BY <1>3
    <3>1. a \in Int
      BY <1>1 DEF IsMem
    <3> QED
      BY <1>2, <1>5, <3>1
  <2>5. HeapBut(m, R, t, FirstChunk(r))
    BY <2>1, <2>2, <2>3, <2>4, Reshaped
  <2> QED
    BY <2>5
<1> QED
  BY <1>1, <1>2, <1>4, <1>5, <1>6, <1>7, <1>8, <1>9 DEF FrontPlaces

\* Top is behind the front of a segment, or its segment is altogether before it.
LEMMA FrontApart ==
  ASSUME NEW S, Mapped(S), NEW s \in S, NEW g \in Segment,
         \A x \in S : Apart(x, g), segment_top(g) = s.base, g.base < s.base,
         NEW r \in Segment, r.base = g.base,
         NEW p \in Int, p = FirstChunk(r), NEW old \in Int, old = FirstChunk(s),
         NEW x \in S, NEW t \in Int, FirstChunk(x) <= t, NEW e \in Int, e = segment_top(x)
  PROVE  t >= old \/ p >= e
<1>1. x \in Segment /\ s \in Segment
  BY DEF Mapped
<1>2. /\ FirstChunk(x) \in Int /\ x.base \in Int /\ x.base <= FirstChunk(x)
      /\ s.base \in Int /\ s.base <= old /\ segment_top(s) \in Int
      /\ g.base \in Int /\ g.base <= p
  BY <1>1, FirstChunkFacts
<1>3. CASE x = s
  BY <1>3
<1>4. CASE x # s
  <2>1. e <= g.base \/ s.base <= x.base
    <3>1. Apart(x, g)
      OBVIOUS
    <3> QED
      BY <3>1 DEF Apart
  <2>2. e <= s.base \/ segment_top(s) <= x.base
    BY <1>4 DEF Mapped
  <2>3. CASE e <= g.base
    BY <1>2, <2>3
  <2>4. CASE s.base <= x.base
    <3>1. old < segment_top(s) /\ FirstChunk(x) < e
      BY DEF Mapped
    <3> QED
      BY <1>2, <2>2, <2>4, <3>1
  <2> QED
    BY <2>1, <2>3, <2>4
<1> QED
  BY <1>3, <1>4

\* The rest of the room becomes a free chunk, alone or with what follows.
LEMMA FrontCut ==
  ASSUME NEW m, NEW S, NEW t, Heap(m, S, t), t \in DOMAIN m, NEW R,
         NEW p \in Int, NEW q \in Int, NEW old \in Int, FrontPlaces(m, R, t, p, q, old), t # old,
         NEW hi \in Int, \/ hi = old /\ m[old].cinuse
                         \/ hi = End(m, old) /\ ~ m[old].cinuse,
         NEW k, Wrote(m, k, p, q), k[p].pinuse, k[p].cinuse,
         NEW n, Wrote(k, n, q, hi), n[q].pinuse, ~ n[q].cinuse,
         hi \in DOMAIN n /\ ~ n[hi].pinuse /\ n[hi].prev_foot = hi - q
  PROVE  /\ Heap(n, R, t)
         /\ \A a : a \in FreeOf(n) <=> (a \in FreeOf(m) /\ a # old) \/ a = q
         /\ \A a : a \in UsedOf(n) <=> a \in UsedOf(m) \/ a = p
         /\ \A a \in DOMAIN m : a # old \/ m[old].cinuse => a \in DOMAIN n /\ n[a].size = m[a].size
         /\ n[p].size = q - p /\ n[q].size = hi - q
         /\ p \notin DOMAIN m /\ q \notin DOMAIN m
<1>1. /\ IsMem(m) /\ HeapBut(m, R, t, p)
      /\ p > 0 /\ p < q /\ q < old /\ Aligned(p) /\ Aligned(q)
      /\ Aligned(q - p) /\ q - p >= min_chunk_size
      /\ Aligned(old) /\ Aligned(old - q) /\ old - q >= min_chunk_size
      /\ old \in DOMAIN m /\ m[old].pinuse
      /\ \A a \in DOMAIN m : (a < p /\ End(m, a) < p) \/ a >= old
      /\ \A h \in Int : p < h /\ h <= End(m, old) => Within(R, p, h)
  BY DEF FrontPlaces
<1>2. /\ hi \in DOMAIN m /\ m[hi].cinuse /\ hi >= old /\ Aligned(hi) /\ hi <= End(m, old)
      /\ t # hi /\ \A a \in DOMAIN m : a >= old /\ a < hi <=> a = old /\ ~ m[old].cinuse
  <2>1. old < End(m, old) /\ End(m, old) \in Int
        /\ \A a \in DOMAIN m : a <= old \/ a >= End(m, old)
    BY <1>1, ChunkFacts
  <2>2. CASE hi = old /\ m[old].cinuse
    <3>1. \A a \in DOMAIN m : ~ (a >= old /\ a < hi)
      BY <1>1, <2>2 DEF IsMem
    <3> QED
      BY <1>1, <2>1, <2>2, <3>1
  <2>3. CASE hi = End(m, old) /\ ~ m[old].cinuse
    <3>1. /\ End(m, old) \in DOMAIN m /\ m[End(m, old)].cinuse /\ End(m, old) # t
          /\ Aligned(End(m, old))
      BY <1>1, <2>3, FreeFacts
    <3>2. \A a \in DOMAIN m : a >= old /\ a < hi <=> a = old
      BY <1>1, <2>1, <2>3 DEF IsMem
    <3> QED
      BY <1>1, <2>1, <2>3, <3>1, <3>2
  <2> QED
    BY <2>2, <2>3
<1>3. q < hi /\ p < hi /\ hi - q >= min_chunk_size /\ Aligned(hi - q)
  <2>1. Aligned(hi - q)
    BY <1>1, <1>2, AlignedSum
  <2> QED
    BY <1>1, <1>2, <2>1, Constants
<1>4. /\ IsMem(n) /\ Cut(m, n, p, q, hi) /\ n[p] = k[p]
  <2>1. n[hi].pinuse = n[q].cinuse /\ (~ n[q].cinuse => n[hi].prev_foot = n[q].size)
    <3>1. n[q].size = hi - q
      BY DEF Wrote
    <3>2. IsMem(n)
      BY DEF Wrote
    <3>3. n[hi].pinuse \in BOOLEAN /\ n[q].cinuse \in BOOLEAN
      <4>1. q \in DOMAIN n
        BY DEF Wrote
      <4> QED
        BY <3>2, <4>1, MemFacts
    <3> QED
      BY <3>1, <3>3
  <2>2. Cut(m, n, p, q, hi) /\ n[p] = k[p]
    BY <1>1, <1>2, <1>3, <2>1, CutFront
  <2> QED
    BY <2>2 DEF Wrote
<1>5. LastPiece(p, q, hi) = q
  BY <1>3 DEF LastPiece
<1>6. p \notin DOMAIN m /\ q \notin DOMAIN m
  BY <1>1
<1>7. /\ \A a : a \in FreeOf(n) <=>
           \/ a \in FreeOf(m) /\ (a < p \/ a >= hi)
           \/ a \in {p, LastPiece(p, q, hi)} /\ ~ n[a].cinuse
      /\ \A a : a \in UsedOf(n) <=>
           \/ a \in UsedOf(m) /\ (a < p \/ a >= hi)
           \/ a \in {p, LastPiece(p, q, hi)} /\ n[a].cinuse
      /\ \A a \in DOMAIN m : a < p \/ a >= hi =>
           a \in DOMAIN n /\ n[a].size = m[a].size /\ n[a].cinuse = m[a].cinuse
  BY <1>1, <1>2, <1>3, <1>4, CutSets
<1>8. \A a \in DOMAIN m : (a < p \/ a >= hi) <=> (a # old \/ m[old].cinuse)
  <2> SUFFICES ASSUME NEW a \in DOMAIN m
               PROVE  (a < p \/ a >= hi) <=> (a # old \/ m[old].cinuse)
    OBVIOUS
  <2>1. a \in Int /\ ((a < p /\ End(m, a) < p) \/ a >= old)
    BY <1>1 DEF IsMem
  <2>2. (a >= old /\ a < hi) <=> (a = old /\ ~ m[old].cinuse)
    BY <1>2
  <2> QED
    BY <1>1, <2>1, <2>2
<1>9. Heap(n, R, t)
  <2>1. Within(R, p, hi)
    BY <1>1, <1>2, <1>3
  <2>2. n[p].pinuse /\ \A a \in DOMAIN m : a < p => End(m, a) < p
    <3>1. ASSUME NEW a \in DOMAIN m, a < p PROVE End(m, a) < p
      BY <1>1, <3>1 DEF IsMem
    <3> QED
      BY <1>4, <3>1
  <2>3. \A a \in DOMAIN m : a < hi => End(m, a) <= hi
    BY <1>2, ChunkFacts
  <2>4. t \in DOMAIN n => ~ n[t].cinuse
    <3>1. t < p \/ t >= hi
      BY <1>8
    <3>2. ~ m[t].cinuse
      BY DEF Heap
    <3> QED
      BY <1>7, <3>1, <3>2
  <2>5. ~ n[p].cinuse => n[p].pinuse
    BY <1>4
  <2>6. t \in Int
    BY <1>1 DEF IsMem
  <2>7. q # hi /\ q <= hi
    BY <1>3
  <2> QED
    BY <1>1, <1>2, <1>3, <1>4, <2>1, <2>2, <2>3, <2>4, <2>5, <2>6, <2>7, CutHeap
<1>10. n[p].size = q - p /\ n[q].size = hi - q
  BY <1>3, <1>4 DEF Cut
<1>11. n[p].cinuse /\ p # q
  BY <1>1, <1>4
<1>12. \A a : a \in FreeOf(n) <=> (a \in FreeOf(m) /\ a # old) \/ a = q
  BY <1>5, <1>7, <1>8, <1>11 DEF FreeOf
<1>13. \A a : a \in UsedOf(n) <=> a \in UsedOf(m) \/ a = p
  BY <1>5, <1>7, <1>8, <1>11 DEF UsedOf
<1> QED
  BY <1>6, <1>7, <1>8, <1>9, <1>10, <1>12, <1>13

\* The rest of the room joins top.
LEMMA FrontTop ==
  ASSUME NEW m, NEW S, NEW e \in Int, NEW B, NEW v, NEW vs, NEW t, NEW ts,
         Sound(m, S, e, B, v, vs, t, ts), t # NULL, NEW R,
         NEW p \in Int, NEW q \in Int, FrontPlaces(m, R, t, p, q, t),
         NEW k, Wrote(m, k, p, q), k[p].pinuse, k[p].cinuse,
         NEW size \in Int, q + size = t + ts, NEW n, n = TopFrom(k, q, size)
  PROVE  /\ Sound(n, R, e, B, v, vs, q, size)
         /\ \A a : a \in UsedOf(n) <=> a \in UsedOf(m) \/ a = p
         /\ \A a \in UsedOf(m) : n[a].size = m[a].size
         /\ n[p].size = q - p /\ p \notin DOMAIN m
<1>1. /\ IsMem(m) /\ HeapBut(m, R, t, p)
      /\ p > 0 /\ p < q /\ q < t /\ Aligned(p) /\ Aligned(q)
      /\ q - p >= min_chunk_size
      /\ \A a \in DOMAIN m : (a < p /\ End(m, a) < p) \/ a >= t
      /\ \A h \in Int : p < h /\ h <= End(m, t) => Within(R, p, h)
  BY DEF FrontPlaces
<1>2. Heap(m, S, t) /\ t \in Int /\ v \in Int
  BY SoundHeap
<1>3. /\ t \in DOMAIN m /\ ~ m[t].cinuse /\ ts = m[t].size /\ End(m, t) \notin DOMAIN m
      /\ End(m, t) + top_foot_size = e /\ \A a \in DOMAIN m : a <= t \/ a >= e
  BY TopFacts
<1>4. ts \in Int /\ ts > 0 /\ End(m, t) = t + ts /\ top_foot_size \in Int /\ top_foot_size > 0
  BY <1>2, <1>3, ChunkFacts, Constants
<1> DEFINE hi == t + ts
<1>5. /\ hi \in Int /\ hi = q + size /\ hi = End(m, t) /\ size > 0 /\ q < hi /\ p < hi /\ t < hi
      /\ hi < e /\ hi \notin DOMAIN m
  BY <1>1, <1>2, <1>3, <1>4
<1> HIDE DEF hi
<1>6. IsMem(n) /\ Cut(m, n, p, q, hi) /\ n[p] = k[p] /\ ~ n[q].cinuse
  BY <1>1, <1>5, WriteTopBehind
<1>7. LastPiece(p, q, hi) = q
  BY <1>5 DEF LastPiece
<1>8. EndCut(m, n, R, t, p, q, hi)
  <2>1. Within(R, p, hi)
    BY <1>1, <1>5
  <2>2. n[p].pinuse /\ \A a \in DOMAIN m : a < p => End(m, a) < p
    <3>1. ASSUME NEW a \in DOMAIN m, a < p PROVE End(m, a) < p
      BY <1>1, <1>2, <3>1 DEF IsMem
    <3> QED
      BY <1>6, <3>1
  <2>3. \A a \in DOMAIN m : a < hi => End(m, a) <= hi
    BY <1>2, <1>3, <1>5, ChunkFacts
  <2>4. q # hi
    BY <1>5
  <2> QED
    BY <1>1, <1>2, <1>5, <1>6, <1>7, <2>1, <2>2, <2>3, <2>4 DEF EndCut
<1>9. FootAt(m, hi, e)
  <2> SUFFICES ASSUME NEW a \in DOMAIN m PROVE a < hi \/ a >= e
    BY <1>3, <1>5 DEF FootAt
  <2>1. a \in Int /\ (a <= t \/ a >= e)
    BY <1>1, <1>3 DEF IsMem
  <2> QED
    BY <1>2, <1>5, <2>1
<1>10. \A a \in DOMAIN m : (a < p \/ a >= hi) <=> a # t
  <2> SUFFICES ASSUME NEW a \in DOMAIN m PROVE (a < p \/ a >= hi) <=> a # t
    OBVIOUS
  <2>1. a \in Int /\ (a < p \/ a >= t) /\ (a <= t \/ a >= e)
    BY <1>1, <1>3 DEF IsMem
  <2> QED
    BY <1>1, <1>2, <1>5, <2>1
<1>11. Kept(m, B, v, p, hi)
  <2>1. /\ B \subseteq Int /\ v \in Int /\ v \notin B
        /\ \A a \in Int : a \in B \/ (a = v /\ v # NULL) <=> a \in FreeOf(m) /\ a # t
    BY FreeBut
  <2>2. \A a \in FreeOf(m) : (a < p \/ a >= hi) <=> a # t
    BY <1>10 DEF FreeOf
  <2> QED
    BY <2>1, <2>2 DEF Kept
<1>12. vs = HeaderAt(m, v).size
  BY DEF Sound
<1>13. size = hi - q /\ q # hi
  BY <1>5
<1>14. /\ Sound(n, R, e, B, v, vs, q, size)
       /\ \A a : a \in UsedOf(n) <=>
            (a \in UsedOf(m) /\ (a < p \/ a >= hi)) \/ (a = p /\ q # hi)
       /\ \A a \in DOMAIN m : a < p \/ a >= hi => a \in DOMAIN n /\ n[a].size = m[a].size
       /\ q # hi => n[p].size = q - p
  BY <1>1, <1>2, <1>5, <1>7, <1>8, <1>9, <1>11, <1>12, <1>13, TopMade
<1>15. \A a \in UsedOf(m) : a \in DOMAIN m /\ (a < p \/ a >= hi)
  BY <1>3, <1>10 DEF UsedOf
<1>16. p \notin DOMAIN m
  BY <1>1, <1>2
<1> QED
  BY <1>13, <1>14, <1>15, <1>16

\* The rest of the room, up to hi, becomes a free chunk before old, or takes old in.
FrontFreed(m, n, p, q, old, hi) ==
  /\ \/ hi = old /\ m[old].cinuse
     \/ hi = End(m, old) /\ ~ m[old].cinuse
  /\ \E k : /\ Wrote(m, k, p, q) /\ k[p].pinuse /\ k[p].cinuse
            /\ Wrote(k, n, q, hi) /\ n[q].pinuse /\ ~ n[q].cinuse
            /\ hi \in DOMAIN n /\ ~ n[hi].pinuse /\ n[hi].prev_foot = hi - q
Rebinned(C, B, old, q) == \A a : a \in C <=> (a \in B /\ a # old) \/ a = q

\* The rest of the new memory joined the chunk that was first, or is free by itself.
LEMMA FrontRest ==
  ASSUME NEW m, NEW S, NEW e \in Int, NEW B, NEW v, NEW vs, NEW t, NEW ts,
         Sound(m, S, e, B, v, vs, t, ts), t # NULL, NEW R,
         NEW p \in Int, NEW q \in Int, NEW old \in Int, FrontPlaces(m, R, t, p, q, old), t # old,
         t >= old \/ p >= e,
         NEW hi \in Int, NEW n, FrontFreed(m, n, p, q, old, hi), NEW C, Rebinned(C, B, old, q)
  PROVE  /\ v # old => Sound(n, R, e, C, v, vs, t, ts)
         /\ v = old => Sound(n, R, e, B, q, n[q].size, t, ts)
         /\ n[q].size = hi - q
         /\ \A a : a \in UsedOf(n) <=> a \in UsedOf(m) \/ a = p
         /\ \A a \in UsedOf(m) : n[a].size = m[a].size
         /\ n[p].size = q - p /\ p \notin DOMAIN m
<1>1. Heap(m, S, t) /\ IsMem(m) /\ t \in Int /\ v \in Int /\ NULL \notin DOMAIN m
  BY SoundHeap
<1>2. /\ t \in DOMAIN m /\ ~ m[t].cinuse /\ ts = m[t].size
      /\ End(m, t) + top_foot_size = e /\ \A a \in DOMAIN m : a <= t \/ a >= e
  BY TopFacts
<1>3. /\ FreeOf(m) = B \cup ({v, t} \ {NULL}) /\ v \notin B /\ t \notin B
      /\ (v = t => v = NULL) /\ vs = HeaderAt(m, v).size
  BY DEF Sound, Binned
<1>4. /\ p > 0 /\ p < q /\ q < old /\ old \in DOMAIN m
      /\ \A a \in DOMAIN m : (a < p /\ End(m, a) < p) \/ a >= old
  BY DEF FrontPlaces
<1>5. /\ Heap(n, R, t)
      /\ \A a : a \in FreeOf(n) <=> (a \in FreeOf(m) /\ a # old) \/ a = q
      /\ \A a : a \in UsedOf(n) <=> a \in UsedOf(m) \/ a = p
      /\ \A a \in DOMAIN m : a # old \/ m[old].cinuse => a \in DOMAIN n /\ n[a].size = m[a].size
      /\ n[p].size = q - p /\ n[q].size = hi - q
      /\ p \notin DOMAIN m /\ q \notin DOMAIN m
  <2>1. PICK k : /\ Wrote(m, k, p, q) /\ k[p].pinuse /\ k[p].cinuse
                  /\ Wrote(k, n, q, hi) /\ n[q].pinuse /\ ~ n[q].cinuse
                  /\ hi \in DOMAIN n /\ ~ n[hi].pinuse /\ n[hi].prev_foot = hi - q
    BY DEF FrontFreed
  <2>2. \/ hi = old /\ m[old].cinuse
        \/ hi = End(m, old) /\ ~ m[old].cinuse
    BY DEF FrontFreed
  <2> QED
    BY <1>1, <1>2, <2>1, <2>2, FrontCut
<1>6. t \in DOMAIN n /\ n[t].size = m[t].size /\ q # t /\ q # NULL
  BY <1>1, <1>2, <1>4, <1>5 DEF NULL
<1>7. ts = HeaderAt(n, t).size /\ End(n, t) + top_foot_size = e
  <2>1. ts = HeaderAt(n, t).size
    BY <1>2, <1>6, HeaderIs
  <2> QED
    BY <1>2, <1>6, <2>1 DEF End
<1>8. \A a \in DOMAIN n : a <= t \/ a >= e
  <2> SUFFICES ASSUME NEW a \in DOMAIN n PROVE a <= t \/ a >= e
    OBVIOUS
  <2>1. a \in DOMAIN m \/ a = p \/ a = q
    <3>1. a \in FreeOf(n) \/ a \in UsedOf(n)
      BY DEF FreeOf, UsedOf
    <3> QED
      BY <1>5, <3>1 DEF FreeOf, UsedOf
  <2>2. (p <= t /\ q <= t) \/ (p >= e /\ q >= e)
    BY <1>1, <1>4
  <2> QED
    BY <1>2, <2>1, <2>2
<1>9. v # old => Sound(n, R, e, C, v, vs, t, ts)
  <2> SUFFICES ASSUME v # old PROVE Sound(n, R, e, C, v, vs, t, ts)
    OBVIOUS
  <2>1. vs = HeaderAt(n, v).size
    <3>1. CASE v = NULL
      <4>1. NULL \notin DOMAIN n
        BY <1>5, NullFree
      <4> QED
        BY <1>1, <1>3, <3>1, <4>1, NoHeader
    <3>2. CASE v # NULL
      <4>1. v \in FreeOf(m)
        BY <1>3, <3>2
      <4>2. v \in DOMAIN m
        BY <4>1 DEF FreeOf
      <4>3. v \in DOMAIN n /\ n[v].size = m[v].size
        BY <1>5, <4>2
      <4> QED
        BY <1>3, <4>2, <4>3, HeaderIs
    <3> QED
      BY <3>1, <3>2
  <2>2. v \notin C /\ t \notin C
    <3>1. v # q
      <4>1. v = NULL \/ v \in DOMAIN m
        BY <1>3 DEF FreeOf
      <4> QED
        BY <1>5, <1>6, <4>1
    <3> QED
      BY <1>3, <1>6, <3>1 DEF Rebinned
  <2>3. FreeOf(n) = C \cup ({v, t} \ {NULL})
    <3>1. \A a : a \in FreeOf(n) <=> a \in C \/ (a \in {v, t} /\ a # NULL)
      BY <1>3, <1>5 DEF Rebinned
    <3> QED
      BY <3>1
  <2> QED
    BY <1>3, <1>5, <1>7, <1>8, <2>1, <2>2, <2>3 DEF Sound, Binned
<1>10. v = old => Sound(n, R, e, B, q, n[q].size, t, ts)
  <2> SUFFICES ASSUME v = old PROVE Sound(n, R, e, B, q, n[q].size, t, ts)
    OBVIOUS
  <2>1. q \in DOMAIN n
    BY <1>5 DEF FreeOf
  <2>2. n[q].size = HeaderAt(n, q).size
    BY <1>5, <2>1, HeaderIs
  <2>3. q \notin B
    BY <1>3, <1>5 DEF FreeOf
  <2>4. FreeOf(n) = B \cup ({q, t} \ {NULL})
    <3>1. \A a : a \in FreeOf(n) <=> a \in B \/ (a \in {q, t} /\ a # NULL)
      BY <1>3, <1>5, <1>6
    <3> QED
      BY <3>1
  <2> HIDE DEF Heap
  <2> QED
    BY <1>3, <1>5, <1>6, <1>7, <1>8, <2>2, <2>3, <2>4 DEF Sound, Binned
<1>11. \A a \in UsedOf(m) : n[a].size = m[a].size
  BY <1>5 DEF UsedOf
<1> QED
  BY <1>5, <1>9, <1>10, <1>11

\* The room before old: a chunk of the size wanted, and the rest.
Room(p, q, old, want, qsize) == q = p + want /\ q + qsize = old
FrontWritten(k, p, want) == k = set_size_and_pinuse_of_inuse_chunk(mem, p, want)

\* What becomes of the second: it is joined with top, with the designated victim or
\* with another free chunk that follows, or it is put in a bin.
PutFront(k, q, old, qsize) ==
  \/ /\ old = top
     /\ mem' = SetHead(k, q, topsize + qsize, TRUE, FALSE)
     /\ top' = q /\ topsize' = topsize + qsize
     /\ UNCHANGED <<bins, dv, dvsize>>
  \/ /\ old # top /\ old = dv
     /\ mem' = set_size_and_pinuse_of_free_chunk(k, q, dvsize + qsize)
     /\ dv' = q /\ dvsize' = dvsize + qsize
     /\ UNCHANGED <<bins, top, topsize>>
  \/ /\ old \notin {top, dv} /\ ~ inuse(mem, old)
     /\ mem' = set_free_with_pinuse(k, q, qsize + SizeOf(old), old + SizeOf(old))
     /\ bins' = (bins \ {old}) \cup {q}
     /\ UNCHANGED <<dv, dvsize, top, topsize>>
  \/ /\ old \notin {top, dv} /\ inuse(mem, old)
     /\ mem' = set_free_with_pinuse(k, q, qsize, old)
     /\ bins' = bins \cup {q}
     /\ UNCHANGED <<dv, dvsize, top, topsize>>

\* prepend_alloc keeps a sound heap sound, and hands out the front of the region.
LEMMA PrependedSound ==
  ASSUME NEW S, NEW e \in Int, Sound(mem, S, e, bins, dv, dvsize, top, topsize), top # NULL,
         NEW R, NEW p \in Int, NEW q \in Int, NEW old \in Int,
         FrontPlaces(mem, R, top, p, q, old), top >= old \/ p >= e,
         NEW want \in Int, NEW qsize \in Int, Room(p, q, old, want, qsize),
         NEW k, FrontWritten(k, p, want),
         PutFront(k, q, old, qsize)
  PROVE  Sound(mem', R, e, bins', dv', dvsize', top', topsize') /\ Gained(mem, mem', p, want)
<1>1. /\ p > 0 /\ p < q /\ q < old /\ Aligned(p)
      /\ old \in DOMAIN mem /\ mem[old].pinuse
      /\ \A a \in DOMAIN mem : (a < p /\ End(mem, a) < p) \/ a >= old
  BY DEF FrontPlaces
<1>2. /\ Heap(mem, S, top) /\ IsMem(mem) /\ top \in Int /\ dv \in Int /\ NULL \notin DOMAIN mem
  BY SoundHeap
<1>3. /\ top \in DOMAIN mem /\ ~ mem[top].cinuse /\ topsize = mem[top].size
      /\ End(mem, top) + top_foot_size = e /\ \A a \in DOMAIN mem : a <= top \/ a >= e
  BY TopFacts
<1>4. /\ FreeOf(mem) = bins \cup ({dv, top} \ {NULL}) /\ dv \notin bins /\ top \notin bins
      /\ (dv = top => dv = NULL) /\ dvsize = HeaderAt(mem, dv).size
  BY DEF Sound, Binned
<1>5. want > 0 /\ q - p = want /\ min_chunk_size > 0 /\ qsize > 0
  BY <1>1, Constants DEF Room
<1>6. Wrote(mem, k, p, q) /\ k[p].pinuse /\ k[p].cinuse /\ IsMem(k)
  <2>1. Wrote(mem, k, p, p + want) /\ k[p].pinuse /\ k[p].cinuse
    BY <1>2, <1>5, WriteUsed DEF FrontWritten
  <2> QED
    BY <2>1 DEF Wrote, Room
<1>7. /\ mem[old].size \in Int /\ mem[old].size > 0 /\ SizeOf(old) = mem[old].size
      /\ inuse(mem, old) = mem[old].cinuse /\ End(mem, old) = old + mem[old].size
  <2>1. mem[old].size \in Int /\ mem[old].size > 0 /\ End(mem, old) = old + mem[old].size
        /\ mem[old].cinuse \in BOOLEAN
    BY <1>1, <1>2, ChunkFacts
  <2> QED
    BY <1>1, <2>1, HeaderIs DEF SizeOf, inuse
<1>8. \A x \in DOMAIN mem : x > old => k[x] = mem[x] /\ x \in DOMAIN k
  <2> SUFFICES ASSUME NEW x \in DOMAIN mem, x > old PROVE k[x] = mem[x] /\ x \in DOMAIN k
    OBVIOUS
  <2>1. x \in Int /\ x > q /\ x > p
    BY <1>1, <1>2 DEF IsMem
  <2> QED
    BY <1>6, <2>1 DEF Wrote
<1>9. old \in DOMAIN k /\ k[old] = mem[old]
  BY <1>1, <1>6 DEF Wrote
<1>12. ASSUME \A a : a \in UsedOf(mem') <=> a \in UsedOf(mem) \/ a = p,
              \A a \in UsedOf(mem) : mem'[a].size = mem[a].size,
              mem'[p].size = q - p, p \notin DOMAIN mem
       PROVE  Gained(mem, mem', p, want)
  <2>1. p \notin UsedOf(mem)
    BY <1>12 DEF UsedOf
  <2>2. want \in Int /\ mem'[p].size = want /\ want < want + min_chunk_size
    BY <1>5, <1>12, Constants
  <2> QED
    BY <1>1, <1>12, <2>1, <2>2 DEF Gained
<1>10. CASE old = top
  <2> DEFINE size == topsize + qsize
  <2>1. topsize \in Int /\ size \in Int /\ q + size = top + topsize
    BY <1>2, <1>3, <1>7, <1>10 DEF Room
  <2>2. mem' = TopFrom(k, q, size) /\ top' = q /\ topsize' = size /\ UNCHANGED <<bins, dv, dvsize>>
    BY <1>4, <1>10 DEF TopFrom, PutFront
  <2> HIDE DEF size
  <2>3. FrontPlaces(mem, R, top, p, q, top)
    BY <1>10
  <2>4. /\ Sound(mem', R, e, bins, dv, dvsize, q, size)
        /\ \A a : a \in UsedOf(mem') <=> a \in UsedOf(mem) \/ a = p
        /\ \A a \in UsedOf(mem) : mem'[a].size = mem[a].size
        /\ mem'[p].size = q - p /\ p \notin DOMAIN mem
    BY <1>6, <2>1, <2>2, <2>3, FrontTop
  <2> QED
    BY <1>12, <2>2, <2>4
<1>11. CASE old # top /\ ~ mem[old].cinuse
  <2> DEFINE size == mem[old].size + qsize
  <2>0. PICK hi \in Int : hi = q + size
    BY <1>7
  <2>1. size \in Int /\ hi \in Int /\ hi = End(mem, old) /\ size > 0 /\ hi - q = size /\ hi > old
    BY <1>1, <1>5, <1>7, <2>0 DEF Room
  <2>2. hi \in DOMAIN mem /\ ~ mem[hi].pinuse
    BY <1>1, <1>2, <1>11, <2>1, FreeFacts
  <2>3. ~ pinuse(k, hi)
    BY <1>8, <2>1, <2>2, HeaderIs
  <2>4. \/ mem' = set_size_and_pinuse_of_free_chunk(k, q, size) /\ old = dv
        \/ mem' = set_free_with_pinuse(k, q, size, hi) /\ old # dv
    <3>1. qsize + SizeOf(old) = size /\ old + SizeOf(old) = hi
      BY <1>7, <2>0, <2>1 DEF End, Room
    <3>2. dv = old => dvsize + qsize = size
      BY <1>1, <1>4, <1>7, HeaderIs
    <3> HIDE DEF size
    <3> QED
      BY <1>7, <1>11, <3>1, <3>2 DEF PutFront
  <2> HIDE DEF size
  <2>5. /\ Wrote(k, mem', q, hi) /\ mem'[q].pinuse /\ ~ mem'[q].cinuse
        /\ hi \in DOMAIN mem' /\ ~ mem'[hi].pinuse /\ mem'[hi].prev_foot = hi - q
    <3>1. hi = q + size
      BY <2>0
    <3>2. \/ mem' = set_size_and_pinuse_of_free_chunk(k, q, size) /\ ~ pinuse(k, q + size)
          \/ mem' = set_free_with_pinuse(k, q, size, q + size)
      BY <2>3, <2>4, <3>1
    <3>3. /\ Wrote(k, mem', q, q + size) /\ mem'[q].pinuse /\ ~ mem'[q].cinuse
          /\ q + size \in DOMAIN mem' /\ ~ mem'[q + size].pinuse
          /\ mem'[q + size].prev_foot = size
      <4>1. size \in Int /\ size > 0
        BY <2>1
      <4> QED
        BY <1>6, <3>2, <4>1, WriteFree
    <3> QED
      BY <2>1, <3>1, <3>3
  <2> DEFINE C == (bins \ {old}) \cup {q}
  <2>6. Rebinned(C, bins, old, q)
    BY DEF Rebinned
  <2> HIDE DEF C
  <2>7. /\ dv # old => Sound(mem', R, e, C, dv, dvsize, top, topsize)
        /\ dv = old => Sound(mem', R, e, bins, q, mem'[q].size, top, topsize)
        /\ mem'[q].size = hi - q
        /\ \A a : a \in UsedOf(mem') <=> a \in UsedOf(mem) \/ a = p
        /\ \A a \in UsedOf(mem) : mem'[a].size = mem[a].size
        /\ mem'[p].size = q - p /\ p \notin DOMAIN mem
    <3>1. hi = End(mem, old) /\ ~ mem[old].cinuse /\ hi \in Int /\ top # old
      BY <1>11, <2>1
    <3> QED
      <4>1. FrontFreed(mem, mem', p, q, old, hi)
        BY <1>6, <2>5, <3>1 DEF FrontFreed
      <4> QED
        BY <2>6, <3>1, <4>1, FrontRest
  <2>8. Sound(mem', R, e, bins', dv', dvsize', top', topsize')
    <3>1. CASE dv = old
      <4>1. dv' = q /\ dvsize' = dvsize + qsize /\ UNCHANGED <<bins, top, topsize>>
        BY <1>11, <3>1 DEF PutFront
      <4>2. dvsize' = mem'[q].size
        BY <1>1, <1>4, <1>7, <2>1, <2>7, <3>1, <4>1, HeaderIs DEF size, Room
      <4> QED
        BY <2>7, <3>1, <4>1, <4>2
    <3>2. CASE dv # old
      <4>1. bins' = C /\ UNCHANGED <<dv, dvsize, top, topsize>>
        BY <1>7, <1>11, <3>2 DEF C, PutFront
      <4> QED
        BY <2>7, <3>2, <4>1
    <3> QED
      BY <3>1, <3>2
  <2> QED
    BY <1>12, <2>7, <2>8
<1>13. CASE old # top /\ mem[old].cinuse
  <2>1. mem' = set_free_with_pinuse(k, q, qsize, old) /\ bins' = bins \cup {q} /\ old # dv
        /\ UNCHANGED <<dv, dvsize, top, topsize>>
    <3>1. old # dv /\ old \notin bins
      <4>1. old \notin FreeOf(mem)
        BY <1>13 DEF FreeOf
      <4> QED
        BY <1>1, <1>2, <1>4, <4>1
    <3> QED
      BY <1>7, <1>13, <3>1 DEF PutFront
  <2>3. /\ Wrote(k, mem', q, old) /\ mem'[q].pinuse /\ ~ mem'[q].cinuse
        /\ old \in DOMAIN mem' /\ ~ mem'[old].pinuse /\ mem'[old].prev_foot = old - q
    <3>1. mem' = set_free_with_pinuse(k, q, qsize, q + qsize)
      BY <2>1 DEF Room
    <3>2. /\ Wrote(k, mem', q, q + qsize) /\ mem'[q].pinuse /\ ~ mem'[q].cinuse
          /\ q + qsize \in DOMAIN mem' /\ ~ mem'[q + qsize].pinuse
          /\ mem'[q + qsize].prev_foot = qsize
      BY <1>5, <1>6, <3>1, WriteFree
    <3>3. qsize = old - q /\ q + qsize = old
      BY DEF Room
    <3> QED
      BY <3>2, <3>3
  <2> DEFINE C == bins \cup {q}
  <2>4. Rebinned(C, bins, old, q)
    <3>1. old \notin bins
      BY <1>4, <1>13 DEF FreeOf
    <3> QED
      BY <3>1 DEF Rebinned
  <2> HIDE DEF C
  <2>5. /\ dv # old => Sound(mem', R, e, C, dv, dvsize, top, topsize)
        /\ \A a : a \in UsedOf(mem') <=> a \in UsedOf(mem) \/ a = p
        /\ \A a \in UsedOf(mem) : mem'[a].size = mem[a].size
        /\ mem'[p].size = q - p /\ p \notin DOMAIN mem
    <3>1. PICK hi \in Int : hi = old
      OBVIOUS
    <3>2. FrontFreed(mem, mem', p, q, old, hi)
      BY <1>6, <1>13, <2>3, <3>1 DEF FrontFreed
    <3>3. top # old
      BY <1>13
    <3> QED
      BY <2>4, <3>2, <3>3, FrontRest
  <2>6. Sound(mem', R, e, bins', dv', dvsize', top', topsize')
    BY <2>1, <2>5 DEF C
  <2> QED
    BY <1>12, <2>5, <2>6
<1> QED
  BY <1>7, <1>10, <1>11, <1>13

-----------------------------------------------------------------------------
(* A segment goes                                                             *)

\* n is what is left of m outside of segment s.
Outside(m, n, s) ==
  /\ \A a : a \in DOMAIN n <=> a \in DOMAIN m /\ ~ holds(s, a)
  /\ \A a \in DOMAIN n : n[a] = m[a]

\* What is left when the chunks of a segment are dropped.
LEMMA RestrictIs ==
  ASSUME NEW m, IsMem(m), NEW s, NEW n, n = Restrict(m, {a \in DOMAIN m : ~ holds(s, a)})
  PROVE  IsMem(n) /\ Outside(m, n, s)
<1>1. /\ \A a : a \in DOMAIN n <=> a \in DOMAIN m /\ ~ holds(s, a)
      /\ \A a \in DOMAIN n : n[a] = m[a]
      /\ n = [a \in DOMAIN n |-> n[a]]
  BY DEF Restrict
<1>2. \A a \in DOMAIN n : a \in Int /\ n[a] \in Headers
  BY <1>1 DEF IsMem
<1> QED
  BY <1>1, <1>2 DEF IsMem, Outside

\* A chunk is in a segment with both its ends or not at all.
LEMMA InOrOut ==
  ASSUME NEW m, NEW S, NEW t, Heap(m, S, t), NEW s \in S, NEW a \in DOMAIN m
  PROVE  /\ holds(s, a) => /\ FirstChunk(s) <= a /\ End(m, a) < segment_top(s)
                           /\ holds(s, End(m, a))
         /\ ~ holds(s, a) => /\ Within(S \ {s}, a, End(m, a)) /\ ~ holds(s, End(m, a))
<1>1. /\ Mapped(S) /\ a \in Int /\ End(m, a) \in Int /\ a < End(m, a) /\ Within(S, a, End(m, a))
  BY ChunkFacts DEF Heap
<1>2. PICK x \in S : FirstChunk(x) <= a /\ End(m, a) < segment_top(x)
  BY <1>1 DEF Within
<1>3. /\ x \in Segment /\ s \in Segment
      /\ x # s => segment_top(x) <= s.base \/ segment_top(s) <= x.base
  BY <1>1 DEF Mapped
<1>4. /\ x.base \in Int /\ segment_top(x) \in Int /\ x.base <= FirstChunk(x) /\ FirstChunk(x) \in Int
      /\ s.base \in Int /\ segment_top(s) \in Int
  BY <1>3, FirstChunkFacts
<1>5. CASE x = s
  BY <1>1, <1>2, <1>4, <1>5 DEF holds
<1>6. CASE x # s
  <2>1. ~ holds(s, a) /\ ~ holds(s, End(m, a))
    BY <1>1, <1>2, <1>3, <1>4, <1>6 DEF holds
  <2>2. Within(S \ {s}, a, End(m, a))
    BY <1>2, <1>6 DEF Within
  <2> QED
    BY <2>1, <2>2
<1> QED
  BY <1>5, <1>6

\* Without one of its segments a heap is a heap.
LEMMA OutsideHeap ==
  ASSUME NEW m, NEW S, NEW t, Heap(m, S, t), NEW s \in S, NEW n, IsMem(n), Outside(m, n, s),
         NEW R, Without(R, S, s)
  PROVE  Heap(n, R, t)
<1>1. /\ IsMem(m) /\ Mapped(S) /\ Tiled(m, S, t) /\ Tagged(m) /\ Footed(m) /\ Shaped(m, t)
      /\ Rooted(m, S) /\ (t \in DOMAIN m => ~ m[t].cinuse)
  BY DEF Heap
<1>2. R = S \ {s}
  BY DEF Without
<1>3. /\ \A a : a \in DOMAIN n <=> a \in DOMAIN m /\ ~ holds(s, a)
      /\ \A a \in DOMAIN n : n[a] = m[a]
      /\ \A a \in DOMAIN n : End(n, a) = End(m, a)
  BY DEF Outside, End
<1>4. \A a \in DOMAIN n : Within(R, a, End(m, a)) /\ ~ holds(s, End(m, a))
  BY <1>2, <1>3, InOrOut
<1>5. Mapped(R)
  BY <1>1, <1>2 DEF Mapped
<1>6. Tiled(n, R, t)
  <2> SUFFICES ASSUME NEW a \in DOMAIN n
               PROVE  /\ a < End(n, a) /\ Within(R, a, End(n, a))
                      /\ \A b \in DOMAIN n : a < b => End(n, a) <= b
                      /\ End(n, a) \in DOMAIN n \/ a = t \/ (Fence(n, a) /\ EndsSegment(R, a))
    BY DEF Tiled
  <2>1. /\ a \in DOMAIN m /\ a < End(m, a)
        /\ \A b \in DOMAIN m : a < b => End(m, a) <= b
        /\ End(m, a) \in DOMAIN m \/ a = t \/ (Fence(m, a) /\ EndsSegment(S, a))
    BY <1>1, <1>3 DEF Tiled
  <2>2. ASSUME Fence(m, a), EndsSegment(S, a) PROVE Fence(n, a) /\ EndsSegment(R, a)
    <3>1. PICK x \in S : x.base <= a /\ a < segment_top(x) /\ a + 2 * WORD >= segment_top(x)
      BY <2>2 DEF EndsSegment
    <3>2. x # s
      BY <1>3, <3>1 DEF holds
    <3> QED
      BY <1>2, <1>3, <2>2, <3>1, <3>2 DEF EndsSegment, Fence
  <2> QED
    BY <1>3, <1>4, <2>1, <2>2
<1>7. Tagged(n)
  <2> SUFFICES ASSUME NEW a \in DOMAIN n, End(n, a) \in DOMAIN n
               PROVE  /\ n[End(n, a)].pinuse = n[a].cinuse
                      /\ ~ n[a].cinuse => n[End(n, a)].prev_foot = n[a].size /\ n[End(n, a)].cinuse
    BY DEF Tagged
  <2>1. a \in DOMAIN m /\ End(m, a) \in DOMAIN m /\ n[a] = m[a] /\ n[End(n, a)] = m[End(m, a)]
    BY <1>3
  <2> QED
    BY <1>1, <2>1 DEF Tagged
<1>8. Footed(n)
  <2> SUFFICES ASSUME NEW a \in DOMAIN n, ~ n[a].pinuse
               PROVE  \E b \in DOMAIN n : End(n, b) = a /\ ~ n[b].cinuse
    BY DEF Footed
  <2>1. PICK b \in DOMAIN m : End(m, b) = a /\ ~ m[b].cinuse
    BY <1>1, <1>3 DEF Footed
  <2>2. ~ holds(s, b)
    BY <1>3, <2>1, InOrOut
  <2> QED
    BY <1>3, <2>1, <2>2
<1>9. Shaped(n, t)
  BY <1>1, <1>3 DEF Shaped, Fence
<1>10. Rooted(n, R)
  <2> SUFFICES ASSUME NEW x \in R PROVE FirstChunk(x) \in DOMAIN n /\ n[FirstChunk(x)].pinuse
    BY DEF Rooted
  <2>1. x \in S /\ x # s /\ FirstChunk(x) \in DOMAIN m /\ m[FirstChunk(x)].pinuse
    BY <1>1, <1>2 DEF Rooted
  <2>2. /\ x \in Segment /\ s \in Segment
        /\ segment_top(x) <= s.base \/ segment_top(s) <= x.base
        /\ FirstChunk(x) < segment_top(x)
    BY <1>1, <2>1 DEF Mapped
  <2>3. /\ x.base \in Int /\ segment_top(x) \in Int /\ x.base <= FirstChunk(x) /\ FirstChunk(x) \in Int
        /\ s.base \in Int /\ segment_top(s) \in Int
    BY <2>2, FirstChunkFacts
  <2>4. ~ holds(s, FirstChunk(x))
    BY <2>2, <2>3 DEF holds
  <2> QED
    BY <1>3, <2>1, <2>4
<1>11. t \in DOMAIN n => ~ n[t].cinuse
  BY <1>1, <1>3
<1> QED
  BY <1>5, <1>6, <1>7, <1>8, <1>9, <1>10, <1>11 DEF Heap

\* What a segment that is to go holds besides its first, free, chunk p: the record
\* at c, and fenceposts.
LEMMA Leavings ==
  ASSUME NEW m, NEW S, NEW t, Heap(m, S, t), NEW s \in S, ~ holds(s, t),
         NEW p \in Int, p = FirstChunk(s), ~ m[p].cinuse,
         End(m, p) + top_foot_size >= segment_top(s),
         NEW c \in DOMAIN m, holds(s, c), m[c].cinuse, m[c].size = segment_record_size
  PROVE  /\ p \in DOMAIN m /\ holds(s, p) /\ p # t
         /\ \A a \in DOMAIN m : holds(s, a) /\ a # p /\ a # c => Fence(m, a)
<1>1. p \in DOMAIN m /\ holds(s, p) /\ p # t
  <2>1. p \in DOMAIN m
    BY DEF Heap, Rooted
  <2>2. s \in Segment /\ p < segment_top(s)
    BY DEF Heap, Mapped
  <2>3. s.base <= p
    BY <2>2, FirstChunkFacts
  <2>4. holds(s, p)
    BY <2>2, <2>3 DEF holds
  <2> QED
    BY <2>1, <2>4
<1>2. ASSUME NEW a \in DOMAIN m, holds(s, a), a # p, a # c, ~ Fence(m, a) PROVE FALSE
  <2>1. /\ p <= a /\ End(m, a) < segment_top(s)
        /\ p <= c /\ End(m, c) < segment_top(s)
    BY <1>2, InOrOut
  <2>2. a # t /\ p # c
    BY <1>2
  <2>3. m[a].size >= min_chunk_size
    BY <1>2, <2>2 DEF Heap, Shaped
  <2>4. /\ a \in Int /\ End(m, a) \in Int /\ End(m, a) = a + m[a].size /\ m[a].size \in Int
        /\ a < c => End(m, a) <= c
    BY <1>2, ChunkFacts
  <2>5. /\ c \in Int /\ End(m, c) \in Int /\ End(m, c) = c + m[c].size
        /\ c < a => End(m, c) <= a
    BY <1>2, ChunkFacts
  <2>6. /\ End(m, p) \in Int /\ (p < a => End(m, p) <= a) /\ (p < c => End(m, p) <= c)
    BY <1>1, <1>2, ChunkFacts
  <2>7. segment_top(s) \in Int
    <3>1. s \in Segment
      BY DEF Heap, Mapped
    <3> QED
      BY <3>1, FirstChunkFacts
  <2>8. /\ top_foot_size \in Int /\ segment_record_size \in Int /\ min_chunk_size \in Int
        /\ top_foot_size = segment_record_size + min_chunk_size
    BY Constants
  <2> HIDE DEF top_foot_size, segment_record_size, min_chunk_size, segment_top, End, FirstChunk, malloc_alignment
  <2>9. End(m, p) <= a /\ End(m, p) <= c
    BY <1>2, <2>1, <2>2, <2>4, <2>5, <2>6
  <2>10. CASE a < c
    BY <2>1, <2>3, <2>4, <2>5, <2>6, <2>7, <2>8, <2>9, <2>10
  <2>11. CASE c < a
    BY <2>1, <2>3, <2>4, <2>5, <2>6, <2>7, <2>8, <2>9, <2>11
  <2> QED
    BY <1>2, <2>4, <2>5, <2>10, <2>11
<1> QED
  BY <1>1, <1>2

\* A segment goes whose first chunk p is free and reaches, but for a foot, its end.
LEMMA ReleasedSound ==
  ASSUME NEW m, NEW S, NEW e \in Int, NEW B, NEW v, NEW vs, NEW t, NEW ts,
         Sound(m, S, e, B, v, vs, t, ts), NEW s \in S, ~ holds(s, t),
         NEW p \in Int, p = FirstChunk(s), ~ m[p].cinuse,
         End(m, p) + top_foot_size >= segment_top(s),
         NEW c \in DOMAIN m, holds(s, c), m[c].cinuse, m[c].size = segment_record_size,
         NEW n, IsMem(n), Outside(m, n, s), NEW R, Without(R, S, s), NEW C, Without(C, B, p)
  PROVE  /\ v # p => Sound(n, R, e, C, v, vs, t, ts)
         /\ v = p => Sound(n, R, e, C, NULL, 0, t, ts)
         /\ \A a : a \in UsedOf(n) <=> a \in UsedOf(m) /\ ~ holds(s, a)
         /\ \A a \in UsedOf(n) : n[a].size = m[a].size
         /\ \A a \in UsedOf(m) : holds(s, a) => a = c \/ Fence(m, a)
<1>1. Heap(m, S, t) /\ IsMem(m) /\ Mapped(S) /\ t \in Int /\ v \in Int /\ NULL \notin DOMAIN m
  BY SoundHeap
<1>2. /\ FreeOf(m) = B \cup ({v, t} \ {NULL}) /\ v \notin B /\ t \notin B
      /\ (v = t => v = NULL) /\ vs = HeaderAt(m, v).size /\ ts = HeaderAt(m, t).size
      /\ t # NULL => End(m, t) + top_foot_size = e /\ \A a \in DOMAIN m : a <= t \/ a >= e
  BY DEF Sound, Binned
<1>3. /\ \A a : a \in DOMAIN n <=> a \in DOMAIN m /\ ~ holds(s, a)
      /\ \A a \in DOMAIN n : n[a] = m[a]
  BY DEF Outside
<1>4. Heap(n, R, t)
  BY <1>1, OutsideHeap
<1>5. /\ p \in DOMAIN m /\ holds(s, p) /\ p # t
      /\ \A a \in DOMAIN m : holds(s, a) /\ a # p /\ a # c => Fence(m, a)
  BY <1>1, Leavings
<1>6. \A a \in DOMAIN m : holds(s, a) /\ ~ m[a].cinuse => a = p
  BY <1>5 DEF Fence
<1>7. \A a : a \in FreeOf(n) <=> a \in FreeOf(m) /\ a # p
  BY <1>3, <1>5, <1>6 DEF FreeOf
<1>8. /\ \A a : a \in UsedOf(n) <=> a \in UsedOf(m) /\ ~ holds(s, a)
      /\ \A a \in UsedOf(n) : n[a].size = m[a].size
  BY <1>3 DEF UsedOf
<1>9. \A a \in UsedOf(m) : holds(s, a) => a = c \/ Fence(m, a)
  BY <1>5 DEF UsedOf
<1>10. ts = HeaderAt(n, t).size
  <2>1. t \in DOMAIN m => t \in DOMAIN n /\ n[t] = m[t]
    BY <1>3
  <2>2. t \notin DOMAIN m => t \notin DOMAIN n
    BY <1>3
  <2> QED
    BY <1>2, <2>1, <2>2 DEF HeaderAt
<1>11. t # NULL => End(n, t) + top_foot_size = e /\ \A a \in DOMAIN n : a <= t \/ a >= e
  <2> SUFFICES ASSUME t # NULL PROVE End(n, t) + top_foot_size = e /\ \A a \in DOMAIN n : a <= t \/ a >= e
    OBVIOUS
  <2>1. t \in DOMAIN m
    BY <1>2 DEF FreeOf
  <2>2. End(n, t) = End(m, t)
    BY <1>3, <2>1 DEF End
  <2> QED
    BY <1>2, <1>3, <2>2
<1>12. p \in FreeOf(m) /\ p # NULL
  BY <1>1, <1>5 DEF FreeOf
<1>13. C = B \ {p}
  BY DEF Without
<1>14. CASE v # p
  <2>1. Binned(n, C, v, t)
    <3>1. FreeOf(n) = C \cup ({v, t} \ {NULL})
      BY <1>2, <1>5, <1>7, <1>13, <1>14
    <3> QED
      BY <1>2, <1>13, <3>1 DEF Binned
  <2>2. vs = HeaderAt(n, v).size
    <3>1. v \in DOMAIN m => ~ m[v].cinuse
      BY <1>1, <1>2 DEF FreeOf
    <3>2. v \in DOMAIN m => v \in DOMAIN n /\ n[v] = m[v]
      BY <1>3, <1>6, <1>14, <3>1
    <3>3. v \notin DOMAIN m => v \notin DOMAIN n
      BY <1>3
    <3> QED
      BY <1>2, <3>2, <3>3 DEF HeaderAt
  <2>3. Sound(n, R, e, C, v, vs, t, ts)
    BY <1>4, <1>10, <1>11, <2>1, <2>2 DEF Sound
  <2> QED
    BY <1>8, <1>9, <1>14, <2>3
<1>15. CASE v = p
  <2>1. Binned(n, C, NULL, t)
    <3>1. FreeOf(n) = C \cup ({NULL, t} \ {NULL})
      BY <1>2, <1>5, <1>7, <1>12, <1>13, <1>15
    <3>2. NULL \notin C
      BY <1>1, <1>2, <1>13 DEF FreeOf
    <3> QED
      BY <1>2, <1>13, <3>1, <3>2 DEF Binned
  <2>2. 0 = HeaderAt(n, NULL).size
    BY <1>1, <1>3, NoHeader
  <2>3. Sound(n, R, e, C, NULL, 0, t, ts)
    BY <1>4, <1>10, <1>11, <2>1, <2>2 DEF Sound
  <2> QED
    BY <1>8, <1>9, <1>15, <2>3
<1> QED
  BY <1>14, <1>15
=============================================================================

--------------------------- MODULE DlmallocProofs ---------------------------
(***************************************************************************)
(* The theorems about the allocator, for every word size, limit of the     *)
(* address space, configuration, client and answer of the system.  That no *)
(* size wraps and that the countdown to the next release pass never does   *)
(* needs only the types of HeapLemmas; that the heap, the segments and     *)
(* the client's blocks are sound, and that the allocator keeps to its      *)
(* contract, rests on the inductive invariant IInv of HeapProofs.          *)
(***************************************************************************)
EXTENDS HeapProofs, WellFoundedInduction

\* The steps of the paths that end a malloc: they leave the parts that run
\* before it, and start no release pass.
LEMMA FinishControl ==
  ASSUME NEW p, Finish(p)
  PROVE  pc' \in {"idle", "free"}
BY DEF Finish, Idle

\* So does what returns to memalign,
LEMMA ReturnControl ==
  ASSUME NEW p, Return(p)
  PROVE  pc' \in {"idle", "free", "lead"}
BY FinishControl DEF Return

\* and so does every path of malloc.
LEMMA MallocControl ==
  ASSUME Malloc \/ SysAlloc
  PROVE  pc = "malloc" /\ pc' \in {"idle", "free", "lead"} /\ UNCHANGED config
<1>1. CASE Malloc
  <2>1. pc = "malloc"
    BY <1>1 DEF Malloc, MallocExactBin, MallocHigherBin, MallocSmallFromTree,
               MallocLargeFromTree, MallocDv, MallocTop, MallocRefused, NotFromBins
  <2>2. UNCHANGED config
    BY <1>1 DEF Malloc, MallocExactBin, MallocHigherBin, MallocSmallFromTree,
               MallocLargeFromTree, MallocDv, MallocTop, MallocRefused, FromBinsFrame
  <2>3. (\E p : Return(p)) \/ Finish(NULL)
    BY <1>1 DEF Malloc, MallocExactBin, MallocHigherBin, MallocSmallFromTree,
               MallocLargeFromTree, MallocDv, MallocTop, MallocRefused, TakeFromTop
  <2> QED
    BY <2>1, <2>2, <2>3, ReturnControl, FinishControl
<1>2. CASE SysAlloc
  <2>1. pc = "malloc"
    BY <1>2 DEF SysAlloc, SysAllocFails, SysAllocInit, SysAllocExtend, SysAllocPrepend,
               SysAllocAddSegment, NeedsSystem, NotFromBins
  <2>2. UNCHANGED config
    BY <1>2 DEF SysAlloc, SysAllocFails, SysAllocInit, SysAllocExtend, SysAllocPrepend,
               SysAllocAddSegment, config
  <2>3. (\E p : Return(p)) \/ Finish(NULL)
    BY <1>2 DEF SysAlloc, SysAllocFails, SysAllocInit, SysAllocExtend, SysAllocPrepend,
               SysAllocAddSegment, TakeFromTop
  <2> QED
    BY <2>1, <2>2, <2>3, ReturnControl, FinishControl
<1> QED
  BY <1>1, <1>2

-----------------------------------------------------------------------------
(* No size wraps *)

\* What the frame of a call says of the request when malloc starts: the bound
\* that NoWrap states, and before that the one a moving realloc relies on.
Bounded ==
  /\ granularity <= (USIZE_MAX + 1) \div 2
  /\ pc = "malloc" =>
       /\ call.req <= USIZE_MAX
       /\ call.align > malloc_alignment =>
            /\ call.req >= call.size + raised(call.align) + min_chunk_size
            /\ call.req + chunk_overhead <= USIZE_MAX
  /\ pc = "realloc" => call.align = malloc_alignment /\ call.size <= USIZE_MAX

\* The second half of NoWrap is arithmetic: a request that is not refused is
\* either small or below max_request.
LEMMA BoundedIsEnough == TypeOK /\ Bounded => NoWrap
<1> SUFFICES ASSUME TypeOK, Bounded, pc = "malloc", ~ refused
             PROVE  nb + top_foot_size + malloc_alignment + (granularity - 1) <= USIZE_MAX
  BY DEF NoWrap, Bounded
<1>1. granularity \in Nat /\ granularity % malloc_alignment = 0
  BY TypeParts, Granules DEF ConfigType
<1>2. call.req \in Int
  BY TypeParts, FrameFields DEF CallType
<1>3. CASE small
  BY <1>1, <1>2, <1>3, SmallRequestFits DEF Bounded, small, nb
<1>4. CASE ~ small
  <2>1. call.req < max_request(granularity)
    <3>1. max_request(granularity) \in Int
      BY <1>1, Constants, UsizeAssumption DEF max_request, clear_bit
    <3> QED
      BY <1>2, <1>4, <3>1 DEF refused
  <2>2. ~ (call.req < min_request)
    BY <1>2, <1>4, Constants
       DEF small, max_small_request, max_small_size, min_large_size, TREEBIN_SHIFT
  <2> QED
    BY <1>1, <1>2, <2>1, <2>2, RequestFits DEF nb
<1> QED
  BY <1>3, <1>4

\* The fields of a frame.
LEMMA AskingFields ==
  ASSUME NEW req, NEW size, NEW align, NEW old
  PROVE  /\ Asking(req, size, align, old).req = req /\ Asking(req, size, align, old).size = size
         /\ Asking(req, size, align, old).align = align
BY DEF Asking

\* The request memalign makes stays a size, with the header's word on top.
LEMMA AllocateBounded ==
  ASSUME AlignmentsFit, TypeOK, Bounded, NEW size \in 0..USIZE_MAX,
         NEW align \in Alignments \cup {malloc_alignment}, NEW old,
         Allocate(size, align, old), UNCHANGED config
  PROVE  Bounded'
<1>1. pc' = "malloc" /\ granularity' = granularity
  BY DEF Allocate, config
<1>2. /\ malloc_alignment \in Nat /\ chunk_overhead \in Nat /\ min_chunk_size \in Nat
      /\ USIZE_MAX \in Nat /\ size \in Nat
  BY Constants, UsizeAssumption
<1>3. CASE align <= malloc_alignment
  <2>1. call' = Asking(size, size, malloc_alignment, NULL)
    BY <1>3 DEF Allocate
  <2>2. call'.req = size /\ call'.align = malloc_alignment
    BY <2>1, AskingFields
  <2> QED
    BY <1>1, <1>2, <2>2 DEF Bounded
<1>4. CASE ~ (align <= malloc_alignment)
  <2>1. /\ raised(align) \in Nat /\ request2size(size) \in Int
        /\ request2size(size) >= size + chunk_overhead
        /\ request2size(size) + raised(align) + min_chunk_size <= USIZE_MAX
        /\ call' = Asking(request2size(size) + raised(align) + min_chunk_size - chunk_overhead,
                          size, align, old)
    BY <1>4, AllocateFits
  <2>2. /\ call'.req = request2size(size) + raised(align) + min_chunk_size - chunk_overhead
        /\ call'.size = size /\ call'.align = align
    BY <2>1, AskingFields
  <2>3. /\ call'.req >= call'.size + raised(call'.align) + min_chunk_size
        /\ call'.req + chunk_overhead <= USIZE_MAX /\ call'.req <= USIZE_MAX
    BY <1>2, <2>1, <2>2
  <2> QED
    BY <1>1, <2>3 DEF Bounded, raised
<1> QED
  BY <1>3, <1>4

\* Every step keeps requests bounded.
LEMMA BoundedStep == AlignmentsFit /\ TypeOK /\ Bounded /\ [Next]_vars => Bounded'
<1> SUFFICES ASSUME AlignmentsFit, TypeOK, Bounded, [Next]_vars PROVE Bounded'
  OBVIOUS
<1>0. Requests \subseteq 0..USIZE_MAX /\ malloc_alignment \in Int
  BY ConfigAssumption, Constants
<1>1. CASE Call
  <2>1. UNCHANGED config
    BY <1>1 DEF Call
  <2>2. ASSUME NEW size \in Requests, NEW align \in Alignments \cup {malloc_alignment},
               Allocate(size, align, NULL)
        PROVE  Bounded'
    BY <1>0, <2>1, <2>2, AllocateBounded
  <2>3. ASSUME NEW ptr \in DOMAIN live, NEW size \in Requests, NEW align \in Alignments,
               Allocate(size, align, ptr)
        PROVE  Bounded'
    BY <1>0, <2>1, <2>3, AllocateBounded
  <2>4. ASSUME NEW ptr \in DOMAIN live, NEW size \in Requests, Realloc(ptr, size)
        PROVE  Bounded'
    <3>1. pc' = "realloc" /\ call' = Asking(0, size, malloc_alignment, ptr)
      BY <2>4 DEF Realloc
    <3>2. call'.size = size /\ call'.align = malloc_alignment /\ size <= USIZE_MAX
      BY <1>0, <3>1, AskingFields, UsizeAssumption
    <3> QED
      BY <2>1, <3>1, <3>2 DEF Bounded, config
  <2>5. ASSUME NEW ptr \in DOMAIN live, Free(ptr)
        PROVE  Bounded'
    BY <2>1, <2>5 DEF Free, Bounded, config
  <2>6. ASSUME NEW pad \in Pads, Trim(pad)
        PROVE  Bounded'
    BY <2>1, <2>6 DEF Trim, Bounded, config
  <2> QED
    BY <1>1, <2>2, <2>3, <2>4, <2>5, <2>6 DEF Call
<1>2. CASE Malloc \/ SysAlloc
  BY <1>2, MallocControl DEF Bounded, config
<1>3. CASE ReallocMoves
  <2>1. pc = "realloc" /\ pc' = "malloc" /\ UNCHANGED config
    BY <1>3 DEF ReallocMoves
  <2>2. call \in Frame /\ call.size \in Int
    BY TypeParts, FrameFields DEF CallType
  <2>3. call' = [call EXCEPT !.req = call.size]
    BY <1>3 DEF ReallocMoves
  <2>4. call'.req = call.size /\ call'.align = call.align
    BY <2>2, <2>3 DEF Frame
  <2>5. ~ (malloc_alignment > malloc_alignment)
    BY <1>0
  <2> QED
    BY <2>1, <2>2, <2>4, <2>5 DEF Bounded, config
<1>4. CASE Rest /\ ~ ReallocMoves
  <2>1. UNCHANGED config
    BY <1>4 DEF Rest, MemalignLead, MemalignTail, ReallocShrink, ReallocIntoTop, ReallocIntoDv,
               ReallocIntoNext, Resized, FreeIntoTop, FreeIntoDv, FreeIntoBin, TrimDeclined,
               TrimTop, SegmentStays, SegmentReleased, SegmentRefused, ReleaseDone, config
  <2>2. pc' \notin {"malloc", "realloc"}
    BY <1>4, FinishControl
       DEF Rest, MemalignLead, MemalignTail, ReallocShrink, ReallocIntoTop, ReallocIntoDv,
           ReallocIntoNext, Resized, FreeIntoTop, FreeIntoDv, FreeIntoBin, TrimDeclined,
           TrimTop, SegmentStays, SegmentReleased, SegmentRefused, ReleaseDone, Idle, Scan, InTree
  <2> QED
    BY <2>1, <2>2 DEF Bounded, config
<1>5. CASE Configure
  <2>1. pc = "idle" /\ pc' = pc
    BY <1>5 DEF Configure, SetGranularity, SetMaxReleaseCheckRate
  <2>2. granularity' \in Granularities \cup {granularity}
    BY <1>5 DEF Configure, SetGranularity, SetMaxReleaseCheckRate
  <2>3. granularity' <= (USIZE_MAX + 1) \div 2
    BY <2>2, ConfigAssumption DEF Bounded
  <2> QED
    BY <2>1, <2>3 DEF Bounded
<1>6. CASE Destroy \/ Gone \/ UNCHANGED vars
  BY <1>6 DEF Destroy, Gone, vars, config, Bounded
<1> QED
  BY <1>1, <1>2, <1>3, <1>4, <1>5, <1>6 DEF Next

\* No size wraps on its way from a request to what the system is asked for: with any
\* configuration, requests up to usize::MAX and any alignment that max_request leaves
\* room for. With a granularity and an alignment of half the address space l. 660 wraps.
THEOREM SizesNeverWrap ==
  ASSUME AlignmentsFit
  PROVE  Spec => []NoWrap
<1>1. Init => Bounded
  BY ConfigAssumption DEF Init, Bounded
<1>2. TypeOK /\ Bounded /\ [Next]_vars => Bounded'
  BY BoundedStep
<1> QED
  BY <1>1, <1>2, BoundedIsEnough, TypeCorrect, PTL DEF Spec

-----------------------------------------------------------------------------
(* The countdown *)

\* An allocator without a segment has nothing at all: no step but a region from
\* the system can serve a request, and there is no block to free.
Fresh ==
  /\ bins = {} /\ dvsize = 0 /\ topsize = 0 /\ top = NULL
  /\ DOMAIN live = {} /\ pc \in {"idle", "malloc", "trim"}

\* Once there is a segment the countdown is at least one, but during a pass; and
\* a pass looks only at segments after the first, which therefore stays.
Counting ==
  /\ Usable /\ segs = << >> => Fresh
  /\ Usable /\ segs # << >> /\ pc # "release" => release_checks >= 1
  /\ pc = "release" => segs # << >> /\ call.sp >= 2

\* A chunk has a size.
LEMMA NbPositive == TypeOK => nb \in Int /\ nb > 0
BY TypeParts, FrameFields, Request2Size DEF CallType, nb

\* Out of nothing, malloc returns nothing or obtains the first segment.
LEMMA CountingMalloc ==
  ASSUME TypeOK, Counting, Malloc \/ SysAlloc
  PROVE  Counting'
<1>1. /\ pc = "malloc" /\ pc' \in {"idle", "free", "lead"} /\ UNCHANGED config
      /\ Usable /\ Usable' /\ nb \in Int /\ nb > 0
  BY MallocControl, NbPositive DEF Usable
<1>2. max_release_check_rate \in Nat
  BY TypeParts DEF ConfigType
<1>3. CASE SysAlloc /\ ~ SysAllocFails
  <2>1. segs' # << >>
    BY <1>3, SysAllocInitType, SysAllocExtendType, SysAllocPrependType, SysAllocAddSegmentType
       DEF SysAlloc
  <2>2. release_checks' >= 1
    <3>1. CASE SysAllocInit
      BY <1>2, <3>1, TargetType DEF SysAllocInit
    <3>2. CASE ~ SysAllocInit
      <4>1. release_checks' = release_checks
        BY <1>3, <3>2 DEF SysAlloc, SysAllocExtend, SysAllocPrepend, SysAllocAddSegment, counters
      <4>2. DOMAIN segs # {}
        BY <1>3, <3>2
           DEF SysAlloc, SysAllocExtend, SysAllocPrepend, SysAllocAddSegment, ExtendedBy,
               PrecededBy, segment_holding
      <4>3. segs # << >>
        BY <4>2, NothingType
      <4> QED
        BY SMTT(30), <1>1, <4>1, <4>3 DEF Counting
    <3> QED
      BY <3>1, <3>2
  <2> QED
    BY <1>1, <2>1, <2>2 DEF Counting
<1>4. CASE Malloc \/ SysAllocFails
  <2>1. UNCHANGED <<segs, release_checks>>
    BY <1>4 DEF Malloc, MallocExactBin, MallocHigherBin, MallocSmallFromTree, MallocLargeFromTree,
               MallocDv, MallocTop, MallocRefused, FromBinsFrame, SysAllocFails, system, counters
  <2>2. CASE segs # << >>
    BY <1>1, <2>1, <2>2 DEF Counting
  <2>3. CASE segs = << >>
    <3>1. Fresh
      BY <1>1, <2>3 DEF Counting
    <3>2. SmallAt({idx}) = {} /\ Large = {} /\ \A I : SmallAt(I) = {}
      BY <3>1 DEF Fresh, SmallAt, Large
    <3>3. MallocRefused \/ SysAllocFails
      <4>1. ~ MallocExactBin
        BY <3>2 DEF MallocExactBin, ExactBin
      <4>2. ~ MallocHigherBin
        BY <3>2 DEF MallocHigherBin, HigherBin
      <4>3. ~ MallocSmallFromTree /\ ~ MallocLargeFromTree
        BY <3>2 DEF MallocSmallFromTree, SmallFromTree, MallocLargeFromTree, Fitting, Smallest
      <4>4. ~ MallocDv
        BY <1>1, <3>1 DEF Fresh, MallocDv
      <4>5. ~ MallocTop
        <5>1. MallocTop => nb < topsize
          BY DEF MallocTop, TakeFromTop
        <5>2. topsize = 0
          BY <3>1 DEF Fresh
        <5> QED
          BY <1>1, <5>1, <5>2
      <4> QED
        BY <1>4, <4>1, <4>2, <4>3, <4>4, <4>5 DEF Malloc
    <3>4. Finish(NULL) /\ UNCHANGED heap
      BY <3>3 DEF MallocRefused, SysAllocFails
    <3>5. pc' = "idle" /\ UNCHANGED live
      BY <3>4 DEF Finish, Idle
    <3>6. Fresh'
      BY <3>1, <3>4, <3>5 DEF Fresh, heap
    <3> QED
      BY <2>1, <2>3, <3>5, <3>6 DEF Counting
  <2> QED
    BY <2>2, <2>3
<1> QED
  BY <1>3, <1>4

\* The step that frees a large chunk starts a pass when it counts down to zero.
LEMMA CountingRest ==
  ASSUME TypeOK, Counting, Rest
  PROVE  Counting'
<1>0. SystemType /\ CallType /\ release_checks \in Int /\ max_release_check_rate \in Nat
  BY TypeParts DEF CountersType, ConfigType
<1>1. CASE \/ MemalignLead \/ MemalignTail \/ ReallocShrink \/ ReallocIntoTop \/ ReallocIntoDv
           \/ ReallocIntoNext \/ ReallocMoves \/ FreeIntoTop \/ FreeIntoDv
  <2>1. pc \in {"lead", "tail", "realloc", "free"}
    BY <1>1 DEF MemalignLead, MemalignTail, ReallocShrink, ReallocIntoTop, ReallocIntoDv,
               ReallocIntoNext, ReallocMoves, FreeIntoTop, FreeIntoDv
  <2>2. segs # << >> /\ release_checks >= 1
    BY <2>1 DEF Counting, Usable, Fresh
  <2>3. UNCHANGED <<segs, release_checks>>
    BY <1>1 DEF MemalignLead, MemalignTail, ReallocShrink, ReallocIntoTop, ReallocIntoDv,
               ReallocIntoNext, ReallocMoves, FreeIntoTop, FreeIntoDv, Resized, system, counters
  <2>4. pc' # "release"
    BY <1>1, FinishControl
       DEF MemalignLead, MemalignTail, ReallocShrink, ReallocIntoTop, ReallocIntoDv,
           ReallocIntoNext, ReallocMoves, FreeIntoTop, FreeIntoDv, Resized, Idle
  <2> QED
    BY <2>2, <2>3, <2>4 DEF Counting
<1>2. CASE FreeIntoBin
  <2>1. pc = "free" /\ UNCHANGED segs
    BY <1>2 DEF FreeIntoBin, system
  <2>2. segs # << >> /\ release_checks >= 1
    BY <2>1 DEF Counting, Usable, Fresh
  <2>3. \/ Idle /\ release_checks' \in {release_checks, release_checks - 1} /\ release_checks' # 0
        \/ Scan(NoCall)
    BY <1>0, <1>2, <2>2 DEF FreeIntoBin
  <2>4. CASE Idle /\ release_checks' \in {release_checks, release_checks - 1}
             /\ release_checks' # 0
    BY <1>0, <2>1, <2>2, <2>4 DEF Counting, Idle
  <2>5. CASE Scan(NoCall)
    <3>1. call' = [NoCall EXCEPT !.sp = 2] /\ pc' = "release"
      BY <2>5 DEF Scan
    <3>2. call'.sp = 2
      BY <3>1 DEF NoCall, Asking
    <3> QED
      BY <2>1, <2>2, <3>1, <3>2 DEF Counting
  <2> QED
    BY <2>3, <2>4, <2>5
<1>3. CASE TrimDeclined
  <2>1. /\ pc = "trim" /\ pc' = "idle" /\ UNCHANGED <<segs, release_checks>>
        /\ UNCHANGED <<bins, dvsize, topsize, top, live>>
    BY <1>3 DEF TrimDeclined, Idle, system, counters, heap
  <2> QED
    BY <2>1 DEF Counting, Usable, Fresh
<1>4. CASE TrimTop
  <2>1. pc = "trim" /\ top # NULL
    BY <1>4 DEF TrimTop
  <2>2. segs # << >>
    BY <2>1 DEF Counting, Usable, Fresh
  <2>3. segs' # << >>
    <3>1. \/ UNCHANGED segs
          \/ \E sp \in DOMAIN segs : \E s : segs' = [segs EXCEPT ![sp] = s]
      BY <1>4 DEF TrimTop, segment_holding
    <3>2. ASSUME NEW sp \in DOMAIN segs, NEW s, segs' = [segs EXCEPT ![sp] = s]
          PROVE  segs' # << >>
      <4>1. sp \in DOMAIN segs'
        BY <3>2
      <4> QED
        BY <4>1, NothingType
    <3> QED
      BY <2>2, <3>1, <3>2
  <2>4. \E f \in Frame : Scan(f)
    <3>1. call \in Frame
      BY <1>0 DEF CallType
    <3>2. [call EXCEPT !.released = TRUE] \in Frame
      <4>1. 0 \in Int
        OBVIOUS
      <4> QED
        BY <3>1, <4>1, FrameTypes
    <3>3. Scan(call) \/ Scan([call EXCEPT !.released = TRUE])
      BY <1>4 DEF TrimTop
    <3> QED
      BY <3>1, <3>2, <3>3
  <2>5. pc' = "release" /\ call'.sp = 2
    BY <2>4 DEF Scan, Frame
  <2> QED
    BY <2>3, <2>5 DEF Counting
<1>5. CASE SegmentStays \/ SegmentRefused \/ SegmentReleased
  <2>1. pc = "release" /\ pc' \in {"release", "corrupt"} /\ call.sp \in DOMAIN segs
    BY <1>5 DEF SegmentStays, SegmentRefused, SegmentReleased, InTree
  <2>2. segs # << >> /\ call.sp >= 2 /\ call.sp \in Int
    BY <1>0, <2>1, FrameFields DEF Counting, CallType
  <2>3. call' \in {Onward, [Visited EXCEPT !.released = TRUE]}
    BY <1>5 DEF SegmentStays, SegmentRefused, SegmentReleased
  <2>4. Visited \in Frame /\ Visited.sp = call.sp
    <3>1. call \in Frame /\ call.nsegs + 1 \in Int
      BY <1>0, FrameFields DEF CallType
    <3>2. Visited \in Frame
      BY <3>1, FrameTypes DEF Visited
    <3>3. Visited.sp = call.sp
      BY <3>1 DEF Visited, Frame
    <3> QED
      BY <3>2, <3>3
  <2>5. Onward.sp = call.sp + 1
    BY <2>4 DEF Onward, Frame
  <2>6. [Visited EXCEPT !.released = TRUE].sp = call.sp
    BY <2>4 DEF Frame
  <2>7. call'.sp >= 2
    <3>1. call'.sp = Onward.sp \/ call'.sp = [Visited EXCEPT !.released = TRUE].sp
      BY <2>3
    <3> QED
      BY <2>2, <2>5, <2>6, <3>1
  <2>8. segs' # << >>
    <3>1. CASE SegmentStays \/ SegmentRefused
      BY <2>2, <3>1 DEF SegmentStays, SegmentRefused, system
    <3>2. CASE SegmentReleased
      <4>1. segs' = SubSeq(segs, 1, call.sp - 1) \o SubSeq(segs, call.sp + 1, Len(segs))
        BY <3>2 DEF SegmentReleased
      <4>2. /\ Len(segs) \in Nat /\ call.sp \in 1..Len(segs)
            /\ \A i \in 1..Len(segs) : segs[i] \in Segment
        BY <1>0, <2>1, LenProperties, ElementOfSeq DEF SystemType
      <4>3. /\ SubSeq(segs, 1, call.sp - 1) \in Seq(Segment)
            /\ Len(SubSeq(segs, 1, call.sp - 1)) = call.sp - 1
        BY <2>2, <4>2, SubSeqProperties
      <4>4. SubSeq(segs, call.sp + 1, Len(segs)) \in Seq(Segment)
        BY <4>2, SubSeqProperties
      <4>5. SubSeq(segs, 1, call.sp - 1) # << >>
        BY <2>2, <4>3, EmptySeq
      <4> QED
        BY <4>1, <4>3, <4>4, <4>5, ConcatEqualIffEmpty
    <3> QED
      BY <1>5, <3>1, <3>2
  <2> QED
    BY <2>1, <2>7, <2>8 DEF Counting, Usable
<1>6. CASE ReleaseDone
  <2>1. pc = "release" /\ pc' = "idle" /\ UNCHANGED segs
    BY <1>6 DEF ReleaseDone, Idle, system
  <2>2. release_checks' >= 1
    <3>1. call.nsegs \in Int /\ release_check_target(max_release_check_rate) \in Int
          /\ release_check_target(max_release_check_rate) >= 1
      BY <1>0, FrameFields, TargetType DEF CallType
    <3>2. release_checks' >= release_check_target(max_release_check_rate)
          /\ release_checks' \in Int
      BY <1>6, <3>1, TwoOf DEF ReleaseDone
    <3> QED
      BY <3>1, <3>2
  <2> QED
    BY <2>1, <2>2 DEF Counting
<1> QED
  BY <1>1, <1>2, <1>3, <1>4, <1>5, <1>6 DEF Rest

\* Every step keeps the countdown going.
LEMMA CountingStep == TypeOK /\ Counting /\ [Next]_vars => Counting'
<1> SUFFICES ASSUME TypeOK, Counting, [Next]_vars PROVE Counting'
  OBVIOUS
<1>1. CASE Call
  <2>1. pc = "idle" /\ UNCHANGED <<segs, release_checks, bins, dvsize, topsize, top>>
    BY <1>1 DEF Call, heap, system, counters
  <2>2. CASE segs # << >>
    <3>1. pc' # "release"
      BY <1>1 DEF Call, Allocate, Free, Realloc, Trim
    <3> QED
      BY <2>1, <2>2, <3>1 DEF Counting, Usable
  <2>3. CASE segs = << >>
    <3>1. DOMAIN live = {}
      BY <2>1, <2>3 DEF Counting, Usable, Fresh
    <3>2. pc' \in {"malloc", "trim"} /\ UNCHANGED live
      BY <1>1, <3>1 DEF Call, Allocate, Trim
    <3> QED
      BY <2>1, <2>3, <3>2 DEF Counting, Usable, Fresh
  <2> QED
    BY <2>2, <2>3
<1>2. CASE Malloc \/ SysAlloc
  BY <1>2, CountingMalloc
<1>3. CASE Rest
  BY <1>3, CountingRest
<1>4. CASE Configure
  <2>1. pc = "idle" /\ UNCHANGED <<pc, segs, bins, dvsize, topsize, top, live>>
    BY <1>4 DEF Configure, SetGranularity, SetMaxReleaseCheckRate, heap, system
  <2>2. release_checks' = release_checks \/ release_checks' >= 1
    BY <1>4, ConfigAssumption, TargetType
       DEF Configure, SetGranularity, SetMaxReleaseCheckRate, counters
  <2> QED
    BY <2>1, <2>2 DEF Counting, Usable, Fresh
<1>5. CASE Destroy
  BY <1>5 DEF Destroy, Counting, Usable
<1>6. CASE Gone \/ UNCHANGED vars
  BY <1>6 DEF Gone, vars, heap, system, counters, Counting, Usable, Fresh
<1> QED
  BY <1>1, <1>2, <1>3, <1>4, <1>5, <1>6 DEF Next

\* The countdown never stands at zero when a chunk is freed, so decrementing it
\* cannot wrap round and put the next release pass off for ever.
THEOREM CountdownNeverWraps == Spec => []CountdownRuns
<1>1. Init => Counting
  BY NothingType DEF Init, Counting, Fresh, Usable
<1>2. Counting => CountdownRuns
  BY DEF Counting, CountdownRuns, Fresh
<1> QED
  BY <1>1, <1>2, CountingStep, TypeCorrect, PTL DEF Spec

-----------------------------------------------------------------------------
(* What the invariant says in the words of the runs                            *)

\* The parts of a heap that is in use.
LEMMA HeapParts ==
  ASSUME TypeOK, IInv, Usable
  PROVE  /\ SystemType /\ LiveType /\ Heap(mem, Segs, top) /\ Mapped(Segs)
         /\ Sound(mem, Segs, TopEnd, bins, dv, dvsize, top, topsize) /\ TopEnd \in Int
         /\ TopInv /\ SegsInv /\ Owners(mem, Held, Records) /\ BlocksInv /\ top \in Int
         /\ NULL \notin DOMAIN mem
<1>1. /\ SystemType /\ LiveType /\ HeapSound /\ TopInv /\ SegsInv /\ OwnersInv /\ BlocksInv
  BY TypeParts DEF IInv, HeapInv
<1>2. TopEnd \in Int
  BY <1>1, TopRoom DEF TopEnd
<1> QED
  BY <1>1, <1>2, SoundHeap DEF HeapSound, OwnersInv

\* Chunks tile every segment.
LEMMA Tiling == TypeOK /\ IInv => HeapTiled
<1> SUFFICES ASSUME TypeOK, IInv, Usable PROVE HeapTiled
  BY DEF HeapTiled
<1>1. /\ SystemType /\ Heap(mem, Segs, top) /\ Mapped(Segs) /\ TopEnd \in Int
      /\ Sound(mem, Segs, TopEnd, bins, dv, dvsize, top, topsize) /\ TopInv
  BY HeapParts
<1>2. \A s \in Segs : FirstChunk(s) \in DOMAIN mem
  BY <1>1 DEF Heap, Rooted
<1>3. ASSUME NEW a \in DOMAIN mem
      PROVE  /\ a < EndOf(a)
             /\ \E s \in Segs : s.base <= a /\ EndOf(a) <= segment_top(s)
             /\ \A b \in DOMAIN mem : a < b => EndOf(a) <= b
             /\ EndOf(a) \in DOMAIN mem \/ a = top \/ LastFence(a)
  <2>1. EndOf(a) = End(mem, a)
    BY DEF EndOf, End
  <2>2. /\ a < End(mem, a) /\ Within(Segs, a, End(mem, a)) /\ a \in Int /\ End(mem, a) \in Int
        /\ \A b \in DOMAIN mem : a < b => End(mem, a) <= b
        /\ End(mem, a) \in DOMAIN mem \/ a = top \/ (Fence(mem, a) /\ EndsSegment(Segs, a))
    BY <1>1, ChunkFacts DEF Heap, Tiled
  <2>3. \E s \in Segs : s.base <= a /\ End(mem, a) <= segment_top(s)
    <3>1. PICK s \in Segs : FirstChunk(s) <= a /\ End(mem, a) < segment_top(s)
      BY <2>2 DEF Within
    <3>2. s.base \in Int /\ segment_top(s) \in Int /\ s.base <= FirstChunk(s) /\ FirstChunk(s) \in Int
      BY <1>1, FirstChunkFacts DEF Mapped
    <3> HIDE DEF FirstChunk, segment_top, End
    <3>3. s.base <= a /\ End(mem, a) <= segment_top(s)
      BY <2>2, <3>1, <3>2
    <3> QED
      BY <3>3
  <2>4. Fence(mem, a) /\ EndsSegment(Segs, a) => LastFence(a)
    BY DEF Fence, EndsSegment, LastFence, IsFence, holds
  <2> QED
    BY <2>1, <2>2, <2>3, <2>4
<1>4. top # NULL => top + topsize + top_foot_size = segment_top(segs[1])
  BY <1>1, TopFacts DEF End, TopEnd
<1> QED
  BY <1>2, <1>3, <1>4 DEF HeapTiled

\* The boundary tags tell the truth, and free neighbours are joined.
LEMMA Tags == TypeOK /\ IInv => TagsAgree /\ Coalesced
<1> SUFFICES ASSUME TypeOK, IInv, Usable PROVE TagsAgree /\ Coalesced
  BY DEF TagsAgree, Coalesced
<1>1. /\ Heap(mem, Segs, top) /\ TopEnd \in Int /\ top \in Int
      /\ Sound(mem, Segs, TopEnd, bins, dv, dvsize, top, topsize)
  BY HeapParts
<1>2. Tiled(mem, Segs, top) /\ Tagged(mem) /\ Footed(mem) /\ Rooted(mem, Segs)
  BY <1>1 DEF Heap
<1>3. \A a \in DOMAIN mem : HeaderAt(mem, a) = mem[a] /\ EndOf(a) = End(mem, a)
  BY DEF HeaderAt, EndOf, End
<1>4. TagsAgree
  <2>1. \A s \in Segs : pinuse(mem, FirstChunk(s))
    BY <1>2, <1>3 DEF Rooted, pinuse
  <2>2. ASSUME NEW a \in DOMAIN mem, EndOf(a) \in DOMAIN mem
        PROVE  /\ pinuse(mem, EndOf(a)) = cinuse(mem, a)
               /\ ~ cinuse(mem, a) => mem[EndOf(a)].prev_foot = mem[a].size
    BY <1>2, <1>3, <2>2 DEF Tagged, pinuse, cinuse
  <2> QED
    BY <2>1, <2>2 DEF TagsAgree
<1>5. Coalesced
  <2> SUFFICES ASSUME NEW a \in DOMAIN mem, ~ mem[a].cinuse
               PROVE  pinuse(mem, a) /\ (a # top => EndOf(a) # top /\ cinuse(mem, EndOf(a)))
    BY DEF Coalesced, FreeChunks, InUse
  <2>1. mem[a].pinuse
    <3>1. SUFFICES ASSUME ~ mem[a].pinuse PROVE FALSE
      OBVIOUS
    <3>2. PICK b \in DOMAIN mem : End(mem, b) = a /\ ~ mem[b].cinuse
      BY <1>2, <3>1 DEF Footed
    <3> QED
      BY <1>2, <3>2 DEF Tagged
  <2>2. ASSUME a # top PROVE EndOf(a) # top /\ cinuse(mem, EndOf(a))
    <3>1. End(mem, a) \in DOMAIN mem
      BY <1>2, <2>2 DEF Tiled, Fence
    <3>2. mem[End(mem, a)].cinuse
      BY <1>2, <3>1 DEF Tagged
    <3>3. top \in DOMAIN mem => ~ mem[top].cinuse
      BY <1>1 DEF Heap
    <3> QED
      BY <1>3, <3>1, <3>2, <3>3 DEF cinuse
  <2> QED
    BY <1>3, <2>1, <2>2 DEF pinuse
<1> QED
  BY <1>4, <1>5

\* Every free chunk is in one place, and every other has an owner.
LEMMA Accounts == TypeOK /\ IInv => FreeAccounted /\ UseAccounted
<1> SUFFICES ASSUME TypeOK, IInv, Usable PROVE FreeAccounted /\ UseAccounted
  BY DEF FreeAccounted, UseAccounted
<1>1. /\ Heap(mem, Segs, top) /\ Owners(mem, Held, Records)
      /\ Sound(mem, Segs, TopEnd, bins, dv, dvsize, top, topsize)
  BY HeapParts
<1>2. FreeOf(mem) = FreeChunks /\ UsedOf(mem) = InUse
  BY DEF FreeOf, FreeChunks, InUse, UsedOf
<1>3. FreeAccounted
  <2>1. \A a \in FreeChunks \ {top} : mem[a].size >= min_chunk_size
    BY <1>1, <1>2 DEF Heap, Shaped, Fence, FreeOf
  <2> QED
    BY <1>1, <1>2, <2>1 DEF FreeAccounted, Sound, Binned
<1>4. UseAccounted
  <2>1. /\ \A a \in Held : a \in InUse
        /\ \A a \in Records : a \in InUse
        /\ \A a \in InUse : a \in Held \/ a \in Records \/ Fence(mem, a)
    BY <1>1, <1>2 DEF Owners
  <2>2. \A a \in InUse : Fence(mem, a) <=> IsFence(a)
    BY DEF InUse, Fence, IsFence
  <2>3. Records = {from_mem(segs[i].rec) : i \in DOMAIN segs \ {1}}
    BY DEF Records, Record
  <2>4. InUse = Clients \cup Records \cup {a \in InUse : IsFence(a)} \cup InHand
    <3>1. \A a : a \in InUse <=> a \in Clients \/ a \in Records \/ (a \in InUse /\ IsFence(a)) \/ a \in InHand
      BY <2>1, <2>2 DEF Held
    <3> HIDE DEF InUse, IsFence, Clients, Records, InHand
    <3> QED
      BY <3>1
  <2> HIDE DEF InUse
  <2> QED
    BY <2>3, <2>4 DEF UseAccounted, Clients, InHand
<1> QED
  BY <1>3, <1>4

\* Blocks have the room and the alignment that was asked for, and not much more room.
LEMMA BlocksServed == TypeOK /\ IInv => BlocksOK
<1> SUFFICES ASSUME TypeOK, IInv, Usable PROVE BlocksOK
  BY DEF BlocksOK, LiveServed, ValidSize, Usable
<1>1. /\ Owners(mem, Held, Records) /\ BlocksInv /\ Heap(mem, Segs, top) /\ LiveType
  BY HeapParts
<1>2. ASSUME NEW b \in DOMAIN live
      PROVE  /\ from_mem(b) \in InUse
             /\ live[b].size + chunk_overhead <= mem[from_mem(b)].size
             /\ b % live[b].align = 0
             /\ SizeOf(from_mem(b)) <= live[b].size + chunk_overhead + 2 * min_chunk_size + WORD - 1
  <2>1. from_mem(b) \in Clients
    BY DEF Clients
  <2>2. from_mem(b) \in UsedOf(mem)
    BY <1>1, <2>1 DEF Owners, Held
  <2>3. PICK n \in Nat : n = live[b].size
    BY <1>1 DEF BlocksInv
  <2>4. /\ request2size(n) <= mem[from_mem(b)].size
        /\ mem[from_mem(b)].size <= n + chunk_overhead + 2 * min_chunk_size + WORD - 1
        /\ b % live[b].align = 0
    BY <1>1, <2>3 DEF BlocksInv, Roomy
  <2>5. request2size(n) \in Int /\ n + chunk_overhead <= request2size(n)
    BY NbFacts
  <2>6. SizeOf(from_mem(b)) = mem[from_mem(b)].size /\ mem[from_mem(b)].size \in Int
    BY <1>1, <2>2, ChunkFacts DEF SizeOf, HeaderAt, UsedOf
  <2> QED
    BY <2>2, <2>3, <2>4, <2>5, <2>6, Constants DEF UsedOf, InUse
<1> QED
  BY <1>2 DEF BlocksOK, LiveServed, ValidSize

-----------------------------------------------------------------------------
(* How the segments change                                                     *)

\* x is segment y, but for where its record lies.
Like(x, y) == x.base = y.base /\ x.size = y.size /\ x.flags = y.flags

\* Segment x is region r of the system, or segment y that r was joined to.
NewFrom(x, r) == x.base = r.base /\ x.size = r.size /\ x.flags = r.flags
JoinedTo(x, y, r) ==
  /\ ~ EXTERN(y.flags) /\ sys_flags(y) = r.flags /\ x.flags = y.flags /\ x.size = y.size + r.size
  /\ \/ x.base = y.base /\ segment_top(y) = r.base
     \/ x.base = r.base /\ segment_top(r) = y.base

\* Segment x is segment y without its end.
CutFrom(x, y) ==
  /\ ~ EXTERN(y.flags) /\ x.base = y.base /\ x.flags = y.flags
  /\ \E c \in Int : x.size = y.size - c * granularity

\* Segments S become R: a region joins one of them, or becomes one.
OneGrown(S, R, r) ==
  \E y \in S, z \in R :
    /\ JoinedTo(z, y, r)
    /\ \A x \in R : x = z \/ x \in S
    /\ \A x \in S : x = y \/ x \in R
Added(S, R, r) ==
  /\ \A x \in R : NewFrom(x, r) \/ \E y \in S : Like(x, y)
  /\ \A y \in S : \E x \in R : Like(x, y)
  /\ \E x \in R : NewFrom(x, r)
Shrunk(S, R) ==
  \E y \in S, z \in R : CutFrom(z, y) /\ (\A x \in R : x = z \/ x \in S) /\ (\A x \in S : x = y \/ x \in R)
Dropped(S, R) == \E y \in S : ~ EXTERN(y.flags) /\ (\A x \in R : x \in S) /\ (\A x \in S : x = y \/ x \in R)

\* One segment is replaced.
LEMMA OneReplaced ==
  ASSUME SystemType, SystemType', NEW i \in DOMAIN segs, NEW g, segs' = [segs EXCEPT ![i] = g]
  PROVE  /\ g \in Segs' /\ segs[i] \in Segs
         /\ \A x \in Segs' : x = g \/ x \in Segs
         /\ \A x \in Segs : x = segs[i] \/ x \in Segs'
<1>1. DOMAIN segs' = DOMAIN segs /\ segs'[i] = g /\ \A j \in DOMAIN segs : j # i => segs'[j] = segs[j]
  BY DEF SystemType
<1>2. \A x \in Segs' : x = g \/ x \in Segs
  BY <1>1 DEF Segs
<1>3. \A x \in Segs : x = segs[i] \/ x \in Segs'
  <2> SUFFICES ASSUME NEW x \in Segs, x # segs[i] PROVE x \in Segs'
    OBVIOUS
  <2>1. PICK j \in DOMAIN segs : x = segs[j]
    BY DEF Segs
  <2>2. j # i /\ j \in DOMAIN segs' /\ segs'[j] = x
    BY <1>1, <2>1
  <2> QED
    BY <2>2 DEF Segs
<1> QED
  BY <1>1, <1>2, <1>3 DEF Segs

\* The steps of sys_alloc that obtain a region.
Grows == SysAllocInit \/ SysAllocExtend \/ SysAllocPrepend \/ SysAllocAddSegment

\* A region joins a segment with the same flags, or is a segment of its own.
LEMMA GrowSegs ==
  ASSUME TypeOK, HeapInv, Grows
  PROVE  \E r \in Regions : Obtained(r) /\ (OneGrown(Segs, Segs', r) \/ Added(Segs, Segs', r))
<1>1. SystemType /\ SystemType' /\ HeapSound /\ TopInv /\ SegsInv
  BY NextType, TypeParts, TypePartsPrime DEF Next, SysAlloc, Grows, HeapInv
<1>2. CASE SysAllocInit
  <2>1. PICK r \in Regions : Obtained(r) /\ segs' = << segment(r.base, r.size, r.flags, NULL) >> /\ top = NULL
    BY <1>2 DEF SysAllocInit
  <2>2. segs = << >>
    BY <1>1, <2>1 DEF TopInv
  <2>3. PICK g : g = segment(r.base, r.size, r.flags, NULL)
    OBVIOUS
  <2>4. NewFrom(g, r)
    BY <2>3 DEF segment, NewFrom
  <2>5. Segs = {}
    BY <2>2 DEF Segs
  <2>6. Segs' = {g}
    BY <2>1, <2>3 DEF Segs
  <2>7. Added(Segs, Segs', r)
    BY <2>4, <2>5, <2>6 DEF Added
  <2> QED
    BY <2>1, <2>7
<1>3. CASE SysAllocExtend
  <2>1. PICK r \in Regions : Obtained(r) /\ \E i \in ExtendedBy(r) :
            segs' = [segs EXCEPT ![i] = segment(@.base, @.size + r.size, @.flags, @.rec)]
    BY <1>3 DEF SysAllocExtend
  <2>2. PICK i \in ExtendedBy(r) :
            segs' = [segs EXCEPT ![i] = segment(@.base, @.size + r.size, @.flags, @.rec)]
    BY <2>1
  <2>3. i \in DOMAIN segs /\ segment_top(segs[i]) = r.base /\ Matches(segs[i], r)
    BY DEF ExtendedBy
  <2>4. PICK g : g = segment(segs[i].base, segs[i].size + r.size, segs[i].flags, segs[i].rec)
    OBVIOUS
  <2>5. JoinedTo(g, segs[i], r)
    BY <2>3, <2>4 DEF segment, Matches, JoinedTo
  <2>6. segs' = [segs EXCEPT ![i] = g]
    BY <2>2, <2>4
  <2>7. OneGrown(Segs, Segs', r)
    BY <1>1, <2>3, <2>5, <2>6, OneReplaced DEF OneGrown
  <2> QED
    BY <2>1, <2>7
<1>4. CASE SysAllocPrepend
  <2>1. PICK r \in Regions : \E i \in PrecededBy(r) :
            Obtained(r) /\ segs' = [segs EXCEPT ![i] = segment(r.base, @.size + r.size, @.flags, @.rec)]
    BY <1>4 DEF SysAllocPrepend
  <2>2. PICK i \in PrecededBy(r) :
            Obtained(r) /\ segs' = [segs EXCEPT ![i] = segment(r.base, @.size + r.size, @.flags, @.rec)]
    BY <2>1
  <2>3. i \in DOMAIN segs /\ segs[i].base = segment_top(r) /\ Matches(segs[i], r)
    BY DEF PrecededBy
  <2>4. PICK g : g = segment(r.base, segs[i].size + r.size, segs[i].flags, segs[i].rec)
    OBVIOUS
  <2>5. JoinedTo(g, segs[i], r)
    BY <2>3, <2>4 DEF segment, Matches, JoinedTo
  <2>6. segs' = [segs EXCEPT ![i] = g]
    BY <2>2, <2>4
  <2>7. OneGrown(Segs, Segs', r)
    BY <1>1, <2>3, <2>5, <2>6, OneReplaced DEF OneGrown
  <2> QED
    BY <2>2, <2>7
<1>5. CASE SysAllocAddSegment
  <2>1. PICK r \in Regions, oldsp \in segment_holding(top) :
            /\ Obtained(r) /\ top # NULL /\ pc = "malloc"
            /\ segs' = << segment(r.base, r.size, r.flags, NULL) >>
                         \o [segs EXCEPT ![1] = segment(@.base, @.size, @.flags,
                                            to_mem(record_chunk(segment_top(segs[oldsp]))))]
    BY <1>5 DEF SysAllocAddSegment, NeedsSystem, NotFromBins
  <2>2. /\ 1 \in DOMAIN segs /\ segs[1] \in Segment /\ top \in Int /\ segs[oldsp] \in Segment
    BY <1>1, <2>1, TopRoom, SegIn DEF segment_holding
  <2>3. PICK e \in Int : e = segment_top(segs[oldsp])
    BY <2>2, FirstChunkFacts
  <2>4. record_chunk(e) \in Int
    <3>1. e - (segment_record_size + 4 * WORD + malloc_alignment - 1) \in Int
      BY Constants
    <3> QED
      BY <2>2, <3>1, AsChunk DEF record_chunk
  <2>5. PICK c \in Int : c = record_chunk(e)
    BY <2>4
  <2>6. PICK g : g = segment(r.base, r.size, r.flags, NULL)
    OBVIOUS
  <2>7. PICK s : s = segment(segs[1].base, segs[1].size, segs[1].flags, to_mem(c))
    OBVIOUS
  <2>8. NewFrom(g, r) /\ Like(s, segs[1])
    BY <2>6, <2>7 DEF segment, NewFrom, Like
  <2>9. g \in Segment
    BY <2>1, <2>6, RegionFacts
  <2>10. s \in Segment
    <3>1. segs[1].base \in Int /\ segs[1].size \in Int /\ segs[1].flags \in Int /\ to_mem(c) \in Int
      BY <2>2, <2>5, MemAddresses DEF Segment
    <3> QED
      BY <2>7, <3>1, SegmentType DEF segment
  <2>11. Pushed(g, s, c)
    <3>1. segs' = << g >> \o [segs EXCEPT ![1] = s]
      BY <2>1, <2>3, <2>5, <2>6, <2>7
    <3>2. s.base = segs[1].base /\ s.size = segs[1].size /\ s.rec = to_mem(c)
      BY <2>7 DEF segment
    <3> QED
      BY <3>1, <3>2 DEF Pushed
  <2>12. /\ DOMAIN segs' = 1..(Len(segs) + 1) /\ Len(segs) \in Nat /\ DOMAIN segs = 1..Len(segs)
         /\ segs'[1] = g /\ segs'[2] = s
         /\ \A j \in DOMAIN segs : j # 1 => segs'[j + 1] = segs[j]
    BY <1>1, <2>2, <2>9, <2>10, <2>11, PushedList
  <2>13. \A x \in Segs' : NewFrom(x, r) \/ \E y \in Segs : Like(x, y)
    <3> SUFFICES ASSUME NEW k \in DOMAIN segs'
                 PROVE  NewFrom(segs'[k], r) \/ \E j \in DOMAIN segs : Like(segs'[k], segs[j])
      BY DEF Segs
    <3>1. CASE k = 1 \/ k = 2
      BY <2>2, <2>8, <2>12, <3>1
    <3>2. CASE k # 1 /\ k # 2
      <4>1. PICK j \in DOMAIN segs : j # 1 /\ k = j + 1
        <5>1. PICK n \in Nat : n = Len(segs) /\ DOMAIN segs = 1..n /\ k \in 1..(n + 1)
          BY <2>12
        <5>2. k - 1 \in 1..n /\ k - 1 # 1 /\ k = (k - 1) + 1
          BY <3>2, <5>1
        <5>3. k - 1 \in DOMAIN segs
          BY <5>1, <5>2
        <5> QED
          BY ZenonT(30), <5>2, <5>3
      <4>2. segs'[k] = segs[j]
        BY <2>12, <4>1
      <4> QED
        BY <4>2 DEF Like
    <3> QED
      BY <3>1, <3>2
  <2>14. \A y \in Segs : \E x \in Segs' : Like(x, y)
    <3> SUFFICES ASSUME NEW j \in DOMAIN segs
                 PROVE  \E k \in DOMAIN segs' : Like(segs'[k], segs[j])
      BY DEF Segs
    <3>1. j + 1 \in DOMAIN segs'
      BY <2>12
    <3>2. CASE j = 1
      BY <2>8, <2>12, <3>1, <3>2
    <3>3. CASE j # 1
      BY <2>12, <3>1, <3>3 DEF Like
    <3> QED
      BY <3>2, <3>3
  <2>15. \E x \in Segs' : NewFrom(x, r)
    <3>1. 1 \in DOMAIN segs'
      BY <2>12
    <3> QED
      BY <2>8, <2>12, <3>1 DEF Segs
  <2> QED
    BY <2>1, <2>13, <2>14, <2>15 DEF Added
<1> QED
  BY <1>2, <1>3, <1>4, <1>5 DEF Grows

\* The steps by which segments shrink or go.
Releases == TrimTop \/ SegmentReleased

\* Memory goes back to the system from the end of a segment or with a whole one,
\* and from none that is flagged EXTERN.
LEMMA ReleaseSegs ==
  ASSUME TypeOK, HeapInv, Releases
  PROVE  externs' = externs /\ (Segs' = Segs \/ Shrunk(Segs, Segs') \/ Dropped(Segs, Segs'))
<1>1. SystemType /\ SystemType' /\ HeapSound /\ SegsInv
  BY NextType, TypeParts, TypePartsPrime DEF Next, Rest, Releases, HeapInv
<1>2. CASE TrimTop
  <2>1. CASE segs' = segs
    BY <1>2, <2>1 DEF TrimTop, Segs
  <2>2. CASE segs' # segs
    <3>1. PICK pad, c, sp :
            /\ sp \in DOMAIN segs /\ ~ EXTERN(segs[sp].flags)
            /\ c = extra(pad) /\ pad = call.pad + top_foot_size
            /\ segs' = [segs EXCEPT ![sp] = segment(@.base, @.size - c, @.flags, @.rec)]
      BY <1>2, <2>2 DEF TrimTop, segment_holding
    <3>2. PICK g : g = segment(segs[sp].base, segs[sp].size - c, segs[sp].flags, segs[sp].rec)
      OBVIOUS
    <3>3. \E k \in Int : c = k * granularity
      <4>1. pad \in Int /\ topsize \in Int /\ granularity \in Int /\ granularity > 0
        <5>1. call.pad \in Int /\ top_foot_size \in Int
          BY TypeParts, FrameFields, Constants DEF CallType
        <5> QED
          BY <3>1, <5>1, TypeParts DEF HeapType, ConfigType, is_power_of_two
      <4>2. (topsize - pad + granularity - 1) \div granularity - 1 \in Int
        BY <4>1
      <4> QED
        BY <3>1, <4>2 DEF extra
    <3>4. CutFrom(g, segs[sp])
      BY <3>1, <3>2, <3>3 DEF CutFrom, segment
    <3>5. segs' = [segs EXCEPT ![sp] = g]
      BY <3>1, <3>2
    <3>6. /\ g \in Segs' /\ segs[sp] \in Segs
          /\ \A x \in Segs' : x = g \/ x \in Segs
          /\ \A x \in Segs : x = segs[sp] \/ x \in Segs'
      BY <1>1, <3>1, <3>5, OneReplaced
    <3>7. Shrunk(Segs, Segs')
      BY <3>4, <3>6 DEF Shrunk
    <3> QED
      BY <1>2, <3>7 DEF TrimTop
  <2> QED
    BY <2>1, <2>2
<1>3. CASE SegmentReleased
  <2>1. PICK i, s, p : Visits(i, s, p)
    BY <1>3 DEF SegmentReleased, Visits
  <2>2. /\ pc = "release" /\ i = call.sp /\ s = segs[i] /\ ~ EXTERN(s.flags) /\ externs' = externs
        /\ segs' = SubSeq(segs, 1, i - 1) \o SubSeq(segs, i + 1, Len(segs))
        /\ UNCHANGED least_addr
    BY <1>3, <2>1 DEF SegmentReleased, Visits, Unused
  <2>3. i >= 2 /\ i \in DOMAIN segs /\ s \in Segs
    BY <2>1, <2>2, VisitFacts
  <2>4. Mapped(Segs)
    BY <1>1, SoundHeap DEF HeapSound
  <2>5. Without(Segs', Segs, s)
    BY <1>1, <2>2, <2>3, <2>4, RemovedSegs
  <2>6. Dropped(Segs, Segs')
    BY <2>2, <2>3, <2>5 DEF Dropped, Without
  <2> QED
    BY <2>2, <2>6
<1> QED
  BY <1>2, <1>3 DEF Releases

\* No other step touches the segments, and none but a setter the granularity.
LEMMA OtherSegs ==
  ASSUME [Next]_vars, ~ Grows, ~ Releases, Usable'
  PROVE  /\ UNCHANGED <<segs, externs, footprint>>
         /\ ~ SetGranularity => UNCHANGED granularity
<1>1. CASE Call \/ Configure
  BY <1>1 DEF Call, Configure, SetGranularity, SetMaxReleaseCheckRate, system, config
<1>2. CASE Malloc \/ SysAlloc
  BY <1>2 DEF Malloc, MallocExactBin, MallocHigherBin, MallocSmallFromTree, MallocLargeFromTree,
     MallocDv, MallocTop, MallocRefused, FromBinsFrame, SysAlloc, SysAllocFails, Grows, system, config
<1>3. CASE Rest
  BY <1>3 DEF Rest, Releases, MemalignLead, MemalignTail, ReallocShrink, ReallocIntoTop,
     ReallocIntoDv, ReallocIntoNext, ReallocMoves, Resized, FreeIntoTop, FreeIntoDv, FreeIntoBin,
     TrimDeclined, SegmentStays, SegmentRefused, ReleaseDone, system, config
<1>4. CASE Destroy
  BY <1>4 DEF Destroy, Usable
<1>5. CASE Gone \/ UNCHANGED vars
  BY <1>5 DEF Gone, vars, system, config
<1> QED
  BY <1>1, <1>2, <1>3, <1>4, <1>5 DEF Next

-----------------------------------------------------------------------------
(* Memory in whole pages                                                       *)

Whole(P, x) == \E k \in Int : x = k * P

\* Whatever the allocator asks the system for, and whatever more it gets, is whole
\* pages of at least half a kilobyte.
WholePages(P) ==
  /\ P \in Nat /\ P >= 512 /\ Whole(P, DEFAULT_GRANULARITY)
  /\ \A g \in Granularities : Accepted(g) => Whole(P, g)
  /\ \A e \in OSSurplus : Whole(P, e)

PagesInv(P) == Whole(P, granularity) /\ \A s \in Segs : Whole(P, s.size)

\* Whole pages more or less, and a multiple of whole pages, are whole pages.
LEMMA WholeSum ==
  ASSUME NEW P \in Nat, NEW x \in Int, NEW y \in Int, Whole(P, x), Whole(P, y)
  PROVE  Whole(P, x + y) /\ Whole(P, x - y)
<1>1. PICK j \in Int : x = j * P
  BY DEF Whole
<1>2. PICK k \in Int : y = k * P
  BY DEF Whole
<1>3. x + y = (j + k) * P /\ x - y = (j - k) * P /\ j + k \in Int /\ j - k \in Int
  BY <1>1, <1>2
<1> QED
  BY <1>3 DEF Whole

Product(y, q, x) == y = q * x
\* A multiple of whole pages is whole pages.
LEMMA WholeTimes ==
  ASSUME NEW P \in Nat, NEW q \in Int, NEW x \in Int, Whole(P, x), NEW y, Product(y, q, x)
  PROVE  Whole(P, y) /\ y \in Int
<1>1. PICK j \in Int : x = j * P
  BY DEF Whole
<1>2. q * x = (q * j) * P /\ q * j \in Int
  BY <1>1
<1> QED
  BY <1>2 DEF Whole, Product

\* A positive number of whole pages is at least one.
LEMMA WholePage ==
  ASSUME NEW P \in Nat, P >= 512, NEW x \in Int, x > 0, Whole(P, x)
  PROVE  x >= P
<1>1. PICK j \in Int : x = j * P
  BY DEF Whole
<1>2. (j - 1) * P >= 0 /\ (j - 1) * P = j * P - P
  BY <1>1, Factors
<1> QED
  BY <1>1, <1>2

\* Segments are made of whole pages.
LEMMA PagesStep ==
  ASSUME TypeOK, IInv, NEW P, WholePages(P), PagesInv(P), [Next]_vars, Usable, Usable'
  PROVE  PagesInv(P)'
<1>1. /\ HeapInv /\ granularity \in Nat /\ granularity > 0 /\ P \in Nat /\ SystemType
      /\ Whole(P, granularity) /\ \A s \in Segs : Whole(P, s.size) /\ s.size \in Int
  <2>1. \A s \in Segs : s.size \in Int
    BY TypeParts, SegIn DEF Segs, Segment
  <2> QED
    BY <2>1, TypeParts DEF IInv, PagesInv, WholePages, ConfigType, is_power_of_two
<1>2. CASE Grows
  <2>1. PICK r \in Regions : OneGrown(Segs, Segs', r) \/ Added(Segs, Segs', r)
    BY <1>1, <1>2, GrowSegs
  <2>2. Whole(P, r.size) /\ r.size \in Int
    <3>1. PICK e \in OSSurplus : r.size = asize + e
      BY DEF Regions
    <3>2. nb + top_foot_size + malloc_alignment \in Int
      <4>1. pc = "malloc"
        BY <1>2 DEF Grows, SysAllocInit, SysAllocExtend, SysAllocPrepend, SysAllocAddSegment,
           NeedsSystem, NotFromBins
      <4>2. nb \in Int
        BY <1>1, <4>1, TypeParts, NbIs DEF HeapInv
      <4> QED
        BY <4>2, Constants
    <3>3. PICK q \in Int : asize = q * granularity
      <4>1. PICK a \in Int : a = nb + top_foot_size + malloc_alignment
        BY <3>2
      <4>2. (a + granularity - 1) \div granularity \in Int
        BY <1>1, <4>1
      <4>3. asize = ((a + granularity - 1) \div granularity) * granularity
        BY <4>1 DEF asize, align_up
      <4> QED
        BY <4>2, <4>3
    <3>4. Whole(P, asize) /\ asize \in Int
      <4>1. PICK y : y = asize
        OBVIOUS
      <4>2. Whole(P, y) /\ y \in Int
        <5>1. Product(y, q, granularity)
          BY <3>3, <4>1 DEF Product
        <5> QED
          BY <1>1, <5>1, WholeTimes
      <4> QED
        BY <4>1, <4>2
    <3>5. e \in Int /\ Whole(P, e)
      BY ConfigAssumption DEF WholePages
    <3> QED
      BY <1>1, <3>1, <3>4, <3>5, WholeSum
  <2>3. granularity' = granularity
    BY <1>2 DEF Grows, SysAllocInit, SysAllocExtend, SysAllocPrepend, SysAllocAddSegment, config
  <2>4. ASSUME NEW x \in Segs' PROVE Whole(P, x.size)
    <3>1. CASE OneGrown(Segs, Segs', r)
      <4>1. PICK y \in Segs, z \in Segs' : JoinedTo(z, y, r) /\ (x = z \/ x \in Segs)
        BY <3>1 DEF OneGrown
      <4>2. z.size = y.size + r.size
        BY <4>1 DEF JoinedTo
      <4> QED
        BY <1>1, <2>2, <4>1, <4>2, WholeSum
    <3>2. CASE Added(Segs, Segs', r)
      BY <1>1, <2>2, <3>2 DEF Added, NewFrom, Like
    <3> QED
      BY <2>1, <3>1, <3>2
  <2> QED
    BY <1>1, <2>3, <2>4 DEF PagesInv
<1>3. CASE Releases
  <2>1. Segs' = Segs \/ Shrunk(Segs, Segs') \/ Dropped(Segs, Segs')
    BY <1>1, <1>3, ReleaseSegs
  <2>2. granularity' = granularity
    BY <1>3 DEF Releases, TrimTop, SegmentReleased, config
  <2>3. ASSUME NEW x \in Segs' PROVE Whole(P, x.size)
    <3>1. CASE Shrunk(Segs, Segs')
      <4>1. PICK y \in Segs, z \in Segs' : CutFrom(z, y) /\ (x = z \/ x \in Segs)
        BY <3>1 DEF Shrunk
      <4>2. PICK c \in Int : z.size = y.size - c * granularity
        BY <4>1 DEF CutFrom
      <4>3. PICK w : w = c * granularity
        OBVIOUS
      <4>4. Whole(P, w) /\ w \in Int
        <5>1. Product(w, c, granularity)
          BY <4>3 DEF Product
        <5> QED
          BY <1>1, <5>1, WholeTimes
      <4> QED
        BY <1>1, <4>1, <4>2, <4>3, <4>4, WholeSum
    <3>2. CASE Segs' = Segs \/ Dropped(Segs, Segs')
      BY <1>1, <3>2 DEF Dropped
    <3> QED
      BY <2>1, <3>1, <3>2
  <2> QED
    BY <1>1, <2>2, <2>3 DEF PagesInv
<1>4. CASE ~ Grows /\ ~ Releases
  <2>1. segs' = segs /\ (~ SetGranularity => granularity' = granularity)
    BY <1>4, OtherSegs
  <2>2. SetGranularity => Whole(P, granularity')
    BY DEF SetGranularity, WholePages
  <2>3. Segs' = Segs
    BY <2>1 DEF Segs
  <2> QED
    BY <1>1, <2>1, <2>2, <2>3 DEF PagesInv
<1> QED
  BY <1>2, <1>3, <1>4

\* The first chunk of a segment that nothing uses is a large one.
LEMMA VisitsLarge ==
  ASSUME TypeOK, HeapInv, pc = "release", NEW P, WholePages(P), PagesInv(P),
         NEW i, NEW s, NEW p, Visits(i, s, p)
  PROVE  ~ is_small(SizeOf(p))
<1>1. /\ s \in Segs /\ s \in Segment /\ p \in Int /\ p = FirstChunk(s) /\ SizeOf(p) = mem[p].size
      /\ p \in DOMAIN mem /\ HeapSound
      /\ End(mem, p) + top_foot_size >= segment_top(s)
  BY VisitFacts
<1>2. Mapped(Segs) /\ Heap(mem, Segs, top)
  BY <1>1, SoundHeap DEF HeapSound
<1>3. mem[p].size \in Int /\ End(mem, p) = p + mem[p].size
  BY <1>1, <1>2, ChunkFacts
<1>4. /\ s.base \in Int /\ s.size \in Int /\ segment_top(s) = s.base + s.size
      /\ s.base <= p /\ p < s.base + malloc_alignment
  <2>1. s.base \in Int /\ s.size \in Int /\ segment_top(s) = s.base + s.size
    BY <1>1 DEF Segment, segment_top
  <2>2. s.base <= align_as_chunk(s.base) /\ align_as_chunk(s.base) < s.base + malloc_alignment
    BY <2>1, AsChunk
  <2> QED
    BY <1>1, <2>1, <2>2 DEF FirstChunk
<1>5. s.size >= 512
  <2>1. p < s.base + s.size
    BY <1>1, <1>2, <1>4 DEF Mapped
  <2>2. s.size > 0
    BY <1>1, <1>4, <2>1
  <2>3. P \in Nat /\ P >= 512 /\ Whole(P, s.size)
    BY <1>1 DEF WholePages, PagesInv
  <2>4. s.size >= P
    BY <1>4, <2>2, <2>3, WholePage
  <2> QED
    BY <1>4, <2>3, <2>4
<1>6. mem[p].size >= 256
  <2>1. mem[p].size + top_foot_size + malloc_alignment >= 512
    BY <1>1, <1>3, <1>4, <1>5, Constants
  <2> QED
    BY <1>3, <2>1, Constants
<1> QED
  BY <1>1, <1>3, <1>6 DEF is_small, small_index, SMALLBIN_SHIFT, NSMALLBINS

\* So the tree bins are never asked for a small chunk, which is the only way a call
\* ends in undefined behaviour.
LEMMA NeverCorrupt ==
  ASSUME TypeOK, HeapInv, Usable, [Next]_vars, NEW P, WholePages(P), PagesInv(P)
  PROVE  pc' # "corrupt"
<1>1. pc # "corrupt"
  BY DEF Usable
<1>2. CASE Call \/ Configure \/ Destroy
  BY <1>1, <1>2 DEF Call, Allocate, Free, Realloc, Trim, Configure, SetGranularity,
     SetMaxReleaseCheckRate, Destroy
<1>3. CASE Malloc
  <2>1. (\E p : Return(p)) \/ Finish(NULL)
    BY <1>3 DEF Malloc, MallocExactBin, MallocHigherBin, MallocSmallFromTree,
       MallocLargeFromTree, MallocDv, MallocTop, MallocRefused, TakeFromTop
  <2> QED
    BY <2>1 DEF Return, Finish, Idle
<1>4. CASE SysAlloc
  <2>1. (\E p : Return(p)) \/ Finish(NULL)
    BY <1>4 DEF SysAlloc, SysAllocFails, SysAllocInit, SysAllocExtend, SysAllocPrepend,
       SysAllocAddSegment, TakeFromTop
  <2> QED
    BY <2>1 DEF Return, Finish, Idle
<1>5. CASE MemalignLead \/ MemalignTail \/ ReallocShrink \/ ReallocIntoTop \/ ReallocIntoDv
           \/ ReallocIntoNext \/ ReallocMoves
  BY <1>5 DEF MemalignLead, MemalignTail, ReallocShrink, ReallocIntoTop, ReallocIntoDv,
     ReallocIntoNext, ReallocMoves, Resized, Finish, Idle
<1>6. CASE FreeIntoTop \/ FreeIntoDv \/ FreeIntoBin \/ TrimDeclined \/ TrimTop \/ SegmentStays
           \/ ReleaseDone
  BY <1>1, <1>6 DEF FreeIntoTop, FreeIntoDv, FreeIntoBin, TrimDeclined, TrimTop, SegmentStays,
     ReleaseDone, Scan, Idle
<1>7. CASE SegmentReleased \/ SegmentRefused
  <2>1. PICK i, s, p : Visits(i, s, p) /\ i = call.sp
    BY <1>7 DEF SegmentReleased, SegmentRefused, Visits
  <2>2. pc = "release" /\ ~ is_small(SizeOf(p))
    BY <1>7, <2>1, VisitsLarge DEF SegmentReleased, SegmentRefused
  <2>3. UNCHANGED pc \/ InTree(p)
    BY <1>7, <2>1 DEF SegmentReleased, SegmentRefused, Visits
  <2> QED
    BY <1>1, <2>2, <2>3 DEF InTree
<1>8. CASE Gone \/ UNCHANGED vars
  BY <1>1, <1>8 DEF Gone, vars
<1> QED
  BY <1>2, <1>3, <1>4, <1>5, <1>6, <1>7, <1>8 DEF Next, Rest

\* Segments are apart, and each but the newest holds its own record.
LEMMA SegmentsPlaced == TypeOK /\ IInv => SegmentsSound
<1> SUFFICES ASSUME TypeOK, IInv, Usable PROVE SegmentsSound
  BY DEF SegmentsSound
<1>1. /\ SystemType /\ Heap(mem, Segs, top) /\ TopInv /\ SegsInv /\ HeapSound
      /\ Owners(mem, Held, Records)
  BY HeapParts DEF IInv, HeapInv
<1>2. \A i, j \in DOMAIN segs : i < j =>
         \/ segment_top(segs[i]) <= segs[j].base
         \/ segment_top(segs[j]) <= segs[i].base
  <2> SUFFICES ASSUME NEW i \in DOMAIN segs, NEW j \in DOMAIN segs, i < j PROVE Apart(segs[i], segs[j])
    BY DEF Apart
  <2>1. i # j
    BY <1>1, SegIn
  <2> QED
    BY <1>1, <2>1 DEF SegsInv
<1>3. top # NULL => holds(segs[1], top) /\ segs[1].rec = NULL
  BY <1>1, TopRoom
<1>4. ASSUME NEW i \in DOMAIN segs \ {1}
      PROVE  /\ holds(segs[i], segs[i].rec)
             /\ HeaderAt(mem, from_mem(segs[i].rec)).size = segment_record_size
             /\ segs[i].rec % malloc_alignment = 0
  <2>1. PICK s \in Segment : s = segs[i]
    BY <1>1, SegIn
  <2>2. PICK c \in Int : c = from_mem(s.rec) /\ s.rec = c + mem_offset /\ c = Record(i)
    BY <2>1, ToFrom DEF Segment, to_mem, Record
  <2>3. s.base <= c /\ c + segment_record_size < segment_top(s)
    BY <1>1, <2>1, <2>2 DEF SegsInv
  <2>4. s.base \in Int /\ segment_top(s) \in Int
    BY FirstChunkFacts
  <2>5. holds(s, s.rec)
    <3> HIDE DEF segment_top, segment_record_size, mem_offset
    <3>1. mem_offset \in Int /\ mem_offset > 0 /\ mem_offset < segment_record_size /\ segment_record_size \in Int
      BY Constants DEF mem_offset
    <3> QED
      BY <2>2, <2>3, <2>4, <3>1 DEF holds
  <2>6. c \in DOMAIN mem /\ mem[c].cinuse /\ mem[c].size = segment_record_size
    <3>1. c \in Records
      BY <2>2 DEF Records
    <3> QED
      BY <1>1, <3>1 DEF Owners, UsedOf
  <2>7. Aligned(c)
    <3>1. ~ Fence(mem, c)
      BY <2>6, Constants DEF Fence
    <3> QED
      BY <1>1, <2>6, <3>1 DEF Heap, Shaped
  <2>8. s.rec % malloc_alignment = 0
    BY <2>2, <2>7, WordAssumption DEF Aligned, malloc_alignment, mem_offset
  <2> QED
    BY <2>1, <2>2, <2>5, <2>6, <2>8 DEF HeaderAt
<1>5. \A s \in Segs : s.base >= least_addr
  BY <1>1 DEF SegsInv, Segs
<1> QED
  BY <1>2, <1>3, <1>4, <1>5 DEF SegmentsSound

-----------------------------------------------------------------------------
(* EXTERN regions                                                              *)

\* What a step keeps of EXTERN.
KeepsExtern ==
  Usable /\ Usable' =>
    /\ \A s \in Segs : EXTERN(s.flags) => IsSegment(s, Segs')
    /\ \A e \in externs' \ externs :
         IsSegment(e, Segs') \/ \E s \in Segs : LooksExtern(s) /\ NextTo(e, s)

\* A segment flagged EXTERN stays as it is, and a region that is flagged so becomes
\* one, or joins a segment whose own flags look like it.
LEMMA ExternStep ==
  ASSUME TypeOK, IInv, [Next]_vars
  PROVE  KeepsExtern
<1> SUFFICES ASSUME Usable, Usable'
             PROVE  /\ \A s \in Segs : EXTERN(s.flags) => IsSegment(s, Segs')
                    /\ \A e \in externs' \ externs :
                         IsSegment(e, Segs') \/ \E s \in Segs : LooksExtern(s) /\ NextTo(e, s)
  BY DEF KeepsExtern
<1>1. HeapInv
  BY DEF IInv
<1>2. ASSUME NEW s \in Segs, EXTERN(s.flags), s \in Segs' PROVE IsSegment(s, Segs')
  BY <1>2 DEF IsSegment
<1>3. CASE Grows
  <2>1. PICK r \in Regions : Obtained(r) /\ (OneGrown(Segs, Segs', r) \/ Added(Segs, Segs', r))
    BY <1>1, <1>3, GrowSegs
  <2>2. \A e \in externs' \ externs : EXTERN(r.flags) /\ e.base = r.base /\ e.size = r.size
    BY <2>1 DEF Obtained
  <2>3. CASE OneGrown(Segs, Segs', r)
    <3>1. PICK y \in Segs, z \in Segs' : JoinedTo(z, y, r) /\ \A x \in Segs : x = y \/ x \in Segs'
      BY <2>3 DEF OneGrown
    <3>2. ~ EXTERN(y.flags) /\ sys_flags(y) = r.flags
      BY <3>1 DEF JoinedTo
    <3>3. \A s \in Segs : EXTERN(s.flags) => IsSegment(s, Segs')
      BY <1>2, <3>1, <3>2
    <3>4. ASSUME NEW e \in externs' \ externs PROVE LooksExtern(y) /\ NextTo(e, y)
      <4>1. LooksExtern(y)
        BY <2>2, <3>2 DEF LooksExtern
      <4>2. segment_top(y) = r.base \/ segment_top(r) = y.base
        BY <3>1 DEF JoinedTo
      <4>3. e.base = r.base /\ e.size = r.size
        BY <2>2
      <4> QED
        BY <4>1, <4>2, <4>3 DEF NextTo, segment_top
    <3> QED
      BY <3>3, <3>4
  <2>4. CASE Added(Segs, Segs', r)
    <3>1. ASSUME NEW s \in Segs, EXTERN(s.flags) PROVE IsSegment(s, Segs')
      <4>1. PICK x \in Segs' : Like(x, s)
        BY <2>4 DEF Added
      <4> QED
        BY <3>1, <4>1 DEF Like, IsSegment
    <3>2. ASSUME NEW e \in externs' \ externs PROVE IsSegment(e, Segs')
      <4>1. PICK x \in Segs' : NewFrom(x, r)
        BY <2>4 DEF Added
      <4> QED
        BY <2>2, <4>1 DEF NewFrom, IsSegment
    <3> QED
      BY <3>1, <3>2
  <2> QED
    BY <2>1, <2>3, <2>4
<1>4. CASE Releases
  <2>1. externs' = externs /\ (Segs' = Segs \/ Shrunk(Segs, Segs') \/ Dropped(Segs, Segs'))
    BY <1>1, <1>4, ReleaseSegs
  <2>2. ASSUME NEW s \in Segs, EXTERN(s.flags) PROVE s \in Segs'
    <3>1. CASE Shrunk(Segs, Segs')
      <4>1. PICK y \in Segs, z \in Segs' : CutFrom(z, y) /\ \A x \in Segs : x = y \/ x \in Segs'
        BY <3>1 DEF Shrunk
      <4> QED
        BY <2>2, <4>1 DEF CutFrom
    <3>2. CASE Dropped(Segs, Segs')
      BY <2>2, <3>2 DEF Dropped
    <3> QED
      BY <2>1, <3>1, <3>2
  <2> QED
    BY <1>2, <2>1, <2>2
<1>5. CASE ~ Grows /\ ~ Releases
  <2>1. segs' = segs /\ externs' = externs
    BY <1>5, OtherSegs
  <2>2. Segs' = Segs
    BY <2>1 DEF Segs
  <2> QED
    BY <1>2, <2>1, <2>2
<1> QED
  BY <1>3, <1>4, <1>5

-----------------------------------------------------------------------------
(* What the segments add up to                                                 *)

\* A nonempty set of natural numbers has a least element.
LEMMA LeastNat ==
  ASSUME NEW T \in SUBSET Nat, T # {}
  PROVE  \E m \in T : \A k \in T : m <= k
<1>1. PICK R : R = OpToRel(<, Nat)
  OBVIOUS
<1>2. IsWellFoundedOn(R, Nat)
  BY <1>1, NatLessThanWellFounded, Zenon
<1>3. PICK m \in T : \A k \in T : ~ (<<k, m>> \in R)
  BY <1>2, WFMin, Zenon
<1>4. \A k, n \in Nat : k < n => <<k, n>> \in R
  BY <1>1 DEF OpToRel
<1>5. \A k \in T : m <= k
  <2> TAKE k \in T
  <2>1. k \in Nat /\ m \in Nat
    OBVIOUS
  <2>2. ~ (k < m)
    BY <1>3, <1>4, <2>1
  <2> QED
    BY <2>1, <2>2
<1> QED
  BY <1>5

\* A set that holds 0, and each number up to n whose predecessor it holds, holds all of them.
LEMMA Upward ==
  ASSUME NEW n \in Nat, NEW T, 0 \in T, \A i \in 1..n : i - 1 \in T => i \in T
  PROVE  \A i \in 0..n : i \in T
<1> DEFINE F == {i \in 0..n : i \notin T}
<1>1. SUFFICES ASSUME F # {} PROVE FALSE
  OBVIOUS
<1>2. PICK m \in F : \A k \in F : m <= k
  <2>1. F \in SUBSET Nat
    OBVIOUS
  <2> HIDE DEF F
  <2> QED
    BY <1>1, <2>1, LeastNat
<1>3. m \in 0..n /\ m \notin T
  BY <1>2
<1>4. m \in 1..n
  BY <1>3
<1>5. m - 1 \in 0..n /\ ~ (m <= m - 1)
  BY <1>4
<1>6. m - 1 \in T
  BY <1>2, <1>5
<1> QED
  BY <1>3, <1>4, <1>6

\* The sums of the sizes of the first segments of a list, up to the n-th.
IsSum(f, list, n) == f = [i \in 0..n |-> IF i = 0 THEN 0 ELSE f[i - 1] + list[i].size]
Sized(list, n) == \A i \in 1..n : list[i].size \in Int

\* They exist, one more at a time.
LEMMA PrefixSums ==
  ASSUME NEW list, NEW n \in Nat
  PROVE  \E f : IsSum(f, list, n)
<1> DEFINE T == {k \in Nat : \E f : IsSum(f, list, k)}
<1>1. 0 \in T
  <2>1. IsSum([i \in 0..0 |-> 0], list, 0)
    BY DEF IsSum
  <2> QED
    BY <2>1
<1>2. ASSUME NEW m \in 1..n, m - 1 \in T PROVE m \in T
  <2>1. PICK f : IsSum(f, list, m - 1)
    BY <1>2
  <2>2. PICK g : g = [i \in 0..m |-> IF i = m THEN f[m - 1] + list[m].size ELSE f[i]]
    OBVIOUS
  <2>3. \A i \in 0..(m - 1) : f[i] = IF i = 0 THEN 0 ELSE f[i - 1] + list[i].size
    BY <2>1 DEF IsSum
  <2>4. \A i \in 0..m : g[i] = IF i = 0 THEN 0 ELSE g[i - 1] + list[i].size
    BY <2>2, <2>3
  <2>5. IsSum(g, list, m)
    BY <2>2, <2>4 DEF IsSum
  <2> QED
    BY <2>5
<1> HIDE DEF T
<1>3. n \in T
  BY <1>1, <1>2, Upward
<1> QED
  BY <1>3 DEF T

\* What the model adds up is the last of them.
LEMMA HeldIs ==
  ASSUME NEW list, Len(list) \in Nat
  PROVE  \E f : IsSum(f, list, Len(list)) /\ held(list) = f[Len(list)]
BY PrefixSums DEF held, IsSum

\* The equation of the sums, one at a time.
LEMMA SumStep ==
  ASSUME NEW list, NEW n \in Nat, NEW f, IsSum(f, list, n)
  PROVE  f[0] = 0 /\ \A i \in 1..n : f[i] = f[i - 1] + list[i].size
BY DEF IsSum

\* Sums of integers are integers.
LEMMA SumInt ==
  ASSUME NEW list, NEW n \in Nat, NEW f, IsSum(f, list, n), Sized(list, n)
  PROVE  \A i \in 0..n : f[i] \in Int
<1> DEFINE T == {i \in 0..n : f[i] \in Int}
<1>1. 0 \in T
  BY SumStep
<1>2. \A i \in 1..n : i - 1 \in T => i \in T
  BY SumStep DEF Sized
<1> HIDE DEF T
<1>3. \A i \in 0..n : i \in T
  BY <1>1, <1>2, Upward
<1> QED
  BY <1>3 DEF T

\* A list in which the k-th segment is d longer sums up to d more.
LEMMA HeldGrown ==
  ASSUME NEW S, NEW T, NEW n \in Nat, Len(S) = n, Len(T) = n, Sized(S, n), NEW k \in 1..n, NEW d \in Int,
         T[k].size = S[k].size + d, \A i \in 1..n : i # k => T[i].size = S[i].size
  PROVE  held(T) = held(S) + d
<1>1. PICK f : IsSum(f, S, n) /\ held(S) = f[n]
  BY HeldIs
<1>2. PICK g : IsSum(g, T, n) /\ held(T) = g[n]
  BY HeldIs
<1> DEFINE A == {i \in 0..n : g[i] = f[i] + (IF i < k THEN 0 ELSE d)}
<1>3. \A i \in 0..n : f[i] \in Int
  BY <1>1, SumInt
<1>4. \A i \in 1..n : f[i] = f[i - 1] + S[i].size /\ g[i] = g[i - 1] + T[i].size
  BY <1>1, <1>2, SumStep
<1>5. 0 \in A
  BY <1>1, <1>2, SumStep
<1>6. ASSUME NEW i \in 1..n, i - 1 \in A PROVE i \in A
  <2>1. f[i - 1] \in Int /\ S[i].size \in Int
    BY <1>3 DEF Sized
  <2>2. g[i - 1] = f[i - 1] + (IF i - 1 < k THEN 0 ELSE d)
    BY <1>6
  <2>3. CASE i = k
    BY <1>4, <2>1, <2>2, <2>3
  <2>4. CASE i # k
    BY <1>4, <2>1, <2>2, <2>4
  <2> QED
    BY <2>3, <2>4
<1> HIDE DEF A
<1>7. \A i \in 0..n : i \in A
  BY <1>5, <1>6, Upward
<1> QED
  BY <1>1, <1>2, <1>7 DEF A

\* A list with one more segment in front sums up to that much more.
LEMMA HeldPushed ==
  ASSUME NEW S, NEW T, NEW n \in Nat, Len(S) = n, Len(T) = n + 1, Sized(S, n), T[1].size \in Int,
         \A i \in 1..n : T[i + 1].size = S[i].size
  PROVE  held(T) = held(S) + T[1].size
<1>1. PICK f : IsSum(f, S, n) /\ held(S) = f[n]
  BY HeldIs
<1>2. PICK g : IsSum(g, T, n + 1) /\ held(T) = g[n + 1]
  BY HeldIs
<1> DEFINE A == {i \in 0..n : g[i + 1] = f[i] + T[1].size}
<1>3. \A i \in 0..n : f[i] \in Int
  BY <1>1, SumInt
<1>4. /\ f[0] = 0 /\ g[0] = 0
      /\ \A i \in 1..n : f[i] = f[i - 1] + S[i].size
      /\ \A i \in 1..(n + 1) : g[i] = g[i - 1] + T[i].size
  <2>1. n + 1 \in Nat
    OBVIOUS
  <2> QED
    BY <1>1, <1>2, <2>1, SumStep
<1>5. 0 \in A
  <2>1. g[1] = g[1 - 1] + T[1].size
    BY <1>4
  <2> QED
    BY <1>4, <2>1
<1>6. ASSUME NEW i \in 1..n, i - 1 \in A PROVE i \in A
  <2>1. f[i - 1] \in Int /\ S[i].size \in Int
    BY <1>3 DEF Sized
  <2>2. g[i] = f[i - 1] + T[1].size
    BY <1>6
  <2>3. g[i + 1] = g[i] + S[i].size
    BY <1>4
  <2>4. f[i] = f[i - 1] + S[i].size
    BY <1>4
  <2> QED
    BY <2>1, <2>2, <2>3, <2>4
<1> HIDE DEF A
<1>7. \A i \in 0..n : i \in A
  BY <1>5, <1>6, Upward
<1> QED
  BY <1>1, <1>2, <1>7 DEF A

\* A list without its k-th segment sums up to that much less.
LEMMA HeldRemoved ==
  ASSUME NEW S, NEW T, NEW n \in Nat, Len(S) = n, Len(T) = n - 1, Sized(S, n), NEW k \in 1..n,
         \A i \in 1..(n - 1) : T[i].size = (IF i < k THEN S[i] ELSE S[i + 1]).size
  PROVE  held(T) = held(S) - S[k].size
<1>1. PICK f : IsSum(f, S, n) /\ held(S) = f[n]
  BY HeldIs
<1>2. PICK g : IsSum(g, T, n - 1) /\ held(T) = g[n - 1]
  BY HeldIs
<1> DEFINE A == {i \in 0..(n - 1) : g[i] = IF i < k THEN f[i] ELSE f[i + 1] - S[k].size}
<1>3. /\ \A i \in 0..n : f[i] \in Int
      /\ \A i \in 1..n : S[i].size \in Int
  BY <1>1, SumInt DEF Sized
<1>4. /\ f[0] = 0 /\ g[0] = 0
      /\ \A i \in 1..n : f[i] = f[i - 1] + S[i].size
      /\ \A i \in 1..(n - 1) : g[i] = g[i - 1] + T[i].size
  <2>1. n - 1 \in Nat
    OBVIOUS
  <2> QED
    BY <1>1, <1>2, <2>1, SumStep
<1>5. 0 \in A
  BY <1>4
<1>6. ASSUME NEW i \in 1..(n - 1), i - 1 \in A PROVE i \in A
  <2>1. f[i - 1] \in Int /\ f[i] \in Int /\ S[i].size \in Int /\ S[i + 1].size \in Int /\ S[k].size \in Int
    BY <1>3
  <2>2. g[i] = g[i - 1] + T[i].size /\ f[i] = f[i - 1] + S[i].size /\ f[i + 1] = f[i] + S[i + 1].size
    BY <1>4
  <2>3. CASE i < k
    BY <1>6, <2>1, <2>2, <2>3
  <2>4. CASE i = k
    BY <1>6, <2>1, <2>2, <2>4
  <2>5. CASE i > k
    BY <1>6, <2>1, <2>2, <2>5
  <2> QED
    BY <2>3, <2>4, <2>5
<1> HIDE DEF A
<1>7. \A i \in 0..(n - 1) : i \in A
  <2>1. n - 1 \in Nat
    OBVIOUS
  <2> QED
    BY <1>5, <1>6, <2>1, Upward
<1> QED
  BY <1>1, <1>2, <1>3, <1>4, <1>7 DEF A

\* The sizes of the segments are integers.
LEMMA SegmentsSized ==
  ASSUME SystemType
  PROVE  Len(segs) \in Nat /\ DOMAIN segs = 1..Len(segs) /\ Sized(segs, Len(segs))
<1>1. /\ Len(segs) \in Nat /\ DOMAIN segs = 1..Len(segs)
      /\ \A i \in 1..Len(segs) : segs[i] \in Segment
  BY DEF SystemType
<1>2. \A i \in 1..Len(segs) : segs[i].size \in Int
  BY <1>1 DEF Segment
<1> QED
  BY <1>1, <1>2 DEF Sized

\* A region is counted once when it becomes a segment or joins one.
LEMMA FootprintGrows ==
  ASSUME TypeOK, HeapInv, Grows, footprint = held(segs)
  PROVE  footprint' = held(segs')
<1> DEFINE n == Len(segs)
<1>1. /\ SystemType /\ SystemType' /\ TopInv /\ n \in Nat /\ DOMAIN segs = 1..n /\ Sized(segs, n)
      /\ HeapSound
  BY NextType, TypeParts, TypePartsPrime, SegmentsSized DEF Next, SysAlloc, Grows, HeapInv
<1>2. \A r \in Regions : r.size \in Int /\ (Obtained(r) => footprint' = footprint + r.size)
  <2> SUFFICES ASSUME NEW r \in Regions PROVE r.size \in Int
    BY DEF Obtained
  <2>1. pc = "malloc"
    BY DEF Grows, SysAllocInit, SysAllocExtend, SysAllocPrepend, SysAllocAddSegment,
       NeedsSystem, NotFromBins
  <2>2. PICK g : g = segment(r.base, r.size, r.flags, NULL)
    OBVIOUS
  <2> QED
    BY <2>1, <2>2, RegionFacts
<1>3. CASE SysAllocInit
  <2>1. PICK r \in Regions : Obtained(r) /\ segs' = << segment(r.base, r.size, r.flags, NULL) >> /\ top = NULL
    BY <1>3 DEF SysAllocInit
  <2>2. n = 0
    BY <1>1, <2>1 DEF TopInv
  <2>3. PICK g : g = segment(r.base, r.size, r.flags, NULL)
    OBVIOUS
  <2>4. g.size = r.size /\ segs' = <<g>>
    BY <2>1, <2>3 DEF segment
  <2>5. Len(segs') = n + 1 /\ segs'[1].size = r.size /\ r.size \in Int
    BY <1>2, <2>2, <2>4
  <2>6. \A i \in 1..n : segs'[i + 1].size = segs[i].size
    BY <2>2
  <2>7. held(segs') = held(segs) + segs'[1].size
    <3> HIDE DEF n
    <3> QED
      BY <1>1, <2>5, <2>6, HeldPushed DEF n
  <2> QED
    BY <1>2, <2>1, <2>5, <2>7
<1>4. ASSUME NEW r \in Regions, Obtained(r), NEW i \in DOMAIN segs, NEW g,
             g.size = segs[i].size + r.size, segs' = [segs EXCEPT ![i] = g]
      PROVE  footprint' = held(segs')
  <2>1. Len(segs') = n /\ segs'[i] = g /\ \A j \in 1..n : j # i => segs'[j] = segs[j]
    BY <1>1, <1>4 DEF SystemType
  <2>2. i \in 1..n /\ r.size \in Int /\ segs'[i].size = segs[i].size + r.size
    BY <1>1, <1>2, <1>4, <2>1
  <2>3. held(segs') = held(segs) + r.size
    <3>1. \A j \in 1..n : j # i => segs'[j].size = segs[j].size
      BY <2>1
    <3> HIDE DEF n
    <3> QED
      BY <1>1, <2>1, <2>2, <3>1, HeldGrown DEF n
  <2> QED
    BY <1>2, <1>4, <2>3
<1>5. CASE SysAllocExtend
  <2>1. PICK r \in Regions : Obtained(r) /\ \E i \in ExtendedBy(r) :
            segs' = [segs EXCEPT ![i] = segment(@.base, @.size + r.size, @.flags, @.rec)]
    BY <1>5 DEF SysAllocExtend
  <2>2. PICK i \in ExtendedBy(r) :
            segs' = [segs EXCEPT ![i] = segment(@.base, @.size + r.size, @.flags, @.rec)]
    BY <2>1
  <2>3. PICK g : g = segment(segs[i].base, segs[i].size + r.size, segs[i].flags, segs[i].rec)
    OBVIOUS
  <2>4. i \in DOMAIN segs /\ g.size = segs[i].size + r.size /\ segs' = [segs EXCEPT ![i] = g]
    BY <2>2, <2>3 DEF segment, ExtendedBy
  <2> QED
    BY <1>4, <2>1, <2>4
<1>6. CASE SysAllocPrepend
  <2>1. PICK r \in Regions : \E i \in PrecededBy(r) :
            Obtained(r) /\ segs' = [segs EXCEPT ![i] = segment(r.base, @.size + r.size, @.flags, @.rec)]
    BY <1>6 DEF SysAllocPrepend
  <2>2. PICK i \in PrecededBy(r) :
            Obtained(r) /\ segs' = [segs EXCEPT ![i] = segment(r.base, @.size + r.size, @.flags, @.rec)]
    BY <2>1
  <2>3. PICK g : g = segment(r.base, segs[i].size + r.size, segs[i].flags, segs[i].rec)
    OBVIOUS
  <2>4. i \in DOMAIN segs /\ g.size = segs[i].size + r.size /\ segs' = [segs EXCEPT ![i] = g]
    BY <2>2, <2>3 DEF segment, PrecededBy
  <2> QED
    BY <1>4, <2>2, <2>4
<1>7. CASE SysAllocAddSegment
  <2>1. PICK r \in Regions, oldsp \in segment_holding(top) :
            /\ Obtained(r) /\ top # NULL /\ pc = "malloc"
            /\ segs' = << segment(r.base, r.size, r.flags, NULL) >>
                         \o [segs EXCEPT ![1] = segment(@.base, @.size, @.flags,
                                            to_mem(record_chunk(segment_top(segs[oldsp]))))]
    BY <1>7 DEF SysAllocAddSegment, NeedsSystem, NotFromBins
  <2>2. PICK rec : rec = to_mem(record_chunk(segment_top(segs[oldsp])))
    OBVIOUS
  <2>3. PICK g : g = segment(r.base, r.size, r.flags, NULL)
    OBVIOUS
  <2>4. PICK s : s = segment(segs[1].base, segs[1].size, segs[1].flags, rec)
    OBVIOUS
  <2>5. PICK L : L = [segs EXCEPT ![1] = s]
    OBVIOUS
  <2>6. segs' = << g >> \o L /\ g.size = r.size /\ s.size = segs[1].size
    BY <2>1, <2>2, <2>3, <2>4, <2>5 DEF segment
  <2>7. /\ L \in Seq({s} \cup Segment) /\ Len(L) = n
        /\ \A i \in 1..n : L[i] = IF i = 1 THEN s ELSE segs[i]
    <3>1. segs \in Seq({s} \cup Segment) /\ s \in {s} \cup Segment
      <4>1. Segment \subseteq {s} \cup Segment
        OBVIOUS
      <4> QED
        BY <1>1, <4>1, SeqMonotonic DEF SystemType
    <3>2. DOMAIN L = 1..n /\ \A i \in 1..n : L[i] = IF i = 1 THEN s ELSE segs[i]
      BY <1>1, <2>5
    <3>3. Len(segs) = n /\ 1 \in 1..n
      BY <1>1, <2>1 DEF TopInv
    <3>4. L \in Seq({s} \cup Segment) /\ Len(L) = n
      BY <2>5, <3>1, <3>3, ExceptSeq
    <3> QED
      BY <3>2, <3>4
  <2>8. /\ Len(segs') = n + 1 /\ segs'[1] = g /\ \A i \in 1..n : segs'[i + 1] = L[i]
    BY <1>1, <2>6, <2>7
  <2>9. \A i \in 1..n : segs'[i + 1].size = segs[i].size
    BY <2>6, <2>7, <2>8
  <2>10. held(segs') = held(segs) + segs'[1].size
    <3>1. segs'[1].size \in Int
      BY <1>2, <2>6, <2>8
    <3> HIDE DEF n
    <3> QED
      BY <1>1, <2>8, <2>9, <3>1, HeldPushed DEF n
  <2> QED
    BY <1>2, <2>1, <2>6, <2>8, <2>10
<1> QED
  BY <1>3, <1>5, <1>6, <1>7 DEF Grows

\* What goes back is no longer counted.
LEMMA FootprintShrinks ==
  ASSUME TypeOK, HeapInv, Releases, footprint = held(segs)
  PROVE  footprint' = held(segs')
<1> DEFINE n == Len(segs)
<1>1. /\ SystemType /\ HeapSound /\ SegsInv /\ n \in Nat /\ DOMAIN segs = 1..n /\ Sized(segs, n)
  BY TypeParts, SegmentsSized DEF HeapInv
<1>2. CASE TrimTop
  <2>1. CASE UNCHANGED <<segs, footprint>>
    BY <2>1
  <2>2. CASE ~ UNCHANGED <<segs, footprint>>
    <3>1. PICK pad, c, i :
            /\ i \in DOMAIN segs /\ c = extra(pad) /\ pad = call.pad + top_foot_size
            /\ segs' = [segs EXCEPT ![i] = segment(@.base, @.size - c, @.flags, @.rec)]
            /\ footprint' = footprint - c
      BY <1>2, <2>2 DEF TrimTop, segment_holding
    <3>2. PICK g : g = segment(segs[i].base, segs[i].size - c, segs[i].flags, segs[i].rec)
      OBVIOUS
    <3>3. g.size = segs[i].size - c /\ segs' = [segs EXCEPT ![i] = g]
      BY <3>1, <3>2 DEF segment
    <3>4. c \in Int
      <4>1. pad \in Int /\ topsize \in Int /\ granularity \in Int /\ granularity > 0
        <5>1. call.pad \in Int /\ top_foot_size \in Int
          BY TypeParts, FrameFields, Constants DEF CallType
        <5> QED
          BY <3>1, <5>1, TypeParts DEF HeapType, ConfigType, is_power_of_two
      <4>2. (topsize - pad + granularity - 1) \div granularity - 1 \in Int
        BY <4>1
      <4> QED
        BY <3>1, <4>1, <4>2 DEF extra
    <3>5. Len(segs') = n /\ segs'[i] = g /\ \A j \in 1..n : j # i => segs'[j] = segs[j]
      BY <1>1, <3>1, <3>3 DEF SystemType
    <3>6. i \in 1..n /\ segs[i].size \in Int
      BY <1>1, <3>1 DEF Sized
    <3>7. PICK d \in Int : d = 0 - c
      BY <3>4
    <3>8. segs'[i].size = segs[i].size + d
      BY <3>3, <3>4, <3>5, <3>6, <3>7
    <3>9. held(segs') = held(segs) + d
      <4>1. \A j \in 1..n : j # i => segs'[j].size = segs[j].size
        BY <3>5
      <4> HIDE DEF n
      <4> QED
        BY <1>1, <3>5, <3>6, <3>8, <4>1, HeldGrown DEF n
    <3>10. footprint \in Int
      BY <1>1 DEF SystemType
    <3> QED
      BY <3>1, <3>4, <3>7, <3>9, <3>10
  <2> QED
    BY <2>1, <2>2
<1>3. CASE SegmentReleased
  <2>1. PICK i, s, p : Visits(i, s, p)
    BY <1>3 DEF SegmentReleased, Visits
  <2>2. /\ pc = "release" /\ i = call.sp /\ s = segs[i] /\ footprint' = footprint - s.size
        /\ segs' = SubSeq(segs, 1, i - 1) \o SubSeq(segs, i + 1, Len(segs))
    BY <1>3, <2>1 DEF SegmentReleased, Visits
  <2>3. i >= 2 /\ i \in DOMAIN segs
    BY <2>1, <2>2, VisitFacts
  <2>4. DOMAIN segs' = 1..(n - 1) /\ \A j \in 1..(n - 1) : segs'[j] = IF j < i THEN segs[j] ELSE segs[j + 1]
    BY <1>1, <2>2, <2>3, RemovedList
  <2>5. Len(segs') = n - 1
    BY <1>1, <2>2, <2>3, RemovedList
  <2>6. held(segs') = held(segs) - segs[i].size
    <3>1. \A j \in 1..(n - 1) : segs'[j].size = (IF j < i THEN segs[j] ELSE segs[j + 1]).size
      BY <2>4
    <3>2. i \in 1..n
      BY <1>1, <2>3
    <3> HIDE DEF n
    <3> QED
      BY <1>1, <2>5, <3>1, <3>2, HeldRemoved DEF n
  <2> QED
    BY <2>2, <2>6
<1> QED
  BY <1>2, <1>3 DEF Releases

\* Every step keeps the count.
LEMMA FootprintStep ==
  ASSUME TypeOK, IInv, FootprintCounted, [Next]_vars
  PROVE  FootprintCounted'
<1> SUFFICES ASSUME Usable' PROVE footprint' = held(segs')
  BY DEF FootprintCounted
<1>1. HeapInv /\ footprint = held(segs)
  BY StaysGone DEF IInv, FootprintCounted
<1>2. CASE Grows
  BY <1>1, <1>2, FootprintGrows
<1>3. CASE Releases
  BY <1>1, <1>3, FootprintShrinks
<1>4. CASE ~ Grows /\ ~ Releases
  BY <1>1, <1>4, OtherSegs
<1> QED
  BY <1>2, <1>3, <1>4

\* Nothing is held at first.
LEMMA NothingHeld == Init => FootprintCounted
<1> SUFFICES ASSUME Init PROVE footprint = held(segs)
  BY DEF FootprintCounted
<1>1. segs = << >> /\ footprint = 0 /\ Len(segs) = 0
  BY DEF Init
<1>2. PICK f : IsSum(f, segs, 0) /\ held(segs) = f[0]
  BY <1>1, HeldIs
<1> QED
  BY <1>1, <1>2, SumStep

-----------------------------------------------------------------------------
(* The contract with the client                                                *)

\* The memory of the segments, as the contract sees it.
Granted == {[base |-> s.base, size |-> s.size] : s \in Segs}

\* A chunk in use but a fencepost has room behind it in its segment, for the word
\* that its block may use of the chunk after it.
LEMMA WordAfter ==
  ASSUME NEW m, NEW S, NEW e \in Int, NEW B, NEW v, NEW vs, NEW t, NEW ts,
         Sound(m, S, e, B, v, vs, t, ts), (t # NULL => \E s \in S : FirstChunk(s) <= t /\ e = segment_top(s)),
         NEW p \in DOMAIN m, m[p].cinuse, ~ Fence(m, p)
  PROVE  \E s \in S : s.base <= p /\ End(m, p) + WORD <= segment_top(s)
<1>1. /\ Heap(m, S, t) /\ Mapped(S) /\ t \in Int /\ NULL \notin DOMAIN m
  BY SoundHeap
<1>2. /\ p \in Int /\ End(m, p) \in Int /\ p < End(m, p) /\ Within(S, p, End(m, p))
  BY <1>1, ChunkFacts
<1>3. PICK n \in Int : n = End(m, p)
  BY <1>2
<1>4. n \in DOMAIN m
  <2>1. p # t
    BY <1>1 DEF Heap
  <2> QED
    BY <1>1, <1>3, <2>1 DEF Heap, Tiled
<1>5. PICK s \in S : FirstChunk(s) <= p /\ n < segment_top(s)
  BY <1>2, <1>3 DEF Within
<1>6. /\ s \in Segment /\ s.base \in Int /\ segment_top(s) \in Int /\ s.base <= FirstChunk(s)
      /\ FirstChunk(s) \in Int
  BY <1>1, FirstChunkFacts DEF Mapped
<1>7. ASSUME NEW x \in S, FirstChunk(x) <= n, n < segment_top(x) PROVE x = s
  <2>1. /\ x \in Segment /\ x.base \in Int /\ segment_top(x) \in Int /\ x.base <= FirstChunk(x)
        /\ FirstChunk(x) \in Int
    BY <1>1, FirstChunkFacts DEF Mapped
  <2>2. x # s => segment_top(x) <= s.base \/ segment_top(s) <= x.base
    BY <1>1 DEF Mapped
  <2> HIDE DEF segment_top, FirstChunk
  <2> QED
    BY <1>2, <1>3, <1>5, <1>6, <1>7, <2>1, <2>2
<1>8. n + WORD <= segment_top(s)
  <2>1. CASE n = t
    <3>1. End(m, t) + top_foot_size = e /\ t # NULL
      BY <1>1, <1>4, <2>1, TopFacts
    <3>2. End(m, t) \in Int /\ t < End(m, t)
      BY <1>1, <1>4, <2>1, ChunkFacts
    <3>3. PICK x \in S : FirstChunk(x) <= t /\ e = segment_top(x)
      BY <3>1
    <3>4. top_foot_size >= WORD /\ top_foot_size \in Int /\ WORD \in Int
      BY Constants
    <3> HIDE DEF top_foot_size, segment_top, FirstChunk, End
    <3>5. n + WORD <= e /\ n < e
      BY <2>1, <3>1, <3>2, <3>4, WordAssumption
    <3> QED
      BY <1>7, <2>1, <3>3, <3>5
  <2>2. CASE n # t
    <3>1. /\ End(m, n) \in Int /\ End(m, n) = n + m[n].size /\ Within(S, n, End(m, n)) /\ n < End(m, n)
          /\ m[n].size \in Int
      BY <1>1, <1>4, ChunkFacts
    <3>2. m[n].size >= WORD
      BY <1>1, <1>4, <2>2, <3>1, Constants DEF Heap, Shaped, Fence
    <3>3. PICK x \in S : FirstChunk(x) <= n /\ End(m, n) < segment_top(x)
      BY <3>1 DEF Within
    <3>4. x = s
      <4>1. segment_top(x) \in Int
        BY <1>1, FirstChunkFacts DEF Mapped
      <4> HIDE DEF segment_top, FirstChunk, End
      <4>2. n < segment_top(x)
        BY <3>1, <3>3, <4>1
      <4> QED
        BY <1>7, <3>3, <4>2
    <3> HIDE DEF segment_top, FirstChunk, End
    <3> QED
      BY <1>6, <3>1, <3>2, <3>3, <3>4, WordAssumption
  <2> QED
    BY <2>1, <2>2
<1>9. s.base <= p
  <2> HIDE DEF segment_top, FirstChunk, End
  <2> QED
    BY <1>2, <1>5, <1>6
<1> QED
  BY <1>3, <1>8, <1>9

\* Every block is as the contract wants it.
LEMMA GoodBlocks ==
  ASSUME TypeOK, HeapInv, NEW b \in DOMAIN live
  PROVE  Contract!Good(b, live, Granted)
<1>1. /\ SystemType /\ LiveType /\ HeapSound /\ TopInv /\ SegsInv /\ OwnersInv /\ BlocksInv
      /\ Sound(mem, Segs, TopEnd, bins, dv, dvsize, top, topsize)
  BY TypeParts DEF HeapInv, HeapSound
<1>2. TopEnd \in Int
  BY <1>1, TopRoom DEF TopEnd
<1>3. Heap(mem, Segs, top) /\ Mapped(Segs)
  BY <1>1, SoundHeap
<1>4. \A c \in DOMAIN live :
        /\ c \in Int /\ from_mem(c) \in DOMAIN mem /\ mem[from_mem(c)].cinuse /\ ~ Fence(mem, from_mem(c))
        /\ from_mem(c) \in Int /\ mem[from_mem(c)].size \in Int /\ from_mem(c) > 0
        /\ live[c].size \in Nat /\ live[c].size + chunk_overhead <= mem[from_mem(c)].size
  <2> SUFFICES ASSUME NEW c \in DOMAIN live
               PROVE  /\ c \in Int /\ from_mem(c) \in DOMAIN mem /\ mem[from_mem(c)].cinuse
                      /\ ~ Fence(mem, from_mem(c))
                      /\ from_mem(c) \in Int /\ mem[from_mem(c)].size \in Int /\ from_mem(c) > 0
                      /\ live[c].size \in Nat /\ live[c].size + chunk_overhead <= mem[from_mem(c)].size
    OBVIOUS
  <2>1. PICK p : p = from_mem(c)
    OBVIOUS
  <2>2. p \in Held
    BY <2>1 DEF Held, Clients
  <2>3. p \in DOMAIN mem /\ mem[p].cinuse /\ ~ Fence(mem, p)
    BY <1>1, <2>2, HeldFacts
  <2>4. p \in Int /\ mem[p].size \in Int /\ p > 0
    BY <1>3, <2>3, ChunkFacts
  <2>5. PICK n \in Nat : n = live[c].size
    BY <1>1 DEF BlocksInv
  <2>6. request2size(n) <= mem[p].size
    BY <1>1, <2>1, <2>5 DEF BlocksInv, Roomy
  <2>7. request2size(n) \in Int /\ n + chunk_overhead <= request2size(n)
    BY NbFacts
  <2>8. n + chunk_overhead <= mem[p].size
    BY <2>4, <2>6, <2>7, Constants
  <2> QED
    BY <1>1, <2>1, <2>3, <2>4, <2>5, <2>8 DEF LiveType
<1>5. b \in Nat /\ live[b] \in Contract!Block
  <2>1. b = from_mem(b) + mem_offset
    BY <1>4, ToFrom DEF to_mem
  <2>2. b \in Nat
    BY <1>4, <2>1, Constants DEF mem_offset
  <2>3. live[b].align \in Nat \ {0} /\ live[b].size \in Nat
    BY <1>1, Constants DEF BlocksInv, Alignment
  <2>4. live[b] = [size |-> live[b].size, align |-> live[b].align]
    BY <1>1 DEF LiveType, Blocks
  <2> QED
    BY <2>2, <2>3, <2>4 DEF Contract!Block
<1>6. b % live[b].align = 0
  BY <1>1 DEF BlocksInv
<1>7. Contract!Within(b, live[b], Granted)
  <2>1. PICK p \in DOMAIN mem : p = from_mem(b)
    BY <1>4
  <2>2. /\ mem[p].cinuse /\ ~ Fence(mem, p) /\ p \in Int /\ b = p + mem_offset
        /\ live[b].size + chunk_overhead <= mem[p].size /\ mem[p].size \in Int /\ live[b].size \in Nat
    BY <1>4, <2>1, ToFrom DEF to_mem
  <2>3. top # NULL => \E s \in Segs : FirstChunk(s) <= top /\ TopEnd = segment_top(s)
    BY <1>1, TopRoom
  <2>4. PICK s \in Segs : s.base <= p /\ End(mem, p) + WORD <= segment_top(s)
    BY <1>1, <1>2, <2>2, <2>3, WordAfter
  <2>5. s.base \in Int /\ s.size \in Int
    BY <1>3 DEF Mapped, Segment
  <2>6. s.base <= b /\ b + live[b].size <= s.base + s.size
    BY <2>2, <2>4, <2>5, Constants DEF segment_top, End, mem_offset, chunk_overhead
  <2>7. PICK r : r = [base |-> s.base, size |-> s.size]
    OBVIOUS
  <2>8. r \in Granted /\ r.base = s.base /\ r.size = s.size
    BY <2>7 DEF Granted
  <2> QED
    BY <2>6, <2>8 DEF Contract!Within
<1>8. ASSUME NEW c \in DOMAIN live \ {b} PROVE Contract!Apart(b, live[b], c, live[c])
  <2>1. PICK p \in DOMAIN mem, q \in DOMAIN mem : p = from_mem(b) /\ q = from_mem(c)
    BY <1>4
  <2>2. /\ p \in Int /\ b = p + mem_offset /\ b \in Int
        /\ live[b].size + chunk_overhead <= mem[p].size /\ mem[p].size \in Int /\ live[b].size \in Nat
        /\ q \in Int /\ c = q + mem_offset /\ c \in Int
        /\ live[c].size + chunk_overhead <= mem[q].size /\ mem[q].size \in Int /\ live[c].size \in Nat
    BY <1>4, <2>1, ToFrom DEF to_mem
  <2>3. p # q
    BY <2>2, Constants DEF mem_offset
  <2>4. (p < q => p + mem[p].size <= q) /\ (q < p => q + mem[q].size <= p)
    BY <1>3 DEF Heap, Tiled, End
  <2> QED
    BY <2>2, <2>3, <2>4, Constants DEF Contract!Apart, mem_offset, chunk_overhead
<1> QED
  BY <1>5, <1>6, <1>7, <1>8 DEF Contract!Good

\* Every block is, before and after a step.
AllGood == \A b \in DOMAIN live : Contract!Good(b, live, Granted)

\* Before a step,
LEMMA GoodNow == TypeOK /\ HeapInv => AllGood
  BY GoodBlocks DEF AllGood

\* and after it.
LEMMA GoodNext == TypeOK' /\ HeapInv' => AllGood'
<1>1. (TypeOK /\ HeapInv => AllGood)'
  BY GoodNow, PTL
<1> QED
  BY <1>1

\* The memory granted is regions of the contract.
LEMMA GrantedRegions ==
  ASSUME TypeOK', HeapInv'
  PROVE  Granted' \subseteq Contract!Region
<1>1. Mapped(Segs')
  BY SoundHeap DEF HeapInv, HeapSound
<1>2. ASSUME NEW s \in Segs' PROVE s.base \in Nat /\ s.size \in Nat
  <2>1. /\ s \in Segment /\ s.base > 0 /\ FirstChunk(s) < segment_top(s)
    BY <1>1 DEF Mapped
  <2>2. /\ s.base <= FirstChunk(s) /\ FirstChunk(s) \in Int
        /\ s.base \in Int /\ s.size \in Int
    BY <2>1, FirstChunkFacts
  <2> HIDE DEF FirstChunk
  <2> QED
    BY <2>1, <2>2 DEF segment_top
<1> QED
  BY <1>2 DEF Granted, Contract!Region

\* Where a block may be placed: no chunk of the client reaches into what follows.
Vacant(p) ==
  /\ p \in Int /\ p # NULL /\ p \notin Clients
  /\ \A a \in Clients : a < p => End(mem, a) <= p

\* A chunk that the client has not is such a place,
LEMMA VacantChunk ==
  ASSUME TypeOK, HeapInv, NEW p \in DOMAIN mem, p \notin Clients
  PROVE  Vacant(p)
<1>1. SystemType /\ HeapSound /\ TopInv /\ OwnersInv
  BY TypeParts DEF HeapInv
<1>2. Heap(mem, Segs, top)
  BY <1>1, SoundHeap DEF HeapSound
<1>3. p \in Int /\ p > 0
  BY <1>2, ChunkFacts
<1>4. \A a \in Clients : a \in DOMAIN mem
  BY <1>1, HeldFacts DEF Held
<1> QED
  BY <1>2, <1>3, <1>4, Constants DEF Vacant, Heap, Tiled, NULL

\* such as a free one,
LEMMA VacantFree ==
  ASSUME TypeOK, HeapInv, NEW p \in DOMAIN mem, ~ mem[p].cinuse
  PROVE  Vacant(p)
<1>1. SystemType /\ HeapSound /\ TopInv /\ OwnersInv
  BY TypeParts DEF HeapInv
<1>2. p \notin Clients
  BY <1>1, HeldFacts DEF Held
<1> QED
  BY <1>2, VacantChunk

\* and so is the first place for a chunk in a region from the system.
LEMMA VacantRegion ==
  ASSUME TypeOK, HeapInv, pc = "malloc", NEW r \in Regions
  PROVE  Vacant(TopAt(r.base))
<1>1. SystemType /\ HeapSound /\ TopInv /\ OwnersInv
  BY TypeParts DEF HeapInv
<1>2. Heap(mem, Segs, top) /\ Mapped(Segs)
  BY <1>1, SoundHeap DEF HeapSound
<1>3. PICK g : g = segment(r.base, r.size, r.flags, NULL)
  OBVIOUS
<1>4. PICK p : p = TopAt(r.base)
  OBVIOUS
<1>5. /\ g.base = r.base /\ segment_top(g) = segment_top(r)
      /\ \A x \in Segs : Apart(x, g)
      /\ r.base \in Int /\ p \in Int /\ r.base > 0
      /\ r.base <= p /\ p < r.base + malloc_alignment
      /\ r.size >= nb + top_foot_size + malloc_alignment /\ r.size \in Int
      /\ segment_top(r) = r.base + r.size
  BY <1>3, <1>4, RegionFacts
<1>6. nb \in Int /\ nb > 0
  BY NbIs, TypeParts DEF HeapInv
<1>7. p < segment_top(r) /\ p > 0 /\ segment_top(r) \in Int
  BY <1>5, <1>6, Constants
<1>8. \A a \in Clients : a \in DOMAIN mem
  BY <1>1, HeldFacts DEF Held
<1>9. ASSUME NEW a \in DOMAIN mem PROVE a # p /\ (a < p => End(mem, a) <= p)
  <2>1. a \in Int /\ End(mem, a) \in Int /\ Within(Segs, a, End(mem, a)) /\ a < End(mem, a)
    BY <1>2, ChunkFacts
  <2>2. PICK s \in Segs : FirstChunk(s) <= a /\ End(mem, a) < segment_top(s)
    BY <2>1 DEF Within
  <2>3. /\ s.base \in Int /\ segment_top(s) \in Int /\ s.base <= FirstChunk(s) /\ FirstChunk(s) \in Int
    BY <1>2, FirstChunkFacts DEF Mapped
  <2>4. segment_top(s) <= r.base \/ segment_top(r) <= s.base
    BY <1>5 DEF Apart
  <2>5. a < r.base \/ a >= segment_top(r)
    BY NoChunkIn
  <2> HIDE DEF segment_top, FirstChunk, End
  <2>6. CASE segment_top(s) <= r.base
    BY <1>5, <1>7, <2>1, <2>2, <2>3, <2>6
  <2>7. CASE segment_top(r) <= s.base
    BY <1>5, <1>7, <2>1, <2>2, <2>3, <2>7
  <2> QED
    BY <2>4, <2>6, <2>7
<1>10. Vacant(p)
  BY <1>5, <1>7, <1>8, <1>9 DEF Vacant, NULL
<1> QED
  BY <1>4, <1>10

\* malloc gives up, or returns a chunk at such a place.
LEMMA MallocVacant ==
  ASSUME TypeOK, HeapInv, Malloc \/ SysAlloc
  PROVE  Finish(NULL) \/ \E p : Vacant(p) /\ Return(p)
<1>1. /\ SystemType /\ HeapType /\ HeapSound /\ TopInv
      /\ Sound(mem, Segs, TopEnd, bins, dv, dvsize, top, topsize)
  BY TypeParts DEF HeapInv, HeapSound
<1>2. IsMem(mem) /\ top \in Int /\ NULL \notin DOMAIN mem
  BY <1>1, SoundHeap
<1>3. \A p \in bins : p \in DOMAIN mem /\ ~ mem[p].cinuse
  BY <1>1 DEF Sound, Binned, FreeOf
<1>4. dv # NULL => dv \in DOMAIN mem /\ ~ mem[dv].cinuse
  BY <1>1 DEF Sound, Binned, FreeOf
<1>5. top # NULL => top \in DOMAIN mem /\ ~ mem[top].cinuse /\ TopAt(top) = top
  <2> SUFFICES ASSUME top # NULL
               PROVE  top \in DOMAIN mem /\ ~ mem[top].cinuse /\ TopAt(top) = top
    OBVIOUS
  <2>1. TopEnd \in Int
    BY <1>1, TopRoom
  <2>2. top \in DOMAIN mem /\ ~ mem[top].cinuse /\ Aligned(top)
    BY <1>1, <2>1, TopFacts
  <2> QED
    BY <1>2, <2>2, AsChunk DEF TopAt
<1>6. ASSUME NEW p, p \in bins \/ (p = dv /\ dv # NULL) \/ (p = top /\ top # NULL) PROVE Vacant(p)
  BY <1>3, <1>4, <1>5, <1>6, VacantFree
<1>7. CASE MallocExactBin
  BY <1>6, <1>7 DEF MallocExactBin, SmallAt
<1>8. CASE MallocHigherBin
  BY <1>6, <1>8 DEF MallocHigherBin, SmallAt, Smallest
<1>9. CASE MallocSmallFromTree
  BY <1>6, <1>9 DEF MallocSmallFromTree, Large, Smallest
<1>10. CASE MallocLargeFromTree
  BY <1>6, <1>10 DEF MallocLargeFromTree, Large, Fitting, Smallest
<1>11. CASE MallocDv
  <2>1. dv # NULL
    <3>1. dv = NULL => dvsize = 0
      BY <1>1, <1>2, NoHeader DEF Sound
    <3>2. nb > 0 /\ nb \in Int
      BY <1>11, NbIs, TypeParts DEF HeapInv, MallocDv, NotFromBins
    <3> QED
      BY <1>11, <3>1, <3>2 DEF MallocDv
  <2> QED
    BY <1>6, <1>11, <2>1 DEF MallocDv
<1>12. CASE MallocTop
  <2>1. top # NULL
    <3>1. top = NULL => topsize = 0
      BY <1>1, <1>2, NoHeader DEF Sound
    <3>2. nb > 0 /\ nb \in Int
      BY <1>12, NbIs, TypeParts DEF HeapInv, MallocTop, NotFromBins
    <3> QED
      BY <1>12, <3>1, <3>2 DEF MallocTop, TakeFromTop
  <2> QED
    BY <1>6, <1>12, <2>1 DEF MallocTop, TakeFromTop
<1>13. CASE MallocRefused \/ SysAllocFails
  BY <1>13 DEF MallocRefused, SysAllocFails
<1>14. CASE SysAllocInit
  BY <1>14, VacantRegion DEF SysAllocInit, TakeFromTop, NeedsSystem, NotFromBins
<1>15. CASE SysAllocExtend
  BY <1>5, <1>6, <1>15 DEF SysAllocExtend, TakeFromTop
<1>16. CASE SysAllocPrepend
  BY <1>16, VacantRegion DEF SysAllocPrepend, NeedsSystem, NotFromBins, TopAt
<1>17. CASE SysAllocAddSegment
  BY <1>17, VacantRegion DEF SysAllocAddSegment, TakeFromTop, NeedsSystem, NotFromBins
<1> QED
  BY <1>7, <1>8, <1>9, <1>10, <1>11, <1>12, <1>13, <1>14, <1>15, <1>16, <1>17 DEF Malloc, SysAlloc

\* The block handed out is a good one; the one that it replaces is apart from it.
LEMMA HandedOut ==
  ASSUME TypeOK, TypeOK', HeapInv, HeapInv', pc \in {"malloc", "tail"},
         Contract!MayGrow, NEW p, Vacant(p), Finish(p)
  PROVE  Contract!Allocate \/ Contract!Move
<1>1. /\ CallType /\ LiveType /\ FrameInv /\ BlocksInv /\ SystemType /\ HeapSound /\ TopInv
      /\ OwnersInv
  BY TypeParts DEF HeapInv
<1>2. PICK q : q = to_mem(p)
  OBVIOUS
<1>3. p \in Int /\ p # NULL /\ p \notin Clients /\ q \in Int /\ from_mem(q) = p /\ q \notin DOMAIN live
  BY <1>2, ToFrom DEF Vacant, Clients
<1>4. AllGood'
  BY GoodNext
<1>5. CASE call.old = NULL
  <2>1. live' = Put(live, q, Promise)
    BY <1>2, <1>3, <1>5 DEF Finish
  <2>2. /\ DOMAIN live' = DOMAIN live \cup {q} /\ live'[q] = Promise
        /\ \A b \in DOMAIN live : live'[b] = live[b]
        /\ live' = [b \in DOMAIN live \cup {q} |-> live'[b]]
    BY <1>3, <2>1 DEF Put
  <2>3. Contract!Good(q, live', Granted')
    BY <1>4, <2>2 DEF AllGood
  <2>4. Contract!Only(DOMAIN live \cup {q}) /\ Contract!Kept(DOMAIN live)
    BY <2>2 DEF Contract!Only, Contract!Kept
  <2> QED
    BY <1>3, <2>2, <2>3, <2>4 DEF Contract!Allocate, Granted
<1>6. CASE call.old # NULL
  <2>1. PICK o : o = call.old
    OBVIOUS
  <2>2. o \in DOMAIN live /\ o \in Int
    BY <1>1, <1>6, <2>1 DEF FrameInv, LiveType
  <2>3. /\ live' = Put(Restrict(live, DOMAIN live \ {o}), q, Promise)
        /\ pc' = "free" /\ call' = Giving(from_mem(o))
    BY <1>2, <1>3, <1>6, <2>1 DEF Finish
  <2>4. /\ DOMAIN live' = (DOMAIN live \ {o}) \cup {q} /\ live'[q] = Promise
        /\ \A b \in DOMAIN live \ {o} : live'[b] = live[b]
        /\ live' = [b \in (DOMAIN live \ {o}) \cup {q} |-> live'[b]]
    BY <1>3, <2>2, <2>3 DEF Put, Restrict
  <2>5. Contract!Good(q, live', Granted')
    BY <1>4, <2>4 DEF AllGood
  <2>6. Contract!Only((DOMAIN live \ {o}) \cup {q}) /\ Contract!Kept(DOMAIN live \ {o})
    BY <2>4 DEF Contract!Only, Contract!Kept
  <2>7. Contract!Apart(o, live[o], q, live'[q])
    <3>1. PICK c : c = from_mem(o)
      OBVIOUS
    <3>2. c \in Clients /\ c \in Int /\ o = c + mem_offset
      BY <2>2, <3>1, ToFrom DEF Clients, to_mem
    <3>3. q = p + mem_offset
      BY <1>2 DEF to_mem
    <3>4. c < p => o + live[o].size <= q
      <4>1. c \in DOMAIN mem
        BY <1>1, <3>2, HeldFacts DEF Held
      <4>2. mem[c].size \in Int
        BY <1>1, <4>1, SoundHeap, ChunkFacts DEF HeapSound
      <4>3. PICK n \in Nat : n = live[o].size
        BY <1>1, <2>2 DEF BlocksInv
      <4>4. request2size(n) <= mem[c].size
        BY <1>1, <2>2, <3>1, <4>3 DEF BlocksInv, Roomy
      <4>5. n + chunk_overhead <= request2size(n) /\ request2size(n) \in Int
        BY NbFacts
      <4>6. c < p => c + mem[c].size <= p
        BY <3>2 DEF Vacant, End
      <4> QED
        BY <1>3, <3>2, <3>3, <4>2, <4>3, <4>4, <4>5, <4>6, Constants DEF mem_offset
    <3>5. p < c => q + live'[q].size <= o
      <4>1. SystemType' /\ LiveType' /\ HeapSound' /\ TopInv' /\ OwnersInv' /\ BlocksInv'
        BY TypePartsPrime DEF HeapInv
      <4>2. q \in DOMAIN live' /\ p \in Clients'
        BY <1>3, <2>4 DEF Clients
      <4>3. c \in InHand'
        BY <2>3, <3>1 DEF InHand, Giving, NoCall, Asking
      <4>4. Owners(mem', Held', Records') /\ p \in Held' /\ c \in Held'
        BY <4>1, <4>2, <4>3 DEF OwnersInv, Held
      <4>5. p \in DOMAIN mem' /\ c \in DOMAIN mem'
        BY <4>4 DEF Owners, UsedOf
      <4>6. Heap(mem', Segs', top')
        BY <4>1, SoundHeap DEF HeapSound
      <4>7. p < c => p + mem'[p].size <= c
        BY <4>5, <4>6 DEF Heap, Tiled, End
      <4>8. mem'[p].size \in Int
        BY <4>5, <4>6, ChunkFacts
      <4>9. PICK n \in Nat : n = live'[q].size
        BY <4>1, <4>2 DEF BlocksInv
      <4>10. request2size(n) <= mem'[p].size
        BY <1>3, <4>1, <4>2, <4>9 DEF BlocksInv, Roomy
      <4>11. n + chunk_overhead <= request2size(n) /\ request2size(n) \in Int
        BY NbFacts
      <4> QED
        BY <1>3, <3>2, <3>3, <4>7, <4>8, <4>9, <4>10, <4>11, Constants DEF mem_offset
    <3>6. c # p
      BY <1>3, <3>2
    <3> QED
      BY <1>3, <3>2, <3>4, <3>5, <3>6 DEF Contract!Apart
  <2>8. q \in DOMAIN live' \ DOMAIN live
    BY <1>3, <2>4
  <2> QED
    BY <2>2, <2>5, <2>6, <2>7, <2>8 DEF Contract!Move, Granted
<1> QED
  BY <1>5, <1>6

\* What malloc gets from the system is more memory, and none is taken.
LEMMA GrowthGranted ==
  ASSUME TypeOK, TypeOK', HeapInv, HeapInv', Grows \/ UNCHANGED segs
  PROVE  Contract!MayGrow
<1>1. Granted' \subseteq Contract!Region
  BY GrantedRegions
<1>2. ASSUME NEW y \in Segs
      PROVE  \E x \in Segs' : x.base <= y.base /\ y.base + y.size <= x.base + x.size
  <2>1. CASE UNCHANGED segs
    <3>1. Segs' = Segs
      BY <2>1 DEF Segs
    <3>2. y.base \in Int /\ y.size \in Int
      BY SoundHeap DEF HeapInv, HeapSound, Mapped, Segment
    <3> QED
      BY <3>1, <3>2
  <2>2. CASE Grows
    <3>1. PICK r \in Regions : OneGrown(Segs, Segs', r) \/ Added(Segs, Segs', r)
      BY <2>2, GrowSegs
    <3>2. Mapped(Segs) /\ Mapped(Segs')
      BY SoundHeap DEF HeapInv, HeapSound
    <3>3. r.base \in Int /\ r.size \in Int /\ r.size >= 0
      <4>1. pc = "malloc"
        BY <2>2 DEF Grows, SysAllocInit, SysAllocExtend, SysAllocPrepend, SysAllocAddSegment,
                    NeedsSystem, NotFromBins
      <4>2. r.base \in Int /\ r.size \in Int /\ r.size >= nb + top_foot_size + malloc_alignment
        BY <4>1, RegionFacts
      <4>3. nb \in Int /\ nb > 0
        BY <4>1, NbIs, TypeParts DEF HeapInv
      <4> QED
        BY SMTT(30), <4>2, <4>3, Constants
    <3>4. y.base \in Int /\ y.size \in Int
      BY <3>2 DEF Mapped, Segment
    <3>5. CASE OneGrown(Segs, Segs', r)
      <4>1. PICK u \in Segs, z \in Segs' : JoinedTo(z, u, r) /\ \A x \in Segs : x = u \/ x \in Segs'
        BY <3>5 DEF OneGrown
      <4>2. CASE y = u
        BY <3>3, <3>4, <4>1, <4>2 DEF JoinedTo, segment_top
      <4>3. CASE y # u
        BY <3>4, <4>1, <4>3
      <4> QED
        BY <4>2, <4>3
    <3>6. CASE Added(Segs, Segs', r)
      BY <3>4, <3>6 DEF Added, Like
    <3> QED
      BY <3>1, <3>5, <3>6
  <2> QED
    BY <2>1, <2>2
<1>3. ASSUME NEW g \in Granted
      PROVE  \E h \in Granted' : h.base <= g.base /\ g.base + g.size <= h.base + h.size
  <2>1. PICK y \in Segs : g = [base |-> y.base, size |-> y.size]
    BY DEF Granted
  <2>2. PICK x \in Segs' : x.base <= y.base /\ y.base + y.size <= x.base + x.size
    BY <1>2
  <2>3. PICK h : h = [base |-> x.base, size |-> x.size]
    OBVIOUS
  <2>4. h \in Granted' /\ h.base = x.base /\ h.size = x.size
    BY <2>3 DEF Granted
  <2> QED
    BY <2>1, <2>2, <2>4
<1> QED
  BY <1>1, <1>3 DEF Contract!MayGrow, Granted

\* Segments change under the client's feet, but not under its blocks.
LEMMA Remapped ==
  ASSUME TypeOK', HeapInv', UNCHANGED live
  PROVE  Contract!Remap
<1>1. Granted' \subseteq Contract!Region
  BY GrantedRegions
<1>2. AllGood'
  BY GoodNext
<1>3. \A b \in DOMAIN live : Contract!Within(b, live[b], Granted')
  BY <1>2 DEF AllGood, Contract!Good
<1> QED
  BY <1>1, <1>3 DEF Contract!Remap, Granted

\* A step of malloc.
LEMMA MallocKeeps ==
  ASSUME TypeOK, TypeOK', HeapInv, HeapInv', Malloc \/ SysAlloc
  PROVE  Contract!Next
<1>1. pc = "malloc"
  BY DEF Malloc, MallocExactBin, MallocHigherBin, MallocSmallFromTree, MallocLargeFromTree, MallocDv,
         MallocTop, MallocRefused, NotFromBins, SysAlloc, SysAllocFails, SysAllocInit, SysAllocExtend,
         SysAllocPrepend, SysAllocAddSegment, NeedsSystem
<1>2. Grows \/ UNCHANGED segs
  BY DEF Grows, Malloc, MallocExactBin, MallocHigherBin, MallocSmallFromTree, MallocLargeFromTree,
         MallocDv, MallocTop, MallocRefused, FromBinsFrame, SysAlloc, SysAllocFails, system
<1>3. Contract!MayGrow
  BY <1>2, GrowthGranted
<1>4. CASE UNCHANGED live
  BY <1>4, Remapped DEF Contract!Next
<1>5. ASSUME NEW p, Vacant(p), Finish(p) PROVE Contract!Next
  BY <1>1, <1>3, <1>5, HandedOut DEF Contract!Next
<1>6. Finish(NULL) => UNCHANGED live
  BY DEF Finish
<1>7. \A p : Return(p) => Finish(p) \/ UNCHANGED live
  BY DEF Return
<1> QED
  BY <1>4, <1>5, <1>6, <1>7, MallocVacant

\* The last step of memalign.
LEMMA TailKeeps ==
  ASSUME TypeOK, TypeOK', HeapInv, HeapInv', MemalignTail
  PROVE  Contract!Next
<1>1. pc = "tail" /\ UNCHANGED segs /\ Finish(call.p)
  BY DEF MemalignTail, system
<1>2. Contract!MayGrow
  BY <1>1, GrowthGranted
<1>3. call.p \in DOMAIN mem /\ call.p \notin Clients
  BY <1>1, AlignFacts
<1>4. Vacant(call.p)
  BY <1>3, VacantChunk
<1> QED
  BY <1>1, <1>2, <1>4, HandedOut DEF Contract!Next

\* A reallocation in place.
LEMMA ResizeKeeps ==
  ASSUME TypeOK, TypeOK', HeapInv, HeapInv', pc = "realloc", Resized
  PROVE  Contract!Next
<1>1. PICK o : o = call.old
  OBVIOUS
<1>2. o \in DOMAIN live /\ live' = [live EXCEPT ![o] = Promise] /\ UNCHANGED segs
  BY <1>1, OldFacts DEF Resized, system
<1>3. /\ DOMAIN live' = DOMAIN live /\ \A b \in DOMAIN live \ {o} : live'[b] = live[b]
      /\ live' = [b \in DOMAIN live |-> live'[b]]
  <2>1. live = [b \in DOMAIN live |-> live[b]]
    BY TypeParts DEF LiveType
  <2> QED
    BY <1>2, <2>1
<1>4. Contract!Only(DOMAIN live) /\ Contract!Kept(DOMAIN live \ {o})
  BY <1>3 DEF Contract!Only, Contract!Kept
<1>5. Contract!MayGrow
  BY <1>2, GrowthGranted
<1>6. Contract!Good(o, live', Granted')
  BY <1>2, <1>3, GoodNext DEF AllGood
<1> QED
  BY <1>2, <1>4, <1>5, <1>6 DEF Contract!Next, Contract!Resize, Granted

\* free, as the client calls it.
LEMMA FreeKeeps ==
  ASSUME TypeOK, NEW ptr \in DOMAIN live, Free(ptr), UNCHANGED system
  PROVE  Contract!Next
<1>1. live' = Restrict(live, DOMAIN live \ {ptr}) /\ Segs' = Segs
  BY DEF Free, system, Segs
<1>2. /\ DOMAIN live' = DOMAIN live \ {ptr} /\ \A b \in DOMAIN live \ {ptr} : live'[b] = live[b]
      /\ live' = [b \in DOMAIN live \ {ptr} |-> live'[b]]
  BY <1>1 DEF Restrict
<1>3. Contract!Only(DOMAIN live \ {ptr}) /\ Contract!Kept(DOMAIN live \ {ptr})
  BY <1>2 DEF Contract!Only, Contract!Kept
<1> QED
  BY <1>1, <1>3 DEF Contract!Next, Contract!Free

\* What the contract sees does not change.
LEMMA SameKeeps == UNCHANGED <<segs, live>> => UNCHANGED Contract!vars
  BY DEF Contract!vars, Segs

\* Every step is one of the contract or none.
LEMMA StepKeeps ==
  ASSUME TypeOK, TypeOK', IInv, [Next]_vars
  PROVE  [Contract!Next]_(Contract!vars)
<1>1. CASE ~ Usable
  BY <1>1, StaysGone, SameKeeps DEF vars, system
<1>2. CASE Usable
  <2>0. HeapInv
    BY <1>2 DEF IInv
  <2>1. CASE Call
    <3>1. UNCHANGED system
      BY <2>1 DEF Call
    <3>2. UNCHANGED live \/ \E ptr \in DOMAIN live : Free(ptr)
      BY <2>1 DEF Call, Allocate, Realloc, Trim
    <3> QED
      BY <3>1, <3>2, FreeKeeps, SameKeeps DEF system
  <2>2. CASE Malloc \/ SysAlloc
    <3>1. HeapInv'
      BY <2>0, <2>2, MallocStep
    <3> QED
      BY <2>0, <2>2, <3>1, MallocKeeps
  <2>3. CASE Rest
    <3>1. HeapInv'
      BY <2>0, <2>3, RestStep
    <3>2. CASE MemalignTail
      BY <2>0, <3>1, <3>2, TailKeeps
    <3>3. CASE ReallocShrink \/ ReallocIntoTop \/ ReallocIntoDv \/ ReallocIntoNext
      <4>1. pc = "realloc" /\ Resized
        BY <3>3 DEF ReallocShrink, ReallocIntoTop, ReallocIntoDv, ReallocIntoNext
      <4> QED
        BY <2>0, <3>1, <4>1, ResizeKeeps
    <3>4. CASE TrimTop \/ SegmentReleased
      <4>1. UNCHANGED live
        BY <3>4 DEF TrimTop, SegmentReleased
      <4> QED
        BY <3>1, <4>1, Remapped DEF Contract!Next
    <3>5. CASE \/ MemalignLead \/ ReallocMoves \/ FreeIntoTop \/ FreeIntoDv \/ FreeIntoBin
               \/ TrimDeclined \/ SegmentStays \/ SegmentRefused \/ ReleaseDone
      <4>1. UNCHANGED <<segs, live>>
        BY <3>5 DEF MemalignLead, ReallocMoves, FreeIntoTop, FreeIntoDv, FreeIntoBin, TrimDeclined,
                    SegmentStays, SegmentRefused, ReleaseDone, system
      <4> QED
        BY <4>1, SameKeeps
    <3> QED
      BY <2>3, <3>2, <3>3, <3>4, <3>5 DEF Rest
  <2>4. CASE Configure \/ Gone \/ UNCHANGED vars
    BY <2>4, SameKeeps DEF Configure, SetGranularity, SetMaxReleaseCheckRate, Gone, vars, system
  <2>5. CASE Destroy
    <3>1. live' = << >> /\ segs' = << >>
      BY <2>5 DEF Destroy
    <3>2. Segs' = {}
      BY <3>1 DEF Segs
    <3> QED
      BY <3>1, <3>2 DEF Contract!Next, Contract!Close
  <2> QED
    BY <2>1, <2>2, <2>3, <2>4, <2>5 DEF Next
<1> QED
  BY <1>1, <1>2

\* At first there is no block and no memory, as the contract has it.
LEMMA StartKeeps == Init => Contract!Init
<1> SUFFICES ASSUME Init PROVE Contract!Init
  OBVIOUS
<1>1. Segs = {}
  BY DEF Init, Segs
<1> QED
  BY <1>1 DEF Init, Contract!Init

-----------------------------------------------------------------------------
(* The heap *)

\* What every step keeps.
LEMMA InvariantAlways ==
  ASSUME AlignmentsFit
  PROVE  Spec => [](TypeOK /\ IInv)
<1>1. TypeOK /\ IInv /\ [Next]_vars => IInv'
  BY HeapStep
<1> QED
  BY <1>1, NoHeap, TypeCorrect, PTL DEF Spec

\* Through every path of malloc, memalign, realloc, free, trim and the release of
\* segments the chunks tile the segments, the boundary tags tell the truth, free
\* neighbours are joined, every free chunk is in one place and no chunk leaks.
THEOREM HeapStructured ==
  ASSUME AlignmentsFit
  PROVE  Spec => [](HeapTiled /\ TagsAgree /\ Coalesced /\ FreeAccounted /\ UseAccounted)
<1>1. TypeOK /\ IInv => HeapTiled /\ TagsAgree /\ Coalesced /\ FreeAccounted /\ UseAccounted
  BY Tiling, Tags, Accounts
<1> QED
  BY <1>1, InvariantAlways, PTL

\* In whole pages, no pass asks the tree functions for a small chunk.
Intact(P) == pc # "corrupt" /\ (Usable => PagesInv(P))

\* Every step keeps the allocator out of that, and the sizes whole pages.
LEMMA IntactStep ==
  ASSUME TypeOK, IInv, NEW P \in Nat, WholePages(P), Intact(P), [Next]_vars
  PROVE  Intact(P)'
<1>1. CASE Usable
  <2>1. HeapInv /\ PagesInv(P)
    BY <1>1 DEF IInv, Intact
  <2>2. pc' # "corrupt"
    BY <1>1, <2>1, NeverCorrupt
  <2>3. Usable' => PagesInv(P)'
    BY <1>1, <2>1, PagesStep
  <2> QED
    BY <2>2, <2>3 DEF Intact
<1>2. CASE ~ Usable
  BY <1>2, StaysGone DEF Intact, vars
<1> QED
  BY <1>1, <1>2

\* When the granularity and what the system adds to a request are whole pages of
\* half a kilobyte or more, as they are unless set_granularity was called with
\* less, the heap is consistent in every state: its structure is sound and
\* release_unused_segments never takes a small chunk for one of a tree bin.
THEOREM HeapConsistent ==
  ASSUME AlignmentsFit, NEW P \in Nat, WholePages(P)
  PROVE  Spec => []HeapOK
<1>1. Init => Intact(P)
  BY DEF Init, Intact, PagesInv, WholePages, Segs
<1>2. TypeOK /\ IInv /\ Intact(P) /\ [Next]_vars => Intact(P)'
  BY IntactStep
<1>3. Intact(P) => NoCorruption
  BY DEF Intact, NoCorruption
<1>4. HeapTiled /\ TagsAgree /\ Coalesced /\ FreeAccounted /\ UseAccounted /\ NoCorruption => HeapOK
  BY DEF HeapOK
<1> QED
  BY <1>1, <1>2, <1>3, <1>4, HeapStructured, InvariantAlways, PTL DEF Spec

-----------------------------------------------------------------------------
(* The segments *)

\* Segments stay apart while they grow at either end, shrink and go; top is in the
\* newest, every other one holds its own record, and least_addr is below them all.
THEOREM SegmentsStaySound ==
  ASSUME AlignmentsFit
  PROVE  Spec => []SegmentsSound
<1>1. TypeOK /\ IInv => SegmentsSound
  BY SegmentsPlaced
<1> QED
  BY <1>1, InvariantAlways, PTL

\* A segment flagged EXTERN is neither joined nor trimmed nor released, whatever flags
\* the system has, and a region that is flagged so becomes such a segment unless it lies
\* next to one whose own flags look like it when shifted.
THEOREM ExternStaysApart ==
  ASSUME AlignmentsFit
  PROVE  Spec => ExternKept
<1>1. TypeOK /\ IInv /\ [Next]_vars => [KeepsExtern]_vars
  BY ExternStep
<1>2. ExternKept <=> [][KeepsExtern]_vars
  BY DEF ExternKept, KeepsExtern
<1> QED
  BY <1>1, <1>2, InvariantAlways, PTL DEF Spec

\* What the allocator counts as obtained from the system is what its segments hold,
\* however they were joined, extended at either end, trimmed and released.
THEOREM FootprintStaysCounted ==
  ASSUME AlignmentsFit
  PROVE  Spec => []FootprintCounted
<1>1. TypeOK /\ IInv /\ FootprintCounted /\ [Next]_vars => FootprintCounted'
  BY FootprintStep
<1> QED
  BY <1>1, NothingHeld, InvariantAlways, PTL DEF Spec

-----------------------------------------------------------------------------
(* The blocks *)

\* Every block the client holds is a chunk in use with the room and the alignment
\* asked for, and free and realloc accept the size that comes back with it.
THEOREM BlocksStayServed ==
  ASSUME AlignmentsFit
  PROVE  Spec => []BlocksOK
<1>1. TypeOK /\ IInv => BlocksOK
  BY BlocksServed
<1> QED
  BY <1>1, InvariantAlways, PTL

\* The allocator implements its contract: whatever a step does to chunks, bins and
\* segments, to the client it is one block handed out, freed, resized or moved as
\* the contract allows, or nothing at all.
THEOREM ContractKept ==
  ASSUME AlignmentsFit
  PROVE  Spec => KeepsContract
<1>1. TypeOK /\ TypeOK' /\ IInv /\ [Next]_vars => [Contract!Next]_(Contract!vars)
  BY StepKeeps
<1> QED
  BY <1>1, InvariantAlways, StartKeeps, PTL DEF Spec, KeepsContract, Contract!Spec
=============================================================================

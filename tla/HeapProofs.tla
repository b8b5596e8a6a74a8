----------------------------- MODULE HeapProofs -----------------------------
(*****************************************************************************)
(* The inductive invariant of the allocator. IInv says of every state but    *)
(* one after destroy: the heap is sound - its chunks tile the segments,      *)
(* the tags agree, every free chunk is in its place; the segments are        *)
(* apart and hold their records; every chunk in use is held by the client,   *)
(* by the running call or by a record, or is a fencepost; every block has    *)
(* the room it was promised; and the frame of the running call promises      *)
(* what the step that runs next relies on. The last part is needed because   *)
(* a call is several steps: what memalign knows of the chunk that malloc     *)
(* returned, and realloc of the block it is to move, is in no property of    *)
(* the heap alone. There is a lemma for each action.                         *)
(*****************************************************************************)
EXTENDS HeapLemmas

-----------------------------------------------------------------------------
(* The inductive invariant *)

\* Where the newest segment ends.
TopEnd == IF top = NULL THEN 0 ELSE segment_top(segs[1])

HeapSound == Sound(mem, Segs, TopEnd, bins, dv, dvsize, top, topsize)

TopInv ==
  /\ (top = NULL) <=> (segs = << >>)
  /\ top # NULL => FirstChunk(segs[1]) <= top /\ segs[1].rec = NULL

\* The chunk that holds a segment's record.
Record(i) == from_mem(segs[i].rec)

SegsInv ==
  /\ \A i, j \in DOMAIN segs : i # j => Apart(segs[i], segs[j])
  /\ \A i \in DOMAIN segs \ {1} :
       /\ segs[i].base <= Record(i)
       /\ Record(i) + segment_record_size < segment_top(segs[i])
  /\ \A i \in DOMAIN segs : segs[i].base >= least_addr

\* The chunks of the client's blocks, the one the call is working on, the records.
Clients == {from_mem(b) : b \in DOMAIN live}
InHand == IF pc \in {"lead", "tail", "free"} THEN {call.p} ELSE {}
Records == {Record(i) : i \in DOMAIN segs \ {1}}

\* A chunk in use is held by the client, a record, or a fencepost, and is one of these.
Owners(m, H, R) ==
  /\ \A a \in H : a \in UsedOf(m) /\ ~ Fence(m, a) /\ a \notin R
  /\ \A a \in R : a \in UsedOf(m) /\ m[a].size = segment_record_size
  /\ \A a \in UsedOf(m) : a \in H \/ a \in R \/ Fence(m, a)

Held == Clients \cup InHand

OwnersInv == Owners(mem, Held, Records) /\ Clients \cap InHand = {}

\* Room for a block of this size, and not much more.
Roomy(room, size) ==
  /\ request2size(size) <= room
  /\ room <= size + chunk_overhead + 2 * min_chunk_size + WORD - 1

\* The natural alignment, or one that the client may ask for.
Alignment(x) == x = malloc_alignment \/ (x \in Nat /\ is_power_of_two(x) /\ x >= min_chunk_size)

BlocksInv ==
  \A b \in DOMAIN live :
    /\ Roomy(mem[from_mem(b)].size, live[b].size)
    /\ live[b].size \in Nat /\ Alignment(live[b].align) /\ b % live[b].align = 0

\* What the frame of the call promises the step that runs next.
FrameInv ==
  /\ pc \in {"malloc", "lead", "tail", "realloc"} => call.size \in Nat /\ Alignment(call.align)
  /\ pc \in {"malloc", "lead", "tail"} /\ call.old # NULL => call.old \in DOMAIN live
  /\ pc = "realloc" => call.old \in DOMAIN live /\ call.align = malloc_alignment
  /\ pc = "malloc" =>
       call.req = IF call.align > malloc_alignment
                  THEN request2size(call.size) + call.align + min_chunk_size - chunk_overhead
                  ELSE call.size
  /\ pc \in {"lead", "tail"} => call.align > malloc_alignment
  /\ pc = "lead" => mem[call.p].size >= request2size(call.size) + call.align + min_chunk_size
  /\ pc = "tail" =>
       mem[call.p].size >= request2size(call.size) /\ to_mem(call.p) % call.align = 0
  /\ pc = "release" => call.sp >= 2
  /\ pc = "trim" => call.pad \in Nat

HeapInv == HeapSound /\ TopInv /\ SegsInv /\ OwnersInv /\ BlocksInv /\ FrameInv
IInv == Usable => HeapInv
-----------------------------------------------------------------------------
(* Facts about a state *)

\* A segment of the list is one of the set.
LEMMA SegIn ==
  ASSUME SystemType, NEW i \in DOMAIN segs
  PROVE  /\ segs[i] \in Segs /\ segs[i] \in Segment
         /\ i \in Int /\ i >= 1 /\ 1 \in DOMAIN segs
<1>1. DOMAIN segs = 1..Len(segs) /\ Len(segs) \in Nat
  BY DEF SystemType
<1>2. segs[i] \in Segment
  BY DEF SystemType
<1> QED
  BY <1>1, <1>2 DEF Segs

\* Where there is a chunk there is a segment, and a top.
LEMMA Inhabited ==
  ASSUME SystemType, HeapSound, TopInv, DOMAIN mem # {} \/ segs # << >>
  PROVE  /\ top # NULL /\ 1 \in DOMAIN segs /\ segs[1] \in Segs /\ segs[1] \in Segment
         /\ TopEnd = segment_top(segs[1]) /\ TopEnd \in Int /\ FirstChunk(segs[1]) <= top
         /\ holds(segs[1], top) /\ top \in DOMAIN mem /\ top \in Int
         /\ Mapped(Segs)
<1>1. segs # << >>
  <2>1. ASSUME NEW a \in DOMAIN mem PROVE Segs # {}
    BY <2>1 DEF HeapSound, Sound, Heap, Tiled, Within
  <2>2. segs = << >> => Segs = {}
    BY DEF Segs
  <2> QED
    BY <2>1, <2>2
<1>2. top # NULL /\ TopEnd = segment_top(segs[1]) /\ FirstChunk(segs[1]) <= top
  BY <1>1 DEF TopInv, TopEnd
<1>3. 1 \in DOMAIN segs
  BY <1>1 DEF SystemType
<1>4. segs[1] \in Segs /\ segs[1] \in Segment
  BY <1>3, SegIn
<1>5. TopEnd \in Int /\ segs[1].base \in Int /\ FirstChunk(segs[1]) \in Int /\ segs[1].base <= FirstChunk(segs[1])
  BY <1>2, <1>4, FirstChunkFacts
<1>6. Mapped(Segs) /\ top \in Int /\ IsMem(mem)
  BY SoundHeap DEF HeapSound
<1>7. top \in DOMAIN mem /\ End(mem, top) + top_foot_size = TopEnd
  BY <1>2, <1>5, TopFacts DEF HeapSound
<1>8. End(mem, top) \in Int /\ top < End(mem, top)
  <2>1. Heap(mem, Segs, top)
    BY SoundHeap DEF HeapSound
  <2> QED
    BY <1>7, <2>1, ChunkFacts
<1>9. holds(segs[1], top)
  <2>1. top_foot_size \in Int /\ top_foot_size > 0
    BY Constants
  <2> HIDE DEF top_foot_size, segment_top, FirstChunk, End
  <2>2. top < segment_top(segs[1])
    BY <1>2, <1>5, <1>6, <1>7, <1>8, <2>1
  <2> QED
    BY <1>2, <1>5, <1>6, <2>2 DEF holds
<1> QED
  BY <1>2, <1>3, <1>4, <1>5, <1>6, <1>7, <1>9

\* Top is in the newest segment and in no other.
LEMMA TopSegment ==
  ASSUME SystemType, HeapSound, TopInv, SegsInv, NEW i \in DOMAIN segs, holds(segs[i], top)
  PROVE  i = 1
<1>1. segs # << >>
  BY DEF SystemType
<1>2. holds(segs[1], top) /\ 1 \in DOMAIN segs /\ top \in Int
  BY <1>1, Inhabited
<1>3. segs[1] \in Segment /\ segs[i] \in Segment
  BY <1>2, SegIn
<1>4. /\ segs[1].base \in Int /\ segment_top(segs[1]) \in Int
      /\ segs[i].base \in Int /\ segment_top(segs[i]) \in Int
  BY <1>3, FirstChunkFacts
<1>5. i # 1 => Apart(segs[i], segs[1])
  BY <1>2 DEF SegsInv
<1> QED
  BY <1>2, <1>4, <1>5 DEF holds, Apart

\* In a sound heap top is the last chunk of the segment that it ends.
LEMMA TopPlace ==
  ASSUME NEW m, NEW S, NEW e \in Int, NEW B, NEW v, NEW vs, NEW t, NEW ts,
         Sound(m, S, e, B, v, vs, t, ts), t # NULL,
         NEW s \in S, e = segment_top(s), s.base + top_foot_size <= e
  PROVE  FirstChunk(s) <= t
<1>1. /\ Heap(m, S, t) /\ Mapped(S) /\ t \in Int
  BY SoundHeap
<1>2. t \in DOMAIN m /\ End(m, t) + top_foot_size = e
  BY TopFacts
<1>3. Within(S, t, End(m, t)) /\ End(m, t) \in Int /\ t < End(m, t)
  BY <1>1, <1>2, ChunkFacts
<1>4. PICK x \in S : FirstChunk(x) <= t /\ End(m, t) < segment_top(x)
  BY <1>3 DEF Within
<1>5. x \in Segment /\ s \in Segment /\ (x # s => segment_top(x) <= s.base \/ segment_top(s) <= x.base)
  BY <1>1 DEF Mapped
<1>6. /\ x.base \in Int /\ segment_top(x) \in Int /\ FirstChunk(x) \in Int /\ x.base <= FirstChunk(x)
      /\ s.base \in Int /\ segment_top(s) \in Int
  BY <1>5, FirstChunkFacts
<1>7. top_foot_size \in Int /\ top_foot_size > 0
  BY Constants
<1> HIDE DEF top_foot_size, segment_top, FirstChunk, End
<1>8. x = s
  BY <1>1, <1>2, <1>3, <1>4, <1>5, <1>6, <1>7
<1> QED
  BY <1>4, <1>8

\* Steps that leave the segments alone have only to keep the heap sound.
LEMMA HeapKept ==
  ASSUME SystemType, HeapSound, TopInv, SegsInv, top # NULL, top' # NULL,
         UNCHANGED <<segs, least_addr>>,
         Sound(mem', Segs, TopEnd, bins', dv', dvsize', top', topsize')
  PROVE  HeapSound' /\ TopInv' /\ SegsInv'
<1>1. segs # << >>
  BY DEF TopInv
<1>2. /\ segs[1] \in Segs /\ segs[1] \in Segment /\ TopEnd = segment_top(segs[1])
      /\ TopEnd \in Int /\ FirstChunk(segs[1]) <= top /\ top \in DOMAIN mem /\ top \in Int
  BY <1>1, Inhabited
<1>3. segs[1].base + top_foot_size <= TopEnd
  <2>1. End(mem, top) + top_foot_size = TopEnd
    BY <1>2, TopFacts DEF HeapSound
  <2>2. End(mem, top) \in Int /\ top < End(mem, top)
    <3>1. Heap(mem, Segs, top)
      BY SoundHeap DEF HeapSound
    <3> QED
      BY <1>2, <3>1, ChunkFacts
  <2>3. segs[1].base <= FirstChunk(segs[1]) /\ segs[1].base \in Int /\ FirstChunk(segs[1]) \in Int
    BY <1>2, FirstChunkFacts
  <2>4. top_foot_size \in Int
    BY Constants
  <2> HIDE DEF top_foot_size, segment_top, FirstChunk, End, TopEnd
  <2> QED
    BY <1>2, <2>1, <2>2, <2>3, <2>4
<1>4. FirstChunk(segs[1]) <= top'
  BY <1>2, <1>3, TopPlace
<1>5. TopEnd' = TopEnd /\ Segs' = Segs
  BY <1>1 DEF TopEnd, Segs
<1>6. HeapSound'
  BY <1>5 DEF HeapSound
<1>7. TopInv'
  BY <1>1, <1>4 DEF TopInv
<1>8. SegsInv'
  BY DEF SegsInv, Record
<1> QED
  BY <1>6, <1>7, <1>8

\* The same segments have the same records.
LEMMA RecordsKept == UNCHANGED segs => Records' = Records
  BY DEF Records, Record

-----------------------------------------------------------------------------
(* Who holds the chunks in use *)

\* The client's chunk p is new.
LEMMA OwnersGained ==
  ASSUME NEW m, NEW n, NEW p, NEW want \in Int, want >= min_chunk_size, Gained(m, n, p, want),
         NEW H, NEW R, Owners(m, H, R), NEW G, \A a : a \in G <=> a \in H \/ a = p
  PROVE  Owners(n, G, R) /\ p \notin H
<1>1. /\ p \notin UsedOf(m) /\ \A a : a \in UsedOf(n) <=> a \in UsedOf(m) \/ a = p
      /\ \A a \in UsedOf(m) : n[a].size = m[a].size
      /\ n[p].size \in Int /\ want <= n[p].size
  BY DEF Gained
<1>2. /\ \A a \in H : a \in UsedOf(m) /\ ~ Fence(m, a) /\ a \notin R
      /\ \A a \in R : a \in UsedOf(m) /\ m[a].size = segment_record_size
      /\ \A a \in UsedOf(m) : a \in H \/ a \in R \/ Fence(m, a)
  BY DEF Owners
<1>3. ~ Fence(n, p)
  <2>1. n[p].size >= min_chunk_size
    BY <1>1, Constants
  <2> QED
    BY <2>1, NoFence
<1>4. \A a \in UsedOf(m) : Fence(n, a) <=> Fence(m, a)
  BY <1>1 DEF Fence, UsedOf
<1> QED
  BY <1>1, <1>2, <1>3, <1>4 DEF Owners

\* The client's chunk p goes.
LEMMA OwnersLost ==
  ASSUME NEW m, NEW n, NEW p, Lost(m, n, p),
         NEW H, NEW R, Owners(m, H, R), p \in H, NEW G, \A a : a \in G <=> a \in H /\ a # p
  PROVE  Owners(n, G, R)
<1>1. /\ \A a : a \in UsedOf(n) <=> a \in UsedOf(m) /\ a # p
      /\ \A a \in UsedOf(n) : n[a].size = m[a].size
  BY DEF Lost
<1>2. /\ \A a \in H : a \in UsedOf(m) /\ ~ Fence(m, a) /\ a \notin R
      /\ \A a \in R : a \in UsedOf(m) /\ m[a].size = segment_record_size
      /\ \A a \in UsedOf(m) : a \in H \/ a \in R \/ Fence(m, a)
  BY DEF Owners
<1>4. \A a \in UsedOf(n) : Fence(n, a) <=> Fence(m, a)
  BY <1>1 DEF Fence, UsedOf
<1> QED
  BY <1>1, <1>2, <1>4 DEF Owners

\* The client's chunk p has a new size.
LEMMA OwnersResized ==
  ASSUME NEW m, NEW n, NEW p, NEW want \in Int, want >= min_chunk_size, Resizes(m, n, p, want),
         NEW H, NEW R, Owners(m, H, R), p \in H
  PROVE  Owners(n, H, R)
<1>1. /\ \A a : a \in UsedOf(n) <=> a \in UsedOf(m)
      /\ \A a \in UsedOf(m) : a # p => n[a].size = m[a].size
      /\ n[p].size \in Int /\ want <= n[p].size
  BY DEF Resizes
<1>2. /\ \A a \in H : a \in UsedOf(m) /\ ~ Fence(m, a) /\ a \notin R
      /\ \A a \in R : a \in UsedOf(m) /\ m[a].size = segment_record_size
      /\ \A a \in UsedOf(m) : a \in H \/ a \in R \/ Fence(m, a)
  BY DEF Owners
<1>3. ~ Fence(n, p)
  <2>1. n[p].size >= min_chunk_size
    BY <1>1, Constants
  <2> QED
    BY <2>1, NoFence
<1>4. \A a \in UsedOf(m) : a # p => (Fence(n, a) <=> Fence(m, a))
  BY <1>1 DEF Fence, UsedOf
<1> QED
  BY <1>1, <1>2, <1>3, <1>4 DEF Owners

\* Nothing changes for the chunks in use.
LEMMA OwnersSame ==
  ASSUME NEW m, NEW n, SameUsed(m, n), NEW H, NEW R, Owners(m, H, R)
  PROVE  Owners(n, H, R)
<1>1. /\ \A a : a \in UsedOf(n) <=> a \in UsedOf(m)
      /\ \A a \in UsedOf(m) : n[a].size = m[a].size
  BY DEF SameUsed
<1>4. \A a \in UsedOf(m) : Fence(n, a) <=> Fence(m, a)
  BY <1>1 DEF Fence, UsedOf
<1> QED
  BY <1>1, <1>4 DEF Owners

\* A segment's record at c, and fenceposts F.
LEMMA OwnersRetired ==
  ASSUME NEW m, NEW n, NEW c, NEW F,
         \A a : a \in UsedOf(n) <=> a \in UsedOf(m) \/ a = c \/ a \in F,
         \A a \in UsedOf(m) : n[a].size = m[a].size,
         c \notin UsedOf(m), c \notin F, n[c].size = segment_record_size,
         \A a \in F : n[a].size = WORD,
         NEW H, NEW R, Owners(m, H, R), NEW Q, \A a : a \in Q <=> a \in R \/ a = c
  PROVE  Owners(n, H, Q)
<1>2. /\ \A a \in H : a \in UsedOf(m) /\ ~ Fence(m, a) /\ a \notin R
      /\ \A a \in R : a \in UsedOf(m) /\ m[a].size = segment_record_size
      /\ \A a \in UsedOf(m) : a \in H \/ a \in R \/ Fence(m, a)
  BY DEF Owners
<1>4. \A a \in UsedOf(m) : Fence(n, a) <=> Fence(m, a)
  BY DEF Fence, UsedOf
<1>5. \A a \in F : Fence(n, a)
  BY DEF Fence, UsedOf
<1> QED
  BY <1>2, <1>4, <1>5 DEF Owners

\* What is in use outside of segment s stays; in s only the record and fenceposts are.
Sheds(m, n, s, c) ==
  /\ \A a : a \in UsedOf(n) <=> a \in UsedOf(m) /\ ~ holds(s, a)
  /\ \A a \in UsedOf(n) : n[a].size = m[a].size
  /\ \A a \in UsedOf(m) : holds(s, a) => a = c \/ Fence(m, a)

\* Q are the records of R but that of s, at c.
Unrecorded(Q, R, s, c) ==
  c \in R /\ holds(s, c) /\ (\A a : a \in Q <=> a \in R /\ a # c) /\ \A a \in Q : ~ holds(s, a)

\* The record at c goes with its segment.
LEMMA OwnersReleased ==
  ASSUME NEW m, NEW n, NEW s, NEW c, Sheds(m, n, s, c),
         NEW H, NEW R, Owners(m, H, R), NEW Q, Unrecorded(Q, R, s, c)
  PROVE  Owners(n, H, Q) /\ \A a \in H : n[a].size = m[a].size
<1> USE DEF Sheds, Unrecorded
<1>2. /\ \A a \in H : a \in UsedOf(m) /\ ~ Fence(m, a) /\ a \notin R
      /\ \A a \in R : a \in UsedOf(m) /\ m[a].size = segment_record_size
      /\ \A a \in UsedOf(m) : a \in H \/ a \in R \/ Fence(m, a)
  BY DEF Owners
<1>3. \A a \in H : a \in UsedOf(n)
  BY <1>2
<1>4. \A a \in UsedOf(n) : Fence(n, a) <=> Fence(m, a)
  BY DEF Fence, UsedOf
<1> QED
  BY <1>2, <1>3, <1>4 DEF Owners

-----------------------------------------------------------------------------
(* The end of a call *)

\* Addresses of blocks and chunks correspond.
LEMMA ToFrom ==
  ASSUME NEW a \in Int, NEW b \in Int
  PROVE  /\ to_mem(a) \in Int /\ from_mem(a) \in Int
         /\ from_mem(to_mem(a)) = a /\ to_mem(from_mem(a)) = a
         /\ from_mem(a) = from_mem(b) => a = b
  BY Constants DEF to_mem, from_mem

\* What the client has after it was handed p.
LEMMA FinishHeld ==
  ASSUME CallType, LiveType, pc \in {"malloc", "tail"}, FrameInv,
         NEW p \in Int, p # NULL, Finish(p), p \notin Clients
  PROVE  /\ \A a : a \in Held' <=> a \in Clients \/ a = p
         /\ Clients' \cap InHand' = {}
         /\ to_mem(p) \in DOMAIN live' /\ live'[to_mem(p)] = Promise
         /\ \A b \in DOMAIN live' : b # to_mem(p) => b \in DOMAIN live /\ live'[b] = live[b]
         /\ pc' \in {"idle", "free"}
<1>1. /\ to_mem(p) \in Int /\ from_mem(to_mem(p)) = p
      /\ \A b \in DOMAIN live : b \in Int /\ from_mem(b) # p
  BY ToFrom DEF LiveType, Clients
<1>2. CASE call.old = NULL
  <2>1. Idle /\ live' = Put(live, to_mem(p), Promise)
    BY <1>2 DEF Finish
  <2>2. /\ DOMAIN live' = DOMAIN live \cup {to_mem(p)}
        /\ live'[to_mem(p)] = Promise
        /\ \A b \in DOMAIN live' : b # to_mem(p) => b \in DOMAIN live /\ live'[b] = live[b]
    BY <2>1 DEF Put
  <2>3. pc' = "idle" /\ InHand' = {}
    BY <2>1 DEF Idle, InHand
  <2>4. \A a : a \in Clients' <=> a \in Clients \/ a = p
    BY <1>1, <2>2 DEF Clients
  <2> QED
    BY <2>2, <2>3, <2>4 DEF Held
<1>3. CASE call.old # NULL
  <2>1. /\ live' = Put(Restrict(live, DOMAIN live \ {call.old}), to_mem(p), Promise)
        /\ pc' = "free" /\ call' = Giving(from_mem(call.old))
    BY <1>3 DEF Finish
  <2>2. call.old \in DOMAIN live
    BY <1>3 DEF FrameInv
  <2>3. /\ DOMAIN live' = (DOMAIN live \ {call.old}) \cup {to_mem(p)}
        /\ live'[to_mem(p)] = Promise
        /\ \A b \in DOMAIN live' : b # to_mem(p) => b \in DOMAIN live /\ live'[b] = live[b]
    BY <2>1 DEF Put, Restrict
  <2>4. InHand' = {from_mem(call.old)}
    <3>1. call'.p = from_mem(call.old)
      BY <2>1 DEF Giving, NoCall, Asking
    <3> QED
      BY <2>1, <3>1 DEF InHand
  <2>5. \A b \in DOMAIN live : from_mem(b) = from_mem(call.old) => b = call.old
    BY <1>1, <2>2, ToFrom
  <2>6. \A a : a \in Clients' <=> (a \in Clients /\ a # from_mem(call.old)) \/ a = p
    BY <1>1, <2>2, <2>3, <2>5 DEF Clients
  <2>7. from_mem(call.old) \in Clients
    BY <2>2 DEF Clients
  <2> QED
    BY <2>1, <2>3, <2>4, <2>6, <2>7 DEF Held
<1> QED
  BY <1>2, <1>3

\* Nothing is asked of the frame of a call that is over or only frees.
LEMMA NoFrame == pc' \in {"idle", "free"} => FrameInv'
  BY DEF FrameInv

\* A call that fails leaves the client what it had.
LEMMA FinishNull ==
  ASSUME pc \notin {"lead", "tail", "free"}, Finish(NULL)
  PROVE  /\ Clients' = Clients /\ Held' = Held /\ Clients' \cap InHand' = {}
         /\ UNCHANGED live /\ FrameInv'
<1>1. Idle /\ UNCHANGED live
  BY DEF Finish
<1>2. pc' = "idle" /\ InHand' = {} /\ InHand = {}
  BY <1>1 DEF Idle, InHand
<1>3. Clients' = Clients
  BY <1>1 DEF Clients
<1> QED
  BY <1>1, <1>2, <1>3, NoFrame DEF Held

\* What a request becomes.
LEMMA NbFacts ==
  ASSUME NEW size \in Nat
  PROVE  /\ request2size(size) \in Int /\ Aligned(request2size(size))
         /\ request2size(size) >= min_chunk_size /\ size + chunk_overhead <= request2size(size)
<1>1. /\ request2size(size) \in Int
      /\ request2size(size) % malloc_alignment = 0
      /\ size + chunk_overhead <= request2size(size)
      /\ \/ request2size(size) = min_chunk_size
         \/ request2size(size) < size + chunk_overhead + malloc_alignment
  BY Request2Size
<1>2. request2size(size) >= min_chunk_size
  <2>1. CASE size < min_request
    BY <2>1, Constants DEF request2size
  <2>2. CASE ~ (size < min_request)
    BY <1>1, <2>2, Constants
  <2> QED
    BY <2>1, <2>2
<1> QED
  BY <1>1, <1>2 DEF Aligned

\* A chunk of what a request becomes, or up to a smallest chunk more, is room for it
\* that its owner can account for.
LEMMA RoomEnough ==
  ASSUME NEW size \in Nat, NEW room \in Int, request2size(size) <= room,
         room <= request2size(size) + min_chunk_size
  PROVE  Roomy(room, size)
<1>1. /\ request2size(size) \in Int
      /\ \/ request2size(size) = min_chunk_size
         \/ request2size(size) < size + chunk_overhead + malloc_alignment
  BY Request2Size
<1>2. room <= size + chunk_overhead + 2 * min_chunk_size + WORD - 1
  BY <1>1, Constants
<1> QED
  BY <1>2 DEF Roomy

\* Blocks that are not moved, and the new one.
LEMMA FinishBlocks ==
  ASSUME CallType, LiveType, pc \in {"malloc", "tail"}, FrameInv, BlocksInv,
         NEW p \in Int, p # NULL, Finish(p), p \notin Clients,
         \A a \in Clients : mem'[a].size = mem[a].size,
         Roomy(mem'[p].size, call.size), to_mem(p) % call.align = 0
  PROVE  BlocksInv'
<1>1. /\ to_mem(p) \in DOMAIN live' /\ live'[to_mem(p)] = Promise
      /\ \A b \in DOMAIN live' : b # to_mem(p) => b \in DOMAIN live /\ live'[b] = live[b]
  BY FinishHeld
<1>2. from_mem(to_mem(p)) = p
  BY ToFrom
<1>3. Promise.size = call.size /\ Promise.align = call.align
  BY DEF Promise
<1>4. call.size \in Nat /\ Alignment(call.align)
  BY DEF FrameInv
<1>5. \A b \in DOMAIN live : mem'[from_mem(b)].size = mem[from_mem(b)].size
  BY DEF Clients
<1>6. ASSUME NEW b \in DOMAIN live'
      PROVE  /\ Roomy(mem'[from_mem(b)].size, live'[b].size)
             /\ live'[b].size \in Nat /\ Alignment(live'[b].align) /\ b % live'[b].align = 0
  <2>1. CASE b = to_mem(p)
    BY <1>1, <1>2, <1>3, <1>4, <2>1
  <2>2. CASE b # to_mem(p)
    BY <1>1, <1>5, <2>2 DEF BlocksInv
  <2> QED
    BY <2>1, <2>2
<1> QED
  BY <1>6 DEF BlocksInv

\* The block of an aligned chunk has the natural alignment.
LEMMA NaturalBlock ==
  ASSUME NEW p \in Int, Aligned(p)
  PROVE  to_mem(p) % malloc_alignment = 0
<1>1. mem_offset \in Int /\ Aligned(mem_offset)
  BY Constants DEF Aligned
<1>2. Aligned(p + mem_offset)
  BY <1>1, AlignedSum
<1> QED
  BY <1>2 DEF to_mem, Aligned

\* malloc returns chunk p, of the size that it asked for.
LEMMA Returned ==
  ASSUME CallType, LiveType, pc = "malloc", FrameInv, BlocksInv,
         NEW p \in Int, p > 0, Aligned(p), p \notin Clients, Return(p),
         \A a \in Clients : mem'[a].size = mem[a].size,
         mem'[p].size \in Int, nb <= mem'[p].size, mem'[p].size < nb + min_chunk_size,
         NEW G, \A a : a \in G <=> a \in Clients \/ a = p, Owners(mem', G, Records')
  PROVE  OwnersInv' /\ BlocksInv' /\ FrameInv'
<1>1. /\ call.size \in Nat /\ Alignment(call.align)
      /\ call.old # NULL => call.old \in DOMAIN live
      /\ call.req = IF call.align > malloc_alignment
                    THEN request2size(call.size) + call.align + min_chunk_size - chunk_overhead
                    ELSE call.size
  BY DEF FrameInv
<1>2. p # NULL
  BY DEF NULL
<1>3. CASE call.align > malloc_alignment
  <2>1. pc' = "lead" /\ call' = [call EXCEPT !.p = p] /\ UNCHANGED live
    BY <1>2, <1>3 DEF Return
  <2>2. /\ call'.p = p /\ call'.size = call.size /\ call'.align = call.align /\ call'.old = call.old
    BY <2>1 DEF CallType, Frame
  <2>3. Clients' = Clients /\ InHand' = {p}
    BY <2>1, <2>2 DEF Clients, InHand
  <2>4. \A a : a \in Held' <=> a \in G
    BY <2>3 DEF Held
  <2>5. OwnersInv'
    <3>1. Owners(mem', Held', Records')
      BY <2>4 DEF Owners
    <3> QED
      BY <2>3, <3>1 DEF OwnersInv
  <2>6. BlocksInv'
    BY <2>1 DEF BlocksInv, Clients
  <2>7. mem'[p].size >= request2size(call.size) + call.align + min_chunk_size
    <3>1. call.req \in Int /\ call.align \in Int /\ request2size(call.size) \in Int /\ chunk_overhead \in Int /\ min_chunk_size \in Int
      BY <1>1, FrameFields, NbFacts, Constants DEF CallType
    <3>2. nb \in Int /\ call.req + chunk_overhead <= nb
      BY <3>1, Request2Size DEF nb
    <3>3. call.req = request2size(call.size) + call.align + min_chunk_size - chunk_overhead
      BY <1>1, <1>3
    <3> HIDE DEF nb, min_chunk_size, chunk_overhead, request2size
    <3> QED
      BY <3>1, <3>2, <3>3
  <2>8. FrameInv'
    BY <1>1, <1>3, <2>1, <2>2, <2>7 DEF FrameInv
  <2> QED
    BY <2>5, <2>6, <2>8
<1>4. CASE ~ (call.align > malloc_alignment)
  <2>1. Finish(p)
    BY <1>4 DEF Return
  <2>2. call.align = malloc_alignment
    <3>1. min_chunk_size > malloc_alignment /\ malloc_alignment \in Int
      BY Constants
    <3> QED
      BY <1>1, <1>4, <3>1, Constants DEF Alignment
  <2>3. call.req = call.size /\ nb = request2size(call.size)
    BY <1>1, <1>4 DEF nb
  <2>4. Roomy(mem'[p].size, call.size)
    <3>1. request2size(call.size) \in Int
      BY <1>1, NbFacts
    <3> QED
      BY <1>1, <2>3, <3>1, RoomEnough, Constants
  <2>5. BlocksInv'
    BY <1>2, <2>1, <2>2, <2>4, NaturalBlock, FinishBlocks
  <2>6. /\ \A a : a \in Held' <=> a \in Clients \/ a = p
        /\ Clients' \cap InHand' = {} /\ pc' \in {"idle", "free"}
    BY <1>2, <2>1, FinishHeld
  <2>7. OwnersInv'
    <3>1. Owners(mem', Held', Records')
      BY <2>6 DEF Owners
    <3> QED
      BY <2>6, <3>1 DEF OwnersInv
  <2> QED
    BY <2>5, <2>6, <2>7, NoFrame
<1> QED
  BY <1>3, <1>4

-----------------------------------------------------------------------------
(* malloc *)

\* The size of the chunk that malloc looks for.
LEMMA NbIs ==
  ASSUME CallType, pc = "malloc", FrameInv
  PROVE  nb \in Int /\ Aligned(nb) /\ nb >= min_chunk_size /\ nb > 0
<1>1. /\ call.size \in Nat
      /\ call.req = IF call.align > malloc_alignment
                    THEN request2size(call.size) + call.align + min_chunk_size - chunk_overhead
                    ELSE call.size
  BY DEF FrameInv
<1>2. /\ request2size(call.size) \in Int /\ request2size(call.size) >= min_chunk_size
      /\ call.size + chunk_overhead <= request2size(call.size)
  BY <1>1, NbFacts
<1>3. call.align \in Int
  BY FrameFields DEF CallType
<1>4. call.req \in Nat
  <2> HIDE DEF request2size
  <2> QED
    BY <1>1, <1>2, <1>3, Constants
<1>5. min_chunk_size > 0
  BY Constants
<1> QED
  BY <1>4, <1>5, NbFacts, Constants DEF nb

\* The owner of every chunk in use, with nothing in hand.
LEMMA NoneInHand ==
  ASSUME pc \notin {"lead", "tail", "free"}
  PROVE  InHand = {} /\ Held = Clients
BY DEF InHand, Held

\* malloc has made chunk p of the heap and returns it.
LEMMA Handed ==
  ASSUME SystemType, CallType, LiveType, HeapInv, pc = "malloc",
         top # NULL, top' # NULL, UNCHANGED <<segs, least_addr>>,
         Sound(mem', Segs, TopEnd, bins', dv', dvsize', top', topsize'),
         NEW p, Gained(mem, mem', p, nb), Return(p)
  PROVE  HeapInv'
<1>1. HeapSound /\ TopInv /\ SegsInv /\ OwnersInv /\ BlocksInv /\ FrameInv
  BY DEF HeapInv
<1>2. HeapSound' /\ TopInv' /\ SegsInv'
  BY <1>1, HeapKept
<1>3. Held = Clients /\ Records' = Records
  BY NoneInHand, RecordsKept
<1>4. nb \in Int /\ nb >= min_chunk_size
  BY <1>1, NbIs
<1>5. PICK G : \A a : a \in G <=> a \in Clients \/ a = p
  <2>1. \A a : a \in Clients \cup {p} <=> a \in Clients \/ a = p
    OBVIOUS
  <2> QED
    BY <2>1
<1>6. Owners(mem, Clients, Records)
  BY <1>1, <1>3 DEF OwnersInv
<1>7. Owners(mem', G, Records') /\ p \notin Clients
  BY <1>3, <1>4, <1>5, <1>6, OwnersGained
<1>8. /\ p \in Int /\ p > 0 /\ Aligned(p) /\ \A a \in UsedOf(mem) : mem'[a].size = mem[a].size
      /\ mem'[p].size \in Int /\ nb <= mem'[p].size /\ mem'[p].size < nb + min_chunk_size
  BY DEF Gained
<1>9. \A a \in Clients : mem'[a].size = mem[a].size
  BY <1>6, <1>8 DEF Owners
<1>10. OwnersInv' /\ BlocksInv' /\ FrameInv'
  BY <1>1, <1>5, <1>7, <1>8, <1>9, Returned
<1> QED
  BY <1>2, <1>10 DEF HeapInv

\* A chunk taken from a bin whole, or but for its tail, which becomes the victim.
LEMMA Taken ==
  ASSUME SystemType, CallType, LiveType, HeapInv, pc = "malloc", NEW p \in bins, Return(p),
         UNCHANGED <<top, topsize, segs, least_addr>>, SizeOf(p) >= nb,
         \/ SizeOf(p) < nb + min_chunk_size /\ TakeWhole(p)
         \/ SizeOf(p) >= nb + min_chunk_size /\ SplitIntoDv(p)
         \/ /\ SizeOf(p) >= nb + min_chunk_size
            /\ mem' = set_size_and_pinuse_of_free_chunk(
                        set_size_and_pinuse_of_inuse_chunk(mem, p, nb), p + nb, SizeOf(p) - nb)
            /\ bins' = (bins \ {p}) \cup {p + nb}
            /\ UNCHANGED <<dv, dvsize>>
  PROVE  HeapInv'
<1>1. HeapSound /\ TopInv /\ FrameInv
  BY DEF HeapInv
<1>2. Sound(mem, Segs, TopEnd, bins, dv, dvsize, top, topsize)
  BY <1>1 DEF HeapSound
<1>3. p \in DOMAIN mem /\ IsMem(mem)
  BY <1>2, SoundHeap, BinFacts
<1>4. top # NULL /\ TopEnd \in Int
  BY <1>1, <1>3, Inhabited
<1>5. /\ nb \in Int /\ Aligned(nb) /\ nb >= min_chunk_size /\ SizeOf(p) \in Int /\ p \in Int
      /\ p + nb \in Int /\ SizeOf(p) - nb \in Int
  BY <1>1, <1>3, NbIs, SizeOfType, MemFacts
<1>9. Loose(p, bins, dv)
  BY DEF Loose
<1>6. CASE SizeOf(p) < nb + min_chunk_size /\ TakeWhole(p)
  <2>1. PICK size \in Int : size = SizeOf(p)
    BY <1>5
  <2>2. size = HeaderAt(mem, p).size /\ mem' = set_inuse_and_pinuse(mem, p, size)
    BY <1>6, <2>1 DEF TakeWhole, SizeOf
  <2>3. Sound(mem', Segs, TopEnd, bins \ {p}, dv, dvsize, top, topsize) /\ Gained(mem, mem', p, nb)
    <3>1. Fits(nb, size)
      BY <1>6, <2>1 DEF Fits
    <3> QED
      BY <1>2, <1>4, <1>5, <1>9, <2>1, <2>2, <3>1, WholeSound
  <2>4. Sound(mem', Segs, TopEnd, bins', dv', dvsize', top', topsize')
    BY <1>6, <2>3 DEF TakeWhole
  <2> QED
    BY <1>4, <2>3, <2>4, Handed
<1>7. CASE SizeOf(p) >= nb + min_chunk_size /\ SplitIntoDv(p)
  <2>1. PICK rest \in Int : rest = SizeOf(p) - nb
    BY <1>5
  <2>2. PICK r \in Int : r = p + nb
    BY <1>5
  <2>3. /\ rest = HeaderAt(mem, p).size - nb /\ rest >= min_chunk_size
        /\ mem' = set_size_and_pinuse_of_free_chunk(
                    set_size_and_pinuse_of_inuse_chunk(mem, p, nb), r, rest)
        /\ bins' = (bins \ {p}) \cup (IF dvsize # 0 THEN {dv} ELSE {})
        /\ dv' = r /\ dvsize' = rest
    <3>1. rest >= min_chunk_size
      BY <1>5, <1>7, <2>1, Constants
    <3> QED
      BY <1>7, <2>1, <2>2, <3>1 DEF SplitIntoDv, SizeOf
  <2>4. SplitOff(mem, mem', p, nb, r, rest) /\ Demoted(bins', bins, p, dv, dvsize)
    BY <2>3 DEF SplitOff, Demoted
  <2>6. /\ Sound(mem', Segs, TopEnd, bins', r, rest, top, topsize)
        /\ Gained(mem, mem', p, nb)
    BY <1>2, <1>4, <1>5, <1>9, <2>2, <2>3, <2>4, FrontSound
  <2>5. Sound(mem', Segs, TopEnd, bins', dv', dvsize', top', topsize')
    BY <2>3, <2>6
  <2> QED
    BY <1>4, <2>5, <2>6, Handed
<1>8. CASE /\ SizeOf(p) >= nb + min_chunk_size
           /\ mem' = set_size_and_pinuse_of_free_chunk(
                       set_size_and_pinuse_of_inuse_chunk(mem, p, nb), p + nb, SizeOf(p) - nb)
           /\ bins' = (bins \ {p}) \cup {p + nb}
           /\ UNCHANGED <<dv, dvsize>>
  <2>1. PICK rest \in Int : rest = SizeOf(p) - nb
    BY <1>5
  <2>2. PICK r \in Int : r = p + nb
    BY <1>5
  <2>3. /\ rest = HeaderAt(mem, p).size - nb /\ rest >= min_chunk_size
        /\ mem' = set_size_and_pinuse_of_free_chunk(
                    set_size_and_pinuse_of_inuse_chunk(mem, p, nb), r, rest)
        /\ bins' = (bins \ {p}) \cup {r}
    <3>1. rest >= min_chunk_size
      BY <1>5, <1>8, <2>1, Constants
    <3> QED
      BY <1>8, <2>1, <2>2, <3>1 DEF SizeOf
  <2>4. SplitOff(mem, mem', p, nb, r, rest) /\ Tailed(bins', bins, p, r)
    BY <2>3 DEF SplitOff, Tailed
  <2>6. /\ Sound(mem', Segs, TopEnd, bins', dv, dvsize, top, topsize)
        /\ Gained(mem, mem', p, nb)
    BY <1>2, <1>4, <1>5, <1>9, <2>2, <2>3, <2>4, FrontSound
  <2>5. Sound(mem', Segs, TopEnd, bins', dv', dvsize', top', topsize')
    BY <1>8, <2>6
  <2> QED
    BY <1>4, <2>5, <2>6, Handed
<1> QED
  BY <1>6, <1>7, <1>8

\* The sizes in a small bin, and in the trees.
LEMMA SmallBin ==
  ASSUME NEW size \in Int, size >= 0
  PROVE  /\ small_index(size) \in Int /\ 8 * small_index(size) <= size
         /\ size < 8 * small_index(size) + 8
         /\ ~ is_small(size) <=> size >= 256
BY DEF small_index, SMALLBIN_SHIFT, is_small, NSMALLBINS

\* A chunk of a bin.
LEMMA InBin ==
  ASSUME HeapSound, NEW p \in bins
  PROVE  SizeOf(p) \in Int /\ Aligned(SizeOf(p)) /\ SizeOf(p) >= min_chunk_size /\ SizeOf(p) >= 0
<1>1. p \in DOMAIN mem /\ ~ mem[p].cinuse /\ p # top
  <2>1. Sound(mem, Segs, TopEnd, bins, dv, dvsize, top, topsize)
    BY DEF HeapSound
  <2> QED
    BY <2>1, BinFacts
<1>2. Heap(mem, Segs, top)
  BY SoundHeap DEF HeapSound
<1>3. SizeOf(p) = mem[p].size
  BY <1>1 DEF SizeOf, HeaderAt
<1>4. mem[p].size \in Int
  BY <1>1, <1>2, ChunkFacts
<1>5. Aligned(mem[p].size) /\ mem[p].size >= min_chunk_size
  BY <1>1, <1>2, FreeFacts
<1> QED
  BY <1>3, <1>4, <1>5, Constants

\* A multiple of sixteen is one of eight.
LEMMA Halved ==
  ASSUME NEW a \in Int, a % 16 = 0
  PROVE  a % 8 = 0
OBVIOUS

\* What is small fits no chunk of the trees exactly.
LEMMA SmallNb ==
  ASSUME CallType, pc = "malloc", FrameInv, small
  PROVE  nb < 256 /\ 8 * idx = nb /\ idx \in Int
<1>1. call.req \in Int
  BY FrameFields DEF CallType
<1>2. max_small_request \in {232, 244}
  BY Constants DEF max_small_request, max_small_size, min_large_size, TREEBIN_SHIFT
<1>3. /\ nb \in Int
      /\ \/ nb = min_chunk_size
         \/ nb < call.req + chunk_overhead + malloc_alignment
  BY <1>1, Request2Size DEF nb
<1>4. nb > 0 /\ nb % 8 = 0
  <2>1. nb > 0 /\ Aligned(nb)
    BY NbIs
  <2>2. CASE WORD = 4
    BY <1>3, <2>1, <2>2, Constants DEF Aligned
  <2>3. CASE WORD = 8
    <3>1. nb % 16 = 0
      BY <2>1, <2>3, Constants DEF Aligned
    <3>2. nb \in Int
      BY <1>3
    <3> QED
      BY <2>1, <3>1, <3>2, Halved
  <2> QED
    BY <2>2, <2>3, WordAssumption
<1>5. nb < 256
  <2>1. call.req <= max_small_request
    BY DEF small
  <2> HIDE DEF nb
  <2>2. CASE WORD = 4
    <3>1. max_small_request = 244
      BY <2>2, Constants DEF max_small_request, max_small_size, min_large_size, TREEBIN_SHIFT
    <3> QED
      BY <1>1, <1>3, <2>1, <2>2, <3>1, Constants
  <2>3. CASE WORD = 8
    <3>1. max_small_request = 232
      BY <2>3, Constants DEF max_small_request, max_small_size, min_large_size, TREEBIN_SHIFT
    <3> QED
      BY <1>1, <1>3, <2>1, <2>3, <3>1, Constants
  <2> QED
    BY <2>2, <2>3, WordAssumption
<1>6. idx \in Int /\ 8 * idx <= nb /\ nb < 8 * idx + 8
  BY <1>3, <1>4, SmallBin DEF idx
<1>7. 8 * idx = nb
  <2> HIDE DEF nb, idx
  <2> QED
    BY <1>3, <1>4, <1>6
<1> QED
  BY <1>5, <1>6, <1>7

\* malloc takes a chunk of the small bin for the size, or of the next.
LEMMA ExactBinStep ==
  ASSUME SystemType, CallType, LiveType, HeapInv, MallocExactBin
  PROVE  HeapInv'
<1>1. HeapSound /\ FrameInv /\ pc = "malloc" /\ ExactBin
  BY DEF HeapInv, MallocExactBin
<1>2. UNCHANGED <<top, topsize, segs, least_addr>>
  BY DEF MallocExactBin, FromBinsFrame, system
<1>3. PICK i \in {idx, idx + 1} : \E p \in SmallAt({i}) : TakeWhole(p) /\ Return(p)
  BY DEF MallocExactBin
<1>4. PICK p \in SmallAt({i}) : TakeWhole(p) /\ Return(p)
  BY <1>3
<1>5. p \in bins /\ small_index(SizeOf(p)) = i
  BY <1>4 DEF SmallAt
<1>6. SizeOf(p) \in Int /\ SizeOf(p) >= 0
  BY <1>1, <1>5, InBin
<1>7. 8 * idx = nb /\ idx \in Int /\ nb \in Int
  BY <1>1, SmallNb, NbIs DEF ExactBin
<1>8. 8 * i <= SizeOf(p) /\ SizeOf(p) < 8 * i + 8
  BY <1>5, <1>6, SmallBin
<1>9. SizeOf(p) >= nb /\ SizeOf(p) < nb + min_chunk_size
  <2>1. min_chunk_size \in Int /\ min_chunk_size >= 16
    BY Constants
  <2> HIDE DEF nb, idx, SizeOf, min_chunk_size
  <2> QED
    BY <1>3, <1>6, <1>7, <1>8, <2>1
<1> QED
  BY <1>1, <1>2, <1>4, <1>5, <1>9, Taken

\* malloc splits a chunk of a higher small bin.
LEMMA HigherBinStep ==
  ASSUME SystemType, CallType, LiveType, HeapInv, MallocHigherBin
  PROVE  HeapInv'
<1>1. HeapSound /\ FrameInv /\ pc = "malloc" /\ HigherBin
  BY DEF HeapInv, MallocHigherBin
<1>2. UNCHANGED <<top, topsize, segs, least_addr>>
  BY DEF MallocHigherBin, FromBinsFrame, system
<1>3. PICK p \in Smallest(SmallAt(idx..(NSMALLBINS - 1))) :
        /\ IF WORD # 4 /\ TooSmall(SizeOf(p) - nb) THEN TakeWhole(p) ELSE SplitIntoDv(p)
        /\ Return(p)
  BY DEF MallocHigherBin
<1>4. p \in SmallAt(idx..(NSMALLBINS - 1))
  BY DEF Smallest
<1>5. p \in bins /\ is_small(SizeOf(p)) /\ small_index(SizeOf(p)) \in idx..(NSMALLBINS - 1)
  BY <1>4 DEF SmallAt
<1>6. SizeOf(p) \in Int /\ SizeOf(p) >= 0
  BY <1>1, <1>5, InBin
<1>7. 8 * idx = nb /\ idx \in Int /\ nb \in Int
  BY <1>1, SmallNb, NbIs DEF HigherBin
<1>8. small_index(SizeOf(p)) \notin {idx, idx + 1}
  <2>1. p \notin SmallAt({idx, idx + 1})
    BY <1>1 DEF HigherBin, ExactBin
  <2> QED
    BY <1>5, <2>1 DEF SmallAt
<1>9. SizeOf(p) >= nb + 16
  <2>1. PICK i \in Int : i = small_index(SizeOf(p))
    BY <1>6, SmallBin
  <2>2. 8 * i <= SizeOf(p) /\ i >= idx /\ i # idx /\ i # idx + 1
    BY <1>5, <1>6, <1>8, <2>1, SmallBin
  <2> HIDE DEF nb, idx, SizeOf
  <2> QED
    BY <1>6, <1>7, <2>1, <2>2
<1>10. /\ SizeOf(p) >= nb
       /\ \/ SizeOf(p) < nb + min_chunk_size /\ TakeWhole(p)
          \/ SizeOf(p) >= nb + min_chunk_size /\ SplitIntoDv(p)
  <2>1. min_chunk_size \in Int /\ (WORD = 4 => min_chunk_size = 16)
    BY Constants
  <2>2. TooSmall(SizeOf(p) - nb) <=> SizeOf(p) < nb + min_chunk_size
    BY <1>6, <1>7, <2>1 DEF TooSmall
  <2>3. SizeOf(p) >= nb /\ (WORD = 4 => SizeOf(p) >= nb + min_chunk_size)
    <3> HIDE DEF nb, SizeOf, min_chunk_size
    <3> QED
      BY <1>6, <1>7, <1>9, <2>1
  <2>4. SizeOf(p) < nb + min_chunk_size \/ SizeOf(p) >= nb + min_chunk_size
    BY <1>6, <1>7, <2>1
  <2> QED
    BY <1>3, <2>2, <2>3, <2>4
<1> QED
  BY <1>1, <1>2, <1>3, <1>5, <1>10, Taken

\* malloc takes the smallest chunk of the trees for a small request.
LEMMA SmallFromTreeStep ==
  ASSUME SystemType, CallType, LiveType, HeapInv, MallocSmallFromTree
  PROVE  HeapInv'
<1>1. HeapSound /\ FrameInv /\ pc = "malloc" /\ SmallFromTree
  BY DEF HeapInv, MallocSmallFromTree
<1>2. UNCHANGED <<top, topsize, segs, least_addr>>
  BY DEF MallocSmallFromTree, FromBinsFrame, system
<1>3. PICK p \in Smallest(Large) :
        /\ IF TooSmall(SizeOf(p) - nb) THEN TakeWhole(p) ELSE SplitIntoDv(p)
        /\ Return(p)
  BY DEF MallocSmallFromTree
<1>4. p \in bins /\ ~ is_small(SizeOf(p))
  BY DEF Smallest, Large
<1>5. SizeOf(p) \in Int /\ SizeOf(p) >= 256
  BY <1>1, <1>4, InBin, SmallBin
<1>6. nb \in Int /\ nb < 256
  BY <1>1, SmallNb, NbIs DEF SmallFromTree
<1>7. min_chunk_size \in Int
  BY Constants
<1>8. TooSmall(SizeOf(p) - nb) <=> SizeOf(p) < nb + min_chunk_size
  BY <1>5, <1>6, <1>7 DEF TooSmall
<1>9. SizeOf(p) >= nb /\ (SizeOf(p) < nb + min_chunk_size \/ SizeOf(p) >= nb + min_chunk_size)
  <2> HIDE DEF nb, SizeOf, min_chunk_size
  <2> QED
    BY <1>5, <1>6, <1>7
<1> QED
  BY <1>1, <1>2, <1>3, <1>4, <1>8, <1>9, Taken

\* malloc takes the smallest chunk of the trees that fits.
LEMMA LargeFromTreeStep ==
  ASSUME SystemType, CallType, LiveType, HeapInv, MallocLargeFromTree
  PROVE  HeapInv'
<1>1. HeapSound /\ FrameInv /\ pc = "malloc"
  BY DEF HeapInv, MallocLargeFromTree
<1>2. UNCHANGED <<top, topsize, segs, least_addr>>
  BY DEF MallocLargeFromTree, FromBinsFrame, system
<1>3. PICK p \in Smallest(Fitting) :
       /\ \/ TooSmall(SizeOf(p) - nb) /\ TakeWhole(p)
          \/ /\ ~ TooSmall(SizeOf(p) - nb)
             /\ mem' = set_size_and_pinuse_of_free_chunk(
                         set_size_and_pinuse_of_inuse_chunk(mem, p, nb), p + nb, SizeOf(p) - nb)
             /\ bins' = (bins \ {p}) \cup {p + nb}
             /\ UNCHANGED <<dv, dvsize>>
       /\ Return(p)
  BY DEF MallocLargeFromTree
<1>4. p \in bins /\ SizeOf(p) >= nb
  BY DEF Smallest, Fitting, Large
<1>5. SizeOf(p) \in Int
  BY <1>1, <1>4, InBin
<1>6. nb \in Int
  BY <1>1, NbIs
<1>7. min_chunk_size \in Int
  BY Constants
<1>8. TooSmall(SizeOf(p) - nb) <=> SizeOf(p) < nb + min_chunk_size
  BY <1>5, <1>6, <1>7 DEF TooSmall
<1>9. SizeOf(p) < nb + min_chunk_size \/ SizeOf(p) >= nb + min_chunk_size
  BY <1>5, <1>6, <1>7
<1>10. CASE TooSmall(SizeOf(p) - nb) /\ TakeWhole(p)
  BY <1>1, <1>2, <1>3, <1>4, <1>8, <1>10, Taken
<1>11. CASE ~ TooSmall(SizeOf(p) - nb)
  BY <1>1, <1>2, <1>3, <1>4, <1>8, <1>9, <1>11, Taken
<1> QED
  BY <1>3, <1>10, <1>11

\* malloc refuses: the client is told that there is nothing.
LEMMA FailedStep ==
  ASSUME SystemType, CallType, LiveType, HeapInv, MallocRefused \/ SysAllocFails
  PROVE  HeapInv'
<1>1. pc = "malloc" /\ Finish(NULL) /\ UNCHANGED <<heap, system>>
  BY DEF MallocRefused, SysAllocFails, NeedsSystem, NotFromBins
<1>2. HeapSound' /\ TopInv' /\ SegsInv' /\ Records' = Records
  BY <1>1 DEF HeapInv, HeapSound, TopInv, SegsInv, TopEnd, Segs, Record, Records, heap, system
<1>3. /\ Clients' = Clients /\ Held' = Held /\ Clients' \cap InHand' = {}
      /\ UNCHANGED live /\ FrameInv'
  BY <1>1, FinishNull
<1>4. OwnersInv'
  BY <1>1, <1>2, <1>3 DEF HeapInv, OwnersInv, heap
<1>5. BlocksInv'
  BY <1>1, <1>3 DEF HeapInv, BlocksInv, heap
<1> QED
  BY <1>2, <1>3, <1>4, <1>5 DEF HeapInv

\* malloc takes the designated victim, or the front of it.
LEMMA DvStep ==
  ASSUME SystemType, CallType, LiveType, HeapInv, MallocDv
  PROVE  HeapInv'
<1>1. /\ HeapSound /\ TopInv /\ FrameInv /\ pc = "malloc" /\ nb <= dvsize /\ Return(dv)
      /\ UNCHANGED <<bins, top, topsize, segs, least_addr>>
  BY DEF HeapInv, MallocDv, NotFromBins, system
<1>2. Sound(mem, Segs, TopEnd, bins, dv, dvsize, top, topsize)
  BY <1>1 DEF HeapSound
<1>3. nb \in Int /\ Aligned(nb) /\ nb >= min_chunk_size /\ nb > 0 /\ min_chunk_size \in Int
  BY <1>1, NbIs, Constants
<1>4. dvsize \in Int /\ dv # NULL
  <2>1. dvsize \in Int /\ (dvsize = 0 <=> dv = NULL)
    BY <1>2, VictimSize
  <2> QED
    BY <1>1, <1>3, <2>1
<1>5. dv \in DOMAIN mem /\ dvsize = HeaderAt(mem, dv).size /\ dv \in Int
  BY <1>2, <1>4, VictimFacts, SoundHeap, HeaderIs
<1>6. top # NULL /\ TopEnd \in Int
  BY <1>1, <1>5, Inhabited
<1>7. CASE /\ ~ TooSmall(dvsize - nb)
           /\ mem' = set_size_and_pinuse_of_inuse_chunk(
                       set_size_and_pinuse_of_free_chunk(mem, dv + nb, dvsize - nb), dv, nb)
           /\ dv' = dv + nb /\ dvsize' = dvsize - nb
  <2>1. PICK rest \in Int : rest = dvsize - nb
    BY <1>3, <1>4
  <2>2. PICK r \in Int : r = dv + nb
    BY <1>3, <1>5
  <2>3. rest = HeaderAt(mem, dv).size - nb /\ rest >= min_chunk_size
    BY <1>3, <1>5, <1>7, <2>1 DEF TooSmall
  <2>4. SplitOff(mem, mem', dv, nb, r, rest)
    BY <1>7, <2>1, <2>2 DEF SplitOff
  <2>7. Loose(dv, bins, dv)
    BY <1>4 DEF Loose
  <2>5. /\ Sound(mem', Segs, TopEnd, bins, r, rest, top, topsize)
        /\ Gained(mem, mem', dv, nb)
    BY <1>2, <1>3, <1>6, <2>2, <2>3, <2>4, <2>7, FrontSound
  <2>6. Sound(mem', Segs, TopEnd, bins', dv', dvsize', top', topsize')
    BY <1>1, <1>7, <2>1, <2>2, <2>5
  <2> QED
    BY <1>1, <1>6, <2>5, <2>6, Handed
<1>8. CASE /\ TooSmall(dvsize - nb)
           /\ mem' = set_inuse_and_pinuse(mem, dv, dvsize)
           /\ dv' = NULL /\ dvsize' = 0
  <2>1. dvsize < nb + min_chunk_size
    BY <1>3, <1>4, <1>8 DEF TooSmall
  <2>2. /\ Sound(mem', Segs, TopEnd, bins, NULL, 0, top, topsize)
        /\ Gained(mem, mem', dv, nb)
    <3>1. Loose(dv, bins, dv)
      BY <1>4 DEF Loose
    <3>2. dvsize \in Int /\ nb \in Int /\ TopEnd \in Int
      BY <1>3, <1>4, <1>6
    <3>3. Fits(nb, dvsize)
      BY <1>1, <2>1 DEF Fits
    <3>4. mem' = set_inuse_and_pinuse(mem, dv, dvsize)
      BY <1>8
    <3>5. dvsize = HeaderAt(mem, dv).size
      BY <1>5
    <3> HIDE DEF nb
    <3> QED
      BY <1>2, <3>1, <3>2, <3>3, <3>4, <3>5, WholeSound
  <2>3. Sound(mem', Segs, TopEnd, bins', dv', dvsize', top', topsize')
    BY <1>1, <1>8, <2>2
  <2> QED
    BY <1>1, <1>6, <2>2, <2>3, Handed
<1> QED
  BY <1>7, <1>8 DEF MallocDv

\* The front of a top chunk is handed out: what TakeFromTop writes.
LEMMA FromTop ==
  ASSUME NEW m, NEW S, NEW e \in Int, NEW t \in Int, NEW ts,
         Sound(m, S, e, bins', dv', dvsize', t, ts), t # NULL,
         CallType, pc = "malloc", FrameInv, TakeFromTop(m, t, ts)
  PROVE  /\ Sound(mem', S, e, bins', dv', dvsize', top', topsize') /\ Gained(m, mem', t, nb)
         /\ Return(t) /\ top' # NULL
<1>1. /\ nb < ts /\ Return(t)
      /\ mem' = set_size_and_pinuse_of_inuse_chunk(SetHead(m, t + nb, ts - nb, TRUE, FALSE), t, nb)
      /\ top' = t + nb /\ topsize' = ts - nb
  BY DEF TakeFromTop
<1>2. nb \in Int /\ Aligned(nb) /\ nb >= min_chunk_size /\ nb > 0
  BY NbIs
<1>3. ts \in Int
  <2>1. t \in DOMAIN m /\ ts = m[t].size
    BY TopFacts
  <2> QED
    BY <2>1, SoundHeap, ChunkFacts
<1>4. PICK rest \in Int : rest = ts - nb
  BY <1>2, <1>3
<1>5. PICK r \in Int : r = t + nb
  BY <1>2
<1>6. rest > 0 /\ mem' = FrontOfTop(m, t, ts, nb)
  <2>1. rest > 0
    BY <1>1, <1>2, <1>3, <1>4
  <2> QED
    BY <1>1, <2>1 DEF FrontOfTop, TopFrom
<1>7. Sound(mem', S, e, bins', dv', dvsize', r, rest) /\ Gained(m, mem', t, nb)
  BY <1>2, <1>4, <1>5, <1>6, TopSound
<1>8. r # NULL
  <2>1. t > 0
    <3>1. t \in DOMAIN m
      BY TopFacts
    <3> QED
      BY <3>1, SoundHeap, ChunkFacts
  <2> QED
    BY <1>2, <1>5, <2>1 DEF NULL
<1> QED
  BY <1>1, <1>4, <1>5, <1>7, <1>8

\* malloc takes the front of top.
LEMMA TopStep ==
  ASSUME SystemType, CallType, LiveType, HeapInv, MallocTop
  PROVE  HeapInv'
<1>1. /\ HeapSound /\ TopInv /\ FrameInv /\ pc = "malloc" /\ TakeFromTop(mem, top, topsize)
      /\ nb > dvsize /\ UNCHANGED <<bins, dv, dvsize, segs, least_addr>>
  BY DEF HeapInv, MallocTop, NotFromBins, system
<1>2. Sound(mem, Segs, TopEnd, bins, dv, dvsize, top, topsize)
  BY <1>1 DEF HeapSound
<1>3. top # NULL
  <2>1. nb < topsize /\ nb \in Int /\ nb > 0
    BY <1>1, NbIs DEF TakeFromTop
  <2>2. top = NULL => topsize = 0
    <3>1. NULL \notin DOMAIN mem /\ topsize = HeaderAt(mem, top).size
      BY <1>2, SoundHeap DEF Sound
    <3> QED
      BY <3>1, NoHeader
  <2> QED
    BY <2>1, <2>2
<1>4. TopEnd \in Int /\ top \in Int
  <2>1. segs # << >>
    BY <1>1, <1>3 DEF TopInv
  <2> QED
    BY <1>1, <2>1, Inhabited
<1>5. Sound(mem, Segs, TopEnd, bins', dv', dvsize', top, topsize)
  BY <1>1, <1>2
<1>6. /\ Sound(mem', Segs, TopEnd, bins', dv', dvsize', top', topsize') /\ Gained(mem, mem', top, nb)
      /\ Return(top) /\ top' # NULL
  BY <1>1, <1>3, <1>4, <1>5, FromTop
<1> QED
  BY <1>1, <1>3, <1>6, Handed

-----------------------------------------------------------------------------
(* sys_alloc *)

\* malloc has made chunk p of memory k, in which the client has what it had.
LEMMA HandedFrom ==
  ASSUME CallType, LiveType, BlocksInv, FrameInv, pc = "malloc",
         NEW k, Owners(k, Clients, Records'), \A a \in Clients : k[a].size = mem[a].size,
         NEW p, Gained(k, mem', p, nb), Return(p)
  PROVE  OwnersInv' /\ BlocksInv' /\ FrameInv'
<1>1. nb \in Int /\ nb >= min_chunk_size
  BY NbIs
<1>2. PICK G : \A a : a \in G <=> a \in Clients \/ a = p
  <2>1. \A a : a \in Clients \cup {p} <=> a \in Clients \/ a = p
    OBVIOUS
  <2> QED
    BY <2>1
<1>3. Owners(mem', G, Records') /\ p \notin Clients
  BY <1>1, <1>2, OwnersGained
<1>4. /\ p \in Int /\ p > 0 /\ Aligned(p) /\ \A a \in UsedOf(k) : mem'[a].size = k[a].size
      /\ mem'[p].size \in Int /\ nb <= mem'[p].size /\ mem'[p].size < nb + min_chunk_size
  BY DEF Gained
<1>5. \A a \in Clients : mem'[a].size = mem[a].size
  BY <1>4 DEF Owners
<1> QED
  BY <1>2, <1>3, <1>4, <1>5, Returned

\* What the new list of segments has to satisfy.
LEMMA HeapMade ==
  ASSUME SystemType', segs' # << >>, top' # NULL, NEW e, e = segment_top(segs'[1]),
         Sound(mem', Segs', e, bins', dv', dvsize', top', topsize'),
         segs'[1].base + top_foot_size <= e, segs'[1].rec = NULL
  PROVE  HeapSound' /\ TopInv'
<1>1. 1 \in DOMAIN segs' /\ segs'[1] \in Segment
  BY DEF SystemType
<1>2. segs'[1] \in Segs'
  BY <1>1 DEF Segs
<1>3. e \in Int
  BY <1>1, FirstChunkFacts
<1>4. FirstChunk(segs'[1]) <= top'
  BY <1>2, <1>3, TopPlace
<1>5. TopEnd' = e
  BY DEF TopEnd
<1> QED
  BY <1>4, <1>5 DEF HeapSound, TopInv

\* The system's answer as a segment.
LEMMA RegionFacts ==
  ASSUME TypeOK, HeapInv, pc = "malloc", NEW r \in Regions,
         NEW g, g = segment(r.base, r.size, r.flags, NULL)
  PROVE  /\ g \in Segment /\ g.base = r.base /\ g.size = r.size /\ g.flags = r.flags /\ g.rec = NULL
         /\ r.base \in Int /\ r.size \in Int /\ r.base > 0
         /\ segment_top(g) = segment_top(r) /\ segment_top(r) = r.base + r.size
         /\ \A x \in Segs : Apart(x, g)
         /\ r.size >= nb + top_foot_size + malloc_alignment
         /\ FirstChunk(g) = TopAt(r.base) /\ TopAt(r.base) \in Int
         /\ r.base <= TopAt(r.base) /\ TopAt(r.base) < r.base + malloc_alignment
<1>1. /\ r.base \in Int /\ r.size \in Int /\ r.flags \in Int
      /\ r.base > 0 /\ r.size >= nb + top_foot_size + malloc_alignment
  BY RegionsType
<1>2. /\ g.base = r.base /\ g.size = r.size /\ g.flags = r.flags /\ g.rec = NULL
  BY DEF segment
<1>3. g \in Segment
  BY <1>1 DEF segment, Segment, NULL
<1>4. segment_top(g) = segment_top(r) /\ segment_top(r) = r.base + r.size
  BY <1>2 DEF segment_top
<1>5. \A x \in Segs : Apart(x, g)
  <2>1. \A x \in Segs : segment_top(r) <= x.base \/ segment_top(x) <= r.base
    BY DEF Regions
  <2> QED
    BY <1>2, <1>4, <2>1 DEF Apart
<1>6. FirstChunk(g) = TopAt(r.base)
  BY <1>2 DEF FirstChunk, TopAt
<1>7. /\ TopAt(r.base) \in Int /\ r.base <= TopAt(r.base)
      /\ TopAt(r.base) < r.base + malloc_alignment
  BY <1>1, AsChunk DEF TopAt
<1> QED
  BY <1>1, <1>2, <1>3, <1>4, <1>5, <1>6, <1>7

\* Where init_top puts the top of a new segment.
LEMMA RegionTop ==
  ASSUME TypeOK, HeapInv, pc = "malloc", NEW r \in Regions,
         NEW lo, lo = TopAt(r.base), NEW size, size = TopSize(r.base, r.size - top_foot_size)
  PROVE  /\ lo \in Int /\ size \in Int /\ size > 0 /\ lo > 0
         /\ lo + size + top_foot_size = segment_top(r)
         /\ InitTop(mem, r.base, r.size - top_foot_size) = TopFrom(mem, lo, size)
<1>1. PICK g : g = segment(r.base, r.size, r.flags, NULL)
  OBVIOUS
<1>2. /\ r.base \in Int /\ r.size \in Int /\ r.base > 0
      /\ segment_top(r) = r.base + r.size
      /\ r.size >= nb + top_foot_size + malloc_alignment
      /\ lo \in Int /\ r.base <= lo /\ lo < r.base + malloc_alignment
  BY <1>1, RegionFacts
<1>3. size = r.size - top_foot_size - (lo - r.base)
  BY DEF TopSize, TopAt
<1>4. nb \in Int /\ nb > 0
  BY NbIs, TypeParts DEF HeapInv
<1>5. top_foot_size \in Int /\ malloc_alignment \in Int
  BY Constants
<1>6. size \in Int /\ size > 0 /\ lo > 0 /\ lo + size + top_foot_size = segment_top(r)
  <2> HIDE DEF nb, top_foot_size, malloc_alignment, segment_top, TopAt, TopSize
  <2> QED
    BY <1>2, <1>3, <1>4, <1>5
<1>7. InitTop(mem, r.base, r.size - top_foot_size) = TopFrom(mem, lo, size)
  BY DEF InitTop, TopFrom
<1> QED
  BY <1>2, <1>6, <1>7

\* malloc serves the request from a new or a longer top.
LEMMA ServedFromTop ==
  ASSUME SystemType', CallType, LiveType, BlocksInv, FrameInv, pc = "malloc",
         NEW k, NEW t \in Int, NEW ts, NEW e \in Int, e = segment_top(segs'[1]),
         Sound(k, Segs', e, bins', dv', dvsize', t, ts), t # NULL, TakeFromTop(k, t, ts),
         Owners(k, Clients, Records'), \A a \in Clients : k[a].size = mem[a].size,
         segs' # << >>, segs'[1].base + top_foot_size <= e, segs'[1].rec = NULL, SegsInv'
  PROVE  HeapInv'
<1>1. /\ Sound(mem', Segs', e, bins', dv', dvsize', top', topsize') /\ Gained(k, mem', t, nb)
      /\ Return(t) /\ top' # NULL
  BY FromTop
<1>2. HeapSound' /\ TopInv'
  BY <1>1, HeapMade
<1>3. OwnersInv' /\ BlocksInv' /\ FrameInv'
  BY <1>1, HandedFrom
<1> QED
  BY <1>2, <1>3 DEF HeapInv

\* The parts of the invariant, and of the type, that a step of malloc starts from.
LEMMA MallocParts ==
  ASSUME TypeOK, HeapInv, NeedsSystem
  PROVE  /\ SystemType /\ CallType /\ LiveType /\ pc = "malloc"
         /\ HeapSound /\ TopInv /\ SegsInv /\ BlocksInv /\ FrameInv
         /\ Sound(mem, Segs, TopEnd, bins, dv, dvsize, top, topsize)
         /\ Owners(mem, Clients, Records)
<1>1. pc = "malloc"
  BY DEF NeedsSystem, NotFromBins
<1>2. Held = Clients
  BY <1>1, NoneInHand
<1> QED
  BY <1>1, <1>2, TypeParts DEF HeapInv, HeapSound, OwnersInv

\* sys_alloc obtains the first segment.
LEMMA SysAllocInitStep ==
  ASSUME TypeOK, HeapInv, SysAllocInit
  PROVE  HeapInv'
<1>1. /\ SystemType /\ CallType /\ LiveType /\ pc = "malloc"
      /\ HeapSound /\ TopInv /\ SegsInv /\ BlocksInv /\ FrameInv
      /\ Sound(mem, Segs, TopEnd, bins, dv, dvsize, top, topsize)
      /\ Owners(mem, Clients, Records)
  BY MallocParts DEF SysAllocInit
<1>2. top = NULL /\ UNCHANGED <<bins, dv, dvsize>>
  BY DEF SysAllocInit
<1>3. segs = << >> /\ DOMAIN mem = {} /\ Segs = {}
  <2>1. segs = << >> /\ DOMAIN mem = {}
    BY <1>1, <1>2, Inhabited
  <2> QED
    BY <2>1 DEF Segs
<1>4. PICK r \in Regions :
        /\ least_addr' = IF least_addr = NULL \/ r.base < least_addr THEN r.base ELSE least_addr
        /\ segs' = << segment(r.base, r.size, r.flags, NULL) >>
        /\ TakeFromTop(InitTop(mem, r.base, r.size - top_foot_size), TopAt(r.base),
                       TopSize(r.base, r.size - top_foot_size))
  BY DEF SysAllocInit
<1>5. PICK g : g = segment(r.base, r.size, r.flags, NULL)
  OBVIOUS
<1>6. /\ g \in Segment /\ g.base = r.base /\ g.rec = NULL /\ r.base > 0 /\ r.base \in Int
      /\ r.size \in Int /\ r.size >= nb + top_foot_size + malloc_alignment
      /\ segment_top(g) = segment_top(r) /\ segment_top(r) = r.base + r.size
      /\ \A x \in Segs : Apart(x, g)
      /\ FirstChunk(g) = TopAt(r.base)
  BY <1>1, <1>5, RegionFacts
<1>7. PICK lo \in Int : lo = TopAt(r.base)
  BY <1>1, RegionTop
<1>8. PICK size \in Int : size = TopSize(r.base, r.size - top_foot_size)
  BY <1>1, RegionTop
<1>9. PICK k : k = TopFrom(mem, lo, size)
  OBVIOUS
<1>10. /\ size > 0 /\ lo > 0 /\ lo + size + top_foot_size = segment_top(r)
       /\ TakeFromTop(k, lo, size)
  BY <1>1, <1>4, <1>7, <1>8, <1>9, RegionTop
<1>11. /\ segs' # << >> /\ segs'[1] = g /\ DOMAIN segs' = {1} /\ Segs' = {g}
  BY <1>4, <1>5 DEF Segs
<1>12. PICK e \in Int : e = segment_top(g)
  BY <1>6
<1>13. Sound(k, Segs', e, bins', dv', dvsize', lo, size) /\ SameUsed(mem, k)
  <2>1. PICK hi \in Int : hi = lo + size
    OBVIOUS
  <2>2. hi \notin DOMAIN mem /\ IsMem(mem) /\ Heap(mem, Segs, top) /\ top \in Int /\ dv \in Int
    BY <1>1, <1>3, SoundHeap
  <2>3. IsMem(k) /\ Cut(mem, k, lo, hi, hi) /\ ~ k[lo].cinuse /\ k[lo].pinuse
    BY <1>9, <1>10, <2>1, <2>2, WriteEnd
  <2>4. /\ dv \notin bins /\ \A a : a \in FreeOf(mem) <=> a \in bins \/ (a = dv /\ dv # NULL)
        /\ dvsize = HeaderAt(mem, dv).size
    BY <1>1, <1>2 DEF Sound, Binned
  <2>5. \A x : x \in Segs' <=> x \in Segs \/ x = g
    BY <1>3, <1>11
  <2>6. top \notin DOMAIN mem
    BY <1>3
  <2>7. lo + size + top_foot_size = segment_top(g) /\ lo = FirstChunk(g) /\ g.base > 0
    BY <1>6, <1>7, <1>10
  <2>8. size > 0 /\ g \in Segment /\ \A x \in Segs : Apart(x, g)
    BY <1>6, <1>10
  <2>9. Heap(mem, Segs, top) /\ top \in Int /\ dv \in Int
    BY <2>2
  <2>10. Sound(k, Segs', segment_top(g), bins, dv, dvsize, lo, size) /\ SameUsed(mem, k)
    <3>1. Topless(mem, Segs, top, bins, dv, dvsize)
      BY <2>4, <2>6, <2>9 DEF Topless
    <3>2. OneMore(Segs, Segs', g, lo, size, hi)
      BY <2>1, <2>5, <2>7, <2>8 DEF OneMore
    <3> QED
      BY <2>1, <2>3, <2>8, <2>9, <3>1, <3>2, NewTop
  <2> QED
    BY <1>2, <1>12, <2>10
<1>14. Records' = Records
  BY <1>3, <1>11 DEF Records
<1>15. Owners(k, Clients, Records') /\ \A a \in Clients : k[a].size = mem[a].size
  <2>1. Owners(k, Clients, Records')
    BY <1>1, <1>13, <1>14, OwnersSame
  <2> QED
    BY <1>1, <1>13, <2>1 DEF Owners, SameUsed
<1>16. SegsInv'
  <2>1. g.base >= least_addr'
    BY <1>1, <1>4, <1>6 DEF SystemType
  <2> QED
    BY <1>11, <2>1 DEF SegsInv
<1>17. g.base + top_foot_size <= e
  <2>1. malloc_alignment > 0 /\ malloc_alignment \in Int /\ top_foot_size \in Int
    BY Constants
  <2>2. nb \in Int /\ nb > 0
    BY <1>1, NbIs
  <2> HIDE DEF nb, top_foot_size, malloc_alignment, segment_top
  <2> QED
    BY <1>6, <1>12, <2>1, <2>2
<1>18. SystemType' /\ lo # NULL
  BY <1>10, SysAllocInitType, TypePartsPrime DEF NULL
<1> QED
  BY <1>1, <1>6, <1>10, <1>11, <1>12, <1>13, <1>15, <1>16, <1>17, <1>18, ServedFromTop

\* The foot of top is in its segment.
LEMMA TopRoom ==
  ASSUME SystemType, HeapSound, TopInv, top # NULL
  PROVE  /\ segs # << >> /\ 1 \in DOMAIN segs /\ segs[1] \in Segs /\ segs[1] \in Segment
         /\ TopEnd = segment_top(segs[1]) /\ TopEnd \in Int
         /\ top \in DOMAIN mem /\ top \in Int /\ holds(segs[1], top) /\ FirstChunk(segs[1]) <= top
         /\ segs[1].base + top_foot_size <= TopEnd /\ segs[1].rec = NULL
<1>1. segs # << >> /\ segs[1].rec = NULL
  BY DEF TopInv
<1>2. /\ segs[1] \in Segs /\ segs[1] \in Segment /\ TopEnd = segment_top(segs[1])
      /\ TopEnd \in Int /\ FirstChunk(segs[1]) <= top /\ top \in DOMAIN mem /\ top \in Int
      /\ holds(segs[1], top) /\ 1 \in DOMAIN segs
  BY <1>1, Inhabited
<1>3. segs[1].base + top_foot_size <= TopEnd
  <2>1. End(mem, top) + top_foot_size = TopEnd
    BY <1>2, TopFacts DEF HeapSound
  <2>2. End(mem, top) \in Int /\ top < End(mem, top)
    <3>1. Heap(mem, Segs, top)
      BY SoundHeap DEF HeapSound
    <3> QED
      BY <1>2, <3>1, ChunkFacts
  <2>3. segs[1].base <= FirstChunk(segs[1]) /\ segs[1].base \in Int /\ FirstChunk(segs[1]) \in Int
    BY <1>2, FirstChunkFacts
  <2>4. top_foot_size \in Int
    BY Constants
  <2> HIDE DEF top_foot_size, segment_top, FirstChunk, End, TopEnd
  <2> QED
    BY <1>2, <2>1, <2>2, <2>3, <2>4
<1> QED
  BY <1>1, <1>2, <1>3

\* Another segment in the place of one of the list.
LEMMA SegsReplaced ==
  ASSUME SystemType, SegsInv, Mapped(Segs), NEW i \in DOMAIN segs, NEW g,
         segs' = [segs EXCEPT ![i] = g]
  PROVE  /\ Replaced(Segs, Segs', segs[i], g) /\ DOMAIN segs' = DOMAIN segs /\ segs' # << >>
         /\ segs'[i] = g /\ \A j \in DOMAIN segs : j # i => segs'[j] = segs[j] /\ segs[j] # segs[i]
         /\ \A x \in Segs : x # segs[i] => Apart(x, segs[i])
<1>1. /\ DOMAIN segs' = DOMAIN segs /\ segs'[i] = g
      /\ \A j \in DOMAIN segs : j # i => segs'[j] = segs[j]
  OBVIOUS
<1>2. \A x \in Segs : ~ Apart(x, x)
  <2>1. ASSUME NEW x \in Segs PROVE ~ Apart(x, x)
    <3>1. x \in Segment /\ FirstChunk(x) < segment_top(x)
      BY DEF Mapped
    <3>2. x.base <= FirstChunk(x) /\ FirstChunk(x) \in Int /\ segment_top(x) \in Int /\ x.base \in Int
      BY <3>1, FirstChunkFacts
    <3> HIDE DEF FirstChunk, segment_top
    <3> QED
      BY <3>1, <3>2 DEF Apart
  <2> QED
    BY <2>1
<1>3. \A j \in DOMAIN segs : j # i => segs[j] # segs[i] /\ Apart(segs[j], segs[i])
  BY <1>2 DEF SegsInv, Segs
<1>4. Replaced(Segs, Segs', segs[i], g)
  BY <1>1, <1>3 DEF Replaced, Segs
<1>5. segs' # << >>
  BY <1>1
<1> QED
  BY <1>1, <1>3, <1>4, <1>5 DEF Segs

\* A segment joined with the region behind it, or before it, is apart from the others.
LEMMA ApartJoined ==
  ASSUME NEW x \in Segment, FirstChunk(x) < segment_top(x), NEW s \in Segment, NEW r \in Segment,
         Apart(x, s), Apart(x, r), NEW g \in Segment,
         \/ segment_top(s) = r.base /\ g.base = s.base /\ segment_top(g) = segment_top(r)
         \/ segment_top(r) = s.base /\ g.base = r.base /\ segment_top(g) = segment_top(s)
  PROVE  Apart(x, g)
<1>1. /\ x.base \in Int /\ FirstChunk(x) \in Int /\ segment_top(x) \in Int /\ x.base <= FirstChunk(x)
      /\ s.base \in Int /\ segment_top(s) \in Int /\ r.base \in Int /\ segment_top(r) \in Int
      /\ g.base \in Int /\ segment_top(g) \in Int
  BY FirstChunkFacts
<1> HIDE DEF FirstChunk, segment_top
<1> QED
  BY <1>1 DEF Apart

\* A list one of whose segments has other bounds, that still hold its record.
LEMMA SegsReshaped ==
  ASSUME SystemType, SegsInv, Mapped(Segs), NEW i \in DOMAIN segs, NEW g \in Segment,
         segs' = [segs EXCEPT ![i] = g], \A x \in Segs : x # segs[i] => Apart(x, g),
         g.rec = segs[i].rec, least_addr' \in Int, least_addr' <= least_addr,
         least_addr' <= g.base, least_addr \in Int,
         i # 1 => g.base <= segs[i].base /\ segment_top(segs[i]) <= segment_top(g)
  PROVE  SegsInv' /\ Records' = Records
<1>1. /\ DOMAIN segs' = DOMAIN segs
      /\ segs'[i] = g /\ \A j \in DOMAIN segs : j # i => segs'[j] = segs[j] /\ segs[j] # segs[i]
  BY SegsReplaced
<1>2. \A j \in DOMAIN segs : segs'[j].rec = segs[j].rec
  BY <1>1
<1>3. \A j \in DOMAIN segs : Record(j)' = Record(j)
  BY <1>2 DEF Record
<1>4. Records' = Records
  BY <1>1, <1>3 DEF Records
<1>5. \A j \in DOMAIN segs : segs[j] \in Segs /\ segs[j] \in Segment
  BY SegIn
<1>6. \A j \in DOMAIN segs : j # i => Apart(segs[j], g) /\ Apart(g, segs[j])
  BY <1>1, <1>5 DEF Apart
<1>7. \A j, k \in DOMAIN segs' : j # k => Apart(segs'[j], segs'[k])
  BY <1>1, <1>6 DEF SegsInv
<1>8. ASSUME NEW j \in DOMAIN segs \ {1}
      PROVE  segs'[j].base <= Record(j) /\ Record(j) + segment_record_size < segment_top(segs'[j])
  <2>1. /\ segs[j].base <= Record(j) /\ Record(j) + segment_record_size < segment_top(segs[j])
    BY DEF SegsInv
  <2>2. CASE j # i
    BY <1>1, <2>1, <2>2
  <2>3. CASE j = i
    <3>1. /\ segs[j].base \in Int /\ segment_top(segs[j]) \in Int /\ g.base \in Int /\ segment_top(g) \in Int
      BY <1>5, FirstChunkFacts
    <3>2. Record(j) \in Int /\ segment_record_size \in Int
      BY Constants, SegmentFields DEF Record, from_mem
    <3>3. g.base <= segs[j].base /\ segment_top(segs[j]) <= segment_top(g) /\ segs'[j] = g
      BY <1>1, <2>3
    <3> HIDE DEF segment_top, Record, segment_record_size
    <3> QED
      BY <2>1, <3>1, <3>2, <3>3
  <2> QED
    BY <2>2, <2>3
<1>9. \A j \in DOMAIN segs' : segs'[j].base >= least_addr'
  <2>1. ASSUME NEW j \in DOMAIN segs' PROVE segs'[j].base >= least_addr'
    <3>1. segs[j].base \in Int /\ segs[j].base >= least_addr
      BY <1>1, <2>1, SegmentFields DEF SegsInv
    <3>2. g.base \in Int
      BY DEF Segment
    <3> QED
      BY <1>1, <2>1, <3>1, <3>2
  <2> QED
    BY <2>1
<1> QED
  BY <1>1, <1>3, <1>4, <1>7, <1>8, <1>9 DEF SegsInv

\* Where there is no chunk because the system gives the memory there.
LEMMA NoChunkIn ==
  ASSUME TypeOK, HeapInv, pc = "malloc", NEW r \in Regions, NEW a \in DOMAIN mem
  PROVE  a \in Int /\ (a < r.base \/ a >= segment_top(r))
<1>1. PICK g : g = segment(r.base, r.size, r.flags, NULL)
  OBVIOUS
<1>2. /\ g \in Segment /\ g.base = r.base /\ segment_top(g) = segment_top(r) /\ r.base \in Int
      /\ \A x \in Segs : Apart(x, g)
  BY <1>1, RegionFacts
<1>3. Heap(mem, Segs, top)
  BY SoundHeap DEF HeapInv, HeapSound
<1>4. a \in Int /\ End(mem, a) \in Int /\ a < End(mem, a) /\ (End(mem, a) < g.base \/ a >= segment_top(g))
  BY <1>2, <1>3, OutsideRegion
<1> HIDE DEF End, segment_top
<1> QED
  BY <1>2, <1>4

\* sys_alloc extends the newest segment.
LEMMA SysAllocExtendStep ==
  ASSUME TypeOK, HeapInv, SysAllocExtend
  PROVE  HeapInv'
<1>1. /\ SystemType /\ CallType /\ LiveType /\ pc = "malloc"
      /\ HeapSound /\ TopInv /\ SegsInv /\ BlocksInv /\ FrameInv
      /\ Sound(mem, Segs, TopEnd, bins, dv, dvsize, top, topsize)
      /\ Owners(mem, Clients, Records)
  BY MallocParts DEF SysAllocExtend
<1>2. top # NULL /\ UNCHANGED <<bins, dv, dvsize, least_addr>>
  BY DEF SysAllocExtend
<1>3. /\ 1 \in DOMAIN segs /\ segs[1] \in Segs /\ segs[1] \in Segment
      /\ TopEnd = segment_top(segs[1]) /\ TopEnd \in Int
      /\ top \in DOMAIN mem /\ top \in Int /\ FirstChunk(segs[1]) <= top
      /\ segs[1].base + top_foot_size <= TopEnd /\ segs[1].rec = NULL
  BY <1>1, <1>2, TopRoom
<1>a. PICK r \in Regions : \E i \in ExtendedBy(r) :
       /\ segs' = [segs EXCEPT ![i] = segment(@.base, @.size + r.size, @.flags, @.rec)]
       /\ TakeFromTop(InitTop(mem, top, topsize + r.size), TopAt(top), TopSize(top, topsize + r.size))
  BY DEF SysAllocExtend
<1>4. PICK i \in ExtendedBy(r) :
       /\ segs' = [segs EXCEPT ![i] = segment(@.base, @.size + r.size, @.flags, @.rec)]
       /\ TakeFromTop(InitTop(mem, top, topsize + r.size), TopAt(top), TopSize(top, topsize + r.size))
  BY <1>a
<1>5. i = 1 /\ segment_top(segs[1]) = r.base
  <2>1. i \in DOMAIN segs /\ holds(segs[i], top) /\ segment_top(segs[i]) = r.base
    BY DEF ExtendedBy
  <2> QED
    BY <1>1, <2>1, TopSegment
<1>6. PICK gr : gr = segment(r.base, r.size, r.flags, NULL)
  OBVIOUS
<1>7. /\ gr \in Segment /\ gr.base = r.base /\ r.base \in Int
      /\ r.size \in Int /\ r.size >= nb + top_foot_size + malloc_alignment
      /\ segment_top(gr) = segment_top(r) /\ segment_top(r) = r.base + r.size
      /\ \A x \in Segs : Apart(x, gr)
  BY <1>1, <1>6, RegionFacts
<1>8. PICK g : g = segment(segs[1].base, segs[1].size + r.size, segs[1].flags, segs[1].rec)
  OBVIOUS
<1>9. segs' = [segs EXCEPT ![1] = g]
  BY <1>4, <1>5, <1>8
<1>10. /\ g \in Segment /\ g.base = segs[1].base /\ g.size = segs[1].size + r.size /\ g.rec = segs[1].rec
       /\ segs[1].base \in Int
  BY <1>3, <1>7, <1>8, SegmentType DEF segment, Segment
<1>11. segment_top(g) = segment_top(gr)
  BY <1>3, <1>5, <1>7, <1>10 DEF segment_top, Segment
<1>12. Mapped(Segs) /\ Heap(mem, Segs, top)
  BY <1>1, SoundHeap
<1>13. \A x \in Segs : x # segs[1] => Apart(x, g)
  <2>1. ASSUME NEW x \in Segs, x # segs[1] PROVE Apart(x, g)
    <3>1. x \in Segment /\ FirstChunk(x) < segment_top(x)
      BY <1>12 DEF Mapped
    <3>2. Apart(x, segs[1])
      BY <1>1, <1>3, <1>9, <1>12, <2>1, SegsReplaced
    <3>3. Apart(x, gr)
      BY <1>7
    <3> QED
      BY <1>3, <1>5, <1>7, <1>10, <1>11, <3>1, <3>2, <3>3, ApartJoined
  <2> QED
    BY <2>1
<1>14. /\ Replaced(Segs, Segs', segs[1], g) /\ segs' # << >> /\ segs'[1] = g
  BY <1>1, <1>3, <1>9, <1>12, SegsReplaced
<1>15. nb \in Int /\ nb > 0 /\ top_foot_size \in Int /\ malloc_alignment \in Int /\ malloc_alignment > 0
       /\ top_foot_size > 0
  BY <1>1, NbIs, Constants
<1>16. SegsInv' /\ Records' = Records
  <2>1. least_addr \in Int /\ least_addr <= g.base /\ least_addr' = least_addr
    BY <1>1, <1>2, <1>3, <1>10 DEF SystemType, SegsInv
  <2>2. least_addr' \in Int /\ least_addr' <= least_addr /\ least_addr' <= g.base
    BY <2>1
  <2>3. g \in Segment /\ g.rec = segs[1].rec /\ SystemType /\ SegsInv /\ 1 \in DOMAIN segs
    BY <1>1, <1>3, <1>10
  <2> QED
    BY <1>9, <1>12, <1>13, <2>1, <2>2, <2>3, SegsReshaped
<1>17. PICK more \in Int : more = r.size
  BY <1>7
<1>18. topsize \in Int /\ Aligned(top) /\ topsize > 0
  <2>1. topsize = mem[top].size /\ Aligned(top)
    BY <1>1, <1>2, <1>3, TopFacts
  <2>2. mem[top].size \in Int /\ mem[top].size > 0
    BY <1>3, <1>12, ChunkFacts
  <2> QED
    BY <2>1, <2>2
<1>19. PICK size \in Int : size = topsize + more
  BY <1>18
<1>20. TopAt(top) = top /\ TopSize(top, size) = size
  <2>1. align_as_chunk(top) = top
    BY <1>3, <1>18, AsChunk
  <2> QED
    BY <1>3, <2>1 DEF TopAt, TopSize
<1>21. PICK k : k = TopFrom(mem, top, size)
  OBVIOUS
<1>22. TakeFromTop(k, top, size)
  <2>1. InitTop(mem, top, size) = k
    BY <1>20, <1>21 DEF InitTop, TopFrom
  <2> QED
    BY <1>4, <1>17, <1>19, <1>20, <2>1
<1>23. more >= 0 /\ TopEnd + more = segment_top(g)
  <2> HIDE DEF nb, top_foot_size, malloc_alignment, segment_top, TopEnd
  <2> QED
    BY <1>3, <1>5, <1>7, <1>11, <1>15, <1>17
<1>24. \A a \in DOMAIN mem : a <= top \/ a >= TopEnd + more
  <2>1. ASSUME NEW a \in DOMAIN mem PROVE a <= top \/ a >= TopEnd + more
    <3>1. a <= top \/ a >= TopEnd
      BY <1>1, <1>2, <1>3, TopFacts
    <3>2. a \in Int /\ (a < r.base \/ a >= segment_top(r))
      BY <1>1, NoChunkIn
    <3> HIDE DEF segment_top, TopEnd
    <3> QED
      BY <1>3, <1>5, <1>7, <1>17, <3>1, <3>2
  <2> QED
    BY <2>1
<1>25. PICK e \in Int : e = TopEnd + more
  BY <1>3
<1>26. Sound(k, Segs', e, bins, dv, dvsize, top, size) /\ SameUsed(mem, k)
  <2>1. g.size = segs[1].size + more /\ segment_top(segs[1]) = TopEnd
    BY <1>3, <1>10, <1>17
  <2>2. Sound(k, Segs', TopEnd + more, bins, dv, dvsize, top, size) /\ SameUsed(mem, k)
    BY <1>1, <1>2, <1>3, <1>10, <1>13, <1>14, <1>19, <1>21, <1>23, <1>24, <2>1, ExtendedSound
  <2> QED
    BY <1>25, <2>2
<1>27. Owners(k, Clients, Records') /\ \A a \in Clients : k[a].size = mem[a].size
  <2>1. Owners(k, Clients, Records')
    BY <1>1, <1>16, <1>26, OwnersSame
  <2> QED
    BY <1>1, <1>26, <2>1 DEF Owners, SameUsed
<1>28. g.base + top_foot_size <= e /\ e = segment_top(g)
  <2> HIDE DEF top_foot_size, segment_top, TopEnd
  <2> QED
    BY <1>3, <1>10, <1>15, <1>23, <1>25
<1>29. SystemType' /\ Sound(k, Segs', e, bins', dv', dvsize', top, size) /\ g.rec = NULL
  BY <1>2, <1>3, <1>10, <1>26, SysAllocExtendType, TypePartsPrime
<1> QED
  BY <1>1, <1>2, <1>3, <1>14, <1>16, <1>22, <1>27, <1>28, <1>29, ServedFromTop

\* The lower of two addresses.
LEMMA LeastOf ==
  ASSUME NEW a \in Int, NEW b \in Int
  PROVE  Min({a, b}) \in Int /\ Min({a, b}) <= a /\ Min({a, b}) <= b
<1>1. \E x \in {a, b} : \A y \in {a, b} : x =< y
  OBVIOUS
<1>2. Min({a, b}) \in {a, b} /\ \A y \in {a, b} : Min({a, b}) <= y
  BY <1>1 DEF Min
<1> QED
  BY <1>2

\* The region before segment i, the chunk p made of the request at its start, and
\* the second chunk q between that and the segment's old first one.
Prepends(r, i, g, p, q, old) ==
  /\ r \in Regions /\ i \in DOMAIN segs /\ segs[i].base = segment_top(r)
  /\ g = segment(r.base, segs[i].size + r.size, segs[i].flags, segs[i].rec)
  /\ p = align_as_chunk(r.base) /\ q = p + nb /\ old = align_as_chunk(segs[i].base)

\* Where they lie.
LEMMA PrependPlaces ==
  ASSUME TypeOK, HeapInv, NeedsSystem, top # NULL,
         NEW r, NEW i, NEW g, NEW p, NEW q, NEW old, Prepends(r, i, g, p, q, old),
         segs' = [segs EXCEPT ![i] = g]
  PROVE  /\ p \in Int /\ q \in Int /\ old \in Int /\ g \in Segment
         /\ segs[i] \in Segs /\ g.base = r.base /\ g.rec = segs[i].rec
         /\ segment_top(g) = segment_top(segs[i]) /\ g.base <= segs[i].base /\ r.base \in Int
         /\ \A x \in Segs : x # segs[i] => Apart(x, g)
         /\ FrontPlaces(mem, Segs', top, p, q, old) /\ (top >= old \/ p >= TopEnd)
<1>1. /\ SystemType /\ CallType /\ pc = "malloc" /\ FrameInv
      /\ HeapSound /\ TopInv /\ SegsInv
      /\ Sound(mem, Segs, TopEnd, bins, dv, dvsize, top, topsize)
  BY MallocParts
<1>2. /\ 1 \in DOMAIN segs /\ segs[1] \in Segs /\ TopEnd = segment_top(segs[1]) /\ TopEnd \in Int
      /\ top \in Int /\ FirstChunk(segs[1]) <= top
  BY <1>1, TopRoom
<1>3. /\ r \in Regions /\ i \in DOMAIN segs /\ segs[i].base = segment_top(r)
      /\ g = segment(r.base, segs[i].size + r.size, segs[i].flags, segs[i].rec)
      /\ p = align_as_chunk(r.base) /\ q = p + nb /\ old = align_as_chunk(segs[i].base)
  BY DEF Prepends
<1>4. PICK gr : gr = segment(r.base, r.size, r.flags, NULL)
  OBVIOUS
<1>5. /\ gr \in Segment /\ gr.base = r.base /\ gr.size = r.size /\ r.base \in Int /\ r.base > 0
      /\ r.size \in Int /\ r.size >= nb + top_foot_size + malloc_alignment
      /\ segment_top(gr) = segment_top(r) /\ segment_top(r) = r.base + r.size
      /\ \A x \in Segs : Apart(x, gr)
      /\ TopAt(r.base) \in Int /\ r.base <= TopAt(r.base) /\ TopAt(r.base) < r.base + malloc_alignment
  BY <1>1, <1>3, <1>4, RegionFacts
<1>6. segs[i] \in Segs /\ segs[i] \in Segment
  BY <1>1, <1>3, SegIn
<1>7. /\ segs[i].base \in Int /\ segs[i].size \in Int /\ segs[i].flags \in Int /\ segs[i].rec \in Int
  BY <1>6 DEF Segment
<1>8. /\ g \in Segment /\ g.base = r.base /\ g.size = r.size + segs[i].size /\ g.rec = segs[i].rec
  BY <1>3, <1>5, <1>7, SegmentType DEF segment
<1>9. segment_top(g) = segment_top(segs[i])
  BY <1>3, <1>5, <1>7, <1>8 DEF segment_top
<1>10. p = FirstChunk(g) /\ old = FirstChunk(segs[i]) /\ p = TopAt(r.base)
  BY <1>3, <1>8 DEF FirstChunk, TopAt
<1>11. p \in Int /\ old \in Int /\ segs[i].base <= old
  BY <1>5, <1>6, <1>10, FirstChunkFacts
<1>12. nb \in Int /\ Aligned(nb) /\ nb >= min_chunk_size /\ nb > 0
  BY <1>1, NbIs
<1>13. q \in Int /\ q = p + nb
  BY <1>3, <1>11, <1>12
<1>14. old - q >= min_chunk_size
  <2>1. /\ top_foot_size \in Int /\ malloc_alignment \in Int /\ min_chunk_size \in Int
        /\ top_foot_size >= min_chunk_size
    BY Constants
  <2>2. segs[i].base = r.base + r.size /\ p < r.base + malloc_alignment
    BY <1>3, <1>5, <1>10
  <2> HIDE DEF nb, top_foot_size, malloc_alignment, min_chunk_size, segment_top
  <2> QED
    BY <1>5, <1>7, <1>11, <1>12, <1>13, <2>1, <2>2
<1>15. Mapped(Segs) /\ Heap(mem, Segs, top)
  BY <1>1, SoundHeap
<1>16. Replaced(Segs, Segs', segs[i], g) /\ \A x \in Segs : x # segs[i] => Apart(x, segs[i])
  BY <1>1, <1>3, <1>15, SegsReplaced
<1>17. segment_top(gr) = segs[i].base /\ gr.base > 0 /\ gr.base < segs[i].base
  <2>1. top_foot_size > 0 /\ malloc_alignment > 0 /\ top_foot_size \in Int /\ malloc_alignment \in Int
    BY Constants
  <2> HIDE DEF nb, top_foot_size, malloc_alignment, segment_top
  <2> QED
    BY <1>3, <1>5, <1>12, <2>1
<1>18. FrontPlaces(mem, Segs', top, p, q, old)
  <2>1. g.base = gr.base /\ g.size = gr.size + segs[i].size
    BY <1>5, <1>8
  <2>2. \A x \in Segs : Apart(x, gr)
    BY <1>5
  <2>3. gr \in Segment /\ segment_top(gr) = segs[i].base /\ gr.base > 0
    BY <1>5, <1>17
  <2>4. nb \in Int /\ Aligned(nb) /\ nb >= min_chunk_size
    BY <1>12
  <2>5. PICK want \in Int : want = nb
    BY <1>12
  <2> HIDE DEF nb
  <2>6. Aligned(want) /\ want >= min_chunk_size /\ q = p + want
    BY <1>13, <2>4, <2>5
  <2>7. Replaced(Segs, Segs', segs[i], g) /\ g \in Segment
    BY <1>8, <1>16
  <2>8. p = FirstChunk(g) /\ old = FirstChunk(segs[i])
    BY <1>10
  <2>9. /\ Heap(mem, Segs, top) /\ segs[i] \in Segs
    BY <1>6, <1>15
  <2> QED
    BY <1>11, <1>13, <1>14, <2>1, <2>2, <2>3, <2>6, <2>7, <2>8, <2>9, FrontPlaced
<1>19. top >= old \/ p >= TopEnd
  <2>1. g.base = gr.base
    BY <1>5, <1>8
  <2>2. /\ Mapped(Segs) /\ segs[i] \in Segs /\ gr \in Segment /\ \A x \in Segs : Apart(x, gr)
    BY <1>5, <1>6, <1>15
  <2>3. segment_top(gr) = segs[i].base /\ gr.base < segs[i].base
    BY <1>17
  <2>4. p = FirstChunk(g) /\ old = FirstChunk(segs[i]) /\ g \in Segment
    BY <1>8, <1>10
  <2> QED
    BY <1>2, <1>11, <2>1, <2>2, <2>3, <2>4, FrontApart
<1>20. \A x \in Segs : x # segs[i] => Apart(x, g)
  <2>1. ASSUME NEW x \in Segs, x # segs[i] PROVE Apart(x, g)
    <3>1. x \in Segment /\ FirstChunk(x) < segment_top(x)
      BY <1>15 DEF Mapped
    <3>2. Apart(x, segs[i]) /\ Apart(x, gr)
      BY <1>5, <1>16, <2>1
    <3>3. segment_top(gr) = segs[i].base /\ g.base = gr.base
      BY <1>5, <1>8, <1>17
    <3> QED
      BY <1>5, <1>6, <1>8, <1>9, <3>1, <3>2, <3>3, ApartJoined
  <2> QED
    BY <2>1
<1>21. g.base <= segs[i].base
  BY <1>5, <1>7, <1>8, <1>17
<1> QED
  BY <1>5, <1>6, <1>8, <1>9, <1>11, <1>13, <1>18, <1>19, <1>20, <1>21

\* sys_alloc extends a segment downwards.
LEMMA SysAllocPrependStep ==
  ASSUME TypeOK, HeapInv, SysAllocPrepend
  PROVE  HeapInv'
<1>1. /\ SystemType /\ CallType /\ LiveType /\ pc = "malloc"
      /\ HeapSound /\ TopInv /\ SegsInv /\ BlocksInv /\ FrameInv
      /\ Sound(mem, Segs, TopEnd, bins, dv, dvsize, top, topsize)
      /\ Owners(mem, Clients, Records)
  BY MallocParts DEF SysAllocPrepend
<1>2. top # NULL /\ NeedsSystem
  BY DEF SysAllocPrepend
<1>3. PICK r \in Regions : \E i \in PrecededBy(r) :
       LET p == align_as_chunk(r.base)
           oldfirst == align_as_chunk(segs[i].base)
           q == p + nb
           qsize == oldfirst - p - nb
           m == set_size_and_pinuse_of_inuse_chunk(mem, p, nb)
       IN  /\ least_addr' = Min({r.base, least_addr})
           /\ segs' = [segs EXCEPT ![i] = segment(r.base, @.size + r.size, @.flags, @.rec)]
           /\ PutFront(m, q, oldfirst, qsize)
           /\ Return(p)
  BY ZenonT(60) DEF SysAllocPrepend, PutFront
<1>4. PICK i \in PrecededBy(r) :
       LET p == align_as_chunk(r.base)
           oldfirst == align_as_chunk(segs[i].base)
           q == p + nb
           qsize == oldfirst - p - nb
           m == set_size_and_pinuse_of_inuse_chunk(mem, p, nb)
       IN  /\ least_addr' = Min({r.base, least_addr})
           /\ segs' = [segs EXCEPT ![i] = segment(r.base, @.size + r.size, @.flags, @.rec)]
           /\ PutFront(m, q, oldfirst, qsize)
           /\ Return(p)
  BY <1>3
<1>5. PICK g : g = segment(r.base, segs[i].size + r.size, segs[i].flags, segs[i].rec)
  OBVIOUS
<1>6. PICK p : p = align_as_chunk(r.base)
  OBVIOUS
<1>7. PICK q : q = p + nb
  OBVIOUS
<1>8. PICK old : old = align_as_chunk(segs[i].base)
  OBVIOUS
<1>9. Prepends(r, i, g, p, q, old) /\ i \in DOMAIN segs
  BY <1>5, <1>6, <1>7, <1>8 DEF Prepends, PrecededBy
<1>10. segs' = [segs EXCEPT ![i] = g]
  BY <1>4, <1>5
<1>11. /\ p \in Int /\ q \in Int /\ old \in Int /\ g \in Segment
       /\ segs[i] \in Segs /\ g.base = r.base /\ g.rec = segs[i].rec
       /\ segment_top(g) = segment_top(segs[i]) /\ g.base <= segs[i].base /\ r.base \in Int
       /\ \A x \in Segs : x # segs[i] => Apart(x, g)
       /\ FrontPlaces(mem, Segs', top, p, q, old) /\ (top >= old \/ p >= TopEnd)
  BY <1>2, <1>9, <1>10, PrependPlaces
<1>12. nb \in Int /\ Aligned(nb) /\ nb >= min_chunk_size /\ nb > 0
  BY <1>1, NbIs
<1>13. PICK qsize \in Int : qsize = old - p - nb
  BY <1>11, <1>12
<1>14. PICK k : k = set_size_and_pinuse_of_inuse_chunk(mem, p, nb)
  OBVIOUS
<1>15. PutFront(k, q, old, qsize) /\ Return(p) /\ least_addr' = Min({r.base, least_addr})
  BY <1>4, <1>6, <1>7, <1>8, <1>13, <1>14
<1>16. FrontWritten(k, p, nb) /\ Room(p, q, old, nb, qsize)
  BY <1>7, <1>11, <1>12, <1>13, <1>14 DEF FrontWritten, Room
<1>17. /\ 1 \in DOMAIN segs /\ segs[1] \in Segs /\ TopEnd = segment_top(segs[1]) /\ TopEnd \in Int
       /\ top \in Int /\ segs[1].base + top_foot_size <= TopEnd /\ segs[1].rec = NULL
       /\ segs[1] \in Segment
  BY <1>1, <1>2, TopRoom
<1>18. Sound(mem', Segs', TopEnd, bins', dv', dvsize', top', topsize') /\ Gained(mem, mem', p, nb)
  BY <1>1, <1>2, <1>11, <1>12, <1>15, <1>16, <1>17, PrependedSound
<1>19. Mapped(Segs)
  BY <1>1, SoundHeap
<1>20. /\ segs' # << >> /\ segs'[i] = g /\ \A j \in DOMAIN segs : j # i => segs'[j] = segs[j]
  BY <1>1, <1>9, <1>10, <1>19, SegsReplaced
<1>21. SegsInv' /\ Records' = Records
  <2>1. least_addr \in Int
    BY <1>1 DEF SystemType
  <2>2. least_addr' \in Int /\ least_addr' <= least_addr /\ least_addr' <= g.base
    BY <1>11, <1>15, <2>1, LeastOf
  <2>3. SystemType /\ SegsInv /\ g.rec = segs[i].rec /\ i \in DOMAIN segs
    BY <1>1, <1>9, <1>11
  <2>4. g.base <= segs[i].base /\ segment_top(segs[i]) <= segment_top(g)
    <3>1. segment_top(g) \in Int
      BY <1>11, FirstChunkFacts
    <3> QED
      BY <1>11, <3>1
  <2> QED
    BY <1>10, <1>11, <1>19, <2>1, <2>2, <2>3, <2>4, SegsReshaped
<1>22. TopEnd = segment_top(segs'[1]) /\ segs'[1].base + top_foot_size <= TopEnd /\ segs'[1].rec = NULL
  <2>1. CASE i = 1
    <3>1. segs'[1] = g /\ g.base <= segs[1].base /\ segment_top(g) = segment_top(segs[1]) /\ g.rec = segs[1].rec
      BY <1>11, <1>20, <2>1
    <3>2. g.base \in Int /\ segs[1].base \in Int /\ top_foot_size \in Int
      BY <1>11, <1>17, Constants DEF Segment
    <3> HIDE DEF top_foot_size, segment_top, TopEnd
    <3> QED
      BY <1>17, <3>1, <3>2
  <2>2. CASE i # 1
    BY <1>17, <1>20, <2>2
  <2> QED
    BY <2>1, <2>2
<1>23. top' # NULL
  <2>1. top' = top \/ top' = q
    BY <1>15 DEF PutFront
  <2>2. q > 0
    BY <1>11 DEF FrontPlaces
  <2> QED
    BY <1>2, <2>1, <2>2 DEF NULL
<1>24. HeapSound' /\ TopInv'
  <2>1. SystemType'
    BY SysAllocPrependType, TypePartsPrime
  <2> HIDE DEF TopEnd
  <2>2. PICK e \in Int : e = TopEnd
    BY <1>17
  <2> QED
    BY <1>18, <1>20, <1>22, <1>23, <2>1, <2>2, HeapMade
<1>25. OwnersInv' /\ BlocksInv' /\ FrameInv'
  BY <1>1, <1>15, <1>18, <1>21, HandedFrom
<1> QED
  BY <1>21, <1>24, <1>25 DEF HeapInv

\* The list that add_segment leaves: the region gr, then the segments there were, the
\* newest of which, now s1, has its record in chunk c.
Pushed(gr, s1, c) ==
  /\ segs' = << gr >> \o [segs EXCEPT ![1] = s1]
  /\ s1.base = segs[1].base /\ s1.size = segs[1].size /\ s1.rec = to_mem(c)

\* Its members.
LEMMA PushedList ==
  ASSUME SystemType, 1 \in DOMAIN segs, NEW gr \in Segment, NEW s1 \in Segment, NEW c, Pushed(gr, s1, c)
  PROVE  /\ DOMAIN segs' = 1..(Len(segs) + 1) /\ Len(segs) \in Nat /\ DOMAIN segs = 1..Len(segs)
         /\ segs' # << >> /\ segs'[1] = gr /\ segs'[2] = s1
         /\ \A j \in DOMAIN segs : j # 1 => segs'[j + 1] = segs[j]
<1>1. PICK L : L = [segs EXCEPT ![1] = s1]
  OBVIOUS
<1>2. segs \in Seq(Segment) /\ DOMAIN segs = 1..Len(segs) /\ Len(segs) \in Nat
  BY DEF SystemType
<1>3. L \in Seq(Segment) /\ Len(L) = Len(segs) /\ L[1] = s1 /\ \A j \in DOMAIN segs : j # 1 => L[j] = segs[j]
  BY <1>1, <1>2
<1>4. segs' = << gr >> \o L /\ << gr >> \in Seq(Segment) /\ Len(<< gr >>) = 1
  BY <1>1 DEF Pushed
<1>5. /\ Len(segs') = 1 + Len(segs) /\ DOMAIN segs' = 1..(Len(segs) + 1)
      /\ segs'[1] = gr /\ \A j \in 1..Len(segs) : segs'[j + 1] = L[j]
  BY <1>2, <1>3, <1>4
<1>6. segs'[2] = s1
  BY <1>2, <1>3, <1>5
<1> QED
  BY <1>2, <1>3, <1>5, <1>6

\* The set of them.
LEMMA PushedSegs ==
  ASSUME SystemType, SegsInv, Mapped(Segs), 1 \in DOMAIN segs,
         NEW gr \in Segment, NEW s1 \in Segment, NEW c, Pushed(gr, s1, c)
  PROVE  \E S2 : Replaced(Segs, S2, segs[1], s1) /\ \A x : x \in Segs' <=> x \in S2 \/ x = gr
<1>1. /\ DOMAIN segs' = 1..(Len(segs) + 1) /\ Len(segs) \in Nat /\ DOMAIN segs = 1..Len(segs)
      /\ segs' # << >> /\ segs'[1] = gr /\ segs'[2] = s1
      /\ \A j \in DOMAIN segs : j # 1 => segs'[j + 1] = segs[j]
  BY PushedList
<1>2. \A x \in Segs : ~ Apart(x, x)
  <2>1. ASSUME NEW x \in Segs PROVE ~ Apart(x, x)
    <3>1. x \in Segment /\ FirstChunk(x) < segment_top(x)
      BY DEF Mapped
    <3>2. x.base <= FirstChunk(x) /\ FirstChunk(x) \in Int /\ segment_top(x) \in Int /\ x.base \in Int
      BY <3>1, FirstChunkFacts
    <3> HIDE DEF FirstChunk, segment_top
    <3> QED
      BY <3>1, <3>2 DEF Apart
  <2> QED
    BY <2>1
<1>3. \A j \in DOMAIN segs : j # 1 => segs[j] # segs[1]
  BY <1>2 DEF SegsInv, Segs
<1>4. \A x : x \in Segs' <=> (\E j \in DOMAIN segs : j # 1 /\ x = segs[j]) \/ x = s1 \/ x = gr
  <2>1. ASSUME NEW x \in Segs' PROVE (\E j \in DOMAIN segs : j # 1 /\ x = segs[j]) \/ x = s1 \/ x = gr
    <3>1. PICK k \in DOMAIN segs' : x = segs'[k]
      BY <2>1 DEF Segs
    <3>2. CASE k = 1 \/ k = 2
      BY <1>1, <3>1, <3>2
    <3>3. CASE k # 1 /\ k # 2
      <4>1. k - 1 \in DOMAIN segs /\ k - 1 # 1 /\ (k - 1) + 1 = k
        BY <1>1, <3>3
      <4> QED
        BY <1>1, <3>1, <4>1
    <3> QED
      BY <3>2, <3>3
  <2>2. ASSUME NEW j \in DOMAIN segs, j # 1 PROVE segs[j] \in Segs'
    <3>1. j + 1 \in DOMAIN segs' /\ segs'[j + 1] = segs[j]
      BY <1>1, <2>2
    <3> QED
      BY <3>1 DEF Segs
  <2>3. s1 \in Segs' /\ gr \in Segs'
    <3>1. 1 \in DOMAIN segs' /\ 2 \in DOMAIN segs'
      BY <1>1
    <3> QED
      BY <1>1, <3>1 DEF Segs
  <2> QED
    BY <2>1, <2>2, <2>3
<1>5. PICK S2 : \A x : x \in S2 <=> (x \in Segs /\ x # segs[1]) \/ x = s1
  <2>1. \A x : x \in (Segs \ {segs[1]}) \cup {s1} <=> (x \in Segs /\ x # segs[1]) \/ x = s1
    OBVIOUS
  <2> QED
    BY <2>1
<1>6. \A x : x \in S2 <=> (\E j \in DOMAIN segs : j # 1 /\ x = segs[j]) \/ x = s1
  BY <1>3, <1>5 DEF Segs
<1> QED
  BY <1>4, <1>5, <1>6 DEF Replaced

\* What the invariant asks of the list.
LEMMA PushedInv ==
  ASSUME SystemType, SegsInv, 1 \in DOMAIN segs, NEW gr \in Segment, NEW s1 \in Segment,
         NEW c \in Int, Pushed(gr, s1, c), \A x \in Segs : Apart(x, gr),
         segs[1].base <= c, c + segment_record_size < segment_top(segs[1]),
         least_addr' \in Int, least_addr' <= least_addr, least_addr' <= gr.base
  PROVE  SegsInv' /\ \A a : a \in Records' <=> a \in Records \/ a = c
<1>1. /\ DOMAIN segs' = 1..(Len(segs) + 1) /\ Len(segs) \in Nat /\ DOMAIN segs = 1..Len(segs)
      /\ segs' # << >> /\ segs'[1] = gr /\ segs'[2] = s1
      /\ \A j \in DOMAIN segs : j # 1 => segs'[j + 1] = segs[j]
  BY PushedList
<1>2. s1.base = segs[1].base /\ segment_top(s1) = segment_top(segs[1]) /\ s1.rec = to_mem(c)
  BY DEF Pushed, segment_top
<1>3. ASSUME NEW k \in DOMAIN segs', k # 1
      PROVE  \E j \in DOMAIN segs : /\ k = j + 1 /\ segs'[k].base = segs[j].base
                                    /\ segment_top(segs'[k]) = segment_top(segs[j])
                                    /\ (j # 1 => segs'[k].rec = segs[j].rec)
                                    /\ (j = 1 => segs'[k].rec = to_mem(c))
  <2>1. k - 1 \in DOMAIN segs /\ k = (k - 1) + 1
    BY <1>1, <1>3
  <2>2. PICK j \in DOMAIN segs : k = j + 1
    BY <2>1
  <2>3. CASE j = 1
    BY <1>1, <1>2, <2>2, <2>3
  <2>4. CASE j # 1
    BY <1>1, <2>2, <2>4
  <2> QED
    BY <2>2, <2>3, <2>4
<1>4. \A j \in DOMAIN segs : Apart(segs[j], gr) /\ segs[j].base \in Int /\ segs[j].base >= least_addr
  BY SegIn, SegmentFields DEF SegsInv
<1>5. ASSUME NEW i \in DOMAIN segs', NEW k \in DOMAIN segs', i # k
      PROVE  Apart(segs'[i], segs'[k])
  <2>1. CASE i = 1
    <3>1. PICK j \in DOMAIN segs : segs'[k].base = segs[j].base /\ segment_top(segs'[k]) = segment_top(segs[j])
      BY <1>3, <1>5, <2>1
    <3> QED
      BY <1>1, <1>4, <2>1, <3>1 DEF Apart
  <2>2. CASE k = 1
    <3>1. PICK j \in DOMAIN segs : segs'[i].base = segs[j].base /\ segment_top(segs'[i]) = segment_top(segs[j])
      BY <1>3, <1>5, <2>2
    <3> QED
      BY <1>1, <1>4, <2>2, <3>1 DEF Apart
  <2>3. CASE i # 1 /\ k # 1
    <3>1. PICK j \in DOMAIN segs : /\ segs'[i].base = segs[j].base /\ segment_top(segs'[i]) = segment_top(segs[j])
                                   /\ i = j + 1
      BY <1>3, <2>3
    <3>2. PICK l \in DOMAIN segs : /\ segs'[k].base = segs[l].base /\ segment_top(segs'[k]) = segment_top(segs[l])
                                   /\ k = l + 1
      BY <1>3, <2>3
    <3>3. Apart(segs[j], segs[l])
      BY <1>5, <3>1, <3>2 DEF SegsInv
    <3> QED
      BY <3>1, <3>2, <3>3 DEF Apart
  <2> QED
    BY <2>1, <2>2, <2>3
<1>6. from_mem(to_mem(c)) = c
  BY ToFrom
<1>7. ASSUME NEW k \in DOMAIN segs' \ {1}
      PROVE  /\ segs'[k].base <= Record(k)' /\ Record(k)' + segment_record_size < segment_top(segs'[k])
             /\ Record(k)' \in Records \/ Record(k)' = c
  <2>1. PICK j \in DOMAIN segs : /\ k = j + 1 /\ segs'[k].base = segs[j].base
                                 /\ segment_top(segs'[k]) = segment_top(segs[j])
                                 /\ (j # 1 => segs'[k].rec = segs[j].rec)
                                 /\ (j = 1 => segs'[k].rec = to_mem(c))
    BY <1>3
  <2>2. CASE j = 1
    BY <1>6, <2>1, <2>2 DEF Record
  <2>3. CASE j # 1
    <3>1. Record(k)' = Record(j)
      BY <2>1, <2>3 DEF Record
    <3> QED
      BY <2>1, <2>3, <3>1 DEF SegsInv, Records
  <2> QED
    BY <2>2, <2>3
<1>8. \A a : a \in Records' <=> a \in Records \/ a = c
  <2>1. ASSUME NEW a \in Records' PROVE a \in Records \/ a = c
    BY <1>7, <2>1 DEF Records
  <2>2. ASSUME NEW j \in DOMAIN segs \ {1} PROVE Record(j) \in Records'
    <3>1. j + 1 \in DOMAIN segs' \ {1} /\ segs'[j + 1] = segs[j]
      BY <1>1, <2>2
    <3>2. Record(j + 1)' = Record(j)
      BY <3>1 DEF Record
    <3> QED
      BY <3>1, <3>2 DEF Records
  <2>3. c \in Records'
    <3>1. 2 \in DOMAIN segs' \ {1}
      BY <1>1
    <3>2. Record(2)' = c
      BY <1>1, <1>2, <1>6 DEF Record
    <3> QED
      BY <3>1, <3>2 DEF Records
  <2> QED
    BY <2>1, <2>2, <2>3 DEF Records
<1>9. \A k \in DOMAIN segs' : segs'[k].base >= least_addr'
  <2>1. ASSUME NEW k \in DOMAIN segs' PROVE segs'[k].base >= least_addr'
    <3>1. CASE k = 1
      <4>1. gr.base \in Int
        BY DEF Segment
      <4> QED
        BY <1>1, <3>1, <4>1
    <3>2. CASE k # 1
      <4>1. PICK j \in DOMAIN segs : segs'[k].base = segs[j].base
        BY <1>3, <3>2
      <4>2. least_addr \in Int
        BY DEF SystemType
      <4> QED
        BY <1>4, <4>1, <4>2
    <3> QED
      BY <3>1, <3>2
  <2> QED
    BY <2>1
<1> QED
  BY <1>5, <1>7, <1>8, <1>9 DEF SegsInv

\* sys_alloc adds a segment.
LEMMA SysAllocAddSegmentStep ==
  ASSUME TypeOK, HeapInv, SysAllocAddSegment
  PROVE  HeapInv'
<1>1. /\ SystemType /\ CallType /\ LiveType /\ pc = "malloc"
      /\ HeapSound /\ TopInv /\ SegsInv /\ BlocksInv /\ FrameInv
      /\ Sound(mem, Segs, TopEnd, bins, dv, dvsize, top, topsize)
      /\ Owners(mem, Clients, Records)
  BY MallocParts DEF SysAllocAddSegment
<1>2. top # NULL /\ UNCHANGED <<dv, dvsize>>
  BY DEF SysAllocAddSegment
<1>3. /\ 1 \in DOMAIN segs /\ segs[1] \in Segs /\ segs[1] \in Segment
      /\ TopEnd = segment_top(segs[1]) /\ TopEnd \in Int
      /\ top \in DOMAIN mem /\ top \in Int /\ FirstChunk(segs[1]) <= top
  BY <1>1, <1>2, TopRoom
<1>a. PICK r \in Regions : \E oldsp \in segment_holding(top) :
       LET size == r.size - top_foot_size
           csp == record_chunk(segment_top(segs[oldsp]))
       IN  /\ least_addr' = Min({r.base, least_addr})
           /\ segs' = << segment(r.base, r.size, r.flags, NULL) >>
                        \o [segs EXCEPT ![1] = segment(@.base, @.size, @.flags, to_mem(csp))]
           /\ bins' = IF csp # top THEN bins \cup {top} ELSE bins
           /\ TakeFromTop(retired(InitTop(mem, r.base, size), csp, segment_top(segs[oldsp])),
                          TopAt(r.base), TopSize(r.base, size))
  BY DEF SysAllocAddSegment
<1>b. PICK oldsp \in segment_holding(top) :
       LET size == r.size - top_foot_size
           csp == record_chunk(segment_top(segs[oldsp]))
       IN  /\ least_addr' = Min({r.base, least_addr})
           /\ segs' = << segment(r.base, r.size, r.flags, NULL) >>
                        \o [segs EXCEPT ![1] = segment(@.base, @.size, @.flags, to_mem(csp))]
           /\ bins' = IF csp # top THEN bins \cup {top} ELSE bins
           /\ TakeFromTop(retired(InitTop(mem, r.base, size), csp, segment_top(segs[oldsp])),
                          TopAt(r.base), TopSize(r.base, size))
  BY <1>a
<1>4. oldsp = 1
  <2>1. oldsp \in DOMAIN segs /\ holds(segs[oldsp], top)
    BY DEF segment_holding
  <2> QED
    BY <1>1, <2>1, TopSegment
<1>5. PICK e \in Int : e = segment_top(segs[1])
  BY <1>3
<1>6. record_chunk(e) \in Int
  <2>1. segment_record_size + 4 * WORD + malloc_alignment - 1 \in Int
    BY Constants
  <2>2. e - (segment_record_size + 4 * WORD + malloc_alignment - 1) \in Int
    BY <2>1
  <2> QED
    BY <1>3, <2>2, AsChunk DEF record_chunk
<1>7. PICK c \in Int : c = record_chunk(e)
  BY <1>6
<1>8. PICK gr : gr = segment(r.base, r.size, r.flags, NULL)
  OBVIOUS
<1>9. /\ gr \in Segment /\ gr.base = r.base /\ gr.rec = NULL /\ r.base > 0 /\ r.base \in Int
      /\ r.size \in Int /\ r.size >= nb + top_foot_size + malloc_alignment
      /\ segment_top(gr) = segment_top(r) /\ segment_top(r) = r.base + r.size
      /\ \A x \in Segs : Apart(x, gr)
      /\ FirstChunk(gr) = TopAt(r.base)
  BY <1>1, <1>8, RegionFacts
<1>10. PICK s1 : s1 = segment(segs[1].base, segs[1].size, segs[1].flags, to_mem(c))
  OBVIOUS
<1>11. /\ s1 \in Segment /\ s1.base = segs[1].base /\ s1.size = segs[1].size /\ s1.rec = to_mem(c)
  <2>1. segs[1].base \in Int /\ segs[1].size \in Int /\ segs[1].flags \in Int /\ to_mem(c) \in Int
    BY <1>3, MemAddresses DEF Segment
  <2> QED
    BY <1>10, <2>1, SegmentType DEF segment
<1>12. Pushed(gr, s1, c)
  <2>1. segs' = << gr >> \o [segs EXCEPT ![1] = s1]
    BY <1>b, <1>4, <1>5, <1>7, <1>8, <1>10
  <2> QED
    BY <1>11, <2>1 DEF Pushed
<1>13. PICK lo \in Int : lo = TopAt(r.base)
  BY <1>1, RegionTop
<1>14. PICK size \in Int : size = TopSize(r.base, r.size - top_foot_size)
  BY <1>1, RegionTop
<1>15. PICK k : k = retired(TopFrom(mem, lo, size), c, e)
  OBVIOUS
<1>16. /\ size > 0 /\ lo > 0 /\ lo + size + top_foot_size = segment_top(gr) /\ lo = FirstChunk(gr)
       /\ TakeFromTop(k, lo, size) /\ LeftOfTop(bins', c) /\ least_addr' = Min({r.base, least_addr})
  <2>1. /\ size > 0 /\ lo > 0 /\ lo + size + top_foot_size = segment_top(r)
        /\ InitTop(mem, r.base, r.size - top_foot_size) = TopFrom(mem, lo, size)
    BY <1>1, <1>13, <1>14, RegionTop
  <2> HIDE DEF TopFrom, InitTop
  <2>2. LeftOfTop(bins', c)
    BY <1>b, <1>4, <1>5, <1>7 DEF LeftOfTop
  <2>3. TakeFromTop(k, lo, size)
    BY <1>b, <1>4, <1>5, <1>7, <1>13, <1>14, <1>15, <2>1
  <2> QED
    BY <1>b, <1>9, <1>13, <2>1, <2>2, <2>3
<1>17. Mapped(Segs)
  BY <1>1, SoundHeap
<1>18. PICK S2 : Replaced(Segs, S2, segs[1], s1) /\ \A x : x \in Segs' <=> x \in S2 \/ x = gr
  BY <1>1, <1>3, <1>9, <1>11, <1>12, <1>17, PushedSegs
<1>19. PICK F : F = fenceposts(c + segment_record_size, e)
  OBVIOUS
<1>20. /\ Sound(k, Segs', segment_top(gr), bins', dv, dvsize, lo, size)
       /\ \A a : a \in UsedOf(k) <=> a \in UsedOf(mem) \/ a = c \/ a \in F
       /\ \A a \in UsedOf(mem) : k[a].size = mem[a].size
       /\ c \notin UsedOf(mem) /\ c \notin F /\ k[c].size = segment_record_size
       /\ \A a \in F : k[a].size = WORD
       /\ segs[1].base <= c /\ c + segment_record_size < e
  <2>1. Sound(mem, Segs, e, bins, dv, dvsize, top, topsize)
    BY <1>1, <1>3, <1>5
  <2>2. gr.base > 0
    BY <1>9
  <2>3. top # NULL /\ segs[1] \in Segs /\ FirstChunk(segs[1]) <= top /\ e = segment_top(segs[1])
    BY <1>2, <1>3, <1>5
  <2>4. s1 \in Segment /\ s1.base = segs[1].base /\ s1.size = segs[1].size
    BY <1>11
  <2>5. gr \in Segment /\ \A x \in Segs : Apart(x, gr)
    BY <1>9
  <2>6. /\ size > 0 /\ lo + size + top_foot_size = segment_top(gr) /\ lo = FirstChunk(gr)
        /\ LeftOfTop(bins', c)
    BY <1>16
  <2>7. Adds(Segs, e, segs[1], s1, S2, gr, Segs', lo, size, c, F, bins', k)
    BY <1>7, <1>15, <1>18, <1>19, <2>2, <2>3, <2>4, <2>5, <2>6 DEF Adds
  <2> QED
    BY <2>1, <2>3, <2>7, AddedSound
<1>21. SegsInv' /\ \A a : a \in Records' <=> a \in Records \/ a = c
  <2>1. least_addr \in Int
    BY <1>1 DEF SystemType
  <2>2. least_addr' \in Int /\ least_addr' <= least_addr /\ least_addr' <= gr.base
    BY <1>9, <1>16, <2>1, LeastOf
  <2> QED
    BY <1>1, <1>3, <1>5, <1>9, <1>11, <1>12, <1>20, <2>2, PushedInv
<1>22. Owners(k, Clients, Records') /\ \A a \in Clients : k[a].size = mem[a].size
  <2>1. Owners(k, Clients, Records')
    BY <1>1, <1>20, <1>21, OwnersRetired
  <2> QED
    BY <1>1, <1>20, <2>1 DEF Owners
<1>23. segs' # << >> /\ segs'[1] = gr
  BY <1>1, <1>3, <1>9, <1>11, <1>12, PushedList
<1>24. PICK f \in Int : f = segment_top(gr)
  BY <1>9
<1>25. gr.base + top_foot_size <= f
  <2>1. malloc_alignment > 0 /\ malloc_alignment \in Int /\ top_foot_size \in Int
    BY Constants
  <2>2. nb \in Int /\ nb > 0
    BY <1>1, NbIs
  <2> HIDE DEF nb, top_foot_size, malloc_alignment, segment_top
  <2> QED
    BY <1>9, <1>24, <2>1, <2>2
<1>26. SystemType' /\ lo # NULL
  BY <1>16, SysAllocAddSegmentType, TypePartsPrime DEF NULL
<1>27. Sound(k, Segs', f, bins', dv', dvsize', lo, size)
  BY <1>2, <1>20, <1>24
<1> QED
  BY <1>1, <1>9, <1>16, <1>21, <1>22, <1>23, <1>24, <1>25, <1>26, <1>27, ServedFromTop

-----------------------------------------------------------------------------
(* free *)

\* A step after which the call holds nothing and the client what it had.
LEMMA Settled ==
  ASSUME HeapSound', TopInv', SegsInv', Owners(mem', Clients, Records'), UNCHANGED live,
         pc' \notin {"lead", "tail", "free"}, FrameInv', BlocksInv,
         \A a \in Clients : mem'[a].size = mem[a].size
  PROVE  HeapInv'
<1>1. Clients' = Clients /\ InHand' = {}
  BY DEF Clients, InHand
<1>2. OwnersInv'
  BY <1>1 DEF OwnersInv, Held
<1>3. BlocksInv'
  BY DEF BlocksInv, Clients
<1> QED
  BY <1>2, <1>3 DEF HeapInv

\* A chunk given back.
LEMMA GivenBack ==
  ASSUME SystemType, HeapSound, TopInv, SegsInv, UNCHANGED <<segs, least_addr>>, top # NULL,
         NEW m, NEW B, Sound(m, Segs, TopEnd, B, dv, dvsize, top, topsize),
         NEW p \in DOMAIN m, m[p].cinuse, ~ Fence(m, p), NEW psize, psize = m[p].size,
         dispose_chunk(B, m, p, psize)
  PROVE  HeapSound' /\ TopInv' /\ SegsInv' /\ Lost(m, mem', p)
<1>1. TopEnd \in Int
  BY TopRoom
<1>2. Sound(mem', Segs, TopEnd, bins', dv', dvsize', top', topsize') /\ Lost(m, mem', p)
  BY <1>1, Disposed
<1>3. FirstOf(m, p) # NULL
  BY <1>1, GiveFacts
<1>4. top' = FirstOf(m, p) \/ top' = top
  BY DEF dispose_chunk, GrowTop, GrowDv, GrowBin
<1> QED
  BY <1>2, <1>3, <1>4, HeapKept

\* The chunk that the call holds is in use, and a block's worth.
LEMMA HeldFacts ==
  ASSUME HeapSound, SystemType, TopInv, OwnersInv, NEW p \in Held
  PROVE  p \in DOMAIN mem /\ mem[p].cinuse /\ ~ Fence(mem, p) /\ top # NULL
<1>1. p \in DOMAIN mem /\ mem[p].cinuse /\ ~ Fence(mem, p)
  BY DEF OwnersInv, Owners, UsedOf
<1> QED
  BY <1>1, Inhabited

\* free gives a chunk back, and may go on to trim or to release segments.
LEMMA FreeStep ==
  ASSUME TypeOK, HeapInv, FreeIntoTop \/ FreeIntoDv \/ FreeIntoBin
  PROVE  HeapInv'
<1>1. /\ SystemType /\ CallType /\ LiveType
      /\ HeapSound /\ TopInv /\ SegsInv /\ OwnersInv /\ BlocksInv /\ FrameInv
      /\ Sound(mem, Segs, TopEnd, bins, dv, dvsize, top, topsize)
  BY TypeParts DEF HeapInv, HeapSound
<1>2. pc = "free" /\ UNCHANGED live /\ UNCHANGED <<segs, least_addr>>
  BY DEF FreeIntoTop, FreeIntoDv, FreeIntoBin, system
<1>3. PICK p : p = call.p
  OBVIOUS
<1>4. InHand = {p} /\ p \in Held /\ p \notin Clients
  BY <1>1, <1>2, <1>3 DEF InHand, Held, OwnersInv
<1>5. p \in DOMAIN mem /\ mem[p].cinuse /\ ~ Fence(mem, p) /\ top # NULL
  BY <1>1, <1>4, HeldFacts
<1>6. PICK psize : psize = mem[p].size
  OBVIOUS
<1>7. SizeOf(call.p) = psize
  BY <1>3, <1>5, <1>6 DEF SizeOf, HeaderAt
<1>8. dispose_chunk(bins, mem, p, psize)
  BY <1>3, <1>7 DEF FreeIntoTop, FreeIntoDv, FreeIntoBin, dispose_chunk
<1>9. HeapSound' /\ TopInv' /\ SegsInv' /\ Lost(mem, mem', p)
  BY <1>1, <1>2, <1>5, <1>6, <1>8, GivenBack
<1>10. Records' = Records
  BY <1>2, RecordsKept
<1>11. Owners(mem', Clients, Records')
  <2>1. \A a : a \in Clients <=> a \in Held /\ a # p
    BY <1>4 DEF Held
  <2>2. Owners(mem, Held, Records)
    BY <1>1 DEF OwnersInv
  <2> QED
    BY <1>4, <1>9, <1>10, <2>1, <2>2, OwnersLost
<1>12. \A a \in Clients : mem'[a].size = mem[a].size
  BY <1>9, <1>11 DEF Owners, Lost
<1>13. pc' \notin {"lead", "tail", "free"} /\ FrameInv'
  <2>1. \/ Idle \/ (pc' = "trim" /\ call' = Trimming(0)) \/ Scan(NoCall)
    BY DEF FreeIntoTop, FreeIntoDv, FreeIntoBin
  <2>2. CASE Idle
    BY <2>2, NoFrame DEF Idle
  <2>3. CASE pc' = "trim" /\ call' = Trimming(0)
    <3>1. call'.pad = 0
      BY <2>3 DEF Trimming, NoCall, Asking
    <3> QED
      BY <2>3, <3>1 DEF FrameInv
  <2>4. CASE Scan(NoCall)
    <3>1. pc' = "release" /\ call'.sp = 2
      BY <2>4 DEF Scan, NoCall, Asking
    <3> QED
      BY <3>1 DEF FrameInv
  <2> QED
    BY <2>1, <2>2, <2>3, <2>4
<1> QED
  BY <1>1, <1>2, <1>9, <1>11, <1>12, <1>13, Settled

-----------------------------------------------------------------------------
(* realloc *)

\* The block that realloc is to resize, and what it is to become.
LEMMA OldFacts ==
  ASSUME TypeOK, HeapInv, pc = "realloc"
  PROVE  /\ SystemType /\ CallType /\ LiveType
         /\ HeapSound /\ TopInv /\ SegsInv /\ BlocksInv /\ FrameInv
         /\ Sound(mem, Segs, TopEnd, bins, dv, dvsize, top, topsize) /\ TopEnd \in Int
         /\ Owners(mem, Clients, Records) /\ top # NULL
         /\ oldp \in Clients /\ oldp \in Int /\ oldp > 0 /\ Aligned(oldp)
         /\ oldp \in DOMAIN mem /\ mem[oldp].cinuse /\ ~ Fence(mem, oldp)
         /\ oldsize = mem[oldp].size /\ oldsize \in Int /\ Aligned(oldsize)
         /\ after \in DOMAIN mem /\ after \in Int /\ after = oldp + mem[oldp].size /\ after > 0
         /\ newnb \in Int /\ Aligned(newnb) /\ newnb >= min_chunk_size /\ newnb > 0
         /\ call.size \in Nat /\ call.old \in DOMAIN live /\ call.old \in Int
<1>1. /\ SystemType /\ CallType /\ LiveType
      /\ HeapSound /\ TopInv /\ SegsInv /\ OwnersInv /\ BlocksInv /\ FrameInv
      /\ Sound(mem, Segs, TopEnd, bins, dv, dvsize, top, topsize)
  BY TypeParts DEF HeapInv, HeapSound
<1>2. Held = Clients
  BY NoneInHand
<1>3. Owners(mem, Clients, Records)
  BY <1>1, <1>2 DEF OwnersInv
<1>4. call.size \in Nat /\ call.old \in DOMAIN live
  BY <1>1 DEF FrameInv
<1>5. oldp \in Clients
  BY <1>4 DEF oldp, Clients
<1>6. oldp \in DOMAIN mem /\ mem[oldp].cinuse /\ ~ Fence(mem, oldp) /\ top # NULL
  BY <1>1, <1>2, <1>5, HeldFacts
<1>7. Heap(mem, Segs, top)
  BY <1>1, SoundHeap
<1>8. oldsize = mem[oldp].size
  BY <1>6 DEF oldsize, SizeOf, HeaderAt
<1>9. /\ Aligned(oldp) /\ Aligned(mem[oldp].size) /\ End(mem, oldp) \in DOMAIN mem
      /\ oldp \in Int /\ oldp > 0 /\ mem[oldp].size \in Int /\ mem[oldp].size > 0
      /\ End(mem, oldp) = oldp + mem[oldp].size
  BY <1>6, <1>7, UsedFacts, ChunkFacts
<1>10. after = oldp + mem[oldp].size
  BY <1>8 DEF after
<1>11. newnb \in Int /\ Aligned(newnb) /\ newnb >= min_chunk_size /\ newnb > 0
  BY <1>4, NbFacts, Constants DEF newnb
<1>12. TopEnd \in Int
  BY <1>1, <1>6, TopRoom
<1>13. call.old \in Int
  BY <1>1, <1>4 DEF LiveType
<1>14. after \in DOMAIN mem /\ after \in Int /\ after > 0
  <2> HIDE DEF oldp, after, End
  <2> QED
    BY <1>9, <1>10
<1> QED
  BY <1>1, <1>3, <1>4, <1>5, <1>6, <1>8, <1>9, <1>10, <1>11, <1>12, <1>13, <1>14

\* The block has its new size, in place.
LEMMA ReallocDone ==
  ASSUME TypeOK, HeapInv, pc = "realloc", Resized, HeapSound', TopInv', SegsInv',
         Resizes(mem, mem', oldp, newnb)
  PROVE  HeapInv'
<1>1. /\ CallType /\ LiveType /\ BlocksInv /\ FrameInv /\ Owners(mem, Clients, Records)
      /\ oldp \in Clients /\ oldp \in Int /\ Aligned(oldp)
      /\ newnb \in Int /\ newnb >= min_chunk_size
      /\ call.size \in Nat /\ call.old \in DOMAIN live /\ call.old \in Int
  BY OldFacts
<1>2. /\ Idle /\ live' = [live EXCEPT ![call.old] = Promise] /\ UNCHANGED segs
  BY DEF Resized, system
<1>3. pc' = "idle" /\ InHand' = {} /\ FrameInv' /\ Records' = Records
  BY <1>2, NoFrame, RecordsKept DEF Idle, InHand
<1>4. DOMAIN live' = DOMAIN live /\ Clients' = Clients
  BY <1>2 DEF Clients
<1>5. Owners(mem', Clients, Records')
  BY <1>1, <1>3, OwnersResized
<1>6. OwnersInv'
  BY <1>3, <1>4, <1>5 DEF OwnersInv, Held
<1>7. /\ live'[call.old] = Promise /\ Promise.size = call.size /\ Promise.align = call.align
      /\ \A b \in DOMAIN live : b # call.old => live'[b] = live[b]
  BY <1>1, <1>2 DEF Promise
<1>8. call.align = malloc_alignment
  BY <1>1 DEF FrameInv
<1>9. Roomy(mem'[oldp].size, call.size)
  <2>1. /\ newnb = request2size(call.size) /\ mem'[oldp].size \in Int /\ newnb <= mem'[oldp].size
        /\ mem'[oldp].size <= newnb + min_chunk_size
    BY <1>1, Constants DEF newnb, Resizes
  <2> QED
    BY <1>1, <2>1, RoomEnough
<1>10. \A b \in DOMAIN live : b \in Int /\ (from_mem(b) = oldp => b = call.old)
  BY <1>1, ToFrom DEF LiveType, oldp
<1>11. call.old = to_mem(oldp)
  BY <1>1, ToFrom DEF oldp
<1>12. ASSUME NEW b \in DOMAIN live'
       PROVE  /\ Roomy(mem'[from_mem(b)].size, live'[b].size)
              /\ live'[b].size \in Nat /\ Alignment(live'[b].align) /\ b % live'[b].align = 0
  <2>1. CASE b = call.old
    <3>1. b % malloc_alignment = 0
      BY <1>1, <1>11, <2>1, NaturalBlock
    <3>2. from_mem(b) = oldp
      BY <2>1 DEF oldp
    <3> QED
      BY <1>1, <1>7, <1>8, <1>9, <2>1, <3>1, <3>2 DEF Alignment
  <2>2. CASE b # call.old
    <3>1. live'[b] = live[b] /\ b \in DOMAIN live /\ from_mem(b) # oldp
      BY <1>4, <1>7, <1>10, <2>2
    <3>2. from_mem(b) \in UsedOf(mem)
      BY <1>1, <3>1 DEF Owners, Clients
    <3>3. mem'[from_mem(b)].size = mem[from_mem(b)].size
      BY <3>1, <3>2 DEF Resizes
    <3> QED
      BY <1>1, <3>1, <3>3 DEF BlocksInv
  <2> QED
    BY <2>1, <2>2
<1>13. BlocksInv'
  BY <1>12 DEF BlocksInv
<1> QED
  BY <1>3, <1>6, <1>13 DEF HeapInv

\* realloc makes the block smaller, and gives the rest back.
LEMMA ReallocShrinkStep ==
  ASSUME TypeOK, HeapInv, ReallocShrink
  PROVE  HeapInv'
<1>1. pc = "realloc" /\ oldsize >= newnb /\ Resized
  BY DEF ReallocShrink
<1>2. /\ SystemType /\ HeapSound /\ TopInv /\ SegsInv /\ top # NULL
      /\ Sound(mem, Segs, TopEnd, bins, dv, dvsize, top, topsize) /\ TopEnd \in Int
      /\ oldp \in Int /\ oldp > 0 /\ oldp \in DOMAIN mem /\ mem[oldp].cinuse /\ ~ Fence(mem, oldp)
      /\ oldsize = mem[oldp].size /\ oldsize \in Int
      /\ newnb \in Int /\ Aligned(newnb) /\ newnb >= min_chunk_size
  BY <1>1, OldFacts
<1>3. UNCHANGED <<segs, least_addr>> /\ min_chunk_size \in Int
  BY <1>1, Constants DEF Resized, system
<1>4. CASE TooSmall(oldsize - newnb) /\ UNCHANGED heap
  <2>1. HeapSound' /\ TopInv' /\ SegsInv'
    BY <1>2, <1>3, <1>4, HeapKept DEF heap
  <2>2. Resizes(mem, mem', oldp, newnb)
    <3>1. oldsize < newnb + min_chunk_size
      BY <1>2, <1>3, <1>4 DEF TooSmall
    <3>2. mem' = mem
      BY <1>4 DEF heap
    <3> QED
      BY <1>1, <1>2, <3>1, <3>2 DEF Resizes
  <2> QED
    BY <1>1, <2>1, <2>2, ReallocDone
<1>5. CASE /\ ~ TooSmall(oldsize - newnb)
           /\ dispose_chunk(bins, set_inuse(set_inuse(mem, oldp, newnb), oldp + newnb, oldsize - newnb),
                            oldp + newnb, oldsize - newnb)
  <2>1. PICK back \in Int : back = oldsize - newnb
    BY <1>2
  <2>2. PICK r \in Int : r = oldp + newnb
    BY <1>2
  <2>3. PICK n : n = set_inuse(set_inuse(mem, oldp, newnb), r, back)
    OBVIOUS
  <2>4. dispose_chunk(bins, n, r, back)
    BY <1>5, <2>1, <2>2, <2>3
  <2>5. back >= min_chunk_size /\ mem[oldp].size = newnb + back
    BY <1>2, <1>3, <1>5, <2>1 DEF TooSmall
  <2>6. /\ Sound(n, Segs, TopEnd, bins, dv, dvsize, top, topsize)
        /\ n[oldp].size = newnb /\ n[r].size = back /\ r \notin UsedOf(mem) /\ r # oldp
        /\ \A a : a \in UsedOf(n) <=> a \in UsedOf(mem) \/ a = r
        /\ \A a \in UsedOf(mem) : a # oldp => n[a].size = mem[a].size
    <3>1. PICK p \in Int : p = oldp
      BY <1>2
    <3>2. PICK front \in Int : front = newnb
      BY <1>2
    <3>3. p \in DOMAIN mem /\ mem[p].cinuse /\ ~ Fence(mem, p) /\ mem[p].size = front + back
      BY <1>2, <2>5, <3>1, <3>2
    <3>4. Aligned(front) /\ front >= min_chunk_size /\ back >= min_chunk_size /\ r = p + front
      BY <1>2, <2>2, <2>5, <3>1, <3>2
    <3>5. n = set_inuse(set_inuse(mem, p, front), r, back)
      BY <2>3, <3>1, <3>2
    <3>6. Sound(mem, Segs, TopEnd, bins, dv, dvsize, top, topsize) /\ TopEnd \in Int
      BY <1>2
    <3>8. Splits(mem, n, p, front, back, r)
      BY <3>3, <3>4, <3>5 DEF Splits
    <3>7. /\ Sound(n, Segs, TopEnd, bins, dv, dvsize, top, topsize)
          /\ n[p].size = front /\ n[r].size = back /\ r \notin UsedOf(mem) /\ r # p
          /\ \A a : a \in UsedOf(n) <=> a \in UsedOf(mem) \/ a = r
          /\ \A a \in UsedOf(mem) : a # p => n[a].size = mem[a].size
      BY <3>1, <3>2, <3>4, <3>6, <3>8, SplitSound
    <3> QED
      BY <3>1, <3>2, <3>7
  <2>7. r \in DOMAIN n /\ n[r].cinuse /\ ~ Fence(n, r)
    BY <2>5, <2>6, NoFence DEF UsedOf
  <2>8. HeapSound' /\ TopInv' /\ SegsInv' /\ Lost(n, mem', r)
    BY <1>2, <1>3, <2>4, <2>6, <2>7, GivenBack
  <2>9. Resizes(mem, mem', oldp, newnb)
    <3>1. oldp \in UsedOf(mem)
      BY <1>2 DEF UsedOf
    <3>2. mem'[oldp].size = newnb
      BY <2>6, <2>8, <3>1 DEF Lost
    <3>3. newnb < newnb + min_chunk_size
      BY <1>2, Constants
    <3> QED
      <4>1. \A a : a \in UsedOf(mem') <=> a \in UsedOf(mem)
        BY <2>6, <2>8 DEF Lost
      <4>2. \A a \in UsedOf(mem) : a # oldp => mem'[a].size = mem[a].size
        BY <2>6, <2>8, <4>1 DEF Lost
      <4>3. newnb \in Int
        BY <1>2
      <4> QED
        BY <3>2, <3>3, <4>1, <4>2, <4>3 DEF Resizes
  <2> QED
    BY <1>1, <2>8, <2>9, ReallocDone
<1> QED
  BY <1>4, <1>5 DEF ReallocShrink

\* realloc makes the block larger with the front of top.
LEMMA ReallocIntoTopStep ==
  ASSUME TypeOK, HeapInv, ReallocIntoTop
  PROVE  HeapInv'
<1>1. /\ pc = "realloc" /\ oldsize < newnb /\ after = top /\ oldsize + topsize > newnb /\ Resized
      /\ top' = oldp + newnb /\ topsize' = oldsize + topsize - newnb
      /\ mem' = SetHead(set_inuse(mem, oldp, newnb), top', topsize', TRUE, FALSE)
      /\ UNCHANGED <<bins, dv, dvsize>>
  BY DEF ReallocIntoTop
<1>2. /\ SystemType /\ HeapSound /\ TopInv /\ SegsInv /\ top # NULL
      /\ Sound(mem, Segs, TopEnd, bins, dv, dvsize, top, topsize) /\ TopEnd \in Int
      /\ oldp \in Int /\ oldp > 0 /\ oldp \in DOMAIN mem /\ mem[oldp].cinuse /\ ~ Fence(mem, oldp)
      /\ oldsize = mem[oldp].size /\ oldsize \in Int /\ after = oldp + mem[oldp].size
      /\ newnb \in Int /\ Aligned(newnb) /\ newnb >= min_chunk_size /\ newnb > 0
  BY <1>1, OldFacts
<1>3. UNCHANGED <<segs, least_addr>> /\ min_chunk_size \in Int /\ topsize \in Int
      /\ min_chunk_size > 0
  BY SMTT(30), <1>1, Constants DEF Resized, system, TypeOK
<1>4. PICK r \in Int : r = oldp + newnb
  BY <1>2
<1>5. PICK back \in Int : back = oldsize + topsize - newnb
  BY <1>2, <1>3
<1>6. PICK p \in Int : p = oldp
  BY <1>2
<1>7. PICK front \in Int : front = newnb
  BY <1>2
<1>8. PICK n : n = mem'
  OBVIOUS
<1>9. r # NULL /\ top' = r /\ topsize' = back
  BY <1>1, <1>2, <1>4, <1>5 DEF NULL
<1>10. JoinsTop(mem, n, top, topsize, p, front, back, r)
  <2>1. p \in DOMAIN mem /\ mem[p].cinuse /\ ~ Fence(mem, p) /\ p + mem[p].size = top
    BY <1>1, <1>2, <1>6
  <2>2. front + back = mem[p].size + topsize /\ back > 0
    BY <1>1, <1>2, <1>3, <1>5, <1>6, <1>7
  <2>3. Aligned(front) /\ front >= min_chunk_size /\ r = p + front
    BY <1>2, <1>4, <1>6, <1>7
  <2>4. n = TopFrom(set_inuse(mem, p, front), r, back)
    BY <1>1, <1>6, <1>7, <1>8, <1>9 DEF TopFrom
  <2> QED
    BY <2>1, <2>2, <2>3, <2>4 DEF JoinsTop
<1>11. /\ Sound(n, Segs, TopEnd, bins, dv, dvsize, r, back)
       /\ n[p].size = front
       /\ \A a : a \in UsedOf(n) <=> a \in UsedOf(mem)
       /\ \A a \in UsedOf(mem) : a # p => n[a].size = mem[a].size
  BY <1>2, <1>10, JoinTopSound
<1>12. HeapSound' /\ TopInv' /\ SegsInv'
  <2>1. Sound(mem', Segs, TopEnd, bins', dv', dvsize', top', topsize')
    BY <1>1, <1>8, <1>9, <1>11
  <2> QED
    BY <1>2, <1>3, <1>9, <2>1, HeapKept
<1>13. Resizes(mem, mem', oldp, newnb)
  BY <1>2, <1>3, <1>6, <1>7, <1>8, <1>11 DEF Resizes
<1> QED
  BY <1>1, <1>12, <1>13, ReallocDone

\* The free chunk behind the block, which is not top.
LEMMA NextFacts ==
  ASSUME TypeOK, HeapInv, pc = "realloc", after = dv \/ NextIsFree
  PROVE  /\ after # top /\ ~ mem[after].cinuse /\ SizeOf(after) = mem[after].size
         /\ mem[after].size \in Int /\ Aligned(mem[after].size)
         /\ after = dv => dvsize = mem[after].size
<1>1. /\ Sound(mem, Segs, TopEnd, bins, dv, dvsize, top, topsize)
      /\ after \in DOMAIN mem /\ after \in Int /\ after > 0
  BY OldFacts
<1>2. /\ Binned(mem, bins, dv, top) /\ dvsize = HeaderAt(mem, dv).size
  BY <1>1 DEF Sound
<1>3. HeaderAt(mem, after) = mem[after]
  BY <1>1 DEF HeaderAt
<1>4. after # top /\ ~ mem[after].cinuse
  <2>1. CASE after = dv
    <3>1. dv # NULL
      BY <1>1, <2>1 DEF NULL
    <3>2. dv \in FreeOf(mem) /\ dv # top
      BY <1>2, <3>1 DEF Binned
    <3> QED
      BY <2>1, <3>2 DEF FreeOf
  <2>2. CASE NextIsFree
    BY <1>3, <2>2 DEF NextIsFree, cinuse
  <2> QED
    BY <2>1, <2>2
<1>5. Heap(mem, Segs, top)
  BY <1>1, SoundHeap
<1>6. mem[after].size \in Int /\ Aligned(mem[after].size)
  BY <1>1, <1>4, <1>5, FreeFacts, ChunkFacts
<1> QED
  BY <1>2, <1>3, <1>4, <1>6 DEF SizeOf

\* realloc makes the block larger with the designated victim, or a part of it.
LEMMA ReallocIntoDvStep ==
  ASSUME TypeOK, HeapInv, ReallocIntoDv
  PROVE  HeapInv'
<1>1. /\ pc = "realloc" /\ oldsize < newnb /\ after = dv /\ oldsize + dvsize >= newnb /\ Resized
      /\ UNCHANGED <<bins, top, topsize>>
  BY DEF ReallocIntoDv
<1>2. /\ SystemType /\ HeapSound /\ TopInv /\ SegsInv /\ top # NULL
      /\ Sound(mem, Segs, TopEnd, bins, dv, dvsize, top, topsize) /\ TopEnd \in Int
      /\ oldp \in Int /\ oldp > 0 /\ oldp \in DOMAIN mem /\ mem[oldp].cinuse /\ ~ Fence(mem, oldp)
      /\ oldsize = mem[oldp].size /\ oldsize \in Int /\ after = oldp + mem[oldp].size
      /\ after \in Int
      /\ newnb \in Int /\ Aligned(newnb) /\ newnb >= min_chunk_size /\ newnb > 0
  BY <1>1, OldFacts
<1>3. UNCHANGED <<segs, least_addr>> /\ min_chunk_size \in Int /\ min_chunk_size > 0
  BY <1>1, Constants DEF Resized, system
<1>4. after # top /\ ~ mem[after].cinuse /\ mem[after].size \in Int /\ dvsize = mem[after].size
  BY <1>1, NextFacts
<1>5. PICK p \in Int : p = oldp
  BY <1>2
<1>6. PICK x \in Int : x = after
  BY <1>2
<1>7. PICK n : n = mem'
  OBVIOUS
<1>8. /\ p \in DOMAIN mem /\ mem[p].cinuse /\ ~ Fence(mem, p)
      /\ x = p + mem[p].size /\ x # top /\ ~ mem[x].cinuse /\ x = dv
  BY <1>1, <1>2, <1>4, <1>5, <1>6
<1>9. CASE /\ ~ TooSmall(oldsize + dvsize - newnb)
           /\ mem' = clear_pinuse(
                       set_size_and_pinuse_of_free_chunk(set_inuse(mem, oldp, newnb), oldp + newnb,
                                                         oldsize + dvsize - newnb),
                       (oldp + newnb) + (oldsize + dvsize - newnb))
           /\ dv' = oldp + newnb /\ dvsize' = oldsize + dvsize - newnb
  <2>1. PICK r \in Int : r = oldp + newnb
    BY <1>2
  <2>2. PICK back \in Int : back = oldsize + dvsize - newnb
    BY <1>2, <1>4
  <2>3. PICK front \in Int : front = newnb
    BY <1>2
  <2>4. dv' = r /\ dvsize' = back
    BY <1>9, <2>1, <2>2
  <2>5. SharesFree(mem, n, top, p, x, front, back, r)
    <3>1. Aligned(front) /\ front >= min_chunk_size /\ r = p + front
      BY <1>2, <1>5, <2>1, <2>3
    <3>2. front + back = mem[p].size + mem[x].size
      BY <1>2, <1>4, <1>5, <1>6, <2>2, <2>3
    <3>3. back >= min_chunk_size
      BY <1>3, <1>9, <2>2 DEF TooSmall
    <3>4. n = clear_pinuse(set_size_and_pinuse_of_free_chunk(set_inuse(mem, p, front), r, back), r + back)
      BY <1>5, <1>7, <1>9, <2>1, <2>2, <2>3
    <3> QED
      BY <1>8, <3>1, <3>2, <3>3, <3>4 DEF SharesFree, Shares
  <2>6. PICK v : v = dv
    OBVIOUS
  <2>7. /\ n[p].size = front
        /\ \A a \in UsedOf(mem) : a # p => n[a].size = mem[a].size
        /\ Sound(n, Segs, TopEnd, bins, r, back, top, topsize)
        /\ \A a : a \in UsedOf(n) <=> a \in UsedOf(mem)
    BY <1>2, <1>8, <2>5, JoinDvSound
  <2>8. HeapSound' /\ TopInv' /\ SegsInv'
    <3>1. Sound(mem', Segs, TopEnd, bins', dv', dvsize', top', topsize')
      BY <1>1, <1>7, <2>4, <2>7
    <3> QED
      BY <1>1, <1>2, <1>3, <3>1, HeapKept
  <2>9. Resizes(mem, mem', oldp, newnb)
    BY <1>2, <1>3, <1>5, <1>7, <2>3, <2>7 DEF Resizes
  <2> QED
    BY <1>1, <2>8, <2>9, ReallocDone
<1>10. CASE /\ TooSmall(oldsize + dvsize - newnb)
            /\ mem' = set_inuse(mem, oldp, oldsize + dvsize) /\ dv' = NULL /\ dvsize' = 0
  <2>1. PICK both \in Int : both = oldsize + dvsize
    BY <1>2, <1>4
  <2>2. Joins(mem, n, top, p, x, both)
    <3>1. both = mem[p].size + mem[x].size
      BY <1>2, <1>4, <1>5, <1>6, <2>1
    <3>2. n = set_inuse(mem, p, both)
      BY <1>5, <1>7, <1>10, <2>1
    <3> QED
      BY <1>8, <3>1, <3>2 DEF Joins
  <2>3. PICK C : Without(C, bins, x)
    BY DEF Without
  <2>4. /\ n[p].size = both
        /\ \A a \in UsedOf(mem) : a # p => n[a].size = mem[a].size
        /\ dv = x => Sound(n, Segs, TopEnd, bins, NULL, 0, top, topsize)
        /\ \A a : a \in UsedOf(n) <=> a \in UsedOf(mem)
    BY <1>2, <2>2, <2>3, JoinSound
  <2>5. HeapSound' /\ TopInv' /\ SegsInv'
    <3>1. Sound(mem', Segs, TopEnd, bins', dv', dvsize', top', topsize')
      BY <1>1, <1>7, <1>8, <1>10, <2>4
    <3> QED
      BY <1>1, <1>2, <1>3, <3>1, HeapKept
  <2>6. Resizes(mem, mem', oldp, newnb)
    <3>1. both \in Int /\ newnb <= both /\ both < newnb + min_chunk_size
      BY <1>1, <1>2, <1>3, <1>4, <1>10, <2>1 DEF TooSmall
    <3> QED
      BY <1>5, <1>7, <2>4, <3>1 DEF Resizes
  <2> QED
    BY <1>1, <2>5, <2>6, ReallocDone
<1> QED
  BY <1>9, <1>10 DEF ReallocIntoDv

\* realloc makes the block larger with the free chunk behind it, and gives back what
\* it does not need of that.
LEMMA ReallocIntoNextStep ==
  ASSUME TypeOK, HeapInv, ReallocIntoNext
  PROVE  HeapInv'
<1>1. /\ pc = "realloc" /\ oldsize < newnb /\ NextIsFree /\ oldsize + SizeOf(after) >= newnb /\ Resized
  BY DEF ReallocIntoNext
<1>2. /\ SystemType /\ HeapSound /\ TopInv /\ SegsInv /\ top # NULL
      /\ Sound(mem, Segs, TopEnd, bins, dv, dvsize, top, topsize) /\ TopEnd \in Int
      /\ oldp \in Int /\ oldp > 0 /\ oldp \in DOMAIN mem /\ mem[oldp].cinuse /\ ~ Fence(mem, oldp)
      /\ oldsize = mem[oldp].size /\ oldsize \in Int /\ after = oldp + mem[oldp].size
      /\ after \in Int
      /\ newnb \in Int /\ Aligned(newnb) /\ newnb >= min_chunk_size /\ newnb > 0
  BY <1>1, OldFacts
<1>3. UNCHANGED <<segs, least_addr>> /\ min_chunk_size \in Int /\ min_chunk_size > 0
  BY <1>1, Constants DEF Resized, system
<1>4. /\ after # top /\ ~ mem[after].cinuse /\ mem[after].size \in Int
      /\ SizeOf(after) = mem[after].size /\ after # dv
  BY <1>1, NextFacts DEF NextIsFree
<1>5. PICK p \in Int : p = oldp
  BY <1>2
<1>6. PICK x \in Int : x = after
  BY <1>2
<1>7. /\ p \in DOMAIN mem /\ mem[p].cinuse /\ ~ Fence(mem, p)
      /\ x = p + mem[p].size /\ x # top /\ ~ mem[x].cinuse /\ dv # x
  BY <1>1, <1>2, <1>4, <1>5, <1>6
<1>8. PICK C : C = bins \ {after} /\ Without(C, bins, x)
  BY <1>6 DEF Without
<1>9. CASE /\ TooSmall(oldsize + SizeOf(after) - newnb)
           /\ mem' = set_inuse(mem, oldp, oldsize + SizeOf(after))
           /\ bins' = bins \ {after}
           /\ UNCHANGED <<dv, dvsize, top, topsize>>
  <2>1. PICK both \in Int : both = oldsize + SizeOf(after)
    BY <1>2, <1>4
  <2>2. PICK n : n = mem'
    OBVIOUS
  <2>3. Joins(mem, n, top, p, x, both)
    <3>1. both = mem[p].size + mem[x].size
      BY <1>2, <1>4, <1>5, <1>6, <2>1
    <3>2. n = set_inuse(mem, p, both)
      BY <1>5, <1>9, <2>1, <2>2
    <3> QED
      BY <1>7, <3>1, <3>2 DEF Joins
  <2>4. /\ n[p].size = both
        /\ \A a \in UsedOf(mem) : a # p => n[a].size = mem[a].size
        /\ dv # x => Sound(n, Segs, TopEnd, C, dv, dvsize, top, topsize)
        /\ \A a : a \in UsedOf(n) <=> a \in UsedOf(mem)
    BY <1>2, <1>8, <2>3, JoinSound
  <2>5. HeapSound' /\ TopInv' /\ SegsInv'
    <3>1. Sound(mem', Segs, TopEnd, bins', dv', dvsize', top', topsize')
      BY <1>7, <1>8, <1>9, <2>2, <2>4
    <3> QED
      BY <1>2, <1>3, <1>9, <3>1, HeapKept
  <2>6. Resizes(mem, mem', oldp, newnb)
    <3>1. both \in Int /\ newnb <= both /\ both < newnb + min_chunk_size
      BY <1>1, <1>2, <1>3, <1>4, <1>9, <2>1 DEF TooSmall
    <3> QED
      BY <1>5, <2>2, <2>4, <3>1 DEF Resizes
  <2> QED
    BY <1>1, <2>5, <2>6, ReallocDone
<1>10. CASE /\ ~ TooSmall(oldsize + SizeOf(after) - newnb)
            /\ dispose_chunk(bins \ {after},
                 set_inuse(set_inuse(mem, oldp, newnb), oldp + newnb, oldsize + SizeOf(after) - newnb),
                 oldp + newnb, oldsize + SizeOf(after) - newnb)
  <2>1. PICK r \in Int : r = oldp + newnb
    BY <1>2
  <2>2. PICK back \in Int : back = oldsize + SizeOf(after) - newnb
    BY <1>2, <1>4
  <2>3. PICK front \in Int : front = newnb
    BY <1>2
  <2>4. PICK n : n = set_inuse(set_inuse(mem, p, front), r, back)
    OBVIOUS
  <2>5. dispose_chunk(C, n, r, back)
    BY <1>5, <1>8, <1>10, <2>1, <2>2, <2>3, <2>4
  <2>6. back >= min_chunk_size
    BY <1>3, <1>10, <2>2 DEF TooSmall
  <2>7. SharesUsed(mem, n, top, p, x, front, back, r)
    <3>1. Aligned(front) /\ front >= min_chunk_size /\ r = p + front
      BY <1>2, <1>5, <2>1, <2>3
    <3>2. front + back = mem[p].size + mem[x].size
      BY <1>2, <1>4, <1>5, <1>6, <2>2, <2>3
    <3> QED
      BY <1>7, <2>4, <2>6, <3>1, <3>2 DEF SharesUsed, Shares
  <2>8. /\ n[p].size = front /\ n[r].size = back /\ r \notin UsedOf(mem) /\ r # p
        /\ \A a \in UsedOf(mem) : a # p => n[a].size = mem[a].size
        /\ Sound(n, Segs, TopEnd, C, dv, dvsize, top, topsize)
        /\ \A a : a \in UsedOf(n) <=> a \in UsedOf(mem) \/ a = r
    BY <1>2, <1>7, <1>8, <2>7, JoinSplitSound
  <2>9. r \in DOMAIN n /\ n[r].cinuse /\ ~ Fence(n, r)
    BY <2>6, <2>8, NoFence DEF UsedOf
  <2>10. HeapSound' /\ TopInv' /\ SegsInv' /\ Lost(n, mem', r)
    BY <1>2, <1>3, <2>5, <2>8, <2>9, GivenBack
  <2>11. Resizes(mem, mem', oldp, newnb)
    <3>1. oldp \in UsedOf(mem)
      BY <1>2 DEF UsedOf
    <3>2. mem'[oldp].size = newnb
      BY <1>5, <2>3, <2>8, <2>10, <3>1 DEF Lost
    <3>3. newnb < newnb + min_chunk_size
      BY <1>2, <1>3
    <3> QED
      <4>1. \A a : a \in UsedOf(mem') <=> a \in UsedOf(mem)
        BY <2>8, <2>10 DEF Lost
      <4>2. \A a \in UsedOf(mem) : a # oldp => mem'[a].size = mem[a].size
        BY <1>5, <2>8, <2>10, <4>1 DEF Lost
      <4>3. newnb \in Int
        BY <1>2
      <4> QED
        BY <3>2, <3>3, <4>1, <4>2, <4>3 DEF Resizes
  <2> QED
    BY <1>1, <2>10, <2>11, ReallocDone
<1> QED
  BY <1>9, <1>10 DEF ReallocIntoNext

\* realloc goes on to ask for a new block: nothing has happened yet.
LEMMA ReallocMovesStep ==
  ASSUME TypeOK, HeapInv, ReallocMoves
  PROVE  HeapInv'
<1>1. /\ pc = "realloc" /\ pc' = "malloc" /\ call' = [call EXCEPT !.req = call.size]
      /\ UNCHANGED <<heap, system, live>>
  BY DEF ReallocMoves
<1>2. /\ SystemType /\ CallType /\ HeapSound /\ TopInv /\ SegsInv /\ BlocksInv /\ FrameInv /\ top # NULL
      /\ Sound(mem, Segs, TopEnd, bins, dv, dvsize, top, topsize)
      /\ Owners(mem, Clients, Records)
      /\ call.size \in Nat /\ call.old \in DOMAIN live
  BY <1>1, OldFacts
<1>3. UNCHANGED <<segs, least_addr, mem, bins, dv, dvsize, top, topsize>>
  BY <1>1 DEF heap, system
<1>4. HeapSound' /\ TopInv' /\ SegsInv'
  BY <1>2, <1>3, HeapKept
<1>5. call.align = malloc_alignment
  BY <1>1, <1>2 DEF FrameInv
<1>6. /\ call'.req = call.size /\ call'.size = call.size /\ call'.align = call.align
      /\ call'.old = call.old
  BY <1>1, <1>2 DEF CallType, Frame
<1>7. FrameInv'
  BY <1>1, <1>2, <1>5, <1>6, Constants DEF FrameInv, Alignment
<1>8. Records' = Records
  BY <1>3, RecordsKept
<1> QED
  BY <1>1, <1>2, <1>3, <1>4, <1>7, <1>8, Settled

-----------------------------------------------------------------------------
(* memalign *)

\* A multiple of a multiple of the malloc alignment is aligned.
LEMMA MultipleAligned ==
  ASSUME NEW q \in Int, NEW x \in Int, Aligned(x)
  PROVE  Aligned(q * x)
<1>1. CASE WORD = 4
  <2>1. x % 8 = 0
    BY <1>1 DEF Aligned, malloc_alignment
  <2>2. PICK k \in Int : x = k * 8
    BY <2>1
  <2>3. q * x = (q * k) * 8 /\ q * k \in Int
    BY <2>2
  <2>4. PICK j \in Int : j = q * k
    BY <2>3
  <2>5. (j * 8) % 8 = 0
    OBVIOUS
  <2>6. PICK y : y = q * x
    OBVIOUS
  <2>7. y % 8 = 0
    BY <2>3, <2>4, <2>5, <2>6
  <2>8. Aligned(y)
    BY <1>1, <2>7 DEF Aligned, malloc_alignment
  <2> QED
    BY <2>6, <2>8
<1>2. CASE WORD = 8
  <2>1. x % 16 = 0
    BY <1>2 DEF Aligned, malloc_alignment
  <2>2. PICK k \in Int : x = k * 16
    BY <2>1
  <2>3. q * x = (q * k) * 16 /\ q * k \in Int
    BY <2>2
  <2>4. PICK j \in Int : j = q * k
    BY <2>3
  <2>5. (j * 16) % 16 = 0
    OBVIOUS
  <2>6. PICK y : y = q * x
    OBVIOUS
  <2>7. y % 16 = 0
    BY <2>3, <2>4, <2>5, <2>6
  <2>8. Aligned(y)
    BY <1>2, <2>7 DEF Aligned, malloc_alignment
  <2> QED
    BY <2>6, <2>8
<1> QED
  BY <1>1, <1>2, WordAssumption

\* A multiple of x is one, and so is the next.
LEMMA Multiple ==
  ASSUME NEW x \in Nat \ {0}, NEW k \in Int
  PROVE  (k * x) % x = 0
OBVIOUS

\* The same, for a place that is one.
LEMMA NextMultiple ==
  ASSUME NEW x \in Nat \ {0}, NEW u \in Int, NEW k \in Int, u = k * x
  PROVE  (u + x) % x = 0
<1>1. PICK j \in Int : j = k + 1
  OBVIOUS
<1>2. (j * x) % x = 0
  BY Multiple
<1>3. j * x = u + x
  BY <1>1
<1> QED
  BY <1>2, <1>3

\* Where the aligned block of a chunk starts: at the chunk, or so far into it that
\* the space before can be a chunk, and no farther than malloc was asked for.
LEMMA AlignedPlace ==
  ASSUME NEW p \in Int, Aligned(p), NEW x \in Nat, x = call.align, Alignment(x), x > malloc_alignment
  PROVE  /\ AlignedIn(p) \in Int /\ Aligned(AlignedIn(p)) /\ to_mem(AlignedIn(p)) % x = 0
         /\ \/ AlignedIn(p) = p
            \/ /\ AlignedIn(p) - p >= min_chunk_size
               /\ AlignedIn(p) - p <= x + min_chunk_size
<1>1. is_power_of_two(x) /\ x >= min_chunk_size
  BY DEF Alignment
<1>2. raised(call.align) = x
  <2>1. min_chunk_size \in Int
    BY Constants
  <2> QED
    BY <1>1, <2>1 DEF raised
<1>3. Aligned(x) /\ x \in Nat \ {0}
  <2>1. x >= MIN_GRANULARITY /\ x > 0
    BY <1>1, Constants DEF MIN_GRANULARITY
  <2> QED
    BY <1>1, <2>1, Granules DEF Aligned
<1>4. mem_offset \in Int /\ Aligned(mem_offset) /\ min_chunk_size \in Int /\ min_chunk_size > 0
  BY Constants DEF Aligned
<1>5. PICK b \in Int : b = to_mem(p)
  BY <1>4 DEF to_mem
<1>6. PICK u : u = align_up(b, x)
  OBVIOUS
<1>7. u \in Int /\ u % x = 0 /\ b <= u /\ u < b + x
  BY <1>3, <1>5, <1>6, AlignUp
<1>14. PICK q \in Int : u = q * x
  <2>1. (b + x - 1) \div x \in Int
    BY <1>3, <1>5
  <2>2. u = ((b + x - 1) \div x) * x
    BY <1>6 DEF align_up
  <2> QED
    BY <2>1, <2>2
<1>8. Aligned(u)
  <2>1. x \in Int
    BY <1>3
  <2>2. Aligned(q * x)
    BY <1>3, <2>1, MultipleAligned
  <2> QED
    BY <1>14, <2>2
<1>9. PICK br \in Int : br = from_mem(u)
  BY <1>4, <1>7 DEF from_mem
<1>10. br = u - mem_offset /\ b = p + mem_offset /\ Aligned(br) /\ p <= br /\ br - p < x
  <2>1. br = u - mem_offset /\ b = p + mem_offset
    BY <1>5, <1>9 DEF from_mem, to_mem
  <2>2. Aligned(br)
    BY <1>4, <1>7, <1>8, <2>1, AlignedSum
  <2> QED
    BY <1>4, <1>7, <2>1, <2>2
<1>11. CASE b % x = 0
  <2>1. AlignedIn(p) = p
    BY <1>2, <1>5, <1>11 DEF AlignedIn
  <2> QED
    BY <1>5, <1>11, <2>1
<1>12. CASE b % x # 0 /\ br - p > min_chunk_size
  <2>1. AlignedIn(p) = br
    BY <1>2, <1>5, <1>6, <1>9, <1>12 DEF AlignedIn
  <2>2. to_mem(br) = u
    BY <1>4, <1>7, <1>10 DEF to_mem
  <2>3. br - p >= min_chunk_size /\ br - p <= x + min_chunk_size
    BY <1>4, <1>10, <1>12
  <2> QED
    BY <1>7, <1>10, <2>1, <2>2, <2>3
<1>13. CASE b % x # 0 /\ ~ (br - p > min_chunk_size)
  <2>1. AlignedIn(p) = br + x
    BY <1>2, <1>5, <1>6, <1>9, <1>13 DEF AlignedIn
  <2>2. to_mem(br + x) = u + x
    BY <1>4, <1>7, <1>10 DEF to_mem
  <2>3. (u + x) % x = 0
    BY <1>3, <1>7, <1>14, NextMultiple
  <2>4. br + x - p >= min_chunk_size /\ br + x - p <= x + min_chunk_size
    BY <1>1, <1>4, <1>10, <1>13
  <2>5. Aligned(br + x)
    <3>1. x \in Int /\ Aligned(x) /\ Aligned(br)
      BY <1>3, <1>10
    <3> QED
      BY <3>1, AlignedSum
  <2> QED
    BY <2>1, <2>2, <2>3, <2>4, <2>5
<1> QED
  BY <1>11, <1>12, <1>13

\* The chunk that memalign is to trim to its request.
LEMMA AlignFacts ==
  ASSUME TypeOK, HeapInv, pc \in {"lead", "tail"}
  PROVE  /\ SystemType /\ CallType /\ LiveType
         /\ HeapSound /\ TopInv /\ SegsInv /\ BlocksInv /\ FrameInv
         /\ Sound(mem, Segs, TopEnd, bins, dv, dvsize, top, topsize) /\ TopEnd \in Int
         /\ Owners(mem, Held, Records) /\ Clients \cap InHand = {} /\ top # NULL
         /\ \A a : a \in Held <=> a \in Clients \/ a = call.p
         /\ call.p \in Int /\ call.p > 0 /\ Aligned(call.p)
         /\ call.p \in DOMAIN mem /\ mem[call.p].cinuse /\ ~ Fence(mem, call.p)
         /\ SizeOf(call.p) = mem[call.p].size /\ mem[call.p].size \in Int
         /\ call.p \notin Clients
         /\ call.size \in Nat /\ Alignment(call.align) /\ call.align > malloc_alignment
         /\ call.align \in Nat /\ request2size(call.size) \in Int
         /\ Aligned(request2size(call.size)) /\ request2size(call.size) >= min_chunk_size
<1>1. /\ SystemType /\ CallType /\ LiveType
      /\ HeapSound /\ TopInv /\ SegsInv /\ OwnersInv /\ BlocksInv /\ FrameInv
      /\ Sound(mem, Segs, TopEnd, bins, dv, dvsize, top, topsize)
  BY TypeParts DEF HeapInv, HeapSound
<1>2. InHand = {call.p}
  BY DEF InHand
<1>3. Owners(mem, Held, Records) /\ Clients \cap InHand = {}
  BY <1>1 DEF OwnersInv
<1>4. call.p \in Held
  BY <1>2 DEF Held
<1>5. call.p \in DOMAIN mem /\ mem[call.p].cinuse /\ ~ Fence(mem, call.p) /\ top # NULL
  BY <1>1, <1>4, HeldFacts
<1>6. Heap(mem, Segs, top)
  BY <1>1, SoundHeap
<1>7. SizeOf(call.p) = mem[call.p].size
  BY <1>5 DEF SizeOf, HeaderAt
<1>8. /\ Aligned(call.p) /\ call.p \in Int /\ call.p > 0 /\ mem[call.p].size \in Int
  BY <1>5, <1>6, UsedFacts, ChunkFacts
<1>9. call.size \in Nat /\ Alignment(call.align) /\ call.align > malloc_alignment
  BY <1>1 DEF FrameInv
<1>10. call.align \in Nat
  BY <1>9, Constants DEF Alignment
<1>11. /\ request2size(call.size) \in Int
       /\ Aligned(request2size(call.size)) /\ request2size(call.size) >= min_chunk_size
  BY <1>9, NbFacts
<1>12. TopEnd \in Int
  BY <1>1, <1>5, TopRoom
<1>13. (\A a : a \in Held <=> a \in Clients \/ a = call.p) /\ call.p \notin Clients
  BY <1>2, <1>3 DEF Held
<1> QED
  BY <1>1, <1>3, <1>5, <1>7, <1>8, <1>9, <1>10, <1>11, <1>12, <1>13

\* memalign gives back the space before the aligned block.
LEMMA MemalignLeadStep ==
  ASSUME TypeOK, HeapInv, MemalignLead
  PROVE  HeapInv'
<1>1. /\ pc = "lead" /\ pc' = "tail" /\ call' = [call EXCEPT !.p = AlignedIn(call.p)]
      /\ UNCHANGED <<system, live>>
  BY DEF MemalignLead
<1>2. /\ SystemType /\ CallType /\ LiveType
      /\ HeapSound /\ TopInv /\ SegsInv /\ BlocksInv /\ FrameInv
      /\ Sound(mem, Segs, TopEnd, bins, dv, dvsize, top, topsize) /\ TopEnd \in Int
      /\ Owners(mem, Held, Records) /\ Clients \cap InHand = {} /\ top # NULL
      /\ \A a : a \in Held <=> a \in Clients \/ a = call.p
      /\ call.p \in Int /\ call.p > 0 /\ Aligned(call.p)
      /\ call.p \in DOMAIN mem /\ mem[call.p].cinuse /\ ~ Fence(mem, call.p)
      /\ SizeOf(call.p) = mem[call.p].size /\ mem[call.p].size \in Int
      /\ call.p \notin Clients
      /\ call.size \in Nat /\ Alignment(call.align) /\ call.align > malloc_alignment
      /\ call.align \in Nat /\ request2size(call.size) \in Int
      /\ request2size(call.size) >= min_chunk_size
  BY <1>1, AlignFacts
<1>3. PICK newp : newp = AlignedIn(call.p)
  OBVIOUS
<1>4. /\ newp \in Int /\ Aligned(newp) /\ to_mem(newp) % call.align = 0
      /\ \/ newp = call.p
         \/ newp - call.p >= min_chunk_size /\ newp - call.p <= call.align + min_chunk_size
  BY <1>2, <1>3, AlignedPlace
<1>5. /\ call'.p = newp /\ call'.size = call.size /\ call'.align = call.align
      /\ call'.old = call.old
  BY <1>1, <1>2, <1>3 DEF CallType, Frame
<1>6. UNCHANGED <<segs, least_addr>> /\ Records' = Records /\ Clients' = Clients
  BY <1>1, RecordsKept DEF system, Clients
<1>7. mem[call.p].size >= request2size(call.size) + call.align + min_chunk_size
  BY <1>1, <1>2 DEF FrameInv
<1>8. min_chunk_size \in Int /\ min_chunk_size > 0
  BY Constants
<1>9. \A a : a \in Held' <=> a \in Clients \/ a = newp
  BY <1>1, <1>5, <1>6 DEF Held, InHand
<1>10. SUFFICES /\ HeapSound' /\ TopInv' /\ SegsInv' /\ newp \notin Clients
                /\ Owners(mem', Held', Records)
                /\ \A a \in Clients : mem'[a].size = mem[a].size
                /\ mem'[newp].size >= request2size(call.size)
  <2>1. OwnersInv'
    <3>1. InHand' = {newp}
      BY <1>1, <1>5 DEF InHand
    <3> QED
      BY <1>6, <1>10, <3>1 DEF OwnersInv
  <2>2. BlocksInv'
    <3>1. live' = live
      BY <1>1
    <3> QED
      BY <1>2, <1>10, <3>1 DEF BlocksInv, Clients
  <2>3. FrameInv'
    BY <1>1, <1>2, <1>4, <1>5, <1>10 DEF FrameInv
  <2> QED
    BY <1>10, <2>1, <2>2, <2>3 DEF HeapInv
<1>11. CASE newp = call.p /\ UNCHANGED heap
  <2>1. mem' = mem /\ UNCHANGED <<bins, dv, dvsize, top, topsize>>
    BY <1>11 DEF heap
  <2>2. HeapSound' /\ TopInv' /\ SegsInv'
    BY <1>2, <1>6, <2>1, HeapKept
  <2>3. Held' = Held
    BY <1>2, <1>9, <1>11
  <2>4. mem'[newp].size >= request2size(call.size)
    BY <1>2, <1>7, <1>8, <1>11, <2>1
  <2> QED
    BY <1>2, <1>11, <2>1, <2>2, <2>3, <2>4
<1>12. CASE /\ newp # call.p
            /\ dispose_chunk(bins,
                 set_inuse(set_inuse(mem, newp, SizeOf(call.p) - (newp - call.p)),
                           call.p, newp - call.p), call.p, newp - call.p)
  <2>1. PICK p \in Int : p = call.p
    BY <1>2
  <2>2. PICK front \in Int : front = newp - call.p
    BY <1>2, <1>4
  <2>3. PICK back \in Int : back = SizeOf(call.p) - front
    BY <1>2, <2>2
  <2>4. PICK n : n = set_inuse(set_inuse(mem, newp, back), p, front)
    OBVIOUS
  <2>5. dispose_chunk(bins, n, p, front)
    BY <1>12, <2>1, <2>2, <2>3, <2>4
  <2>6. /\ front >= min_chunk_size /\ back >= request2size(call.size) /\ back >= min_chunk_size
        /\ mem[p].size = front + back /\ newp = p + front
    BY <1>2, <1>4, <1>7, <1>8, <1>12, <2>1, <2>2, <2>3
  <2>7. Aligned(front)
    BY <1>2, <1>4, <2>2, AlignedSum
  <2>8. Splits(mem, n, p, front, back, newp)
    BY <1>2, <2>1, <2>4, <2>6, <2>7 DEF Splits
  <2>9. /\ Sound(n, Segs, TopEnd, bins, dv, dvsize, top, topsize)
        /\ n[p].size = front /\ n[newp].size = back /\ newp \notin UsedOf(mem) /\ newp # p
        /\ \A a : a \in UsedOf(n) <=> a \in UsedOf(mem) \/ a = newp
        /\ \A a \in UsedOf(mem) : a # p => n[a].size = mem[a].size
    BY <1>2, <1>4, <2>8, SplitSound
  <2>10. p \in DOMAIN n /\ n[p].cinuse /\ ~ Fence(n, p)
    <3>1. p \in UsedOf(mem)
      BY <1>2, <2>1 DEF UsedOf
    <3> QED
      BY <2>6, <2>9, <3>1, NoFence DEF UsedOf
  <2>11. HeapSound' /\ TopInv' /\ SegsInv' /\ Lost(n, mem', p)
    BY <1>2, <1>6, <2>5, <2>9, <2>10, GivenBack
  <2>12. /\ \A a : a \in UsedOf(mem') <=> (a \in UsedOf(mem) \/ a = newp) /\ a # p
         /\ \A a \in UsedOf(mem) : a # p => mem'[a].size = mem[a].size
         /\ mem'[newp].size = back
    BY <2>9, <2>11 DEF Lost
  <2>13. \A a \in Clients : a \in UsedOf(mem) /\ a # p /\ a # newp
    BY <1>2, <2>1, <2>9 DEF Owners
  <2>14. Owners(mem', Held', Records)
    <3>1. ~ Fence(mem', newp)
      BY <2>6, <2>12, NoFence
    <3>2. \A a \in UsedOf(mem) : a # p => (Fence(mem', a) <=> Fence(mem, a))
      <4>1. \A a \in UsedOf(mem) : a # p => mem'[a].cinuse /\ mem[a].cinuse
        BY <2>12 DEF UsedOf
      <4> QED
        BY <2>12, <4>1 DEF Fence
    <3>3. \A a \in Records : a \in UsedOf(mem) /\ a # p /\ a # newp
      BY <1>2, <2>1, <2>9 DEF Owners
    <3>4. \A a \in Held' : a \in UsedOf(mem') /\ ~ Fence(mem', a) /\ a \notin Records
      BY <1>2, <1>9, <2>9, <2>12, <2>13, <3>1, <3>2, <3>3 DEF Owners
    <3>5. \A a \in Records : a \in UsedOf(mem') /\ mem'[a].size = segment_record_size
      BY <1>2, <2>12, <3>3 DEF Owners
    <3>6. \A a \in UsedOf(mem') : a \in Held' \/ a \in Records \/ Fence(mem', a)
      BY <1>2, <1>9, <2>1, <2>12, <3>2 DEF Owners
    <3> QED
      BY <3>4, <3>5, <3>6 DEF Owners
  <2> QED
    BY <2>6, <2>11, <2>12, <2>13, <2>14
<1> QED
  BY <1>3, <1>11, <1>12 DEF MemalignLead

\* The aligned chunk, cut to its request, is the client's.
LEMMA TailDone ==
  ASSUME TypeOK, HeapInv, pc = "tail", HeapSound', TopInv', SegsInv', UNCHANGED segs,
         Finish(call.p), Owners(mem', Held, Records),
         \A a \in Clients : mem'[a].size = mem[a].size,
         mem'[call.p].size \in Int, request2size(call.size) <= mem'[call.p].size,
         mem'[call.p].size <= request2size(call.size) + min_chunk_size
  PROVE  HeapInv'
<1>1. /\ CallType /\ LiveType /\ BlocksInv /\ FrameInv
      /\ \A a : a \in Held <=> a \in Clients \/ a = call.p
      /\ call.p \in Int /\ call.p # NULL /\ call.p \notin Clients /\ call.size \in Nat
  BY AlignFacts DEF NULL
<1>2. PICK p \in Int : p = call.p
  BY <1>1
<1>3. /\ \A a : a \in Held' <=> a \in Clients \/ a = p
      /\ Clients' \cap InHand' = {} /\ pc' \in {"idle", "free"}
  BY <1>1, <1>2, FinishHeld
<1>4. Held' = Held /\ Records' = Records
  BY <1>1, <1>2, <1>3, RecordsKept
<1>5. Roomy(mem'[p].size, call.size)
  BY <1>1, <1>2, RoomEnough
<1>6. to_mem(p) % call.align = 0
  BY <1>1, <1>2 DEF FrameInv
<1>7. BlocksInv'
  BY <1>1, <1>2, <1>5, <1>6, FinishBlocks
<1>8. FrameInv'
  BY <1>3, NoFrame
<1> QED
  BY <1>3, <1>4, <1>7, <1>8 DEF HeapInv, OwnersInv

\* memalign gives back the space behind the aligned block.
LEMMA MemalignTailStep ==
  ASSUME TypeOK, HeapInv, MemalignTail
  PROVE  HeapInv'
<1>1. /\ pc = "tail" /\ Finish(call.p) /\ UNCHANGED system
  BY DEF MemalignTail
<1>2. /\ SystemType /\ HeapSound /\ TopInv /\ SegsInv /\ FrameInv /\ top # NULL
      /\ Sound(mem, Segs, TopEnd, bins, dv, dvsize, top, topsize) /\ TopEnd \in Int
      /\ Owners(mem, Held, Records)
      /\ \A a : a \in Held <=> a \in Clients \/ a = call.p
      /\ call.p \in Int /\ call.p > 0
      /\ call.p \in DOMAIN mem /\ mem[call.p].cinuse /\ ~ Fence(mem, call.p)
      /\ SizeOf(call.p) = mem[call.p].size /\ mem[call.p].size \in Int
      /\ call.p \notin Clients
      /\ request2size(call.size) \in Int
      /\ Aligned(request2size(call.size)) /\ request2size(call.size) >= min_chunk_size
  BY <1>1, AlignFacts
<1>3. UNCHANGED <<segs, least_addr>> /\ min_chunk_size \in Int /\ min_chunk_size > 0
  BY <1>1, Constants DEF system
<1>4. PICK p \in Int : p = call.p
  BY <1>2
<1>5. PICK front \in Int : front = request2size(call.size)
  BY <1>2
<1>6. PICK back \in Int : back = SizeOf(p) - front
  BY <1>2, <1>4
<1>7. CASE back <= min_chunk_size /\ UNCHANGED heap
  <2>1. mem' = mem /\ UNCHANGED <<bins, dv, dvsize, top, topsize>>
    BY <1>7 DEF heap
  <2>2. HeapSound' /\ TopInv' /\ SegsInv'
    BY <1>2, <1>3, <2>1, HeapKept
  <2>3. request2size(call.size) <= mem[call.p].size
    BY <1>1, <1>2 DEF FrameInv
  <2>4. mem[call.p].size <= request2size(call.size) + min_chunk_size
    BY <1>2, <1>3, <1>4, <1>5, <1>6, <1>7
  <2> QED
    BY <1>1, <1>2, <1>3, <2>1, <2>2, <2>3, <2>4, TailDone
<1>8. CASE /\ back > min_chunk_size
           /\ dispose_chunk(bins, set_inuse(set_inuse(mem, p, front), p + front, back), p + front, back)
  <2>1. PICK r \in Int : r = p + front
    OBVIOUS
  <2>2. PICK n : n = set_inuse(set_inuse(mem, p, front), r, back)
    OBVIOUS
  <2>3. dispose_chunk(bins, n, r, back)
    BY <1>8, <2>1, <2>2
  <2>4. back >= min_chunk_size /\ mem[p].size = front + back
    BY <1>2, <1>3, <1>4, <1>5, <1>6, <1>8
  <2>5. Splits(mem, n, p, front, back, r)
    <3>1. p \in DOMAIN mem /\ mem[p].cinuse /\ ~ Fence(mem, p) /\ Aligned(front) /\ front >= min_chunk_size
      BY <1>2, <1>4, <1>5
    <3> QED
      BY <2>1, <2>2, <2>4, <3>1 DEF Splits
  <2>6. /\ Sound(n, Segs, TopEnd, bins, dv, dvsize, top, topsize)
        /\ n[p].size = front /\ n[r].size = back /\ r \notin UsedOf(mem) /\ r # p
        /\ \A a : a \in UsedOf(n) <=> a \in UsedOf(mem) \/ a = r
        /\ \A a \in UsedOf(mem) : a # p => n[a].size = mem[a].size
    BY <1>2, <2>5, SplitSound
  <2>7. r \in DOMAIN n /\ n[r].cinuse /\ ~ Fence(n, r)
    BY <2>4, <2>6, NoFence DEF UsedOf
  <2>8. HeapSound' /\ TopInv' /\ SegsInv' /\ Lost(n, mem', r)
    BY <1>2, <1>3, <2>3, <2>6, <2>7, GivenBack
  <2>9. Resizes(mem, mem', p, front) /\ mem'[p].size = front
    <3>1. p \in UsedOf(mem)
      BY <1>2, <1>4 DEF UsedOf
    <3>2. mem'[p].size = front
      BY <2>6, <2>8, <3>1 DEF Lost
    <3>3. front < front + min_chunk_size
      BY <1>3
    <3> QED
      <4>1. \A a : a \in UsedOf(mem') <=> a \in UsedOf(mem)
        BY <2>6, <2>8 DEF Lost
      <4>2. \A a \in UsedOf(mem) : a # p => mem'[a].size = mem[a].size
        BY <2>6, <2>8, <4>1 DEF Lost
      <4>3. front \in Int
        BY <1>5
      <4> QED
        BY <3>2, <3>3, <4>1, <4>2, <4>3 DEF Resizes
  <2>10. Owners(mem', Held, Records)
    <3>1. p \in Held /\ front >= min_chunk_size
      BY <1>2, <1>4, <1>5
    <3> QED
      BY <1>2, <2>9, <3>1, OwnersResized
  <2>11. \A a \in Clients : mem'[a].size = mem[a].size
    <3>1. \A a \in Clients : a \in UsedOf(mem) /\ a # p
      BY <1>2, <1>4 DEF Owners
    <3> QED
      BY <2>9, <3>1 DEF Resizes
  <2>12. /\ mem'[call.p].size \in Int /\ request2size(call.size) <= mem'[call.p].size
         /\ mem'[call.p].size <= request2size(call.size) + min_chunk_size
    BY <1>3, <1>4, <1>5, <2>9
  <2> QED
    BY <1>1, <1>3, <2>8, <2>10, <2>11, <2>12, TailDone
<1> QED
  BY <1>4, <1>5, <1>6, <1>7, <1>8 DEF MemalignTail

-----------------------------------------------------------------------------
(* trim *)

\* A step that leaves the heap and the client alone.
Still ==
  /\ UNCHANGED <<heap, segs, least_addr, live>>
  /\ pc \notin {"lead", "tail", "free"} /\ pc' \notin {"lead", "tail", "free"}

\* Such a step keeps the invariant if it promises nothing new.
LEMMA StillKeeps ==
  ASSUME HeapInv, Still, FrameInv'
  PROVE  HeapInv'
<1>1. /\ HeapSound /\ TopInv /\ SegsInv /\ OwnersInv
      /\ UNCHANGED <<mem, bins, dv, dvsize, top, topsize, segs, least_addr, live>>
  BY DEF HeapInv, heap, Still
<1>2. HeapSound' /\ TopInv' /\ SegsInv' /\ Records' = Records
  BY <1>1 DEF HeapSound, TopInv, SegsInv, TopEnd, Segs, Record, Records
<1>3. Held = Clients
  BY NoneInHand DEF Still
<1>4. Owners(mem', Clients, Records')
  BY <1>1, <1>2, <1>3 DEF OwnersInv
<1>5. \A a \in Clients : mem'[a].size = mem[a].size
  BY <1>1
<1>6. UNCHANGED live /\ BlocksInv
  BY <1>1 DEF HeapInv
<1>7. pc' \notin {"lead", "tail", "free"}
  BY DEF Still
<1> QED
  BY <1>2, <1>4, <1>5, <1>6, <1>7, Settled

\* Nothing is trimmed.
LEMMA TrimDeclinedStep ==
  ASSUME HeapInv, TrimDeclined
  PROVE  HeapInv'
<1>1. pc = "trim" /\ pc' = "idle" /\ UNCHANGED <<heap, segs, least_addr, live>>
  BY DEF TrimDeclined, Idle, system
<1>2. FrameInv' /\ Still
  BY <1>1, NoFrame DEF Still
<1> QED
  BY <1>2, StillKeeps

\* The end of the release pass.
LEMMA ReleaseDoneStep ==
  ASSUME HeapInv, ReleaseDone
  PROVE  HeapInv'
<1>1. pc = "release" /\ pc' = "idle" /\ UNCHANGED <<heap, segs, least_addr, live>>
  BY DEF ReleaseDone, Idle, system
<1>2. FrameInv' /\ Still
  BY <1>1, NoFrame DEF Still
<1> QED
  BY <1>2, StillKeeps

\* A product of whole numbers that is positive has positive factors.
LEMMA Factors ==
  ASSUME NEW g \in Nat, g > 0, NEW c \in Int, c * g > 0
  PROVE  c >= 1 /\ (c - 1) * g >= 0 /\ (c - 1) * g = c * g - g
<1>1. c >= 1
  <2>1. CASE c <= 0
    <3>1. PICK d \in Nat : d = - c
      BY <2>1
    <3>2. d * g >= 0 /\ c * g = - (d * g)
      BY <3>1
    <3> QED
      BY <3>2
  <2> QED
    BY <2>1
<1>2. PICK d \in Nat : c = d + 1
  BY <1>1
<1>3. d * g >= 0 /\ c * g = d * g + g
  BY <1>2
<1>4. c - 1 = d
  BY <1>2
<1> QED
  BY <1>1, <1>3, <1>4

\* Less is cut off top than what is beyond the padding.
LEMMA Extra ==
  ASSUME TypeOK, NEW pad \in Nat, topsize > pad
  PROVE  extra(pad) \in Int /\ extra(pad) >= 0 /\ extra(pad) < topsize - pad
<1>1. topsize \in Int /\ granularity \in Nat /\ granularity > 0
  BY Constants DEF TypeOK, MIN_GRANULARITY, is_power_of_two
<1>2. PICK g \in Nat : g = granularity /\ g > 0
  BY <1>1
<1>3. PICK d \in Int : d = topsize - pad /\ d > 0
  BY <1>1
<1>4. PICK c \in Int : c = (d + g - 1) \div g
  BY <1>2, <1>3
<1>5. extra(pad) = (c - 1) * g
  BY <1>1, <1>2, <1>3, <1>4 DEF extra
<1>6. align_up(d, g) = c * g
  BY <1>2, <1>3, <1>4 DEF align_up
<1>7. d <= c * g /\ c * g < d + g
  BY <1>2, <1>3, <1>6, AlignUp
<1>8. PICK x \in Int : x = c * g
  OBVIOUS
<1>9. x > 0 /\ x < d + g
  BY <1>3, <1>7, <1>8
<1>10. (c - 1) * g >= 0 /\ (c - 1) * g = x - g
  BY <1>2, <1>8, <1>9, Factors
<1> QED
  BY <1>2, <1>3, <1>5, <1>9, <1>10

\* trim gives the end of top back, and goes on to the release pass.
LEMMA TrimTopStep ==
  ASSUME TypeOK, HeapInv, TrimTop
  PROVE  HeapInv'
<1>1. /\ pc = "trim" /\ top # NULL /\ UNCHANGED <<bins, dv, dvsize, least_addr, live>>
  BY DEF TrimTop
<1>2. /\ SystemType /\ CallType /\ HeapSound /\ TopInv /\ SegsInv /\ BlocksInv /\ FrameInv
      /\ Sound(mem, Segs, TopEnd, bins, dv, dvsize, top, topsize) /\ topsize \in Int
  BY TypeParts DEF HeapInv, HeapSound, TypeOK
<1>3. Owners(mem, Clients, Records)
  BY <1>1, NoneInHand DEF HeapInv, OwnersInv
<1>4. call.pad \in Nat
  BY <1>1, <1>2 DEF FrameInv
<1>5. ASSUME NEW frame \in Frame, Scan(frame)
      PROVE  pc' = "release" /\ FrameInv'
  BY <1>5 DEF Scan, Frame, FrameInv
<1>6. call \in Frame
  BY <1>2 DEF CallType
<1>7. CASE Scan(call) /\ UNCHANGED <<segs, footprint, top, topsize, mem, trim_check>>
  <2>1. pc' = "release" /\ FrameInv' /\ UNCHANGED heap
    BY <1>1, <1>5, <1>6, <1>7 DEF heap
  <2>2. Still
    BY <1>1, <1>7, <2>1 DEF Still
  <2> QED
    BY <2>1, <2>2, StillKeeps
<1>8. ASSUME NEW pad, pad = call.pad + top_foot_size, NEW cut, cut = extra(pad), topsize > pad,
             NEW sp \in segment_holding(top),
             segs' = [segs EXCEPT ![sp] = segment(@.base, @.size - cut, @.flags, @.rec)],
             top' = TopAt(top), topsize' = TopSize(top, topsize - cut),
             mem' = InitTop(mem, top, topsize - cut),
             NEW frame \in Frame, Scan(frame)
      PROVE  HeapInv'
  <2>1. pad \in Nat /\ top_foot_size \in Nat
    BY <1>4, <1>8, Constants
  <2>2. cut \in Int /\ cut >= 0 /\ cut < topsize - pad
    BY <1>8, <2>1, Extra
  <2>3. PICK size \in Int : size = topsize - cut
    BY <1>2, <2>2
  <2>4. size + cut = topsize /\ size > 0
    BY <1>2, <2>1, <2>2, <2>3
  <2>5. /\ 1 \in DOMAIN segs /\ segs[1] \in Segs /\ segs[1] \in Segment
        /\ TopEnd = segment_top(segs[1]) /\ TopEnd \in Int
        /\ top \in DOMAIN mem /\ top \in Int /\ FirstChunk(segs[1]) <= top
        /\ segs[1].rec = NULL /\ segs # << >>
    BY <1>1, <1>2, TopRoom
  <2>6. sp = 1
    <3>1. sp \in DOMAIN segs /\ holds(segs[sp], top)
      BY <1>8 DEF segment_holding
    <3> QED
      BY <1>2, <3>1, TopSegment
  <2>7. PICK g : g = segment(segs[1].base, segs[1].size - cut, segs[1].flags, segs[1].rec)
    OBVIOUS
  <2>8. /\ g \in Segment /\ g.base = segs[1].base /\ g.size = segs[1].size - cut
        /\ g.rec = segs[1].rec
    BY <2>2, <2>5, <2>7 DEF segment, Segment
  <2>9. segs' = [segs EXCEPT ![1] = g]
    BY <1>8, <2>6, <2>7
  <2>10. Mapped(Segs)
    BY <1>2, SoundHeap
  <2>11. /\ Replaced(Segs, Segs', segs[1], g) /\ segs' # << >> /\ segs'[1] = g
         /\ \A x \in Segs : x # segs[1] => Apart(x, segs[1])
    BY <1>2, <2>5, <2>9, <2>10, SegsReplaced
  <2>12. Aligned(top)
    BY <1>1, <1>2, <2>5, TopFacts
  <2>13. align_as_chunk(top) = top
    BY <2>5, <2>12, AsChunk
  <2>14. top' = top /\ topsize' = size /\ mem' = TopFrom(mem, top, size)
    <3>1. TopAt(top) = top /\ TopSize(top, topsize - cut) = size
      BY <2>3, <2>5, <2>13 DEF TopAt, TopSize
    <3>2. InitTop(mem, top, topsize - cut) = TopFrom(mem, top, size)
      BY <3>1 DEF InitTop, TopFrom
    <3> QED
      BY <1>8, <3>1, <3>2
  <2>15. PICK n : n = TopFrom(mem, top, size)
    OBVIOUS
  <2>16. PICK S2 : S2 = Segs'
    OBVIOUS
  <2>17. PICK e \in Int : e = TopEnd - cut
    BY <2>2, <2>5
  <2>18. Sound(n, S2, e, bins, dv, dvsize, top, size) /\ SameUsed(mem, n)
    <3>1. PICK s : s = segs[1] /\ s \in Segs
      BY <2>5
    <3>2. FirstChunk(s) <= top /\ segment_top(s) = TopEnd
      BY <2>5, <3>1
    <3>3. g.base = s.base /\ g.size = s.size - cut /\ Replaced(Segs, S2, s, g)
      BY <2>8, <2>11, <2>16, <3>1
    <3>4. Trims(mem, n, Segs, S2, TopEnd, e, top, topsize, s, g, cut, size)
      BY <1>1, <2>2, <2>4, <2>15, <2>17, <3>1, <3>2, <3>3 DEF Trims
    <3> QED
      BY <1>2, <2>2, <2>5, <2>8, <3>4, TrimmedSound
  <2>19. segment_top(g) = e /\ segment_top(g) = segment_top(segs[1]) - cut
    <3>1. segs[1].base \in Int /\ segs[1].size \in Int
      BY <2>5 DEF Segment
    <3> QED
      BY <2>2, <2>5, <2>8, <2>17, <3>1 DEF segment_top
  <2>20. g.base + top_foot_size <= e
    <3>1. End(n, top) + top_foot_size = e /\ n[top].size = size
      BY <1>1, <2>5, <2>18, TopFacts
    <3>2. segs[1].base \in Int /\ segs[1].base <= FirstChunk(segs[1]) /\ FirstChunk(segs[1]) \in Int
      BY <2>5, FirstChunkFacts DEF Segment
    <3>3. g.base <= top /\ g.base \in Int
      BY <2>5, <2>8, <3>2
    <3>4. top + size + top_foot_size = e
      BY <3>1 DEF End
    <3> HIDE DEF top_foot_size
    <3> QED
      BY <2>1, <2>4, <2>5, <3>3, <3>4
  <2>21. SystemType'
    BY NextType, TypePartsPrime DEF Next, Rest
  <2>22. HeapSound' /\ TopInv'
    <3>1. Sound(mem', Segs', e, bins', dv', dvsize', top', topsize')
      BY <1>1, <2>14, <2>15, <2>16, <2>18
    <3>2. e = segment_top(segs'[1]) /\ segs'[1].base + top_foot_size <= e /\ segs'[1].rec = NULL
      BY <2>5, <2>8, <2>11, <2>19, <2>20
    <3> QED
      BY <1>1, <2>11, <2>14, <2>21, <3>1, <3>2, HeapMade
  <2>23. SegsInv' /\ Records' = Records
    <3>1. least_addr \in Int /\ least_addr' = least_addr /\ least_addr <= g.base
      BY <1>1, <1>2, <2>5, <2>8 DEF SystemType, SegsInv
    <3>2. \A x \in Segs : x # segs[1] => Apart(x, g)
      <4>1. \A x \in Segs : segment_top(x) \in Int /\ x.base \in Int
        <5>1. \A x \in Segs : x.base \in Int /\ x.size \in Int
          BY <2>10 DEF Mapped, Segment
        <5> QED
          BY <5>1 DEF segment_top
      <4>2. segment_top(segs[1]) \in Int /\ segment_top(g) <= segment_top(segs[1])
        BY <2>2, <2>5, <2>19
      <4>3. segment_top(g) \in Int /\ g.base = segs[1].base
        BY <2>8, <2>19
      <4> HIDE DEF segment_top
      <4> QED
        BY <2>11, <4>1, <4>2, <4>3 DEF Apart
    <3>3. least_addr' \in Int /\ least_addr' <= least_addr /\ least_addr' <= g.base
      BY <2>8, <3>1
    <3> QED
      BY <1>2, <2>5, <2>8, <2>9, <2>10, <3>1, <3>2, <3>3, SegsReshaped
  <2>24. SameUsed(mem, mem')
    BY <2>14, <2>15, <2>18
  <2>25. Owners(mem', Clients, Records')
    BY <1>3, <2>23, <2>24, OwnersSame
  <2>26. \A a \in Clients : mem'[a].size = mem[a].size
    BY <1>3, <2>24 DEF Owners, SameUsed
  <2>27. pc' = "release" /\ FrameInv'
    BY <1>5, <1>8
  <2> QED
    BY <1>1, <1>2, <2>22, <2>23, <2>25, <2>26, <2>27, Settled
<1>9. PICK frame : frame = [call EXCEPT !.released = TRUE]
  OBVIOUS
<1>10. frame \in Frame
  BY <1>6, <1>9 DEF Frame
<1> QED
  BY <1>7, <1>8, <1>9, <1>10 DEF TrimTop

-----------------------------------------------------------------------------
(* The release pass *)

\* The pass goes on to the next segment.
LEMMA SegmentStaysStep ==
  ASSUME TypeOK, HeapInv, SegmentStays
  PROVE  HeapInv'
<1>1. pc = "release" /\ pc' = pc /\ call' = Onward /\ UNCHANGED <<heap, segs, least_addr, live>>
  BY DEF SegmentStays, system
<1>2. CallType /\ FrameInv
  BY TypeParts DEF HeapInv
<1>3. call'.sp = call.sp + 1 /\ call.sp >= 2 /\ call.sp \in Int
  BY <1>1, <1>2 DEF CallType, Frame, FrameInv, Onward, Visited
<1>4. FrameInv' /\ Still
  BY <1>1, <1>3 DEF FrameInv, Still
<1> QED
  BY <1>4, StillKeeps

\* Segment i, the one that the pass looks at, and its first chunk, which is free.
Visits(i, s, p) == i = call.sp /\ i \in DOMAIN segs /\ s = segs[i] /\ p = FirstChunk(s) /\ Unused(s)

\* Neither is top's; the first chunk reaches the end; the record is the only chunk
\* in use behind it.
LEMMA VisitFacts ==
  ASSUME TypeOK, HeapInv, pc = "release", NEW i, NEW s, NEW p, Visits(i, s, p)
  PROVE  /\ SystemType /\ CallType /\ HeapSound /\ TopInv /\ SegsInv /\ BlocksInv /\ FrameInv
         /\ Sound(mem, Segs, TopEnd, bins, dv, dvsize, top, topsize)
         /\ Owners(mem, Clients, Records)
         /\ i \in Int /\ i >= 2 /\ i <= Len(segs) /\ i \in DOMAIN segs /\ 1 \in DOMAIN segs
         /\ s \in Segs /\ s = segs[i] /\ s \in Segment /\ top # NULL /\ TopEnd \in Int
         /\ ~ holds(s, top) /\ p \in Int /\ p = FirstChunk(s) /\ p # top
         /\ p \in DOMAIN mem /\ ~ mem[p].cinuse /\ SizeOf(p) = mem[p].size
         /\ End(mem, p) + top_foot_size >= segment_top(s)
         /\ Record(i) \in Records /\ Record(i) \in DOMAIN mem /\ holds(s, Record(i))
         /\ mem[Record(i)].cinuse /\ mem[Record(i)].size = segment_record_size
<1>1. /\ SystemType /\ CallType /\ HeapSound /\ TopInv /\ SegsInv /\ BlocksInv /\ FrameInv
      /\ Sound(mem, Segs, TopEnd, bins, dv, dvsize, top, topsize)
  BY TypeParts DEF HeapInv, HeapSound
<1>2. Owners(mem, Clients, Records)
  BY NoneInHand DEF HeapInv, OwnersInv
<1>3. /\ i = call.sp /\ i \in DOMAIN segs /\ s = segs[i] /\ p = FirstChunk(s) /\ ~ inuse(mem, p)
      /\ next_of(mem, p) >= segment_top(s) - top_foot_size
  BY DEF Visits, Unused
<1>4. i >= 2
  BY <1>1, <1>3 DEF FrameInv
<1>5. s \in Segs /\ s \in Segment /\ i \in Int /\ 1 \in DOMAIN segs
  BY <1>1, <1>3, SegIn
<1>6. segs # << >> /\ top # NULL /\ i <= Len(segs)
  <2>1. segs \in Seq(Segment)
    BY <1>1 DEF SystemType
  <2>2. DOMAIN segs = 1..Len(segs) /\ Len(segs) \in Nat
    BY <2>1
  <2>3. segs # << >> /\ i <= Len(segs)
    BY <1>3, <2>2
  <2> QED
    BY <1>1, <2>3 DEF TopInv
<1>7. TopEnd \in Int
  BY <1>1, <1>6, TopRoom
<1>8. ~ holds(s, top)
  <2> SUFFICES ASSUME holds(s, top) PROVE FALSE
    OBVIOUS
  <2>1. holds(segs[i], top)
    BY <1>3
  <2>2. i = 1
    BY <1>1, <1>3, <2>1, TopSegment
  <2> QED
    BY <1>4, <1>5, <2>2
<1>9. Heap(mem, Segs, top) /\ IsMem(mem) /\ Mapped(Segs)
  BY <1>1, SoundHeap
<1>10. p \in DOMAIN mem /\ p \in Int
  BY <1>3, <1>5, <1>9, FirstChunkFacts DEF Heap, Rooted
<1>11. HeaderAt(mem, p) = mem[p]
  BY <1>10 DEF HeaderAt
<1>12. ~ mem[p].cinuse /\ SizeOf(p) = mem[p].size
  BY <1>3, <1>11 DEF inuse, cinuse, SizeOf
<1>13. End(mem, p) + top_foot_size >= segment_top(s)
  <2>1. End(mem, p) >= segment_top(s) - top_foot_size
    BY <1>3, <1>11 DEF next_of, End
  <2>2. End(mem, p) \in Int /\ segment_top(s) \in Int /\ top_foot_size \in Int
    BY <1>5, <1>9, <1>10, ChunkFacts, FirstChunkFacts, Constants
  <2> HIDE DEF End, segment_top, top_foot_size
  <2> QED
    BY <2>1, <2>2
<1>14. holds(s, p)
  <2>1. s.base <= p /\ p < segment_top(s)
    BY <1>3, <1>5, <1>9, FirstChunkFacts DEF Mapped
  <2> QED
    BY <2>1 DEF holds
<1>15. Record(i) \in Records
  BY <1>3, <1>4, <1>5 DEF Records
<1>16. /\ Record(i) \in DOMAIN mem /\ mem[Record(i)].cinuse
       /\ mem[Record(i)].size = segment_record_size
  BY <1>2, <1>15 DEF Owners, UsedOf
<1>17. holds(s, Record(i))
  <2>1. s.base <= Record(i) /\ Record(i) + segment_record_size < segment_top(s)
    BY <1>1, <1>3, <1>4, <1>5 DEF SegsInv
  <2>2. Record(i) \in Int /\ segment_top(s) \in Int /\ segment_record_size \in Nat
    BY <1>5, <1>9, <1>16, FirstChunkFacts, Constants DEF IsMem
  <2> HIDE DEF Record, segment_top, segment_record_size
  <2> QED
    BY <2>1, <2>2 DEF holds
<1> QED
  BY <1>1, <1>2, <1>3, <1>4, <1>5, <1>6, <1>7, <1>8, <1>10, <1>12, <1>13, <1>14, <1>15, <1>16, <1>17

\* The list without segment i.
LEMMA RemovedList ==
  ASSUME SystemType, NEW i \in DOMAIN segs, i >= 2,
         segs' = SubSeq(segs, 1, i - 1) \o SubSeq(segs, i + 1, Len(segs))
  PROVE  /\ Len(segs') = Len(segs) - 1 /\ DOMAIN segs' = 1..(Len(segs) - 1)
         /\ Len(segs) \in Nat /\ DOMAIN segs = 1..Len(segs)
         /\ segs' # << >> /\ segs'[1] = segs[1]
         /\ \A j \in 1..(Len(segs) - 1) : segs'[j] = segs[IF j < i THEN j ELSE j + 1]
<1>1. segs \in Seq(Segment)
  BY DEF SystemType
<1>2. PICK n \in Nat : n = Len(segs)
  BY <1>1
<1>3. DOMAIN segs = 1..n /\ i \in 1..n
  BY <1>1, <1>2
<1>4. /\ SubSeq(segs, 1, i - 1) \in Seq(Segment) /\ Len(SubSeq(segs, 1, i - 1)) = i - 1
      /\ \A j \in 1..(i - 1) : SubSeq(segs, 1, i - 1)[j] = segs[j]
  BY <1>1, <1>2, <1>3
<1>5. /\ SubSeq(segs, i + 1, n) \in Seq(Segment) /\ Len(SubSeq(segs, i + 1, n)) = n - i
      /\ \A j \in 1..(n - i) : SubSeq(segs, i + 1, n)[j] = segs[i + j]
  BY SMTT(30), <1>1, <1>2, <1>3
<1>6. PICK a \in Seq(Segment) : a = SubSeq(segs, 1, i - 1)
  BY <1>4
<1>7. PICK b \in Seq(Segment) : b = SubSeq(segs, i + 1, n)
  BY <1>5
<1>8. segs' = a \o b /\ Len(a) = i - 1 /\ Len(b) = n - i
  BY <1>2, <1>4, <1>5, <1>6, <1>7
<1>9. /\ Len(a \o b) = n - 1 /\ DOMAIN (a \o b) = 1..(n - 1)
      /\ \A j \in 1..(n - 1) : (a \o b)[j] = IF j < i THEN a[j] ELSE b[j - (i - 1)]
  <2>1. a \in Seq(Segment) /\ b \in Seq(Segment) /\ i \in Int /\ n \in Nat
    BY SMTT(30), <1>2, <1>3, <1>6, <1>7
  <2>2. Len(a \o b) = Len(a) + Len(b) /\ DOMAIN (a \o b) = 1..(Len(a) + Len(b))
    BY <2>1
  <2>3. Len(a) + Len(b) = n - 1
    BY <1>8, <2>1
  <2>4. \A j \in 1..(Len(a) + Len(b)) : (a \o b)[j] = IF j <= Len(a) THEN a[j] ELSE b[j - Len(a)]
    BY <2>1
  <2>5. \A j \in 1..(n - 1) : j <= i - 1 <=> j < i
    BY <2>1
  <2> QED
    BY <1>8, <2>2, <2>3, <2>4, <2>5
<1>10. \A j \in 1..(n - 1) : segs'[j] = segs[IF j < i THEN j ELSE j + 1]
  <2> SUFFICES ASSUME NEW j \in 1..(n - 1) PROVE segs'[j] = segs[IF j < i THEN j ELSE j + 1]
    OBVIOUS
  <2>1. CASE j < i
    <3>1. j \in 1..(i - 1)
      BY <1>3, <2>1
    <3> QED
      BY <1>4, <1>6, <1>8, <1>9, <2>1, <3>1
  <2>2. CASE ~ (j < i)
    <3>1. PICK k \in 1..(n - i) : k = j - (i - 1) /\ i + k = j + 1
      <4>1. i \in Int /\ j \in Int /\ n \in Int /\ j <= n - 1 /\ j >= i
        BY <1>2, <1>3, <2>2
      <4>2. PICK k \in Int : k = j - (i - 1)
        BY <4>1
      <4>3. i + k = j + 1
        BY <4>1, <4>2
      <4>4. 1 <= k /\ k <= n - i
        BY SMTT(30), <4>1, <4>2
      <4>5. k \in 1..(n - i)
        BY <4>1, <4>2, <4>4
      <4> QED
        BY <4>2, <4>3, <4>5
    <3>2. b[k] = segs[i + k]
      BY <1>5, <1>7
    <3>3. segs'[j] = b[k]
      BY <1>8, <1>9, <2>2, <3>1
    <3> QED
      BY <2>2, <3>1, <3>2, <3>3
  <2> QED
    BY <2>1, <2>2
<1>11. segs' # << >> /\ segs'[1] = segs[1]
  BY SMTT(30), <1>3, <1>8, <1>9, <1>10
<1> QED
  BY <1>2, <1>3, <1>8, <1>9, <1>10, <1>11

\* Segments of the list are at different places, and so are their records.
LEMMA RecordsApart ==
  ASSUME SystemType, SegsInv, Mapped(Segs), NEW i \in DOMAIN segs, NEW k \in DOMAIN segs, k # i, k # 1
  PROVE  /\ segs[k] # segs[i] /\ ~ holds(segs[i], Record(k))
         /\ i # 1 => Record(k) # Record(i)
<1>1. PICK s \in Segment : s = segs[i]
  BY SegIn
<1>2. PICK x \in Segment : x = segs[k]
  BY SegIn
<1>3. /\ s.base \in Int /\ segment_top(s) \in Int /\ s.base < segment_top(s)
      /\ x.base \in Int /\ segment_top(x) \in Int /\ x.base < segment_top(x)
  <2>1. s \in Segs /\ x \in Segs
    BY <1>1, <1>2, SegIn
  <2>2. FirstChunk(s) < segment_top(s) /\ FirstChunk(x) < segment_top(x)
    BY <2>1 DEF Mapped
  <2>3. /\ s.base \in Int /\ segment_top(s) \in Int /\ s.base <= FirstChunk(s) /\ FirstChunk(s) \in Int
        /\ x.base \in Int /\ segment_top(x) \in Int /\ x.base <= FirstChunk(x) /\ FirstChunk(x) \in Int
    BY FirstChunkFacts
  <2> HIDE DEF FirstChunk, segment_top
  <2> QED
    BY <2>2, <2>3
<1>4. segment_top(s) <= x.base \/ segment_top(x) <= s.base
  BY <1>1, <1>2 DEF SegsInv, Apart
<1>5. PICK c : c = Record(k)
  OBVIOUS
<1>6. x.base <= c /\ c + segment_record_size < segment_top(x) /\ c \in Int
  <2>1. x.rec \in Int
    BY DEF Segment
  <2>2. c \in Int
    BY <1>2, <1>5, <2>1, ToFrom DEF Record
  <2> QED
    BY <1>2, <1>5, <2>2 DEF SegsInv
<1>7. ~ holds(s, c) /\ x # s
  <2>1. segment_record_size \in Nat
    BY Constants
  <2> HIDE DEF segment_top, segment_record_size
  <2> QED
    BY <1>3, <1>4, <1>6, <2>1 DEF holds
<1>8. i # 1 => holds(s, Record(i))
  <2> SUFFICES ASSUME i # 1 PROVE holds(s, Record(i))
    OBVIOUS
  <2>1. s.base <= Record(i) /\ Record(i) + segment_record_size < segment_top(s)
    BY <1>1 DEF SegsInv
  <2>2. Record(i) \in Int /\ segment_record_size \in Nat
    BY <1>1, ToFrom, Constants DEF Record, Segment
  <2> HIDE DEF Record, segment_top, segment_record_size
  <2> QED
    BY <1>3, <2>1, <2>2 DEF holds
<1> QED
  BY <1>1, <1>2, <1>5, <1>7, <1>8

\* What is left of the segments and of their records.
LEMMA RemovedSegs ==
  ASSUME SystemType, SegsInv, Mapped(Segs), NEW i \in DOMAIN segs, i >= 2, UNCHANGED least_addr,
         segs' = SubSeq(segs, 1, i - 1) \o SubSeq(segs, i + 1, Len(segs)), NEW s, s = segs[i]
  PROVE  /\ Without(Segs', Segs, s) /\ SegsInv'
         /\ \A a : a \in Records' <=> a \in Records /\ a # Record(i)
         /\ \A a \in Records' : ~ holds(s, a)
<1> DEFINE to(j) == IF j < i THEN j ELSE j + 1
           n == Len(segs)
<1>1. /\ DOMAIN segs' = 1..(n - 1) /\ n \in Nat /\ DOMAIN segs = 1..n
      /\ \A j \in 1..(n - 1) : segs'[j] = segs[to(j)]
  BY RemovedList
<1> HIDE DEF n
<1>2. i \in 1..n
  BY <1>1
<1>3. \A j \in 1..(n - 1) : to(j) \in 1..n /\ to(j) # i /\ (to(j) = 1 <=> j = 1)
  BY <1>1, <1>2
<1>4. \A j, l \in 1..(n - 1) : j # l => to(j) # to(l)
  BY SMTT(30), <1>1, <1>2
<1>5. ASSUME NEW k \in 1..n, k # i PROVE \E j \in 1..(n - 1) : to(j) = k
  <2>1. CASE k < i
    <3>1. k \in 1..(n - 1) /\ to(k) = k
      BY <1>1, <1>2, <2>1
    <3> QED
      BY <3>1
  <2>2. CASE k > i
    <3>1. k - 1 \in 1..(n - 1) /\ to(k - 1) = k
      BY <1>1, <1>2, <2>2
    <3> QED
      BY <3>1
  <2> QED
    BY <1>1, <1>2, <1>5, <2>1, <2>2
<1> HIDE DEF to
<1>6. \A j \in DOMAIN segs' : to(j) \in DOMAIN segs /\ to(j) # i /\ (to(j) = 1 <=> j = 1)
                              /\ segs'[j] = segs[to(j)] /\ Record(j)' = Record(to(j))
  BY <1>1, <1>3 DEF Record
<1>7. \A k \in DOMAIN segs : k # i => \E j \in DOMAIN segs' : to(j) = k
  BY <1>1, <1>5
<1>8. i # 1
  BY <1>1, <1>2
<1>9. Without(Segs', Segs, s)
  <2>1. \A k \in DOMAIN segs : k # i => segs[k] # s
    <3> SUFFICES ASSUME NEW k \in DOMAIN segs, k # i PROVE segs[k] # segs[i]
      OBVIOUS
    <3>1. CASE k = 1
      BY <1>8, <3>1, RecordsApart
    <3>2. CASE k # 1
      BY <3>2, RecordsApart
    <3> QED
      BY <3>1, <3>2
  <2>2. \A x : x \in Segs' <=> x \in Segs /\ x # s
    <3>1. ASSUME NEW x \in Segs' PROVE x \in Segs /\ x # s
      <4>1. PICK j \in DOMAIN segs' : x = segs'[j]
        BY DEF Segs
      <4> QED
        BY <1>6, <2>1, <4>1 DEF Segs
    <3>2. ASSUME NEW x \in Segs, x # s PROVE x \in Segs'
      <4>1. PICK k \in DOMAIN segs : x = segs[k]
        BY DEF Segs
      <4>2. PICK j \in DOMAIN segs' : to(j) = k
        BY <1>7, <3>2, <4>1
      <4> QED
        BY <1>6, <4>1, <4>2 DEF Segs
    <3> QED
      BY SMTT(30), <3>1, <3>2
  <2> QED
    BY <2>2 DEF Without
<1>10. SegsInv'
  <2>1. \A j, l \in DOMAIN segs' : j # l => Apart(segs'[j], segs'[l])
    <3> SUFFICES ASSUME NEW j \in DOMAIN segs', NEW l \in DOMAIN segs', j # l
                 PROVE Apart(segs'[j], segs'[l])
      OBVIOUS
    <3>1. to(j) \in DOMAIN segs /\ to(l) \in DOMAIN segs /\ to(j) # to(l)
      BY <1>1, <1>4, <1>6
    <3>2. PICK k \in DOMAIN segs, q \in DOMAIN segs : k = to(j) /\ q = to(l) /\ k # q
      BY <3>1
    <3>3. segs'[j] = segs[k] /\ segs'[l] = segs[q]
      BY <1>6, <3>2
    <3>4. Apart(segs[k], segs[q])
      BY <3>2 DEF SegsInv
    <3> QED
      BY <3>3, <3>4
  <2>2. \A j \in DOMAIN segs' \ {1} :
          /\ segs'[j].base <= Record(j)'
          /\ Record(j)' + segment_record_size < segment_top(segs'[j])
    BY ZenonT(60), <1>6 DEF SegsInv
  <2>3. \A j \in DOMAIN segs' : segs'[j].base >= least_addr'
    BY <1>6 DEF SegsInv
  <2> QED
    BY <2>1, <2>2, <2>3 DEF SegsInv
<1>11. \A a : a \in Records' <=> a \in Records /\ a # Record(i)
  <2>1. ASSUME NEW a \in Records' PROVE a \in Records /\ a # Record(i)
    <3>1. PICK j \in DOMAIN segs' : j # 1 /\ a = Record(j)'
      BY DEF Records
    <3>2. PICK k \in DOMAIN segs : k = to(j) /\ k # i /\ k # 1 /\ a = Record(k)
      BY <1>6, <3>1
    <3>3. Record(k) # Record(i)
      BY <1>8, <3>2, RecordsApart
    <3> QED
      BY <3>2, <3>3 DEF Records
  <2>2. ASSUME NEW a \in Records, a # Record(i) PROVE a \in Records'
    <3>1. PICK k \in DOMAIN segs : k # 1 /\ a = Record(k)
      BY DEF Records
    <3>2. PICK j \in DOMAIN segs' : to(j) = k
      BY <1>7, <2>2, <3>1
    <3>3. j # 1 /\ Record(j)' = a
      BY <1>6, <3>1, <3>2
    <3> QED
      BY <3>3 DEF Records
  <2> QED
    BY <2>1, <2>2
<1>12. \A a \in Records' : ~ holds(s, a)
  <2> SUFFICES ASSUME NEW a \in Records' PROVE ~ holds(s, a)
    OBVIOUS
  <2>1. PICK j \in DOMAIN segs' : j # 1 /\ a = Record(j)'
    BY DEF Records
  <2>2. PICK k \in DOMAIN segs : k = to(j) /\ k # i /\ k # 1 /\ a = Record(k)
    BY <1>6, <2>1
  <2> QED
    BY <2>2, RecordsApart
<1> QED
  BY <1>9, <1>10, <1>11, <1>12

\* The frame of the pass after a segment was looked at.
LEMMA VisitedFrame ==
  ASSUME CallType, FrameInv, pc = "release", pc' \in {"release", "corrupt"},
         call' = Onward \/ (call'.sp = call.sp)
  PROVE  FrameInv' /\ pc' \notin {"lead", "tail", "free"}
<1>1. call.sp >= 2 /\ call.sp \in Int
  BY DEF CallType, Frame, FrameInv
<1>2. call'.sp = call.sp \/ call'.sp = call.sp + 1
  BY DEF CallType, Frame, Onward, Visited
<1> QED
  BY <1>1, <1>2 DEF FrameInv

\* A segment that nothing uses goes back to the system, and its first chunk leaves
\* the bins or is no longer the designated victim.
LEMMA SegmentReleasedStep ==
  ASSUME TypeOK, HeapInv, SegmentReleased
  PROVE  HeapInv'
<1>1. PICK i, s, p : Visits(i, s, p)
  BY DEF SegmentReleased, Visits
<1>2. /\ pc = "release" /\ i = call.sp /\ s = segs[i] /\ p = FirstChunk(s)
  BY <1>1 DEF SegmentReleased, Visits
<1>3. /\ Withdrawn(p) /\ bins' = bins \ {p}
      /\ (IF p = dv THEN UNCHANGED pc ELSE InTree(p))
      /\ mem' = Restrict(mem, {a \in DOMAIN mem : ~ holds(s, a)})
      /\ segs' = SubSeq(segs, 1, i - 1) \o SubSeq(segs, i + 1, Len(segs))
      /\ call' = [Visited EXCEPT !.released = TRUE]
      /\ UNCHANGED <<top, topsize, least_addr, live>>
  BY <1>2 DEF SegmentReleased
<1>4. /\ SystemType /\ CallType /\ HeapSound /\ TopInv /\ SegsInv /\ BlocksInv /\ FrameInv
      /\ Sound(mem, Segs, TopEnd, bins, dv, dvsize, top, topsize)
      /\ Owners(mem, Clients, Records)
      /\ i \in Int /\ i >= 2 /\ i \in DOMAIN segs
      /\ s \in Segs /\ top # NULL /\ TopEnd \in Int
      /\ ~ holds(s, top) /\ p \in Int /\ ~ mem[p].cinuse
      /\ End(mem, p) + top_foot_size >= segment_top(s)
      /\ Record(i) \in Records /\ Record(i) \in DOMAIN mem /\ holds(s, Record(i))
      /\ mem[Record(i)].cinuse /\ mem[Record(i)].size = segment_record_size
  BY <1>1, <1>2, VisitFacts
<1>5. Mapped(Segs) /\ IsMem(mem)
  BY <1>4, SoundHeap
<1>6. /\ Without(Segs', Segs, s) /\ SegsInv'
      /\ \A a : a \in Records' <=> a \in Records /\ a # Record(i)
      /\ \A a \in Records' : ~ holds(s, a)
  BY <1>2, <1>3, <1>4, <1>5, RemovedSegs
<1>7. segs' # << >> /\ segs'[1] = segs[1]
  BY <1>3, <1>4, RemovedList
<1>8. IsMem(mem') /\ Outside(mem, mem', s)
  BY <1>3, <1>5, RestrictIs
<1>9. PICK c \in DOMAIN mem : c = Record(i)
  BY <1>4
<1>10. Without(bins', bins, p)
  BY <1>3 DEF Without
<1>11. /\ dv # p => Sound(mem', Segs', TopEnd, bins', dv, dvsize, top, topsize)
       /\ dv = p => Sound(mem', Segs', TopEnd, bins', NULL, 0, top, topsize)
       /\ \A a : a \in UsedOf(mem') <=> a \in UsedOf(mem) /\ ~ holds(s, a)
       /\ \A a \in UsedOf(mem') : mem'[a].size = mem[a].size
       /\ \A a \in UsedOf(mem) : holds(s, a) => a = c \/ Fence(mem, a)
  <2>1. holds(s, c) /\ mem[c].cinuse /\ mem[c].size = segment_record_size
    BY <1>4, <1>9
  <2> QED
    BY <1>2, <1>4, <1>6, <1>8, <1>9, <1>10, <2>1, ReleasedSound
<1>12. Sound(mem', Segs', TopEnd, bins', dv', dvsize', top', topsize')
  <2>1. top' = top /\ topsize' = topsize /\ (IF p = dv THEN dv' = NULL /\ dvsize' = 0 ELSE dv' = dv /\ dvsize' = dvsize)
    BY <1>3 DEF Withdrawn
  <2>2. CASE p = dv
    BY <1>11, <2>1, <2>2
  <2>3. CASE p # dv
    BY <1>11, <2>1, <2>3
  <2> QED
    BY <2>2, <2>3
<1>13. HeapSound' /\ TopInv'
  <2>1. SystemType'
    BY NextType, TypePartsPrime DEF Next, Rest
  <2>2. TopEnd = segment_top(segs'[1]) /\ segs'[1].base + top_foot_size <= TopEnd /\ segs'[1].rec = NULL
    BY <1>4, <1>7, TopRoom
  <2>3. top' # NULL
    BY <1>3, <1>4
  <2> QED
    BY <1>7, <1>12, <2>1, <2>2, <2>3, HeapMade
<1>14. Owners(mem', Clients, Records') /\ \A a \in Clients : mem'[a].size = mem[a].size
  <2>1. PICK n, R, Q, H : n = mem' /\ R = Records /\ Q = Records' /\ H = Clients
    OBVIOUS
  <2>2. Owners(mem, H, R)
    BY <1>4, <2>1
  <2>3. Sheds(mem, n, s, c)
    BY <1>11, <2>1 DEF Sheds
  <2>4. Unrecorded(Q, R, s, c)
    BY <1>4, <1>6, <1>9, <2>1 DEF Unrecorded
  <2>5. Owners(n, H, Q) /\ \A a \in H : n[a].size = mem[a].size
    BY <2>2, <2>3, <2>4, OwnersReleased
  <2> QED
    BY <2>1, <2>5
<1>15. FrameInv' /\ pc' \notin {"lead", "tail", "free"}
  <2>1. pc' \in {"release", "corrupt"}
    BY <1>2, <1>3 DEF InTree
  <2>2. call'.sp = call.sp
    BY <1>3, <1>4 DEF CallType, Frame, Visited
  <2> QED
    BY <1>2, <1>4, <2>1, <2>2, VisitedFrame
<1> QED
  BY <1>3, <1>4, <1>6, <1>13, <1>14, <1>15, Settled

\* The system keeps the segment: its first chunk goes to the bins.
LEMMA SegmentRefusedStep ==
  ASSUME TypeOK, HeapInv, SegmentRefused
  PROVE  HeapInv'
<1>1. PICK i, s, p : Visits(i, s, p)
  BY DEF SegmentRefused, Visits
<1>2. /\ pc = "release" /\ i = call.sp /\ s = segs[i] /\ p = FirstChunk(s)
  BY <1>1 DEF SegmentRefused, Visits
<1>3. /\ Withdrawn(p) /\ bins' = bins \cup {p} /\ InTree(p)
      /\ call' = Onward /\ UNCHANGED <<mem, top, topsize, segs, least_addr, live>>
  BY <1>2 DEF SegmentRefused, system
<1>4. /\ SystemType /\ CallType /\ HeapSound /\ TopInv /\ SegsInv /\ BlocksInv /\ FrameInv
      /\ Sound(mem, Segs, TopEnd, bins, dv, dvsize, top, topsize)
      /\ Owners(mem, Clients, Records) /\ top # NULL
      /\ p \in Int /\ p # top /\ p \in DOMAIN mem /\ ~ mem[p].cinuse
  BY <1>1, <1>2, VisitFacts
<1>5. NULL \notin DOMAIN mem
  BY <1>4, SoundHeap
<1>6. Sound(mem, Segs, TopEnd, bins', dv', dvsize', top, topsize)
  <2>1. /\ FreeOf(mem) = bins \cup ({dv, top} \ {NULL})
        /\ dv \notin bins /\ top \notin bins /\ (dv = top => dv = NULL) /\ dvsize = HeaderAt(mem, dv).size
    BY <1>4 DEF Sound, Binned
  <2>2. p \in FreeOf(mem)
    BY <1>4 DEF FreeOf
  <2>3. p # NULL
    BY <1>4, <1>5
  <2>4. CASE p = dv
    <3>1. dv' = NULL /\ dvsize' = 0 /\ bins' = bins \cup {dv}
      BY <1>3, <2>4 DEF Withdrawn
    <3>2. Binned(mem, bins', dv', top)
      <4>1. FreeOf(mem) = bins' \cup ({dv', top} \ {NULL})
        BY <2>1, <2>3, <2>4, <3>1
      <4>2. dv' \notin bins'
        BY <1>5, <2>1, <2>3, <2>4, <3>1 DEF FreeOf
      <4>3. top \notin bins'
        BY <1>4, <2>1, <2>4, <3>1
      <4> QED
        BY <3>1, <4>1, <4>2, <4>3 DEF Binned
    <3>3. dvsize' = HeaderAt(mem, dv').size
      BY <1>5, <3>1 DEF HeaderAt, Garbage
    <3> QED
      BY <1>4, <3>2, <3>3 DEF Sound
  <2>5. CASE p # dv
    <3>1. p \in bins
      BY <1>4, <2>1, <2>2, <2>5
    <3>2. bins' = bins /\ dv' = dv /\ dvsize' = dvsize
      BY <1>3, <2>5, <3>1 DEF Withdrawn
    <3> QED
      BY <1>4, <3>2
  <2> QED
    BY <2>4, <2>5
<1>7. HeapSound' /\ TopInv' /\ SegsInv'
  BY <1>3, <1>4, <1>6, HeapKept
<1>8. FrameInv' /\ pc' \notin {"lead", "tail", "free"}
  <2>1. pc' \in {"release", "corrupt"}
    BY <1>2, <1>3 DEF InTree
  <2> QED
    BY <1>2, <1>3, <1>4, <2>1, VisitedFrame
<1>9. Owners(mem', Clients, Records') /\ \A a \in Clients : mem'[a].size = mem[a].size
  BY <1>3, <1>4, RecordsKept
<1> QED
  BY <1>3, <1>4, <1>7, <1>8, <1>9, Settled

-----------------------------------------------------------------------------
(* The API, and what the allocator is configured with                          *)

\* A power of two above the natural alignment is at least a chunk.
LEMMA PowerAbove ==
  ASSUME NEW x \in Nat, is_power_of_two(x), x > malloc_alignment
  PROVE  x >= min_chunk_size
<1>1. \A d \in 2..x : x % d = 0 => d % 2 = 0
  BY DEF is_power_of_two
<1>2. CASE WORD = 4
  <2>1. SUFFICES ASSUME x \in 9..15 PROVE FALSE
    BY <1>2, Constants DEF malloc_alignment
  <2>2. \A d \in {3, 5, 7, x} : x % d = 0 => d % 2 = 0
    BY <1>1, <2>1
  <2> QED
    BY <2>1, <2>2
<1>3. CASE WORD = 8
  <2>1. SUFFICES ASSUME x \in 17..31 PROVE FALSE
    BY <1>3, Constants DEF malloc_alignment
  <2>2. \A d \in {3, 5, 7, 11, 13, x} : d \in 2..x
    BY <2>1
  <2>3. \A d \in {3, 5, 7, 11, 13, x} : x % d = 0 => d % 2 = 0
    BY <1>1, <2>2
  <2> QED
    BY <2>1, <2>3
<1> QED
  BY <1>2, <1>3, WordAssumption

\* malloc and memalign, and an over-aligned realloc, start with the request in the frame.
LEMMA AllocateFrame ==
  ASSUME AlignmentsFit, TypeOK, NEW size \in 0..USIZE_MAX,
         NEW align \in Alignments \cup {malloc_alignment},
         NEW old, old # NULL => old \in DOMAIN live, Allocate(size, align, old)
  PROVE  FrameInv'
<1>0. /\ size \in Nat /\ align \in Nat
      /\ is_power_of_two(align) \/ align = malloc_alignment
  BY ConfigAssumption, UsizeAssumption, Constants
<1>1. pc' = "malloc" /\ live' = live
  BY DEF Allocate
<1>2. CASE align <= malloc_alignment
  <2>1. call' = Asking(size, size, malloc_alignment, NULL)
    BY <1>2 DEF Allocate
  <2>2. call'.req = size /\ call'.size = size /\ call'.align = malloc_alignment /\ call'.old = NULL
    BY <2>1 DEF Asking
  <2> QED
    BY <1>0, <1>1, <2>2, Constants DEF FrameInv, Alignment
<1>3. CASE align > malloc_alignment
  <2>1. /\ Alignment(align) /\ align >= min_chunk_size
    BY <1>0, <1>3, PowerAbove, Constants DEF Alignment
  <2>2. ~ (align <= malloc_alignment) /\ raised(align) = align
    BY <1>0, <1>3, <2>1, Constants DEF raised
  <2>3. call' = Asking(request2size(size) + align + min_chunk_size - chunk_overhead, size, align, old)
    BY <1>3, <2>2, AllocateFits
  <2>4. /\ call'.req = request2size(size) + align + min_chunk_size - chunk_overhead
        /\ call'.size = size /\ call'.align = align /\ call'.old = old
    BY <2>3 DEF Asking
  <2> QED
    BY <1>1, <1>3, <2>1, <2>4 DEF FrameInv
<1> QED
  BY <1>0, <1>2, <1>3, Constants

\* A block that the client gives back is in hand until free has run.
LEMMA FreeCall ==
  ASSUME TypeOK, HeapInv, pc = "idle", NEW ptr \in DOMAIN live, Free(ptr),
         UNCHANGED <<heap, segs, least_addr>>
  PROVE  HeapInv'
<1>1. HeapSound /\ TopInv /\ SegsInv /\ OwnersInv /\ BlocksInv /\ LiveType
  BY TypeParts DEF HeapInv
<1>2. /\ DOMAIN live' = DOMAIN live \ {ptr} /\ \A b \in DOMAIN live' : live'[b] = live[b]
      /\ pc' = "free" /\ call'.p = from_mem(ptr)
  BY DEF Free, Restrict, Giving, NoCall, Asking
<1>3. \A b \in DOMAIN live : from_mem(b) = from_mem(ptr) => b = ptr
  BY <1>1, ToFrom DEF LiveType
<1>4. InHand' = {from_mem(ptr)} /\ Clients' = Clients \ {from_mem(ptr)}
  <2>1. InHand' = {from_mem(ptr)}
    BY <1>2 DEF InHand
  <2>2. \A a : a \in Clients' <=> a \in Clients /\ a # from_mem(ptr)
    BY <1>2, <1>3 DEF Clients
  <2> QED
    BY <2>1, <2>2
<1>5. Held' = Clients /\ Held = Clients /\ Clients' \cap InHand' = {}
  <2>1. from_mem(ptr) \in Clients
    BY DEF Clients
  <2> QED
    BY <1>4, <2>1, NoneInHand DEF Held
<1>6. UNCHANGED <<mem, bins, dv, dvsize, top, topsize, segs, least_addr>>
  BY DEF heap
<1>7. HeapSound' /\ TopInv' /\ SegsInv'
  BY <1>1, <1>6 DEF HeapSound, TopInv, SegsInv, TopEnd, Segs, Record
<1>8. OwnersInv'
  BY <1>1, <1>5, <1>6, RecordsKept DEF OwnersInv
<1>9. BlocksInv'
  BY <1>1, <1>2, <1>6 DEF BlocksInv
<1>10. FrameInv'
  BY <1>2 DEF FrameInv
<1> QED
  BY <1>7, <1>8, <1>9, <1>10 DEF HeapInv

\* A call of the API leaves the heap to the steps that follow.
LEMMA CallStep ==
  ASSUME AlignmentsFit, TypeOK, HeapInv, Call
  PROVE  HeapInv'
<1>1. /\ pc = "idle" /\ UNCHANGED <<heap, segs, least_addr>> /\ BlocksInv
  BY DEF Call, system, HeapInv
<1>2. /\ Requests \subseteq 0..USIZE_MAX /\ \A n \in Requests : n \in Nat
      /\ \A a \in Alignments : a \in Nat /\ is_power_of_two(a)
      /\ Pads \subseteq Nat
  BY ConfigAssumption, UsizeAssumption
<1>3. ASSUME pc' \in {"malloc", "realloc", "trim"}, live' = live, FrameInv' PROVE HeapInv'
  <2>1. Still
    BY <1>1, <1>3 DEF Still
  <2> QED
    BY <1>3, <2>1, StillKeeps
<1>4. ASSUME NEW size \in Requests, NEW align \in Alignments \cup {malloc_alignment},
             Allocate(size, align, NULL)
      PROVE  HeapInv'
  <2>1. size \in 0..USIZE_MAX
    BY <1>2
  <2>2. FrameInv'
    BY <1>4, <2>1, AllocateFrame
  <2>3. pc' = "malloc" /\ live' = live
    BY <1>4 DEF Allocate
  <2> QED
    BY <1>3, <2>2, <2>3
<1>5. ASSUME NEW ptr \in DOMAIN live, Free(ptr) PROVE HeapInv'
  BY <1>1, <1>5, FreeCall
<1>6. ASSUME NEW ptr \in DOMAIN live, NEW size \in Requests, Realloc(ptr, size) PROVE HeapInv'
  <2>1. pc' = "realloc" /\ live' = live /\ call' = Asking(0, size, malloc_alignment, ptr)
    BY <1>6 DEF Realloc
  <2>2. call'.size = size /\ call'.align = malloc_alignment /\ call'.old = ptr
    BY <2>1 DEF Asking
  <2>3. FrameInv'
    BY <1>2, <2>1, <2>2 DEF FrameInv, Alignment
  <2> QED
    BY <1>3, <2>1, <2>3
<1>7. ASSUME NEW ptr \in DOMAIN live, NEW size \in Requests, NEW align \in Alignments,
             Allocate(size, align, ptr)
      PROVE  HeapInv'
  <2>1. size \in 0..USIZE_MAX /\ align \in Alignments \cup {malloc_alignment}
    BY <1>2
  <2>2. FrameInv'
    BY <1>7, <2>1, AllocateFrame
  <2>3. pc' = "malloc" /\ live' = live
    BY <1>7 DEF Allocate
  <2> QED
    BY <1>3, <2>2, <2>3
<1>8. ASSUME NEW pad \in Pads, Trim(pad) PROVE HeapInv'
  <2>1. pc' = "trim" /\ live' = live /\ call'.pad = pad
    BY <1>8 DEF Trim, Trimming, NoCall, Asking
  <2>2. FrameInv'
    BY <1>2, <2>1 DEF FrameInv
  <2> QED
    BY <1>3, <2>1, <2>2
<1> QED
  BY <1>4, <1>5, <1>6, <1>7, <1>8 DEF Call

\* Settings are changed between calls, and the heap is not touched.
LEMMA ConfigureStep ==
  ASSUME HeapInv, Configure
  PROVE  HeapInv'
<1>1. Still /\ pc' = "idle"
  BY DEF Configure, SetGranularity, SetMaxReleaseCheckRate, Still, system
<1>2. FrameInv'
  BY <1>1, NoFrame
<1> QED
  BY <1>1, <1>2, StillKeeps

-----------------------------------------------------------------------------
(* The invariant is inductive                                                  *)

\* There is no heap before the first region.
LEMMA NoHeap == Init => IInv
<1> SUFFICES ASSUME Init PROVE HeapInv
  BY DEF IInv
<1>1. /\ mem = << >> /\ DOMAIN mem = {} /\ bins = {} /\ dv = 0 /\ dvsize = 0 /\ top = 0 /\ topsize = 0
      /\ segs = << >> /\ DOMAIN segs = {} /\ pc = "idle" /\ DOMAIN live = {}
  BY DEF Init, NULL
<1>2. IsMem(mem)
  BY InitType, TypeParts DEF HeapType
<1>3. Segs = {}
  BY <1>1 DEF Segs
<1>4. Heap(mem, Segs, top)
  BY <1>1, <1>2, <1>3 DEF Heap, Mapped, Tiled, Tagged, Footed, Shaped, Rooted
<1>5. HeapSound
  <2>1. HeaderAt(mem, 0).size = 0
    BY <1>1 DEF HeaderAt, Garbage
  <2>2. Binned(mem, bins, dv, top)
    BY <1>1 DEF Binned, FreeOf, NULL
  <2> QED
    BY <1>1, <1>4, <2>1, <2>2 DEF HeapSound, Sound, NULL
<1>6. TopInv /\ SegsInv
  BY <1>1 DEF TopInv, SegsInv, NULL
<1>7. OwnersInv
  BY <1>1 DEF OwnersInv, Owners, Held, Clients, InHand, Records, UsedOf
<1>8. BlocksInv /\ FrameInv
  BY <1>1 DEF BlocksInv, FrameInv
<1> QED
  BY <1>5, <1>6, <1>7, <1>8 DEF HeapInv

\* malloc keeps the heap.
LEMMA MallocStep ==
  ASSUME TypeOK, HeapInv, Malloc \/ SysAlloc
  PROVE  HeapInv'
<1>1. SystemType /\ CallType /\ LiveType
  BY TypeParts
<1>2. CASE Malloc
  BY <1>1, <1>2, ExactBinStep, HigherBinStep, SmallFromTreeStep, LargeFromTreeStep, DvStep, TopStep,
     FailedStep DEF Malloc
<1>3. CASE SysAlloc
  BY <1>1, <1>3, FailedStep, SysAllocInitStep, SysAllocExtendStep, SysAllocPrependStep,
     SysAllocAddSegmentStep DEF SysAlloc
<1> QED
  BY <1>2, <1>3

\* memalign, realloc, free, trim and the release pass keep it.
LEMMA RestStep ==
  ASSUME TypeOK, HeapInv, Rest
  PROVE  HeapInv'
<1>1. CASE MemalignLead \/ MemalignTail
  BY <1>1, MemalignLeadStep, MemalignTailStep
<1>2. CASE ReallocShrink \/ ReallocIntoTop \/ ReallocIntoDv \/ ReallocIntoNext \/ ReallocMoves
  BY <1>2, ReallocShrinkStep, ReallocIntoTopStep, ReallocIntoDvStep, ReallocIntoNextStep,
     ReallocMovesStep
<1>3. CASE FreeIntoTop \/ FreeIntoDv \/ FreeIntoBin
  BY <1>3, FreeStep
<1>4. CASE TrimDeclined \/ TrimTop
  BY <1>4, TrimDeclinedStep, TrimTopStep
<1>5. CASE SegmentStays \/ SegmentReleased \/ SegmentRefused \/ ReleaseDone
  BY <1>5, SegmentStaysStep, SegmentReleasedStep, SegmentRefusedStep, ReleaseDoneStep
<1> QED
  BY <1>1, <1>2, <1>3, <1>4, <1>5 DEF Rest

\* An allocator that is gone does nothing more.
LEMMA StaysGone ==
  ASSUME ~ Usable, [Next]_vars
  PROVE  UNCHANGED vars /\ ~ Usable'
<1>1. pc \in {"destroyed", "corrupt"}
  BY DEF Usable
<1>2. ~ Call /\ ~ Configure /\ ~ Destroy
  BY <1>1 DEF Call, Configure, SetGranularity, SetMaxReleaseCheckRate, Destroy
<1>3. ~ Malloc /\ ~ SysAlloc
  BY <1>1 DEF Malloc, MallocExactBin, MallocHigherBin, MallocSmallFromTree, MallocLargeFromTree,
     MallocDv, MallocTop, MallocRefused, SysAlloc, SysAllocFails, SysAllocInit, SysAllocExtend,
     SysAllocPrepend, SysAllocAddSegment, NeedsSystem, NotFromBins
<1>4. ~ Rest
  BY <1>1 DEF Rest, MemalignLead, MemalignTail, ReallocShrink, ReallocIntoTop, ReallocIntoDv,
     ReallocIntoNext, ReallocMoves, FreeIntoTop, FreeIntoDv, FreeIntoBin, TrimDeclined, TrimTop,
     SegmentStays, SegmentReleased, SegmentRefused, ReleaseDone
<1>5. UNCHANGED vars
  BY <1>2, <1>3, <1>4 DEF Next, Gone
<1> QED
  BY <1>1, <1>5 DEF Usable, vars

\* Every step keeps the heap.
LEMMA HeapStep ==
  ASSUME AlignmentsFit, TypeOK, IInv, [Next]_vars
  PROVE  IInv'
<1>1. CASE ~ Usable
  BY <1>1, StaysGone DEF IInv
<1>2. CASE Usable
  <2>1. HeapInv
    BY <1>2 DEF IInv
  <2>2. CASE Call \/ Configure
    BY <2>1, <2>2, CallStep, ConfigureStep DEF IInv
  <2>3. CASE Malloc \/ SysAlloc
    BY <2>1, <2>3, MallocStep DEF IInv
  <2>4. CASE Rest
    BY <2>1, <2>4, RestStep DEF IInv
  <2>5. CASE Destroy
    BY <2>5 DEF Destroy, IInv, Usable
  <2>6. CASE Gone \/ UNCHANGED vars
    <3>1. UNCHANGED vars
      BY <2>6 DEF Gone
    <3>2. UNCHANGED <<mem, bins, dv, dvsize, top, topsize, segs, least_addr, pc, call, live>>
      BY <3>1 DEF vars, heap, system
    <3>3. HeapSound' /\ TopInv' /\ SegsInv'
      BY <2>1, <3>2 DEF HeapInv, HeapSound, TopInv, SegsInv, TopEnd, Segs, Record
    <3>4. OwnersInv' /\ BlocksInv' /\ FrameInv'
      BY <2>1, <3>2 DEF HeapInv, OwnersInv, Held, Clients, InHand, Records, Record, BlocksInv, FrameInv
    <3> QED
      BY <3>3, <3>4 DEF IInv, HeapInv
  <2> QED
    BY <2>2, <2>3, <2>4, <2>5, <2>6 DEF Next
<1> QED
  BY <1>1, <1>2
=============================================================================

------------------------------ MODULE Mspaces ------------------------------
(***************************************************************************)
(* dlmalloc.c compiled with MSPACES: heaps that a client creates on mapped *)
(* memory or on memory of its own, uses side by side and destroys.  The    *)
(* malloc_state of a space is in the first chunk of its first segment; the *)
(* mspace_ functions are copies of the global ones and do what CMalloc     *)
(* says.  One thread; every call is a step (DlmallocC has the threads).    *)
(* The spaces share the system: its break and its pages.                   *)
(***************************************************************************)
EXTENDS CChecks

CONSTANT MSTATE_SIZE                 \* sizeof(struct malloc_state)

Calls == scenario.calls              \* the functions that are called
Ids == scenario.ids                  \* bound: the spaces there are at a time
Capacities == scenario.capacities    \* of spaces on mapped memory
Bases == scenario.bases              \* the client's own memory, for
BaseSizes == scenario.base_sizes     \* create_mspace_with_base,
ClientPages == scenario.client_pages \* and the pages it is in
Requests == scenario.requests
Alignments == scenario.alignments
Elements == scenario.elements
Pads == scenario.pads
MaxLive == scenario.max_live         \* bound: the blocks the client holds

ASSUME MspaceAssumption ==
  /\ MSTATE_SIZE \in Nat \ {0}
  /\ \A s \in Scenarios :
       /\ NULL \notin s.ids
       /\ s.calls \subseteq {"create", "with_base", "track", "destroy", "malloc", "free", "realloc",
                             "memalign", "independent", "bulk_free", "trim"}

VARIABLES
  spaces,   \* the malloc_states there are, with their memory
  system,   \* the break, the pages that are mapped, and those of the client
  live,     \* the client's blocks: what it asked for, and in which space
  tracked   \* the spaces that have tracked large chunks since they were created

vars == <<scenario, spaces, system, live, tracked>>

\* A space and the system together are a heap of CHeap.
Heap(i) == [spaces[i] EXCEPT !.pages = system.pages, !.brk = system.brk]
Alone(h) == [h EXCEPT !.pages = {}, !.brk = BREAK]
Left(h) == system' = [system EXCEPT !.pages = h.pages, !.brk = h.brk]
Became(i, h) == spaces' = [j \in DOMAIN spaces \cup {i} |-> IF j = i THEN Alone(h) ELSE spaces[j]]
                /\ Left(h)

Keep(S) == [b \in S |-> live[b]]
Block(n, i) == [size |-> n, space |-> i]
Gets(L, b, n, i) == [x \in DOMAIN L \cup {b} |-> IF x = b THEN Block(n, i) ELSE L[x]]
Room(n) == Cardinality(DOMAIN live) + n <= MaxLive

-----------------------------------------------------------------------------
(* Creating and destroying                                                   *)

msize == pad_request(MSTATE_SIZE)
NewHeap(i) == [no_malloc_state(i) EXCEPT !.pages = system.pages, !.brk = system.brk]

record_head == head(msize, TRUE, TRUE, 0)

\* The malloc_state at the start of the region, and top behind it.
init_user_mstate(h, tbase, tsize, mmapped, extern) ==
  LET msp == align_as_chunk(tbase)
      mn == msp + msize
  IN  init_top([h EXCEPT !.mem = put(@, msp, record_head),
                         !.segs = << segment(tbase, tsize, mmapped, extern, chunk2mem(msp)) >>,
                         !.least_addr = tbase, !.footprint = tsize, !.max_footprint = tsize,
                         !.release_checks = MAX_RELEASE_CHECK_RATE, !.noncontiguous = TRUE],
               mn, wrap(tbase + tsize - mn - TOP_FOOT_SIZE))

Representable(capacity) == capacity < wrap(MAX_SIZE_T + 1 - (msize + TOP_FOOT_SIZE + page_size))
FreeIds == Ids \ DOMAIN spaces

\* A mapping of 0 bytes, for a capacity whose granularity wraps, is refused.
create_mspace ==
  /\ "create" \in Calls /\ FreeIds # {}
  /\ \E capacity \in Capacities :
       LET i == CHOOSE j \in FreeIds : TRUE
           rs == IF capacity = 0 THEN granularity ELSE capacity + TOP_FOOT_SIZE + msize
           tsize == granularity_align(rs)
       IN  /\ Representable(capacity) /\ tsize # 0
           /\ \E o \in MMAP(NewHeap(i), tsize) :
                /\ o.p # CMFAIL
                /\ Became(i, init_user_mstate(o.h, o.p, tsize, TRUE, FALSE))
  /\ UNCHANGED <<scenario, live, tracked>>

create_mspace_with_base ==
  /\ "with_base" \in Calls /\ FreeIds # {}
  /\ \E base \in Bases, capacity \in BaseSizes :
       LET i == CHOOSE j \in FreeIds : TRUE
       IN  /\ \A j \in DOMAIN spaces : \A s \in ToSet(spaces[j].segs) : s.base # base
           /\ capacity > msize + TOP_FOOT_SIZE /\ Representable(capacity)
           /\ Became(i, init_user_mstate(NewHeap(i), base, capacity, FALSE, TRUE))
  /\ UNCHANGED <<scenario, live, tracked>>

\* Mutant: the flag is taken the wrong way round.
mmap_when_tracking(enable) == enable

\* Large chunks are tracked when they do not get a mapping of their own.
mmap_unless_tracking(enable) == ~ enable

mspace_track_large_chunks(i) ==
  /\ "track" \in Calls
  /\ \E enable \in BOOLEAN :
       /\ Became(i, [Heap(i) EXCEPT !.mmapping = mmap_unless_tracking(enable)])
       /\ tracked' = IF ~ enable THEN tracked \ {i}
                     ELSE IF \E b \in DOMAIN live : live[b].space = i THEN tracked
                     ELSE tracked \cup {i}
  /\ UNCHANGED <<scenario, live>>

Released(s, h) == s.mmapped /\ ~ s.extern

\* The links are read before the memory they are in goes. The client's blocks
\* in the space are undefined from now on.
RECURSIVE unmap_each(_, _)
unmap_each(h, S) ==
  IF S = << >> THEN {h}
  ELSE UNION {unmap_each(o.h, Tail(S)) :
                o \in IF Released(Head(S), h) THEN MUNMAP(h, Head(S).base, Head(S).size) ELSE Only(h, 0)}

destroy_mspace(i) ==
  /\ "destroy" \in Calls
  /\ \E h \in unmap_each(Heap(i), spaces[i].segs) : Left(h)
  /\ spaces' = [j \in DOMAIN spaces \ {i} |-> spaces[j]]
  /\ live' = Keep({b \in DOMAIN live : live[b].space # i})
  /\ tracked' = tracked \ {i}
  /\ UNCHANGED scenario

-----------------------------------------------------------------------------
(* Using                                                                     *)

mspace_malloc(i) ==
  /\ "malloc" \in Calls /\ Room(1)
  /\ \E n \in Requests : \E o \in malloc(Heap(i), n) :
       /\ Became(i, o.h)
       /\ live' = IF o.p = NULL THEN live ELSE Gets(live, chunk2mem(o.p), n, i)
  /\ UNCHANGED <<scenario, tracked>>

mspace_memalign(i) ==
  /\ "memalign" \in Calls /\ Room(1)
  /\ \E n \in Requests, a \in Alignments :
       /\ ~ memalign_refused(a, n)
       /\ \E o \in Then(malloc(Heap(i), memalign_request(a, n)),
                        LAMBDA r : IF r.p = NULL THEN {r} ELSE align_chunk(r.h, r.p, a, n)) :
            /\ Became(i, o.h)
            /\ live' = IF o.p = NULL THEN live ELSE Gets(live, chunk2mem(o.p), n, i)
  /\ UNCHANGED <<scenario, tracked>>

\* The space whose mark the chunk of block b carries.
Marked(b) ==
  LET m == spaces[CHOOSE j \in DOMAIN spaces : mem2chunk(b) \in DOMAIN spaces[j].mem].mem
  IN  get_mstate_for(m, mem2chunk(b))

\* Mutant: the space that the client names is believed.
as_named(i, b) == i

\* The space a call with i works on: with FOOTERS, the block's.
fm(i, b) == IF FOOTERS THEN Marked(b) ELSE i

\* With FOOTERS a block may be passed with any space.
Passable(i) == {b \in DOMAIN live : FOOTERS \/ live[b].space = i}

mspace_free(i) ==
  /\ "free" \in Calls
  /\ \E b \in Passable(i) : \E h \in free(Heap(fm(i, b)), b) :
       Became(fm(i, b), h) /\ live' = Keep(DOMAIN live \ {b})
  /\ UNCHANGED <<scenario, tracked>>

\* In place, or by malloc, copy and free in the space the block is in.
mspace_realloc(i) ==
  /\ "realloc" \in Calls
  /\ \E b \in Passable(i), n \in Requests :
       LET m == fm(i, b)
           elsewhere(r) == IF r.p # NULL THEN {r} ELSE malloc(r.h, n)
           freed(r) == IF r.p = NULL \/ mem2chunk(b) = r.p THEN {r}
                       ELSE {Result(g, r.p) : g \in free(r.h, b)}
           tried == try_realloc_chunk(Heap(m), mem2chunk(b), request2size(n), TRUE)
           moved == UNION {freed(r) : r \in UNION {elsewhere(t) : t \in {t \in tried : t.p = NULL}}}
       IN  /\ n < MAX_REQUEST
           /\ \E o \in {t \in tried : t.p # NULL} \cup moved :
                /\ Became(m, o.h)
                /\ live' = IF o.p = NULL THEN live
                           ELSE Gets(Keep(DOMAIN live \ {b}), chunk2mem(o.p), n, live[b].space)
  /\ UNCHANGED <<scenario, tracked>>

\* independent_calloc and independent_comalloc: mmap is disabled meanwhile.
mspace_independent(i) ==
  /\ "independent" \in Calls
  /\ \E sizes \in Elements :
       /\ Room(Len(sizes))
       /\ \E o \in malloc([Heap(i) EXCEPT !.mmapping = FALSE], ialloc_request(sizes, TRUE)) :
            LET h == [o.h EXCEPT !.mmapping = spaces[i].mmapping]
                mem(k) == chunk2mem(element(o.p, sizes, k))
            IN  IF o.p = NULL THEN Became(i, h) /\ UNCHANGED live
                ELSE /\ Became(i, ialloc_split(h, o.p, sizes, TRUE))
                     /\ live' = [b \in DOMAIN live \cup {mem(k) : k \in DOMAIN sizes} |->
                                   IF b \in DOMAIN live THEN live[b]
                                   ELSE Block(sizes[CHOOSE k \in DOMAIN sizes : mem(k) = b], i)]
  /\ UNCHANGED <<scenario, tracked>>

\* With FOOTERS the blocks of other spaces are left in the array.
mspace_bulk_free(i) ==
  /\ "bulk_free" \in Calls
  /\ \E b, c \in Passable(i) : \E h \in internal_bulk_free(Heap(i), <<b, c>>) :
       /\ b # c
       /\ Became(i, h)
       /\ live' = Keep(DOMAIN live \ {x \in {b, c} : live[x].space = i})
  /\ UNCHANGED <<scenario, tracked>>

mspace_trim(i) ==
  /\ "trim" \in Calls
  /\ \E pad \in Pads : \E o \in sys_trim(Heap(i), pad) : Became(i, o.h)
  /\ UNCHANGED <<scenario, live, tracked>>

-----------------------------------------------------------------------------
Init ==
  /\ scenario \in Scenarios
  /\ spaces = << >> /\ live = << >> /\ tracked = {}
  /\ system = [brk |-> BREAK, pages |-> ClientPages]

Use(i) ==
  \/ mspace_track_large_chunks(i) \/ destroy_mspace(i) \/ mspace_malloc(i) \/ mspace_memalign(i)
  \/ mspace_free(i) \/ mspace_realloc(i) \/ mspace_independent(i) \/ mspace_bulk_free(i)
  \/ mspace_trim(i)

Next == create_mspace \/ create_mspace_with_base \/ \E i \in DOMAIN spaces : Use(i)
Spec == Init /\ [][Next]_vars

-----------------------------------------------------------------------------
(* Properties *)

Mapped(i) == {p \in DOMAIN spaces[i].mem :
                is_mmapped(spaces[i].mem, p) /\ size_of(spaces[i], p) >= MIN_LARGE_SIZE}
RegionsOf(i) ==
  {[base |-> s.base, size |-> s.size] : s \in ToSet(spaces[i].segs)}
  \cup {[base |-> p - spaces[i].mem[p].foot, size |-> munmap_size(spaces[i], p)] : p \in Mapped(i)}
Inside(b, n, R) == \E r \in R : r.base <= b /\ b + n <= r.base + r.size

\* l. 1293-1301: the client's memory is not given to the system, nor joined with
\* other memory.
BaseKept ==
  /\ ClientPages \subseteq system.pages
  /\ \A i \in DOMAIN spaces : \A s \in ToSet(spaces[i].segs) :
       s.extern => s.base \in Bases /\ s.size \in BaseSizes

\* No two spaces have memory in common, and the client's memory stays apart from the
\* system's. Each block lies in its own space and, with FOOTERS, carries the mark of
\* that space, by which free finds it.
SpacesApart ==
  /\ BaseKept
  /\ \A i, j \in DOMAIN spaces : i # j =>
       \A r \in RegionsOf(i), s \in RegionsOf(j) :
         r.base + r.size <= s.base \/ s.base + s.size <= r.base
  /\ \A b \in DOMAIN live :
       live[b].space \in DOMAIN spaces /\ Inside(b, live[b].size, RegionsOf(live[b].space))
  /\ FOOTERS => \A b \in DOMAIN live : Marked(b) = live[b].space

\* Every space passes its own debugging checks. What it has in use is its own
\* record, the records of its older segments and the client's blocks: nothing of it
\* leaks, nor is freed twice.
SpacesChecked ==
  \A i \in DOMAIN spaces :
    LET h == spaces[i]
        records == {mem2chunk(s.rec) : s \in ToSet(Tail(h.segs))}
        blocks == {mem2chunk(b) : b \in {x \in DOMAIN live : live[x].space = i}}
        used == {p \in Met(h) : is_inuse(h.mem, p)} \cup Mapped(i)
    IN  /\ check_malloc_state(h)
        /\ \E own \in used : size_of(h, own) = msize /\ used = {own} \cup records \cup blocks

\* l. 1304-1312: a space that has always tracked its large chunks leaves no
\* memory behind when it is destroyed, but what the client gave it.
NothingLeaks ==
  [][ \A i \in tracked : i \notin DOMAIN spaces' =>
        \A r \in RegionsOf(i) : r.base \in Bases \/ PagesOf(r.base, r.size) \cap system'.pages = {} ]_vars
=============================================================================

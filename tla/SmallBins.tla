------------------------------ MODULE SmallBins ------------------------------
(***************************************************************************)
(* The small bins of dlmalloc.c: rings of free chunks of one size, headed  *)
(* by the bin itself, a map of the bins that are not empty, and the        *)
(* designated victim, which goes to its bin when another takes its place.  *)
(* An empty bin is told by the map alone: its header keeps the links to    *)
(* the chunk that was last in it.  Splitting and joining chunks are left   *)
(* to DlmallocC; here a chunk is what can be put in a bin, with its size.  *)
(***************************************************************************)
EXTENDS Integers, Sequences, FiniteSetsExt, Functions

CONSTANTS
  ChunkSize,     \* the small chunks there are, positive numbers, and their sizes
  Requests       \* padded sizes that malloc looks for

NSMALLBINS == 32
SMALLBIN_SHIFT == 3
NULL == 0

small_index(s) == s \div 2 ^ SMALLBIN_SHIFT
\* The header of a bin, as a chunk with an address of its own.
smallbin_at(i) == - (i + 1)

Chunks == DOMAIN ChunkSize
Headers == {smallbin_at(i) : i \in 0..(NSMALLBINS - 1)}

\* Sizes of chunks and padded requests are multiples of 8, MALLOC_ALIGNMENT at least.
ASSUME SmallAssumption ==
  /\ IsFiniteSet(Chunks) /\ Chunks \subseteq Nat \ {0}
  /\ \A c \in Chunks : /\ ChunkSize[c] \in Nat /\ ChunkSize[c] % 2 ^ SMALLBIN_SHIFT = 0
                       /\ small_index(ChunkSize[c]) < NSMALLBINS
  /\ \A nb \in Requests : nb \in Nat \ {0} /\ nb % 2 ^ SMALLBIN_SHIFT = 0

VARIABLES
  smallmap,          \* the indices of the marked bins
  fd, bk,            \* the links of the headers, and of the chunks in bins
  dv,                \* the designated victim
  request, found     \* what malloc looked for last, and the chunk it took

links == <<fd, bk>>
vars == <<smallmap, links, dv, request, found>>

InBins == DOMAIN fd \ Headers
Put(f, x, y) == [z \in DOMAIN f \cup {x} |-> IF z = x THEN y ELSE f[z]]
Without(f, x) == Restrict(f, DOMAIN f \ {x})
Quiet == request' = 0 /\ found' = NULL

-----------------------------------------------------------------------------
\* The chunk a new one goes in front of; the header of a bin that is not marked.
First(i) == IF i \in smallmap THEN fd[smallbin_at(i)] ELSE smallbin_at(i)

insert_small_chunk(p) ==
  LET i == small_index(ChunkSize[p])
      b == smallbin_at(i)
      f == First(i)
  IN  /\ smallmap' = smallmap \cup {i}
      /\ fd' = Put(Put(fd, b, p), p, f)
      /\ bk' = Put(Put(bk, f, p), p, b)

Cleared(i, f, b) == IF f = b THEN smallmap \ {i} ELSE smallmap

\* The neighbours are linked with each other, unless the chunk is the last.
Bypassed(p, f, b) ==
  IF f = b THEN fd' = Without(fd, p) /\ bk' = Without(bk, p)
  ELSE /\ fd' = Without(Put(fd, b, f), p)
       /\ bk' = Without(Put(bk, f, b), p)

unlink_small_chunk(p) ==
  /\ smallmap' = Cleared(small_index(ChunkSize[p]), fd[p], bk[p])
  /\ Bypassed(p, fd[p], bk[p])

unlink_first_small_chunk(p, i) ==
  /\ smallmap' = Cleared(i, fd[p], smallbin_at(i))
  /\ Bypassed(p, fd[p], smallbin_at(i))

-----------------------------------------------------------------------------
Insert ==
  /\ \E p \in Chunks \ (InBins \cup {dv}) : insert_small_chunk(p)
  /\ Quiet /\ UNCHANGED dv

Unlink ==
  /\ \E p \in InBins : unlink_small_chunk(p)
  /\ Quiet /\ UNCHANGED dv

replace_dv ==
  /\ \E p \in Chunks \ (InBins \cup {dv}) : dv' = p
  /\ IF dv # NULL THEN insert_small_chunk(dv) ELSE UNCHANGED <<smallmap, links>>
  /\ Quiet

\* dv is handed out, or joined with a neighbour.
UseDv == dv # NULL /\ dv' = NULL /\ Quiet /\ UNCHANGED <<smallmap, links>>

\* Mutant: only the bins above the request's are looked at.
candidates_above(nb) == {j \in smallmap : j > small_index(nb)}

\* dlmalloc takes from bin idx, from the next, or from the least marked one above.
Candidates(nb) == {j \in smallmap : j >= small_index(nb)}

Take ==
  \E nb \in Requests :
    /\ request' = nb
    /\ IF Candidates(nb) = {} THEN found' = NULL /\ UNCHANGED <<smallmap, links>>
       ELSE LET i == Min(Candidates(nb))
            IN  found' = fd[smallbin_at(i)] /\ unlink_first_small_chunk(found', i)
    /\ UNCHANGED dv

init_bins == [h \in Headers |-> h]

Init ==
  /\ smallmap = {} /\ fd = init_bins /\ bk = init_bins
  /\ dv = NULL /\ request = 0 /\ found = NULL

Next == Insert \/ Unlink \/ replace_dv \/ UseDv \/ Take
Spec == Init /\ [][Next]_vars

-----------------------------------------------------------------------------
(* Properties *)

\* The ring of bin i, oldest chunk first: what the links lead back to from its header,
\* until they come round to it.
Ring(i) ==
  LET b == smallbin_at(i)
      n == Cardinality(Chunks) + 1
      back[j \in 0..n] == IF j = 0 THEN b ELSE bk[back[j - 1]]
      round == Min({j \in 1..n : back[j] = b} \cup {n})
  IN  IF i \notin smallmap THEN << >> ELSE [j \in 1..(round - 1) |-> back[j]]

\* do_check_smallbin: a marked bin is a ring, linked both ways, of at least one
\* chunk, each of the bin's size; bin_find meets every chunk that is in a bin.
SmallBinsOK ==
  /\ \A i \in smallmap :
       /\ Ring(i) # << >>
       /\ \A p \in Range(Ring(i)) :
            /\ p \in InBins /\ small_index(ChunkSize[p]) = i
            /\ fd[bk[p]] = p /\ bk[fd[p]] = p
  /\ \A p \in InBins : p \in Range(Ring(small_index(ChunkSize[p])))

\* The designated victim is in no bin.
DvApart == dv \notin InBins

\* malloc gets the smallest chunk that will do, the most recently freed of that
\* size, as l. 150-158 describe for small requests.
Promise == INSTANCE FreeChunks WITH
  Oldest <- FALSE, None <- NULL,
  queue <- [s \in Range(ChunkSize) |-> Ring(small_index(s))]
MostRecentFit == Promise!Spec
=============================================================================

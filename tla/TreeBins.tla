------------------------------ MODULE TreeBins ------------------------------
(***************************************************************************)
(* The tree bins of dlmalloc.c: for each bin a trie of free chunks keyed   *)
(* on the bits of their sizes, whose nodes each head a ring of chunks of   *)
(* one size, and a map of the bins that are not empty.  Splitting and      *)
(* joining chunks, and the comparison with the designated victim, are left *)
(* to DlmallocC; here a chunk is what can be put in a bin, with its size.  *)
(***************************************************************************)
EXTENDS TreeSizes, Sequences, FiniteSetsExt, Functions

CONSTANTS
  ChunkSize,     \* the large chunks there are, positive numbers, and their sizes
  LargeRequests, \* padded sizes that tmalloc_large looks for
  SmallRequests  \* and tmalloc_small

NULL == 0
ROOT == -1       \* as a parent: the bin itself

Chunks == DOMAIN ChunkSize

TreeBinsAssumption ==
  /\ Chunks \subseteq Nat \ {0}
  /\ \A c \in Chunks : ChunkSize[c] >= 2 ^ TREEBIN_SHIFT
  /\ \A nb \in LargeRequests : nb >= 2 ^ TREEBIN_SHIFT
  /\ \A nb \in SmallRequests : nb < 2 ^ TREEBIN_SHIFT

VARIABLES
  treemap,           \* the indices of the marked bins
  treebins,          \* the roots
  node,              \* the tree fields of the chunks in bins: struct malloc_tree_chunk
  request, found     \* what was looked for last, and the chunk taken

vars == <<treemap, treebins, node, request, found>>

InBins == DOMAIN node
size(c) == ChunkSize[c]
Quiet == request' = 0 /\ found' = NULL
Put(f, x, y) == [z \in DOMAIN f \cup {x} |-> IF z = x THEN y ELSE f[z]]

\* A store to a field of a node, if there is one.
SetParent(N, c, x) == IF c = NULL THEN N ELSE [N EXCEPT ![c].parent = x]
SetChild(N, c, i, x) == [N EXCEPT ![c].child[i] = x]

-----------------------------------------------------------------------------
(* insert_large_chunk                                                        *)

\* The node of tree T at which a chunk of size S with bits K ends its way: one of
\* its size, or one without a child on its side, which is i.
RECURSIVE Descend(_, _, _)
Descend(T, K, S) ==
  LET C == node[T].child[child(K)]
  IN  IF size(T) = S \/ C = NULL THEN [at |-> T, side |-> child(K)]
      ELSE Descend(C, shl(K, 1), S)

\* Only the first chunk of a ring has a parent.
NoParent(T) == NULL

NewNode(F, B, P, i) == [fd |-> F, bk |-> B, child |-> [s \in 0..1 |-> NULL], parent |-> P, index |-> i]

insert_large_chunk(X) ==
  LET S == size(X)
      I == compute_tree_index(S)
      end == Descend(treebins[I], shl(S, leftshift_for_tree_index(I)), S)
      T == end.at
      F == node[T].fd
  IN  /\ treemap' = treemap \cup {I}
      /\ IF I \notin treemap
         THEN /\ treebins' = [treebins EXCEPT ![I] = X]
              /\ node' = Put(node, X, NewNode(X, X, ROOT, I))
         ELSE /\ UNCHANGED treebins
              /\ node' = IF size(T) # S
                         THEN Put(SetChild(node, T, end.side, X), X, NewNode(X, X, T, I))
                         ELSE Put([[node EXCEPT ![T].fd = X] EXCEPT ![F].bk = X],
                                  X, NewNode(F, T, NoParent(T), I))

-----------------------------------------------------------------------------
(* unlink_large_chunk                                                        *)

\* The leaf reached by going right where possible.
RECURSIVE Deepest(_)
Deepest(R) ==
  IF node[R].child[1] # NULL THEN Deepest(node[R].child[1])
  ELSE IF node[R].child[0] # NULL THEN Deepest(node[R].child[0])
  ELSE R

\* Mutant: a child itself takes the node's place, with what is below it.
replaced_by_child(X) == IF node[X].child[1] # NULL THEN node[X].child[1] ELSE node[X].child[0]

\* What takes the place of the last chunk of a size: a leaf below it.
LeafBelow(X) ==
  IF node[X].child[1] # NULL THEN Deepest(node[X].child[1])
  ELSE IF node[X].child[0] # NULL THEN Deepest(node[X].child[0])
  ELSE NULL

Replacement(X) == IF node[X].bk # X THEN node[X].bk ELSE LeafBelow(X)

\* The child link of P that leads to c is made to lead to R.
Relink(N, P, c, R) == IF P \notin DOMAIN N THEN N
                      ELSE SetChild(N, P, IF N[P].child[0] = c THEN 0 ELSE 1, R)

\* X leaves its ring, or the leaf R that replaces it its place.
Detached(X, R) ==
  IF node[X].bk # X THEN [[node EXCEPT ![node[X].fd].bk = R] EXCEPT ![R].fd = node[X].fd]
  ELSE IF R # NULL THEN Relink(node, node[R].parent, R, NULL)
  ELSE node

Adopted(N, R, X, i) ==
  IF N[X].child[i] = NULL THEN N
  ELSE SetParent(SetChild(N, R, i, N[X].child[i]), N[X].child[i], R)

Cleared(I, R) == IF R = NULL THEN treemap \ {I} ELSE treemap

unlink_large_chunk(X) ==
  LET XP == node[X].parent
      I == node[X].index
      R == Replacement(X)
      N1 == Detached(X, R)
      N2 == IF XP = ROOT THEN N1 ELSE Relink(N1, XP, X, R)
      N3 == IF R = NULL THEN N2
            ELSE Adopted(Adopted(SetParent(N2, R, XP), R, X, 0), R, X, 1)
      isroot == treebins[I] = X
  IN  /\ node' = Restrict(IF XP = NULL THEN N1 ELSE N3, DOMAIN node \ {X})
      /\ treebins' = IF isroot THEN [treebins EXCEPT ![I] = R] ELSE treebins
      /\ treemap' = IF isroot THEN Cleared(I, R) ELSE treemap

-----------------------------------------------------------------------------
(* The searches of tmalloc_large and tmalloc_small                           *)

\* What a chunk has too much, as a size_t: one that is too small has far more.
trem(t, nb) == (size(t) - nb) % 2 ^ SIZE_T_BITS

\* The better of the best so far, v (NULL: it must be below -nb), and t.
Better(v, t, nb) ==
  IF trem(t, nb) < (IF v = NULL THEN (- nb) % 2 ^ SIZE_T_BITS ELSE trem(v, nb)) THEN t ELSE v

leftmost_child(t) == IF node[t].child[0] # NULL THEN node[t].child[0] ELSE node[t].child[1]

\* The smallest that will do, of v and the chunks on the leftmost path from t.
RECURSIVE Leftmost(_, _, _)
Leftmost(t, v, nb) == IF t = NULL THEN v ELSE Leftmost(leftmost_child(t), Better(v, t, nb), nb)

\* Mutant: the right subtrees passed on the way are forgotten.
untaken_none(t, next, rst) == NULL

\* The deepest right subtree not taken.
Untaken(t, next, rst) ==
  LET rt == node[t].child[1] IN IF rt # NULL /\ rt # next THEN rt ELSE rst

\* Down the tree of nb's own bin, following the bits K of nb.
RECURSIVE Exact(_, _, _, _, _)
Exact(t, K, v, rst, nb) ==
  LET best == Better(v, t, nb)
      next == node[t].child[child(K)]
      right == Untaken(t, next, rst)
  IN  IF best # NULL /\ trem(best, nb) = 0 THEN best
      ELSE IF next = NULL THEN Leftmost(right, best, nb)
      ELSE Exact(next, shl(K, 1), best, right, nb)

FromLater(idx, nb) ==
  LET later == {i \in treemap : i > idx}
  IN  IF later = {} THEN NULL ELSE Leftmost(treebins[Min(later)], NULL, nb)

\* The chunk tmalloc_large finds for nb, if any.
LargeFit(nb) ==
  LET idx == compute_tree_index(nb)
      v == IF treebins[idx] = NULL THEN NULL
           ELSE Exact(treebins[idx], shl(nb, leftshift_for_tree_index(idx)), NULL, NULL, nb)
  IN  IF v = NULL THEN FromLater(idx, nb) ELSE v

SmallFit(nb) == IF treemap = {} THEN NULL ELSE Leftmost(treebins[Min(treemap)], NULL, nb)

-----------------------------------------------------------------------------
Insert == (\E X \in Chunks \ InBins : insert_large_chunk(X)) /\ Quiet

Unlink == (\E X \in InBins : unlink_large_chunk(X)) /\ Quiet

TakeFit(nb, v) ==
  /\ request' = nb /\ found' = v
  /\ IF v = NULL THEN UNCHANGED <<treemap, treebins, node>> ELSE unlink_large_chunk(v)

tmalloc_large == \E nb \in LargeRequests : TakeFit(nb, LargeFit(nb))
tmalloc_small == \E nb \in SmallRequests : TakeFit(nb, SmallFit(nb))

Init ==
  /\ treemap = {} /\ treebins = [i \in 0..(NTREEBINS - 1) |-> NULL]
  /\ node = << >> /\ request = 0 /\ found = NULL

Next == Insert \/ Unlink \/ tmalloc_large \/ tmalloc_small
Spec == Init /\ [][Next]_vars

-----------------------------------------------------------------------------
(* Properties *)

\* The chunks of a ring from x back to c, n at most, and the ring from c on: the
\* oldest chunk first.
RECURSIVE Back(_, _, _)
Back(x, c, n) ==
  IF x = c \/ x \notin InBins \/ n = 0 THEN << >> ELSE <<x>> \o Back(node[x].bk, c, n - 1)

Ring(c) == <<c>> \o Back(node[c].bk, c, Cardinality(Chunks))

InTree == {c \in InBins : node[c].parent # NULL}

\* The sizes below node c in the tree, and its own; no deeper than there are bits.
RECURSIVE Below(_, _)
Below(c, n) ==
  IF c = NULL \/ n = 0 THEN {}
  ELSE {c} \cup Below(node[c].child[0], n - 1) \cup Below(node[c].child[1], n - 1)

\* do_check_tree, for every node: parent and child links match, the ring is linked
\* both ways, has one size and one index and a parent at its first chunk only, and
\* every size on the left is smaller than every size on the right.
TreesOK ==
  \A c \in InBins :
    /\ node[c].index = compute_tree_index(size(c))
    /\ node[node[c].fd].bk = c /\ node[node[c].bk].fd = c
    /\ size(node[c].fd) = size(c) /\ node[c].fd # c => ~ {c, node[c].fd} \subseteq InTree
    /\ c \notin InTree => node[c].child = [s \in 0..1 |-> NULL]
    /\ node[c].parent = ROOT => treebins[node[c].index] = c
    /\ c \in InTree /\ node[c].parent # ROOT =>
         \E s \in 0..1 : node[node[c].parent].child[s] = c
    /\ \A s \in 0..1 : node[c].child[s] # NULL => node[node[c].child[s]].parent = c
    /\ \A x \in Below(node[c].child[0], SIZE_T_BITS), y \in Below(node[c].child[1], SIZE_T_BITS) :
         size(x) < size(y)

\* A bin is marked exactly when its tree is not empty (do_check_treebin).
MapMirrors == \A i \in DOMAIN treebins : i \in treemap <=> treebins[i] # NULL

\* bin_find: following the bits of its size leads to every chunk that is in a bin.
RECURSIVE Reached(_, _, _)
Reached(t, K, S) ==
  IF t = NULL \/ size(t) = S THEN t ELSE Reached(node[t].child[child(K)], shl(K, 1), S)

bin_find(x) ==
  LET i == compute_tree_index(size(x))
      t == Reached(treebins[i], shl(size(x), leftshift_for_tree_index(i)), size(x))
  IN  i \in treemap /\ t # NULL /\ x \in Range(Ring(t))

Findable == \A x \in InBins : bin_find(x)

\* malloc gets the smallest large chunk that will do, the least recently freed of
\* that size, and none only when none will do.
Promise == INSTANCE FreeChunks WITH
  Oldest <- TRUE, None <- NULL,
  queue <- [s \in Range(ChunkSize) |->
              IF \E c \in InTree : size(c) = s
              THEN Ring(CHOOSE c \in InTree : size(c) = s) ELSE << >>]
LeastRecentFit == Promise!Spec
=============================================================================

------------------------------ MODULE TreeIndex ------------------------------
(***************************************************************************)
(* The walks of two sizes down the tree of their bin: each goes left or    *)
(* right by the top bit of its K, which is shifted left at each level,     *)
(* until they part, as insert_large_chunk, tmalloc_large and bin_find do.  *)
(***************************************************************************)
EXTENDS TreeSizes

CONSTANT LargeSizes        \* the chunk sizes compared

ASSUME LargeAssumption ==
  \A x \in LargeSizes : x \in Nat /\ x >= 2 ^ TREEBIN_SHIFT /\ x < 2 ^ SIZE_T_BITS

VARIABLES s, k, walk    \* two sizes; what is left of their bits; "index", "down", "parted"

way == <<s, k, walk>>

Enter ==
  /\ walk = "index" /\ s[1] # s[2] /\ compute_tree_index(s[1]) = compute_tree_index(s[2])
  /\ k' = [n \in 1..2 |-> shl(s[n], leftshift_for_tree_index(compute_tree_index(s[n])))]
  /\ walk' = "down" /\ UNCHANGED s

Descend ==
  /\ walk = "down" /\ child(k[1]) = child(k[2])
  /\ k' = [n \in 1..2 |-> shl(k[n], 1)]
  /\ UNCHANGED <<s, walk>>

Part ==
  /\ walk = "down" /\ child(k[1]) # child(k[2])
  /\ walk' = "parted" /\ UNCHANGED <<s, k>>

Start ==
  /\ s \in [1..2 -> LargeSizes] /\ s[1] <= s[2]
  /\ k = [n \in 1..2 |-> 0] /\ walk = "index"

Go == Enter \/ Descend \/ Part
Walks == Start /\ [][Go]_way

-----------------------------------------------------------------------------
(* Properties *)

\* A size lies between the smallest size of its bin and that of the next, as
\* do_check_tree asserts, so that every size of a later bin is larger.
InItsBin ==
  \A n \in 1..2 :
    LET idx == compute_tree_index(s[n])
    IN  /\ minsize_for_tree_index(idx) <= s[n]
        /\ idx = NTREEBINS - 1 \/ s[n] < minsize_for_tree_index(idx + 1)

\* The versions of compute_tree_index agree.
VersionsAgree == \A n \in 1..2 : compute_tree_index(s[n]) = compute_tree_index_portable(s[n])

\* Two sizes never run out of bits before they part: insertion ends, and a
\* search for one size cannot meet the other in its place.
BitsSuffice == walk = "down" => k[1] # k[2]

\* Where they part, the smaller goes left: what tmalloc_large takes of the right
\* subtrees it passed is larger than the request, the least of them passed last.
SmallerGoesLeft == walk = "parted" => child(k[1]) = 0

\* A size is in the bin of its range; the ways of two sizes down a tree part before
\* their bits run out, and the smaller goes left.
WaysPart == InItsBin /\ VersionsAgree /\ BitsSuffice /\ SmallerGoesLeft
=============================================================================

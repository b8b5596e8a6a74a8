------------------------------- MODULE MCBins -------------------------------
(***************************************************************************)
(* The parts of the bins of dlmalloc.c, each on its own: the small bins,   *)
(* the trees, the maps, and the way of two sizes down a tree.  `part` says *)
(* which of them moves; the others stay as they begin.                     *)
(***************************************************************************)
EXTENDS SmallBins, TreeIndex

CONSTANTS
  NBINS,                                    \* of BinMaps
  TreeChunks, LargeRequests, SmallRequests  \* of TreeBins

VARIABLES
  part,
  treemap, treebins, node, wanted, fit,     \* TreeBins, where they are request and found
  binmap, marked                            \* BinMaps, where the map is smallmap

tree == <<treemap, treebins, node, wanted, fit>>
maps == <<binmap, marked>>

Tree == INSTANCE TreeBins WITH ChunkSize <- TreeChunks, request <- wanted, found <- fit
Maps == INSTANCE BinMaps WITH smallmap <- binmap

ASSUME BinsAssumptions ==
  /\ Maps!BinMapsAssumption /\ Tree!TreeBinsAssumption
  /\ PowersDouble

\* Chunks of three sizes, three of the first.
MCSmallSizes == <<32, 32, 32, 40, 40, 56>>

\* Chunks of two bins: sizes that part at the first bit, at the second and at the
\* last but two, and two chunks of one size.
MCTreeChunks == <<256, 256, 264, 288, 320, 352, 400, 400>>

\* Sizes next to the limits of the bins, of the halves of the bins and of their
\* trees, and sizes in the midst of a bin.
MCLimits == {2 ^ e : e \in 8..27} \cup {3 * 2 ^ e : e \in 7..26} \cup {5 * 2 ^ e : e \in 6..25}
MCLargeSizes == UNION {{x - 8, x, x + 8, x + 24} : x \in MCLimits} \ {248}

-----------------------------------------------------------------------------
MCInit ==
  /\ part \in {"small", "tree", "maps", "walks"}
  /\ Init /\ Tree!Init /\ Maps!Init /\ Start
  /\ part # "walks" => s = [n \in 1..2 |-> 256]

SmallMoves == part = "small" /\ Next /\ UNCHANGED <<part, tree, maps, way>>
TreeMoves == part = "tree" /\ Tree!Next /\ UNCHANGED <<part, vars, maps, way>>
MapsMove == part = "maps" /\ Maps!Next /\ UNCHANGED <<part, vars, tree, way>>
WalksMove == part = "walks" /\ Go /\ UNCHANGED <<part, vars, tree, maps>>

MCNext == SmallMoves \/ TreeMoves \/ MapsMove \/ WalksMove
MCSpec == MCInit /\ [][MCNext]_<<part, vars, tree, maps, way>>

-----------------------------------------------------------------------------
\* The bins, their maps and their trees are what the debugging checks assert; every
\* chunk in a bin is found there, and the designated victim is in none.
BinsOK ==
  /\ part = "small" => SmallBinsOK /\ DvApart
  /\ part = "tree" => Tree!TreesOK /\ Tree!MapMirrors /\ Tree!Findable

\* malloc gets the smallest large chunk that will do, the earliest freed of its size.
LeastRecentFit == Tree!LeastRecentFit

\* The maps mirror the bins, and the bit arithmetic finds the least marked one.
LeastBinFound ==
  part = "maps" => Maps!Mirrors /\ Maps!ExactIsLeast /\ Maps!NextIsLeast /\ Maps!FirstIsLeast
=============================================================================

------------------------------- MODULE BinMaps -------------------------------
(***************************************************************************)
(* The bin maps of dlmalloc.c: one bit for each bin, and the arithmetic    *)
(* that finds the next bin in them.  A map is a binmap_t, an unsigned      *)
(* number; `marked` is the set of indices it stands for.                   *)
(***************************************************************************)
EXTENDS Integers, Bitwise, FiniteSets, FiniteSetsExt

CONSTANT NBINS      \* bins, and bits of a binmap_t: 32 in the code

BinMapsAssumption == NBINS \in 1..30

VARIABLES smallmap, marked

vars == <<smallmap, marked>>

Indices == 0..(NBINS - 1)
wrap(x) == x % 2 ^ NBINS
minus(x) == wrap(- x)
complement(x) == 2 ^ NBINS - 1 - x

idx2bit(i) == 2 ^ i
mark_smallmap(i) == smallmap' = smallmap | idx2bit(i)
clear_smallmap(i) == smallmap' = smallmap & complement(idx2bit(i))
smallmap_is_marked(i) == smallmap & idx2bit(i) # 0

least_bit(x) == x & minus(x)

\* Mutant: the bit itself stays in the mask.
left_bits_and_same(x) == x | minus(x)

left_bits(x) == wrap(2 * x) | minus(2 * x)

\* The portable version, for a map of up to 30 bits.
compute_bit2idx(X) ==
  LET Y == X - 1
      K5 == (Y \div 2 ^ 12) & 16
      Y5 == Y \div 2 ^ K5
      K4 == (Y5 \div 2 ^ 5) & 8
      Y4 == Y5 \div 2 ^ K4
      K3 == (Y4 \div 2 ^ 2) & 4
      Y3 == Y4 \div 2 ^ K3
      K2 == (Y3 \div 2) & 2
      Y2 == Y3 \div 2 ^ K2
      K1 == Y2 & 1
  IN  K5 + K4 + K3 + K2 + K1 + Y2 \div 2 ^ K1

-----------------------------------------------------------------------------
(* The searches of malloc for a request whose bin is idx                     *)

smallbits(idx) == smallmap \div 2 ^ idx
Remainderless(idx) == smallbits(idx) & 3 # 0
ExactBin(idx) == idx + (complement(smallbits(idx)) & 1)
NextBin(idx) ==
  compute_bit2idx(least_bit(wrap(smallbits(idx) * 2 ^ idx) & left_bits(idx2bit(idx))))

\* tmalloc_large looks for the next tree bin, tmalloc_small for the first.
LeftOf(idx) == left_bits(idx2bit(idx)) & smallmap
NextTreeBin(idx) == compute_bit2idx(least_bit(LeftOf(idx)))
FirstTreeBin == compute_bit2idx(least_bit(smallmap))

Mark(i) == i \notin marked /\ mark_smallmap(i) /\ marked' = marked \cup {i}
MarkAgain(i) == i \in marked /\ mark_smallmap(i) /\ UNCHANGED marked
Clear(i) == clear_smallmap(i) /\ marked' = marked \ {i}

Init == smallmap = 0 /\ marked = {}
Next == \E i \in Indices : Mark(i) \/ MarkAgain(i) \/ Clear(i)
Spec == Init /\ [][Next]_vars

-----------------------------------------------------------------------------
(* Properties *)

\* The map holds the bits of the bins that were marked and not cleared since.
Mirrors == \A i \in Indices : smallmap_is_marked(i) <=> i \in marked

\* A remainderless fit is the bin of the request, or the next one if that is empty.
ExactIsLeast ==
  \A idx \in 0..(NBINS - 2) :
    /\ Remainderless(idx) <=> {idx, idx + 1} \cap marked # {}
    /\ Remainderless(idx) => ExactBin(idx) = Min({idx, idx + 1} \cap marked)

\* The later search finds the least marked bin above the request's.
NextIsLeast ==
  \A idx \in Indices :
    LET above == {i \in marked : i > idx}
    IN  /\ idx \notin marked /\ above # {} => NextBin(idx) = Min(above)
        /\ LeftOf(idx) # 0 <=> above # {}
        /\ above # {} => NextTreeBin(idx) = Min(above)

\* The first marked bin is found.
FirstIsLeast == marked # {} => FirstTreeBin = Min(marked)
=============================================================================

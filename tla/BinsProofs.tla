----------------------------- MODULE BinsProofs -----------------------------
(***************************************************************************)
(* The small bins of dlmalloc.c, for any chunks and requests: their links  *)
(* are rings, and malloc gets what FreeChunks promises of them.  And the   *)
(* tree bins' arithmetic, for any width of a size_t: a size is in the bin  *)
(* of its range, and two sizes part on their ways down its tree.           *)
(***************************************************************************)
EXTENDS SmallBins, TreeIndex, FiniteSetTheorems, SequenceTheorems, WellFoundedInduction, TLAPS

-----------------------------------------------------------------------------
(* Numbers *)

\* Every set of natural numbers has a least one.
LEMMA LeastNat ==
  ASSUME NEW T \in SUBSET Nat, T # {}
  PROVE  \E m \in T : \A n \in T : m <= n
<1>1. PICK R : R = OpToRel(<, Nat)
  OBVIOUS
<1>2. IsWellFoundedOn(R, Nat)
  BY <1>1, NatLessThanWellFounded, Zenon
<1>3. PICK m \in T : \A n \in T : ~ (<<n, m>> \in R)
  BY <1>2, WFMin, Zenon
<1>4. \A n, l \in Nat : n < l => <<n, l>> \in R
  BY <1>1 DEF OpToRel
<1>5. \A n \in T : m <= n
  <2> TAKE n \in T
  <2>1. n \in Nat /\ m \in Nat
    OBVIOUS
  <2>2. ~ (n < m)
    BY <1>3, <1>4, <2>1
  <2> QED
    BY <2>1, <2>2
<1> QED
  BY <1>5

\* A set that holds 0, and each number up to n whose predecessor it holds, holds all of them.
LEMMA Upward ==
  ASSUME NEW n \in Nat, NEW T, 0 \in T, \A i \in 1..n : i - 1 \in T => i \in T
  PROVE  \A i \in 0..n : i \in T
<1> DEFINE F == {i \in 0..n : i \notin T}
<1>1. SUFFICES ASSUME F # {} PROVE FALSE
  OBVIOUS
<1>2. PICK m \in F : \A l \in F : m <= l
  <2>1. F \in SUBSET Nat
    OBVIOUS
  <2> HIDE DEF F
  <2> QED
    BY <1>1, <2>1, LeastNat
<1>3. m \in 0..n /\ m \notin T
  BY <1>2
<1>4. m \in 1..n
  BY <1>3
<1>5. m - 1 \in 0..n /\ ~ (m <= m - 1)
  BY <1>4
<1>6. m - 1 \in T
  BY <1>2, <1>5
<1> QED
  BY <1>3, <1>4, <1>6

\* Min is what its name says.
LEMMA MinIs ==
  ASSUME NEW T \in SUBSET Nat, NEW m \in T, \A n \in T : m <= n
  PROVE  Min(T) = m
<1>1. \A x \in T : (\A y \in T : x <= y) => x = m
  OBVIOUS
<1> QED
  BY <1>1 DEF Min

-----------------------------------------------------------------------------
(* Rings *)

Bins == 0..31

\* The bin of a chunk.
bin(c) == small_index(ChunkSize[c])

\* L has the chunks that are in the bins, for each bin the oldest first.
IsBins(L) ==
  /\ L \in [Bins -> Seq(Chunks)]
  /\ \A i \in Bins : \A j \in 1..Len(L[i]) : bin(L[i][j]) = i
  /\ \A i \in Bins : \A j, l \in 1..Len(L[i]) : L[i][j] = L[i][l] => j = l

Members(L) == {c \in Chunks : \E i \in Bins : \E j \in 1..Len(L[i]) : c = L[i][j]}

\* The j-th chunk of a ring; the header of the bin is at both ends.
At(L, i, j) == IF j \in 1..Len(L[i]) THEN L[i][j] ELSE smallbin_at(i)

\* A map mp and links F and B are those of L: the oldest chunk is behind the header.
Linked(L, mp, F, B) ==
  /\ mp = {i \in Bins : L[i] # << >>}
  /\ DOMAIN F = Headers \cup Members(L) /\ DOMAIN B = Headers \cup Members(L)
  /\ \A i \in mp : \A j \in 0..Len(L[i]) :
       B[At(L, i, j)] = At(L, i, j + 1) /\ F[At(L, i, j + 1)] = At(L, i, j)

\* Every chunk has a bin,
LEMMA BinFacts ==
  \A c \in Chunks : bin(c) \in Bins /\ ChunkSize[c] = 8 * bin(c) /\ c \in Nat /\ c > 0
<1> SUFFICES ASSUME NEW c \in Chunks
             PROVE  bin(c) \in Bins /\ ChunkSize[c] = 8 * bin(c) /\ c \in Nat /\ c > 0
  OBVIOUS
<1>1. PICK x \in Nat : x = ChunkSize[c]
  BY SmallAssumption
<1>2. x % 8 = 0 /\ x \div 8 < 32 /\ bin(c) = x \div 8
  BY <1>1, SmallAssumption DEF bin, small_index, SMALLBIN_SHIFT, NSMALLBINS
<1>3. x \div 8 \in Bins /\ x = 8 * (x \div 8)
  BY <1>2 DEF Bins
<1> QED
  BY <1>1, <1>2, <1>3, SmallAssumption

\* and headers are apart, also from chunks.
LEMMA HeaderFacts ==
  /\ Headers = {smallbin_at(i) : i \in Bins}
  /\ \A i, h \in Bins : smallbin_at(i) = smallbin_at(h) => i = h
  /\ \A i \in Bins : smallbin_at(i) \in Headers /\ smallbin_at(i) \notin Chunks
<1>1. Headers = {smallbin_at(i) : i \in Bins}
  BY DEF Headers, NSMALLBINS, Bins
<1>2. \A i \in Bins : smallbin_at(i) \in Int /\ smallbin_at(i) < 0
  BY DEF smallbin_at, Bins
<1>3. \A i, h \in Bins : smallbin_at(i) = smallbin_at(h) => i = h
  BY DEF smallbin_at, Bins
<1>4. \A i \in Bins : smallbin_at(i) \in Headers /\ smallbin_at(i) \notin Chunks
  <2> TAKE i \in Bins
  <2>1. smallbin_at(i) \in Headers
    BY <1>1
  <2>2. \A c \in Chunks : c > 0 /\ c \in Nat
    BY BinFacts
  <2> QED
    BY <1>2, <2>1, <2>2
<1> QED
  BY <1>1, <1>3, <1>4

\* A ring is a list of chunks.
LEMMA RingFacts ==
  ASSUME NEW L, IsBins(L), NEW i \in Bins
  PROVE  /\ L[i] \in Seq(Chunks) /\ Len(L[i]) \in Nat /\ DOMAIN L[i] = 1..Len(L[i])
         /\ \A j \in 1..Len(L[i]) : L[i][j] \in Chunks /\ L[i][j] \in Members(L) /\ bin(L[i][j]) = i
         /\ L[i] = << >> <=> Len(L[i]) = 0
         /\ \A j : At(L, i, j) \in Members(L) \cup {smallbin_at(i)}
<1>1. L[i] \in Seq(Chunks)
  BY DEF IsBins
<1>2. Len(L[i]) \in Nat /\ DOMAIN L[i] = 1..Len(L[i]) /\ (L[i] = << >> <=> Len(L[i]) = 0)
  BY <1>1
<1>3. \A j \in 1..Len(L[i]) : L[i][j] \in Chunks
  BY <1>1
<1>4. \A j \in 1..Len(L[i]) : L[i][j] \in Members(L) /\ bin(L[i][j]) = i
  BY <1>3 DEF IsBins, Members
<1> QED
  BY <1>1, <1>2, <1>3, <1>4 DEF At

\* Places of rings are apart but for the header, which is first and last.
LEMMA PlacesApart ==
  ASSUME NEW L, IsBins(L), NEW i \in Bins
  PROVE  /\ \A j, l \in 0..Len(L[i]) : At(L, i, j) = At(L, i, l) => j = l
         /\ \A j, l \in 1..(Len(L[i]) + 1) : At(L, i, j) = At(L, i, l) => j = l
         /\ \A h \in Bins : \A j, l : At(L, i, j) = At(L, h, l) => i = h
<1>1. PICK n \in Nat : n = Len(L[i])
  BY RingFacts
<1>2. \A j \in 1..n : At(L, i, j) = L[i][j] /\ L[i][j] # smallbin_at(i)
  BY <1>1, RingFacts, HeaderFacts DEF At
<1>3. \A j, l \in 1..n : At(L, i, j) = At(L, i, l) => j = l
  BY <1>1, <1>2 DEF IsBins
<1>4. At(L, i, 0) = smallbin_at(i) /\ At(L, i, n + 1) = smallbin_at(i)
  BY <1>1 DEF At
<1>5. \A j \in 0..n : j = 0 \/ j \in 1..n
  OBVIOUS
<1>6. \A j \in 1..(n + 1) : j = n + 1 \/ j \in 1..n
  OBVIOUS
<1>7. \A j, l \in 0..n : At(L, i, j) = At(L, i, l) => j = l
  BY <1>2, <1>3, <1>4, <1>5
<1>8. \A j, l \in 1..(n + 1) : At(L, i, j) = At(L, i, l) => j = l
  BY <1>2, <1>3, <1>4, <1>6
<1>9. ASSUME NEW h \in Bins, NEW j, NEW l, At(L, i, j) = At(L, h, l) PROVE i = h
  <2>1. CASE j \in 1..Len(L[i])
    <3>1. At(L, i, j) \in Chunks /\ bin(At(L, i, j)) = i
      BY <2>1, RingFacts DEF At
    <3>2. ASSUME l \notin 1..Len(L[h]) PROVE FALSE
      <4>1. At(L, h, l) = smallbin_at(h)
        BY <3>2 DEF At
      <4> QED
        BY <1>9, <3>1, <4>1, HeaderFacts
    <3>3. bin(At(L, h, l)) = h
      BY <3>2, RingFacts DEF At
    <3> QED
      BY <1>9, <3>1, <3>3
  <2>2. CASE j \notin 1..Len(L[i])
    <3>1. At(L, i, j) = smallbin_at(i)
      BY <2>2 DEF At
    <3>2. ASSUME l \in 1..Len(L[h]) PROVE FALSE
      <4>1. At(L, h, l) = L[h][l]
        BY <3>2 DEF At
      <4>2. L[h][l] \in Chunks
        BY <3>2, RingFacts
      <4> QED
        BY <1>9, <3>1, <4>1, <4>2, HeaderFacts
    <3>3. At(L, h, l) = smallbin_at(h)
      BY <3>2 DEF At
    <3> QED
      BY <1>9, <3>1, <3>3, HeaderFacts
  <2> QED
    BY <2>1, <2>2
<1> QED
  BY <1>1, <1>7, <1>8, <1>9

\* What the links of B lead back to from header b, as Ring follows them.
IsBack(f, B, b, n) == f = [j \in 0..n |-> IF j = 0 THEN b ELSE B[f[j - 1]]]

\* Following the links from a header yields some chain,
LEMMA BackExists ==
  ASSUME NEW B, NEW b, NEW n \in Nat
  PROVE  \E f : IsBack(f, B, b, n)
<1> DEFINE T == {m \in Nat : \E f : IsBack(f, B, b, m)}
<1>1. 0 \in T
  <2>1. IsBack([j \in 0..0 |-> b], B, b, 0)
    BY DEF IsBack
  <2> QED
    BY <2>1
<1>2. ASSUME NEW m \in 1..n, m - 1 \in T PROVE m \in T
  <2>1. PICK f : IsBack(f, B, b, m - 1)
    BY <1>2
  <2>2. PICK g : g = [j \in 0..m |-> IF j = m THEN B[f[m - 1]] ELSE f[j]]
    OBVIOUS
  <2>3. \A j \in 0..(m - 1) : f[j] = IF j = 0 THEN b ELSE B[f[j - 1]]
    BY <2>1 DEF IsBack
  <2>4. \A j \in 0..m : g[j] = IF j = 0 THEN b ELSE B[g[j - 1]]
    BY <2>2, <2>3
  <2>5. IsBack(g, B, b, m)
    BY <2>2, <2>4 DEF IsBack
  <2> QED
    BY <2>5
<1> HIDE DEF T
<1>3. n \in T
  BY <1>1, <1>2, Upward
<1> QED
  BY <1>3 DEF T

\* The recursive function is them.
BackOf(B, b, n) == LET back[j \in 0..n] == IF j = 0 THEN b ELSE B[back[j - 1]] IN back

\* and the recursive function yields that chain.
LEMMA BackOfIs ==
  ASSUME NEW B, NEW b, NEW n \in Nat
  PROVE  IsBack(BackOf(B, b, n), B, b, n)
<1>1. BackOf(B, b, n) = CHOOSE f : IsBack(f, B, b, n)
  BY DEF BackOf, IsBack
<1> QED
  BY <1>1, BackExists

\* In linked bins the j-th of them is at the j-th place of the ring.
LEMMA BackIsAt ==
  ASSUME NEW L, IsBins(L), NEW mp, NEW F, NEW B, Linked(L, mp, F, B), NEW i \in mp,
         NEW n \in Nat, n > Len(L[i]), NEW f, IsBack(f, B, smallbin_at(i), n)
  PROVE  \A j \in 0..(Len(L[i]) + 1) : f[j] = At(L, i, j)
<1>1. i \in Bins
  BY DEF Linked
<1>2. PICK len \in Nat : len = Len(L[i])
  BY <1>1, RingFacts
<1> DEFINE T == {j \in 0..(len + 1) : f[j] = At(L, i, j)}
<1>3. \A j \in 0..n : f[j] = IF j = 0 THEN smallbin_at(i) ELSE B[f[j - 1]]
  BY DEF IsBack
<1>4. 0 \in T
  BY <1>2, <1>3 DEF At
<1>5. ASSUME NEW j \in 1..(len + 1), j - 1 \in T PROVE j \in T
  <2>1. f[j - 1] = At(L, i, j - 1)
    BY <1>5
  <2>2. j - 1 \in 0..len /\ (j - 1) + 1 = j
    BY <1>2
  <2>3. B[At(L, i, j - 1)] = At(L, i, j)
    BY <1>2, <2>2 DEF Linked
  <2>4. j \in 0..n /\ j # 0
    BY <1>2
  <2> QED
    BY <1>3, <2>1, <2>3, <2>4
<1>6. len + 1 \in Nat
  OBVIOUS
<1> HIDE DEF T
<1>7. \A j \in 0..(len + 1) : j \in T
  BY <1>4, <1>5, <1>6, Upward
<1> QED
  BY <1>2, <1>7 DEF T

\* No ring has more chunks than there are.
LEMMA RingFits ==
  ASSUME NEW L, IsBins(L), NEW i \in Bins
  PROVE  Cardinality(Chunks) \in Nat /\ Len(L[i]) <= Cardinality(Chunks)
<1>1. PICK n \in Nat : n = Len(L[i])
  BY RingFacts
<1>2. L[i] \in [1..n -> Chunks]
  BY <1>1, RingFacts
<1>3. IsInjective(L[i])
  BY <1>1, <1>2 DEF IsBins, IsInjective
<1>4. L[i] \in Injection(1..n, Chunks)
  BY <1>2, <1>3 DEF Injection
<1>5. IsFiniteSet(Chunks)
  BY SmallAssumption
<1>6. Cardinality(1..n) <= Cardinality(Chunks)
  BY <1>4, <1>5, FS_Injection
<1>7. Cardinality(1..n) = n
  BY FS_Interval
<1> QED
  BY <1>1, <1>5, <1>6, <1>7, FS_CardinalityType

\* The rings that the links make.
RingOf(i, mp, B) ==
  LET b == smallbin_at(i)
      n == Cardinality(Chunks) + 1
      back[j \in 0..n] == IF j = 0 THEN b ELSE B[back[j - 1]]
      round == Min({j \in 1..n : back[j] = b} \cup {n})
  IN  IF i \notin mp THEN << >> ELSE [j \in 1..(round - 1) |-> back[j]]

\* Where chunks are in bins as L says, they are what the links lead back to.
LEMMA RingOfFound ==
  ASSUME NEW L, IsBins(L), NEW mp, NEW F, NEW B, Linked(L, mp, F, B), NEW i \in Bins
  PROVE  RingOf(i, mp, B) = L[i]
<1>1. CASE i \notin mp
  <2>1. L[i] = << >>
    BY <1>1 DEF Linked
  <2> QED
    BY <1>1, <2>1 DEF RingOf
<1>2. CASE i \in mp
  <2>1. PICK b : b = smallbin_at(i)
    OBVIOUS
  <2>2. PICK n \in Nat : n = Cardinality(Chunks) + 1 /\ n > Len(L[i])
    BY RingFits, RingFacts
  <2>3. PICK f : /\ IsBack(f, B, b, n)
                 /\ RingOf(i, mp, B) =
                      [j \in 1..(Min({l \in 1..n : f[l] = b} \cup {n}) - 1) |-> f[j]]
    <3>1. RingOf(i, mp, B) =
            [j \in 1..(Min({l \in 1..n : BackOf(B, b, n)[l] = b} \cup {n}) - 1) |-> BackOf(B, b, n)[j]]
      BY <1>2, <2>1, <2>2 DEF RingOf, BackOf
    <3> QED
      BY <3>1, BackOfIs
  <2>4. PICK len \in Nat : len = Len(L[i])
    BY RingFacts
  <2>5. \A j \in 0..(len + 1) : f[j] = At(L, i, j)
    BY <1>2, <2>1, <2>2, <2>3, <2>4, BackIsAt
  <2>6. Min({l \in 1..n : f[l] = b} \cup {n}) = len + 1
    <3>1. len + 1 \in 1..n /\ f[len + 1] = b
      BY <2>1, <2>2, <2>4, <2>5 DEF At
    <3>2. \A l \in 1..len : f[l] # b
      BY <2>1, <2>4, <2>5, RingFacts, HeaderFacts DEF At
    <3>3. \A l \in {l \in 1..n : f[l] = b} \cup {n} : len + 1 <= l
      BY <2>2, <2>4, <3>1, <3>2
    <3>4. len + 1 \in {l \in 1..n : f[l] = b} \cup {n}
      BY <3>1
    <3>5. ({l \in 1..n : f[l] = b} \cup {n}) \in SUBSET Nat
      OBVIOUS
    <3> QED
      BY <3>3, <3>4, <3>5, MinIs
  <2>7. RingOf(i, mp, B) = [j \in 1..len |-> f[j]]
    BY <2>3, <2>6
  <2>8. \A j \in 1..len : f[j] = L[i][j]
    BY <2>4, <2>5 DEF At
  <2>9. L[i] = [j \in 1..len |-> L[i][j]]
    BY <2>4, RingFacts
  <2> QED
    BY <2>7, <2>8, <2>9
<1> QED
  BY <1>1, <1>2

Rings == [i \in Bins |-> Ring(i)]

\* Where chunks are in bins as L says, Ring finds them, and
LEMMA RingsFound ==
  ASSUME NEW L, IsBins(L), Linked(L, smallmap, fd, bk)
  PROVE  Rings = L
<1>1. \A i \in Bins : Ring(i) = RingOf(i, smallmap, bk)
  BY DEF Ring, RingOf
<1>2. \A i \in Bins : Ring(i) = L[i]
  BY <1>1, RingOfFound
<1> QED
  BY <1>2 DEF Rings, IsBins

\* the same of the state after a step.
LEMMA RingsFoundNext ==
  ASSUME NEW L, IsBins(L), Linked(L, smallmap', fd', bk')
  PROVE  Rings' = L
<1>1. \A i \in Bins : Ring(i)' = RingOf(i, smallmap', bk')
  BY DEF Ring, RingOf
<1>2. \A i \in Bins : Ring(i)' = L[i]
  BY <1>1, RingOfFound
<1> QED
  BY <1>2 DEF Rings, IsBins

-----------------------------------------------------------------------------
(* A chunk goes into its bin *)

Pushed(L, p) == [L EXCEPT ![bin(p)] = Append(@, p)]

\* It is the newest of its bin, and all others stay as they are.
LEMMA PushedBins ==
  ASSUME NEW L, IsBins(L), NEW p \in Chunks, p \notin Members(L), NEW M, M = Pushed(L, p)
  PROVE  /\ IsBins(M) /\ Members(M) = Members(L) \cup {p}
         /\ \A h \in Bins : h # bin(p) => M[h] = L[h]
         /\ Len(M[bin(p)]) = Len(L[bin(p)]) + 1
         /\ \A j \in 0..Len(L[bin(p)]) : At(M, bin(p), j) = At(L, bin(p), j)
         /\ At(M, bin(p), Len(L[bin(p)]) + 1) = p
<1>1. PICK i \in Bins : i = bin(p)
  BY BinFacts
<1>2. PICK n \in Nat : n = Len(L[i])
  BY RingFacts
<1>3. L[i] \in Seq(Chunks) /\ L \in [Bins -> Seq(Chunks)]
  BY DEF IsBins
<1>4. /\ Append(L[i], p) \in Seq(Chunks) /\ Len(Append(L[i], p)) = n + 1
      /\ \A j \in 1..n : Append(L[i], p)[j] = L[i][j]
      /\ Append(L[i], p)[n + 1] = p
  BY <1>2, <1>3, AppendProperties
<1>5. /\ M \in [Bins -> Seq(Chunks)] /\ M[i] = Append(L[i], p)
      /\ \A h \in Bins : h # i => M[h] = L[h]
  BY <1>1, <1>3, <1>4 DEF Pushed
<1>6. /\ Len(M[i]) = n + 1 /\ M[i][n + 1] = p
      /\ \A j \in 1..n : M[i][j] = L[i][j]
  BY <1>4, <1>5
<1>7. \A j \in 1..(n + 1) : j = n + 1 \/ j \in 1..n
  OBVIOUS
<1>8. \A j \in 1..n : L[i][j] # p
  BY <1>2, RingFacts
<1>9. IsBins(M)
  <2>1. ASSUME NEW h \in Bins, NEW j \in 1..Len(M[h]) PROVE bin(M[h][j]) = h
    <3>1. CASE h = i
      BY <1>1, <1>2, <1>6, <1>7, <3>1 DEF IsBins
    <3>2. CASE h # i
      BY <1>5, <3>2 DEF IsBins
    <3> QED
      BY <3>1, <3>2
  <2>2. ASSUME NEW h \in Bins, NEW j \in 1..Len(M[h]), NEW l \in 1..Len(M[h]), M[h][j] = M[h][l]
        PROVE  j = l
    <3>1. CASE h = i
      BY <1>2, <1>6, <1>7, <1>8, <2>2, <3>1 DEF IsBins
    <3>2. CASE h # i
      BY <1>5, <2>2, <3>2 DEF IsBins
    <3> QED
      BY <3>1, <3>2
  <2> QED
    BY <1>5, <2>1, <2>2 DEF IsBins
<1>10. Members(M) = Members(L) \cup {p}
  <2>1. p \in Members(M)
    BY <1>6 DEF Members
  <2>2. \A c \in Members(L) : c \in Members(M)
    <3> SUFFICES ASSUME NEW c \in Members(L) PROVE c \in Members(M)
      OBVIOUS
    <3>1. PICK h \in Bins : \E j \in 1..Len(L[h]) : c = L[h][j]
      BY DEF Members
    <3>2. PICK j \in 1..Len(L[h]) : c = L[h][j]
      BY <3>1
    <3>3. j \in 1..Len(M[h]) /\ c = M[h][j]
      BY <1>2, <1>5, <1>6, <3>2
    <3> QED
      BY <3>3 DEF Members
  <2>3. \A c \in Members(M) : c \in Members(L) \/ c = p
    <3> SUFFICES ASSUME NEW c \in Members(M), c # p PROVE c \in Members(L)
      OBVIOUS
    <3>1. PICK h \in Bins : \E j \in 1..Len(M[h]) : c = M[h][j]
      BY DEF Members
    <3>2. PICK j \in 1..Len(M[h]) : c = M[h][j]
      BY <3>1
    <3>3. j \in 1..Len(L[h]) /\ c = L[h][j]
      BY <1>2, <1>5, <1>6, <1>7, <3>2
    <3> QED
      BY <3>3 DEF Members
  <2> QED
    BY <2>1, <2>2, <2>3 DEF Members
<1>11. \A j \in 0..n : At(M, i, j) = At(L, i, j)
  <2>1. \A j \in 0..n : j = 0 \/ j \in 1..n
    OBVIOUS
  <2>2. \A j \in 1..n : j \in 1..(n + 1)
    OBVIOUS
  <2> QED
    BY <1>2, <1>6, <2>1, <2>2 DEF At
<1>12. At(M, i, n + 1) = p
  BY <1>6 DEF At
<1> QED
  BY <1>1, <1>2, <1>5, <1>6, <1>9, <1>10, <1>11, <1>12

\* The links insert_small_chunk stores are those of the bins with the chunk.
LEMMA PushedLinks ==
  ASSUME NEW L, IsBins(L), NEW mp, NEW F, NEW B, Linked(L, mp, F, B),
         NEW p \in Chunks, p \notin Members(L),
         NEW i \in Bins, i = bin(p), NEW b, b = smallbin_at(i),
         NEW f, f = IF i \in mp THEN F[b] ELSE b
  PROVE  Linked(Pushed(L, p), mp \cup {i}, Put(Put(F, b, p), p, f), Put(Put(B, f, p), p, b))
<1>1. PICK M : M = Pushed(L, p)
  OBVIOUS
<1> DEFINE D == Headers \cup Members(L)
<1>2. PICK F2 : F2 = Put(Put(F, b, p), p, f)
  OBVIOUS
<1>3. PICK B2 : B2 = Put(Put(B, f, p), p, b)
  OBVIOUS
<1>4. PICK n \in Nat : n = Len(L[i])
  BY RingFacts
<1>5. /\ IsBins(M) /\ Members(M) = Members(L) \cup {p}
      /\ \A h \in Bins : h # i => M[h] = L[h]
      /\ Len(M[i]) = n + 1
      /\ \A j \in 0..n : At(M, i, j) = At(L, i, j)
      /\ At(M, i, n + 1) = p
  BY <1>1, <1>4, PushedBins
<1>6. At(M, i, n + 2) = b /\ At(L, i, n + 1) = b /\ At(L, i, 0) = b /\ At(M, i, 0) = b
  BY <1>4, <1>5 DEF At
<1>7. f = At(L, i, n)
  <2>1. CASE i \in mp
    BY <1>4, <1>6, <2>1 DEF Linked
  <2>2. CASE i \notin mp
    <3>1. n = 0
      BY <1>4, <2>2, RingFacts DEF Linked
    <3> QED
      BY <1>6, <2>2, <3>1
  <2> QED
    BY <2>1, <2>2
<1>8. /\ b \in Headers /\ b # p /\ f # p /\ f \in Headers \cup Members(L)
  BY <1>7, RingFacts, HeaderFacts
<1>9. /\ DOMAIN F2 = Headers \cup Members(M) /\ DOMAIN B2 = Headers \cup Members(M)
      /\ F2[p] = f /\ F2[b] = p /\ B2[p] = b /\ B2[f] = p
      /\ \A c \in Headers \cup Members(L) : c # b => F2[c] = F[c]
      /\ \A c \in Headers \cup Members(L) : c # f => B2[c] = B[c]
  <2>1. DOMAIN F = D /\ DOMAIN B = D /\ b \in D /\ f \in D /\ p \notin D
    BY <1>8, HeaderFacts DEF Linked
  <2>2. Headers \cup Members(M) = D \cup {p}
    BY <1>5
  <2> HIDE DEF D
  <2>3. DOMAIN F2 = D \cup {p} /\ F2[p] = f /\ F2[b] = p /\ \A c \in D : c # b => F2[c] = F[c]
    <3>1. PICK E : E = Put(F, b, p)
      OBVIOUS
    <3>2. DOMAIN E = D /\ E[b] = p /\ \A c \in D : c # b => E[c] = F[c]
      BY <2>1, <3>1 DEF Put
    <3> QED
      BY <1>2, <2>1, <3>1, <3>2 DEF Put
  <2>4. DOMAIN B2 = D \cup {p} /\ B2[p] = b /\ B2[f] = p /\ \A c \in D : c # f => B2[c] = B[c]
    <3>1. PICK E : E = Put(B, f, p)
      OBVIOUS
    <3>2. DOMAIN E = D /\ E[f] = p /\ \A c \in D : c # f => E[c] = B[c]
      BY <2>1, <3>1 DEF Put
    <3> QED
      BY <1>3, <2>1, <3>1, <3>2 DEF Put
  <2> QED
    BY <2>2, <2>3, <2>4 DEF D
<1>10. \A h \in Bins : \A j : h # i => F2[At(L, h, j)] = F[At(L, h, j)] /\ B2[At(L, h, j)] = B[At(L, h, j)]
  <2> SUFFICES ASSUME NEW h \in Bins, NEW j, h # i
               PROVE  F2[At(L, h, j)] = F[At(L, h, j)] /\ B2[At(L, h, j)] = B[At(L, h, j)]
    OBVIOUS
  <2>1. At(L, h, j) # b /\ At(L, h, j) # f
    BY <1>6, <1>7, PlacesApart
  <2>2. At(L, h, j) \in Headers \cup Members(L)
    BY RingFacts, HeaderFacts
  <2> QED
    BY <1>9, <2>1, <2>2
<1>11. mp \cup {i} = {h \in Bins : M[h] # << >>}
  <2>1. M[i] # << >>
    BY <1>4, <1>5, RingFacts
  <2> QED
    BY <1>5, <2>1 DEF Linked
<1>12. ASSUME NEW j \in 0..(n + 1)
       PROVE  B2[At(M, i, j)] = At(M, i, j + 1) /\ F2[At(M, i, j + 1)] = At(M, i, j)
  <2>1. CASE j = n + 1
    BY <1>5, <1>6, <1>9, <2>1
  <2>2. CASE j = n
    BY <1>5, <1>7, <1>9, <2>2
  <2>3. CASE j \in 0..(n - 1)
    <3>1. j \in 0..n /\ j + 1 \in 0..n /\ j # n /\ j + 1 \in 1..(n + 1) /\ j + 1 # n + 1 /\ n + 1 \in 1..(n + 1)
      BY <2>3
    <3>2. At(M, i, j) = At(L, i, j) /\ At(M, i, j + 1) = At(L, i, j + 1)
      BY <1>5, <3>1
    <3>3. At(L, i, j) # f /\ At(L, i, j + 1) # b
      BY <1>4, <1>6, <1>7, <3>1, PlacesApart
    <3>4. At(L, i, j) \in Headers \cup Members(L) /\ At(L, i, j + 1) \in Headers \cup Members(L)
      BY RingFacts, HeaderFacts
    <3>5. i \in mp
      BY <1>4, <2>3, RingFacts DEF Linked
    <3>6. B[At(L, i, j)] = At(L, i, j + 1) /\ F[At(L, i, j + 1)] = At(L, i, j)
      BY <1>4, <3>1, <3>5 DEF Linked
    <3> QED
      BY <1>9, <3>2, <3>3, <3>4, <3>6
  <2> QED
    BY <2>1, <2>2, <2>3
<1>13. ASSUME NEW h \in mp \cup {i}, NEW j \in 0..Len(M[h])
       PROVE  B2[At(M, h, j)] = At(M, h, j + 1) /\ F2[At(M, h, j + 1)] = At(M, h, j)
  <2>1. CASE h = i
    BY <1>5, <1>12, <2>1
  <2>2. CASE h # i
    <3>1. h \in Bins /\ h \in mp
      BY <2>2 DEF Linked
    <3>2. M[h] = L[h]
      BY <1>5, <2>2, <3>1
    <3>3. \A l : F2[At(L, h, l)] = F[At(L, h, l)] /\ B2[At(L, h, l)] = B[At(L, h, l)]
      BY <1>10, <2>2, <3>1
    <3>4. At(M, h, j) = At(L, h, j) /\ At(M, h, j + 1) = At(L, h, j + 1) /\ j \in 0..Len(L[h])
      BY <3>2 DEF At
    <3>5. B[At(L, h, j)] = At(L, h, j + 1) /\ F[At(L, h, j + 1)] = At(L, h, j)
      BY <3>1, <3>4 DEF Linked
    <3> QED
      BY <3>3, <3>4, <3>5
  <2> QED
    BY <2>1, <2>2
<1> QED
  BY <1>1, <1>2, <1>3, <1>9, <1>11, <1>13 DEF Linked

-----------------------------------------------------------------------------
(* A chunk leaves its bin *)

\* The first m of a list,
LEMMA FirstFacts ==
  ASSUME NEW q \in Seq(Chunks), NEW m \in Nat, m <= Len(q)
  PROVE  /\ SubSeq(q, 1, m) \in Seq(Chunks) /\ Len(SubSeq(q, 1, m)) = m
         /\ \A j \in 1..m : SubSeq(q, 1, m)[j] = q[j]
<1>1. \A j \in 1..m : q[j] \in Chunks
  BY LenProperties, ElementOfSeq
<1>2. /\ SubSeq(q, 1, m) \in Seq(Chunks) /\ Len(SubSeq(q, 1, m)) = IF 1 <= m THEN m - 1 + 1 ELSE 0
      /\ \A j \in 1..(m - 1 + 1) : SubSeq(q, 1, m)[j] = q[1 + j - 1]
  BY <1>1, SubSeqProperties
<1>3. m - 1 + 1 = m /\ (1 <= m \/ m = 0) /\ \A j \in 1..m : 1 + j - 1 = j
  OBVIOUS
<1> QED
  BY <1>2, <1>3

\* and what is left of it from the a-th on,
LEMMA LastFacts ==
  ASSUME NEW q \in Seq(Chunks), NEW a \in Nat, a > 0, a <= Len(q) + 1
  PROVE  /\ SubSeq(q, a, Len(q)) \in Seq(Chunks) /\ Len(SubSeq(q, a, Len(q))) = Len(q) - (a - 1)
         /\ \A j \in 1..(Len(q) - (a - 1)) : SubSeq(q, a, Len(q))[j] = q[(a - 1) + j]
<1>1. PICK n \in Nat : n = Len(q)
  OBVIOUS
<1>2. \A j \in a..n : q[j] \in Chunks
  <2>1. \A j \in 1..n : q[j] \in Chunks
    BY <1>1, ElementOfSeq
  <2>2. \A j \in a..n : j \in 1..n
    OBVIOUS
  <2> QED
    BY <2>1, <2>2
<1>3. /\ SubSeq(q, a, n) \in Seq(Chunks) /\ Len(SubSeq(q, a, n)) = IF a <= n THEN n - a + 1 ELSE 0
      /\ \A j \in 1..(n - a + 1) : SubSeq(q, a, n)[j] = q[a + j - 1]
  BY <1>2, SubSeqProperties
<1>4. /\ n - a + 1 = n - (a - 1) /\ (a <= n \/ n - (a - 1) = 0)
      /\ \A j \in 1..(n - (a - 1)) : a + j - 1 = (a - 1) + j
  BY <1>1
<1> QED
  BY <1>1, <1>3, <1>4

\* with one between them.
LEMMA Around ==
  ASSUME NEW n \in Nat, NEW x \in 1..n
  PROVE  \E m \in Nat, r \in Nat : m = x - 1 /\ m <= n /\ n = x + r /\ n - 1 = m + r
<1>1. x - 1 \in Nat /\ n - x \in Nat
  OBVIOUS
<1>2. x - 1 <= n /\ n = x + (n - x) /\ n - 1 = (x - 1) + (n - x)
  OBVIOUS
<1> QED
  BY <1>1, <1>2

\* What they make without it.
Cut(q, x) == SubSeq(q, 1, x - 1) \o SubSeq(q, x + 1, Len(q))

\* What is before the place keeps its place, what is after moves up by one.
LEMMA CutFacts ==
  ASSUME NEW q \in Seq(Chunks), NEW x \in 1..Len(q)
  PROVE  /\ Cut(q, x) \in Seq(Chunks) /\ Len(Cut(q, x)) = Len(q) - 1
         /\ \A j \in 1..(Len(q) - 1) : Cut(q, x)[j] = q[IF j < x THEN j ELSE j + 1]
<1>1. PICK n \in Nat : n = Len(q)
  OBVIOUS
<1>2. PICK m \in Nat, r \in Nat : m = x - 1 /\ m <= n /\ n = x + r /\ n - 1 = m + r
  BY <1>1, Around
<1>3. x \in Nat /\ x = m + 1
  BY <1>1, <1>2
<1>4. PICK d \in Seq(Chunks) : d = SubSeq(q, 1, x - 1) /\ Len(d) = m /\ \A j \in 1..m : d[j] = q[j]
  BY <1>1, <1>2, FirstFacts
<1>5. PICK e \in Seq(Chunks) : e = SubSeq(q, x + 1, Len(q)) /\ Len(e) = r /\ \A j \in 1..r : e[j] = q[x + j]
  <2>1. PICK a \in Nat : a = x + 1
    BY <1>3
  <2>2. a > 0 /\ a <= Len(q) + 1
    BY <1>1, <1>2, <1>3, <2>1
  <2>3. /\ SubSeq(q, a, Len(q)) \in Seq(Chunks) /\ Len(SubSeq(q, a, Len(q))) = Len(q) - (a - 1)
        /\ \A j \in 1..(Len(q) - (a - 1)) : SubSeq(q, a, Len(q))[j] = q[(a - 1) + j]
    BY <2>2, LastFacts
  <2>4. a - 1 = x /\ n - x = r
    BY <1>2, <1>3, <2>1
  <2>5. Len(q) - (a - 1) = r
    BY <1>1, <2>4
  <2>6. PICK e \in Seq(Chunks) : e = SubSeq(q, a, Len(q))
    BY <2>3
  <2>7. Len(e) = r /\ \A j \in 1..r : e[j] = q[x + j]
    BY <2>3, <2>4, <2>5, <2>6
  <2> QED
    BY <2>1, <2>6, <2>7
<1>6. /\ Cut(q, x) \in Seq(Chunks) /\ Len(Cut(q, x)) = m + r
      /\ \A j \in 1..(m + r) : Cut(q, x)[j] = IF j <= m THEN d[j] ELSE e[j - m]
  <2>1. Cut(q, x) = d \o e
    BY <1>4, <1>5 DEF Cut
  <2>2. /\ d \o e \in Seq(Chunks) /\ Len(d \o e) = Len(d) + Len(e)
        /\ \A j \in 1..(Len(d) + Len(e)) : (d \o e)[j] = IF j <= Len(d) THEN d[j] ELSE e[j - Len(d)]
    BY ConcatProperties
  <2>3. Len(d) = m /\ Len(e) = r
    BY <1>4, <1>5
  <2> QED
    BY <2>1, <2>2, <2>3
<1>7. ASSUME NEW j \in 1..(m + r) PROVE Cut(q, x)[j] = q[IF j < x THEN j ELSE j + 1]
  <2>1. CASE j <= m
    BY <1>3, <1>4, <1>6, <2>1
  <2>2. CASE ~ (j <= m)
    <3>1. PICK l \in 1..r : l = j - m /\ x + l = j + 1
      BY <1>3, <2>2
    <3>2. Cut(q, x)[j] = e[l] /\ e[l] = q[x + l]
      BY <1>5, <1>6, <2>2, <3>1
    <3>3. ~ (j < x)
      BY <1>3, <2>2
    <3> QED
      BY <3>1, <3>2, <3>3
  <2> QED
    BY <2>1, <2>2
<1> QED
  BY <1>1, <1>2, <1>6, <1>7

Removed(L, i, x) == [L EXCEPT ![i] = Cut(@, x)]

\* A place of the ring after the chunk has left, as a place before.
Skip(j, x) == IF j < x THEN j ELSE j + 1

\* The others stay in their order.
LEMMA RemovedBins ==
  ASSUME NEW L, IsBins(L), NEW i \in Bins, NEW n \in Nat, n = Len(L[i]), NEW x \in Nat, x \in 1..n,
         NEW M, M = Removed(L, i, x)
  PROVE  /\ IsBins(M) /\ Members(M) = Members(L) \ {L[i][x]}
         /\ \A h \in Bins : h # i => M[h] = L[h]
         /\ Len(M[i]) = n - 1
         /\ \A j \in 0..n : At(M, i, j) = At(L, i, Skip(j, x))
<1>1. L[i] \in Seq(Chunks) /\ L \in [Bins -> Seq(Chunks)]
  BY DEF IsBins
<1>2. PICK c : c = Cut(L[i], x)
  OBVIOUS
<1>3. /\ c \in Seq(Chunks) /\ Len(c) = n - 1
      /\ \A j \in 1..(n - 1) : c[j] = L[i][IF j < x THEN j ELSE j + 1]
  BY <1>1, <1>2, CutFacts
<1>4. /\ M \in [Bins -> Seq(Chunks)] /\ M[i] = c
      /\ \A h \in Bins : h # i => M[h] = L[h]
  BY <1>1, <1>2, <1>3 DEF Removed
<1>5. \A j \in 1..(n - 1) : M[i][j] = L[i][Skip(j, x)]
  BY <1>3, <1>4 DEF Skip
<1>6. \A j \in 1..(n - 1) : Skip(j, x) \in 1..n /\ Skip(j, x) # x
  BY DEF Skip
<1>7. \A j, l \in 1..(n - 1) : Skip(j, x) = Skip(l, x) => j = l
  BY DEF Skip
<1>8. \A j \in 1..n : j # x => \E l \in 1..(n - 1) : Skip(l, x) = j
  <2> SUFFICES ASSUME NEW j \in 1..n, j # x PROVE \E l \in 1..(n - 1) : Skip(l, x) = j
    OBVIOUS
  <2>1. CASE j < x
    <3>1. j \in 1..(n - 1) /\ Skip(j, x) = j
      BY <2>1 DEF Skip
    <3> QED
      BY <3>1
  <2>2. CASE ~ (j < x)
    <3>1. j - 1 \in 1..(n - 1) /\ Skip(j - 1, x) = j
      BY <2>2 DEF Skip
    <3> QED
      BY <3>1
  <2> QED
    BY <2>1, <2>2
<1>9. Len(M[i]) = n - 1
  BY <1>3, <1>4
<1>10. IsBins(M)
  <2>1. ASSUME NEW h \in Bins, NEW j \in 1..Len(M[h]) PROVE bin(M[h][j]) = h
    <3>1. CASE h = i
      <4>1. j \in 1..(n - 1)
        BY <1>9, <3>1
      <4>2. M[h][j] = L[i][Skip(j, x)] /\ Skip(j, x) \in 1..n
        BY <1>5, <1>6, <3>1, <4>1
      <4> QED
        BY <3>1, <4>2 DEF IsBins
    <3>2. CASE h # i
      BY <1>4, <3>2 DEF IsBins
    <3> QED
      BY <3>1, <3>2
  <2>2. ASSUME NEW h \in Bins, NEW j \in 1..Len(M[h]), NEW l \in 1..Len(M[h]), M[h][j] = M[h][l]
        PROVE  j = l
    <3>1. CASE h = i
      <4>1. j \in 1..(n - 1) /\ l \in 1..(n - 1)
        BY <1>9, <3>1
      <4>2. L[i][Skip(j, x)] = L[i][Skip(l, x)]
        BY <1>5, <2>2, <3>1, <4>1
      <4>3. Skip(j, x) = Skip(l, x)
        BY <1>6, <4>1, <4>2 DEF IsBins
      <4> QED
        BY <1>7, <4>1, <4>3
    <3>2. CASE h # i
      BY <1>4, <2>2, <3>2 DEF IsBins
    <3> QED
      BY <3>1, <3>2
  <2> QED
    BY <1>4, <2>1, <2>2 DEF IsBins
<1>11. Members(M) = Members(L) \ {L[i][x]}
  <2>1. ASSUME NEW c2 \in Members(M) PROVE c2 \in Members(L) /\ c2 # L[i][x]
    <3>1. PICK h \in Bins : \E j \in 1..Len(M[h]) : c2 = M[h][j]
      BY DEF Members
    <3>2. PICK j \in 1..Len(M[h]) : c2 = M[h][j]
      BY <3>1
    <3>3. CASE h = i
      <4>1. Skip(j, x) \in 1..n /\ Skip(j, x) # x /\ c2 = L[i][Skip(j, x)]
        BY <1>5, <1>6, <1>9, <3>2, <3>3
      <4> QED
        BY <4>1, RingFacts DEF IsBins
    <3>4. CASE h # i
      <4>1. j \in 1..Len(L[h]) /\ c2 = L[h][j]
        BY <1>4, <3>2, <3>4
      <4>2. bin(c2) = h /\ bin(L[i][x]) = i
        BY <4>1 DEF IsBins
      <4> QED
        BY <3>4, <4>1, <4>2, RingFacts
    <3> QED
      BY <3>3, <3>4
  <2>2. ASSUME NEW c2 \in Members(L), c2 # L[i][x] PROVE c2 \in Members(M)
    <3>1. PICK h \in Bins : \E j \in 1..Len(L[h]) : c2 = L[h][j]
      BY DEF Members
    <3>2. PICK j \in 1..Len(L[h]) : c2 = L[h][j]
      BY <3>1
    <3>3. CASE h = i
      <4>1. PICK l \in 1..(n - 1) : Skip(l, x) = j
        BY <1>8, <2>2, <3>2, <3>3
      <4>2. l \in 1..Len(M[i]) /\ c2 = M[i][l]
        BY <1>5, <1>9, <3>2, <3>3, <4>1
      <4> QED
        BY <4>2 DEF Members
    <3>4. CASE h # i
      <4>1. j \in 1..Len(M[h]) /\ c2 = M[h][j]
        BY <1>4, <3>2, <3>4
      <4> QED
        BY <4>1 DEF Members
    <3> QED
      BY <3>3, <3>4
  <2> QED
    BY <2>1, <2>2
<1>12. ASSUME NEW j \in 0..n PROVE At(M, i, j) = At(L, i, Skip(j, x))
  <2>1. CASE j \in 1..(n - 1)
    BY <1>5, <1>6, <1>9, <2>1 DEF At
  <2>2. CASE j \notin 1..(n - 1)
    <3>1. Skip(j, x) \notin 1..n
      BY <2>2 DEF Skip
    <3> QED
      BY <1>9, <2>2, <3>1 DEF At
  <2> QED
    BY <2>1, <2>2
<1> QED
  BY <1>4, <1>9, <1>10, <1>11, <1>12

\* The links unlink_small_chunk and unlink_first_small_chunk store are those of the
\* bins without the chunk.
LEMMA RemovedLinks ==
  ASSUME NEW L, IsBins(L), NEW mp, NEW F, NEW B, Linked(L, mp, F, B),
         NEW i \in mp, NEW n \in Nat, n = Len(L[i]), NEW x \in 1..n,
         NEW p, p = L[i][x], NEW f, f = At(L, i, x - 1), NEW b, b = At(L, i, x + 1),
         NEW F2, F2 = IF f = b THEN Without(F, p) ELSE Without(Put(F, b, f), p),
         NEW B2, B2 = IF f = b THEN Without(B, p) ELSE Without(Put(B, f, b), p)
  PROVE  Linked(Removed(L, i, x), IF f = b THEN mp \ {i} ELSE mp, F2, B2)
<1>1. PICK M : M = Removed(L, i, x)
  OBVIOUS
<1> DEFINE D == Headers \cup Members(L)
<1>2. i \in Bins /\ x \in Nat /\ x - 1 \in 0..n /\ x \in 0..n /\ x \in 1..(n + 1) /\ x + 1 \in 1..(n + 1)
      /\ x - 1 # x /\ x + 1 # x
  BY DEF Linked
<1>3. /\ IsBins(M) /\ Members(M) = Members(L) \ {p}
      /\ \A h \in Bins : h # i => M[h] = L[h]
      /\ Len(M[i]) = n - 1
      /\ \A j \in 0..n : At(M, i, j) = At(L, i, Skip(j, x))
  BY <1>1, <1>2, RemovedBins
<1>4. p = At(L, i, x) /\ p \in Members(L) /\ p \notin Headers
  BY <1>2, RingFacts, HeaderFacts DEF At
<1>5. f # p /\ b # p
  BY <1>2, <1>4, PlacesApart
<1>6. DOMAIN F = D /\ DOMAIN B = D /\ p \in D /\ f \in D /\ b \in D
  BY <1>2, <1>4, RingFacts, HeaderFacts DEF Linked
<1>7. Headers \cup Members(M) = D \ {p}
  BY <1>3, <1>4
<1>8. f = b <=> n = 1
  <2>1. ASSUME n = 1 PROVE f = b
    BY <2>1 DEF At
  <2>2. ASSUME f = b PROVE n = 1
    <3>1. CASE x = 1
      <4>1. At(L, i, n + 1) = At(L, i, x - 1)
        BY <3>1 DEF At
      <4>2. n + 1 = x + 1
        <5>1. At(L, i, n + 1) = At(L, i, x + 1)
          BY <2>2, <4>1
        <5>2. n + 1 \in 1..(n + 1)
          OBVIOUS
        <5> QED
          BY <1>2, <5>1, <5>2, PlacesApart
      <4>3. \A l, r \in Nat : l + 1 = r + 1 => l = r
        OBVIOUS
      <4>4. n = x
        BY <1>2, <4>2, <4>3
      <4> QED
        BY <3>1, <4>4
    <3>2. CASE x # 1
      <4>1. x - 1 \in 1..(n + 1)
        BY <3>2
      <4>2. x - 1 = x + 1
        BY <1>2, <2>2, <4>1, PlacesApart
      <4> QED
        BY <1>2, <4>2
    <3> QED
      BY <3>1, <3>2
  <2> QED
    BY <2>1, <2>2
<1>9. /\ DOMAIN F2 = D \ {p} /\ \A c \in D : c # b /\ c # p => F2[c] = F[c]
      /\ f # b => F2[b] = f
  <2> HIDE DEF D
  <2>1. CASE f = b
    BY <1>6, <2>1 DEF Without, Restrict
  <2>2. CASE f # b
    <3>1. PICK E : E = Put(F, b, f)
      OBVIOUS
    <3>2. DOMAIN E = D /\ E[b] = f /\ \A c \in D : c # b => E[c] = F[c]
      BY <1>6, <3>1 DEF Put
    <3> QED
      BY <1>5, <1>6, <2>2, <3>1, <3>2 DEF Without, Restrict
  <2> QED
    BY <2>1, <2>2
<1>10. /\ DOMAIN B2 = D \ {p} /\ \A c \in D : c # f /\ c # p => B2[c] = B[c]
       /\ f # b => B2[f] = b
  <2> HIDE DEF D
  <2>1. CASE f = b
    BY <1>6, <2>1 DEF Without, Restrict
  <2>2. CASE f # b
    <3>1. PICK E : E = Put(B, f, b)
      OBVIOUS
    <3>2. DOMAIN E = D /\ E[f] = b /\ \A c \in D : c # f => E[c] = B[c]
      BY <1>6, <3>1 DEF Put
    <3> QED
      BY <1>5, <1>6, <2>2, <3>1, <3>2 DEF Without, Restrict
  <2> QED
    BY <2>1, <2>2
<1>11. (IF f = b THEN mp \ {i} ELSE mp) = {h \in Bins : M[h] # << >>}
  <2>1. M[i] = << >> <=> n = 1
    <3>1. M[i] = << >> <=> Len(M[i]) = 0
      BY <1>2, <1>3, RingFacts
    <3>2. PICK m \in Int : m = n - 1
      OBVIOUS
    <3>3. m = 0 <=> n = 1
      BY <3>2
    <3> QED
      BY <1>3, <3>1, <3>2, <3>3
  <2>2. mp = {h \in Bins : L[h] # << >>}
    BY DEF Linked
  <2>3. \A h \in Bins : h # i => (M[h] # << >> <=> h \in mp)
    BY <1>3, <2>2
  <2> QED
    BY <1>2, <1>8, <2>1, <2>2, <2>3
<1>12. ASSUME NEW h \in mp, NEW j \in 0..Len(M[h]), h # i
       PROVE  B2[At(M, h, j)] = At(M, h, j + 1) /\ F2[At(M, h, j + 1)] = At(M, h, j)
  <2>1. h \in Bins /\ M[h] = L[h]
    BY <1>3, <1>12 DEF Linked
  <2>2. At(M, h, j) = At(L, h, j) /\ At(M, h, j + 1) = At(L, h, j + 1) /\ j \in 0..Len(L[h])
    BY <2>1 DEF At
  <2>3. B[At(L, h, j)] = At(L, h, j + 1) /\ F[At(L, h, j + 1)] = At(L, h, j)
    BY <2>2 DEF Linked
  <2>4. \A l : At(L, h, l) # f /\ At(L, h, l) # b /\ At(L, h, l) # p
    BY <1>2, <1>4, <1>12, <2>1, PlacesApart
  <2>5. \A l : At(L, h, l) \in D
    BY <2>1, RingFacts, HeaderFacts
  <2> QED
    BY <1>9, <1>10, <2>2, <2>3, <2>4, <2>5
<1>13. ASSUME NEW j \in 0..(n - 1), n # 1
       PROVE  B2[At(M, i, j)] = At(M, i, j + 1) /\ F2[At(M, i, j + 1)] = At(M, i, j)
  <2>1. At(M, i, j) = At(L, i, Skip(j, x)) /\ At(M, i, j + 1) = At(L, i, Skip(j + 1, x))
    <3>1. j \in 0..n /\ j + 1 \in 0..n
      OBVIOUS
    <3> QED
      BY <1>3, <3>1
  <2>2. \A l : At(L, i, l) \in D
    BY <1>2, RingFacts, HeaderFacts
  <2>3. CASE j = x - 1
    <3>1. Skip(j, x) = x - 1 /\ Skip(j + 1, x) = x + 1
      BY <1>2, <2>3 DEF Skip
    <3> QED
      BY <1>8, <1>9, <1>10, <1>13, <2>1, <3>1
  <2>4. CASE j # x - 1
    <3>1. PICK l \in 0..n : l = Skip(j, x)
      BY DEF Skip
    <3>2. l + 1 = Skip(j + 1, x) /\ l # x - 1 /\ l # x /\ l + 1 # x /\ l + 1 # x + 1 /\ l + 1 \in 1..(n + 1)
      BY <1>2, <2>4, <3>1 DEF Skip
    <3>3. B[At(L, i, l)] = At(L, i, l + 1) /\ F[At(L, i, l + 1)] = At(L, i, l)
      BY <3>1 DEF Linked
    <3>4. At(L, i, l) # f /\ At(L, i, l) # p
      BY <1>2, <1>4, <3>1, <3>2, PlacesApart
    <3>5. At(L, i, l + 1) # b /\ At(L, i, l + 1) # p
      BY <1>2, <1>4, <3>2, PlacesApart
    <3> QED
      BY <1>9, <1>10, <2>1, <2>2, <3>1, <3>2, <3>3, <3>4, <3>5
  <2> QED
    BY <2>3, <2>4
<1>14. ASSUME NEW h \in (IF f = b THEN mp \ {i} ELSE mp), NEW j \in 0..Len(M[h])
       PROVE  B2[At(M, h, j)] = At(M, h, j + 1) /\ F2[At(M, h, j + 1)] = At(M, h, j)
  <2>1. CASE h = i
    <3>1. n # 1 /\ j \in 0..(n - 1)
      BY <1>3, <1>8, <2>1
    <3> QED
      BY <1>13, <2>1, <3>1
  <2>2. CASE h # i
    <3>1. h \in mp
      OBVIOUS
    <3> QED
      BY <1>12, <2>2, <3>1
  <2> QED
    BY <2>1, <2>2
<1> HIDE DEF D
<1> QED
  BY <1>1, <1>7, <1>9, <1>10, <1>11, <1>14 DEF Linked

-----------------------------------------------------------------------------
(* The invariant *)

\* The links are those of the rings that Ring finds, and the designated victim is in none.
RingsInv ==
  /\ IsBins(Rings) /\ Linked(Rings, smallmap, fd, bk)
  /\ dv \in Chunks \cup {NULL} /\ dv \notin Members(Rings)

\* The chunks with links are those in bins.
LEMMA LinkedChunks ==
  ASSUME NEW L, IsBins(L), NEW mp, NEW F, NEW B, Linked(L, mp, F, B)
  PROVE  DOMAIN F \ Headers = Members(L) /\ Members(L) \subseteq Chunks
<1>1. \A c \in Members(L) : c \in Chunks
  BY DEF Members
<1>2. \A c \in Headers : c \notin Chunks
  BY HeaderFacts
<1> QED
  BY <1>1, <1>2 DEF Linked

\* insert_small_chunk makes the chunk the newest of its bin.
LEMMA Inserting ==
  ASSUME NEW L, IsBins(L), Linked(L, smallmap, fd, bk),
         NEW p \in Chunks, p \notin Members(L), insert_small_chunk(p)
  PROVE  Linked(Pushed(L, p), smallmap', fd', bk')
<1>1. PICK i \in Bins : i = bin(p)
  BY BinFacts
<1>2. PICK b : b = smallbin_at(i)
  OBVIOUS
<1>3. PICK f : f = IF i \in smallmap THEN fd[b] ELSE b
  OBVIOUS
<1>4. /\ smallmap' = smallmap \cup {i}
      /\ fd' = Put(Put(fd, b, p), p, f) /\ bk' = Put(Put(bk, f, p), p, b)
  BY <1>1, <1>2, <1>3 DEF insert_small_chunk, First, bin
<1>5. Linked(Pushed(L, p), smallmap \cup {i}, Put(Put(fd, b, p), p, f), Put(Put(bk, f, p), p, b))
  BY <1>1, <1>2, <1>3, PushedLinks
<1> QED
  BY <1>4, <1>5

\* unlink_small_chunk takes it out of its bin.
LEMMA Unlinking ==
  ASSUME NEW L, IsBins(L), Linked(L, smallmap, fd, bk), NEW p \in Members(L), unlink_small_chunk(p)
  PROVE  \E i \in Bins : \E x \in 1..Len(L[i]) :
           p = L[i][x] /\ Linked(Removed(L, i, x), smallmap', fd', bk')
<1>1. PICK i \in Bins : \E x \in 1..Len(L[i]) : p = L[i][x]
  BY DEF Members
<1>2. PICK n \in Nat : n = Len(L[i])
  BY RingFacts
<1>3. PICK x \in 1..n : p = L[i][x]
  BY <1>1, <1>2
<1>4. i \in smallmap
  BY <1>2, <1>3, RingFacts DEF Linked
<1>5. x - 1 \in 0..n /\ x \in 0..n /\ (x - 1) + 1 = x
  OBVIOUS
<1>6. p = At(L, i, x)
  BY <1>2, <1>3 DEF At
<1>7. PICK f : f = At(L, i, x - 1)
  OBVIOUS
<1>8. PICK b : b = At(L, i, x + 1)
  OBVIOUS
<1>9. fd[p] = f
  BY <1>2, <1>4, <1>5, <1>6, <1>7 DEF Linked
<1>10. bk[p] = b
  BY <1>2, <1>4, <1>5, <1>6, <1>8 DEF Linked
<1>11. small_index(ChunkSize[p]) = i
  BY <1>2, <1>3, RingFacts DEF bin
<1>12. /\ smallmap' = IF f = b THEN smallmap \ {i} ELSE smallmap
       /\ fd' = IF f = b THEN Without(fd, p) ELSE Without(Put(fd, b, f), p)
       /\ bk' = IF f = b THEN Without(bk, p) ELSE Without(Put(bk, f, b), p)
  BY <1>9, <1>10, <1>11 DEF unlink_small_chunk, Cleared, Bypassed
<1>13. \A F2, B2 :
         /\ F2 = IF f = b THEN Without(fd, p) ELSE Without(Put(fd, b, f), p)
         /\ B2 = IF f = b THEN Without(bk, p) ELSE Without(Put(bk, f, b), p)
         => Linked(Removed(L, i, x), IF f = b THEN smallmap \ {i} ELSE smallmap, F2, B2)
  BY <1>2, <1>3, <1>4, <1>7, <1>8, RemovedLinks
<1> QED
  BY <1>2, <1>3, <1>12, <1>13

\* unlink_first_small_chunk takes out the newest.
LEMMA Taking ==
  ASSUME NEW L, IsBins(L), Linked(L, smallmap, fd, bk), NEW i \in smallmap,
         NEW p, p = fd[smallbin_at(i)], unlink_first_small_chunk(p, i)
  PROVE  /\ i \in Bins /\ Len(L[i]) \in 1..Len(L[i]) /\ p = L[i][Len(L[i])]
         /\ Linked(Removed(L, i, Len(L[i])), smallmap', fd', bk')
<1>1. i \in Bins /\ L[i] # << >>
  BY DEF Linked
<1>2. PICK n \in Nat : n = Len(L[i]) /\ n # 0
  BY <1>1, RingFacts
<1>3. n \in 1..n /\ n \in 0..n /\ n - 1 \in 0..n /\ (n - 1) + 1 = n
  BY <1>2
<1>4. At(L, i, n + 1) = smallbin_at(i) /\ At(L, i, n) = L[i][n]
  BY <1>2, <1>3 DEF At
<1>5. p = L[i][n]
  BY <1>2, <1>3, <1>4 DEF Linked
<1>6. PICK f : f = At(L, i, n - 1)
  OBVIOUS
<1>7. PICK b : b = At(L, i, n + 1)
  OBVIOUS
<1>8. fd[p] = f
  BY <1>2, <1>3, <1>4, <1>5, <1>6 DEF Linked
<1>9. /\ smallmap' = IF f = b THEN smallmap \ {i} ELSE smallmap
      /\ fd' = IF f = b THEN Without(fd, p) ELSE Without(Put(fd, b, f), p)
      /\ bk' = IF f = b THEN Without(bk, p) ELSE Without(Put(bk, f, b), p)
  BY <1>4, <1>7, <1>8 DEF unlink_first_small_chunk, Cleared, Bypassed
<1>10. \A F2, B2 :
         /\ F2 = IF f = b THEN Without(fd, p) ELSE Without(Put(fd, b, f), p)
         /\ B2 = IF f = b THEN Without(bk, p) ELSE Without(Put(bk, f, b), p)
         => Linked(Removed(L, i, n), IF f = b THEN smallmap \ {i} ELSE smallmap, F2, B2)
  <2>1. PICK x \in 1..n : x = n
    BY <1>3
  <2>2. p = L[i][x] /\ f = At(L, i, x - 1) /\ b = At(L, i, x + 1)
    BY <1>5, <1>6, <1>7, <2>1
  <2>3. \A F2, B2 :
          /\ F2 = IF f = b THEN Without(fd, p) ELSE Without(Put(fd, b, f), p)
          /\ B2 = IF f = b THEN Without(bk, p) ELSE Without(Put(bk, f, b), p)
          => Linked(Removed(L, i, x), IF f = b THEN smallmap \ {i} ELSE smallmap, F2, B2)
    BY <1>2, <2>2, RemovedLinks
  <2> QED
    BY <2>1, <2>3
<1> QED
  BY <1>1, <1>2, <1>3, <1>5, <1>9, <1>10

\* Without changes Ring finds what it found.
LEMMA RingsStay ==
  ASSUME RingsInv, UNCHANGED <<smallmap, links>>
  PROVE  Rings' = Rings /\ IsBins(Rings) /\ Linked(Rings, smallmap', fd', bk')
<1>1. smallmap' = smallmap /\ fd' = fd /\ bk' = bk
  BY DEF links
<1>2. IsBins(Rings) /\ Linked(Rings, smallmap', fd', bk')
  BY <1>1 DEF RingsInv
<1> QED
  BY <1>2, RingsFoundNext

\* What a step makes of rings q: one chunk more, one less, or the same.
Grows(q, r) == \E p \in Chunks \ Members(q) : r = Pushed(q, p)
Shrinks(q, r) == \E i \in Bins : \E x \in 1..Len(q[i]) : r = Removed(q, i, x)

\* Before the first step all rings are empty.
LEMMA RingsInvHolds ==
  Init => RingsInv
<1> SUFFICES ASSUME Init PROVE RingsInv
  OBVIOUS
<1>1. PICK L : L = [i \in Bins |-> << >>]
  OBVIOUS
<1>2. \A i \in Bins : L[i] = << >> /\ Len(L[i]) = 0 /\ L[i] \in Seq(Chunks)
  BY <1>1
<1>3. IsBins(L) /\ Members(L) = {}
  BY <1>1, <1>2 DEF IsBins, Members
<1>4. smallmap = {} /\ DOMAIN fd = Headers /\ DOMAIN bk = Headers
  BY DEF Init, init_bins
<1>5. Linked(L, smallmap, fd, bk)
  BY <1>2, <1>3, <1>4 DEF Linked
<1>6. Rings = L
  BY <1>3, <1>5, RingsFound
<1> QED
  BY <1>3, <1>5, <1>6 DEF RingsInv, Init

\* Ring finds a chunk that is put in a bin,
LEMMA InsertSteps ==
  ASSUME RingsInv, NEW p \in Chunks, p \notin Members(Rings), insert_small_chunk(p)
  PROVE  /\ Rings' = Pushed(Rings, p) /\ Members(Rings') = Members(Rings) \cup {p}
         /\ IsBins(Rings') /\ Linked(Rings', smallmap', fd', bk')
<1>1. PICK L : L = Rings
  OBVIOUS
<1>2. IsBins(L) /\ Linked(L, smallmap, fd, bk)
  BY <1>1 DEF RingsInv
<1>3. PICK M : M = Pushed(L, p)
  OBVIOUS
<1>4. Linked(M, smallmap', fd', bk')
  BY <1>1, <1>2, <1>3, Inserting
<1>5. IsBins(M) /\ Members(M) = Members(L) \cup {p}
  BY <1>1, <1>2, <1>3, PushedBins
<1>6. Rings' = M
  BY <1>4, <1>5, RingsFoundNext
<1> QED
  BY <1>1, <1>3, <1>4, <1>5, <1>6

\* and finds it no more when it is taken out.
LEMMA RemoveSteps ==
  ASSUME RingsInv, NEW i \in Bins, NEW x \in 1..Len(Rings[i]),
         Linked(Removed(Rings, i, x), smallmap', fd', bk')
  PROVE  /\ Rings' = Removed(Rings, i, x) /\ Members(Rings') = Members(Rings) \ {Rings[i][x]}
         /\ IsBins(Rings') /\ Linked(Rings', smallmap', fd', bk')
<1>1. PICK L : L = Rings
  OBVIOUS
<1>2. IsBins(L)
  BY <1>1 DEF RingsInv
<1>3. PICK n \in Nat : n = Len(L[i])
  BY <1>2, RingFacts
<1>4. x \in Nat /\ x \in 1..n
  BY <1>1, <1>3
<1>5. PICK M : M = Removed(L, i, x)
  OBVIOUS
<1>6. IsBins(M) /\ Members(M) = Members(L) \ {L[i][x]}
  BY <1>2, <1>3, <1>4, <1>5, RemovedBins
<1>7. Rings' = M
  BY <1>1, <1>5, <1>6, RingsFoundNext
<1> QED
  BY <1>1, <1>5, <1>6, <1>7

\* Each step keeps the invariant, and does to the rings what it says.
LEMMA Steps ==
  ASSUME RingsInv, Next
  PROVE  /\ RingsInv'
         /\ \/ Quiet /\ (Rings' = Rings \/ Grows(Rings, Rings') \/ Shrinks(Rings, Rings'))
            \/ \E nb \in Requests :
                 /\ request' = nb
                 /\ \/ Candidates(nb) = {} /\ found' = NULL /\ Rings' = Rings
                    \/ \E i \in Bins :
                         /\ Candidates(nb) # {} /\ i = Min(Candidates(nb))
                         /\ Len(Rings[i]) \in 1..Len(Rings[i])
                         /\ found' = Rings[i][Len(Rings[i])]
                         /\ Rings' = Removed(Rings, i, Len(Rings[i]))
<1>1. InBins = Members(Rings) /\ Members(Rings) \subseteq Chunks
  <2>1. PICK L : L = Rings
    OBVIOUS
  <2>2. IsBins(L) /\ Linked(L, smallmap, fd, bk)
    BY <2>1 DEF RingsInv
  <2> QED
    BY <2>1, <2>2, LinkedChunks DEF InBins
<1>2. NULL \notin Chunks
  BY BinFacts DEF NULL
<1>3. dv \in Chunks \cup {NULL} /\ dv \notin Members(Rings)
  BY DEF RingsInv
<1>4. ASSUME Insert PROVE RingsInv' /\ Quiet /\ Grows(Rings, Rings')
  <2>1. PICK p \in Chunks \ (InBins \cup {dv}) : insert_small_chunk(p)
    BY <1>4 DEF Insert
  <2>2. p \in Chunks /\ p \notin Members(Rings) /\ p # dv
    BY <1>1
  <2>3. /\ Rings' = Pushed(Rings, p) /\ Members(Rings') = Members(Rings) \cup {p}
        /\ IsBins(Rings') /\ Linked(Rings', smallmap', fd', bk')
    BY <2>1, <2>2, InsertSteps
  <2>4. Quiet /\ dv' = dv
    BY <1>4 DEF Insert
  <2> QED
    BY <1>3, <2>2, <2>3, <2>4 DEF RingsInv, Grows
<1>5. ASSUME Unlink PROVE RingsInv' /\ Quiet /\ Shrinks(Rings, Rings')
  <2>1. PICK p \in Members(Rings) : unlink_small_chunk(p)
    BY <1>1, <1>5 DEF Unlink
  <2>2. PICK i \in Bins : \E x \in 1..Len(Rings[i]) :
          p = Rings[i][x] /\ Linked(Removed(Rings, i, x), smallmap', fd', bk')
    BY <2>1, Unlinking DEF RingsInv
  <2>3. PICK x \in 1..Len(Rings[i]) :
          p = Rings[i][x] /\ Linked(Removed(Rings, i, x), smallmap', fd', bk')
    BY <2>2
  <2>4. /\ Rings' = Removed(Rings, i, x) /\ Members(Rings') = Members(Rings) \ {Rings[i][x]}
        /\ IsBins(Rings') /\ Linked(Rings', smallmap', fd', bk')
    BY <2>3, RemoveSteps
  <2>5. Quiet /\ dv' = dv
    BY <1>5 DEF Unlink
  <2> QED
    BY <1>3, <2>4, <2>5 DEF RingsInv, Shrinks
<1>6. ASSUME replace_dv
      PROVE  RingsInv' /\ Quiet /\ (Rings' = Rings \/ Grows(Rings, Rings'))
  <2>1. PICK p \in Chunks \ (InBins \cup {dv}) : dv' = p
    BY <1>6 DEF replace_dv
  <2>2. p \in Chunks /\ p \notin Members(Rings) /\ p # dv
    BY <1>1
  <2>3. Quiet
    BY <1>6 DEF replace_dv
  <2>4. CASE dv # NULL
    <3>1. dv \in Chunks /\ dv \notin Members(Rings) /\ insert_small_chunk(dv)
      BY <1>3, <1>6, <2>4 DEF replace_dv
    <3>2. /\ Rings' = Pushed(Rings, dv) /\ Members(Rings') = Members(Rings) \cup {dv}
          /\ IsBins(Rings') /\ Linked(Rings', smallmap', fd', bk')
      BY <3>1, InsertSteps
    <3> QED
      BY <2>1, <2>2, <2>3, <3>1, <3>2 DEF RingsInv, Grows
  <2>5. CASE dv = NULL
    <3>1. Rings' = Rings /\ IsBins(Rings) /\ Linked(Rings, smallmap', fd', bk')
      BY <1>6, <2>5, RingsStay DEF replace_dv
    <3> QED
      BY <2>1, <2>2, <2>3, <3>1 DEF RingsInv
  <2> QED
    BY <2>4, <2>5
<1>7. ASSUME UseDv PROVE RingsInv' /\ Quiet /\ Rings' = Rings
  <2>1. Rings' = Rings /\ IsBins(Rings) /\ Linked(Rings, smallmap', fd', bk')
    BY <1>7, RingsStay DEF UseDv
  <2>2. dv' = NULL /\ NULL \notin Members(Rings)
    BY <1>1, <1>2, <1>7 DEF UseDv
  <2> QED
    BY <1>7, <2>1, <2>2 DEF RingsInv, UseDv
<1>8. ASSUME NEW nb \in Requests, request' = nb, dv' = dv, Candidates(nb) = {},
             found' = NULL, UNCHANGED <<smallmap, links>>
      PROVE  RingsInv' /\ Rings' = Rings
  <2>1. Rings' = Rings /\ IsBins(Rings) /\ Linked(Rings, smallmap', fd', bk')
    BY <1>8, RingsStay
  <2> QED
    BY <1>3, <1>8, <2>1 DEF RingsInv
<1>9. ASSUME NEW nb \in Requests, NEW i, i = Min(Candidates(nb)), Candidates(nb) # {},
             dv' = dv, found' = fd[smallbin_at(i)], unlink_first_small_chunk(found', i)
      PROVE  /\ RingsInv' /\ i \in Bins /\ Len(Rings[i]) \in 1..Len(Rings[i])
             /\ found' = Rings[i][Len(Rings[i])] /\ Rings' = Removed(Rings, i, Len(Rings[i]))
  <2>1. smallmap \subseteq Nat
    <3>1. smallmap = {h \in Bins : Rings[h] # << >>}
      BY DEF RingsInv, Linked
    <3>2. Bins \subseteq Nat
      BY DEF Bins
    <3> QED
      BY <3>1, <3>2
  <2>2. i \in smallmap
    <3>1. Candidates(nb) \in SUBSET Nat /\ Candidates(nb) \subseteq smallmap
      BY <2>1 DEF Candidates
    <3>2. PICK m \in Candidates(nb) : \A n \in Candidates(nb) : m <= n
      BY <1>9, <3>1, LeastNat
    <3>3. Min(Candidates(nb)) = m
      BY <3>1, <3>2, MinIs
    <3> QED
      BY <1>9, <3>1, <3>2, <3>3
  <2>3. PICK p : p = found'
    OBVIOUS
  <2>4. PICK L : L = Rings
    OBVIOUS
  <2>5. IsBins(L) /\ Linked(L, smallmap, fd, bk)
    BY <2>4 DEF RingsInv
  <2>6. p = fd[smallbin_at(i)] /\ unlink_first_small_chunk(p, i)
    BY <1>9, <2>3
  <2>7. /\ i \in Bins /\ Len(L[i]) \in 1..Len(L[i]) /\ p = L[i][Len(L[i])]
        /\ Linked(Removed(L, i, Len(L[i])), smallmap', fd', bk')
    BY <2>2, <2>5, <2>6, Taking
  <2>8. /\ Rings' = Removed(L, i, Len(L[i])) /\ Members(Rings') = Members(L) \ {L[i][Len(L[i])]}
        /\ IsBins(Rings') /\ Linked(Rings', smallmap', fd', bk')
    BY <2>4, <2>7, RemoveSteps
  <2> QED
    BY <1>3, <1>9, <2>3, <2>4, <2>7, <2>8 DEF RingsInv
<1>10. CASE Take
  <2>1. PICK nb \in Requests :
          /\ request' = nb
          /\ IF Candidates(nb) = {} THEN found' = NULL /\ UNCHANGED <<smallmap, links>>
             ELSE LET i == Min(Candidates(nb))
                  IN  found' = fd[smallbin_at(i)] /\ unlink_first_small_chunk(found', i)
    BY <1>10 DEF Take
  <2>2. dv' = dv
    BY <1>10 DEF Take
  <2>3. CASE Candidates(nb) = {}
    BY <1>8, <2>1, <2>2, <2>3
  <2>4. CASE Candidates(nb) # {}
    BY <1>9, <2>1, <2>2, <2>4
  <2> QED
    BY <2>3, <2>4
<1> QED
  BY <1>4, <1>5, <1>6, <1>7, <1>10 DEF Next

\* At all times the links and the map are those of the rings that Ring finds, each of
\* chunks of its bin's size, and the designated victim is in none of them.
THEOREM RingsAlways == Spec => []RingsInv
<1>1. RingsInv /\ [Next]_vars => RingsInv'
  <2>1. ASSUME RingsInv, UNCHANGED vars PROVE RingsInv'
    <3>1. UNCHANGED <<smallmap, links>> /\ dv' = dv
      BY <2>1 DEF vars
    <3>2. Rings' = Rings /\ IsBins(Rings) /\ Linked(Rings, smallmap', fd', bk')
      BY <2>1, <3>1, RingsStay
    <3> QED
      BY <2>1, <3>1, <3>2 DEF RingsInv
  <2> QED
    BY <2>1, Steps
<1> QED
  BY RingsInvHolds, <1>1, PTL DEF Spec

\* Rings of that kind are what do_check_smallbin asserts.
LEMMA RingsAreSmallBins ==
  RingsInv => SmallBinsOK /\ DvApart
<1> SUFFICES ASSUME RingsInv PROVE SmallBinsOK /\ DvApart
  OBVIOUS
<1>1. PICK L : L = Rings
  OBVIOUS
<1>2. IsBins(L) /\ Linked(L, smallmap, fd, bk)
  BY <1>1 DEF RingsInv
<1>3. \A i \in Bins : Ring(i) = L[i]
  BY <1>1 DEF Rings
<1>4. InBins = Members(L) /\ Members(L) \subseteq Chunks
  BY <1>2, LinkedChunks DEF InBins
<1>5. smallmap \subseteq Bins
  BY <1>2 DEF Linked
<1>6. ASSUME NEW i \in smallmap, NEW p \in Range(Ring(i))
      PROVE  p \in InBins /\ small_index(ChunkSize[p]) = i /\ fd[bk[p]] = p /\ bk[fd[p]] = p
  <2>1. PICK n \in Nat : n = Len(L[i])
    BY <1>2, <1>5, RingFacts
  <2>2. PICK j \in 1..n : p = L[i][j]
    BY <1>2, <1>3, <1>5, <2>1, RingFacts DEF Range
  <2>3. p = At(L, i, j)
    BY <2>1, <2>2 DEF At
  <2>4. j \in 0..n /\ j - 1 \in 0..n /\ (j - 1) + 1 = j
    OBVIOUS
  <2>5. bk[p] = At(L, i, j + 1) /\ fd[At(L, i, j + 1)] = p
    BY <1>2, <2>1, <2>3, <2>4 DEF Linked
  <2>6. fd[p] = At(L, i, j - 1) /\ bk[At(L, i, j - 1)] = p
    BY <1>2, <2>1, <2>3, <2>4 DEF Linked
  <2>7. p \in Members(L) /\ bin(p) = i
    BY <1>2, <1>5, <2>1, <2>2, RingFacts
  <2> QED
    BY <1>4, <2>5, <2>6, <2>7 DEF bin
<1>7. ASSUME NEW p \in InBins PROVE p \in Range(Ring(small_index(ChunkSize[p])))
  <2>1. PICK i \in Bins : \E j \in 1..Len(L[i]) : p = L[i][j]
    BY <1>4 DEF Members
  <2>2. PICK j \in 1..Len(L[i]) : p = L[i][j]
    BY <2>1
  <2>3. bin(p) = i /\ j \in DOMAIN L[i]
    BY <1>2, <2>2, RingFacts
  <2>4. p \in Range(L[i])
    BY <2>2, <2>3 DEF Range
  <2> QED
    BY <1>3, <2>3, <2>4 DEF bin
<1>8. \A i \in smallmap : Ring(i) # << >>
  BY <1>2, <1>3, <1>5 DEF Linked
<1>9. DvApart
  BY <1>1, <1>4 DEF DvApart, RingsInv
<1> QED
  BY <1>6, <1>7, <1>8, <1>9 DEF SmallBinsOK

\* At all times a marked small bin is a ring of chunks of its size, linked both ways,
\* as do_check_smallbin asserts (l. 3358-3381), every chunk in a bin is found there,
\* and the designated victim is in none.
THEOREM SmallBinsSound == Spec => [](SmallBinsOK /\ DvApart)
<1> QED
  BY RingsAlways, RingsAreSmallBins, PTL

-----------------------------------------------------------------------------
(* What malloc gets of them *)

Sizes == Range(ChunkSize)

\* The queues that FreeChunks makes promises about.
Queue(L) == [z \in Sizes |-> L[small_index(z)]]

\* Each size has a bin of its own, and each chunk a size.
LEMMA SizeFacts ==
  /\ \A z \in Sizes : z \in Nat /\ small_index(z) \in Bins /\ z = 8 * small_index(z)
  /\ \A c \in Chunks : ChunkSize[c] \in Sizes
<1>1. ASSUME NEW z \in Sizes PROVE z \in Nat /\ small_index(z) \in Bins /\ z = 8 * small_index(z)
  <2>1. PICK c \in Chunks : z = ChunkSize[c]
    BY DEF Sizes, Range, Chunks
  <2>2. small_index(z) \in Bins /\ z = 8 * small_index(z)
    BY <2>1, BinFacts DEF bin
  <2>3. z \in Nat
    BY <2>1, SmallAssumption
  <2> QED
    BY <2>2, <2>3
<1>2. \A c \in Chunks : ChunkSize[c] \in Sizes
  BY DEF Sizes, Range, Chunks
<1> QED
  BY <1>1, <1>2

\* A change of one bin is that of one queue.
LEMMA OneQueue ==
  ASSUME NEW L, IsBins(L), NEW M, M \in [Bins -> Seq(Chunks)], NEW z \in Sizes, NEW i, i = small_index(z),
         \A h \in Bins : h # i => M[h] = L[h]
  PROVE  Queue(M) = [Queue(L) EXCEPT ![z] = M[i]]
<1>1. \A y \in Sizes : y # z => small_index(y) # i
  BY SizeFacts
<1>2. \A y \in Sizes : y # z => Queue(M)[y] = Queue(L)[y]
  BY <1>1, SizeFacts DEF Queue
<1>3. Queue(M)[z] = M[i]
  BY DEF Queue
<1>4. DOMAIN Queue(M) = Sizes /\ DOMAIN Queue(L) = Sizes
  BY DEF Queue
<1>5. PICK q : q = Queue(L)
  OBVIOUS
<1>6. PICK r : r = [q EXCEPT ![z] = M[i]]
  OBVIOUS
<1>7. DOMAIN r = Sizes /\ r[z] = M[i] /\ \A y \in Sizes : y # z => r[y] = q[y]
  BY <1>4, <1>5, <1>6
<1>8. Queue(M) = [y \in Sizes |-> Queue(M)[y]]
  BY DEF Queue
<1>9. r = [y \in Sizes |-> r[y]]
  BY <1>4, <1>5, <1>6
<1>10. \A y \in Sizes : Queue(M)[y] = r[y]
  BY <1>2, <1>3, <1>5, <1>7
<1> QED
  BY <1>5, <1>6, <1>8, <1>9, <1>10

\* A chunk that goes into its bin goes to the end of its queue,
LEMMA PushedIsInserted ==
  ASSUME NEW L, IsBins(L), NEW p \in Chunks, p \notin Members(L)
  PROVE  Promise!Inserted(Queue(L), Queue(Pushed(L, p)))
<1>1. PICK M : M = Pushed(L, p)
  OBVIOUS
<1>2. PICK i \in Bins : i = bin(p)
  BY BinFacts
<1>3. PICK z \in Sizes : z = ChunkSize[p] /\ i = small_index(z)
  BY <1>2, SizeFacts DEF bin
<1>4. PICK n \in Nat : n = Len(L[i])
  BY RingFacts
<1>5. /\ IsBins(M) /\ \A h \in Bins : h # i => M[h] = L[h]
      /\ Len(M[i]) = n + 1 /\ At(M, i, n + 1) = p
  BY <1>1, <1>2, <1>4, PushedBins
<1>6. M \in [Bins -> Seq(Chunks)] /\ L \in [Bins -> Seq(Chunks)] /\ M[i] = Append(L[i], p)
  BY <1>1, <1>2, <1>5 DEF Pushed, IsBins
<1>7. M[i][n + 1] = p
  BY <1>4, <1>5 DEF At
<1>8. PICK q : q = Queue(L)
  OBVIOUS
<1>9. PICK r : r = Queue(M)
  OBVIOUS
<1>10. DOMAIN q = Sizes /\ q[z] = L[i] /\ r[z] = M[i]
  BY <1>3, <1>8, <1>9 DEF Queue
<1>11. r = [q EXCEPT ![z] = M[i]]
  BY <1>3, <1>5, <1>6, <1>8, <1>9, OneQueue
<1>12. Len(r[z]) = Len(q[z]) + 1 /\ r[z][Len(r[z])] = p
  BY <1>4, <1>5, <1>7, <1>10
<1>13. ~ Promise!In(p, q)
  <2>1. ASSUME NEW y \in Sizes, NEW j \in 1..Len(q[y]), q[y][j] = p PROVE FALSE
    <3>1. q[y] = L[small_index(y)] /\ small_index(y) \in Bins
      BY <1>8, SizeFacts DEF Queue
    <3> QED
      BY <2>1, <3>1, RingFacts
  <2> QED
    BY <1>10, <2>1 DEF Promise!In, Promise!Contains
<1>14. r = [q EXCEPT ![z] = Append(@, p)]
  BY <1>6, <1>10, <1>11
<1>15. Promise!Inserted(q, r)
  BY <1>10, <1>12, <1>13, <1>14 DEF Promise!Inserted, Promise!Last
<1> QED
  BY <1>1, <1>8, <1>9, <1>15

\* one that leaves its bin leaves its queue,
LEMMA RemovedIsCut ==
  ASSUME NEW L, IsBins(L), NEW i \in Bins, NEW x \in 1..Len(L[i])
  PROVE  /\ 8 * i \in Sizes /\ Queue(L)[8 * i] = L[i] /\ DOMAIN Queue(L) = Sizes
         /\ Queue(Removed(L, i, x)) = [Queue(L) EXCEPT ![8 * i] = Cut(@, x)]
<1>1. PICK n \in Nat : n = Len(L[i])
  BY RingFacts
<1>2. x \in Nat /\ x \in 1..n
  BY <1>1
<1>3. PICK c \in Chunks : c = L[i][x] /\ bin(c) = i
  BY RingFacts
<1>4. PICK z \in Sizes : z = 8 * i /\ small_index(z) = i
  <2>1. ChunkSize[c] \in Sizes /\ ChunkSize[c] = 8 * i
    BY <1>3, BinFacts, SizeFacts
  <2> QED
    BY <1>3, <2>1 DEF bin
<1>5. PICK M : M = Removed(L, i, x)
  OBVIOUS
<1>6. IsBins(M) /\ \A h \in Bins : h # i => M[h] = L[h]
  BY <1>1, <1>2, <1>5, RemovedBins
<1>7. M \in [Bins -> Seq(Chunks)] /\ L \in [Bins -> Seq(Chunks)] /\ M[i] = Cut(L[i], x)
  BY <1>5, <1>6 DEF Removed, IsBins
<1>8. DOMAIN Queue(L) = Sizes /\ Queue(L)[z] = L[i]
  BY <1>4 DEF Queue
<1>9. Queue(M) = [Queue(L) EXCEPT ![z] = M[i]]
  BY <1>4, <1>6, <1>7, OneQueue
<1> QED
  BY <1>4, <1>5, <1>7, <1>8, <1>9

\* as a withdrawal does,
LEMMA RemovedIsWithdrawn ==
  ASSUME NEW L, IsBins(L), NEW i \in Bins, NEW x \in 1..Len(L[i])
  PROVE  Promise!Withdrawn(Queue(L), Queue(Removed(L, i, x)))
<1>1. PICK q : q = Queue(L)
  OBVIOUS
<1>2. 8 * i \in DOMAIN q /\ q[8 * i] = L[i] /\ Queue(Removed(L, i, x)) = [q EXCEPT ![8 * i] = Cut(@, x)]
  BY <1>1, RemovedIsCut
<1>3. x \in DOMAIN q[8 * i]
  BY <1>2, RingFacts
<1>4. \A c : Cut(c, x) = Promise!RemoveAt(c, x)
  BY DEF Cut, Promise!RemoveAt
<1>5. Queue(Removed(L, i, x)) = [q EXCEPT ![8 * i] = Promise!RemoveAt(@, x)]
  BY <1>2, <1>4
<1>6. Promise!Withdrawn(q, Queue(Removed(L, i, x)))
  BY <1>2, <1>3, <1>5, Zenon DEF Promise!Withdrawn
<1> QED
  BY <1>1, <1>6

\* and the least marked bin that will do has the least size that will do.
LEMMA FitsAreCandidates ==
  ASSUME RingsInv, NEW nb \in Requests
  PROVE  /\ nb > 0
         /\ Promise!Fits(Queue(Rings), nb) = {} <=> Candidates(nb) = {}
         /\ \A i \in Bins : Candidates(nb) # {} /\ i = Min(Candidates(nb)) =>
              Promise!Min(Promise!Fits(Queue(Rings), nb)) = 8 * i
<1>1. PICK L : L = Rings
  OBVIOUS
<1>2. IsBins(L) /\ Linked(L, smallmap, fd, bk)
  BY <1>1 DEF RingsInv
<1>3. nb \in Nat /\ nb > 0 /\ nb % 8 = 0
  BY SmallAssumption DEF SMALLBIN_SHIFT
<1>4. PICK a \in Nat : a = nb \div 8 /\ nb = 8 * a
  BY <1>3
<1>5. small_index(nb) = a
  BY <1>4 DEF small_index, SMALLBIN_SHIFT
<1>6. PICK C : C = Candidates(nb)
  OBVIOUS
<1>7. PICK T : T = Promise!Fits(Queue(L), nb)
  OBVIOUS
<1>8. \A i : i \in C <=> i \in Bins /\ L[i] # << >> /\ i >= a
  <2>1. smallmap = {h \in Bins : L[h] # << >>}
    BY <1>2 DEF Linked
  <2> QED
    BY <1>5, <1>6, <2>1 DEF Candidates
<1>9. \A z : z \in T <=> z \in Sizes /\ z >= nb /\ L[small_index(z)] # << >>
  BY <1>7 DEF Promise!Fits, Queue
<1>10. ASSUME NEW i \in C PROVE 8 * i \in T
  <2>1. i \in Bins /\ L[i] # << >> /\ i >= a
    BY <1>8
  <2>2. Len(L[i]) \in Nat /\ Len(L[i]) # 0
    BY <1>2, <2>1, RingFacts
  <2>3. PICK c \in Chunks : bin(c) = i
    BY <1>2, <2>1, <2>2, RingFacts
  <2>4. ChunkSize[c] = 8 * i /\ ChunkSize[c] \in Sizes /\ small_index(ChunkSize[c]) = i
    BY <2>3, BinFacts, SizeFacts DEF bin
  <2>5. 8 * i >= nb
    <3>1. i \in Nat
      BY <2>1 DEF Bins
    <3>2. \A l, r \in Nat : l >= r => 8 * l >= 8 * r
      OBVIOUS
    <3> QED
      BY <1>4, <2>1, <3>1, <3>2
  <2> QED
    BY <1>9, <2>1, <2>4, <2>5
<1>11. ASSUME NEW z \in T PROVE small_index(z) \in C /\ z = 8 * small_index(z)
  <2>1. z \in Sizes /\ z >= nb /\ L[small_index(z)] # << >>
    BY <1>9
  <2>2. PICK h \in Bins : h = small_index(z) /\ z = 8 * h
    BY <2>1, SizeFacts
  <2>3. h >= a
    BY <1>4, <2>1, <2>2 DEF Bins
  <2> QED
    BY <1>8, <2>1, <2>2, <2>3
<1>12. ASSUME NEW i \in Bins, C # {}, i = Min(C) PROVE Promise!Min(T) = 8 * i
  <2>1. C \in SUBSET Nat
    <3>1. C \subseteq Bins
      BY <1>8
    <3>2. Bins \subseteq Nat
      BY DEF Bins
    <3> QED
      BY <3>1, <3>2
  <2>2. PICK m \in C : \A l \in C : m <= l
    BY <1>12, <2>1, LeastNat
  <2>3. i = m
    BY <1>12, <2>1, <2>2, MinIs
  <2>4. 8 * i \in T
    BY <1>10, <2>2, <2>3
  <2>5. \A z \in T : 8 * i <= z
    <3> TAKE z \in T
    <3>1. PICK h : h = small_index(z) /\ h \in C /\ z = 8 * h
      BY <1>11
    <3>2. i <= h /\ h \in Nat /\ i \in Nat
      BY <2>1, <2>2, <2>3, <3>1
    <3> QED
      BY <3>1, <3>2
  <2>6. T \in SUBSET Nat
    BY <1>9, SizeFacts
  <2>7. Promise!Min(T) = Min(T)
    BY DEF Promise!Min, Min
  <2> QED
    BY <2>4, <2>5, <2>6, <2>7, MinIs
<1> QED
  BY <1>1, <1>3, <1>6, <1>7, <1>10, <1>11, <1>12

\* Queues of rings are those the promise is about, now and after a step.
LEMMA QueueOfRings ==
  /\ [z \in Range(ChunkSize) |-> Ring(small_index(z))] = Queue(Rings)
  /\ [z \in Range(ChunkSize) |-> Ring(small_index(z))]' = Queue(Rings')
<1>1. \A z \in Sizes : small_index(z) \in Bins
  BY SizeFacts
<1>2. \A z \in Sizes : Ring(small_index(z)) = Rings[small_index(z)]
  BY <1>1 DEF Rings
<1>3. \A z \in Sizes : Ring(small_index(z))' = Rings'[small_index(z)]
  BY <1>1 DEF Rings
<1>4. [z \in Range(ChunkSize) |-> Ring(small_index(z))] = Queue(Rings)
  BY <1>2 DEF Queue, Sizes
<1>5. [z \in Range(ChunkSize) |-> Ring(small_index(z))]' = Queue(Rings')
  BY <1>3 DEF Queue, Sizes
<1> QED
  BY <1>4, <1>5

\* Before the first step all queues are empty.
LEMMA PromiseBegins ==
  RingsInv /\ Init => Promise!Init
<1> SUFFICES ASSUME RingsInv, Init PROVE Promise!Init
  OBVIOUS
<1>1. \A i \in Bins : Ring(i) = << >>
  BY DEF Ring, Init
<1>2. \A z \in Sizes : Ring(small_index(z)) = << >>
  BY <1>1, SizeFacts
<1> QED
  BY <1>2 DEF Promise!Init, Init, Sizes

\* Each step is one that the promise allows.
LEMMA PromiseGoesOn ==
  ASSUME RingsInv, Next
  PROVE  Promise!Next
<1>1. PICK q : q = Queue(Rings)
  OBVIOUS
<1>2. PICK r : r = Queue(Rings')
  OBVIOUS
<1>3. IsBins(Rings)
  BY DEF RingsInv
<1>4. ASSUME Quiet, Rings' = Rings \/ Grows(Rings, Rings') \/ Shrinks(Rings, Rings')
      PROVE  Promise!Quietly(q, r)
  <2>1. Promise!Quiet
    BY <1>4 DEF Promise!Quiet, Quiet
  <2>2. CASE Rings' = Rings
    BY <1>1, <1>2, <2>1, <2>2 DEF Promise!Quietly
  <2>3. CASE Grows(Rings, Rings')
    <3>1. PICK p \in Chunks : p \notin Members(Rings) /\ Rings' = Pushed(Rings, p)
      BY <2>3 DEF Grows
    <3>2. Promise!Inserted(q, r)
      BY <1>1, <1>2, <1>3, <3>1, PushedIsInserted
    <3> QED
      BY <2>1, <3>2 DEF Promise!Quietly
  <2>4. CASE Shrinks(Rings, Rings')
    <3>1. PICK i \in Bins : \E x \in 1..Len(Rings[i]) : Rings' = Removed(Rings, i, x)
      BY <2>4 DEF Shrinks
    <3>2. PICK x \in 1..Len(Rings[i]) : Rings' = Removed(Rings, i, x)
      BY <3>1
    <3>3. Promise!Withdrawn(q, r)
      BY <1>1, <1>2, <1>3, <3>2, RemovedIsWithdrawn
    <3> QED
      BY <2>1, <3>3 DEF Promise!Quietly
  <2> QED
    BY <1>4, <2>2, <2>3, <2>4
<1>5. ASSUME NEW nb \in Requests, request' = nb, Candidates(nb) = {}, found' = NULL, Rings' = Rings
      PROVE  Promise!Searched(q, r)
  <2>1. nb > 0 /\ Promise!Fits(q, nb) = {}
    BY <1>1, <1>5, FitsAreCandidates
  <2>2. q = r
    BY <1>1, <1>2, <1>5
  <2> QED
    BY <1>5, <2>1, <2>2 DEF Promise!Searched
<1>6. ASSUME NEW nb \in Requests, request' = nb, NEW i \in Bins,
             Candidates(nb) # {}, i = Min(Candidates(nb)),
             Len(Rings[i]) \in 1..Len(Rings[i]), found' = Rings[i][Len(Rings[i])],
             Rings' = Removed(Rings, i, Len(Rings[i]))
      PROVE  Promise!Searched(q, r)
  <2>1. nb > 0 /\ Promise!Fits(q, nb) # {} /\ Promise!Min(Promise!Fits(q, nb)) = 8 * i
    BY <1>1, <1>6, FitsAreCandidates
  <2>2. PICK x \in 1..Len(Rings[i]) : x = Len(Rings[i])
    BY <1>6
  <2>3. q[8 * i] = Rings[i] /\ r = [q EXCEPT ![8 * i] = Cut(@, x)]
    BY <1>1, <1>2, <1>3, <1>6, <2>2, RemovedIsCut
  <2>4. found' = q[8 * i][Len(q[8 * i])]
    BY <1>6, <2>3
  <2>5. r = [q EXCEPT ![8 * i] = Promise!RemoveAt(@, Len(q[8 * i]))]
    <3>1. \A c : Cut(c, x) = Promise!RemoveAt(c, x)
      BY DEF Cut, Promise!RemoveAt
    <3> QED
      BY <2>2, <2>3, <3>1
  <2>6. PICK z : z = 8 * i
    OBVIOUS
  <2>7. Promise!Taken(q, r, nb, found')
    BY <2>1, <2>4, <2>5 DEF Promise!Taken
  <2> QED
    BY <1>6, <2>1, <2>7 DEF Promise!Searched
<1>7. Promise!Quietly(q, r) \/ Promise!Searched(q, r)
  BY <1>4, <1>5, <1>6, Steps
<1> QED
  BY <1>1, <1>2, <1>7, QueueOfRings DEF Promise!Next

\* The small bins keep the promise of l. 150-158 (a request is served by the smallest
\* chunk that will do, of these the most recently freed): for any chunks and requests,
\* a search finds the least size that fits, takes its last chunk, and fails only if
\* there is none; nothing else puts a chunk in two bins or changes the order.
THEOREM MostRecentKept == Spec => MostRecentFit
<1>1. RingsInv /\ [Next]_vars => [Promise!Next]_(Promise!vars)
  <2>1. ASSUME RingsInv, UNCHANGED vars PROVE UNCHANGED Promise!vars
    <3>1. UNCHANGED <<smallmap, links>> /\ request' = request /\ found' = found
      BY <2>1 DEF vars
    <3>2. Rings' = Rings
      BY <2>1, <3>1, RingsStay
    <3>3. [z \in Range(ChunkSize) |-> Ring(small_index(z))]' = [z \in Range(ChunkSize) |-> Ring(small_index(z))]
      BY <3>2, QueueOfRings
    <3> QED
      BY <3>1, <3>3 DEF Promise!vars
  <2> QED
    BY <2>1, PromiseGoesOn
<1>2. Init => Promise!Init
  BY RingsInvHolds, PromiseBegins
<1>3. Spec => Promise!Spec
  BY <1>1, <1>2, RingsAlways, PTL DEF Spec, Promise!Spec
<1> QED
  BY <1>3 DEF MostRecentFit

-----------------------------------------------------------------------------
(* Powers of two and division *)

\* Shifts of 1 are positive,
LEMMA PowersAreNumbers ==
  ASSUME PowersDouble
  PROVE  \A n \in 0..SIZE_T_BITS : 2 ^ n \in Nat /\ 2 ^ n > 0
<1> DEFINE T == {n \in 0..SIZE_T_BITS : 2 ^ n \in Nat /\ 2 ^ n > 0}
<1>1. PICK w \in Nat : w = SIZE_T_BITS
  BY TreeIndexAssumption
<1>2. 2 ^ 0 = 1
  OBVIOUS
<1>3. 0 \in T
  BY <1>1, <1>2
<1>4. ASSUME NEW n \in 1..w, n - 1 \in T PROVE n \in T
  <2>1. PICK m \in 0..(w - 1) : m = n - 1 /\ n = m + 1
    BY <1>1
  <2>2. 2 ^ n = 2 * 2 ^ m
    BY <1>1, <2>1 DEF PowersDouble
  <2>3. PICK y \in Nat : y = 2 ^ m /\ y > 0
    BY <1>4, <2>1
  <2>4. 2 * y \in Nat /\ 2 * y > 0
    BY <2>3
  <2> QED
    BY <1>1, <2>2, <2>3, <2>4
<1> HIDE DEF T
<1>5. \A n \in 0..w : n \in T
  BY <1>3, <1>4, Upward
<1> QED
  BY <1>1, <1>5 DEF T

\* add up,
LEMMA PowersAdd ==
  ASSUME PowersDouble, NEW a \in Nat, NEW b \in Nat, a + b <= SIZE_T_BITS
  PROVE  2 ^ (a + b) = 2 ^ a * 2 ^ b
<1> DEFINE T == {n \in 0..b : 2 ^ (a + n) = 2 ^ a * 2 ^ n}
<1>1. PICK w \in Nat : w = SIZE_T_BITS
  BY TreeIndexAssumption
<1>2. PICK x \in Nat : x = 2 ^ a
  BY <1>1, PowersAreNumbers
<1>3. 0 \in T
  <2>1. 2 ^ 0 = 1 /\ a + 0 = a
    OBVIOUS
  <2> QED
    BY <1>2, <2>1
<1>4. ASSUME NEW n \in 1..b, n - 1 \in T PROVE n \in T
  <2>1. PICK m \in Nat : m = n - 1 /\ n = m + 1 /\ a + n = (a + m) + 1
    OBVIOUS
  <2>2. m \in 0..(w - 1) /\ a + m \in 0..(w - 1)
    BY <1>1, <2>1
  <2>3. 2 ^ n = 2 * 2 ^ m /\ 2 ^ (a + n) = 2 * 2 ^ (a + m)
    BY <1>1, <2>1, <2>2 DEF PowersDouble
  <2>4. PICK y \in Nat : y = 2 ^ m
    BY <1>1, <2>2, PowersAreNumbers
  <2>5. 2 ^ (a + m) = x * y
    BY <1>2, <1>4, <2>1, <2>4
  <2>6. 2 * (x * y) = x * (2 * y)
    OBVIOUS
  <2>7. 2 ^ (a + n) = 2 ^ a * 2 ^ n
    BY <1>2, <2>3, <2>4, <2>5, <2>6
  <2> QED
    BY <2>7
<1> HIDE DEF T
<1>5. \A n \in 0..b : n \in T
  BY <1>3, <1>4, Upward
<1>6. b \in T
  BY <1>5
<1> QED
  BY <1>6 DEF T

\* and at least double.
LEMMA PowersGrow ==
  ASSUME PowersDouble, NEW a \in Nat, NEW b \in Nat, a < b, b <= SIZE_T_BITS
  PROVE  2 * 2 ^ a <= 2 ^ b
<1>1. PICK w \in Nat : w = SIZE_T_BITS
  BY TreeIndexAssumption
<1>2. PICK r \in Nat : b = (a + 1) + r
  <2>1. b - (a + 1) \in Nat /\ b = (a + 1) + (b - (a + 1))
    OBVIOUS
  <2> QED
    BY <2>1
<1>3. a + 1 \in Nat /\ (a + 1) + r <= SIZE_T_BITS
  BY <1>2
<1>4. 2 ^ b = 2 ^ (a + 1) * 2 ^ r
  BY <1>2, <1>3, PowersAdd
<1>5. a \in 0..(w - 1) /\ r \in 0..w
  BY <1>1, <1>2
<1>6. 2 ^ (a + 1) = 2 * 2 ^ a
  BY <1>1, <1>5 DEF PowersDouble
<1>7. PICK x \in Nat : x = 2 ^ a
  BY <1>1, <1>5, PowersAreNumbers
<1>8. PICK y \in Nat : y = 2 ^ r /\ y >= 1
  BY <1>1, <1>5, PowersAreNumbers
<1>9. 2 * x <= (2 * x) * y
  BY <1>8
<1> QED
  BY <1>4, <1>6, <1>7, <1>8, <1>9

\* What division leaves,
LEMMA DivFacts ==
  ASSUME NEW x \in Nat, NEW d \in Nat, d > 0
  PROVE  /\ x \div d \in Nat /\ x % d \in Nat /\ x % d < d
         /\ x = d * (x \div d) + (x % d)
  OBVIOUS

\* which nothing else is.
LEMMA DivUnique ==
  ASSUME NEW d \in Nat, NEW q \in Nat, NEW l \in Nat, l < d
  PROVE  (d * q + l) \div d = q /\ (d * q + l) % d = l
  OBVIOUS

-----------------------------------------------------------------------------
(* The bin of a size *)

\* The powers that the portable version shifts by.
LEMMA Literals ==
  /\ \A e \in {0} : 2 ^ e = 1
  /\ \A e \in {1} : 2 ^ e = 2
  /\ \A e \in {2} : 2 ^ e = 4
  /\ \A e \in {3} : 2 ^ e = 8
  /\ \A e \in {4} : 2 ^ e = 16
  /\ \A e \in {5} : 2 ^ e = 32
  /\ \A e \in {6} : 2 ^ e = 64
  /\ \A e \in {7} : 2 ^ e = 128
  /\ \A e \in {8} : 2 ^ e = 256
  /\ \A e \in {9} : 2 ^ e = 512
  /\ \A e \in {10} : 2 ^ e = 1024
  /\ \A e \in {11} : 2 ^ e = 2048
  /\ \A e \in {12} : 2 ^ e = 4096
  /\ \A e \in {13} : 2 ^ e = 8192
  /\ \A e \in {14} : 2 ^ e = 16384
  /\ \A e \in {15} : 2 ^ e = 32768
  /\ \A e \in {16} : 2 ^ e = 65536
  BY SMT

\* What they make of X.
LEMMA Shifted ==
  ASSUME NEW X \in Nat, NEW n
  PROVE  /\ n = 0 => X * 2 ^ n = X * 1
         /\ n = 2 => X * 2 ^ n = X * 4
         /\ n = 4 => X * 2 ^ n = X * 16
         /\ n = 6 => X * 2 ^ n = X * 64
         /\ n = 8 => X * 2 ^ n = X * 256
         /\ n = 10 => X * 2 ^ n = X * 1024
         /\ n = 12 => X * 2 ^ n = X * 4096
         /\ n = 14 => X * 2 ^ n = X * 16384
<1>1. ASSUME n = 0 PROVE X * 2 ^ n = X * 1
  <2>1. 2 ^ n = 1
    BY <1>1, Literals, SMT
  <2> QED
    BY <2>1
<1>2. ASSUME n = 2 PROVE X * 2 ^ n = X * 4
  <2>1. 2 ^ n = 4
    BY <1>2, Literals, SMT
  <2> QED
    BY <2>1
<1>3. ASSUME n = 4 PROVE X * 2 ^ n = X * 16
  <2>1. 2 ^ n = 16
    BY <1>3, Literals, SMT
  <2> QED
    BY <2>1
<1>4. ASSUME n = 6 PROVE X * 2 ^ n = X * 64
  <2>1. 2 ^ n = 64
    BY <1>4, Literals, SMT
  <2> QED
    BY <2>1
<1>5. ASSUME n = 8 PROVE X * 2 ^ n = X * 256
  <2>1. 2 ^ n = 256
    BY <1>5, Literals, SMT
  <2> QED
    BY <2>1
<1>6. ASSUME n = 10 PROVE X * 2 ^ n = X * 1024
  <2>1. 2 ^ n = 1024
    BY <1>6, Literals, SMT
  <2> QED
    BY <2>1
<1>7. ASSUME n = 12 PROVE X * 2 ^ n = X * 4096
  <2>1. 2 ^ n = 4096
    BY <1>7, Literals, SMT
  <2> QED
    BY <2>1
<1>8. ASSUME n = 14 PROVE X * 2 ^ n = X * 16384
  <2>1. 2 ^ n = 16384
    BY <1>8, Literals, SMT
  <2> QED
    BY <2>1
<1> QED
  BY <1>1, <1>2, <1>3, <1>4, <1>5, <1>6, <1>7, <1>8, SMT

\* Each step of the portable version tells whether X has room for its shift.
LEMMA Shifts ==
  ASSUME NEW X \in Nat, X > 0, X <= 65535
  PROVE  /\ Eight(X) = IF X < 256 THEN 8 ELSE 0
         /\ \A Y \in Nat : Y <= 65535 => Four(Y) = IF Y < 4096 THEN 4 ELSE 0
         /\ \A Y \in Nat : Y <= 65535 => Two(Y) = IF Y < 16384 THEN 2 ELSE 0
<1>1. \A Y \in Int : Y >= -4096 /\ Y < 0 =>
        (Y \div 524288) % 2 = 1 /\ (Y \div 262144) % 2 = 1
  BY SMT
<1>2. \A Y \in Int : Y >= -16384 /\ Y < 0 => (Y \div 131072) % 2 = 1
  BY SMT
<1>3. \A Y \in Int : Y >= 0 /\ Y <= 65535 =>
        (Y \div 524288) % 2 = 0 /\ (Y \div 262144) % 2 = 0 /\ (Y \div 131072) % 2 = 0
  BY SMT
<1>4. Eight(X) = 8 * (((X - 256) \div 524288) % 2)
  BY SMT DEF Eight, Bit
<1>5. \A Y \in Nat : /\ Four(Y) = 4 * (((Y - 4096) \div 262144) % 2)
                     /\ Two(Y) = 2 * (((Y - 16384) \div 131072) % 2)
  BY SMT DEF Four, Two, Bit
<1>6. Eight(X) = IF X < 256 THEN 8 ELSE 0
  <2>1. PICK Z \in Int : Z = X - 256 /\ Z >= -4096 /\ Z <= 65535 /\ (Z < 0 <=> X < 256)
    BY SMT
  <2> QED
    BY <1>1, <1>3, <1>4, <2>1, SMT
<1>7. ASSUME NEW Y \in Nat, Y <= 65535
      PROVE  Four(Y) = IF Y < 4096 THEN 4 ELSE 0
  <2>1. PICK Z \in Int : Z = Y - 4096 /\ Z >= -4096 /\ Z <= 65535 /\ (Z < 0 <=> Y < 4096)
    BY <1>7, SMT
  <2>2. Four(Y) = 4 * ((Z \div 262144) % 2)
    BY <1>5, <2>1, SMT
  <2>3. (Z \div 262144) % 2 = IF Y < 4096 THEN 1 ELSE 0
    BY <1>1, <1>3, <2>1, SMT
  <2> QED
    BY <2>2, <2>3, SMT
<1>8. ASSUME NEW Y \in Nat, Y <= 65535
      PROVE  Two(Y) = IF Y < 16384 THEN 2 ELSE 0
  <2>1. PICK Z \in Int : Z = Y - 16384 /\ Z >= -16384 /\ Z <= 65535 /\ (Z < 0 <=> Y < 16384)
    BY <1>8, SMT
  <2>2. Two(Y) = 2 * ((Z \div 131072) % 2)
    BY <1>5, <2>1, SMT
  <2>3. (Z \div 131072) % 2 = IF Y < 16384 THEN 1 ELSE 0
    BY <1>2, <1>3, <2>1, SMT
  <2> QED
    BY <2>2, <2>3, SMT
<1> QED
  BY <1>6, <1>7, <1>8, SMT

\* The portable version counts the zeros above the highest bit of X.
LEMMA PortableBit ==
  ASSUME NEW X \in Nat, X > 0, X <= 65535, NEW N8, N8 = Eight(X), NEW N4, N4 = N8 + Four(X * 2 ^ N8),
         NEW N, N = N4 + Two(X * 2 ^ N4)
  PROVE  \E K \in 0..15 :
           2 ^ K <= X /\ X < 2 ^ (K + 1) /\ 14 - N + ((X * 2 ^ N) \div 2 ^ 15) = K
<1> DEFINE Goal(K) == 2 ^ K <= X /\ X < 2 ^ (K + 1) /\ 14 - N + ((X * 2 ^ N) \div 2 ^ 15) = K
<1>1. CASE X < 4
  <2>1. N8 = 8
    BY <1>1, Shifts, SMT
  <2>2. X * 2 ^ N8 = X * 256
    BY <2>1, Shifted, SMT
  <2>3. X * 256 \in Nat /\ X * 256 <= 65535 /\ X * 256 < 4096
    BY <1>1, SMT
  <2>4. N4 = 12
    BY <2>1, <2>2, <2>3, Shifts, SMT
  <2>5. X * 2 ^ N4 = X * 4096
    BY <2>4, Shifted, SMT
  <2>6. X * 4096 \in Nat /\ X * 4096 <= 65535 /\ X * 4096 < 16384
    BY <1>1, SMT
  <2>7. N = 14
    BY <2>4, <2>5, <2>6, Shifts, SMT
  <2>8. X * 2 ^ N = X * 16384
    BY <2>7, Shifted, SMT
  <2>9. (X * 16384) \div 32768 = IF X < 2 THEN 0 ELSE 1
    BY <1>1, SMT
  <2>10. 14 - N + ((X * 2 ^ N) \div 2 ^ 15) = IF X < 2 THEN 0 ELSE 1
    BY <2>7, <2>8, <2>9, SMT
  <2>11. Goal(IF X < 2 THEN 0 ELSE 1)
    BY <1>1, <2>10, Literals, SMT
  <2> QED
    BY <2>11
<1>2. CASE X >= 4 /\ X < 16
  <2>1. N8 = 8
    BY <1>2, Shifts, SMT
  <2>2. X * 2 ^ N8 = X * 256
    BY <2>1, Shifted, SMT
  <2>3. X * 256 \in Nat /\ X * 256 <= 65535 /\ X * 256 < 4096
    BY <1>2, SMT
  <2>4. N4 = 12
    BY <2>1, <2>2, <2>3, Shifts, SMT
  <2>5. X * 2 ^ N4 = X * 4096
    BY <2>4, Shifted, SMT
  <2>6. X * 4096 \in Nat /\ X * 4096 <= 65535 /\ X * 4096 >= 16384
    BY <1>2, SMT
  <2>7. N = 12
    BY <2>4, <2>5, <2>6, Shifts, SMT
  <2>8. X * 2 ^ N = X * 4096
    BY <2>7, Shifted, SMT
  <2>9. (X * 4096) \div 32768 = IF X < 8 THEN 0 ELSE 1
    BY <1>2, SMT
  <2>10. 14 - N + ((X * 2 ^ N) \div 2 ^ 15) = IF X < 8 THEN 2 ELSE 3
    BY <2>7, <2>8, <2>9, SMT
  <2>11. Goal(IF X < 8 THEN 2 ELSE 3)
    BY <1>2, <2>10, Literals, SMT
  <2> QED
    BY <2>11
<1>3. CASE X >= 16 /\ X < 64
  <2>1. N8 = 8
    BY <1>3, Shifts, SMT
  <2>2. X * 2 ^ N8 = X * 256
    BY <2>1, Shifted, SMT
  <2>3. X * 256 \in Nat /\ X * 256 <= 65535 /\ X * 256 >= 4096
    BY <1>3, SMT
  <2>4. N4 = 8
    BY <2>1, <2>2, <2>3, Shifts, SMT
  <2>5. X * 2 ^ N4 = X * 256
    BY <2>4, Shifted, SMT
  <2>6. X * 256 \in Nat /\ X * 256 <= 65535 /\ X * 256 < 16384
    BY <1>3, SMT
  <2>7. N = 10
    BY <2>4, <2>5, <2>6, Shifts, SMT
  <2>8. X * 2 ^ N = X * 1024
    BY <2>7, Shifted, SMT
  <2>9. (X * 1024) \div 32768 = IF X < 32 THEN 0 ELSE 1
    BY <1>3, SMT
  <2>10. 14 - N + ((X * 2 ^ N) \div 2 ^ 15) = IF X < 32 THEN 4 ELSE 5
    BY <2>7, <2>8, <2>9, SMT
  <2>11. Goal(IF X < 32 THEN 4 ELSE 5)
    BY <1>3, <2>10, Literals, SMT
  <2> QED
    BY <2>11
<1>4. CASE X >= 64 /\ X < 256
  <2>1. N8 = 8
    BY <1>4, Shifts, SMT
  <2>2. X * 2 ^ N8 = X * 256
    BY <2>1, Shifted, SMT
  <2>3. X * 256 \in Nat /\ X * 256 <= 65535 /\ X * 256 >= 4096
    BY <1>4, SMT
  <2>4. N4 = 8
    BY <2>1, <2>2, <2>3, Shifts, SMT
  <2>5. X * 2 ^ N4 = X * 256
    BY <2>4, Shifted, SMT
  <2>6. X * 256 \in Nat /\ X * 256 <= 65535 /\ X * 256 >= 16384
    BY <1>4, SMT
  <2>7. N = 8
    BY <2>4, <2>5, <2>6, Shifts, SMT
  <2>8. X * 2 ^ N = X * 256
    BY <2>7, Shifted, SMT
  <2>9. (X * 256) \div 32768 = IF X < 128 THEN 0 ELSE 1
    BY <1>4, SMT
  <2>10. 14 - N + ((X * 2 ^ N) \div 2 ^ 15) = IF X < 128 THEN 6 ELSE 7
    BY <2>7, <2>8, <2>9, SMT
  <2>11. Goal(IF X < 128 THEN 6 ELSE 7)
    BY <1>4, <2>10, Literals, SMT
  <2> QED
    BY <2>11
<1>5. CASE X >= 256 /\ X < 1024
  <2>1. N8 = 0
    BY <1>5, Shifts, SMT
  <2>2. X * 2 ^ N8 = X * 1
    BY <2>1, Shifted, SMT
  <2>3. X * 1 \in Nat /\ X * 1 <= 65535 /\ X * 1 < 4096
    BY <1>5, SMT
  <2>4. N4 = 4
    BY <2>1, <2>2, <2>3, Shifts, SMT
  <2>5. X * 2 ^ N4 = X * 16
    BY <2>4, Shifted, SMT
  <2>6. X * 16 \in Nat /\ X * 16 <= 65535 /\ X * 16 < 16384
    BY <1>5, SMT
  <2>7. N = 6
    BY <2>4, <2>5, <2>6, Shifts, SMT
  <2>8. X * 2 ^ N = X * 64
    BY <2>7, Shifted, SMT
  <2>9. (X * 64) \div 32768 = IF X < 512 THEN 0 ELSE 1
    BY <1>5, SMT
  <2>10. 14 - N + ((X * 2 ^ N) \div 2 ^ 15) = IF X < 512 THEN 8 ELSE 9
    BY <2>7, <2>8, <2>9, SMT
  <2>11. Goal(IF X < 512 THEN 8 ELSE 9)
    BY <1>5, <2>10, Literals, SMT
  <2> QED
    BY <2>11
<1>6. CASE X >= 1024 /\ X < 4096
  <2>1. N8 = 0
    BY <1>6, Shifts, SMT
  <2>2. X * 2 ^ N8 = X * 1
    BY <2>1, Shifted, SMT
  <2>3. X * 1 \in Nat /\ X * 1 <= 65535 /\ X * 1 < 4096
    BY <1>6, SMT
  <2>4. N4 = 4
    BY <2>1, <2>2, <2>3, Shifts, SMT
  <2>5. X * 2 ^ N4 = X * 16
    BY <2>4, Shifted, SMT
  <2>6. X * 16 \in Nat /\ X * 16 <= 65535 /\ X * 16 >= 16384
    BY <1>6, SMT
  <2>7. N = 4
    BY <2>4, <2>5, <2>6, Shifts, SMT
  <2>8. X * 2 ^ N = X * 16
    BY <2>7, Shifted, SMT
  <2>9. (X * 16) \div 32768 = IF X < 2048 THEN 0 ELSE 1
    BY <1>6, SMT
  <2>10. 14 - N + ((X * 2 ^ N) \div 2 ^ 15) = IF X < 2048 THEN 10 ELSE 11
    BY <2>7, <2>8, <2>9, SMT
  <2>11. Goal(IF X < 2048 THEN 10 ELSE 11)
    BY <1>6, <2>10, Literals, SMT
  <2> QED
    BY <2>11
<1>7. CASE X >= 4096 /\ X < 16384
  <2>1. N8 = 0
    BY <1>7, Shifts, SMT
  <2>2. X * 2 ^ N8 = X * 1
    BY <2>1, Shifted, SMT
  <2>3. X * 1 \in Nat /\ X * 1 <= 65535 /\ X * 1 >= 4096
    BY <1>7, SMT
  <2>4. N4 = 0
    BY <2>1, <2>2, <2>3, Shifts, SMT
  <2>5. X * 2 ^ N4 = X * 1
    BY <2>4, Shifted, SMT
  <2>6. X * 1 \in Nat /\ X * 1 <= 65535 /\ X * 1 < 16384
    BY <1>7, SMT
  <2>7. N = 2
    BY <2>4, <2>5, <2>6, Shifts, SMT
  <2>8. X * 2 ^ N = X * 4
    BY <2>7, Shifted, SMT
  <2>9. (X * 4) \div 32768 = IF X < 8192 THEN 0 ELSE 1
    BY <1>7, SMT
  <2>10. 14 - N + ((X * 2 ^ N) \div 2 ^ 15) = IF X < 8192 THEN 12 ELSE 13
    BY <2>7, <2>8, <2>9, SMT
  <2>11. Goal(IF X < 8192 THEN 12 ELSE 13)
    BY <1>7, <2>10, Literals, SMT
  <2> QED
    BY <2>11
<1>8. CASE X >= 16384
  <2>1. N8 = 0
    BY <1>8, Shifts, SMT
  <2>2. X * 2 ^ N8 = X * 1
    BY <2>1, Shifted, SMT
  <2>3. X * 1 \in Nat /\ X * 1 <= 65535 /\ X * 1 >= 4096
    BY <1>8, SMT
  <2>4. N4 = 0
    BY <2>1, <2>2, <2>3, Shifts, SMT
  <2>5. X * 2 ^ N4 = X * 1
    BY <2>4, Shifted, SMT
  <2>6. X * 1 \in Nat /\ X * 1 <= 65535 /\ X * 1 >= 16384
    BY <1>8, SMT
  <2>7. N = 0
    BY <2>4, <2>5, <2>6, Shifts, SMT
  <2>8. X * 2 ^ N = X * 1
    BY <2>7, Shifted, SMT
  <2>9. (X * 1) \div 32768 = IF X < 32768 THEN 0 ELSE 1
    BY <1>8, SMT
  <2>10. 14 - N + ((X * 2 ^ N) \div 2 ^ 15) = IF X < 32768 THEN 14 ELSE 15
    BY <2>7, <2>8, <2>9, SMT
  <2>11. Goal(IF X < 32768 THEN 14 ELSE 15)
    BY <1>8, <2>10, Literals, SMT
  <2> QED
    BY <2>11
<1> QED
  BY <1>1, <1>2, <1>3, <1>4, <1>5, <1>6, <1>7, <1>8, SMT

\* X holds what is left of a size.
LEMMA NothingLost ==
  ASSUME PowersDouble, XHolds, NEW S \in Nat, S < 2 ^ SIZE_T_BITS
  PROVE  (S \div 256) % 2 ^ UINT_BITS = S \div 256
<1>1. PICK w \in Nat, u \in Nat : w = SIZE_T_BITS /\ u = UINT_BITS /\ w >= 25 /\ w <= u + 8 /\ u <= w
  BY TreeIndexAssumption DEF XHolds
<1>2. PICK r \in Nat : w = r + 8 /\ r <= u
  <2>1. w - 8 \in Nat /\ w = (w - 8) + 8 /\ w - 8 <= u
    BY <1>1
  <2> QED
    BY <2>1
<1>3. PICK x \in Nat : x = 2 ^ r /\ x > 0
  BY <1>1, <1>2, PowersAreNumbers
<1>4. PICK y \in Nat : y = 2 ^ u /\ y > 0
  BY <1>1, <1>2, PowersAreNumbers
<1>5. x <= y
  <2>1. CASE r = u
    BY <1>3, <1>4, <2>1
  <2>2. CASE r < u
    BY <1>1, <1>3, <1>4, <2>2, PowersGrow
  <2> QED
    BY <1>2, <2>1, <2>2
<1>6. 2 ^ w = x * 256
  <2>1. PICK e \in Nat : e = 8 /\ w = r + e
    BY <1>2
  <2>2. r + e <= SIZE_T_BITS
    BY <1>1, <2>1
  <2>3. 2 ^ (r + e) = 2 ^ r * 2 ^ e
    BY <2>2, PowersAdd
  <2>4. 2 ^ e = 256
    BY <2>1, Literals
  <2> QED
    BY <1>3, <2>1, <2>3, <2>4
<1>7. PICK X \in Nat : X = S \div 256 /\ 256 * X <= S
  BY DivFacts
<1>8. X < y
  <2>1. 256 * X < 256 * x
    BY <1>1, <1>3, <1>6, <1>7
  <2> QED
    BY <1>3, <1>4, <1>5, <2>1
<1>9. y * 0 + X = X /\ (y * 0 + X) % y = X
  BY <1>4, <1>8, DivUnique
<1>10. X % y = X
  BY <1>9
<1> QED
  BY <1>1, <1>4, <1>7, <1>10

\* There is one highest bit.
LEMMA BitFound ==
  ASSUME PowersDouble, NEW X \in Nat, NEW K \in 0..15, 2 ^ K <= X, X < 2 ^ (K + 1)
  PROVE  HighestBit(X) = K
<1>1. PICK w \in Nat, u \in Nat : w = SIZE_T_BITS /\ u = UINT_BITS /\ w >= 25 /\ u >= 16 /\ u <= w
  BY TreeIndexAssumption
<1>2. K \in 0..u
  BY <1>1
<1>3. ASSUME NEW n \in 0..u, 2 ^ n <= X, X < 2 ^ (n + 1) PROVE n = K
  <2>1. PICK x \in Nat : x = 2 ^ K /\ 2 ^ (K + 1) = 2 * x
    BY <1>1, PowersAreNumbers DEF PowersDouble
  <2>2. CASE n < K
    <3>1. PICK y \in Nat : y = 2 ^ n /\ 2 ^ (n + 1) = 2 * y
      BY <1>1, <2>2, PowersAreNumbers DEF PowersDouble
    <3>2. 2 * y <= x
      BY <1>1, <2>1, <2>2, <3>1, PowersGrow
    <3> QED
      BY <1>3, <2>1, <3>1, <3>2
  <2>3. CASE n > K
    <3>1. PICK y \in Nat : y = 2 ^ n
      BY <1>1, PowersAreNumbers
    <3>2. 2 * x <= y
      BY <1>1, <2>1, <2>3, <3>1, PowersGrow
    <3> QED
      BY <1>3, <2>1, <3>1, <3>2
  <2> QED
    BY <2>2, <2>3
<1>4. HighestBit(X) = CHOOSE n \in 0..u : 2 ^ n <= X /\ X < 2 ^ (n + 1)
  BY <1>1 DEF HighestBit
<1> QED
  BY <1>2, <1>3, <1>4

\* The bin of a size: the last, or two for each highest bit.
LEMMA IndexIs ==
  ASSUME PowersDouble, XHolds, NEW S \in Nat, S >= 256, S < 2 ^ SIZE_T_BITS
  PROVE  \/ S >= 2 ^ 24 /\ compute_tree_index(S) = 31 /\ compute_tree_index_portable(S) = 31
         \/ \E K \in 0..15 :
              /\ 256 * 2 ^ K <= S /\ S < 256 * 2 ^ (K + 1)
              /\ compute_tree_index(S) = 2 * K + Bit(S, K + 7)
              /\ compute_tree_index_portable(S) = 2 * K + Bit(S, K + 7)
<1>1. NTREEBINS = 32 /\ TREEBIN_SHIFT = 8
  BY TreeIndexAssumption
<1>2. PICK X \in Nat : X = S \div 256 /\ 256 * X <= S /\ S < 256 * (X + 1) /\ X > 0
  BY SMT
<1>3. S \div 2 ^ TREEBIN_SHIFT = X
  <2>1. \A e \in {8} : 2 ^ e = 256
    BY Literals
  <2> QED
    BY <1>1, <1>2, <2>1
<1>4. X % 2 ^ UINT_BITS = X
  BY <1>2, NothingLost
<1>5. compute_tree_index(S) = IF X > 65535 THEN 31 ELSE Index(S, HighestBit(X))
  BY <1>1, <1>2, <1>3, <1>4 DEF compute_tree_index
<1>6. PICK N8 : N8 = Eight(X)
  OBVIOUS
<1>7. PICK N4 : N4 = N8 + Four(X * 2 ^ N8)
  OBVIOUS
<1>8. PICK N : N = N4 + Two(X * 2 ^ N4)
  OBVIOUS
<1>9. compute_tree_index_portable(S) =
        IF X > 65535 THEN 31 ELSE Index(S, 14 - N + ((X * 2 ^ N) \div 2 ^ 15))
  BY <1>1, <1>2, <1>3, <1>6, <1>7, <1>8 DEF compute_tree_index_portable
<1>10. CASE X > 65535
  <2>1. S >= 16777216
    BY <1>2, <1>10
  <2>2. 2 ^ 24 = 16777216
    BY SMT
  <2> QED
    BY <1>5, <1>9, <1>10, <2>1, <2>2
<1>11. CASE X <= 65535
  <2>1. PICK K \in 0..15 :
          2 ^ K <= X /\ X < 2 ^ (K + 1) /\ 14 - N + ((X * 2 ^ N) \div 2 ^ 15) = K
    BY <1>2, <1>6, <1>7, <1>8, <1>11, PortableBit
  <2>2. HighestBit(X) = K
    BY <2>1, BitFound
  <2>3. K + (TREEBIN_SHIFT - 1) = K + 7
    BY <1>1
  <2>4. compute_tree_index(S) = 2 * K + Bit(S, K + 7) /\ compute_tree_index_portable(S) = 2 * K + Bit(S, K + 7)
    BY <1>5, <1>9, <1>11, <2>1, <2>2, <2>3 DEF Index
  <2>5. PICK x \in Nat, y \in Nat : x = 2 ^ K /\ y = 2 ^ (K + 1)
    BY TreeIndexAssumption, PowersAreNumbers
  <2>6. 256 * x <= S /\ S < 256 * y
    BY <1>2, <2>1, <2>5
  <2> QED
    BY <2>4, <2>5, <2>6
<1> QED
  BY <1>10, <1>11

\* A size that is not in the last bin for its greatness is two or three times a power
\* of two, and less than that power.
LEMMA SizeParts ==
  ASSUME PowersDouble, XHolds, NEW S \in Nat, S >= 256, S < 2 ^ SIZE_T_BITS
  PROVE  /\ compute_tree_index(S) = compute_tree_index_portable(S)
         /\ \/ S >= 2 ^ 24 /\ compute_tree_index(S) = 31
            \/ \E K \in 0..15, b \in 0..1, p \in Nat :
                 /\ p = 2 ^ (K + 7) /\ p > 0 /\ compute_tree_index(S) = 2 * K + b
                 /\ S \div p = 2 + b /\ p * (2 + b) <= S /\ S < p * (3 + b)
<1>1. ASSUME NEW K \in 0..15, 256 * 2 ^ K <= S, S < 256 * 2 ^ (K + 1),
             compute_tree_index(S) = 2 * K + Bit(S, K + 7)
      PROVE  \E b \in 0..1, p \in Nat :
               /\ p = 2 ^ (K + 7) /\ p > 0 /\ compute_tree_index(S) = 2 * K + b
               /\ S \div p = 2 + b /\ p * (2 + b) <= S /\ S < p * (3 + b)
  <2>1. PICK p \in Nat : p = 2 ^ (K + 7) /\ p > 0
    BY TreeIndexAssumption, PowersAreNumbers
  <2>2. 256 * 2 ^ K = 2 * p /\ 256 * 2 ^ (K + 1) = 4 * p
    <3>1. PICK x \in Nat : x = 2 ^ K /\ 2 ^ (K + 1) = 2 * x
      BY TreeIndexAssumption, PowersAreNumbers DEF PowersDouble
    <3>2. PICK e \in Nat : e = 7
      OBVIOUS
    <3>3. K \in Nat /\ K + e <= SIZE_T_BITS
      BY <3>2, TreeIndexAssumption
    <3>4. 2 ^ (K + e) = 2 ^ K * 2 ^ e
      BY <3>3, PowersAdd
    <3>5. 2 ^ e = 128
      BY <3>2, Literals
    <3>6. p = x * 128
      BY <2>1, <3>1, <3>2, <3>4, <3>5
    <3> QED
      BY <3>1, <3>6
  <2>3. PICK q \in Nat, l \in Nat : q = S \div p /\ S = p * q + l /\ l < p
    BY <2>1, DivFacts
  <2>4. q >= 2
    <3>1. ASSUME q <= 1 PROVE FALSE
      <4>1. p * q <= p
        BY <3>1, <2>1
      <4> QED
        BY <1>1, <2>1, <2>2, <2>3, <4>1
    <3> QED
      BY <3>1
  <2>5. q <= 3
    <3>1. ASSUME q >= 4 PROVE FALSE
      <4>1. p * q >= 4 * p
        BY <3>1, <2>1
      <4> QED
        BY <1>1, <2>1, <2>2, <2>3, <4>1
    <3> QED
      BY <3>1
  <2>6. Bit(S, K + 7) = q % 2
    BY <2>1, <2>3 DEF Bit
  <2>7. PICK b \in 0..1 : q = 2 + b /\ q % 2 = b
    BY <2>4, <2>5
  <2>8. p * (3 + b) = p * q + p
    BY <2>1, <2>7
  <2> QED
    BY <1>1, <2>1, <2>3, <2>6, <2>7, <2>8
<1>2. CASE S >= 2 ^ 24 /\ compute_tree_index(S) = 31 /\ compute_tree_index_portable(S) = 31
  BY <1>2
<1>3. CASE \E K \in 0..15 :
             /\ 256 * 2 ^ K <= S /\ S < 256 * 2 ^ (K + 1)
             /\ compute_tree_index(S) = 2 * K + Bit(S, K + 7)
             /\ compute_tree_index_portable(S) = 2 * K + Bit(S, K + 7)
  BY <1>1, <1>3
<1> QED
  BY <1>2, <1>3, IndexIs

\* It lies in the range of its bin.
LEMMA SizeInBin ==
  ASSUME PowersDouble, XHolds, NEW S \in Nat, S >= 256, S < 2 ^ SIZE_T_BITS,
         NEW idx, idx = compute_tree_index(S)
  PROVE  /\ minsize_for_tree_index(idx) <= S
         /\ idx = NTREEBINS - 1 \/ S < minsize_for_tree_index(idx + 1)
<1>1. NTREEBINS = 32 /\ TREEBIN_SHIFT = 8
  BY TreeIndexAssumption
<1>2. CASE S >= 2 ^ 24 /\ idx = 31
  <2>1. idx \div 2 = 15 /\ idx % 2 = 1
    BY <1>2
  <2>2. minsize_for_tree_index(idx) = 2 ^ (15 + 8) + 1 * 2 ^ (15 + 8 - 1)
    BY <1>1, <2>1 DEF minsize_for_tree_index
  <2>3. 2 ^ (15 + 8) + 1 * 2 ^ (15 + 8 - 1) = 12582912 /\ 2 ^ 24 = 16777216
    BY SMT
  <2> QED
    BY <1>1, <1>2, <2>2, <2>3
<1>3. CASE \E K \in 0..15, b \in 0..1, p \in Nat :
             /\ p = 2 ^ (K + 7) /\ p > 0 /\ idx = 2 * K + b
             /\ S \div p = 2 + b /\ p * (2 + b) <= S /\ S < p * (3 + b)
  <2>1. PICK K \in 0..15, b \in 0..1, p \in Nat :
             /\ p = 2 ^ (K + 7) /\ p > 0 /\ idx = 2 * K + b
             /\ S \div p = 2 + b /\ p * (2 + b) <= S /\ S < p * (3 + b)
    BY <1>3
  <2>2. 2 ^ (K + 8) = 2 * p /\ 2 ^ (K + 9) = 4 * p
    <3>1. K + 7 \in 0..(SIZE_T_BITS - 1) /\ K + 8 \in 0..(SIZE_T_BITS - 1)
      BY TreeIndexAssumption
    <3>2. K + 8 = (K + 7) + 1 /\ K + 9 = (K + 8) + 1
      OBVIOUS
    <3>3. 2 ^ (K + 8) = 2 * p
      BY <2>1, <3>1, <3>2 DEF PowersDouble
    <3>4. 2 ^ (K + 9) = 2 * 2 ^ (K + 8)
      BY <3>1, <3>2 DEF PowersDouble
    <3> QED
      BY <3>3, <3>4
  <2>3. \A i \in Nat, h \in Nat, c \in 0..1 : i = 2 * h + c => i \div 2 = h /\ i % 2 = c
    OBVIOUS
  <2>4. \A h \in 0..15, c \in 0..1 :
          minsize_for_tree_index(2 * h + c) = 2 ^ (h + 8) + c * 2 ^ (h + 7)
    <3> TAKE h \in 0..15, c \in 0..1
    <3>1. (2 * h + c) \div 2 = h /\ (2 * h + c) % 2 = c
      BY <2>3
    <3>2. h + 8 - 1 = h + 7
      OBVIOUS
    <3> QED
      BY <1>1, <3>1, <3>2 DEF minsize_for_tree_index
  <2>5. minsize_for_tree_index(idx) = 2 * p + b * p
    BY <2>1, <2>2, <2>4
  <2>6. CASE b = 0
    <3>1. minsize_for_tree_index(idx + 1) = 3 * p
      <4>1. PICK c \in 0..1 : c = 1 /\ idx + 1 = 2 * K + c
        BY <2>1, <2>6
      <4>2. minsize_for_tree_index(2 * K + c) = 2 ^ (K + 8) + c * 2 ^ (K + 7)
        BY <2>4
      <4> QED
        BY <2>1, <2>2, <4>1, <4>2
    <3> QED
      BY <2>1, <2>5, <2>6, <3>1
  <2>7. CASE b = 1
    <3>1. CASE K = 15
      BY <1>1, <2>1, <2>5, <2>7, <3>1
    <3>2. CASE K # 15
      <4>1. PICK h \in 0..15, c \in 0..1 : h = K + 1 /\ c = 0 /\ idx + 1 = 2 * h + c
        BY <2>1, <2>7, <3>2
      <4>2. minsize_for_tree_index(2 * h + c) = 2 ^ (h + 8) + c * 2 ^ (h + 7)
        BY <2>4
      <4>3. h + 8 = K + 9
        BY <4>1
      <4>4. PICK y \in Nat : y = 2 ^ (h + 7)
        BY TreeIndexAssumption, PowersAreNumbers
      <4>5. minsize_for_tree_index(idx + 1) = 4 * p
        BY <2>1, <2>2, <4>1, <4>2, <4>3, <4>4
      <4> QED
        BY <2>1, <2>5, <2>7, <4>5
    <3> QED
      BY <3>1, <3>2
  <2> QED
    BY <2>6, <2>7
<1> QED
  BY <1>2, <1>3, SizeParts

-----------------------------------------------------------------------------
(* Two ways down a tree *)

\* The lowest r bits of a size, shifted to the top.
Low(x, r) == (x % 2 ^ r) * 2 ^ (SIZE_T_BITS - r)

\* The next bit to look at is the highest of them, and the shift leaves the rest.
LEMMA LowFacts ==
  ASSUME PowersDouble, NEW x \in Nat, NEW r \in Nat, r >= 1, r <= SIZE_T_BITS
  PROVE  /\ child(Low(x, r)) \in 0..1
         /\ x \div 2 ^ (r - 1) = 2 * (x \div 2 ^ r) + child(Low(x, r))
         /\ shl(Low(x, r), 1) = Low(x, r - 1)
<1>1. PICK w \in Nat : w = SIZE_T_BITS /\ w >= 25
  BY TreeIndexAssumption
<1>2. PICK t \in Nat, v \in Nat : t = r - 1 /\ r = t + 1 /\ v = w - r /\ t + v = w - 1 /\ v + 1 = w - t
  <2>1. r - 1 \in Nat /\ w - r \in Nat
    BY <1>1
  <2> QED
    BY <2>1
<1>3. PICK d \in Nat : d = 2 ^ t /\ d > 0 /\ 2 ^ r = 2 * d
  BY <1>1, <1>2, PowersAreNumbers DEF PowersDouble
<1>4. PICK z \in Nat : z = 2 ^ v /\ z > 0 /\ 2 ^ (v + 1) = 2 * z
  BY <1>1, <1>2, PowersAreNumbers DEF PowersDouble
<1>5. PICK u \in Nat : u = 2 ^ (w - 1) /\ u = d * z
  <2>1. t + v <= SIZE_T_BITS
    BY <1>1, <1>2
  <2>2. 2 ^ (t + v) = 2 ^ t * 2 ^ v
    BY <2>1, PowersAdd
  <2> QED
    BY <1>2, <1>3, <1>4, <2>2
<1>6. PICK h \in Nat, m \in Nat : h = x \div (2 * d) /\ m = x % (2 * d) /\ m < 2 * d /\ x = (2 * d) * h + m
  BY <1>3, DivFacts
<1>7. PICK b \in 0..1, l \in Nat : m = d * b + l /\ l < d
  <2>1. CASE m < d
    BY <2>1
  <2>2. CASE m >= d
    <3>1. m - d \in Nat /\ m = d * 1 + (m - d) /\ m - d < d
      BY <1>6, <2>2
    <3> QED
      BY <3>1
  <2> QED
    BY <2>1, <2>2
<1>8. x \div d = 2 * h + b /\ x % d = l
  <2>1. PICK q \in Nat : q = 2 * h + b
    OBVIOUS
  <2>2. x = d * q + l
    <3>1. \A i, j \in Nat : d * (i + j) = d * i + d * j
      OBVIOUS
    <3>2. d * (2 * h) = (2 * d) * h
      OBVIOUS
    <3>3. d * q = (2 * d) * h + d * b
      BY <2>1, <3>1, <3>2
    <3>4. x = (2 * d) * h + m /\ m = d * b + l
      BY <1>6, <1>7
    <3>5. \A i, j \in Nat : i + (j + l) = (i + j) + l
      OBVIOUS
    <3>6. PICK i \in Nat, j \in Nat : i = (2 * d) * h /\ j = d * b
      OBVIOUS
    <3> QED
      BY <3>3, <3>4, <3>5, <3>6
  <2> QED
    BY <1>7, <2>1, <2>2, DivUnique
<1>9. Low(x, r) = m * z
  BY <1>1, <1>2, <1>3, <1>4, <1>6 DEF Low
<1>10. (m * z) \div u = b /\ (m * z) % u = l * z
  <2>1. l * z < d * z
    BY <1>4, <1>7
  <2>2. PICK y \in Nat : y = l * z /\ y < u
    BY <1>5, <2>1
  <2>3. m * z = u * b + y
    BY <1>5, <1>7, <2>2
  <2>4. y < u /\ b \in Nat
    BY <2>2
  <2>5. (u * b + y) \div u = b /\ (u * b + y) % u = y
    BY <2>4, DivUnique
  <2> QED
    BY <2>2, <2>3, <2>5
<1>11. child(Low(x, r)) = b
  <2>1. b % 2 = b
    OBVIOUS
  <2> QED
    BY <1>1, <1>5, <1>9, <1>10, <2>1 DEF child, Bit
<1>12. shl(Low(x, r), 1) = Low(x, r - 1)
  <2>1. shl(Low(x, r), 1) = (l * z) * 2
    BY <1>1, <1>5, <1>9, <1>10 DEF shl
  <2>2. Low(x, t) = l * (2 * z)
    BY <1>1, <1>2, <1>3, <1>4, <1>8 DEF Low
  <2>3. (l * z) * 2 = l * (2 * z)
    OBVIOUS
  <2> QED
    BY <1>2, <2>1, <2>2, <2>3
<1>13. x \div 2 ^ (r - 1) = 2 * (x \div 2 ^ r) + child(Low(x, r))
  BY <1>2, <1>3, <1>6, <1>8, <1>11
<1> QED
  BY <1>11, <1>12, <1>13

\* Sizes whose other bits are the same differ in them.
LEMMA LowsDiffer ==
  ASSUME PowersDouble, NEW x \in Nat, NEW y \in Nat, x # y, NEW r \in Nat, r <= SIZE_T_BITS,
         x \div 2 ^ r = y \div 2 ^ r
  PROVE  Low(x, r) # Low(y, r)
<1>1. PICK w \in Nat : w = SIZE_T_BITS
  BY TreeIndexAssumption
<1>2. PICK d \in Nat : d = 2 ^ r /\ d > 0
  BY <1>1, PowersAreNumbers
<1>3. PICK z \in Nat : z = 2 ^ (w - r) /\ z > 0
  BY <1>1, PowersAreNumbers
<1>4. PICK q \in Nat, m \in Nat : q = x \div d /\ m = x % d /\ x = d * q + m
  BY <1>2, DivFacts
<1>5. PICK n \in Nat : n = y % d /\ y = d * q + n
  BY <1>2, <1>4, DivFacts
<1>6. m # n
  BY <1>4, <1>5
<1>7. m * z # n * z
  <2>1. CASE m < n
    BY <1>3, <2>1
  <2>2. CASE n < m
    BY <1>3, <2>2
  <2> QED
    BY <1>6, <2>1, <2>2
<1> QED
  BY <1>1, <1>2, <1>3, <1>4, <1>5, <1>7 DEF Low

\* A smaller size has no greater quotient.
LEMMA DivGrows ==
  ASSUME NEW x \in Nat, NEW y \in Nat, x <= y, NEW d \in Nat, d > 0
  PROVE  x \div d <= y \div d
<1>1. PICK q \in Nat, m \in Nat : q = x \div d /\ x = d * q + m /\ m < d
  BY DivFacts
<1>2. PICK r \in Nat, n \in Nat : r = y \div d /\ y = d * r + n /\ n < d
  BY DivFacts
<1>3. ASSUME q > r PROVE FALSE
  <2>1. d * q >= d * (r + 1)
    BY <1>3
  <2>2. d * (r + 1) = d * r + d
    OBVIOUS
  <2> QED
    BY <1>1, <1>2, <2>1, <2>2
<1> QED
  BY <1>1, <1>2, <1>3

\* Two ways at a node where r bits are left.
Level(r) == s[1] \div 2 ^ r = s[2] \div 2 ^ r /\ k = [n \in 1..2 |-> Low(s[n], r)]

WayInv ==
  /\ s \in [1..2 -> LargeSizes] /\ s[1] <= s[2] /\ walk \in {"index", "down", "parted"}
  /\ walk # "index" => s[1] < s[2] /\ \E r \in 1..SIZE_T_BITS : Level(r)
  /\ walk = "parted" => child(k[1]) # child(k[2])

\* All sizes compared are sizes of large chunks.
LEMMA SizesFit ==
  \A x \in LargeSizes : x \in Nat /\ x >= 256 /\ x < 2 ^ SIZE_T_BITS
<1>1. 2 ^ TREEBIN_SHIFT = 256
  BY TreeIndexAssumption, Literals
<1> QED
  BY <1>1, LargeAssumption

\* Sizes of one bin are the same above the bits that its shift brings to the top.
LEMMA Entering ==
  ASSUME PowersDouble, XHolds, NEW x \in Nat, NEW y \in Nat, x >= 256, y >= 256,
         x < 2 ^ SIZE_T_BITS, y < 2 ^ SIZE_T_BITS,
         NEW idx, idx = compute_tree_index(x), idx = compute_tree_index(y)
  PROVE  \E r \in 1..SIZE_T_BITS :
           /\ x \div 2 ^ r = y \div 2 ^ r
           /\ shl(x, leftshift_for_tree_index(idx)) = Low(x, r)
           /\ shl(y, leftshift_for_tree_index(idx)) = Low(y, r)
<1>1. NTREEBINS = 32 /\ TREEBIN_SHIFT = 8
  BY TreeIndexAssumption
<1>2. PICK w \in Nat : w = SIZE_T_BITS /\ w >= 25
  BY TreeIndexAssumption
<1>3. CASE idx = 31
  <2>1. leftshift_for_tree_index(idx) = 0
    BY <1>1, <1>3 DEF leftshift_for_tree_index
  <2>2. PICK p \in Nat : p = 2 ^ w /\ p > 0
    BY <1>2, PowersAreNumbers
  <2>3. x \div p = 0 /\ y \div p = 0
    <3>1. x < p /\ y < p
      BY <1>2, <2>2
    <3>2. p * 0 + x = x /\ p * 0 + y = y
      OBVIOUS
    <3> QED
      BY <3>1, <3>2, DivUnique
  <2>4. w - 0 = w /\ w - w = 0
    OBVIOUS
  <2>5. \A c \in Nat : shl(c, 0) = Low(c, w)
    BY <1>2, <2>4 DEF shl, Low
  <2>6. w \in 1..SIZE_T_BITS
    BY <1>2
  <2> QED
    BY <1>2, <2>1, <2>2, <2>3, <2>5, <2>6
<1>4. CASE idx # 31
  <2>1. PICK K \in 0..15, b \in 0..1 : idx = 2 * K + b /\ x \div 2 ^ (K + 7) = 2 + b
    BY <1>4, SizeParts
  <2>2. PICK h \in 0..15, c \in 0..1 : idx = 2 * h + c /\ y \div 2 ^ (h + 7) = 2 + c
    BY <1>4, SizeParts
  <2>3. K = h /\ b = c /\ idx \div 2 = K
    BY <2>1, <2>2
  <2>4. PICK r \in Nat : r = K + 7 /\ r >= 1 /\ r <= w
    BY <1>2
  <2>5. leftshift_for_tree_index(idx) = w - r
    <3>1. leftshift_for_tree_index(idx) = (w - 1) - ((idx \div 2) + 8 - 2)
      BY <1>1, <1>2, <1>4 DEF leftshift_for_tree_index
    <3>2. (w - 1) - (K + 8 - 2) = w - r
      BY <2>4
    <3> QED
      BY <2>3, <3>1, <3>2
  <2>6. w - (w - r) = r
    OBVIOUS
  <2>7. \A a \in Nat : shl(a, w - r) = Low(a, r)
    BY <1>2, <2>6 DEF shl, Low
  <2>8. x \div 2 ^ r = y \div 2 ^ r
    BY <2>1, <2>2, <2>3, <2>4
  <2> QED
    BY <1>2, <2>4, <2>5, <2>7, <2>8
<1> QED
  BY <1>3, <1>4

\* Each step goes down one level or stays.
LEMMA WayInvHolds ==
  ASSUME PowersDouble, XHolds
  PROVE  WayInv /\ [Go]_way => WayInv'
<1> SUFFICES ASSUME WayInv, [Go]_way PROVE WayInv'
  OBVIOUS
<1>1. PICK x \in LargeSizes, y \in LargeSizes : x = s[1] /\ y = s[2] /\ x <= y
  BY DEF WayInv
<1>2. /\ x \in Nat /\ x >= 256 /\ x < 2 ^ SIZE_T_BITS
      /\ y \in Nat /\ y >= 256 /\ y < 2 ^ SIZE_T_BITS
  BY SizesFit
<1>3. CASE UNCHANGED way
  BY <1>3 DEF way, WayInv, Level
<1>4. CASE Enter
  <2>1. /\ x # y /\ compute_tree_index(x) = compute_tree_index(y)
        /\ walk' = "down" /\ s' = s
        /\ k' = [n \in 1..2 |-> shl(s[n], leftshift_for_tree_index(compute_tree_index(s[n])))]
    BY <1>1, <1>4 DEF Enter
  <2>2. PICK r \in 1..SIZE_T_BITS :
          /\ x \div 2 ^ r = y \div 2 ^ r
          /\ shl(x, leftshift_for_tree_index(compute_tree_index(x))) = Low(x, r)
          /\ shl(y, leftshift_for_tree_index(compute_tree_index(y))) = Low(y, r)
    BY <1>2, <2>1, Entering
  <2>3. \A n \in 1..2 : n = 1 \/ n = 2
    OBVIOUS
  <2>4. \A n \in 1..2 : shl(s[n], leftshift_for_tree_index(compute_tree_index(s[n]))) = Low(s[n], r)
    BY <1>1, <2>2, <2>3
  <2>5. k' = [n \in 1..2 |-> Low(s'[n], r)]
    BY <2>1, <2>4
  <2>6. Level(r)'
    BY <1>1, <2>1, <2>2, <2>5 DEF Level
  <2>7. x < y
    BY <1>1, <1>2, <2>1
  <2> QED
    BY <1>1, <2>1, <2>6, <2>7 DEF WayInv
<1>5. CASE Descend
  <2>1. /\ walk = "down" /\ child(k[1]) = child(k[2]) /\ s' = s /\ walk' = walk
        /\ k' = [n \in 1..2 |-> shl(k[n], 1)]
    BY <1>5 DEF Descend
  <2>2. PICK r \in 1..SIZE_T_BITS : Level(r)
    BY <2>1 DEF WayInv
  <2>3. r \in Nat /\ r >= 1 /\ r <= SIZE_T_BITS /\ x < y
    BY <1>1, <2>1, TreeIndexAssumption DEF WayInv
  <2>4. k[1] = Low(x, r) /\ k[2] = Low(y, r) /\ x \div 2 ^ r = y \div 2 ^ r
    BY <1>1, <2>2 DEF Level
  <2>5. x \div 2 ^ (r - 1) = y \div 2 ^ (r - 1)
    <3>1. x \div 2 ^ (r - 1) = 2 * (x \div 2 ^ r) + child(k[1])
      BY <1>2, <2>3, <2>4, LowFacts
    <3>2. y \div 2 ^ (r - 1) = 2 * (y \div 2 ^ r) + child(k[2])
      BY <1>2, <2>3, <2>4, LowFacts
    <3> QED
      BY <2>1, <2>4, <3>1, <3>2
  <2>6. shl(k[1], 1) = Low(x, r - 1) /\ shl(k[2], 1) = Low(y, r - 1)
    BY <1>2, <2>3, <2>4, LowFacts
  <2>7. \A n \in 1..2 : n = 1 \/ n = 2
    OBVIOUS
  <2>8. \A n \in 1..2 : shl(k[n], 1) = Low(s[n], r - 1)
    BY <1>1, <2>6, <2>7
  <2>9. Level(r - 1)'
    BY <1>1, <2>1, <2>5, <2>8 DEF Level
  <2>10. r - 1 \in 1..SIZE_T_BITS
    <3>1. ASSUME r = 1 PROVE FALSE
      <4>1. PICK z \in Nat : z = 0 /\ z = r - 1
        BY <3>1
      <4>2. x \div 2 ^ z = y \div 2 ^ z
        BY <2>5, <4>1
      <4>3. 2 ^ z = 1
        BY <4>1, Literals
      <4>4. x \div 1 = x /\ y \div 1 = y
        BY <1>2
      <4> QED
        BY <1>2, <2>3, <4>2, <4>3, <4>4
    <3>2. PICK w \in Nat : w = SIZE_T_BITS
      BY TreeIndexAssumption
    <3>3. r # 1 /\ r <= w
      BY <2>3, <3>1, <3>2
    <3>4. r - 1 \in 1..w
      BY <2>3, <3>3
    <3> QED
      BY <3>2, <3>4
  <2> QED
    BY <1>1, <2>1, <2>3, <2>9, <2>10 DEF WayInv
<1>6. CASE Part
  <2>1. walk = "down" /\ child(k[1]) # child(k[2]) /\ walk' = "parted" /\ s' = s /\ k' = k
    BY <1>6 DEF Part
  <2> QED
    BY <2>1 DEF WayInv, Level
<1> QED
  BY <1>3, <1>4, <1>5, <1>6 DEF Go

\* What holds at every level makes the ways part.
LEMMA WaysPartThen ==
  ASSUME PowersDouble, XHolds
  PROVE  WayInv => WaysPart
<1> SUFFICES ASSUME WayInv PROVE WaysPart
  OBVIOUS
<1>1. PICK x \in LargeSizes, y \in LargeSizes : x = s[1] /\ y = s[2] /\ x <= y
  BY DEF WayInv
<1>2. /\ x \in Nat /\ x >= 256 /\ x < 2 ^ SIZE_T_BITS
      /\ y \in Nat /\ y >= 256 /\ y < 2 ^ SIZE_T_BITS
  BY SizesFit
<1>3. \A n \in 1..2 : s[n] \in Nat /\ s[n] >= 256 /\ s[n] < 2 ^ SIZE_T_BITS
  BY SizesFit DEF WayInv
<1>4. InItsBin
  BY <1>3, SizeInBin DEF InItsBin
<1>5. VersionsAgree
  BY <1>3, SizeParts DEF VersionsAgree
<1>6. ASSUME walk # "index"
      PROVE  k[1] # k[2] /\ (child(k[1]) # child(k[2]) => child(k[1]) = 0)
  <2>1. PICK r \in 1..SIZE_T_BITS : Level(r)
    BY <1>6 DEF WayInv
  <2>2. r \in Nat /\ r >= 1 /\ r <= SIZE_T_BITS /\ x < y
    BY <1>1, <1>6, TreeIndexAssumption DEF WayInv
  <2>3. k[1] = Low(x, r) /\ k[2] = Low(y, r) /\ x \div 2 ^ r = y \div 2 ^ r
    BY <1>1, <2>1 DEF Level
  <2>4. k[1] # k[2]
    BY <1>2, <2>2, <2>3, LowsDiffer
  <2>5. PICK a \in 0..1, b \in 0..1 : a = child(k[1]) /\ b = child(k[2])
    BY <1>2, <2>2, <2>3, LowFacts
  <2>6. PICK d \in Nat : d = 2 ^ (r - 1) /\ d > 0
    BY <2>2, TreeIndexAssumption, PowersAreNumbers
  <2>7. PICK e \in Nat : e = 2 ^ r /\ e > 0
    BY <2>2, TreeIndexAssumption, PowersAreNumbers
  <2>8. PICK h \in Nat : h = x \div e /\ h = y \div e
    BY <1>2, <2>3, <2>7, DivFacts
  <2>9. x \div d = 2 * h + a /\ y \div d = 2 * h + b
    BY <1>2, <2>2, <2>3, <2>5, <2>6, <2>7, <2>8, LowFacts
  <2>10. x \div d <= y \div d
    BY <1>1, <1>2, <2>6, DivGrows
  <2>11. a <= b
    BY <2>9, <2>10
  <2> QED
    BY <2>4, <2>5, <2>11
<1>7. BitsSuffice /\ SmallerGoesLeft
  BY <1>6 DEF BitsSuffice, SmallerGoesLeft, WayInv
<1> QED
  BY <1>4, <1>5, <1>7 DEF WaysPart

\* For any widths of size_t and unsigned int that X fits: a size is in the bin of its
\* range, the versions of compute_tree_index agree, and the ways of two sizes down a
\* tree part while there are bits, the smaller to the left.
THEOREM WaysAlwaysPart ==
  ASSUME PowersDouble, XHolds
  PROVE  Walks => []WaysPart
<1>1. Start => WayInv
  BY DEF Start, WayInv
<1>2. WayInv /\ [Go]_way => WayInv'
  BY WayInvHolds
<1>3. WayInv => WaysPart
  BY WaysPartThen
<1> QED
  BY <1>1, <1>2, <1>3, PTL DEF Walks

=============================================================================

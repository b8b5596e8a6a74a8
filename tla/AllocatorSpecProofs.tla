------------------------- MODULE AllocatorSpecProofs -------------------------
(***************************************************************************)
(* The contract is worth implementing: any allocator that keeps it never   *)
(* lets two blocks overlap, nor one lie outside the memory the system      *)
(* granted, whatever sizes and alignments are asked for.                   *)
(***************************************************************************)
EXTENDS AllocatorSpec, TLAPS

\* BlocksSound needs the regions to be regions: growing one keeps its blocks.
IInv == regions \subseteq Region /\ BlocksSound

\* A block stays within memory that only grows.
LEMMA WithinGrown ==
  ASSUME regions \subseteq Region, MayGrow,
         NEW p \in Nat, NEW b \in Block, Within(p, b, regions)
  PROVE  Within(p, b, regions')
<1>1. PICK r \in regions : r.base <= p /\ p + b.size <= r.base + r.size
  BY DEF Within
<1>2. PICK s \in regions' : s.base <= r.base /\ r.base + r.size <= s.base + s.size
  BY DEF MayGrow
<1>3. r \in Region /\ s \in Region
  BY DEF MayGrow
<1>4. s.base <= p /\ p + b.size <= s.base + s.size
  BY <1>1, <1>2, <1>3 DEF Region, Block
<1> QED
  BY <1>4 DEF Within

\* Two blocks are apart whichever is named first.
LEMMA ApartSymmetric ==
  ASSUME NEW p, NEW b, NEW q, NEW c, Apart(p, b, q, c)
  PROVE  Apart(q, c, p, b)
BY DEF Apart

\* A block that is good among the kept blocks, all of them sound before, makes
\* the new set of blocks sound.
LEMMA OneNewBlock ==
  ASSUME IInv, MayGrow, NEW p, NEW S,
         S \subseteq DOMAIN blocks, p \notin S,
         DOMAIN blocks' = S \cup {p}, Kept(S), Good(p, blocks', regions')
  PROVE  IInv'
<1>1. regions' \subseteq Region
  BY DEF MayGrow
<1>2. ASSUME NEW q \in DOMAIN blocks', q # p
      PROVE  Good(q, blocks', regions')
  <2>1. q \in S /\ q \in DOMAIN blocks /\ blocks'[q] = blocks[q]
    BY <1>2 DEF Kept
  <2>2. Good(q, blocks, regions)
    BY <2>1 DEF IInv, BlocksSound
  <2>3. q \in Nat /\ blocks'[q] \in Block /\ q % blocks'[q].align = 0
    BY <2>1, <2>2 DEF Good
  <2>4. Within(q, blocks'[q], regions')
    BY <2>1, <2>2, <2>3, WithinGrown DEF Good, IInv
  <2>5. ASSUME NEW s \in DOMAIN blocks' \ {q}
        PROVE  Apart(q, blocks'[q], s, blocks'[s])
    <3>1. CASE s = p
      BY <3>1, <1>2, ApartSymmetric DEF Good
    <3>2. CASE s # p
      <4>1. s \in S /\ s \in DOMAIN blocks /\ blocks'[s] = blocks[s]
        BY <3>2 DEF Kept
      <4> QED
        BY <4>1, <2>1, <2>2 DEF Good
    <3> QED
      BY <3>1, <3>2
  <2> QED
    BY <2>3, <2>4, <2>5 DEF Good
<1> QED
  BY <1>1, <1>2 DEF IInv, BlocksSound

\* The invariant holds at first and every step keeps it.
LEMMA IInvInductive == IInv /\ [Next]_vars => IInv'
<1> SUFFICES ASSUME IInv, [Next]_vars PROVE IInv'
  OBVIOUS
<1>1. CASE Allocate
  <2>1. PICK p \in DOMAIN blocks' \ DOMAIN blocks :
          /\ Only(DOMAIN blocks \cup {p}) /\ Kept(DOMAIN blocks)
          /\ MayGrow /\ Good(p, blocks', regions')
    BY <1>1 DEF Allocate
  <2> QED
    BY <2>1, OneNewBlock DEF Only
<1>2. CASE Free
  <2>1. PICK p \in DOMAIN blocks :
          Only(DOMAIN blocks \ {p}) /\ Kept(DOMAIN blocks \ {p}) /\ regions' = regions
    BY <1>2 DEF Free
  <2>2. \A q \in DOMAIN blocks' : q \in DOMAIN blocks /\ blocks'[q] = blocks[q]
    BY <2>1 DEF Only, Kept
  <2> QED
    BY <2>1, <2>2 DEF IInv, BlocksSound, Good
<1>3. CASE Resize
  <2>1. PICK p \in DOMAIN blocks :
          /\ Only(DOMAIN blocks) /\ Kept(DOMAIN blocks \ {p})
          /\ MayGrow /\ Good(p, blocks', regions')
    BY <1>3 DEF Resize
  <2>2. DOMAIN blocks' = (DOMAIN blocks \ {p}) \cup {p}
    BY <2>1 DEF Only
  <2> QED
    BY <2>1, <2>2, OneNewBlock
<1>4. CASE Move
  <2>1. PICK p \in DOMAIN blocks, q \in DOMAIN blocks' \ DOMAIN blocks :
          /\ Only((DOMAIN blocks \ {p}) \cup {q}) /\ Kept(DOMAIN blocks \ {p})
          /\ MayGrow /\ Good(q, blocks', regions')
    BY <1>4 DEF Move
  <2>2. DOMAIN blocks' = (DOMAIN blocks \ {p}) \cup {q} /\ q \notin DOMAIN blocks \ {p}
    BY <2>1 DEF Only
  <2> QED
    BY <2>1, <2>2, OneNewBlock
<1>5. CASE Remap
  BY <1>5 DEF Remap, IInv, BlocksSound, Good
<1>6. CASE Close
  BY <1>6 DEF Close, IInv, BlocksSound
<1>7. CASE UNCHANGED vars
  BY <1>7 DEF vars, IInv, BlocksSound, Good, Within
<1> QED
  BY <1>1, <1>2, <1>3, <1>4, <1>5, <1>6, <1>7 DEF Next

\* Blocks never overlap, and each lies in granted memory, aligned.
THEOREM ContractIsSound == Spec => []BlocksSound
<1>1. Init => IInv
  BY DEF Init, IInv, BlocksSound
<1>2. IInv => BlocksSound
  BY DEF IInv
<1> QED
  BY <1>1, <1>2, IInvInductive, PTL DEF Spec
=============================================================================

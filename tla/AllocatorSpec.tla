---------------------------- MODULE AllocatorSpec ----------------------------
(***************************************************************************)
(* What an allocator promises its client, without chunks or bins: a block  *)
(* it hands out is aligned, lies in memory the system granted and overlaps *)
(* no other block; a block stays where and as it is until its owner frees  *)
(* or reallocates it; a reallocation that moves has a place apart from the *)
(* old one to copy to; and memory that goes back to the system holds no    *)
(* block.  This is the contract GlobalAlloc asks of the crate.             *)
(***************************************************************************)
EXTENDS Integers

VARIABLES
  blocks,     \* the blocks the client holds: pointer -> size and alignment
  regions     \* the memory granted by the system: a set of [base, size]

vars == <<blocks, regions>>

Block == [size : Nat, align : Nat \ {0}]
Region == [base : Nat, size : Nat]

Within(p, b, R) == \E r \in R : r.base <= p /\ p + b.size <= r.base + r.size
Apart(p, b, q, c) == p + b.size <= q \/ q + c.size <= p

\* Block p of B is a good one to hand out next to the others.
Good(p, B, R) ==
  /\ p \in Nat /\ B[p] \in Block
  /\ p % B[p].align = 0
  /\ Within(p, B[p], R)
  /\ \A q \in DOMAIN B \ {p} : Apart(p, B[p], q, B[q])

Kept(S) == \A p \in S : p \in DOMAIN blocks' /\ blocks'[p] = blocks[p]
Only(S) == DOMAIN blocks' = S /\ blocks' = [p \in S |-> blocks'[p]]

\* The system's part of an allocation: it may grant more, and takes nothing.
MayGrow ==
  /\ regions' \subseteq Region
  /\ \A r \in regions : \E s \in regions' : s.base <= r.base /\ r.base + r.size <= s.base + s.size

Allocate ==
  \E p \in DOMAIN blocks' \ DOMAIN blocks :
    /\ Only(DOMAIN blocks \cup {p}) /\ Kept(DOMAIN blocks)
    /\ MayGrow /\ Good(p, blocks', regions')

Free ==
  \E p \in DOMAIN blocks :
    Only(DOMAIN blocks \ {p}) /\ Kept(DOMAIN blocks \ {p}) /\ regions' = regions

\* A reallocation in place; one that moves, from p to q.
Resize ==
  \E p \in DOMAIN blocks :
    /\ Only(DOMAIN blocks) /\ Kept(DOMAIN blocks \ {p})
    /\ MayGrow /\ Good(p, blocks', regions')

Move ==
  \E p \in DOMAIN blocks, q \in DOMAIN blocks' \ DOMAIN blocks :
    /\ Only((DOMAIN blocks \ {p}) \cup {q}) /\ Kept(DOMAIN blocks \ {p})
    /\ MayGrow /\ Good(q, blocks', regions')
    /\ Apart(p, blocks[p], q, blocks'[q])

\* Memory comes and goes, but none from under a block.
Remap ==
  /\ blocks' = blocks
  /\ regions' \subseteq Region
  /\ \A p \in DOMAIN blocks : Within(p, blocks[p], regions')

\* The allocator is destroyed with everything in it.
Close == blocks' = << >> /\ regions' = {}

Init == blocks = << >> /\ regions = {}
Next == Allocate \/ Free \/ Resize \/ Move \/ Remap \/ Close
Spec == Init /\ [][Next]_vars

\* Blocks never overlap, and each lies in granted memory, aligned.
BlocksSound == \A p \in DOMAIN blocks : Good(p, blocks, regions)
=============================================================================

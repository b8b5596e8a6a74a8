----------------------------- MODULE TreeSizes -----------------------------
(***************************************************************************)
(* Which tree bin of dlmalloc.c a size belongs to, and which bits of the   *)
(* size lead down the bin's tree.  dlmalloc.rs has the same arithmetic,    *)
(* with a usize for X.                                                     *)
(***************************************************************************)
EXTENDS Integers

CONSTANTS
  SIZE_T_BITS,      \* SIZE_T_BITSIZE
  UINT_BITS,        \* width of an unsigned int
  NTREEBINS, TREEBIN_SHIFT

ASSUME TreeIndexAssumption ==
  /\ NTREEBINS = 32 /\ TREEBIN_SHIFT = 8     \* the portable computation is made for these
  /\ SIZE_T_BITS \in 25..64 /\ UINT_BITS \in 16..SIZE_T_BITS     \* X > 65535 from 2^24 on

\* X holds every size: a size_t has 32 bits, or X is one.
XHolds == SIZE_T_BITS <= UINT_BITS + TREEBIN_SHIFT

\* What a shift by one more place does.
PowersDouble == \A n \in 0..(SIZE_T_BITS - 1) : 2 ^ (n + 1) = 2 * 2 ^ n

Bit(x, n) == (x \div 2 ^ n) % 2
shl(x, n) == (x % 2 ^ (SIZE_T_BITS - n)) * 2 ^ n

\* __CHAR_BIT__ * sizeof(X) - 1 - __builtin_clz(X)
HighestBit(x) == CHOOSE n \in 0..UINT_BITS : 2 ^ n <= x /\ x < 2 ^ (n + 1)

Index(S, K) == 2 * K + Bit(S, K + (TREEBIN_SHIFT - 1))

\* The version for gcc, whose X is an unsigned int.
compute_tree_index(S) ==
  LET X == (S \div 2 ^ TREEBIN_SHIFT) % 2 ^ UINT_BITS
  IN  IF X = 0 THEN 0 ELSE IF X > 65535 THEN NTREEBINS - 1
      ELSE Index(S, HighestBit(X))

\* A difference that is negative has its high bits set, as it has when it wraps.
Eight(Y) == 8 * Bit(Y - 256, 19)
Four(Y) == 4 * Bit(Y - 4096, 18)
Two(Y) == 2 * Bit(Y - 16384, 17)

\* The portable version: X is shifted up by 8, 4 and 2 where it has the room.
compute_tree_index_portable(S) ==
  LET X == S \div 2 ^ TREEBIN_SHIFT
      N8 == Eight(X)
      N4 == N8 + Four(X * 2 ^ N8)
      N == N4 + Two(X * 2 ^ N4)
  IN  IF X = 0 THEN 0 ELSE IF X > 65535 THEN NTREEBINS - 1
      ELSE Index(S, 14 - N + ((X * 2 ^ N) \div 2 ^ 15))

\* Mutant: each bin is shifted by one more, and the last like the others.
leftshift_one_more(i) == SIZE_T_BITS - ((i \div 2) + TREEBIN_SHIFT - 2)

leftshift_for_tree_index(i) ==
  IF i = NTREEBINS - 1 THEN 0
  ELSE (SIZE_T_BITS - 1) - ((i \div 2) + TREEBIN_SHIFT - 2)

minsize_for_tree_index(i) ==
  2 ^ ((i \div 2) + TREEBIN_SHIFT) + (i % 2) * 2 ^ ((i \div 2) + TREEBIN_SHIFT - 1)

\* (K >> (SIZE_T_BITSIZE - 1)) & 1
child(K) == Bit(K, SIZE_T_BITS - 1)
=============================================================================

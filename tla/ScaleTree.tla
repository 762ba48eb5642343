------------------------------ MODULE ScaleTree ------------------------------
(***************************************************************************)
(* The index arithmetic of the CPU quantizers: how a team of threads       *)
(* shares work, how the scale workspace is padded and addressed, and the   *)
(* two summation trees.  Floating-point addition is not associative, so a  *)
(* sum is kept as the tree of its additions: two sums are equal when every *)
(* addition has the same operands.  Word sizes are left out: counts are    *)
(* far below SIZE_MAX here.                                                *)
(***************************************************************************)
EXTENDS Naturals

CONSTANT BlockBits  \* a block has 2^BlockBits elements (8 in the code)

ASSUME BlockAssumption == BlockBits \in Nat \ {0}

BLOCK == 2 ^ BlockBits

Smaller(a, b) == IF a < b THEN a ELSE b

\* split: the contiguous share of n items for one thread of a team.
SplitBegin(n, thread, team) ==
  thread * (n \div team) + Smaller(thread, n % team)
SplitEnd(n, thread, team) ==
  SplitBegin(n, thread, team) + n \div team + (IF thread < n % team THEN 1 ELSE 0)

\* unit_range: a share of whole blocks, cut off at the last element.
Blocks(count) == (count + BLOCK - 1) \div BLOCK
UnitBeginByElement(count, thread, team) == SplitBegin(count, thread, team)
UnitBegin(count, thread, team) == SplitBegin(Blocks(count), thread, team) * BLOCK
UnitEnd(count, thread, team) ==
  Smaller(SplitEnd(Blocks(count), thread, team) * BLOCK, count)

\* reverse_bits: the loop shifts x out at the right and r in from the right.
ReverseBitsNot(x, bits) == x
ReverseBits(x, bits) ==
  LET loop[i \in 0..bits] ==
        IF i = 0 THEN [r |-> 0, x |-> x]
        ELSE [r |-> 2 * loop[i - 1].r + (loop[i - 1].x % 2),
              x |-> loop[i - 1].x \div 2]
  IN loop[bits].r

\* sq_scale_workspace_elements: the next power of two; and its exponent.
PaddedBits(count) ==
  CHOOSE k \in 0..count : /\ 2 ^ k >= Blocks(count)
                          /\ \A j \in 0..(k - 1) : 2 ^ j < Blocks(count)
WorkspaceElements(count) == IF count = 0 THEN 0 ELSE 2 ^ PaddedBits(count)

Add(a, b) == [left |-> a, right |-> b]

\* quantizer.c: terms[i] = terms[2i] + terms[2i+1] in place, i ascending, at
\* every stride from n/2 down to 1.
AdjacentTree(terms, bits) ==
  LET pass(a, stride) ==
        LET upTo[i \in 0..stride] ==
              IF i = 0 THEN a
              ELSE [upTo[i - 1] EXCEPT
                      ![i - 1] = Add(upTo[i - 1][2 * (i - 1)],
                                     upTo[i - 1][2 * (i - 1) + 1])]
        IN upTo[stride]
      level[k \in 0..bits] ==
        IF k = 0 THEN terms ELSE pass(level[k - 1], 2 ^ (bits - k))
  IN level[bits][0]

\* quantizer_avx2.c, halves_tree: lo[j] = lo[j] + hi[j] for disjoint halves.
HalvesTree(terms, bits) ==
  LET addHalves(a, half) ==
        [j \in DOMAIN a |-> IF j < half THEN Add(a[j], a[j + half]) ELSE a[j]]
      level[k \in 0..bits] ==
        IF k = 0 THEN terms ELSE addHalves(level[k - 1], 2 ^ (bits - k))
  IN level[bits][0]

\* The term of element i is named by i; a padding term is PadTerm.
PadTerm == [pad |-> 0]
Term(count, i) == IF i < count THEN [element |-> i] ELSE PadTerm

\* reduce_block and block_sum: the tree of one block, zero-padded.
ReduceBlock(count, b) ==
  AdjacentTree([i \in 0..(BLOCK - 1) |-> Term(count, b * BLOCK + i)], BlockBits)
BlockSum(count, b) ==
  HalvesTree([j \in 0..(BLOCK - 1) |->
                Term(count, b * BLOCK + ReverseBits(j, BlockBits))], BlockBits)
=============================================================================

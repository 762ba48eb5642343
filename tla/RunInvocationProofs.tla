------------------------- MODULE RunInvocationProofs -------------------------
(***************************************************************************)
(* For every width and every request that sq_invocation_range_valid lets   *)
(* through, the identifiers of run_invocation.h do not wrap and do not     *)
(* repeat.                                                                 *)
(***************************************************************************)
EXTENDS RunInvocation, Integers, TLAPS

\* Integer division: k steps of size s fit below a when k <= a \div s.
LEMMA QuotientBound ==
  ASSUME NEW a \in Nat, NEW s \in Nat \ {0}, NEW k \in Nat, k <= a \div s
  PROVE  k * s <= a
<1> DEFINE q == a \div s
<1>1. q \in Nat /\ q * s <= a /\ k <= q
  BY Z3
<1>2. k * s <= q * s
  <2> HIDE DEF q
  <2> QED BY <1>1, Z3
<1> QED BY <1>1, <1>2, Z3

\* A number below the modulus is its own remainder.
LEMMA NoWrap == ASSUME NEW n \in Nat, NEW w \in Nat, n < w PROVE n % w = n
  BY Z3

\* The width of a uint64_t holds every uint32_t.
LEMMA WordWidths == W32 <= W64 /\ W64 \in Nat \ {0}
  BY WidthAssumption, Z3

\* Distinct multiples of a step are distinct.
LEMMA DistinctMultiples ==
  ASSUME NEW a \in Nat, NEW b \in Nat, NEW s \in Nat \ {0}, a < b
  PROVE  a * s < b * s
  BY Z3

\* The offset of an execution is below the number of executions, and no two
\* executions share one.
LEMMA Offsets ==
  ASSUME NEW warmups \in Uint64, NEW reps \in Uint64, warmups + reps <= UINT64_MAX,
         NEW i \in Nat, i < warmups + reps
  PROVE  /\ Offset(warmups, reps, i) \in Nat
         /\ Offset(warmups, reps, i) <= warmups + reps - 1
         /\ Offset(warmups, reps, i) = IF i < warmups THEN reps + i ELSE i - warmups
<1>1. CASE i < warmups
  <2>1. reps + i \in Nat /\ reps + i < W64
    BY <1>1, WordWidths DEF Uint64, UINT64_MAX
  <2>2. (reps + i) % W64 = reps + i
    BY <2>1, NoWrap, WordWidths
  <2> QED BY <1>1, <2>1, <2>2 DEF Offset, Uint64
<1>2. CASE ~(i < warmups)
  BY <1>2, WordWidths DEF Offset, Uint64, UINT64_MAX
<1> QED BY <1>1, <1>2

\* sq_run_invocation_id neither wraps nor exceeds UINT32_MAX on a range that
\* sq_invocation_range_valid accepts.
THEOREM RunIdsFit ==
  ASSUME NEW tensor \in Uint64, NEW base \in Uint64, NEW warmups \in Uint64,
         NEW reps \in Uint64, NEW step \in Nat, NEW i \in Nat,
         InvocationRangeValid(tensor, base, warmups, reps, step),
         i < warmups + reps
  PROVE  /\ RunInvocationId(base, warmups, reps, i, step)
              = base + Offset(warmups, reps, i) * step
         /\ RunInvocationId(base, warmups, reps, i, step) <= UINT32_MAX
<1> DEFINE o == Offset(warmups, reps, i)
<1>1. /\ base \in Nat /\ step \in Nat /\ warmups \in Nat /\ reps \in Nat
      /\ base <= UINT32_MAX /\ UINT32_MAX \in Nat /\ UINT32_MAX < W64
      /\ warmups + reps <= UINT64_MAX
  BY WordWidths, WidthAssumption DEF Uint64, InvocationRangeValid, UINT32_MAX, UINT64_MAX
<1>2. o \in Nat /\ o <= warmups + reps - 1
  BY <1>1, Offsets
<1>3. o * step \in Nat /\ o * step <= UINT32_MAX - base
  <2>1. CASE step = 0
    <3> HIDE DEF o
    <3> QED BY <1>1, <1>2, <2>1
  <2>2. CASE step # 0
    <3>1. o <= (UINT32_MAX - base) \div step
      <4>1. warmups + reps - 1 <= (UINT32_MAX - base) \div step
        BY <2>2 DEF InvocationRangeValid
      <4>2. (UINT32_MAX - base) \div step \in Int
        BY <1>1, <2>2, Z3
      <4> HIDE DEF o
      <4> QED BY <1>1, <1>2, <4>1, <4>2
    <3> HIDE DEF o
    <3>2. UINT32_MAX - base \in Nat
      BY <1>1
    <3>3. o * step <= UINT32_MAX - base
      BY <1>1, <1>2, <2>2, <3>1, <3>2, QuotientBound
    <3> QED BY <1>1, <1>2, <3>3, Z3
  <2> QED BY <2>1, <2>2
<1> HIDE DEF o
<1>4. (o * step) % W64 = o * step
  BY <1>1, <1>3, NoWrap, WordWidths
<1>5. (base + o * step) % W64 = base + o * step
  BY <1>1, <1>3, NoWrap, WordWidths
<1> USE DEF o
<1> QED BY <1>1, <1>3, <1>4, <1>5 DEF RunInvocationId

\* With a step, no two executions of a benchmark use the same random stream.
THEOREM RunIdsDistinct ==
  ASSUME NEW tensor \in Uint64, NEW base \in Uint64, NEW warmups \in Uint64,
         NEW reps \in Uint64, NEW step \in Nat \ {0}, NEW i \in Nat, NEW j \in Nat,
         InvocationRangeValid(tensor, base, warmups, reps, step),
         i < warmups + reps, j < warmups + reps, i # j
  PROVE  RunInvocationId(base, warmups, reps, i, step)
           # RunInvocationId(base, warmups, reps, j, step)
<1> DEFINE a == Offset(warmups, reps, i)
           b == Offset(warmups, reps, j)
<1>1. /\ base \in Nat /\ step \in Nat \ {0} /\ warmups \in Nat /\ reps \in Nat
      /\ warmups + reps <= UINT64_MAX
  BY WordWidths DEF Uint64, InvocationRangeValid, UINT64_MAX
<1>2. a \in Nat /\ b \in Nat /\ a # b
  BY <1>1, Offsets
<1>3. /\ RunInvocationId(base, warmups, reps, i, step) = base + a * step
      /\ RunInvocationId(base, warmups, reps, j, step) = base + b * step
  BY RunIdsFit
<1> HIDE DEF a, b
<1>4. a * step # b * step
  <2>1. a < b \/ b < a
    BY <1>2
  <2>2. a * step < b * step \/ b * step < a * step
    BY <1>1, <1>2, <2>1, DistinctMultiples
  <2>3. a * step \in Nat /\ b * step \in Nat
    BY <1>1, <1>2, Z3
  <2> QED BY <2>2, <2>3
<1>5. a * step \in Nat /\ b * step \in Nat
  BY <1>1, <1>2, Z3
<1> QED BY <1>1, <1>3, <1>4, <1>5

\* Repetition r uses base + r * step: the first repetition repeats the base
\* record, whatever the number of warm-ups.
THEOREM RepetitionIds ==
  ASSUME NEW tensor \in Uint64, NEW base \in Uint64, NEW warmups \in Uint64,
         NEW reps \in Uint64, NEW step \in Nat, NEW r \in Nat,
         InvocationRangeValid(tensor, base, warmups, reps, step), r < reps
  PROVE  RunInvocationId(base, warmups, reps, warmups + r, step) = base + r * step
<1>1. warmups \in Nat /\ reps \in Nat /\ warmups + r \in Nat /\ warmups + r < warmups + reps
      /\ warmups + reps <= UINT64_MAX
  BY WordWidths DEF Uint64, InvocationRangeValid, UINT64_MAX
<1>2. Offset(warmups, reps, warmups + r) = r
  BY <1>1 DEF Offset
<1>3. RunInvocationId(base, warmups, reps, warmups + r, step)
        = base + Offset(warmups, reps, warmups + r) * step
  BY <1>1, RunIdsFit
<1> QED BY <1>2, <1>3
=============================================================================

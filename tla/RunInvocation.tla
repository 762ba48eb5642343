---------------------------- MODULE RunInvocation ----------------------------
(***************************************************************************)
(* run_invocation.h: which invocation identifier, and so which random      *)
(* stream, each execution of a benchmark uses.  The repetitions come first *)
(* in the identifiers and second in time: repetition r is base + r * step, *)
(* warm-up w is base + (reps + w) * step.  All arithmetic is uint64_t and  *)
(* wraps.                                                                  *)
(***************************************************************************)
EXTENDS Naturals

CONSTANTS
  W32,  \* 2^32, the number of identifiers a random stream can tell apart
  W64   \* 2^64

ASSUME WidthAssumption == W32 \in Nat \ {0} /\ W64 = W32 * W32

UINT32_MAX == W32 - 1
UINT64_MAX == W64 - 1
Uint64 == 0..UINT64_MAX

\* sq_invocation_range_valid.
InvocationRangeValidOneMore(tensor, base, warmups, reps, step) ==
  /\ tensor <= UINT32_MAX /\ base <= UINT32_MAX
  /\ warmups <= UINT64_MAX - reps
  /\ warmups + reps # 0
  /\ step = 0 \/ warmups + reps - 2 <= (UINT32_MAX - base) \div step
InvocationRangeValid(tensor, base, warmups, reps, step) ==
  /\ tensor <= UINT32_MAX /\ base <= UINT32_MAX
  /\ warmups <= UINT64_MAX - reps
  /\ warmups + reps # 0
  /\ step = 0 \/ warmups + reps - 1 <= (UINT32_MAX - base) \div step

\* sq_run_invocation_id of the execution with this index.
Offset(warmups, reps, index) ==
  IF index < warmups THEN (reps + index) % W64 ELSE index - warmups
RunInvocationId(base, warmups, reps, index, step) ==
  (base + ((Offset(warmups, reps, index) * step) % W64)) % W64
=============================================================================

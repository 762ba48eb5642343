----------------------------- MODULE CudaKernels -----------------------------
(***************************************************************************)
(* The device side of quantizer_cuda.cu: what K1 (scale), K2 (rounding)    *)
(* and K3 (packing) do to the device buffers, what the host makes of the   *)
(* status and flags they leave, and sq_cuda_compress, which runs them one  *)
(* after the other and looks at the result of each, as the reference for   *)
(* the benchmark, which does not.                                          *)
(*                                                                         *)
(* An input is "zero", "finite" (some element is not zero), "large" (its   *)
(* norm overflows) or "nonfinite".  A code or a byte is named by what it   *)
(* was computed from.                                                      *)
(***************************************************************************)
EXTENDS Naturals

Junk == [junk |-> 0]

\* Device memory as cudaMalloc leaves it.
Malloced == [values |-> "junk", scale |-> "junk", k1Scale |-> "junk", words |-> Junk,
             status |-> "junk", flags |-> {"JUNK"}, codes |-> Junk, payload |-> Junk]

NonZero(values) == values \in {"finite", "large"}

\* K1: the maximum, the tree, the scale; an overflowing scale becomes zero.
ScaleOf(values) ==
  CASE values \in {"zero", "large"} -> "zero"
    [] values = "finite" -> "norm"
    [] values = "nonfinite" -> "max"
    [] OTHER -> "junk"
StatusOf(values) ==
  CASE values \in {"zero", "finite"} -> "OK"
    [] values = "large" -> "SCALE_OVERFLOW"
    [] values = "nonfinite" -> "NONFINITE"
    [] OTHER -> "junk"
K1(d, target) == [d EXCEPT ![target] = ScaleOf(d.values), !.status = StatusOf(d.values)]

\* K2 adds to the validation flags; a zero scale gives center codes, which
\* need no random word.
Flags(d) ==
  (IF d.values = "nonfinite" THEN {"NONFINITE"} ELSE {})
  \cup (IF NonZero(d.values) THEN {"ANY_NONZERO"} ELSE {})
  \cup (IF NonZero(d.values) /\ d.scale = "zero" THEN {"BAD_ZERO_SCALE"} ELSE {})
Codes(values, scale, words) ==
  [values |-> values, scale |-> scale, words |-> IF scale = "zero" THEN Junk ELSE words]
K2(d, words) == [d EXCEPT !.flags = @ \cup Flags(d), !.codes = Codes(d.values, d.scale, words)]

K3(d) == [d EXCEPT !.payload = [packed |-> d.codes]]

\* How the host judges the flags of K2.
FlagStatus(scale, flags) ==
  IF "NONFINITE" \in flags THEN "NONFINITE"
  ELSE IF \/ scale = "zero" /\ "ANY_NONZERO" \in flags
          \/ scale # "zero" /\ "ANY_NONZERO" \notin flags
          \/ "BAD_ZERO_SCALE" \in flags
  THEN "SCALE"
  ELSE "OK"

\* check_bench_result: the benchmark runs K1 even when the scale is
\* prescribed, and then ignores that K1 overflowed.
CheckBenchResult(scale, seen, status, flags) ==
  IF status # "OK" /\ (~seen \/ status # "SCALE_OVERFLOW") THEN status
  ELSE FlagStatus(scale, flags)

\* sq_cuda_compress on a non-empty input: a prescribed scale replaces K1;
\* status, flags and payload are each copied back before the next kernel.
CudaCompress(values, given, words) ==
  LET fail(e) == [status |-> e, scale |-> "junk", payload |-> Junk]
      uploaded == [Malloced EXCEPT !.values = values, !.status = "OK", !.flags = {}]
      scaled == IF given = "none" THEN K1(uploaded, "scale")
                ELSE [uploaded EXCEPT !.scale = given]
      rounded == K2(scaled, words)
  IN IF scaled.status # "OK" THEN fail(scaled.status)
     ELSE IF FlagStatus(scaled.scale, rounded.flags) # "OK"
     THEN fail(FlagStatus(scaled.scale, rounded.flags))
     ELSE [status |-> "OK", scale |-> scaled.scale, payload |-> K3(rounded).payload]
=============================================================================

----------------------------- MODULE MCCudaBench -----------------------------
(* Requests on every boundary, with identifiers up to the last one.         *)
EXTENDS CudaBench

Ask(values, given, words, boundary, pinned, b, w, r, step) ==
  [values |-> values, given |-> given, givenWords |-> words, boundary |-> boundary,
   pinned |-> pinned, tensor |-> 0, base |-> b, warmups |-> w, reps |-> r, step |-> step]

StepOf(boundary) == IF boundary = "resident_graph" THEN 0 ELSE 1

MCInputs ==
  {Ask(v, g, FALSE, b, FALSE, 0, 0, 1, StepOf(b)) :
     v \in {"empty", "zero", "finite", "large", "nonfinite"},
     g \in {"none", "zero", "positive", "invalid"}, b \in Boundaries}
  \cup {Ask("finite", "none", w, b, FALSE, 1, 1, 2, StepOf(b)) :
          w \in BOOLEAN, b \in Boundaries}
  \cup {Ask("finite", "none", FALSE, b, p, i, 1, r, 1) :
          b \in {"host_origin", "gpu_origin"}, p \in BOOLEAN, i \in {2, 3}, r \in {0, 1}}
  \cup {Ask("finite", "none", FALSE, "resident", TRUE, 0, 0, 1, 1),
        Ask("finite", "none", FALSE, "resident_graph", FALSE, 0, 0, 1, 1)}
=============================================================================

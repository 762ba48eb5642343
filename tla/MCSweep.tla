------------------------------ MODULE MCSweep ------------------------------
(* A sweep of three paths, one per backend, and two cells. *)
EXTENDS Sweep, TLC

MCPaths == {"comparator", "avx2", "resident"}
MCBackend ==
  [p \in MCPaths |-> CASE p = "comparator" -> "cpu"
                       [] p = "avx2" -> "cpu-avx2"
                       [] p = "resident" -> "cuda"]

\* Evidence run, dirty run with and without the flag, unready machine with
\* and without the flag, pilot on an unready machine.
Invocation(dirty, allow, pilot, ready, ignore) ==
  [dirty |-> dirty, allowDirty |-> allow, pilot |-> pilot, ready |-> ready,
   ignoreReadiness |-> ignore]
MCConditions ==
  {Invocation(FALSE, FALSE, FALSE, TRUE, FALSE),
   Invocation(TRUE, FALSE, FALSE, TRUE, FALSE),
   Invocation(TRUE, TRUE, FALSE, TRUE, FALSE),
   Invocation(FALSE, FALSE, FALSE, FALSE, FALSE),
   Invocation(FALSE, FALSE, FALSE, FALSE, TRUE),
   Invocation(FALSE, FALSE, TRUE, FALSE, FALSE)}

\* No definition names a cell.
Symmetry == Permutations(Cells)
=============================================================================

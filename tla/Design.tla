-------------------------------- MODULE Design --------------------------------
(***************************************************************************)
(* design.py: the timed paths, which of them a matrix selects, and the     *)
(* order in which each trial of a case visits them.                        *)
(*                                                                         *)
(* An operator defined just before another one and named after it is a     *)
(* seeded fault; PROJECT.json says which property catches it.              *)
(***************************************************************************)
EXTENDS Integers, Sequences, FiniteSets, SequencesExt

BenchPath(backend, boundary, policy) ==
  [backend |-> backend, boundary |-> boundary, policy |-> policy]

COMPARATOR == BenchPath("cpu", "comparator", "none")
AVX2_COMPARATOR == BenchPath("cpu-avx2", "optimized", "none")
CUDA_RESIDENT == BenchPath("cuda", "resident", "none")
CUDA_RESIDENT_GRAPH == BenchPath("cuda", "resident-graph", "none")
HostOrigin(policy) == BenchPath("cuda", "host-origin", policy)
CpuGpuOrigin(policy) == BenchPath("cpu", "gpu-origin", policy)
CudaGpuOrigin(policy) == BenchPath("cuda", "gpu-origin", policy)

TRANSFER_POLICIES == {"pageable", "pinned"}
EXTENSION_BOUNDARIES == {"gpu-origin"}
HOST_BOUNDARIES == {"comparator", "optimized"}
MAX_PERMUTATION_PATHS == 4

\* The paths of the revision 3 reports; PATHS of report.py.
REPORT_PATHS ==
  {COMPARATOR, AVX2_COMPARATOR, CUDA_RESIDENT, CUDA_RESIDENT_GRAPH, HostOrigin("pageable")}

\* BenchPath.baseline, for a path other than the comparator.
Baseline(p) ==
  IF p.backend = "cuda" /\ p.boundary = "gpu-origin" THEN CpuGpuOrigin(p.policy) ELSE COMPARATOR

PageableTwin(p) == BenchPath(p.backend, p.boundary, "pageable")

\* BenchPath.nested_paths: the paths whose work is part of p's work.
NestedPaths(p) ==
  CASE p.backend = "cpu" /\ p.boundary = "gpu-origin" -> {COMPARATOR}
    [] p.backend = "cuda" /\ p.boundary = "gpu-origin" -> {CUDA_RESIDENT}
    [] p.backend = "cuda" /\ p.boundary = "host-origin" ->
         {CUDA_RESIDENT, CUDA_RESIDENT_GRAPH, CudaGpuOrigin(p.policy)}
    [] OTHER -> {}

-----------------------------------------------------------------------------
(* build_paths; an argument is [backends, boundaries, policies, trials].    *)

PathsRefused(a) ==
  \/ a.boundaries \ EXTENSION_BOUNDARIES # {}
  \/ a.policies \ TRANSFER_POLICIES # {}
  \/ "pageable" \notin a.policies
  \/ (a.boundaries # {} \/ "pinned" \in a.policies) /\ "cuda" \notin a.backends

Only(condition, paths) == IF condition THEN paths ELSE <<>>
BuildPaths(a) ==
  LET pinned == "pinned" \in a.policies
      pair(policy) == <<CpuGpuOrigin(policy), CudaGpuOrigin(policy)>>
  IN <<COMPARATOR>>
     \o Only("cpu-avx2" \in a.backends, <<AVX2_COMPARATOR>>)
     \o Only("cuda" \in a.backends,
             <<CUDA_RESIDENT, CUDA_RESIDENT_GRAPH, HostOrigin("pageable")>>
             \o Only(pinned, <<HostOrigin("pinned")>>))
     \o Only("gpu-origin" \in a.boundaries, pair("pageable") \o Only(pinned, pair("pinned")))

-----------------------------------------------------------------------------
(* Trial orders: rows of path indices 0..n-1. *)

\* williams_rows.  The first row goes 0, 1, n-1, 2, n-2, ...; each further
\* row adds 1 to every entry, and an odd n runs every row backwards as well.
WilliamsFirst(n, k) ==
  IF k = 1 THEN 0 ELSE IF k % 2 = 0 THEN k \div 2 ELSE n - (k \div 2)
WilliamsRowsOneWay(n) == [i \in 1..n |-> [k \in 1..n |-> (WilliamsFirst(n, k) + i - 1) % n]]
WilliamsRows(n) ==
  LET rows == [i \in 1..n |-> [k \in 1..n |-> (WilliamsFirst(n, k) + i - 1) % n]]
  IN rows \o Only(n % 2 = 1, [i \in 1..n |-> Reverse(rows[i])])

\* itertools.permutations(range(n)), in lexicographic order.
Before(p, q) == \E k \in DOMAIN p : p[k] < q[k] /\ \A j \in 1..(k - 1) : p[j] = q[j]
Orderings(n) ==
  LET all == {p \in [1..n -> 0..(n - 1)] : IsInjective(p)}
  IN [i \in 1..Cardinality(all) |->
        CHOOSE p \in all : Cardinality({q \in all : Before(q, p)}) = i - 1]

DesignRows(n) == IF n <= MAX_PERMUTATION_PATHS THEN Orderings(n) ELSE WilliamsRows(n)

\* trial_orders raises for a Williams design that is not run in whole.
OrdersRefused(n, trials) ==
  n > MAX_PERMUTATION_PATHS /\ trials % Len(WilliamsRows(n)) # 0
TrialOrders(n, trials) ==
  LET rows == DesignRows(n) IN [t \in 1..trials |-> rows[((t - 1) % Len(rows)) + 1]]
=============================================================================

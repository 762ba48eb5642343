-------------------------------- MODULE Claims --------------------------------
(***************************************************************************)
(* stats.py: what the trials of a case are reduced to, and which claims a  *)
(* group of cases (one per path, of one input at one bit width) supports.  *)
(*                                                                         *)
(* Times are natural numbers; a median is doubled and a percentile is      *)
(* multiplied by ten on top, so that everything stays exact.  Ratios are   *)
(* compared crosswise.  The bootstrap interval exists exactly when the     *)
(* speedup does and no rule reads it, so it is left out, and so are the    *)
(* quartiles, the mean and the deviation.                                  *)
(*                                                                         *)
(* An operator defined just before another one and named after it is a     *)
(* seeded fault; PROJECT.json says which property catches it.              *)
(***************************************************************************)
EXTENDS Design

\* The k-th smallest entry of s.
AtMost(s, x) == Cardinality({i \in DOMAIN s : s[i] <= x})
Smallest(s, k) == Min({x \in Range(s) : AtMost(s, x) >= k})

\* Twice numpy.median.
Median(s) == Smallest(s, (Len(s) + 1) \div 2) + Smallest(s, (Len(s) \div 2) + 1)

\* Ten times numpy.percentile(s, 10 * tenths, method="linear").
Percentile(s, tenths) ==
  LET k == (tenths * (Len(s) - 1)) \div 10
      f == (tenths * (Len(s) - 1)) % 10
      low == Smallest(s, k + 1)
  IN 10 * low + (IF f = 0 THEN 0 ELSE f * (Smallest(s, k + 2) - low))

\* compute_case_statistics of the samples of each trial.
CaseStatistics(trials) ==
  LET medians == [t \in DOMAIN trials |-> Median(trials[t])]
      low == Min(Range(medians))
      high == Max(Range(medians))
      p10 == Percentile(medians, 1)
      p90 == Percentile(medians, 9)
  IN [median |-> Median(FlattenSeq(trials)), trialMedians |-> medians,
      low |-> low, high |-> high,
      unstableRev2 |-> low = 0 \/ 4 * high > 5 * low,
      stable |-> p10 > 0 /\ 4 * p90 <= 5 * p10]

\* The statistics of a case that failed: None.
None == [none |-> TRUE]

\* compare_speedup: `point' says whether a speedup is recorded.  A value that
\* is not positive makes the comparison inconclusive; the lowest is enough
\* to look at.
CompareSpeedup(base, candidate) ==
  LET point == base.low > 0 /\ candidate.low > 0 /\ base.median > 0 /\ candidate.median > 0 IN
  [point |-> point,
   verdict |-> IF ~point THEN "inconclusive"
               ELSE IF base.low > candidate.high THEN "faster"
               ELSE IF base.high < candidate.low THEN "slower"
               ELSE "inconclusive"]

\* A comparison with the claims it supports; those of a comparison that is
\* only descriptive are null.
Claim(comparison, direction, magnitude, rev2) ==
  [point |-> comparison.point, verdict |-> comparison.verdict,
   direction |-> direction, magnitude |-> magnitude, rev2 |-> rev2]
Descriptive(comparison) == Claim(comparison, FALSE, FALSE, FALSE)

\* claim_support.
ClaimSupport(comparison, inversion, base, candidate) ==
  LET direction == comparison.verdict # "inconclusive" /\ ~inversion IN
  Claim(comparison, direction,
        direction /\ base.stable /\ candidate.stable,
        direction /\ ~base.unstableRev2 /\ ~candidate.unstableRev2)

-----------------------------------------------------------------------------
(* compare_case_group.  `stats' has one entry for every selected path.      *)

Measured(stats, p) == p \in DOMAIN stats /\ stats[p] # None

\* A selected path that beats one it contains, or a pair that cannot be
\* compared because either failed.
Inverts(stats, p) ==
  /\ p \in DOMAIN stats
  /\ \/ stats[p] = None
     \/ \E q \in NestedPaths(p) \cap DOMAIN stats :
          stats[q] = None \/ stats[p].median < stats[q].median

\* boundary_inversion, over the CUDA paths of one transfer policy.
BoundaryInversionOfMeasured(stats, policy) ==
  \E p \in {HostOrigin(policy), CudaGpuOrigin(policy)} :
    Measured(stats, p) /\ Inverts([q \in {q \in DOMAIN stats : stats[q] # None} |-> stats[q]], p)
BoundaryInversion(stats, policy) ==
  \E p \in {HostOrigin(policy), CudaGpuOrigin(policy)} : Inverts(stats, p)

CpuInversion(stats, policy) == Inverts(stats, CpuGpuOrigin(policy))

PathInversion(stats, p) ==
  LET policy == IF p.policy = "pinned" THEN "pinned" ELSE "pageable" IN
  CASE p = AVX2_COMPARATOR -> FALSE
    [] p.backend = "cpu" -> CpuInversion(stats, policy)
    [] p.backend = "cuda" /\ p.boundary = "gpu-origin" ->
         BoundaryInversion(stats, policy) \/ CpuInversion(stats, policy)
    [] OTHER -> BoundaryInversion(stats, policy)

Compared(base, candidate, inversion) ==
  ClaimSupport(CompareSpeedup(base, candidate), inversion, base, candidate)

\* What the group writes into the statistics of a measured path: `verdict'
\* is "missing" where the key is never set, because the baseline failed.
NoVerdict == Descriptive([point |-> FALSE, verdict |-> "missing"])
Verdict(stats, p) ==
  CASE p = COMPARATOR -> Descriptive([point |-> TRUE, verdict |-> "comparator"])
    [] p # COMPARATOR /\ ~Measured(stats, Baseline(p)) -> NoVerdict
    [] p = AVX2_COMPARATOR /\ Measured(stats, COMPARATOR) ->
         Descriptive(CompareSpeedup(stats[COMPARATOR], stats[p]))
    [] OTHER -> Compared(stats[Baseline(p)], stats[p], PathInversion(stats, p))

\* vs_pageable of a pinned path and vs_resident of the graph path: the path
\* each is compared with, and whether an inversion on either side vetoes it.
Rival(p) == IF p.policy = "pinned" THEN PageableTwin(p) ELSE CUDA_RESIDENT
HasRivalVerdict(stats, p) ==
  /\ Measured(stats, p) /\ Measured(stats, Rival(p))
  /\ \/ p.policy = "pinned" /\ Measured(stats, Baseline(p))
     \/ p = CUDA_RESIDENT_GRAPH
RivalVerdict(stats, p) ==
  Compared(stats[Rival(p)], stats[p],
           IF p = CUDA_RESIDENT_GRAPH THEN BoundaryInversion(stats, "pageable")
           ELSE PathInversion(stats, p) \/ PathInversion(stats, Rival(p)))

\* Everything a group's cases say afterwards.  The ratios vs_cpu_avx2 and
\* vs_comparator are descriptive: they carry no claim.
CompareCaseGroup(stats) ==
  [p \in {p \in DOMAIN stats : stats[p] # None} |->
     [own |-> Verdict(stats, p),
      rival |-> IF HasRivalVerdict(stats, p) THEN RivalVerdict(stats, p) ELSE NoVerdict]]

-----------------------------------------------------------------------------
(* How a reader of the statistics gets at the claims: direction_supported,  *)
(* magnitude_supported and rev2_supported, null read as false.              *)

DirectionSupported(claim) == claim.direction
MagnitudeSupported(claim) == claim.magnitude
Rev2Supported(claim) == claim.rev2
=============================================================================

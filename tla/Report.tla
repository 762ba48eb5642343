-------------------------------- MODULE Report --------------------------------
(***************************************************************************)
(* From a matrix command line to the claims in its report: the paths and   *)
(* their trial orders, one group of cases for every size of the grid, the  *)
(* comparisons inside each group, and the crossover, the T1 table and the  *)
(* F2 figure of report.py.                                                 *)
(*                                                                         *)
(* Bit widths are independent of each other, so there is one; the report   *)
(* is followed for one path, `watch'.  What a case measures is any of the  *)
(* scenario's profiles, or nothing: any path may fail at any size.  The    *)
(* order of a sweep's steps, its gates and its files are Sweep's.          *)
(*                                                                         *)
(* An operator defined just before another one and named after it is a     *)
(* seeded fault; PROJECT.json says which property catches it.              *)
(***************************************************************************)
EXTENDS Claims, Response

VARIABLES
  scenario,  \* the command line, the device, the number of sizes, what may be
             \* measured, whether a process may answer for something else,
             \* and the CUDA paths whose lines of the report are followed
  pc,        \* control point
  watch,     \* the path whose lines of the report are followed
  orders,    \* trial_orders of the selected paths, until the first process
  at,        \* the path to calibrate next, by index
  process,   \* the last calibration: its answer, whether the process did
             \* what it was asked for, and whether it was accepted
  failed,    \* paths whose case failed before it was timed
  runs,      \* trial_runs of the current group, by path; NoRuns if it failed
  claims,    \* what compare_case_group wrote
  column,    \* the watched path's cases so far, smallest size first
  publishable,  \* every case of the snapshot has passed, and no resident one
             \* has a median of zero
  keyless,   \* some CUDA case passed and has no verdict
  report     \* what was rendered

reportVars == <<scenario, pc, watch, orders, at, process, failed, runs, claims, column,
                publishable, keyless, report>>

Paths == BuildPaths(scenario)
NoProcess == [honest |-> TRUE, accepted |-> TRUE]
NoRuns == <<>>
NoReport == [rendered |-> FALSE]

ReportInit(scenarios) ==
  /\ scenario \in scenarios
  /\ watch \in scenario.watched
  /\ pc = "plan"
  /\ orders = <<>> /\ at = 1 /\ process = NoProcess
  /\ failed = {} /\ runs = <<>> /\ claims = <<>> /\ column = <<>>
  /\ publishable = TRUE /\ keyless = FALSE
  /\ report = NoReport

-----------------------------------------------------------------------------
(* The matrix *)

\* run_benchmark_matrix checks the path selection and the number of trials
\* before it touches the machine.
MatrixRefused ==
  \/ scenario.trials < 1
  \/ "cpu" \notin scenario.backends
  \/ PathsRefused(scenario)
  \/ OrdersRefused(Len(Paths), scenario.trials)

PlanMatrix ==
  /\ pc = "plan"
  /\ pc' = IF MatrixRefused THEN "refused" ELSE "calibrate"
  /\ orders' = IF MatrixRefused THEN <<>> ELSE TrialOrders(Len(Paths), scenario.trials)
  /\ UNCHANGED <<scenario, watch, at, process, failed, runs, claims, column, publishable,
                 keyless, report>>

\* warm_up_case: an untimed process of each path in turn.
CalibrateCase ==
  /\ pc = "calibrate" /\ at <= Len(Paths)
  /\ LET p == Paths[at]
         r == Request(p, scenario.k1, 1, 8, 1, 2)
         honest == NativeAnswer(r, 3)
     IN \E answer \in {honest}
                      \cup (IF scenario.faulty /\ failed = {} THEN Faults(honest) ELSE {}) :
          LET accepted == ValidateBenchResponse(answer, r) IN
          /\ process' = [honest |-> answer = honest, accepted |-> accepted]
          /\ failed' = IF accepted THEN failed ELSE failed \cup {p}
  /\ at' = at + 1
  /\ orders' = <<>>
  /\ UNCHANGED <<scenario, pc, watch, runs, claims, column, publishable, keyless, report>>

\* run_trials and compute_case_group_statistics.  A case's trials go round
\* the entries of its profile.
TrialRuns(profile) ==
  [t \in 1..scenario.trials |-> profile[((t - 1) % Len(profile)) + 1]]
MeasureGroup ==
  /\ pc = "calibrate" /\ at > Len(Paths)
  /\ LET outcomes == {TrialRuns(profile) : profile \in scenario.profiles}
         statistics == [o \in outcomes |-> CaseStatistics(o)]
     IN \E outcome \in [Range(Paths) -> outcomes \cup {NoRuns}] :
          /\ \A p \in failed : outcome[p] = NoRuns
          /\ runs' = outcome
          /\ claims' = CompareCaseGroup([p \in DOMAIN outcome |->
               IF outcome[p] = NoRuns THEN None ELSE statistics[outcome[p]]])
  /\ pc' = "compared"
  /\ process' = NoProcess
  /\ UNCHANGED <<scenario, watch, orders, at, failed, column, publishable, keyless, report>>

\* Reference: what the raw samples of a group allow to be said of path p
\* against path q, read off the protocol and not off stats.py.  Every trial
\* of one must lie on one side of every trial of the other, and no pair of
\* nested paths in p's group may be inverted or incomplete.
TrialMedians(p) == {Median(runs[p][t]) : t \in DOMAIN runs[p]}
Pooled(p) == Median(FlattenSeq(runs[p]))
VetoPairs(p) ==
  LET policy == IF p.policy = "pinned" THEN "pinned" ELSE "pageable"
      cpu == {<<CpuGpuOrigin(policy), COMPARATOR>>}
      cuda == {<<HostOrigin(policy), CUDA_RESIDENT>>, <<HostOrigin(policy), CUDA_RESIDENT_GRAPH>>,
               <<HostOrigin(policy), CudaGpuOrigin(policy)>>, <<CudaGpuOrigin(policy), CUDA_RESIDENT>>}
  IN IF p.backend = "cpu" THEN cpu ELSE IF p.boundary = "gpu-origin" THEN cuda \cup cpu ELSE cuda
Vetoed(p) ==
  \E pair \in VetoPairs(p) :
    /\ {pair[1], pair[2]} \subseteq DOMAIN runs
    /\ runs[pair[1]] = NoRuns \/ runs[pair[2]] = NoRuns \/ Pooled(pair[1]) < Pooled(pair[2])
RawOrder(p, q) ==
  IF runs[q] = NoRuns THEN "none"
  ELSE IF \A x \in TrialMedians(p), y \in TrialMedians(q) : 0 < x /\ x < y THEN "faster"
  ELSE IF \A x \in TrialMedians(p), y \in TrialMedians(q) : 0 < y /\ y < x THEN "slower"
  ELSE "none"
RawClaim(p) == IF Vetoed(p) THEN "none" ELSE RawOrder(p, Baseline(p))

RawRivalClaim(p) ==
  IF p \notin DOMAIN claims \/ claims[p].rival.verdict = "missing" \/ Vetoed(p) \/ Vetoed(Rival(p))
  THEN "none" ELSE RawOrder(p, Rival(p))

\* The group's case files are written; the next size, or the report, follows.
\* `raw' and `rivalRaw' are history: no step reads them.
EndGroup ==
  /\ pc = "compared"
  /\ column' = Append(column,
       IF watch \in DOMAIN claims
       THEN [own |-> claims[watch].own, raw |-> RawClaim(watch),
             rival |-> claims[watch].rival, rivalRaw |-> RawRivalClaim(watch)]
       ELSE None)
  /\ publishable' = /\ publishable
                    /\ \A p \in DOMAIN runs : runs[p] # NoRuns
                    /\ CUDA_RESIDENT \in DOMAIN runs => Pooled(CUDA_RESIDENT) > 0
  /\ keyless' = (keyless \/ \E p \in DOMAIN claims :
                              p.backend = "cuda" /\ claims[p].own.verdict = "missing")
  /\ pc' = IF Len(column) + 1 < scenario.sizes THEN "calibrate" ELSE "render"
  /\ at' = 1
  /\ failed' = {} /\ runs' = <<>> /\ claims' = <<>>
  /\ UNCHANGED <<scenario, watch, orders, process, report>>

-----------------------------------------------------------------------------
(* report.py *)

\* find_crossovers.  Its points are the sizes at which the path has a passing
\* case, smallest first; a flip is a pair of successive points with opposite
\* verdicts, both supported: by the direction claim or by that of revision 2.
Opposite(a, b) == {a.own.verdict, b.own.verdict} = {"faster", "slower"}
Points(cases) == {i \in DOMAIN cases : cases[i] # None}
Pairwise(cases) ==
  {pair \in Points(cases) \X Points(cases) :
     pair[1] < pair[2] /\ \A k \in Points(cases) : ~(pair[1] < k /\ k < pair[2])}
FindCrossoversOneSided(cases, supported) ==
  LET flips == {pair \in Pairwise(cases) :
                  cases[pair[1]].own[supported] /\ Opposite(cases[pair[1]], cases[pair[2]])}
  IN IF Cardinality(flips) = 1 THEN CHOOSE pair \in flips : TRUE ELSE <<>>
FindCrossovers(cases, supported) ==
  LET flips == {pair \in Pairwise(cases) :
                  /\ cases[pair[1]].own[supported] /\ cases[pair[2]].own[supported]
                  /\ Opposite(cases[pair[1]], cases[pair[2]])}
  IN IF Cardinality(flips) = 1 THEN CHOOSE pair \in flips : TRUE ELSE <<>>

\* The claim columns of a row of t1_table.
TableRow(case) ==
  IF case = None \/ (case # None /\ case.own.verdict = "missing") THEN {"failed"}
  ELSE {case.own.verdict}
       \cup (IF DirectionSupported(case.own) THEN {"direction"} ELSE {})
       \cup (IF MagnitudeSupported(case.own) THEN {"magnitude"} ELSE {})
       \cup (IF Rev2Supported(case.own) THEN {"rev2"} ELSE {})

\* The markers plot_speedup and _mark_claims draw for a claim, and
\* plot_graph_vs_resident for vs_resident; none without a speedup.
Markers(claim) ==
  IF ~claim.point THEN {}
  ELSE (IF MagnitudeSupported(claim) THEN {"filled"} ELSE {})
       \cup (IF DirectionSupported(claim) /\ ~MagnitudeSupported(claim) THEN {"hollow"} ELSE {})
       \cup (IF ~DirectionSupported(claim) THEN {"faded"} ELSE {})
OwnMarkers(cases) ==
  [i \in DOMAIN cases |-> IF cases[i] = None THEN {} ELSE Markers(cases[i].own)]
GraphMarkers(cases) ==
  [i \in DOMAIN cases |->
     IF cases[i] = None \/ watch # CUDA_RESIDENT_GRAPH THEN {} ELSE Markers(cases[i].rival)]

\* A snapshot with an extension path goes to publication.py instead.
HasExtension(paths) == \E p \in paths : p.boundary = "gpu-origin" \/ p.policy = "pinned"
Extended == HasExtension(Range(Paths))

Rendered(cases) ==
  [rendered |-> TRUE,
   crossover |-> FindCrossovers(cases, "direction"),
   crossoverRev2 |-> FindCrossovers(cases, "rev2"),
   table |-> [i \in DOMAIN cases |-> TableRow(cases[i])],
   transfer |-> [i \in DOMAIN cases |-> {}],
   markers |-> OwnMarkers(cases),
   graph |-> GraphMarkers(cases)]

\* render_report.  find_crossovers reads the verdict of every passing CUDA
\* case and raises KeyError where there is none.
RenderReport ==
  /\ pc = "render" /\ ~Extended
  /\ pc' = IF keyless THEN "raised" ELSE "rendered"
  /\ report' = IF keyless THEN NoReport ELSE Rendered(column)
  /\ UNCHANGED <<scenario, watch, orders, at, process, failed, runs, claims, column, publishable,
                 keyless>>

ReportNext == PlanMatrix \/ CalibrateCase \/ MeasureGroup \/ EndGroup \/ RenderReport

-----------------------------------------------------------------------------
(* Properties *)

\* Over whole designs, every path holds every position equally often and
\* follows every other path equally often, for every selection of paths a
\* matrix accepts (williams_rows, trial_orders); the protocol's trials rest
\* on it.  A Williams design is always run in whole.
BalancedOrders ==
  orders # <<>> =>
    LET n == Len(Paths)
        Holds(k, p) == Cardinality({t \in DOMAIN orders : orders[t][k] = p})
        Follows(p, q) == Cardinality({place \in (DOMAIN orders) \X (2..n) :
                                        /\ orders[place[1]][place[2] - 1] = p
                                        /\ orders[place[1]][place[2]] = q})
    IN n > MAX_PERMUTATION_PATHS \/ scenario.trials % Len(DesignRows(n)) = 0 =>
         \A p \in 0..(n - 1) :
           /\ \A k \in 1..n : n * Holds(k, p) = scenario.trials
           /\ \A q \in 0..(n - 1) \ {p} : n * Follows(p, q) = scenario.trials

\* validate_bench_response accepts what the native side answers to exactly
\* the process it was asked for, on every path and with either K1, and
\* nothing else: the expectations in Python and the legality table in C
\* agree.
AcceptedIffAsked == process.accepted <=> process.honest

\* A direction is claimed for a path, against its baseline or against its
\* twin, exactly when the raw samples carry it: every trial of one side lies
\* below every trial of the other, and every nested pair of the path's veto
\* group was measured and is not inverted.  The pooled medians, and so the
\* printed speedup, then point the same way.  The AVX2 path claims nothing
\* (compare_case_group).
ClaimIsSound(claim, p, q, vetoed) ==
  /\ claim.direction <=> (~vetoed /\ RawOrder(p, q) # "none")
  /\ claim.direction => /\ claim.verdict = RawOrder(p, q)
                        /\ claim.verdict = "faster" <=> Pooled(p) < Pooled(q)
                        /\ claim.verdict = "slower" <=> Pooled(p) > Pooled(q)
  /\ claim.magnitude \/ claim.rev2 => claim.direction
SupportedIsSeparated ==
  pc = "compared" =>
    /\ \A p \in DOMAIN claims \ {COMPARATOR, AVX2_COMPARATOR} :
         ClaimIsSound(claims[p].own, p, Baseline(p), Vetoed(p))
    /\ \A p \in {p \in DOMAIN claims : claims[p].rival.verdict # "missing"} :
         ClaimIsSound(claims[p].rival, p, Rival(p), Vetoed(p) \/ Vetoed(Rival(p)))
    /\ \A p \in DOMAIN claims \cap {COMPARATOR, AVX2_COMPARATOR} : ~claims[p].own.direction

\* What is printed was measured: a crossover lies between two sizes whose
\* raw samples support opposite directions, no case of the path passed in
\* between, no other pair of successive passing sizes flips, and every
\* filled or hollow marker of F2 and F4 and every table row with a supported
\* direction stands on raw samples that carry it (find_crossovers, t1_table,
\* plot_speedup, plot_graph_vs_resident, _report_lines).
Flip(i, j) ==
  /\ i < j
  /\ column[i] # None /\ column[j] # None
  /\ {column[i].raw, column[j].raw} = {"faster", "slower"}
  /\ \A k \in (i + 1)..(j - 1) : column[k] = None
PrintedIsMeasured ==
  report.rendered =>
    /\ report.crossover # <<>> =>
         \A i, j \in DOMAIN column : Flip(i, j) <=> <<i, j>> = report.crossover
    /\ \A i \in DOMAIN column :
         /\ report.markers[i] \cap {"filled", "hollow"} # {} \/ "direction" \in report.table[i] =>
              column[i] # None /\ column[i].raw \in report.table[i]
         /\ report.graph[i] \cap {"filled", "hollow"} # {} => column[i].rivalRaw # "none"
         /\ "direction" \in report.transfer[i] => column[i].rivalRaw \in report.transfer[i]

\* benchmark-protocol.md: "the crossover is the interval between two adjacent
\* grid sizes whose verdicts differ", with the direction supported on both
\* sides; "if no such interval exists, or more than one exists, the crossover
\* is reported as not resolved" (find_crossovers).
AdjacentFlips ==
  {i \in 1..(Len(column) - 1) :
     /\ column[i] # None /\ column[i + 1] # None
     /\ DirectionSupported(column[i].own) /\ DirectionSupported(column[i + 1].own)
     /\ Opposite(column[i], column[i + 1])}
CrossoverIsAdjacent ==
  report.rendered => (report.crossover # <<>> <=> Cardinality(AdjacentFlips) = 1)
=============================================================================

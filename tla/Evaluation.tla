------------------------------ MODULE Evaluation ------------------------------
(***************************************************************************)
(* How the project's conclusions come about: a resident experiment and a   *)
(* matrix, each a process of its own that runs to its end and leaves a     *)
(* snapshot, and the report rendered from both.  The publication report    *)
(* takes its bandwidth ceiling from the K1 A/B snapshot, so it is the      *)
(* place where the two drivers meet (publication.py).                      *)
(***************************************************************************)
EXTENDS Resident, Report

CONSTANT Scenarios  \* matrices considered, each with the resident experiments
                    \* that may come before it, NoExperiment for none

\* A process takes at least one sample.  The design of an experiment is whole
\* numbers, the only thing argparse sees to.  The lines followed are those of CUDA
\* paths, in a publication those of paths the matrix has.
ASSUME ScenariosAssumption ==
  \A s \in Scenarios :
    /\ s.trials \in Nat /\ s.k1 \in K1_VARIANTS
    /\ s.profiles \subseteq Seq(Seq(Nat) \ {<<>>}) \ {<<>>}
    /\ \A p \in s.watched : p.backend = "cuda"
    /\ ~PathsRefused(s) /\ HasExtension(Range(BuildPaths(s))) =>
         s.watched \subseteq Range(BuildPaths(s))
    /\ \A e \in s.after \ {NoExperiment} :
         /\ e.counts \in Seq(Int) /\ e.bits \in Seq(Int)
         /\ e.processes \in Int /\ e.l2Bytes \in Nat

vars == <<residentVars, reportVars>>

Init ==
  /\ ReportInit(Scenarios)
  /\ ResidentInit(scenario.after)

\* plot_bandwidth: the A/B snapshot must be clean evidence of the same
\* device, with a probe size in DRAM.  Another experiment's summary has no
\* evidence flag.
BandwidthRefusedUnlessWritten == ~summary.written
BandwidthRefused ==
  \/ ~summary.written
  \/ ~summary.evidence \/ summary.dirty
  \/ summary.device # scenario.device
  \/ ~summary.ceiling

\* _comparison: the claim as the publication tables print it.
Comparison(claim) ==
  IF ~claim.point THEN {}
  ELSE {claim.verdict}
       \cup (IF DirectionSupported(claim) THEN {"direction"} ELSE {})
       \cup (IF MagnitudeSupported(claim) THEN {"magnitude"} ELSE {})

\* _report_lines and the figures: no revision 2 claims, and no crossover line
\* for the graph path.
Published(cases) ==
  [rendered |-> TRUE,
   crossover |-> IF watch = CUDA_RESIDENT_GRAPH THEN <<>> ELSE FindCrossovers(cases, "direction"),
   crossoverRev2 |-> <<>>,
   table |-> [i \in DOMAIN cases |-> Comparison(cases[i].own)],
   transfer |-> [i \in DOMAIN cases |-> IF watch.policy = "pinned" THEN Comparison(cases[i].rival) ELSE {}],
   markers |-> OwnMarkers(cases),
   graph |-> GraphMarkers(cases)]

\* render_publication_report: every case must have passed.  plot_bandwidth
\* also divides by the median of the resident path and by that of its K1
\* stage, which may be zero.
RenderPublication ==
  /\ pc = "render" /\ Extended
  /\ \/ /\ publishable /\ ~BandwidthRefused
        /\ pc' = "rendered" /\ report' = Published(column)
     \/ pc' = "raised" /\ report' = NoReport
  /\ UNCHANGED <<scenario, watch, orders, at, process, failed, runs, claims, column, publishable,
                 keyless>>

Next ==
  \/ ResidentNext /\ UNCHANGED reportVars
  \/ step = "exited" /\ (ReportNext \/ RenderPublication) /\ UNCHANGED residentVars

Spec == Init /\ [][Next]_vars

-----------------------------------------------------------------------------
(* Property *)

\* A publication report is rendered only from a complete matrix, and its
\* bandwidth ceiling comes from an A/B experiment that ran the registered
\* design from a clean tree on the matrix's device, with both arms (plot_
\* bandwidth, is_default_design, check_snapshot).
PublishedIsEvidence ==
  report.rendered /\ Extended =>
    /\ \A i \in DOMAIN column : column[i] # None
    /\ experiment.kind = "k1-ab"
    /\ ~experiment.dirty /\ ~experiment.allowDirty /\ ~experiment.pilot
    /\ experiment.processes = DEFAULT_PROCESSES
    /\ experiment.device = scenario.device
=============================================================================

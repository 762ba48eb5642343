------------------------------- MODULE Resident -------------------------------
(***************************************************************************)
(* The resident experiments: resident_experiment.py with the analyses of   *)
(* k1_ab.py (the reference K1 against the optimized one) and of            *)
(* k1_bandwidth.py (the reference K1 alone).                               *)
(*                                                                         *)
(* The driver is sequential.  Every native process it starts may fail, or  *)
(* answer for something else than it was asked, and any failure raises:    *)
(* what was measured stays behind in the partial snapshot, and nothing is  *)
(* published.  The folders themselves are SnapshotStore's business.        *)
(*                                                                         *)
(* An operator defined just before another one and named after it is a     *)
(* seeded fault; PROJECT.json says which property catches it.              *)
(***************************************************************************)
EXTENDS Claims, Response

CONSTANTS
  DEFAULT_PROCESSES,  \* process rounds of the registered design
  MIN_WARMUPS,        \* warm-up count of a process
  K1Samples,          \* what the K1 stage of one process may measure
  Differ              \* cells at which the two K1 variants write different
                      \* records

ASSUME ResidentAssumption ==
  /\ DEFAULT_PROCESSES \in Nat \ {0} /\ DEFAULT_PROCESSES % 2 = 0
  /\ MIN_WARMUPS \in Nat
  /\ K1Samples \subseteq Seq(Nat) /\ <<>> \notin K1Samples

VARIABLES
  experiment,  \* the command line and the machine; NoExperiment if none is run
  step,        \* control point
  todo,        \* what the current loop has left: cells, or jobs (a cell, a
               \* variant and its slot in the order of variants)
  round,       \* the current process round
  records,     \* what the timed processes measured, in order
  summary      \* summary.json; NoSummary until it is written

residentVars == <<experiment, step, todo, round, records, summary>>

NoExperiment == [kind |-> "none"]
NoSummary == [written |-> FALSE]

-----------------------------------------------------------------------------
(* Sizes.  l2 is the size of the L2 cache, in values. *)

BYTES_PER_VALUE == 4
DRAM_L2_MULTIPLE == 4
RegimeForBytes(bytes, l2Bytes) ==
  IF bytes >= DRAM_L2_MULTIPLE * l2Bytes THEN "dram"
  ELSE IF bytes > l2Bytes THEN "transitional" ELSE "l2-resident"
Regime(count, l2Bytes) == RegimeForBytes(count * BYTES_PER_VALUE, l2Bytes)

\* probe_ceiling raises when no probe size is large enough.
CeilingMissing(e) == \A bytes \in e.probeBytes : RegimeForBytes(bytes, e.l2Bytes) # "dram"

K1_VARIANTS == {"reference", "optimized"}
Variants(e) == IF e.kind = "k1-ab" THEN <<"reference", "optimized">> ELSE <<"reference">>
Cells(e) ==
  FlattenSeq([i \in DOMAIN e.counts |->
                [j \in DOMAIN e.bits |-> [count |-> e.counts[i], bits |-> e.bits[j]]]])

\* is_default_design.  The other analysis records no evidence flag.
IsDefaultDesign(e) ==
  /\ ~(e.pilot \/ e.allowDirty)
  /\ e.processes = DEFAULT_PROCESSES
  /\ e.others = "default"
Evidence(e) == e.kind = "k1-ab" /\ IsDefaultDesign(e)

VariantOrderFixed(process, variants) == variants
VariantOrder(process, variants) ==
  IF Len(variants) < 2 \/ process % 2 = 0 THEN variants ELSE Reverse(variants)

-----------------------------------------------------------------------------
(* Analysis *)

\* compare_arms: no boundary, so no inversion.
CompareArms(reference, optimized) ==
  Compared(CaseStatistics(reference), CaseStatistics(optimized), FALSE)

\* summarize_ab_cell: the K1 samples of one arm of one cell, in the order in
\* which they were measured.
ArmRows(rows, cell, variant) == {i \in DOMAIN rows : rows[i].cell = cell /\ rows[i].variant = variant}
ArmRuns(rows, cell, variant) ==
  LET mine == ArmRows(rows, cell, variant)
      Nth(n) == CHOOSE i \in mine : Cardinality({j \in mine : j <= i}) = n
  IN [n \in 1..Cardinality(mine) |-> rows[Nth(n)].k1]

KeptVacuously(e, comparisons) ==
  \A c \in {c \in Range(Cells(e)) : Regime(c.count, e.l2Bytes) = "dram"} :
    comparisons[c].verdict = "faster" /\ comparisons[c].direction
\* keep_decision.
Kept(e, comparisons) ==
  LET dram == {c \in Range(Cells(e)) : Regime(c.count, e.l2Bytes) = "dram"}
  IN /\ dram # {}
     /\ \A c \in dram : comparisons[c].verdict = "faster" /\ comparisons[c].direction

Comparisons(e, rows) ==
  [c \in Range(Cells(e)) |-> CompareArms(ArmRuns(rows, c, "reference"), ArmRuns(rows, c, "optimized"))]

\* summarize_cell divides by the median of each arm of each cell.
Unmeasurable(e, rows) ==
  \E c \in Range(Cells(e)), v \in Range(Variants(e)) : CaseStatistics(ArmRuns(rows, c, v)).median = 0

\* analyze_k1_ab and analyze_baseline; the latter decides nothing.
Analysis(e, rows) ==
  [written |-> TRUE, kind |-> e.kind, evidence |-> Evidence(e), dirty |-> e.dirty,
   device |-> e.device, ceiling |-> ~CeilingMissing(e),
   kept |-> e.kind = "k1-ab" /\ Kept(e, Comparisons(e, rows))]

-----------------------------------------------------------------------------
(* The experiment *)

ResidentInit(experiments) ==
  /\ experiment \in experiments
  /\ step = IF experiment = NoExperiment THEN "exited" ELSE "start"
  /\ todo = <<>>
  /\ round = 0
  /\ records = <<>>
  /\ summary = NoSummary

Raised == step' = "raised" /\ todo' = <<>> /\ UNCHANGED <<experiment, round, records, summary>>

\* The arms of a list of cells: each variant in turn, on every cell.
Jobs(cells, variants) ==
  FlattenSeq([i \in DOMAIN cells |->
                [s \in DOMAIN variants |-> [cell |-> cells[i], slot |-> s, variant |-> variants[s]]]])

\* Git, check_snapshot, find_binary and the probe's stamp.
StartExperiment ==
  /\ step = "start"
  /\ \/ /\ ~(experiment.dirty /\ ~experiment.allowDirty)
        /\ LET several == Len(Variants(experiment)) > 1 IN
           /\ step' = IF several THEN "identity" ELSE "warm"
           /\ todo' = IF several THEN Cells(experiment) ELSE <<>>
        /\ UNCHANGED <<experiment, round, records, summary>>
     \/ Raised

\* _verify_variant_records: every variant compresses the input of the cell,
\* before anything is timed.
VerifyVariantRecords ==
  /\ step = "identity"
  /\ todo # <<>>
  /\ \/ Head(todo) \notin Differ /\ todo' = Tail(todo)
        /\ UNCHANGED <<experiment, step, round, records, summary>>
     \/ Raised

\* warm_up_gpu, run_probe and create_snapshot.
WarmUpAndProbe ==
  /\ step = "warm" \/ (step = "identity" /\ todo = <<>>)
  /\ \/ /\ step' = "calibrate"
        /\ todo' = Jobs(Cells(experiment), Variants(experiment))
        /\ UNCHANGED <<experiment, round, records, summary>>
     \/ Raised

\* run_resident_arm.  A process that was asked for one variant may have run
\* the other one, and says so.
ArmRequest(job, variant, reps) ==
  Request(CUDA_RESIDENT, variant, job.cell.count, job.cell.bits, MIN_WARMUPS, reps)
ArmAccepted(job, ran, reps) ==
  ValidateBenchResponse(NativeAnswer(ArmRequest(job, ran, reps), 0),
                        ArmRequest(job, job.variant, reps))

Calibrate ==
  /\ step = "calibrate"
  /\ todo # <<>>
  /\ \/ /\ \E ran \in K1_VARIANTS : ArmAccepted(Head(todo), ran, 1)
        /\ todo' = Tail(todo)
        /\ UNCHANGED <<experiment, step, round, records, summary>>
     \/ Raised

ShufflesDistinct(cells) == SetToSeqs(Range(cells))
Shuffles(cells) ==
  {[i \in DOMAIN cells |-> cells[p[i]]] : p \in Bijection(DOMAIN cells, DOMAIN cells)}

\* A process round: rng.shuffle puts the list of cells in any order.  A cell
\* that the command line repeats stays repeated.
BeginRound ==
  /\ step \in {"calibrate", "rounds"} /\ todo = <<>>
  /\ round < experiment.processes
  /\ \E order \in Shuffles(Cells(experiment)) :
       todo' = Jobs(order, VariantOrder(round, Variants(experiment)))
  /\ step' = "rounds"
  /\ round' = round + 1
  /\ UNCHANGED <<experiment, records, summary>>

RunArm ==
  /\ step = "rounds"
  /\ todo # <<>>
  /\ \/ \E ran \in K1_VARIANTS, k1 \in K1Samples :
          /\ ArmAccepted(Head(todo), ran, Len(k1))
          /\ records' = Append(records,
               [cell |-> Head(todo).cell, variant |-> Head(todo).variant, slot |-> Head(todo).slot,
                round |-> round - 1, ran |-> ran, k1 |-> k1])
          /\ todo' = Tail(todo)
          /\ UNCHANGED <<experiment, step, round, summary>>
     \/ Raised

Analyze ==
  /\ step = "rounds" /\ todo = <<>> /\ round = experiment.processes
  /\ IF CeilingMissing(experiment) \/ Unmeasurable(experiment, records)
     THEN Raised
     ELSE /\ summary' = Analysis(experiment, records)
          /\ step' = "published"
          /\ UNCHANGED <<experiment, todo, round, records>>

\* The process ends; the published folder is all that is left of it.
ExitExperiment ==
  /\ step \in {"published", "raised"}
  /\ step' = "exited"
  /\ records' = <<>> /\ round' = 0
  /\ UNCHANGED <<experiment, todo, summary>>

ResidentNext ==
  \/ StartExperiment \/ VerifyVariantRecords \/ WarmUpAndProbe \/ Calibrate
  \/ BeginRound \/ RunArm \/ Analyze \/ ExitExperiment

-----------------------------------------------------------------------------
(* Properties *)

ArmOf(cell, variant) == ArmRows(records, cell, variant)

\* How often the command line asks for a cell: --counts and --bits may
\* repeat a value.
Copies(cell) ==
  Cardinality({i \in DOMAIN Cells(experiment) : Cells(experiment)[i] = cell})

\* The optimized K1 is kept only on a unanimous result: both variants wrote
\* the same record for every cell; every round ran both arms of a cell
\* equally often, as often as the cell was asked for; each process ran the
\* variant it is recorded under; and on a cell in DRAM, of which there is at
\* least one, the slowest optimized process beat the fastest reference one
\* (k1_ab.keep_decision).  In a snapshot that counts as evidence each arm
\* went first in half of the processes of every cell, so neither always
\* inherits the other's warm caches and clocks (variant_order,
\* is_default_design).
KeepIsUnanimous ==
  step = "published" /\ summary.kept =>
    /\ summary.evidence =>
         \A c \in Range(Cells(experiment)), v \in K1_VARIANTS :
           2 * Cardinality({i \in ArmOf(c, v) : records[i].slot = 1}) = experiment.processes * Copies(c)
    /\ Range(Cells(experiment)) \cap Differ = {}
    /\ \A i \in DOMAIN records : records[i].ran = records[i].variant
    /\ \A c \in Range(Cells(experiment)), v \in K1_VARIANTS :
         /\ {records[i].round : i \in ArmOf(c, v)} = 0..(experiment.processes - 1)
         /\ \A q \in 0..(experiment.processes - 1) :
              Cardinality({i \in ArmOf(c, v) : records[i].round = q}) = Copies(c)
    /\ \E c \in Range(Cells(experiment)) : c.count >= experiment.l2Bytes
    /\ \A c \in Range(Cells(experiment)) : c.count >= experiment.l2Bytes =>
         \A i \in ArmOf(c, "reference"), j \in ArmOf(c, "optimized") :
           Median(records[i].k1) > Median(records[j].k1)
=============================================================================

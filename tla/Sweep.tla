-------------------------------- MODULE Sweep --------------------------------
(***************************************************************************)
(* One matrix sweep: the admission rules of matrix.run_benchmark_matrix,   *)
(* Sweep.run with its correctness gate, warm-ups, trials and statistics    *)
(* per cell (an input at a bit width), and the manifest that says whether  *)
(* the snapshot is evidence.                                               *)
(*                                                                         *)
(* The sweep is sequential; what it cannot foresee is every native process *)
(* it starts.  Any of them may time out, fail to start, exit with an       *)
(* error, answer something validate_bench_response rejects, or write a     *)
(* wrong record, and a crash or an exception may end the sweep anywhere.   *)
(* Timings are left out, and so is the order in which a trial visits its   *)
(* paths: every order is possible here.                                    *)
(*                                                                         *)
(* An operator defined just before another one and named after it is a     *)
(* seeded fault; PROJECT.json says which property catches it.              *)
(***************************************************************************)
EXTENDS Naturals

CONSTANTS
  Paths,         \* the selected BenchPaths, one case each per cell
  Comparator,    \* the scalar CPU path, always selected
  Backend,       \* Backend[p]: "cpu", "cpu-avx2" or "cuda"
  Cells,         \* (input, bits) pairs; their record files share names, as
                 \* those of two inputs of one length do
  NoCell,        \* the content of a record file nobody has written
  Trials,        \* timed processes per path
  Warmups,       \* the base warm-up count
  Calibrated,    \* warm-up counts a calibration probe may lead to
  ThreadCounts,  \* thread counts the AVX2 path may report
  GpuWarmup,     \* TRUE: gpu_warmup_seconds and case_warmup_seconds > 0
  Calibration,   \* TRUE: in_process_warmup_seconds > 0
  Conditions     \* the invocations and machines considered

ASSUME SweepAssumption ==
  /\ Comparator \in Paths
  /\ Backend \in [Paths -> {"cpu", "cpu-avx2", "cuda"}]
  /\ Backend[Comparator] = "cpu"
  /\ NoCell \notin Cells
  /\ Cells # {}
  /\ Trials \in Nat \ {0}
  /\ Warmups \in Nat
  /\ Calibrated \subseteq Nat
  /\ ThreadCounts \subseteq Nat \ {0}
  /\ GpuWarmup \in BOOLEAN
  /\ Calibration \in BOOLEAN
  /\ Conditions \subseteq [dirty: BOOLEAN, allowDirty: BOOLEAN, pilot: BOOLEAN,
                           ready: BOOLEAN, ignoreReadiness: BOOLEAN]

VARIABLES
  pc,        \* control point of the sweep
  cond,      \* git_dirty and readiness as probed, and the flags given
  cell,      \* the cell being worked on
  todo,      \* cells not yet started
  pending,   \* paths still to visit in the current loop over paths
  trial,     \* the current trial
  files,     \* the record files in _temp
  status,    \* status[p]: "passed", or the phase in which the case failed
  warm,      \* warm[p]: the in-process warm-up count of the case
  runs,      \* runs[p]: trial_runs of the case
  written,   \* written[c][p]: the case file, once written
  manifest   \* the manifest, once written

groupVars == <<status, warm, runs>>
outVars == <<written, manifest>>
vars == <<pc, cond, cell, todo, pending, trial, files, groupVars, outVars>>

Backends == {Backend[p] : p \in Paths}
Cuda == "cuda" \in Backends
Avx2 == "cpu-avx2" \in Backends
OtherPaths == Paths \ {Comparator}

\* The native processes of one gate, each with a record file of its own.
Compress(b) == <<"compress", b>>
Bench(p) == <<"bench", p>>
GateProcesses == {Compress(b) : b \in Backends} \cup {Bench(p) : p \in Paths}
RightRecord(c) == [cell |-> c, right |-> TRUE]

NoCase == [status |-> "none", runs |-> {}]
NoManifest == [evidence |-> FALSE, allPassed |-> FALSE, written |-> FALSE]

Ends == {"committed", "refused", "aborted"}

Init ==
  /\ pc = "check" /\ cond \in Conditions
  /\ cell = NoCell /\ todo = Cells /\ pending = {} /\ trial = 0
  /\ files = [g \in GateProcesses |-> [cell |-> NoCell, right |-> FALSE]]
  /\ status = [p \in Paths |-> "gate"]
  /\ warm = [p \in Paths |-> Warmups]
  /\ runs = [p \in Paths |-> {}]
  /\ written = [c \in Cells |-> [p \in Paths |-> NoCase]]
  /\ manifest = NoManifest

-----------------------------------------------------------------------------
(* run_benchmark_matrix before the sweep *)

\* check_snapshot refuses a dirty tree, check_readiness an unready machine,
\* unless a flag says otherwise; then the snapshot is reserved and set up.
Admitted ==
  /\ cond.dirty => cond.allowDirty
  /\ cond.ready \/ cond.ignoreReadiness \/ cond.pilot
Admit ==
  /\ pc = "check"
  /\ pc' = IF Admitted THEN "warm_gpu" ELSE "refused"
  /\ UNCHANGED <<cond, cell, todo, pending, trial, files, groupVars, outVars>>

\* "evidence": not non_evidence_reasons.
EvidenceConditions == ~cond.pilot /\ cond.ready /\ ~cond.dirty

\* order_and_warm_up: a failed pre-loop warm-up raises out of the sweep.
WarmGpu ==
  /\ pc = "warm_gpu"
  /\ \/ pc' = "next_cell"
     \/ GpuWarmup /\ Cuda /\ pc' = "aborted"
  /\ UNCHANGED <<cond, cell, todo, pending, trial, files, groupVars, outVars>>

\* The next cell of the seeded case order.
NextCell ==
  /\ pc = "next_cell"
  /\ \E c \in todo : cell' = c /\ todo' = todo \ {c}
  /\ pc' = "cpu_compress"
  /\ UNCHANGED <<cond, pending, trial, files, groupVars, outVars>>

-----------------------------------------------------------------------------
(* verify_correctness and build_case_stubs *)

\* Every case of the cell starts with a copy of the gate's verdict.
Stubs(verdict) ==
  /\ status' = [p \in Paths |-> verdict]
  /\ warm' = [p \in Paths |-> Warmups]
  /\ runs' = [p \in Paths |-> {}]
GateFails == Stubs("gate") /\ pc' = "statistics"
GateGoesOn(to) == pc' = to /\ UNCHANGED groupVars

\* One gate process: exit code 0 with its record file replaced, or a timeout,
\* an OSError or another exit code, before or after it wrote its record.
Writes(g) ==
  \E right \in BOOLEAN : files' = [files EXCEPT ![g] = [cell |-> cell, right |-> right]]
ProcessIgnoresExit(g, ok) == (Writes(g) \/ UNCHANGED files) /\ ok
Process(g, ok) ==
  \/ Writes(g) /\ ok
  \/ (Writes(g) \/ UNCHANGED files) /\ GateFails

\* Byte identity of two record files.
Same(f, g, h) == f[g] = f[h]

\* One path less to visit.
Without(p) == pending \ {p}

GateUnchanged == UNCHANGED <<cond, cell, todo, trial, outVars>>

\* check_cpu_reference: compress, then bench, then compare.
CpuCompress ==
  /\ pc = "cpu_compress"
  /\ Process(Compress("cpu"), GateGoesOn("cpu_bench"))
  /\ UNCHANGED pending
  /\ GateUnchanged
CpuBench ==
  /\ pc = "cpu_bench"
  /\ Process(Bench(Comparator),
       IF Same(files', Bench(Comparator), Compress("cpu"))
       THEN GateGoesOn("avx2_compress") ELSE GateFails)
  /\ UNCHANGED pending
  /\ GateUnchanged

\* check_avx2_comparator, when the backend is selected.
Avx2Compress ==
  /\ pc = "avx2_compress"
  /\ IF Avx2
     THEN Process(Compress("cpu-avx2"),
            IF Same(files', Compress("cpu-avx2"), Compress("cpu"))
            THEN GateGoesOn("cuda_compress") ELSE GateFails)
     ELSE GateGoesOn("cuda_compress") /\ UNCHANGED files
  /\ UNCHANGED pending
  /\ GateUnchanged

\* compress_cuda_reference, when the backend is selected.
CudaCompress ==
  /\ pc = "cuda_compress"
  /\ IF Cuda
     THEN Process(Compress("cuda"), GateGoesOn("bench_others"))
     ELSE GateGoesOn("bench_others") /\ UNCHANGED files
  /\ pending' = OtherPaths
  /\ GateUnchanged

\* record_other_paths: one bench record per path but the comparator.
BenchOther ==
  /\ pc = "bench_others"
  /\ IF pending = {}
     THEN GateGoesOn("identity") /\ UNCHANGED <<files, pending>>
     ELSE \E p \in pending :
            /\ pending' = Without(p)
            /\ Process(Bench(p), GateGoesOn("bench_others"))
  /\ GateUnchanged

\* check_cross_path_identity: each path against its backend's compress
\* record, then CPU against CUDA.
Identical ==
  /\ \A p \in OtherPaths :
       Same(files, Bench(p), Compress(IF Backend[p] = "cuda" THEN "cuda" ELSE "cpu"))
  /\ Cuda => Same(files, Compress("cpu"), Compress("cuda"))
Identity ==
  /\ pc = "identity"
  /\ IF Identical THEN GateGoesOn("bounds") ELSE GateFails
  /\ UNCHANGED <<files, pending>>
  /\ GateUnchanged

\* check_fp64_bounds: the CPU bench record, decoded, against the oracle.
Bounds ==
  /\ pc = "bounds"
  /\ IF files[Bench(Comparator)].right
     THEN Stubs("passed") /\ pc' = "warm_case"
     ELSE GateFails
  /\ UNCHANGED <<files, pending>>
  /\ GateUnchanged

-----------------------------------------------------------------------------
(* warm_up_case and run_trials *)

Passed(p) == status[p] = "passed"

\* The GPU warm-up of the cell: a failure fails every case of it.
WarmCase ==
  /\ pc = "warm_case"
  /\ \/ UNCHANGED status /\ pending' = IF Calibration THEN Paths ELSE {}
     \/ /\ GpuWarmup /\ Cuda
        /\ status' = [p \in Paths |-> "gpu-warmup"]
        /\ pending' = {}
  /\ pc' = "calibrate"
  /\ UNCHANGED <<cond, cell, todo, trial, files, warm, runs, outVars>>

\* in_process_warmups: never below the base count.
WarmupCount(n) == IF n > Warmups THEN n ELSE Warmups

\* The untimed probe of each path; when all are through, the first trial.
Calibrate ==
  /\ pc = "calibrate"
  /\ IF pending = {}
     THEN /\ pc' = "trials" /\ trial' = 1 /\ pending' = Paths
          /\ UNCHANGED <<status, warm>>
     ELSE \E p \in pending :
            /\ pending' = Without(p)
            /\ \/ /\ status' = [status EXCEPT ![p] = "calibration-warmup"]
                  /\ UNCHANGED warm
               \/ /\ \E n \in Calibrated : warm' = [warm EXCEPT ![p] = WarmupCount(n)]
                  /\ UNCHANGED status
            /\ UNCHANGED <<pc, trial>>
  /\ UNCHANGED <<cond, cell, todo, files, runs, outVars>>

\* What a timed process that passed validation contributes: the identifiers
\* it echoed (fixed by the warm-up count) and, for AVX2, its thread count.
RunOfFreshIds(p, t) ==
  {[trial |-> trial, warm |-> warm[p] + trial, threads |-> t]}
RunOf(p, t) ==
  {[trial |-> trial, warm |-> warm[p], threads |-> t]}
ReportedThreads(p) == IF Backend[p] = "cpu-avx2" THEN ThreadCounts ELSE {0}

\* A trial skips the cases that failed before; a process that yields nothing
\* fails its case and the other paths go on.
TrialFails(p) == status' = [status EXCEPT ![p] = "trial"] /\ UNCHANGED runs
TrialSucceeds(p) ==
  /\ \E t \in ReportedThreads(p) : runs' = [runs EXCEPT ![p] = @ \cup RunOf(p, t)]
  /\ UNCHANGED status
RunTrial ==
  /\ pc = "trials"
  /\ pending # {}
  /\ \E p \in pending :
       /\ pending' = Without(p)
       /\ IF Passed(p) THEN TrialFails(p) \/ TrialSucceeds(p)
          ELSE UNCHANGED <<status, runs>>
  /\ UNCHANGED <<pc, cond, cell, todo, trial, files, warm, outVars>>
MoreTrials == trial < Trials
NextTrial ==
  /\ pc = "trials"
  /\ pending = {}
  /\ IF MoreTrials
     THEN trial' = trial + 1 /\ pending' = Paths /\ UNCHANGED pc
     ELSE pc' = "statistics" /\ UNCHANGED <<trial, pending>>
  /\ UNCHANGED <<cond, cell, todo, files, groupVars, outVars>>

-----------------------------------------------------------------------------
(* compute_case_group_statistics, write_case_outputs, write_manifest *)

\* Replicates of an identical workload: same identifiers, same threads.
Agree(s) == \A a, b \in s : a.warm = b.warm /\ a.threads = b.threads

\* Runs of failed cases are dropped, then the case files are written; trials
\* of a passing case that do not agree raise out of the sweep.  The records
\* in memory are those of the next cell from here on.
StatisticsNoAgreement == TRUE
StatisticsAgree == \A p \in Paths : Passed(p) => Agree(runs[p])
KeptRuns(p) == IF Passed(p) THEN runs[p] ELSE {}
CaseFile(p) == [status |-> status[p], runs |-> KeptRuns(p)]
Statistics ==
  /\ pc = "statistics"
  /\ IF StatisticsAgree
     THEN /\ pc' = IF todo = {} THEN "manifest" ELSE "next_cell"
          /\ written' = [written EXCEPT ![cell] = [p \in Paths |-> CaseFile(p)]]
     ELSE pc' = "aborted" /\ UNCHANGED written
  /\ Stubs("gate") /\ trial' = 0
  /\ UNCHANGED <<cond, cell, todo, pending, files, manifest>>

\* write_manifest over all cases, then Snapshot.commit.
NoFailedCaseLastCell == \A p \in Paths : written[cell][p].status = "passed"
NoFailedCase == \A c \in Cells, p \in Paths : written[c][p].status = "passed"
Manifest ==
  /\ pc = "manifest"
  /\ manifest' = [evidence |-> EvidenceConditions /\ NoFailedCase,
                  allPassed |-> NoFailedCase, written |-> TRUE]
  /\ pc' = "committed"
  /\ UNCHANGED <<cond, cell, todo, pending, trial, files, groupVars, written>>

\* An interrupt, a crash or an unforeseen exception.
Crash ==
  /\ pc \notin Ends \cup {"check"}
  /\ pc' = "aborted"
  /\ UNCHANGED <<cond, cell, todo, pending, trial, files, groupVars, outVars>>

Gate ==
  \/ CpuCompress \/ CpuBench \/ Avx2Compress \/ CudaCompress
  \/ BenchOther \/ Identity \/ Bounds
Step ==
  \/ Admit \/ WarmGpu \/ NextCell \/ Gate \/ WarmCase \/ Calibrate
  \/ RunTrial \/ NextTrial \/ Statistics \/ Manifest
Next == Step \/ Crash

Spec == Init /\ [][Next]_vars

-----------------------------------------------------------------------------
(* Properties *)

AfterGate == {"warm_case", "calibrate", "trials", "statistics"}
Complete(s) == {r.trial : r \in s} = 1..Trials

\* verify_correctness, "gating check before timing each case": when a case is
\* warmed up or timed, every gate process of every selected path has written
\* its record file for this very cell (not a file left by an earlier input of
\* the same length), all of them are identical, and they decode correctly.
TimedIsCorrect ==
  pc \in AfterGate /\ (\E p \in Paths : status[p] # "gate") =>
    \A g \in GateProcesses : files[g] = RightRecord(cell)

\* A case file that says passed holds one run of every trial, replicates of
\* one workload; one that says failed holds no run.  And no case fails because
\* its trials "used different invocation identifiers": the warm-up count that
\* fixes them is set before the first trial.
CaseFilesSound ==
  /\ pc = "statistics" => \A p \in Paths : \A a, b \in runs[p] : a.warm = b.warm
  /\ \A c \in Cells, p \in Paths :
    LET case == written[c][p] IN
    IF case.status = "passed" THEN Complete(case.runs) /\ Agree(case.runs)
    ELSE case.runs = {}

\* A published snapshot has a case file, passed or failed, for every path of
\* every cell (ADR 0005).  One that calls itself evidence was measured on a
\* clean tree and a ready machine, is no pilot, and has no case that failed
\* in any phase of any cell.
EvidenceSound ==
  pc = "committed" =>
    /\ \A c \in Cells, p \in Paths : written[c][p] # NoCase
    /\ manifest.evidence =>
         /\ ~cond.dirty /\ cond.ready /\ ~cond.pilot
         /\ \A c \in Cells, p \in Paths :
              written[c][p].status = "passed" /\ Complete(written[c][p].runs)
=============================================================================

----------------------------- MODULE SweepProofs -----------------------------
(***************************************************************************)
(* Proofs about Sweep, for any paths, cells, trial counts and conditions.  *)
(*                                                                         *)
(* The argument for the gate: its first record is always fresh, every      *)
(* later comparison is (directly or not) with that record, and nothing     *)
(* writes a record between the comparisons and the last trial.  A stale    *)
(* file of another cell therefore cannot pass, although the gate never     *)
(* looks at a file's age.  For the trials: a case that still counts as     *)
(* passed has one run of every trial begun so far, except of the current   *)
(* one while its path is pending.                                          *)
(***************************************************************************)
EXTENDS Sweep, TLAPS

GatePcs == {"cpu_compress", "cpu_bench", "avx2_compress", "cuda_compress",
            "bench_others", "identity", "bounds"}
Timing == {"warm_case", "calibrate", "trials"}
Working == GatePcs \cup AfterGate

Statuses == {"passed", "gate", "gpu-warmup", "calibration-warmup", "trial"}
Run == [trial : Nat, warm : Nat, threads : Nat]
Case == [status : Statuses \cup {"none"}, runs : SUBSET Run]
Record == [cell : Cells \cup {NoCell}, right : BOOLEAN]

TypeOK ==
  /\ pc \in {"check", "warm_gpu", "next_cell", "manifest"} \cup Working \cup Ends
  /\ cond \in Conditions
  /\ cell \in Cells \cup {NoCell}
  /\ pc \in Working => cell \in Cells
  /\ todo \subseteq Cells
  /\ pending \subseteq Paths
  /\ trial \in Nat
  /\ files \in [GateProcesses -> Record]
  /\ status \in [Paths -> Statuses]
  /\ warm \in [Paths -> Nat]
  /\ runs \in [Paths -> SUBSET Run]
  /\ written \in [Cells -> [Paths -> Case]]

\* What each point of the gate knows of the record files.
CpuRecord == files[Compress("cpu")]
GateProgress ==
  /\ pc \in GatePcs \ {"cpu_compress"} => CpuRecord.cell = cell
  /\ pc \in GatePcs \ {"cpu_compress", "cpu_bench"} =>
       files[Bench(Comparator)] = CpuRecord
  /\ pc \in {"cuda_compress", "bench_others", "identity", "bounds"} /\ Avx2 =>
       files[Compress("cpu-avx2")] = CpuRecord
  /\ pc = "bench_others" => pending \subseteq OtherPaths
  /\ pc = "bounds" => \A g \in GateProcesses : files[g] = CpuRecord
  /\ pc \in Timing => \A g \in GateProcesses : files[g] = RightRecord(cell)

\* One run per trial begun, all with the warm-up count the case ended up with.
TrialsOf(p) == {r.trial : r \in runs[p]}
TrialProgress ==
  /\ pc \in {"warm_case", "calibrate"} => \A p \in Paths : runs[p] = {}
  /\ pc = "trials" =>
       /\ trial \in 1..Trials
       /\ \A p \in Paths : Passed(p) =>
            TrialsOf(p) = IF p \in pending THEN 1..(trial - 1) ELSE 1..trial
  /\ pc \in {"trials", "statistics"} =>
       \A p \in Paths : \A r \in runs[p] : r.warm = warm[p]
  /\ pc = "statistics" => \A p \in Paths : Passed(p) => Complete(runs[p])

\* What the case files say.
CaseFiles ==
  \A c \in Cells, p \in Paths :
    IF written[c][p].status = "passed"
    THEN Complete(written[c][p].runs) /\ Agree(written[c][p].runs)
    ELSE written[c][p].runs = {}

\* Every cell that is neither ahead nor being worked on has its case files;
\* the manifest comes after the last cell.
CellProgress ==
  /\ pc \notin {"refused", "aborted"} =>
       \A c \in Cells \ todo :
         (pc \in Working /\ c = cell) \/ \A p \in Paths : written[c][p].status # "none"
  /\ pc \in {"manifest", "committed"} => todo = {}
  /\ pc = "committed" /\ manifest.evidence => EvidenceConditions /\ NoFailedCase

IInv ==
  /\ TypeOK
  /\ GateProgress
  /\ TimedIsCorrect
  /\ TrialProgress
  /\ CaseFiles
  /\ CellProgress

-----------------------------------------------------------------------------
(* The record files *)

\* The processes of a gate, and that no two of them share a record file.
LEMMA Processes ==
  /\ Compress("cpu") \in GateProcesses
  /\ Avx2 => Compress("cpu-avx2") \in GateProcesses
  /\ Cuda => Compress("cuda") \in GateProcesses
  /\ \A p \in Paths : Bench(p) \in GateProcesses
  /\ \A p, q \in Paths : Bench(p) = Bench(q) => p = q
  /\ \A p \in Paths : \A b \in {"cpu", "cpu-avx2", "cuda"} : Bench(p) # Compress(b)
  /\ \A b, d \in {"cpu", "cpu-avx2", "cuda"} : Compress(b) = Compress(d) => b = d
BY SweepAssumption DEF GateProcesses, Compress, Bench, Avx2, Cuda, Backends

\* Every gate process is a compression of a selected backend or the benchmark
\* of a selected path.
LEMMA EveryProcess ==
  ASSUME NEW g \in GateProcesses
  PROVE  \/ g = Compress("cpu")
         \/ Avx2 /\ g = Compress("cpu-avx2")
         \/ Cuda /\ g = Compress("cuda")
         \/ \E p \in Paths : g = Bench(p)
BY SweepAssumption DEF GateProcesses, Avx2, Cuda, Backends

\* A process replaces its own record file with one of the current cell.
LEMMA Writing ==
  ASSUME NEW g \in GateProcesses, TypeOK, cell \in Cells, Writes(g)
  PROVE  /\ files' \in [GateProcesses -> Record]
         /\ files'[g].cell = cell
         /\ \A h \in GateProcesses : h # g => files'[h] = files[h]
<1> PICK right \in BOOLEAN : files' = [files EXCEPT ![g] = [cell |-> cell, right |-> right]]
  BY DEF Writes
<1>1. [cell |-> cell, right |-> right] \in Record
  BY DEF Record
<1> QED
  BY <1>1 DEF TypeOK

-----------------------------------------------------------------------------
(* The gate *)

\* Whatever fails in the gate, every case of the cell is a failed one without
\* runs, and the cell goes straight to its case files.
LEMMA GateFailure ==
  ASSUME IInv, pc \in GatePcs, GateFails, GateUnchanged,
         pending' \subseteq Paths, files' \in [GateProcesses -> Record]
  PROVE  IInv'
<1> USE DEF GateFails, Stubs, GateUnchanged, outVars, GatePcs
<1>1. TypeOK'
  BY SweepAssumption DEF IInv, TypeOK, Working, AfterGate, Statuses, Run
<1>2. GateProgress' /\ TimedIsCorrect'
  BY DEF GateProgress, TimedIsCorrect, Timing
<1>3. TrialProgress'
  BY DEF TrialProgress, Passed
<1>4. CaseFiles'
  BY DEF IInv, CaseFiles
<1>5. CellProgress'
  BY DEF IInv, CellProgress, Working, AfterGate
<1> QED
  BY <1>1, <1>2, <1>3, <1>4, <1>5 DEF IInv

\* A check that succeeds only moves on inside the gate: what it must keep is
\* what the gate knows of the files.
LEMMA GateSuccess ==
  ASSUME IInv, pc \in GatePcs, NEW to \in GatePcs, GateGoesOn(to), GateUnchanged,
         pending' \subseteq Paths, files' \in [GateProcesses -> Record], GateProgress'
  PROVE  IInv'
<1> USE DEF GateGoesOn, groupVars, GateUnchanged, outVars, GatePcs
<1>1. TypeOK'
  BY DEF IInv, TypeOK, Working, AfterGate
<1>2. TimedIsCorrect' /\ TrialProgress'
  BY DEF TimedIsCorrect, TrialProgress, AfterGate
<1>3. CaseFiles'
  BY DEF IInv, CaseFiles
<1>4. CellProgress'
  BY DEF IInv, CellProgress, Working, AfterGate
<1> QED
  BY <1>1, <1>2, <1>3, <1>4 DEF IInv

\* Each check of the gate, in the order of verify_correctness.
LEMMA CpuCompressStep == IInv /\ CpuCompress => IInv'
<1> SUFFICES ASSUME IInv, CpuCompress PROVE IInv'
  OBVIOUS
<1>1. /\ pc = "cpu_compress" /\ pc \in GatePcs /\ TypeOK /\ cell \in Cells
      /\ pending' = pending /\ pending' \subseteq Paths /\ GateUnchanged
  BY DEF CpuCompress, GatePcs, IInv, TypeOK, Working
<1>2. files' \in [GateProcesses -> Record]
  BY <1>1, Writing, Processes DEF CpuCompress, Process, TypeOK
<1>3. CASE GateFails
  BY <1>1, <1>2, <1>3, GateFailure
<1>4. CASE Writes(Compress("cpu")) /\ GateGoesOn("cpu_bench")
  <2>1. files'[Compress("cpu")].cell = cell
    BY <1>1, <1>4, Writing, Processes
  <2>2. GateProgress'
    BY <1>1, <1>4, <2>1 DEF GateProgress, CpuRecord, GateGoesOn, GateUnchanged, Timing, GatePcs
  <2> QED
    BY <1>1, <1>2, <1>4, <2>2, GateSuccess DEF GatePcs
<1> QED
  BY <1>3, <1>4 DEF CpuCompress, Process

\* The benchmark of the reference path writes its own record of the case.
LEMMA CpuBenchStep == IInv /\ CpuBench => IInv'
<1> SUFFICES ASSUME IInv, CpuBench PROVE IInv'
  OBVIOUS
<1>1. /\ pc = "cpu_bench" /\ pc \in GatePcs /\ TypeOK /\ cell \in Cells
      /\ pending' = pending /\ pending' \subseteq Paths /\ GateUnchanged
      /\ files[Compress("cpu")].cell = cell
  BY DEF CpuBench, GatePcs, IInv, TypeOK, Working, GateProgress, CpuRecord
<1>2. files' \in [GateProcesses -> Record]
  BY <1>1, Writing, Processes, SweepAssumption DEF CpuBench, Process, TypeOK
<1>3. CASE GateFails
  BY <1>1, <1>2, <1>3, GateFailure
<1>4. CASE /\ Writes(Bench(Comparator)) /\ GateGoesOn("avx2_compress")
           /\ Same(files', Bench(Comparator), Compress("cpu"))
  <2>1. files'[Compress("cpu")] = files[Compress("cpu")]
    BY <1>1, <1>4, Writing, Processes, SweepAssumption
  <2>2. GateProgress'
    BY <1>1, <1>4, <2>1
       DEF GateProgress, CpuRecord, GateGoesOn, GateUnchanged, Timing, Same, GatePcs
  <2> QED
    BY <1>1, <1>2, <1>4, <2>2, GateSuccess DEF GatePcs
<1> QED
  BY <1>3, <1>4 DEF CpuBench, Process

\* The AVX2 compression, where the host has it, joins the compared records.
LEMMA Avx2CompressStep == IInv /\ Avx2Compress => IInv'
<1> SUFFICES ASSUME IInv, Avx2Compress PROVE IInv'
  OBVIOUS
<1>1. /\ pc = "avx2_compress" /\ pc \in GatePcs /\ TypeOK /\ cell \in Cells
      /\ pending' = pending /\ pending' \subseteq Paths /\ GateUnchanged
      /\ files[Compress("cpu")].cell = cell
      /\ files[Bench(Comparator)] = files[Compress("cpu")]
  BY DEF Avx2Compress, GatePcs, IInv, TypeOK, Working, GateProgress, CpuRecord
<1>2. files' \in [GateProcesses -> Record]
  BY <1>1, Writing, Processes DEF Avx2Compress, Process, TypeOK
<1>3. CASE GateFails
  BY <1>1, <1>2, <1>3, GateFailure
<1>4. CASE /\ Avx2 /\ Writes(Compress("cpu-avx2")) /\ GateGoesOn("cuda_compress")
           /\ Same(files', Compress("cpu-avx2"), Compress("cpu"))
  <2>1. /\ files'[Compress("cpu")] = files[Compress("cpu")]
        /\ files'[Bench(Comparator)] = files[Bench(Comparator)]
    <3>1. /\ Compress("cpu-avx2") # Compress("cpu")
          /\ Compress("cpu-avx2") # Bench(Comparator)
          /\ Bench(Comparator) \in GateProcesses
      BY Processes, SweepAssumption
    <3> QED
      BY <1>1, <1>4, <3>1, Writing, Processes
  <2>2. GateProgress'
    BY <1>1, <1>4, <2>1
       DEF GateProgress, CpuRecord, GateGoesOn, GateUnchanged, Timing, Same, GatePcs
  <2> QED
    BY <1>1, <1>2, <1>4, <2>2, GateSuccess DEF GatePcs
<1>5. CASE ~Avx2 /\ GateGoesOn("cuda_compress") /\ files' = files
  <2>1. GateProgress'
    BY <1>1, <1>5 DEF GateProgress, CpuRecord, GateGoesOn, GateUnchanged, Timing, GatePcs
  <2> QED
    BY <1>1, <1>2, <1>5, <2>1, GateSuccess DEF GatePcs
<1> QED
  BY <1>3, <1>4, <1>5 DEF Avx2Compress, Process

\* The CUDA compression does, and leaves the other paths' benchmarks to run.
LEMMA CudaCompressStep == IInv /\ CudaCompress => IInv'
<1> SUFFICES ASSUME IInv, CudaCompress PROVE IInv'
  OBVIOUS
<1>1. /\ pc = "cuda_compress" /\ pc \in GatePcs /\ TypeOK /\ cell \in Cells
      /\ pending' = OtherPaths /\ pending' \subseteq Paths /\ GateUnchanged
      /\ files[Compress("cpu")].cell = cell
      /\ files[Bench(Comparator)] = files[Compress("cpu")]
      /\ Avx2 => files[Compress("cpu-avx2")] = files[Compress("cpu")]
  BY DEF CudaCompress, GatePcs, IInv, TypeOK, Working, GateProgress, CpuRecord, OtherPaths
<1>2. files' \in [GateProcesses -> Record]
  BY <1>1, Writing, Processes DEF CudaCompress, Process, TypeOK
<1>3. CASE GateFails
  BY <1>1, <1>2, <1>3, GateFailure
<1>4. CASE /\ (Cuda /\ Writes(Compress("cuda"))) \/ (~Cuda /\ files' = files)
           /\ GateGoesOn("bench_others")
  <2>1. /\ files'[Compress("cpu")] = files[Compress("cpu")]
        /\ files'[Bench(Comparator)] = files[Bench(Comparator)]
        /\ Avx2 => files'[Compress("cpu-avx2")] = files[Compress("cpu-avx2")]
    <3>1. /\ Compress("cuda") # Compress("cpu")
          /\ Compress("cuda") # Compress("cpu-avx2")
          /\ Compress("cuda") # Bench(Comparator)
          /\ Bench(Comparator) \in GateProcesses
      BY Processes, SweepAssumption
    <3> QED
      BY <1>1, <1>4, <3>1, Writing, Processes
  <2>2. GateProgress'
    BY <1>1, <1>4, <2>1
       DEF GateProgress, CpuRecord, GateGoesOn, GateUnchanged, Timing, GatePcs
  <2> QED
    BY <1>1, <1>2, <1>4, <2>2, GateSuccess DEF GatePcs
<1> QED
  BY <1>3, <1>4 DEF CudaCompress, Process

\* One more path has run its correctness benchmark.
LEMMA BenchOtherStep == IInv /\ BenchOther => IInv'
<1> SUFFICES ASSUME IInv, BenchOther PROVE IInv'
  OBVIOUS
<1>1. /\ pc = "bench_others" /\ pc \in GatePcs /\ TypeOK /\ cell \in Cells
      /\ pending \subseteq OtherPaths /\ GateUnchanged
      /\ files[Compress("cpu")].cell = cell
      /\ files[Bench(Comparator)] = files[Compress("cpu")]
      /\ Avx2 => files[Compress("cpu-avx2")] = files[Compress("cpu")]
  BY DEF BenchOther, GatePcs, IInv, TypeOK, Working, GateProgress, CpuRecord
<1>2. CASE pending = {}
  <2>1. GateProgress'
    BY <1>1, <1>2
       DEF BenchOther, GateProgress, CpuRecord, GateGoesOn, GateUnchanged, Timing, GatePcs
  <2> QED
    BY <1>1, <1>2, <2>1, GateSuccess DEF BenchOther, GatePcs, TypeOK
<1>3. ASSUME NEW p \in pending, pending' = Without(p),
             Process(Bench(p), GateGoesOn("bench_others"))
      PROVE  IInv'
  <2>1. p \in Paths /\ p # Comparator /\ pending' \subseteq OtherPaths
        /\ pending' \subseteq Paths
    BY <1>1, <1>3 DEF OtherPaths, Without
  <2>2. files' \in [GateProcesses -> Record]
    BY <1>1, <1>3, <2>1, Writing, Processes DEF Process, TypeOK
  <2>3. CASE GateFails
    BY <1>1, <2>1, <2>2, <2>3, GateFailure
  <2>4. CASE Writes(Bench(p)) /\ GateGoesOn("bench_others")
    <3>1. /\ Bench(p) # Compress("cpu") /\ Bench(p) # Compress("cpu-avx2")
          /\ Bench(p) # Bench(Comparator)
          /\ Bench(p) \in GateProcesses /\ Bench(Comparator) \in GateProcesses
      BY <2>1, Processes, SweepAssumption
    <3>2. /\ files'[Compress("cpu")] = files[Compress("cpu")]
          /\ files'[Bench(Comparator)] = files[Bench(Comparator)]
          /\ Avx2 => files'[Compress("cpu-avx2")] = files[Compress("cpu-avx2")]
      BY <1>1, <2>4, <3>1, Writing, Processes
    <3>3. GateProgress'
      BY <1>1, <2>1, <2>4, <3>2
         DEF GateProgress, CpuRecord, GateGoesOn, GateUnchanged, Timing, GatePcs
    <3> QED
      BY <1>1, <2>1, <2>2, <2>4, <3>3, GateSuccess DEF GatePcs
  <2> QED
    BY <1>3, <2>3, <2>4 DEF Process
<1> QED
  BY <1>2, <1>3 DEF BenchOther

\* check_cross_path_identity leaves one record, the fresh one, in every file.
LEMMA IdentityStep == IInv /\ Identity => IInv'
<1> SUFFICES ASSUME IInv, Identity PROVE IInv'
  OBVIOUS
<1>1. /\ pc = "identity" /\ pc \in GatePcs /\ TypeOK /\ cell \in Cells
      /\ files' = files /\ pending' = pending /\ GateUnchanged
      /\ files[Compress("cpu")].cell = cell
      /\ files[Bench(Comparator)] = files[Compress("cpu")]
      /\ Avx2 => files[Compress("cpu-avx2")] = files[Compress("cpu")]
  BY DEF Identity, GatePcs, IInv, TypeOK, Working, GateProgress, CpuRecord
<1>2. CASE GateFails
  BY <1>1, <1>2, GateFailure DEF TypeOK
<1>3. CASE Identical /\ GateGoesOn("bounds")
  <2>1. ASSUME NEW g \in GateProcesses PROVE files[g] = files[Compress("cpu")]
    <3>1. Cuda => files[Compress("cuda")] = files[Compress("cpu")]
      BY <1>3 DEF Identical, Same
    <3>2. ASSUME NEW p \in Paths PROVE files[Bench(p)] = files[Compress("cpu")]
      <4>1. CASE p = Comparator
        BY <1>1, <4>1
      <4>2. CASE p # Comparator /\ Backend[p] = "cuda"
        BY <1>3, <3>1, <4>2 DEF Identical, Same, OtherPaths, Cuda, Backends
      <4>3. CASE p # Comparator /\ Backend[p] # "cuda"
        BY <1>3, <4>3 DEF Identical, Same, OtherPaths
      <4> QED
        BY <4>1, <4>2, <4>3
    <3> QED
      BY <1>1, <3>1, <3>2, EveryProcess
  <2>2. GateProgress'
    BY <1>1, <1>3, <2>1
       DEF GateProgress, CpuRecord, GateGoesOn, GateUnchanged, Timing, GatePcs
  <2> QED
    BY <1>1, <1>3, <2>2, GateSuccess DEF GatePcs, TypeOK
<1> QED
  BY <1>2, <1>3 DEF Identity

\* check_fp64_bounds makes the one record a right one.
LEMMA BoundsStep == IInv /\ Bounds => IInv'
<1> SUFFICES ASSUME IInv, Bounds PROVE IInv'
  OBVIOUS
<1>1. /\ pc = "bounds" /\ pc \in GatePcs /\ TypeOK /\ cell \in Cells
      /\ files' = files /\ pending' = pending /\ GateUnchanged
      /\ files[Compress("cpu")].cell = cell
      /\ \A g \in GateProcesses : files[g] = files[Compress("cpu")]
  BY DEF Bounds, GatePcs, IInv, TypeOK, Working, GateProgress, CpuRecord
<1>2. CASE GateFails
  BY <1>1, <1>2, GateFailure DEF TypeOK
<1>3. CASE files[Bench(Comparator)].right /\ Stubs("passed") /\ pc' = "warm_case"
  <2>1. \A g \in GateProcesses : files[g] = RightRecord(cell)
    <3>1. /\ files[Compress("cpu")] \in Record
          /\ files[Bench(Comparator)] = files[Compress("cpu")]
      BY <1>1, Processes, SweepAssumption DEF TypeOK
    <3>2. files[Compress("cpu")] = RightRecord(cell)
      BY <1>1, <1>3, <3>1 DEF Record, RightRecord
    <3> QED
      BY <1>1, <3>2
  <2>2. GateProgress' /\ TimedIsCorrect'
    BY <1>1, <1>3, <2>1
       DEF GateProgress, TimedIsCorrect, GateUnchanged, Timing, GatePcs
  <2>3. TypeOK'
    BY <1>1, <1>3, SweepAssumption
       DEF TypeOK, Stubs, GateUnchanged, outVars, Working, AfterGate, Statuses
  <2>4. TrialProgress'
    BY <1>3 DEF TrialProgress, Stubs
  <2>5. CaseFiles'
    BY <1>1 DEF IInv, CaseFiles, GateUnchanged, outVars
  <2>6. CellProgress'
    BY <1>1, <1>3 DEF IInv, CellProgress, GateUnchanged, outVars, Working, AfterGate
  <2> QED
    BY <2>2, <2>3, <2>4, <2>5, <2>6 DEF IInv
<1> QED
  BY <1>2, <1>3 DEF Bounds

-----------------------------------------------------------------------------
(* Warm-ups and trials *)

\* A step of the timing part that keeps the files, the cell and the outputs,
\* and stays in that part or ends it, has only the trials to account for.
LEMMA TimingFrame ==
  ASSUME IInv, pc \in Timing, pc' \in Timing \cup {"statistics"},
         UNCHANGED <<cond, cell, todo, files, outVars>>, TypeOK', TrialProgress'
  PROVE  IInv'
<1>1. GateProgress' /\ TimedIsCorrect'
  BY DEF IInv, GateProgress, TimedIsCorrect, Timing, GatePcs
<1>2. CaseFiles'
  BY DEF IInv, CaseFiles, outVars
<1>3. CellProgress'
  BY DEF IInv, CellProgress, outVars, Working, AfterGate, Timing
<1> QED
  BY <1>1, <1>2, <1>3 DEF IInv

\* Warming the case up changes nothing that was checked.
LEMMA WarmCaseStep == IInv /\ WarmCase => IInv'
<1> SUFFICES ASSUME IInv, WarmCase PROVE IInv'
  OBVIOUS
<1>1. TypeOK'
  BY DEF WarmCase, IInv, TypeOK, outVars, Working, AfterGate, Statuses
<1>2. TrialProgress'
  BY DEF WarmCase, IInv, TrialProgress
<1> QED
  BY <1>1, <1>2, TimingFrame DEF WarmCase, Timing

\* Calibration fixes the warm-ups of the case and starts its first trial.
LEMMA CalibrateStep == IInv /\ Calibrate => IInv'
<1> SUFFICES ASSUME IInv, Calibrate PROVE IInv'
  OBVIOUS
<1>1. \A n \in Calibrated : WarmupCount(n) \in Nat
  BY SweepAssumption DEF WarmupCount
<1>2. TypeOK'
  BY <1>1 DEF Calibrate, IInv, TypeOK, outVars, Working, AfterGate, Statuses, Without
<1>3. TrialProgress'
  <2>1. \A p \in Paths : runs[p] = {} /\ runs' = runs
    BY DEF Calibrate, IInv, TrialProgress
  <2>2. CASE pending # {}
    BY <2>1, <2>2 DEF Calibrate, TrialProgress
  <2>3. CASE pending = {}
    <3>1. pc' = "trials" /\ trial' = 1 /\ pending' = Paths
      BY <2>3 DEF Calibrate
    <3>2. trial' \in 1..Trials /\ 1..(trial' - 1) = {}
      BY <3>1, SweepAssumption
    <3>3. \A p \in Paths : TrialsOf(p)' = {}
      BY <2>1 DEF TrialsOf
    <3> QED
      BY <2>1, <3>1, <3>2, <3>3 DEF TrialProgress
  <2> QED
    BY <2>2, <2>3
<1> QED
  BY <1>2, <1>3, TimingFrame DEF Calibrate, Timing

\* One more run of the current trial.
LEMMA OneMoreTrial ==
  ASSUME NEW S, NEW n \in Nat \ {0}, NEW r, r.trial = n, {x.trial : x \in S} = 1..(n - 1)
  PROVE  {x.trial : x \in S \cup {r}} = 1..n
<1>1. {x.trial : x \in S \cup {r}} = {x.trial : x \in S} \cup {n}
  OBVIOUS
<1>2. 1..(n - 1) \cup {n} = 1..n
  OBVIOUS
<1> QED
  BY <1>1, <1>2

\* One path of a trial is timed.
LEMMA RunTrialStep == IInv /\ RunTrial => IInv'
<1> SUFFICES ASSUME IInv, RunTrial PROVE IInv'
  OBVIOUS
<1>1. PICK p \in pending :
        /\ pending' = Without(p)
        /\ \/ Passed(p) /\ TrialFails(p)
           \/ Passed(p) /\ TrialSucceeds(p)
           \/ ~Passed(p) /\ UNCHANGED <<status, runs>>
  BY DEF RunTrial
<1>2. /\ pc = "trials" /\ pc' = pc /\ trial' = trial /\ warm' = warm
      /\ p \in Paths /\ trial \in 1..Trials /\ trial \in Nat \ {0}
      /\ TypeOK /\ TrialProgress
      /\ UNCHANGED <<cond, cell, todo, files, outVars>>
  BY SweepAssumption DEF RunTrial, IInv, TypeOK, TrialProgress
<1>3. ASSUME NEW t \in ReportedThreads(p)
      PROVE  [trial |-> trial, warm |-> warm[p], threads |-> t] \in Run
  BY <1>2, SweepAssumption DEF ReportedThreads, Run, TypeOK
<1>4. /\ status' \in [Paths -> Statuses] /\ runs' \in [Paths -> SUBSET Run]
      /\ \A q \in Paths \ {p} : status'[q] = status[q] /\ runs'[q] = runs[q]
      /\ ~Passed(p) => ~Passed(p)'
      /\ \/ runs'[p] = runs[p] /\ ~Passed(p)'
         \/ \E t \in ReportedThreads(p) : runs'[p] = runs[p] \cup RunOf(p, t)
  BY <1>1, <1>2, <1>3
     DEF TrialFails, TrialSucceeds, RunOf, TypeOK, Passed, Statuses
<1>5. TypeOK'
  BY <1>1, <1>2, <1>4 DEF TypeOK, Without, outVars
<1>6. TrialProgress'
  <2>1. ASSUME NEW q \in Paths, NEW r \in runs'[q] PROVE r.warm = warm'[q]
    BY <1>2, <1>4, <2>1 DEF TrialProgress, RunOf
  <2>2. ASSUME NEW q \in Paths, q # p, Passed(q)'
        PROVE  TrialsOf(q)' = IF q \in pending' THEN 1..(trial' - 1) ELSE 1..trial'
    BY <1>1, <1>2, <1>4, <2>2 DEF TrialProgress, TrialsOf, Passed, Without
  <2>3. ASSUME Passed(p)' PROVE TrialsOf(p)' = 1..trial
    <3>1. PICK t \in ReportedThreads(p) : runs'[p] = runs[p] \cup RunOf(p, t)
      BY <1>4, <2>3
    <3>2. {x.trial : x \in runs[p]} = 1..(trial - 1)
      BY <1>1, <1>2, <1>4, <2>3 DEF TrialProgress, TrialsOf
    <3> DEFINE new == [trial |-> trial, warm |-> warm[p], threads |-> t]
    <3>3. new.trial = trial /\ runs'[p] = runs[p] \cup {new}
      BY <3>1 DEF RunOf
    <3> HIDE DEF new
    <3>4. {x.trial : x \in runs[p] \cup {new}} = 1..trial
      BY <1>2, <3>2, <3>3, OneMoreTrial
    <3> QED
      BY <3>3, <3>4 DEF TrialsOf
  <2>4. p \notin pending'
    BY <1>1 DEF Without
  <2> QED
    BY <1>2, <2>1, <2>2, <2>3, <2>4 DEF TrialProgress
<1> QED
  BY <1>2, <1>5, <1>6, TimingFrame DEF Timing

\* A finished trial makes way for the next, or for the statistics.
LEMMA NextTrialStep == IInv /\ NextTrial => IInv'
<1> SUFFICES ASSUME IInv, NextTrial PROVE IInv'
  OBVIOUS
<1>1. /\ pc = "trials" /\ pending = {} /\ TypeOK /\ TrialProgress /\ trial \in 1..Trials
      /\ UNCHANGED <<cond, cell, todo, files, groupVars, outVars>>
      /\ \A p \in Paths : Passed(p)' = Passed(p) /\ TrialsOf(p)' = TrialsOf(p)
      /\ \A p \in Paths : Passed(p) => TrialsOf(p) = 1..trial
  BY DEF NextTrial, IInv, TrialProgress, groupVars, Passed, TrialsOf
<1>2. CASE MoreTrials
  <2>1. pc' = pc /\ trial' = trial + 1 /\ pending' = Paths
    BY <1>2 DEF NextTrial
  <2>2. trial' \in 1..Trials /\ trial' - 1 = trial
    BY <1>1, <1>2, <2>1, SweepAssumption DEF MoreTrials
  <2>3. TypeOK'
    BY <1>1, <2>1 DEF TypeOK, groupVars, outVars
  <2>4. TrialProgress'
    BY <1>1, <2>1, <2>2 DEF TrialProgress, groupVars
  <2> QED
    BY <1>1, <2>1, <2>3, <2>4, TimingFrame DEF Timing
<1>3. CASE ~MoreTrials
  <2>1. pc' = "statistics" /\ trial' = trial /\ pending' = pending
    BY <1>3 DEF NextTrial
  <2>2. trial = Trials
    BY <1>1, <1>3, SweepAssumption DEF MoreTrials
  <2>3. TypeOK'
    BY <1>1, <2>1 DEF TypeOK, groupVars, outVars, Working, AfterGate
  <2>4. TrialProgress'
    BY <1>1, <2>1, <2>2 DEF TrialProgress, groupVars, Complete, TrialsOf
  <2> QED
    BY <1>1, <2>1, <2>3, <2>4, TimingFrame DEF Timing
<1> QED
  BY <1>2, <1>3

-----------------------------------------------------------------------------
(* Case files and the manifest *)

\* The statistics write the rows of a case from all its trials.
LEMMA StatisticsStep == IInv /\ Statistics => IInv'
<1> SUFFICES ASSUME IInv, Statistics PROVE IInv'
  OBVIOUS
<1>1. /\ pc = "statistics" /\ TypeOK /\ cell \in Cells /\ Stubs("gate") /\ trial' = 0
      /\ UNCHANGED <<cond, cell, todo, pending, files, manifest>>
  BY DEF Statistics, IInv, TypeOK, Working, AfterGate
<1>2. pc' \in {"manifest", "next_cell", "aborted"}
  BY DEF Statistics
<1>3. \A p \in Paths : CaseFile(p) \in Case /\ CaseFile(p).status # "none"
  BY <1>1 DEF CaseFile, KeptRuns, Case, TypeOK, Statuses
<1>4. written' \in [Cells -> [Paths -> Case]]
  <2>1. [p \in Paths |-> CaseFile(p)] \in [Paths -> Case]
    BY <1>3
  <2> QED
    BY <1>1, <2>1 DEF Statistics, TypeOK
<1>5. TypeOK'
  BY <1>1, <1>2, <1>4, SweepAssumption
     DEF TypeOK, Stubs, Statuses, Working, AfterGate, Ends, GatePcs
<1>6. GateProgress' /\ TimedIsCorrect' /\ TrialProgress'
  BY <1>2 DEF GateProgress, TimedIsCorrect, TrialProgress, GatePcs, Timing, AfterGate
<1>7. CaseFiles'
  <2>1. CASE ~StatisticsAgree
    BY <2>1 DEF Statistics, IInv, CaseFiles
  <2>2. CASE StatisticsAgree
    <3>1. written' = [written EXCEPT ![cell] = [p \in Paths |-> CaseFile(p)]]
      BY <2>2 DEF Statistics
    <3>2. ASSUME NEW p \in Paths
          PROVE  IF CaseFile(p).status = "passed"
                 THEN Complete(CaseFile(p).runs) /\ Agree(CaseFile(p).runs)
                 ELSE CaseFile(p).runs = {}
      BY <1>1, <2>2 DEF CaseFile, KeptRuns, Passed, StatisticsAgree, IInv, TrialProgress
    <3>3. ASSUME NEW c \in Cells, NEW p \in Paths
          PROVE  written'[c][p] = IF c = cell THEN CaseFile(p) ELSE written[c][p]
      BY <1>1, <3>1 DEF TypeOK
    <3> QED
      BY <3>2, <3>3 DEF CaseFiles, IInv
  <2> QED
    BY <2>1, <2>2
<1>8. CellProgress'
  <2>1. CASE ~StatisticsAgree
    BY <2>1 DEF Statistics, CellProgress
  <2>2. CASE StatisticsAgree
    <3>1. /\ written' = [written EXCEPT ![cell] = [p \in Paths |-> CaseFile(p)]]
          /\ pc' = IF todo = {} THEN "manifest" ELSE "next_cell"
      BY <2>2 DEF Statistics
    <3>2. ASSUME NEW c \in Cells \ todo, NEW p \in Paths
          PROVE  written'[c][p].status # "none"
      BY <1>1, <1>3, <3>1 DEF IInv, CellProgress, TypeOK
    <3> QED
      BY <1>1, <3>1, <3>2 DEF CellProgress
  <2> QED
    BY <2>1, <2>2
<1> QED
  BY <1>5, <1>6, <1>7, <1>8 DEF IInv

\* The manifest commits what has been written.
LEMMA ManifestStep == IInv /\ Manifest => IInv'
<1> SUFFICES ASSUME IInv, Manifest PROVE IInv'
  OBVIOUS
<1>1. /\ pc = "manifest" /\ pc' = "committed"
      /\ UNCHANGED <<cond, cell, todo, pending, trial, files, groupVars, written>>
      /\ manifest'.evidence = (EvidenceConditions /\ NoFailedCase)
  BY DEF Manifest
<1>2. TypeOK'
  BY <1>1 DEF IInv, TypeOK, groupVars, Ends, Working, AfterGate, GatePcs
<1>3. GateProgress' /\ TimedIsCorrect' /\ TrialProgress'
  BY <1>1 DEF GateProgress, TimedIsCorrect, TrialProgress, GatePcs, Timing, AfterGate
<1>4. CaseFiles'
  BY <1>1 DEF IInv, CaseFiles
<1>5. CellProgress'
  BY <1>1 DEF IInv, CellProgress, Working, AfterGate, GatePcs, EvidenceConditions, NoFailedCase
<1> QED
  BY <1>2, <1>3, <1>4, <1>5 DEF IInv

\* Admission, the choice of a cell, the pre-loop warm-up and a crash.
LEMMA SimpleStep ==
  IInv /\ (Admit \/ WarmGpu \/ NextCell \/ Crash \/ UNCHANGED vars) => IInv'
<1> SUFFICES ASSUME IInv, Admit \/ WarmGpu \/ NextCell \/ Crash \/ UNCHANGED vars
             PROVE  IInv'
  OBVIOUS
<1>1. CASE UNCHANGED vars
  <2>1. TypeOK' /\ CaseFiles'
    BY <1>1 DEF vars, groupVars, outVars, IInv, TypeOK, CaseFiles
  <2>2. GateProgress' /\ TimedIsCorrect'
    BY <1>1 DEF vars, groupVars, outVars, IInv, GateProgress, CpuRecord, TimedIsCorrect
  <2>3. TrialProgress'
    BY <1>1 DEF vars, groupVars, outVars, IInv, TrialProgress, TrialsOf, Passed
  <2>4. CellProgress'
    BY <1>1 DEF vars, groupVars, outVars, IInv, CellProgress, EvidenceConditions, NoFailedCase
  <2> QED
    BY <2>1, <2>2, <2>3, <2>4 DEF IInv
<1>2. CASE Admit \/ WarmGpu \/ NextCell \/ Crash
  <2>1. TypeOK'
    BY <1>2 DEF Admit, WarmGpu, NextCell, Crash, IInv, TypeOK, groupVars, outVars,
                Ends, Working, AfterGate, GatePcs
  <2>2. /\ pc' \in {"warm_gpu", "refused", "next_cell", "aborted", "cpu_compress"}
        /\ written' = written
    BY <1>2 DEF Admit, WarmGpu, NextCell, Crash, outVars
  <2>3. GateProgress' /\ TimedIsCorrect' /\ TrialProgress'
    BY <2>2 DEF GateProgress, TimedIsCorrect, TrialProgress, GatePcs, Timing, AfterGate
  <2>4. CaseFiles'
    BY <2>2 DEF IInv, CaseFiles
  <2>5. CellProgress'
    BY <1>2 DEF Admit, WarmGpu, NextCell, Crash, outVars, IInv, CellProgress,
                Working, AfterGate, GatePcs
  <2> QED
    BY <2>1, <2>3, <2>4, <2>5 DEF IInv
<1> QED
  BY <1>1, <1>2

-----------------------------------------------------------------------------
(* The theorems *)

\* The invariant holds before the first case.
LEMMA InitIInv == Init => IInv
<1> SUFFICES ASSUME Init PROVE IInv
  OBVIOUS
<1>1. TypeOK
  BY SweepAssumption
     DEF Init, TypeOK, Working, AfterGate, GatePcs, Statuses, Record, Case, NoCase
<1>2. GateProgress /\ TimedIsCorrect /\ TrialProgress
  BY DEF Init, GateProgress, TimedIsCorrect, TrialProgress, GatePcs, Timing, AfterGate
<1>3. CaseFiles /\ CellProgress
  BY DEF Init, CaseFiles, CellProgress, NoCase
<1> QED
  BY <1>1, <1>2, <1>3 DEF IInv

\* In every reachable state the gate, the trials and the case files are as far
\* as the sweep's control point says.
THEOREM Invariance == Spec => []IInv
<1>1. IInv /\ [Next]_vars => IInv'
  BY CpuCompressStep, CpuBenchStep, Avx2CompressStep, CudaCompressStep, BenchOtherStep,
     IdentityStep, BoundsStep, WarmCaseStep, CalibrateStep, RunTrialStep, NextTrialStep,
     StatisticsStep, ManifestStep, SimpleStep DEF Next, Step, Gate
<1> QED
  BY InitIInv, <1>1, PTL DEF Spec

\* Nothing is warmed up or timed unless every record of the cell was written
\* for it, is identical to the others and decodes correctly.
THEOREM TimedIsCorrectHolds == Spec => []TimedIsCorrect
<1>1. IInv => TimedIsCorrect
  BY DEF IInv
<1> QED
  BY Invariance, <1>1, PTL

\* A passed case has one agreeing run of every trial, a failed one none, and
\* the identifiers of a case's trials never differ.
THEOREM CaseFilesSoundHolds == Spec => []CaseFilesSound
<1>1. IInv => CaseFilesSound
  BY DEF IInv, TrialProgress, CaseFiles, CaseFilesSound
<1> QED
  BY Invariance, <1>1, PTL

\* A committed snapshot is complete, and it is evidence only when clean, ready,
\* no pilot and without a failed case.
THEOREM EvidenceSoundHolds == Spec => []EvidenceSound
<1>1. IInv => EvidenceSound
  BY DEF IInv, CellProgress, CaseFiles, EvidenceSound, EvidenceConditions,
         NoFailedCase, NoCase, Working, AfterGate, GatePcs
<1> QED
  BY Invariance, <1>1, PTL
=============================================================================

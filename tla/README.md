# A TLA+ model of stoquant

stoquant compresses float tensors by stochastic quantization to 4 or 8 bits, on a scalar CPU
backend, an AVX2/OpenMP backend and a CUDA backend, and measures how fast they are. The native
program (`src/native`) compresses, decompresses and times; the Python package
(`src/src/stoquant`) runs benchmark matrices, gates them on correctness, and publishes the
results as write-once snapshots under `results/`. Four promises hold the project together:

* every backend produces the same record, byte for byte, for the same input and identifiers;
* the binary that is measured is what its recipe makes of the tree the manifest names;
* a published snapshot is complete, never changes, and is called evidence only when it is;
* a claim that a report prints is carried by the raw samples of the runs it is about.

This directory models the parts of the system that carry these promises, checks them with TLC
on small instances, and proves most of the safety properties with TLAPS for every instance: the
snapshot life cycle, the notifier, the sweep, the native driver with its codec and identifiers, the
memory and the random streams of the CUDA benchmark, and what a claim and a printed line stand on.

## Inventory

### Measurement drivers and snapshots (Python)

| Component | State | Operations | What makes it correct |
|---|---|---|---|
| snapshot store (`snapshot_store.py`) | directories `results/<name>` and `<name>.partial`, registration file | check, create (reserve), write, register, commit, replace `derived/` | a published name is whole, has one owner, never changes; a failed run never looks like a snapshot |
| notifier (`notify.py`, `monitoring.py`) | child process, exit code, registration directory | preflight, start, supervise, heartbeat, interrupt, report | the child's exit code survives; no orphan; nothing starts ungated |
| matrix driver (`matrix.py`) | provenance, run conditions | admit, sweep, commit | overrides make a run non-evidence |
| sweep (`sweep.py`) | cells, cases, trial runs, case files, manifest | gate, warm up, calibrate, trials, statistics, manifest | only verified cases are timed; a passing case is complete; the evidence flag is earned |
| correctness gate (`correctness.py`), oracle (`oracle.py`) | record files in `_temp` | compress, bench, compare, decode and bound | no stale record can pass |
| runner (`runner.py`) | none | run a native process, validate its answer | an answer is accepted exactly when it answers the request |
| design (`design.py`) | none | select paths, order trials | every path holds every position, and follows every other path, equally often |
| statistics (`stats.py`), schema (`schema.py`) | none | reduce trials, compare paths, decide claims | a claim needs separated trials, and every nested path measured and in order |
| native build (`native_build.py`), build stamp (`build_stamp.py`), provenance (`provenance.py`) | objects, binaries, stamp files | plan, run commands, stamp, verify, report flags | a stamp vouches for the binary it lies beside, and for no other |
| resident experiments (`resident_experiment.py`, `k1_ab.py`, `k1_bandwidth.py`) | records, summary | identity gate, calibrate, rounds, analyse | the faster variant is kept only on a unanimous and balanced result |
| unbiasedness suite | results, snapshot | test, commit | as for the snapshot store |
| reports (`report.py`, `publication.py`, `plotting.py`) | `derived/` | read snapshots, tabulate, draw | what is printed was measured; figures belong to the raw files beside them |
| host (`host.py`) | none | readiness, affinity | an unready machine makes no evidence |

Components interact through processes and the file system: a driver is the notifier's child and
tells it its directory through a registration file that is replaced atomically; drivers of the
same day and revision compete for one directory name; reports rewrite `derived/` below a
published snapshot; the sweep talks to the native program by exit codes, JSON and record files;
builds and drivers share the working tree, the justfile and `build/`; a publication report reads
the snapshot of a matrix and that of a K1 A/B experiment.

### Native program (C, CUDA)

| Component | State | Operations | What makes it correct |
|---|---|---|---|
| scalar quantizer (`quantizer.c`) | none | scale, encode | the reference |
| AVX2 quantizer (`quantizer_avx2.c`) | OpenMP teams | five parallel regions | same additions in the same order, no shared byte, same statuses |
| CPU compression (`cpu_compress.c`) | reusable workspace | reserve, compress | nothing of an earlier call is read |
| codec (`codec.c`), RNG (`sq_rng.h`) | none | encode header, decode; word per element | round trip; streams never alias |
| CUDA quantizer and bench (`quantizer_cuda.cu`) | stream, device buffers, graph | compress, bench, graph replay | same record; a replay that did nothing is noticed |
| driver (`main.c`, `run_invocation.h`) | record buffer, samples, sums, record file | compress, bench, expect, decompress | exit code, report and file agree; identifiers do not wrap or repeat |
| command line (`cli.c`) | options | parse, validate | only legal combinations run |

What is hard here: file-system steps of several processes, none of which locks anything; a
supervisor with three independent environments; long runs in which any of hundreds of processes
may fail and the remaining work must stay consistent; thread teams whose size is not known in
advance; buffers that outlive the call that filled them; a build folder that several recipes
write to while a driver trusts it; and claims that must survive any case failing at any size.
`PROJECT.json` lists each such place under `hazards`.

## Modules

| Module | Models | Used by |
|---|---|---|
| `SnapshotStore` | drivers and reports over `results/`, one file-system call per step | checked directly; `SnapshotStoreProofs` |
| `SnapshotLedger` | what the store promises: an append-only ledger | instantiated by `SnapshotStore` |
| `Notify` | `notify.py` with its child, its server, Ctrl-C and moving snapshots | checked directly; `NotifyProofs` |
| `Sweep` | admission, gate, warm-up, trials, statistics and manifest of one sweep | `MCSweep`, `SweepProofs` |
| `ScaleTree` | shares, bit reversal, padding and summation trees of the CPU quantizers | `CpuCompress` |
| `CpuCompress` | the AVX2 call with its parallel regions, and the scalar call as reference | `MCCpuCompress` |
| `CudaScale` | K1 of the CUDA backend, both variants, thread blocks in any order | checked directly; extends `ScaleTree` |
| `CudaKernels` | what K1, K2 and K3 do to the device buffers, and `sq_cuda_compress` as reference | `CudaBench` |
| `RunInvocation` | `run_invocation.h`: range check and identifier of a run, on wrapping integers | `CudaBench`, `NativeDriver`, `Response`, `RunInvocationProofs` |
| `CudaBench` | `sq_cuda_bench`: host calls, stream, graph capture and replay, failing calls | `MCCudaBench`, `CudaBenchProofs` |
| `Codec` | the packed record: header, nibbles, every check of the decoder | `NativeDriver` |
| `Legality` | the legality table of `cli.c`: boundaries, stages and defaults per backend | `NativeDriver`, `Response` |
| `NativeDriver` | one process of the native program from validation to exit, and a second one that decompresses what it leaves | `MCNativeDriver`, `NativeDriverProofs`; extends `Codec`, `RunInvocation`, `Legality` |
| `BuildPlan` | `native_build.py`: the commands of every recipe; what a command makes; the flags a report gives | `Build` |
| `Build` | edits, commits, builds, stamps and a driver that verifies one | `MCBuild`, `BuildProofs` |
| `Design` | `design.py`: selected paths, nesting, trial orders | `Claims`, `Response` |
| `Claims` | `stats.py`: reduction of trials, comparisons, inversions, claims | `Resident`, `Report` |
| `Response` | `runner.py` against the native answer: request, expected configuration, validation | `Resident`, `Report`; extends `Legality`, `RunInvocation` |
| `Resident` | the resident experiments, from the identity gate to the keep decision | `Evaluation` |
| `Report` | a matrix from its command line to the claims and crossovers of its report | `Evaluation` |
| `Evaluation` | an experiment, then a matrix, then the publication report over both | `MCEvaluation`, `EvaluationProofs` |
| `SnapshotStoreProofs` | the theorems about `SnapshotStore` | TLAPS |
| `NotifyProofs` | the theorems about `Notify` | TLAPS |
| `SweepProofs` | the theorems about `Sweep` | TLAPS |
| `RunInvocationProofs` | the theorems about `RunInvocation` | `NativeDriverProofs`, `CudaBenchProofs` |
| `NativeDriverProofs` | the theorems about `Codec` and `NativeDriver` | TLAPS |
| `CudaBenchProofs` | the theorems about `CudaBench` | TLAPS |
| `BuildProofs` | the theorems about `BuildPlan` and `Build` | TLAPS |
| `EvaluationProofs` | the theorems about `Design`, `Claims`, `Response`, `Resident`, `Report` and `Evaluation` | TLAPS |

An operator that stands just before another one and carries its name with a suffix
(`ReservableExistOk` before `Reservable`) is a *seeded fault*: a plausible mistake in that place.
No specification uses it. `PROJECT.json` pairs each with the property that catches it when it
replaces the original; every property has one.

### SnapshotStore and SnapshotLedger

`final[n]` and `partial[n]` are the directories `results/n` and `results/n.partial`: owner, raw
files (each with the run that wrote it), and `derived/`. A driver is one of four kinds, which
differ in whether they check early, draw figures, register, and commit conditionally. The two
`exists()` calls of `check_snapshot`, the `mkdir`, every raw file, the check and the rename of
`Snapshot.commit` and both registrations are separate steps, and a run may fail after any of
them once it has reserved a name. `RenameReplaces` covers both behaviours of rename on an existing
target. Reports read a snapshot, remove and recreate `derived/` and draw, each call a step,
concurrently with each other; a report may be abandoned anywhere.

The names and kinds are chosen freely in `Init`, because `--output-dir` lets a caller choose any
directory and two drivers of one day and revision compute the same one. Raw files are numbered;
the last one completes the run (`manifest.json`, `summary.json` or the unbiasedness results).

`SnapshotLedger` has one action, `Publish`: a free name becomes the whole output of a run that
has published nothing else. `LedgerSpec` maps a directory to its owner and raw files.

### Notify

The wrapper's control points follow `main` and `_run_command`. The wait that returns or times
out, the choice of the directory to report on (registered, or the newest one), the `stat` of the
listed candidates, the POST and each part of the KeyboardInterrupt handler are steps. `bound` tells
apart the child that exists from the child the local variable holds. A POST ends `ok`, `refused`
(anything `_publish` turns into NotificationError) or `malformed` (an `http.client` error it does
not catch). `fault` records which unforeseen exception occurred, so that the properties can say
what holds without one.

### Sweep

A cell is an input at a bit width. The gate is one step per native process; each owns a record
file whose name does not contain the input, so files of an earlier cell are there when the next
one starts. A process ends well with its record replaced (rightly or wrongly), or fails before or
after writing it. Paths are visited in any order, which covers the balanced orders of `design.py`.
A case is its status (passed, or the phase that failed it), its warm-up count and its runs; the
identifiers a process echoes are a function of the warm-up count. A crash may end the sweep
anywhere.

### ScaleTree and CpuCompress

Floating-point addition is not associative, so a sum is kept as the tree of its additions; two
scales are equal when every addition has the same operands. A magnitude is a number or
`NonFinite`; the code of an element is named by the element and the word it was drawn with, so a
code at the wrong place, with the wrong word, or left from an earlier call is a different value.
A parallel region starts with any team size up to `Threads` (the runtime may give fewer) and each
block, chunk or share is a step of its thread; the region is joined when every thread is through.
`ScalarResult` is the scalar call on the same request, as an operator.

### CudaScale

The kernels of `launch_k1` and `launch_k1_optimized` run one after the other, as they do on a
stream; within one, each thread block (each warp, in the optimized sum) walks its items with the
stride of the grid, and any block may be ahead of any other. Buffers start with an earlier run's
content. `max` is the set of elements a maximum has looked at, `sums` holds trees of additions as in
`ScaleTree`, and `reads` and `writes` record which worker touched which location during the current
kernel. Sizes are scaled down and kept as constants (lanes, leaves per lane, span, vector width,
grid limits); the sizes in the code are powers of two in the same relation.

### CudaKernels, RunInvocation and CudaBench

`CudaBench` separates the host thread from the device. The host's code between two decisions is a
sequence of calls (`todo`); `MakeCall` makes the next one, `CallFails` lets it fail instead, which
leaves the function with the code's status and ends in `destroy_bench_context`. Copies, kernels,
memsets and event records are queued on the stream and carried out by `DeviceStep` at any later
time; a synchronisation returns when the queue is empty. While the stream captures, operations go
to `graph` instead. `log` is the history of what the device has done, with the run it belongs to;
a sample's wall time and stage times are the parts of `log` they cover.

Device data are named by what they were computed from, so a payload packed from stale codes, drawn
with another run's words or overwritten by the poison is a different value. An input is zero,
finite, overflowing or not finite.

What is assumed of CUDA, which is outside this repository: a stream runs its operations in order;
a non-blocking stream does not wait for the default stream; a pageable `cudaMemcpy` may return
before its bytes arrive (the code's own comment, `quantizer_cuda.cu:1504`); `cudaFree` of an
allocated buffer waits for the device. Copies to the host are asynchronous whatever the transfer
policy, which includes the synchronous behaviour of pageable memory. `instantiate` may lose one
node of the graph: the fault that the poisoned payload is there to expose.

### Codec and NativeDriver

A record is its header fields and its payload bytes; nibbles are packed and read with the code's
arithmetic. `FirstOf` is a chain of early returns: the first check that applies gives the status.

`NativeDriver` runs one command line. `Validate` is `sq_cli_validate` with the checks that follow
it in each command; `Stages` is the order of the work in `compress_file`, `bench_file`,
`bench_cpu_gpu_origin` and `expect_file`, and each stage is an action that may fail as its calls
may. `buffer` is the one record buffer that the base compression and all timed runs share. A
write that fails leaves the old file (open failed), a prefix, or everything (close failed).
`samples` holds the identifier each sample was measured with, and the report the identifiers that
`print_invocation_ids` recomputes. `Decompress` is a second process on whatever file is left.

The code of an element stands for the real one: it depends on the index and on the random stream,
which is all these properties tell apart. The quantizers are compared in `CpuCompress` and
`CudaBench`; here every backend computes the same record, with one exception kept from the code:
`sq_cuda_bench` reports +0 as the scale of an empty input (`quantizer_cuda.cu:1809`), where
`compress --scale -0.0` keeps the sign. The two files differ in one bit and decode alike; the
properties compare empty records up to that sign. Element counts near `SIZE_MAX` are left out.

### BuildPlan and Build

A command is its tool, its options (the justfile variables it expands, the value these have in the
edition of the justfile it was read from, the defines and sanitizers `native_build.py` adds), its
inputs and its output; spelling is left out. `CommandPlan` is what `recipe_commands` reconstructs,
`Work` what `build` runs (for the fault build only its own part, for the suites the tests as well).
What a command makes is the record of how it was made and of what, so two binaries are equal
exactly when the same commands made them of the same sources, and the hash of a file is its
content. `Expected` is the reference: all commands of a recipe in an empty folder on a tree that
stays as it is. In the MSVC case `test-cpu-asan` exists; the run models the other one.

`Build` interleaves a developer (`Edit`, `Commit`), builders that run scripts of recipes, and a
driver. Every look of `write_stamp` and of `collect_git_provenance` and `verify_stamp` at git, at
the justfile, at the stamp or at the binary is a step; writing the stamp empties the file first.
Commands fail and take their output away, a kill leaves a torn one. A fingerprint is empty for a
clean tree and names head and work tree otherwise, as the hash of the diff and the untracked files
does. `made` in a stamp, `calm` in the driver, `alone`, `still` and `fresh` are history:
whether an edit or an overlapping build disturbed what was made. Nothing in the code locks the folder,
so two builds of one binary at a time may mix their objects; the properties say so by `made.alone`.

The driver's three looks at git may fall on different trees. What it records is then a revision, a dirty
flag and a fingerprint that need not belong together, and if no tree has all three, no stamp that was
written on one unchanging tree matches. `VerifiedIsBuilt` therefore speaks of the edition that has the
recorded provenance (`Recorded`), not of the one that was in the work tree at any particular moment: if
an edit is committed between the looks, the record is the old revision with a clean status, and the
stamp of a build of that old revision matches although the work tree holds the new one.

### Design, Claims and Response

Pure operators. `Design` holds the paths, the refused selections and the orders. `Claims` keeps
times as natural numbers and stays exact: medians are doubled, percentiles multiplied by ten,
ratios compared crosswise. What numpy finds by sorting is stated by counting: the k-th smallest entry is
the least one that at least k entries do not exceed (`Smallest`). An absent statistic is `None`, a
missing key `"missing"`. `Response`
has both sides of one native process: `NativeAnswer` translates `resolve_bench` and the JSON
printer from C, `ExpectedConfiguration` and `ValidateBenchResponse` translate `runner.py`; `Faults`
are all answers that differ in one thing.

### Resident, Report and Evaluation

`Resident` runs one experiment: git gate, comparison of the variants' records, calibration, rounds
with the list of cells in any order and the variants in `VariantOrder`, analysis. The shuffle keeps
repeated cells, as `list(cells)` does: a count or width given twice runs twice in every round, and all
its processes enter the decision. Any process may fail or
run the other variant and say so; everything but a published summary raises.

`Report` runs one matrix: the command line may be refused; each size calibrates every path, then any
path may fail and the others measure any of the scenario's profiles; `CompareCaseGroup` writes the
claims. The report is followed for one path, `watch`, which the scenario lets TLC choose: its column
of cases is all that crossovers, table rows and markers of that path are made of; a crossover is looked
for between successive passing sizes (`Pairwise`). The `raw` entries
are history: what the raw samples say by the protocol (`RawClaim`), kept beside what `stats.py` said.

`Evaluation` puts them in sequence, two processes that meet in the publication report, which reads
the ceiling of its bandwidth figure from the experiment's snapshot. That figure also divides by
medians that may be zero; it may raise at any time in the model.

## Runs

| Run | Instance | Shows |
|---|---|---|
| `SnapshotStore` | 2 drivers, 2 reports, 2 names, 2 raw files, rename replaces; 0.6 M states | the safety properties of the store, the refinement, and `ReservationResolves` |
| `Notify` | every reply, moving snapshots, 2 Ctrl-C; 5 k states | exit code, no orphan, termination |
| `NotifyStat` | no Ctrl-C | violation: see Findings |
| `Sweep` | 3 paths (one per backend), 2 cells, 2 trials, six kinds of invocation; 3.7 M states | gate, statistics, admission and evidence |
| `CpuCompress` | blocks of 4, chunks of 8, up to 3 threads, 9 element counts, both widths; 6 k states | equality with the scalar backend |
| `CudaBench` | 106 requests: 4 boundaries, 5 kinds of input, 4 of prescribed scale, up to 3 runs, identifiers up to the last; 38 k states | record, replay, timing windows, identifiers, destruction |
| `CudaScale` | blocks of 8, 8 element counts, grids automatic and 1 to 3, both variants; 16 k states | equality with the scalar tree, buffer bounds, no race |
| `NativeDriver` | 2,461 requests: all commands, backends, boundaries and options, 7 inputs, identifiers and seeds up to and beyond the limits, builds with and without CUDA; and 70,080 small files for the decoder, each header check at fault, payloads over bytes at the limits; 249 k states | exit code, report and file agree; failures leave nothing wrong; the decoder accepts only exact encodings |
| `Build` | 9 cases of a script and a driver, every recipe but the MSVC one, 2 builders, 3 editions, 2 edits or commits; 2.7 M states | an accepted binary is what its recipe makes of the tree; reported flags; no false refusal |
| `BuildTies` | a second `build-cuda` while the driver works, 2 native processes | violation: see Findings |
| `Evaluation` | 19 matrices (grids of up to 4 sizes, groups of up to 10 paths, faulty processes, refused command lines) and 13 experiments; 0.4 M states | orders, validation, claims, what is printed, the keep decision, the publication's source |
| `Crossover` | 3 sizes, any of which may fail | violation: see Findings |

**Bounds.** One name is where drivers of the store meet; the second one lets a driver publish elsewhere
meanwhile. Two drivers reach every property's mutant; that more of them change nothing is what the
theorems below say. Two raw files distinguish empty, half and whole. Two cells are what a stale
record needs, two trials what disagreement needs. Blocks of 4 with counts up to 21 give one to six
blocks, all paddings up to 8, short last blocks, odd lengths, and teams larger and smaller than the
number of blocks; the old workspace is empty, too small or larger than needed. Symmetry is used
where no definition names a member of the set (cells) and never in a run
with a liveness property. In `CudaBench` integers are 2 and 4 bits wide instead of 32 and 64, so that
ranges end exactly at, and one beyond, the last identifier; one warm-up and two repetitions are enough
for a sample to take another run's events and for a warm-up to share a repetition's stream. In
`CudaScale` the counts give one to nine blocks (padded to sixteen), tails that are no multiple of a
vector, and, with a span of 4, one or two tree launches; grids of 1 to 3 make thread blocks take several
items or none. In `NativeDriver` integers are 2 and 4 bits wide; two elements and three distinguish a
full from a padded last byte, and up to five executions separate the buffer's last content from its
first. The output path is empty or holds an older record.

In `Build` one source per list keeps every kind of object, and a driver is paired with the
scripts that touch the binary it asks for; one edition (`OtherFlags`) has other flags than
the others, so an edit may or may not change the plan; two changes are an edit and its commit,
or an edit taken back. `MaxUses` and `Followed` end a behaviour when the driver has been refused or
has started its processes. In `Evaluation` each scenario is there for a case of the code: 2 and 4
paths for the permutations, 5 to 10 for odd and even squares, whole and interrupted designs;
profiles that are disjoint, overlap, jump, are zero, or whose pooled median is not the median of
their trials; trials go round the entries of a profile; grids of 2 to 4 sizes for none, one and two
crossings; experiments with one, no or every cell in DRAM, one with a cell named twice. `DEFAULT_PROCESSES` is 2, which stands for
12: the rule only needs it even. One bit width, because no rule crosses widths.

**Deadlock** is not checked: a finished driver, sweep, call, kernel sequence, native process or wrapper stops.

**Fairness.** `SnapshotStore`: a driver that has started keeps being scheduled; nothing makes it
fail and nothing asks for a report. `Notify`: the wrapper is scheduled; the child need not exit
and the user need not press Ctrl-C, so `WrapperEnds` is conditional on one of them. `CpuCompress`: each thread of a team is
scheduled. All other modules state safety only and assume no fairness.

## Findings

* `NotifyStat`: the OSError handler meant for `Popen` (`notify.py:202`) also catches the failing
  `stat` of a directory that was renamed during a heartbeat; the notifier returns 127 while the
  benchmark runs, against "the benchmark command's exit code remains authoritative"
  (`docs/run-notifications.md:3`).
* `BuildTies`: `find_binary` verifies the stamp once; a build that ends later replaces the binary
  under the same path, against "each timing ties back to one exact binary"
  (`docs/adr/0003-gpu-origin-boundary-and-transfer-policy.md:43`).
* `Crossover`: `find_crossovers` (`report.py:142`) skips sizes without a passing case, so a crossover
  may be resolved across a gap, against "the interval between two adjacent grid sizes"
  (`docs/benchmark-protocol.md:49`). `PrintedIsMeasured` says what does hold.

Observed on the way, without a run of their own. Between the two looks of `check_snapshot` another
driver may publish the name, which the docstring at `snapshot_store.py:64` excludes; the late driver
fails at its own commit and no data is lost (`RenameFindsNameFree`, `WriteOnce`). A reply to a
heartbeat that is not valid HTTP raises past `_publish` (`notify.py:67`); `Notify` has that outcome as
`malformed` and its properties name it by `fault`. Without a boundary, `runner.py` expects `resident`
of the CUDA backend where the native default is `host-origin`; every CUDA path names its boundary, so
`AcceptedIffAsked` holds. `render_report` raises KeyError when a CUDA case passed and its comparator
failed; nothing wrong is printed.

## Proofs

`SnapshotStoreProofs` proves for any sets of drivers, reports and names, any number of raw files
and both behaviours of rename, from `ConstantsAssumption` alone:

* `TypeCorrect`: `TypeOK`;
* `Invariance`: the inductive invariant `IInv`;
* `CommitIsSafe`, `PublishedIsWhole`, `RunsDoNotMix`: the safety properties of the run;
* `FiguresBelong` and `RegistrationsBelong`: `FiguresMatchRaw` and `RegisteredIsOwn`;
* `RawBytesFixed`: the action property `WriteOnce`;
* `StoreImplementsLedger`: the refinement `LedgerSpec`.

The properties are not inductive by themselves: that the final name is free when a run is about to
rename depends on who may publish it. `IInv` adds that a run between its `mkdir` and its rename owns
the partial directory of its name, which holds exactly the files it has written (`HoldersOwn`);
two holders of one name would both own it, so there is at most one, and only a holder renames.
`RunProgress` says that a holder has published nothing and that a committing run is complete,
`ReportsRead` that a report at work has read the snapshot it draws into, and `PastGate` that
reservation lies behind the dirty gate; `RunsDoNotMix` with it shows that a dirty run leaves nothing
under any name. Each action has a lemma; `RenameStep`, `MkdirStep` and
`WriteFileStep` carry the argument, the report's steps share one lemma on what they leave alone.

`RunInvocationProofs` proves, for any widths with W64 = W32 * W32 (`WidthAssumption`; the code has
2^32 and 2^64) and any arguments that `sq_invocation_range_valid` accepts: `RunIdsFit` (no
intermediate value wraps and every identifier fits into 32 bits), `RunIdsDistinct` (with a step, no
two of all warm-ups and repetitions share an identifier) and `RepetitionIds` (repetition r is base
plus r steps, whatever the number of warm-ups). The argument: the check bounds the largest offset
by a quotient, so offset times step stays below the remaining room (`QuotientBound`), the offsets
of warm-ups and repetitions are disjoint intervals (`Offsets`), and distinct multiples of a step
differ (`DistinctMultiples`). `RunsUseTheirStream` shows the same inside a benchmark, where the
identifiers reach K2.

`NotifyProofs` proves `SuccessIsReal`, `ExitCodeSurvivesRefusals` and `NoOrphan`, for any replies and
any number of Ctrl-C (`NotifyAssumption`). The invariant says for each control point what the wrapper
knows: nothing exists before `Popen` (`Quiet`); inside the `try` the code is still 127 and no exception
has occurred (`Supervising`); from the tail on a bound child that no exception hid has exited and its
code is the wrapper's (`AtTail`, `AtEnd`). The properties speak of the end only and say nothing of how
it is reached, so none of them is inductive. `WrapperStep` is the whole of `notify.py`, `OtherStep` the
child, the user and the snapshots.

`SweepProofs` proves `TimedIsCorrect`, `CaseFilesSound` and `EvidenceSound` for any paths, cells, trial
counts and conditions (`SweepAssumption`: the comparator is one of the paths and runs on the scalar
backend). The gate never looks at the age of a file, so that no stale one passes needs an argument: the
first record is fresh, because a failing first process ends the gate; every later comparison is,
directly or not, with that record; so at the bounds all files equal one that is of this cell
(`GateProgress`), and the bounds then judge it. `TrialProgress` says that a case that still counts as
passed has one run of every trial begun so far, all with the warm-up count it ended with; `CaseFiles`
and `CellProgress` carry this to the files and to the manifest.

`NativeDriverProofs` first proves of `Codec`, for every tensor length and both widths and from no
assumption, that packing and reading back are inverse in both directions: `PackInverts` (the decoder's
nibble and index arithmetic undoes the encoder's) and `CodesInvert` (a payload of the right length with a
zero padding nibble is the packing of its codes). `Nibbles` splits a byte, `CodePlace` says where an
element lies; the odd tail is the case where the padding check is needed. `DecodeEncode` and
`EncodeDecode` extend this to whole records with every header check: the decoder accepts what the
encoder makes and gives its codes and scale back, and a file it accepts is, byte for byte, the
encoding of what it reads from it.

It then proves the five properties of the run, for any set of well-formed requests
(`RequestsAssumption`) and any widths (`WidthAssumption`). `StageTable` gives the position of every stage;
the invariant says, by position, what the file, the sums and the samples hold while nothing has
failed (`OutputState`, `SumsState`, `SamplesState`) and what may be left once something has
(`FileState`, `Failure`). It rests on the codec (a record of legal codes decodes, a torn one does
not: `RecordDecodes`, `TornRecords`) and on `RunInvocationProofs` (`StreamsAccepted`: no identifier of an
accepted range is refused later). `FirstOf` is the least index that applies, which is what lets the
early returns be reasoned about one by one.

`CudaBenchProofs` proves the five properties of the run for any set of requests (`InputsAssumption`), any
widths, every interleaving of host and device and every failing call. Four invariants, each inductive
relative to the ones before it:

* `IInv` follows the words. The calls still to be made use those of the current run, the captured graph
  those of the base run, and every queued or finished operation those of the run it belongs to
  (`WordsState`). Nothing is queued before the device memory is allocated (`MemoryState`), and freeing the
  first buffer waits for the device, so what is freed afterwards is idle (`EndState`). This gives
  `FreedIsIdle` and `RunsUseTheirStream`.
* `OInv` is about order. Every call and every operation has a rank within its run; the sequences of calls
  ascend, so do a capture, the instantiated graph and the queue (`CaptureOrder`, `GraphState`,
  `QueueState`), and after a synchronisation nothing of an earlier run is pending (`SyncState`). It is what
  allows the next invariant to speak of "what is still pending" instead of one state per prefix.
* `DInv` says what each buffer holds, given what is still pending: an operation that is neither pending nor
  still to be called has left its result, and nothing of lower rank can overwrite it. A poisoned payload
  stays until a K3 of that launch replaces it (`PoisonState`), and the host's conclusions are those of the
  buffers it read (`Outcome`). `MatchesCompress` and `SkippedK3CannotPass` follow.
* `TInv` adds the log of finished operations, the position of every recorded event in it (`LogState`,
  `EventState`) and the samples cut from it (`SampleState`), whence `SamplesCoverTheirRun`.

`EvaluationProofs` proves `SupportedIsSeparated`, `PrintedIsMeasured`, `PublishedIsEvidence`,
`AcceptedIffAsked`, `KeepIsUnanimous` and `BalancedOrders`, for any selection of paths that `build_paths`
accepts, any cells and rounds of an experiment, any number of trials and samples and any times.
`ScenariosAssumption` asks that a process takes at least one sample, that the design of an experiment is
made of integers, and that the line followed is one of a CUDA path, in a publication one of the matrix; `ResidentAssumption` that the
registered number of processes is even, as it is; `ResponseAssumption` that the identifiers of three
executions exist. Six arguments carry it:

* *Separated trials order the pooled medians.* The code compares trial medians and prints the ratio of
  the pooled ones; that the two agree is a fact about counting. The k-th smallest entry has at least k
  entries not above it and fewer than k below it (`Rank`), so half of each trial lies on either
  side of its median (`Middle`). The samples of all trials are counted trial by trial (`PooledCount`):
  the pooled median therefore lies between the least and the greatest trial median (`PooledMedian`),
  and disjoint ranges of trial medians order it (`Separation`).
* *The veto is the inversion of a nested pair.* A selection that `build_paths` accepts holds
  the comparator and, with each path, the ones its rules rely on (`PathsClosed`); the inversion rules of
  `compare_case_group` then look at exactly the selected nested pairs of the veto group (`InversionIsVeto`,
  `PathInversionIsVeto`), and a failed case counts as an inversion.
* *Print repeats what was compared.* `IInv` says that a compared group is what `CompareCaseGroup` makes of
  its trials (`GroupState`), that each entry of the column was sound when it was added (`IsColumn`), and
  that a written summary is that of its experiment (`SummaryState`). `CrossoverSound` adds that a
  resolved crossover is the one pair of successive passing sizes whose raw samples point opposite ways.
* *Both sides describe the same process.* Of every path that `build_paths` can give (`KnownPaths`) the native
  side answers with the configuration that Python expects (`RowAgrees`, `CalibrationAnswered`); an answer
  that differs in one value, lacks one key or has one sample too few is told apart (`CalibrationChecked`).
* *Every round measures both arms.* A shuffle is a bijection of the list of cells, so a round's list of jobs
  holds each arm of a cell as often as the command line names the cell (`RoundJobs`). `RoundState` says of
  n rounds: an arm has that many rows of each finished round (`RoundOver`), and in the last one its rows and
  its remaining jobs are together as many (`JobDone`, `NewRound`); each row ran what it names (`ArmAsked`), in
  the slot that `VariantOrder` gives it. When the list is empty an arm is complete (`ArmComplete`): its rows
  are counted round by round (`Fibres`), and half of an even number of rounds put it first
  (`HalfOfTheRounds`). A kept result then has the
  lists of K1 samples of both arms apart (`ArmsSeparated`), and each row's sample is in the list of its arm
  (`ArmRunsFacts`); the records were compared before the first process (`AbState`).
* *Whole designs are balanced.* `Balanced` asks that each value stands at each place of h rows and follows
  every other value in h places. In the Williams rows of n paths a path stands at a place of exactly one row
  (`RowOf`), and the step from place k - 1 to k is k - 1 or n + 1 - k modulo n (`FirstRow`): for an even n every
  distance occurs at one place, so h is 1 (`EvenBalanced`); for an odd n only the odd distances, each twice,
  and the mirrored rows bring the even ones (`Neighbours`, `OddBalanced`). For up to four paths, an exchange of two
  values maps the permutations with one of them at a place to those with the other (`ExchangeSize`), so the
  classes are equal (`PlaceCount`, `PairCount`, `Fibres`), and `Orderings` lists each permutation once
  because the lexicographic order is total (`StandingsDiffer`). Going round balanced rows a whole number of
  times is balanced (`RoundsBalanced`), and the orders are those of the accepted paths (`OrdersPlanned`).

`BuildProofs` proves `VerifiedIsBuilt`, `ReportedFlags` and `NoFalseRefusal` for any source lists and flags,
any editions, any number of builders and scripts, any number of edits and commits, and both compiler
families (`ListsAssumption`: the scalar comparator, the AVX2 comparator and the kernels each stand in their
own list of the justfile, as they do; `PlanAssumption` and `BuildAssumption`: the shapes of the constants).

* *Plans.* In every edition the plan of a recipe has the same tools, inputs and outputs, expanded
  variables and defines, and only the values of the flags differ (`Alike`); each command reads sources or
  what an earlier command of the same plan made, and the last one makes the binary (`Outline`, `Linked`,
  `StampedPlan`). The suites write no binary that a driver asks for (`WorkOutline`). The fault build is
  the exception (`Whole`): it links objects it does not compile, and no driver asks for what it makes.
* *Folders.* `Built` is what the first n commands leave in an empty folder. A build that no other has
  overlapped finds, of all the files its plan names, those it has made so far as they are there, whatever
  an earlier, failed or killed build has left: exactly if the tree stood still (`Exact`, `ExactStep`), and up
  to the editions of the sources and flags if it was edited meanwhile (`Similar`, `SimilarStep`).
* *Stamps.* `IInv` carries this from the running build (`Made`) through the looks of `write_stamp`
  (`Filling`) to the stamp (`StampSound`), which stays true of the recorded hash whatever happens to the
  folder and the tree later. `AloneInv` says that a build which is alone has no other beside it: without it
  the folder could change under `Made`.
* *Drivers.* A driver past `HashBinary` has compared its stamp field by field (`Verified`), and trees of one
  revision with equal fingerprints have equal files (`OneTree`): with `StampSound` this is `VerifiedIsBuilt`.
  For `NoFalseRefusal`, a stamp that is still fresh agrees with the tree and with the binary
  (`FreshInv`), and what a calm driver has read is what is there (`CalmInv`).
* *Flags.* The object of a source in the binary carries the options of the command that made it
  (`BinaryParts`), every command that compiles this source has the same options (`Flagged`), so the first
  one that `parse_build_commands` finds is as good as any (`HostFlags`, `KernelFlags`, `CpuDescribed`,
  `CudaDescribed`).

The prover has no induction over data. Where a number or a length is inducted on (`Extremes`, `Rank`, `Flatten`,
`PooledCount`, `FlattenPairs`, `BuiltSteps`, `BuiltDomain`, `ObjectsMade`), the proof takes the least
counterexample (`LeastElement`, from the well-foundedness of the natural numbers) and refutes it.

Only model-checked:

* all liveness properties (`ReservationResolves`, `WrapperEnds`, `CallReturns`): fairness and ENABLED are
  outside the prover's reach;
* `MatchesScalar`, `NoSharedWrite`, `ScaleIsScalar`, `NoRace`: the trees are built from powers of two
  with a variable exponent and by recursion over levels, and neither is in the provers' reach.

## Not modelled

* Floating-point arithmetic, Philox and the FP64 oracle: the models keep which operands and words
  meet, not their values; `right` in `Sweep` is the oracle's verdict. Bootstrap intervals are
  floating point and no rule reads them.
* The statistics of the unbiasedness suite and the generation of inputs: numpy on arrays, no state.
* Text, layout and figures that carry no claim, JSON and byte order, parsing of arguments and of
  the environment.
* Operating system and hardware probes: readiness, affinity, `nvidia-smi`, the stream probe's own
  measurement. Their verdicts are conditions of the models.
* `vectorization.py`, `tools/equivalence.py` and the other developer tools: they compile, run and
  grep, and no measurement reads what they print.
* Vendored Random123.

`PROJECT.json` gives the reason per component.

## Plan

Done: the snapshot store with its ledger, the notifier, the sweep with its gate, the CPU backends, K1
and the benchmark of the CUDA backend, the run identifiers and the codec, the native driver, builds and
stamps, the experiments, statistics, validation and reports; and the proofs above.
Left, in this order:

1. Proofs: the identifiers of `Response` against the native ones for a whole benchmark (from
   `RepetitionIds`), and the shares of `ScaleTree` (they partition).
2. **CudaCompress**: the failing calls of `sq_cuda_compress` as steps.
3. The sweep's gate over `NativeDriver` instead of its own abstraction of a process.

----------------------------- MODULE NativeDriver -----------------------------
(***************************************************************************)
(* One process of the native program (main.c): validate the command line   *)
(* (cli.c), load, compress, write, time, report; and a second process that *)
(* decompresses whatever file the first one leaves.  Every allocation,     *)
(* read, write, clock reading and CUDA call may fail.                      *)
(*                                                                         *)
(* The values are a count and a kind; the code of an element is a stand-in *)
(* computed from its index and its random stream, so that a record made    *)
(* with another identifier, another seed or given words is a different     *)
(* one.  The quantizers themselves are the subject of CpuCompress and      *)
(* CudaBench.                                                              *)
(***************************************************************************)
EXTENDS Codec, Legality, RunInvocation

CONSTANT
  Requests   \* the command lines, with their build, machine and input, and
             \* what the output path holds before the process starts

VARIABLES
  request,
  at,        \* index of the next stage; 0 validates, Exited is the end
  status,    \* sq_status
  buffer,    \* the record buffer, which every compression overwrites
  written,   \* record_written: sq_write_file has succeeded
  run,       \* loop counter: execution index, or t of expect
  samples,   \* the identifier each sample was measured with
  sums,      \* what the sums of expect have added so far, in order
  file,      \* at the output path
  report,    \* the JSON line on stdout
  kept,      \* remove() has failed
  decoded    \* the second process: status, and the values it wrote

vars == <<request, at, status, buffer, written, run, samples, sums, file, report, kept, decoded>>

Exited == 99
NoReport == [printed |-> FALSE]
NotMeasured == -1
NotRun == [status |-> "not run"]
NoRecord == [complete |-> FALSE]
Absent == [kind |-> "absent"]
RecordFile(record) == [kind |-> "record", body |-> record]

\* What cli.c makes of a command line: enumerated commands and backends, and
\* uint64_t numbers.  The output path is free or holds some record.
IsRequest(r) ==
  /\ r.command \in {"compress", "bench", "expect"}
  /\ r.backend \in {"cpu", "cpu-avx2", "cuda"}
  /\ r.bits \in Nat /\ r.count \in Nat /\ r.scale \in Scales \cup {"none"}
  /\ r.output \in BOOLEAN /\ r.cudaBuild \in BOOLEAN
  /\ {r.seed, r.tensor, r.base, r.warmups, r.reps, r.seedStart, r.seeds} \subseteq Uint64
  /\ r.old = Absent \/ (r.old.kind = "record" /\ r.old = RecordFile(r.old.body)
                        /\ r.old.body \in Bodies)
ASSUME RequestsAssumption == \A r \in Requests : IsRequest(r)

-----------------------------------------------------------------------------
(* cli.c *)

SeedRangeWrapsOneMore(r) == r.seedStart > UINT64_MAX - (r.seeds - 2)
SeedRangeWraps(r) == r.seedStart > UINT64_MAX - (r.seeds - 1)

\* check_required; input, seed and seeds are given in every request.
Required(r) ==
  /\ r.command = "bench" => r.reps # 0
  /\ r.command = "expect" => ~SeedRangeWraps(r)

NeedsCudaBackendOnly(r) == r.backend = "cuda"
NeedsCuda(r) ==
  r.backend = "cuda" \/ (r.command = "bench" /\ \E row \in RowsFor(r) : row.needsCuda)

\* sq_cli_validate, then resolve_cpu_threads and the range of identifiers.
ValidateStatus(r) ==
  LET bench == r.command = "bench"
      cuda == r.backend = "cuda"
      step == IF bench /\ RowsFor(r) # {} THEN BenchRow(r).step ELSE 0
      badRow == RowsFor(r) = {} \/ ("policy" \in r.seen /\ ~BenchRow(r).transfers)
      runs == IF bench THEN <<r.warmups, r.reps>> ELSE <<0, 1>>
  IN FirstOf(<< <<~Required(r), "ARGUMENT">>,
                <<r.bits \notin {4, 8}, "BIT_WIDTH">>,
                <<~cuda /\ "geometry" \in r.seen, "ARGUMENT">>,
                <<bench /\ badRow, "ARGUMENT">>,
                <<"timings" \in r.seen /\ ~cuda, "TIMINGS_BACKEND">>,
                <<NeedsCuda(r) /\ ~r.cudaBuild, "CUDA_UNAVAILABLE">>,
                <<r.backend # "cpu-avx2" /\ "threads" \in r.seen, "ARGUMENT">>,
                <<r.backend = "cpu-avx2" /\ ~r.avx2, "AVX2_UNAVAILABLE">>,
                <<~InvocationRangeValid(r.tensor, r.base, runs[1], runs[2], step),
                  "ID_OVERFLOW">> >>)

-----------------------------------------------------------------------------
(* Compression: what sq_cpu_compress, and so every backend, computes. *)

Scale(r) == IF r.scale # "none" THEN r.scale
            ELSE IF r.kind = "zero" THEN "zero" ELSE "computed"

\* The scale, the header and the payload prologue refuse in this order.
EncodeStatus(r) ==
  FirstOf(<< <<r.kind = "nonfinite" /\ r.scale = "none", "NONFINITE">>,
             <<r.kind = "overflow" /\ r.scale = "none", "SCALE_OVERFLOW">>,
             <<HeaderStatus(r.count, Scale(r)) # "OK", "SCALE">>,
             <<r.kind = "nonfinite", "NONFINITE">>,
             <<r.count # 0 /\ IsZero(Scale(r)) # (r.kind = "zero"), "SCALE">> >>)

Draw(r, seed, id) == IF r.words # "none" THEN 9 ELSE seed + 4 * id
Codes(r, seed, id) ==
  [i \in 1..r.count |->
     IF IsZero(Scale(r)) THEN SignedLimit(r.bits)
     ELSE (i + Draw(r, seed, id)) % (2 * SignedLimit(r.bits) + 1)]
Record(r, seed, id) == EncodeRecord(r.bits, Scale(r), Codes(r, seed, id))

\* sq_cuda_bench reports +0 as the scale of an empty input.
CudaBenchRecord(r) ==
  IF r.count = 0 THEN EncodeRecord(r.bits, "zero", <<>>) ELSE Record(r, r.seed, r.base)

IdOf(r, index) == RunInvocationId(r.base, r.warmups, r.reps, index, BenchRow(r).step)

-----------------------------------------------------------------------------
(* The order of the work in compress_file, bench_file and expect_file.  A   *)
(* build without CUDA has none of the GPU branches of bench_file.           *)

CpuGpuOrigin(r) == r.command = "bench" /\ r.backend = "cpu" /\ r.boundary = "gpu-origin"
CudaBenches(r) == r.command = "bench" /\ r.backend = "cuda"

StagesWriteLast(r) ==
  CASE r.command = "compress" -> <<"load", "base", "write">>
    [] r.command = "expect" -> <<"load", "scale", "seeds", "write", "print">>
    [] CpuGpuOrigin(r) /\ r.cudaBuild ->
         <<"load", "create", "download", "base", "write", "clock", "loop", "print">>
    [] CudaBenches(r) /\ r.cudaBuild -> <<"load", "cuda", "write", "print">>
    [] (CpuGpuOrigin(r) \/ CudaBenches(r)) /\ ~r.cudaBuild -> <<"load", "print">>
    [] OTHER -> <<"load", "base", "clock", "loop", "write", "print">>
Stages(r) ==
  CASE r.command = "compress" -> <<"load", "base", "write">>
    [] r.command = "expect" -> <<"load", "scale", "seeds", "write", "print">>
    [] CpuGpuOrigin(r) /\ r.cudaBuild ->
         <<"load", "create", "download", "base", "write", "clock", "loop", "print">>
    [] CudaBenches(r) /\ r.cudaBuild -> <<"load", "cuda", "write", "print">>
    [] (CpuGpuOrigin(r) \/ CudaBenches(r)) /\ ~r.cudaBuild -> <<"load", "print">>
    [] OTHER -> <<"load", "base", "write", "clock", "loop", "print">>

Init ==
  /\ request \in Requests
  /\ file = request.old
  /\ at = 0 /\ status = "OK" /\ buffer = NoRecord /\ written = FALSE /\ run = 0
  /\ samples = <<>> /\ sums = <<>> /\ report = NoReport /\ kept = FALSE /\ decoded = NotRun

Stage(s) == at \in 1..Len(Stages(request)) /\ Stages(request)[at] = s

Advance == at' = (IF at = Len(Stages(request)) THEN Exited ELSE at + 1)

\* "goto done": only bench_cpu_gpu_origin removes a record it has written.
CleansUpNever(r) == FALSE
CleansUp(r) == CpuGpuOrigin(r)
Leave(error) ==
  /\ status' = error /\ at' = Exited
  /\ IF CleansUp(request) /\ written
     THEN \/ file' = Absent /\ UNCHANGED kept
          \/ kept' = TRUE /\ UNCHANGED file
     ELSE UNCHANGED <<file, kept>>
  /\ UNCHANGED <<request, buffer, written, run, samples, sums, report, decoded>>

Validate ==
  /\ at = 0
  /\ IF ValidateStatus(request) # "OK" THEN Leave(ValidateStatus(request))
     ELSE at' = 1 /\ UNCHANGED <<request, status, buffer, written, run, samples, sums, file,
                                 report, kept, decoded>>

\* The input and the words are read and measured; bench also looks at every
\* value, and allocates the samples cleared.
LoadStatus(r) ==
  FirstOf(<< <<r.kind = "ragged" \/ (r.command = "expect" /\ r.count = 0), "PAYLOAD_LENGTH">>,
             <<r.words = "short", "PAYLOAD_LENGTH">>,
             <<r.command = "bench" /\ r.kind = "nonfinite", "NONFINITE">> >>)
Load ==
  /\ Stage("load")
  /\ \/ \E e \in {"IO", "MEMORY"} : Leave(e)
     \/ LoadStatus(request) # "OK" /\ Leave(LoadStatus(request))
     \/ /\ LoadStatus(request) = "OK"
        /\ Advance
        /\ samples' = (IF request.command = "bench"
                       THEN [i \in 1..request.reps |-> NotMeasured] ELSE <<>>)
        /\ UNCHANGED <<request, status, buffer, written, run, sums, file, report, kept, decoded>>

\* The untimed compression with the base identifier.
BaseErrors(r) ==
  (IF r.backend = "cuda" THEN {"CUDA", "MEMORY"} ELSE {"MEMORY"})
    \cup (IF EncodeStatus(r) # "OK" THEN {EncodeStatus(r)} ELSE {})
Base ==
  /\ Stage("base")
  /\ \/ \E e \in BaseErrors(request) : Leave(e)
     \/ /\ EncodeStatus(request) = "OK"
        /\ buffer' = Record(request, request.seed, request.base)
        /\ Advance
        /\ UNCHANGED <<request, status, written, run, samples, sums, file, report, kept, decoded>>

\* sq_write_file: open and truncate, write, close.  A failed write leaves a
\* prefix; a failed close may leave all of it.
Output(r) == IF r.command = "expect" THEN [kind |-> "sums", body |-> sums] ELSE RecordFile(buffer)
Torn(output) ==
  IF output.kind # "record" THEN {[kind |-> "torn"]}
  ELSE LET r == output.body IN
       {RecordFile([complete |-> FALSE, header |-> r.header, payload |-> <<>>])}
         \cup {RecordFile([r EXCEPT !.payload = SubSeq(@, 1, k)]) : k \in 0..Len(r.payload)}
Write ==
  /\ Stage("write")
  /\ \/ request.output /\ Leave("IO")
     \/ /\ request.output
        /\ status' = "IO" /\ at' = Exited
        /\ file' \in Torn(Output(request))
        /\ UNCHANGED <<request, buffer, written, run, samples, sums, report, kept, decoded>>
     \/ /\ file' = (IF request.output THEN Output(request) ELSE file)
        /\ written' = request.output
        /\ Advance
        /\ UNCHANGED <<request, status, buffer, run, samples, sums, report, kept, decoded>>

-----------------------------------------------------------------------------
(* The timed loops. *)

Clock ==
  /\ Stage("clock")
  /\ \/ Leave("CLOCK")
     \/ Advance /\ UNCHANGED <<request, status, buffer, written, run, samples, sums, file,
                               report, kept, decoded>>

\* The input goes to the device once, and from there to the landing buffer
\* before every compression; a later download is part of its run.
StagingCreate ==
  /\ Stage("create")
  /\ \/ \E e \in {"CUDA", "MEMORY"} : Leave(e)
     \/ Advance /\ UNCHANGED <<request, status, buffer, written, run, samples, sums, file,
                               report, kept, decoded>>
StagingDownload ==
  /\ Stage("download")
  /\ \/ Leave("CUDA")
     \/ Advance /\ UNCHANGED <<request, status, buffer, written, run, samples, sums, file,
                               report, kept, decoded>>

\* sq_rng_stream_init refuses an identifier above 2^32 - 1.
StreamRefused(r, id) == r.words = "none" /\ id > UINT32_MAX

RunErrors(r, id) ==
  {"CLOCK"} \cup (IF CpuGpuOrigin(r) THEN {"CUDA"} ELSE {})
    \cup (IF StreamRefused(r, id) THEN {"ID_OVERFLOW"} ELSE {})

\* One execution: the buffer is overwritten, a repetition is a sample.
TimedRun ==
  /\ Stage("loop")
  /\ run < request.warmups + request.reps
  /\ \/ \E e \in RunErrors(request, IdOf(request, run)) : Leave(e)
     \/ /\ ~StreamRefused(request, IdOf(request, run))
        /\ buffer' = Record(request, request.seed, IdOf(request, run))
        /\ samples' = (IF run >= request.warmups
                       THEN [samples EXCEPT ![run - request.warmups + 1] = IdOf(request, run)]
                       ELSE samples)
        /\ run' = run + 1
        /\ UNCHANGED <<request, at, status, written, sums, file, report, kept, decoded>>
EndLoop ==
  /\ Stage("loop")
  /\ run = request.warmups + request.reps
  /\ Advance
  /\ UNCHANGED <<request, status, buffer, written, run, samples, sums, file, report, kept, decoded>>

\* sq_cuda_bench as a whole (its steps are those of CudaBench), and the header.
CudaBench ==
  /\ Stage("cuda")
  /\ \/ \E e \in BaseErrors(request) : Leave(e)
     \/ /\ EncodeStatus(request) = "OK"
        /\ buffer' = CudaBenchRecord(request)
        /\ samples' = [i \in 1..request.reps |-> IdOf(request, request.warmups + i - 1)]
        /\ Advance
        /\ UNCHANGED <<request, status, written, run, sums, file, report, kept, decoded>>

-----------------------------------------------------------------------------
(* expect *)

\* sq_compute_scale on the host, for either backend.
ExpectScale ==
  /\ Stage("scale")
  /\ \/ Leave("MEMORY")
     \/ EncodeStatus(request) # "OK" /\ Leave(EncodeStatus(request))
     \/ /\ EncodeStatus(request) = "OK"
        /\ Advance
        /\ UNCHANGED <<request, status, buffer, written, run, samples, sums, file,
                       report, kept, decoded>>

SeedOf(r, t) == (r.seedStart + t) % W64

\* The record is decoded again before it is summed; on CUDA its scale must
\* also be the host's, which it is for every record of that backend.
SeedErrors(r, record) ==
  {"MEMORY"} \cup (IF r.backend = "cuda" THEN {"CUDA"} ELSE {})
    \cup (IF DecodeStatus(record) # "OK" THEN {DecodeStatus(record)} ELSE {})
ExpectSeed ==
  LET record == Record(request, SeedOf(request, run), request.base) IN
  /\ Stage("seeds")
  /\ run < request.seeds
  /\ \/ \E e \in SeedErrors(request, record) : Leave(e)
     \/ /\ DecodeStatus(record) = "OK"
        /\ buffer' = record
        /\ sums' = Append(sums, DecodeValues(record))
        /\ run' = run + 1
        /\ UNCHANGED <<request, at, status, written, samples, file, report, kept, decoded>>
EndSeeds ==
  /\ Stage("seeds")
  /\ run = request.seeds
  /\ \/ Leave("MEMORY")
     \/ Advance /\ UNCHANGED <<request, status, buffer, written, run, samples, sums, file,
                               report, kept, decoded>>

-----------------------------------------------------------------------------
\* print_invocation_ids recomputes the identifiers it prints.
PrintedIds(r) ==
  [warmups |-> [i \in 1..r.warmups |-> IdOf(r, i - 1)],
   reps |-> [i \in 1..r.reps |-> IdOf(r, r.warmups + i - 1)]]
PrintJson ==
  /\ Stage("print")
  /\ report' = (IF request.command = "bench"
                THEN [printed |-> TRUE, ids |-> PrintedIds(request), samples |-> samples]
                ELSE [printed |-> TRUE])
  /\ Advance
  /\ UNCHANGED <<request, status, buffer, written, run, samples, sums, file, kept, decoded>>

\* decompress_file in a second process; a failure to read or write is its own.
Decompress ==
  /\ at = Exited /\ decoded = NotRun
  /\ file.kind = "record"
  /\ decoded' = (IF DecodeStatus(file.body) = "OK"
                 THEN [status |-> "OK", values |-> DecodeValues(file.body)]
                 ELSE [status |-> DecodeStatus(file.body)])
  /\ UNCHANGED <<request, at, status, buffer, written, run, samples, sums, file, report, kept>>

Next ==
  \/ Validate \/ Load \/ Base \/ Write \/ Clock \/ StagingCreate \/ StagingDownload
  \/ TimedRun \/ EndLoop \/ CudaBench \/ ExpectScale \/ ExpectSeed \/ EndSeeds \/ PrintJson \/ Decompress

Spec == Init /\ [][Next]_vars

-----------------------------------------------------------------------------
(* Properties *)

\* The sign of an empty record's scale is all in which bench on the CUDA
\* backend may differ from compress.
Plain(record) ==
  IF record.header.count = 0 THEN [record EXCEPT !.header.scale = "zero"] ELSE record

\* The file that `compress` with the options of r leaves.
IsRecordOf(r, f) ==
  f.kind = "record" /\ Plain(f.body) = Plain(Record(r, r.seed, r.base))

\* An exit code 0 means that the output file holds what was asked for, whoever
\* wrote it and although the record buffer is reused by every timed run: the
\* record of the base identifier, which decodes to its codes, or the sums over
\* exactly the seeds seed_start, seed_start + 1, ... in this order.
SuccessLeavesItsOutput ==
  (at = Exited /\ status = "OK" /\ request.output) =>
    IF request.command = "expect"
    THEN /\ file.kind = "sums"
         /\ file.body = [t \in 1..request.seeds |->
              DecodeValues(Record(request, request.seedStart + t - 1, request.base))]
    ELSE /\ IsRecordOf(request, file)
         /\ decoded # NotRun =>
              /\ decoded.status = "OK"
              /\ Len(decoded.values) = request.count
              /\ \A i \in 1..request.count :
                   decoded.values[i].k =
                     Codes(request, request.seed, request.base)[i] - SignedLimit(request.bits)

\* Whatever the exit code, torn writes and failed cleanups included: a file
\* that decompress accepts is the one that was there before, or exactly the
\* record that was asked for.  A reader that decodes a left-over file never
\* gets the values of a timed run or half of a record.
LeftRecordIsRight ==
  (decoded # NotRun /\ decoded.status = "OK") =>
    file = request.old \/ IsRecordOf(request, file)

\* A process that fails leaves no new file: the commands write last, or take
\* their record back (gpu-origin on the CPU).  Excepted are a failed write or
\* remove, and the host-host benchmark, which writes its record before the
\* clock and keeps it when the clock fails.  Identifiers that do not fit fail
\* before anything is compressed or timed, never in its middle.
FailureLeavesNoNewFile ==
  /\ (at = Exited /\ status \notin {"OK", "IO"} /\ ~kept) =>
       \/ file \in {request.old, Absent}
       \/ Stages(request)[3] = "write" /\ status = "CLOCK" /\ IsRecordOf(request, file)
  /\ (at = Exited /\ status = "ID_OVERFLOW") => ~written /\ run = 0 /\ buffer = NoRecord

\* bench prints a report exactly when it succeeds, every sample in it was
\* measured, and with the identifier that is printed for it.  In a build
\* without CUDA this rests on the command line alone: bench_file has no branch
\* for the GPU paths there and would print the cleared samples.
ReportMatchesRuns ==
  (at = Exited /\ request.command = "bench") =>
    /\ report.printed <=> status = "OK"
    /\ report.printed => report.samples = report.ids.reps

\* decompress accepts a file only if it is, bit for bit, the encoding of the
\* values it returns: no two files with the same scale mean the same values.
DecodeIsStrict ==
  (decoded # NotRun) =>
    LET h == file.body.header
        limit == SignedLimit(h.bits)
        codes == [i \in 1..Len(decoded.values) |-> decoded.values[i].k + limit]
    IN decoded.status = "OK" =>
         /\ file.body = EncodeRecord(h.bits, h.scale, codes)
         /\ \A i \in 1..Len(codes) :
              codes[i] \in 0..(2 * limit) /\ (IsZero(h.scale) => codes[i] = limit)
=============================================================================

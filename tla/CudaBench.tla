------------------------------ MODULE CudaBench ------------------------------
(***************************************************************************)
(* sq_cuda_bench: the host thread issues calls to a device that carries    *)
(* them out later.  Copies, kernels and event records queue on one         *)
(* non-blocking stream; the poisoning cudaMemcpy runs on the default       *)
(* stream, which the other does not wait for.  Every CUDA call may fail.   *)
(*                                                                         *)
(* The host's straight-line code is a sequence of calls (todo); a control  *)
(* point says which function they belong to.  Copies to host memory are    *)
(* asynchronous whatever the transfer policy: pageable memory only makes   *)
(* some of them wait.                                                      *)
(*                                                                         *)
(* An operator defined just before another one and named after it is a     *)
(* seeded fault; PROJECT.json says which property catches it.              *)
(***************************************************************************)
EXTENDS CudaKernels, RunInvocation, Integers, Sequences, SequencesExt

CONSTANT Inputs  \* requests: see Request

Boundaries == {"resident", "host_origin", "resident_graph", "gpu_origin"}
Request(i) ==
  /\ DOMAIN i = {"values", "given", "givenWords", "boundary", "pinned", "tensor",
                 "base", "warmups", "reps", "step"}
  /\ i.values \in {"empty", "zero", "finite", "large", "nonfinite"}
  /\ i.given \in {"none", "zero", "positive", "invalid"}
  /\ i.boundary \in Boundaries
  /\ {i.givenWords, i.pinned} \subseteq BOOLEAN
  /\ {i.tensor, i.base, i.warmups, i.reps, i.step} \subseteq Uint64

ASSUME InputsAssumption == \A i \in Inputs : Request(i)

VARIABLES
  in,        \* the request
  pc,        \* control point
  status,    \* what the call returns
  faulted,   \* a CUDA call has failed, or the graph has lost a node
  todo,      \* calls of the current function still to be made
  stream,    \* operations queued on context->stream
  dma,       \* default-stream copies into the device payload, on their way
  capturing, \* the stream is in capture mode
  graph,     \* the captured operations
  dev,       \* device buffers
  allocated, \* cudaMalloc has been called
  host,      \* host_payload and host: payload, scale, status, flags
  base,      \* base_payload and base_scale, the caller's
  events,    \* event -> number of operations done when it was reached
  log,       \* operations the device has done, with their run
  index,     \* the loop's index, run index + 1; 0 during the preflight
  samples,   \* samples[i] of the measured repetitions
  freed      \* what destroy_bench_context has freed

device == <<stream, dma, dev, events, log>>
vars == <<in, pc, status, faulted, todo, stream, dma, capturing, graph, dev,
          allocated, host, base, events, log, index, samples, freed>>

Empty == in.values = "empty"
Given == [given |-> 0]
Drawn(id) == [id |-> id]
Prescribed == in.given # "none"
Transfers(boundary) == boundary \in {"host_origin", "gpu_origin"}
Total == in.warmups + in.reps
Never == -1

-----------------------------------------------------------------------------
(* Calls and operations *)

Events == {"k1_start", "k1_stop", "k2_start", "k2_stop", "k3_start", "k3_stop",
           "h2d_start", "h2d_stop", "d2h_start", "d2h_stop"}
Enqueue(o) == [call |-> "enqueue", op |-> o]
Record(e) == Enqueue([op |-> "record", event |-> e])
Upload(to) == Enqueue([op |-> "upload", to |-> to])
Download(what) == Enqueue([op |-> "download", what |-> what])
Call(name) == [call |-> name]
When(condition, calls) == IF condition THEN calls ELSE <<>>

\* enqueue_resident: one memset, then K1-K3, with events unless it is
\* captured.  K1 must not overwrite a prescribed scale.
EnqueueResidentEarlyStop(words, timed) ==
  <<Enqueue([op |-> "memset"])>>
  \o When(timed, <<Record("k1_start")>>)
  \o <<Enqueue([op |-> "k1", to |-> IF Prescribed THEN "k1Scale" ELSE "scale"])>>
  \o When(timed, <<Record("k1_stop"), Record("k2_start"), Record("k2_stop")>>)
  \o <<Enqueue([op |-> "k2", words |-> words])>>
  \o When(timed, <<Record("k3_start")>>)
  \o <<Enqueue([op |-> "k3"])>>
  \o When(timed, <<Record("k3_stop")>>)
EnqueueResident(words, timed) ==
  <<Enqueue([op |-> "memset"])>>
  \o When(timed, <<Record("k1_start")>>)
  \o <<Enqueue([op |-> "k1", to |-> IF Prescribed THEN "k1Scale" ELSE "scale"])>>
  \o When(timed, <<Record("k1_stop"), Record("k2_start")>>)
  \o <<Enqueue([op |-> "k2", words |-> words])>>
  \o When(timed, <<Record("k2_stop"), Record("k3_start")>>)
  \o <<Enqueue([op |-> "k3"])>>
  \o When(timed, <<Record("k3_stop")>>)

Words(id) == IF in.givenWords THEN Given ELSE Drawn(id)

\* run_bench_pipeline up to the synchronisation.
BenchPipeline(id, boundary, copyOutputs, inspect) ==
  When(boundary = "host_origin", <<Record("h2d_start"), Upload("values"), Record("h2d_stop")>>)
  \o EnqueueResident(Words(id), TRUE)
  \o When(copyOutputs, <<Record("d2h_start"), Download("payload"), Download("scale"),
                         Record("d2h_stop")>>)
  \o When(inspect, <<Download("status"), Download("flags")>>)
  \o <<Call("device_sync")>>

\* sq_cuda_bench before the preflight: buffers, then what stays on the
\* device for the whole benchmark.
Setup ==
  <<Call("create"), Call("host_alloc"), Call("host_alloc")>>
  \o When(in.boundary = "host_origin" /\ in.pinned /\ ~Empty, <<Call("host_alloc")>>)
  \o When(~Empty,
       <<Call("malloc")>>
       \o When(Prescribed, <<Upload("scale")>>)
       \o When(in.givenWords, <<Upload("words")>>)
       \o When(in.boundary # "host_origin", <<Upload("values")>>)
       \o <<Call("stream_sync")>>)

\* run_bench_graph before its loop: poison the payload left by the preflight,
\* then capture.
PoisonNone == <<>>
PoisonNoSync == When(~Empty, <<Call("poison")>>)
Poison == When(~Empty, <<Call("poison"), Call("device_sync")>>)
Capture ==
  Poison \o <<Call("begin_capture")>>
  \o When(~Empty, EnqueueResident(Words(RunInvocationId(in.base, in.warmups, in.reps,
                                                         in.warmups, in.step)), FALSE))
  \o <<Call("end_capture"), Call("instantiate")>>
\* Its readback after the loop.
Readback ==
  <<Download("payload"), Download("scale"), Download("status"), Download("flags"),
    Call("device_sync")>>

-----------------------------------------------------------------------------
(* The host *)

Idle == stream = <<>> /\ dma = {}

Init ==
  /\ in \in Inputs
  /\ pc = "start" /\ status = "OK" /\ faulted = FALSE /\ todo = <<>>
  /\ stream = <<>> /\ dma = {} /\ capturing = FALSE /\ graph = <<>>
  /\ dev = Malloced /\ allocated = FALSE
  /\ host = [payload |-> Junk, scale |-> "zero", status |-> "OK", flags |-> {}]
  /\ base = [payload |-> Junk, scale |-> "junk"]
  /\ events = [e \in Events |-> Never] /\ log = <<>>
  /\ index = 0 /\ samples = <<>> /\ freed = {}

\* The argument checks of sq_cuda_bench, in their order.
Refusal ==
  IF in.reps = 0 \/ (in.pinned /\ ~Transfers(in.boundary))
       \/ (in.boundary = "resident_graph" /\ in.step # 0)
  THEN "ARGUMENT"
  ELSE IF in.given = "invalid" THEN "SCALE"
  ELSE IF ~InvocationRangeValid(in.tensor, in.base, in.warmups, in.reps, in.step)
  THEN "ID_OVERFLOW"
  ELSE IF in.given = "positive" /\ Empty THEN "SCALE"
  ELSE "OK"

Start ==
  /\ pc = "start"
  /\ IF Refusal # "OK"
     THEN pc' = "done" /\ status' = Refusal /\ UNCHANGED todo
     ELSE pc' = "setup" /\ todo' = Setup /\ UNCHANGED status
  /\ UNCHANGED <<in, faulted, device, capturing, graph, allocated, host, base, index,
                 samples, freed>>

\* One call succeeds.  A synchronisation returns when its work is done; an
\* operation goes to the graph while the stream captures; the pageable
\* cudaMemcpy may return before its bytes arrive.
MakeCall ==
  /\ todo # <<>> /\ todo' = Tail(todo)
  /\ LET c == Head(todo)
         stamped == [op |-> c.op, run |-> index]
     IN \/ /\ c.call = "enqueue"
           /\ IF capturing
              THEN graph' = Append(graph, c.op) /\ UNCHANGED <<stream, events>>
              ELSE /\ stream' = Append(stream, stamped)
                   /\ events' = IF c.op.op = "record" THEN [events EXCEPT ![c.op.event] = Never]
                                ELSE events
                   /\ UNCHANGED graph
           /\ UNCHANGED <<dma, capturing, allocated, faulted>>
        \/ /\ c.call = "device_sync" /\ Idle
           /\ UNCHANGED <<stream, dma, events, capturing, graph, allocated, faulted>>
        \/ /\ c.call = "stream_sync" /\ stream = <<>>
           /\ UNCHANGED <<stream, dma, events, capturing, graph, allocated, faulted>>
        \/ /\ c.call = "poison"
           /\ dma' = {[poison |-> base.payload]}
           /\ host' = [host EXCEPT !.payload = [poison |-> base.payload]]
           /\ UNCHANGED <<stream, events, capturing, graph, allocated, faulted>>
        \/ /\ c.call \in {"begin_capture", "end_capture"}
           /\ capturing' = (c.call = "begin_capture")
           /\ UNCHANGED <<stream, dma, events, graph, allocated, faulted>>
        \/ /\ c.call = "instantiate"
           /\ \/ UNCHANGED <<graph, faulted>>
              \/ /\ \E i \in DOMAIN graph : graph' = RemoveAt(graph, i)
                 /\ faulted' = TRUE
           /\ UNCHANGED <<stream, dma, events, capturing, allocated>>
        \/ /\ c.call = "launch"
           /\ stream' = stream \o [i \in DOMAIN graph |-> [op |-> graph[i], run |-> index]]
           /\ UNCHANGED <<dma, events, capturing, graph, allocated, faulted>>
        \/ /\ c.call = "malloc"
           /\ allocated' = TRUE
           /\ UNCHANGED <<stream, dma, events, capturing, graph, faulted>>
        \/ /\ c.call \in {"create", "host_alloc"}
           /\ UNCHANGED <<stream, dma, events, capturing, graph, allocated, faulted>>
  /\ Head(todo).call # "poison" => UNCHANGED host
  /\ UNCHANGED <<in, pc, status, dev, base, log, index, samples, freed>>

\* One call fails: the function returns; a capture is ended first.
CallFails ==
  /\ todo # <<>>
  /\ faulted' = TRUE
  /\ status' = IF Head(todo).call = "host_alloc" THEN "MEMORY" ELSE "CUDA"
  /\ pc' = "destroy"
  /\ todo' = <<>>
  /\ capturing' = FALSE
  /\ UNCHANGED <<in, device, graph, allocated, host, base, index, samples, freed>>

Through(l) == pc = l /\ todo = <<>>
Leave(e) == pc' = "destroy" /\ status' = e /\ UNCHANGED todo
Continue(l, calls) == pc' = l /\ todo' = calls /\ UNCHANGED status

\* An empty input needs no preflight.
AfterSetup ==
  /\ Through("setup")
  /\ IF Empty
     THEN /\ base' = [base EXCEPT !.scale = "zero"]
          /\ IF in.boundary = "resident_graph" THEN Continue("capture", Capture)
             ELSE Continue("loop", <<>>)
     ELSE /\ Continue("preflight",
               BenchPipeline(in.base, IF in.boundary = "host_origin" THEN "host_origin"
                                      ELSE "resident", TRUE, TRUE))
          /\ UNCHANGED base
  /\ UNCHANGED <<in, faulted, device, capturing, graph, allocated, host, index, samples, freed>>

\* The preflight is inspected and gives the base record.
AfterPreflight ==
  /\ Through("preflight")
  /\ LET result == CheckBenchResult(host.scale, Prescribed, host.status, host.flags) IN
     IF result # "OK" THEN Leave(result) /\ UNCHANGED base
     ELSE /\ base' = [payload |-> host.payload, scale |-> host.scale]
          /\ IF in.boundary = "resident_graph" THEN Continue("capture", Capture)
             ELSE Continue("loop", <<>>)
  /\ UNCHANGED <<in, faulted, device, capturing, graph, allocated, host, index, samples, freed>>
AfterCapture ==
  /\ Through("capture")
  /\ Continue("loop", <<>>)
  /\ UNCHANGED <<in, faulted, device, capturing, graph, allocated, host, base, index,
                 samples, freed>>

Staged == ~Empty /\ in.boundary # "resident_graph"
\* One warm-up or repetition: a pipeline, a graph launch, or, for an empty
\* input, only the synchronisation.
RunCalls(run) ==
  IF in.boundary = "resident_graph" THEN <<Call("launch"), Call("device_sync")>>
  ELSE IF Empty THEN <<Call("device_sync")>>
  ELSE BenchPipeline(RunInvocationId(in.base, in.warmups, in.reps, run, in.step),
                     in.boundary, Transfers(in.boundary), FALSE)
\* sq_rng_stream_init at the head of the pipeline refuses an identifier that
\* is too large; the preflight's and the graph's is the base, checked before.
StartRun ==
  /\ Through("loop") /\ index < Total
  /\ index' = index + 1
  /\ IF Staged /\ RunInvocationId(in.base, in.warmups, in.reps, index, in.step) > UINT32_MAX
     THEN Leave("ID_OVERFLOW")
     ELSE Continue("run", RunCalls(index))
  /\ UNCHANGED <<in, faulted, device, capturing, graph, allocated, host, base, samples, freed>>

\* The sample: the wall clock covers what the device has done for this run;
\* an event interval covers what it has done between the two events, and
\* cudaEventElapsedTime refuses an event that has not been reached.
Stages ==
  When(Staged, <<"k1", "k2", "k3">>)
  \o When(Staged /\ in.boundary = "host_origin", <<"h2d">>)
  \o When(Staged /\ Transfers(in.boundary), <<"d2h">>)
Bounds == [k1 |-> <<"k1_start", "k1_stop">>, k2 |-> <<"k2_start", "k2_stop">>,
           k3 |-> <<"k3_start", "k3_stop">>, h2d |-> <<"h2d_start", "h2d_stop">>,
           d2h |-> <<"d2h_start", "d2h_stop">>]
Elapsed(stage) ==
  [i \in (events[Bounds[stage][1]] + 1)..events[Bounds[stage][2]] |-> log[i]]
Sample ==
  [wall |-> [i \in {j \in DOMAIN log : log[j].run = index} |-> log[i]],
   stages |-> [s \in ToSet(Stages) |-> Elapsed(s)]]
SampleSlot == index > in.warmups
AfterRun ==
  /\ Through("run")
  /\ IF ~SampleSlot THEN Continue("loop", <<>>) /\ UNCHANGED <<samples, faulted>>
     ELSE IF \E s \in ToSet(Stages), k \in {1, 2} : events[Bounds[s][k]] = Never
     THEN Leave("CUDA") /\ UNCHANGED <<samples, faulted>>
     ELSE \/ samples' = Append(samples, Sample) /\ Continue("loop", <<>>) /\ UNCHANGED faulted
          \/ Staged /\ Leave("CUDA") /\ faulted' = TRUE /\ UNCHANGED samples
  /\ UNCHANGED <<in, device, capturing, graph, allocated, host, base, index, freed>>

AfterLoop ==
  /\ Through("loop") /\ index = Total
  /\ IF in.boundary = "resident_graph" /\ ~Empty THEN Continue("readback", Readback)
     ELSE Leave("OK")
  /\ UNCHANGED <<in, faulted, device, capturing, graph, allocated, host, base, index,
                 samples, freed>>

\* The last launch must pass the result checks and match the preflight.
AfterReadback ==
  /\ Through("readback")
  /\ LET result == CheckBenchResult(host.scale, Prescribed, host.status, host.flags) IN
     Leave(IF result # "OK" THEN result
           ELSE IF host.scale # base.scale \/ host.payload # base.payload THEN "CUDA"
           ELSE "OK")
  /\ UNCHANGED <<in, faulted, device, capturing, graph, allocated, host, base, index,
                 samples, freed>>

\* destroy_bench_context: device buffers first; cudaFree of a buffer waits
\* for the device.
FirstFreedHost == "host"
FirstFreed == "device"
Destroy ==
  /\ pc = "destroy"
  /\ \/ /\ freed = {} /\ freed' = {FirstFreed}
        /\ FirstFreed = "device" /\ allocated => Idle
        /\ UNCHANGED pc
     \/ /\ freed # {} /\ freed' = {"device", "host"}
        /\ pc' = "done"
  /\ UNCHANGED <<in, status, faulted, todo, device, capturing, graph, allocated, host, base,
                 index, samples>>

Host ==
  \/ Start \/ MakeCall \/ AfterSetup \/ AfterPreflight \/ AfterCapture \/ StartRun
  \/ AfterRun \/ AfterLoop \/ AfterReadback \/ Destroy

-----------------------------------------------------------------------------
(* The device *)

\* The head of the stream is carried out.
Source(to) == CASE to = "values" -> in.values [] to = "scale" -> in.given [] to = "words" -> Given
DoneOnDevice(o) ==
  CASE o.op = "memset" -> [dev EXCEPT !.flags = {}]
    [] o.op = "k1" -> K1(dev, o.to)
    [] o.op = "k2" -> K2(dev, IF in.givenWords THEN dev.words ELSE o.words)
    [] o.op = "k3" -> K3(dev)
    [] o.op = "upload" -> [dev EXCEPT ![o.to] = Source(o.to)]
    [] OTHER -> dev
DeviceStep ==
  /\ stream # <<>> /\ stream' = Tail(stream)
  /\ LET o == Head(stream).op IN
     /\ dev' = DoneOnDevice(o)
     /\ host' = IF o.op = "download" THEN [host EXCEPT ![o.what] = dev[o.what]] ELSE host
     /\ events' = IF o.op = "record" THEN [events EXCEPT ![o.event] = Len(log)] ELSE events
     /\ log' = IF o.op = "record" THEN log ELSE Append(log, Head(stream))
  /\ UNCHANGED <<in, pc, status, faulted, todo, dma, capturing, graph, allocated, base, index,
                 samples, freed>>

\* The poison arrives, whatever the stream is doing.
PoisonLands ==
  /\ \E bytes \in dma : dev' = [dev EXCEPT !.payload = bytes]
  /\ dma' = {}
  /\ UNCHANGED <<in, pc, status, faulted, todo, stream, capturing, graph, allocated, host, base,
                 events, log, index, samples, freed>>

Next == Host \/ CallFails \/ DeviceStep \/ PoisonLands

Spec == Init /\ [][Next]_vars

-----------------------------------------------------------------------------
(* Properties *)

\* "supplies the base record that --record-output writes and the driver
\* compares with stoquant compress": a benchmark without a fault returns the
\* status of sq_cuda_compress, although it runs K1 to K3 without looking in
\* between, and no successful benchmark, faults included, hands out another
\* record, however many timed runs have reused the buffers.
MatchesCompress ==
  pc = "done" /\ Refusal = "OK" /\ ~Empty =>
    LET expected == CudaCompress(in.values, in.given, Words(in.base)) IN
    /\ ~faulted => status = expected.status
    /\ status = "OK" => base = [payload |-> expected.payload, scale |-> expected.scale]

\* "so a graph that skipped K3 cannot pass": a graph benchmark that succeeds
\* has run K3 in its launches.
SkippedK3CannotPass ==
  pc = "done" /\ status = "OK" /\ in.boundary = "resident_graph" /\ ~Empty =>
    \E i \in DOMAIN log : log[i].run = Total /\ log[i].op.op = "k3"

Names(entries) == {entries[i].op.op : i \in DOMAIN entries}
Downloads(entries) ==
  {entries[i].op.what : i \in {j \in DOMAIN entries : entries[j].op.op = "download"}}
TimedWork ==
  IF Empty THEN {}
  ELSE {"memset", "k1", "k2", "k3"}
       \cup (IF in.boundary = "host_origin" THEN {"upload"} ELSE {})
       \cup (IF Transfers(in.boundary) THEN {"download"} ELSE {})
\* The timing windows of technical-contract.md: a sample's wall time covers
\* its own run to the end and nothing else of the boundary; each stage time
\* covers exactly its kernel or its copies, of the same run.
SamplesCoverTheirRun ==
  ~faulted =>
    \A i \in DOMAIN samples :
      /\ Names(samples[i].wall) = TimedWork
      /\ Downloads(samples[i].wall) \subseteq {"payload", "scale"}
      /\ \A s \in DOMAIN samples[i].stages :
           LET entries == samples[i].stages[s] IN
           /\ \A k \in DOMAIN entries : entries[k].run = in.warmups + i
           /\ Names(entries) = {CASE s = "h2d" -> "upload" [] s = "d2h" -> "download"
                                  [] OTHER -> s}
           /\ s = "d2h" => Downloads(entries) = {"payload", "scale"}

\* "Repetition r uses base + r; warmup w uses base + reps + w"; a graph
\* repeats base.  A range accepted at the start is never refused by a later
\* run and, with a step, no two runs share a random stream.
Rounded(run) == {log[i].op.words : i \in {j \in DOMAIN log : log[j].run = run /\ log[j].op.op = "k2"}}
RunsUseTheirStream ==
  /\ status = "ID_OVERFLOW" => Refusal = "ID_OVERFLOW"
  /\ ~in.givenWords =>
    /\ \A r \in 0..(in.reps - 1) : in.warmups + r + 1 <= index =>
         Rounded(in.warmups + r + 1) \subseteq {Drawn(in.base + r * in.step)}
    /\ in.step # 0 => \A a, b \in 1..index :
         a # b => Rounded(a) \cap Rounded(b) = {}

\* Host memory is freed only when no copy into it is under way, whichever
\* call has failed before.
FreedIsIdle ==
  /\ "host" \in freed => ~\E i \in DOMAIN stream : stream[i].op.op = "download"
  /\ "device" \in freed => Idle
=============================================================================

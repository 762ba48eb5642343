---------------------------- MODULE MCNativeDriver ----------------------------
(* Small instances of NativeDriver. *)
EXTENDS NativeDriver

Input(kind, count) == [kind |-> kind, count |-> count]

\* A request is an option record merged with an input.
Make(command, backend, boundary, bits, input, scale, words, output, seen, build) ==
  [command |-> command, backend |-> backend, boundary |-> boundary, bits |-> bits,
   kind |-> input.kind, count |-> input.count, scale |-> scale, words |-> words,
   output |-> output, seen |-> seen, cudaBuild |-> build, avx2 |-> TRUE,
   seed |-> 1, tensor |-> 2, base |-> 1, warmups |-> 1, reps |-> 2,
   seedStart |-> 1, seeds |-> 2, old |-> Absent]

Inputs ==
  { Input("zero", 0), Input("zero", 3), Input("finite", 3), Input("finite", 2),
    Input("overflow", 2), Input("nonfinite", 2), Input("ragged", 1) }
Boundaries == {"none", "resident", "host-origin", "resident-graph", "gpu-origin"}
Backends == {"cpu", "cpu-avx2", "cuda"}

\* Every input with every prescribed scale and words, by command and backend.
CompressRequests ==
  { Make("compress", b, "none", bits, i, s, w, TRUE, {}, TRUE) :
      b \in Backends, bits \in {4, 8, 5}, i \in Inputs,
      s \in {"none", "zero", "negzero", "given"}, w \in {"none", "match", "short"} }
BenchRequests ==
  { Make("bench", p[1], p[2], 4, i, s, w, o, {}, TRUE) :
      p \in {<<"cpu", "none">>, <<"cpu", "gpu-origin">>, <<"cuda", "host-origin">>,
             <<"cuda", "resident-graph">>},
      i \in Inputs, s \in {"none", "negzero"}, w \in {"none", "match"}, o \in BOOLEAN }

\* Every combination of options on one input, in builds and on machines that
\* may lack what it needs.
OptionRequests ==
  { [Make(c, b, d, 4, Input("finite", 3), "none", "none", TRUE, seen, build) EXCEPT !.avx2 = a] :
      c \in {"compress", "bench"}, b \in Backends, d \in Boundaries,
      seen \in {{}, {"policy"}, {"threads"}, {"timings"}, {"geometry"}},
      build \in BOOLEAN, a \in BOOLEAN }

\* Identifiers and loop lengths up to and beyond the limits.
RangeRequests ==
  { [Make("bench", p[1], p[2], 4, Input("finite", 2), "none", w, TRUE, {}, TRUE) EXCEPT
       !.tensor = t, !.base = b, !.warmups = n, !.reps = k] :
      p \in {<<"cpu", "none">>, <<"cpu", "gpu-origin">>, <<"cuda", "resident">>,
             <<"cuda", "resident-graph">>},
      w \in {"none", "match"}, t \in {3, 4}, b \in {0, 2, 4}, n \in {0, 2}, k \in 0..3 }

ExpectRequests ==
  { [Make("expect", b, "none", bits, i, "none", "none", TRUE, {}, build) EXCEPT
       !.seedStart = s, !.seeds = n] :
      b \in {"cpu", "cuda"}, bits \in {4, 8}, i \in Inputs, build \in BOOLEAN,
      s \in {1, 14, 15}, n \in 1..3 }

OldRecord == RecordFile(EncodeRecord(8, "given", <<99>>))
CommandRequests ==
  { [r EXCEPT !.old = f] :
      r \in CompressRequests \cup BenchRequests \cup OptionRequests \cup RangeRequests
              \cup ExpectRequests,
      f \in {Absent, OldRecord} }

\* A refused command line, so that only decompress runs, on every small file:
\* each header check at fault, and every payload over bytes at the limits.
RefusedRequest ==
  Make("compress", "cpu", "none", 5, Input("finite", 2), "none", "none", TRUE, {}, TRUE)
Headers ==
  { [magic |-> m, version |-> v, bits |-> b, reserved |-> z, count |-> n, scale |-> s] :
      m \in BOOLEAN, v \in {1, 2}, b \in {4, 8, 5}, z \in {0, 1}, n \in 0..3,
      s \in {"zero", "negzero", "given", "negative", "nonfinite"} }
Bytes == {7, 15, 23, 119, 127, 238, 254, 255}
SmallFiles ==
  { RecordFile([complete |-> c, header |-> h, payload |-> p]) :
      c \in BOOLEAN, h \in Headers, p \in UNION {[1..k -> Bytes] : k \in 0..2} }

AllRequests == CommandRequests \cup { [RefusedRequest EXCEPT !.old = f] : f \in SmallFiles }
=============================================================================

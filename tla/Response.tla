------------------------------- MODULE Response -------------------------------
(***************************************************************************)
(* One native benchmark process as the Python drivers see it: the command  *)
(* line run_bench_process builds for a path, the line of JSON the native   *)
(* side prints for it, and validate_bench_response, which decides whether  *)
(* the answer is one to exactly that request.                              *)
(*                                                                         *)
(* Timings are left out here; a sample array is its length.                *)
(***************************************************************************)
EXTENDS Design, Legality, RunInvocation

CONSTANT DEFAULT_COMPRESSION_SEED

\* The identifiers of a calibration, which executes three times, exist.
ASSUME ResponseAssumption == DEFAULT_COMPRESSION_SEED \in Nat /\ W32 > 2

\* BenchPath.extra_args and k1_args: options left out are "none".
Request(p, k1, count, bits, warmups, reps) ==
  [backend |-> p.backend,
   boundary |-> IF p.boundary \in HOST_BOUNDARIES THEN "none" ELSE p.boundary,
   policy |-> IF p.policy = "pinned" THEN "pinned" ELSE "none",
   k1 |-> IF p.backend = "cuda" THEN k1 ELSE "none",
   count |-> count, bits |-> bits, seed |-> DEFAULT_COMPRESSION_SEED,
   warmups |-> warmups, reps |-> reps]

Configuration(r, boundary, policy, repetitions, warmups) ==
  [backend |-> r.backend, bits |-> r.bits, count |-> r.count, seed |-> r.seed,
   tensor_id |-> 0, invocation_id |-> 0, warmup |-> r.warmups, reps |-> r.reps,
   repetition_invocation_ids |-> repetitions, warmup_invocation_ids |-> warmups,
   boundary |-> boundary, transfer_policy |-> policy,
   block_size |-> 256, grid_size |-> 0, prescribed_scale |-> "null"]

\* A configuration with one more key.
Plus(configuration, key, value) ==
  [f \in DOMAIN configuration \cup {key} |-> IF f = key THEN value ELSE configuration[f]]

-----------------------------------------------------------------------------
(* The native side: resolve_bench and sq_bench_print_json. *)

\* The answer of a build that runs what it is asked for, on a team of
\* `threads' for the AVX2 backend.
NativeAnswer(r, threads) ==
  LET row == BenchRow(r)
      policy == IF ~row.transfers THEN "none" ELSE IF r.policy = "none" THEN "pageable" ELSE r.policy
      id(index) == RunInvocationId(0, r.warmups, r.reps, index, row.step)
      base == Configuration(r, row.boundary, policy,
                            [i \in 1..r.reps |-> id(r.warmups + i - 1)],
                            [i \in 1..r.warmups |-> id(i - 1)])
  IN [configuration |-> IF r.backend = "cuda" THEN Plus(base, "k1", r.k1)
                        ELSE IF r.backend = "cpu-avx2" THEN Plus(base, "threads", threads) ELSE base,
      samples |-> r.reps,
      stages |-> [s \in row.columns \ {"capture"} |-> r.reps],
      capture |-> "capture" \in row.columns]

-----------------------------------------------------------------------------
(* runner.py *)

\* _expected_configuration.  A policy without a transfer, or no policy for
\* one, is refused.
ExpectedBoundary(r) ==
  IF r.boundary # "none" THEN r.boundary
  ELSE IF r.backend = "cuda" THEN CUDA_RESIDENT.boundary ELSE "host-host"
Transfers(r) == ExpectedBoundary(r) \in {"host-origin", "gpu-origin"}
ExpectedPolicy(r) ==
  IF r.policy # "none" THEN r.policy ELSE IF Transfers(r) THEN "pageable" ELSE "none"
RequestSupported(r) ==
  /\ r.backend \in {"cpu", "cpu-avx2", "cuda"}
  /\ Transfers(r) <=> ExpectedPolicy(r) # "none"

ExpectedConfiguration(r) ==
  LET step == IF ExpectedBoundary(r) = "resident-graph" THEN 0 ELSE 1
      base == Configuration(r, ExpectedBoundary(r), ExpectedPolicy(r),
                            [i \in 1..r.reps |-> (i - 1) * step],
                            [i \in 1..r.warmups |-> (r.reps + i - 1) * step])
  IN IF r.backend = "cuda" THEN Plus(base, "k1", r.k1) ELSE base

\* _required_stages.
RequiredStages(r) ==
  LET boundary == ExpectedBoundary(r) IN
  CASE r.backend = "cuda" /\ boundary = "resident-graph" -> {}
    [] r.backend = "cuda" /\ boundary = "host-origin" ->
         {"k1_ms", "k2_ms", "k3_ms", "h2d_ms", "d2h_ms"}
    [] r.backend = "cuda" /\ boundary = "gpu-origin" -> {"k1_ms", "k2_ms", "k3_ms", "d2h_ms"}
    [] r.backend = "cuda" /\ boundary = "resident" -> {"k1_ms", "k2_ms", "k3_ms"}
    [] r.backend = "cpu" /\ boundary = "gpu-origin" -> {"d2h_ms", "cpu_ms"}
    [] OTHER -> {}

\* The part of validate_bench_response that checks the echoed configuration.
EchoesEveryValueButK1(configuration, r) ==
  /\ r.backend = "cpu-avx2" =>
       "threads" \in DOMAIN configuration /\ configuration.threads > 0
  /\ LET expected == ExpectedConfiguration(r) IN
     \A f \in DOMAIN expected \ {"k1"} :
       f \in DOMAIN configuration /\ configuration[f] = expected[f]
EchoesEveryValue(configuration, r) ==
  /\ r.backend # "cuda" => "k1" \notin DOMAIN configuration
  /\ r.backend # "cpu-avx2" => "threads" \notin DOMAIN configuration
  /\ r.backend = "cpu-avx2" =>
       "threads" \in DOMAIN configuration /\ configuration.threads > 0
  /\ LET expected == ExpectedConfiguration(r) IN
     \A f \in DOMAIN expected : f \in DOMAIN configuration /\ configuration[f] = expected[f]

ValidateBenchResponse(answer, r) ==
  /\ RequestSupported(r)
  /\ EchoesEveryValue(answer.configuration, r)
  /\ answer.samples = r.reps
  /\ DOMAIN answer.stages = RequiredStages(r)
  /\ \A s \in DOMAIN answer.stages : answer.stages[s] = r.reps
  /\ answer.capture <=> ExpectedBoundary(r) = "resident-graph"

-----------------------------------------------------------------------------
(* Answers to something else: one thing differs from the honest one. *)

Altered(value, f) ==
  CASE f \in {"backend", "boundary", "transfer_policy", "k1", "prescribed_scale"} -> "another"
    [] f \in {"repetition_invocation_ids", "warmup_invocation_ids"} -> Append(value, 0)
    [] OTHER -> value + 1

Faults(answer) ==
  LET c == answer.configuration IN
  {[answer EXCEPT !.configuration = [c EXCEPT ![f] = Altered(c[f], f)]] : f \in DOMAIN c \ {"threads"}}
  \cup {[answer EXCEPT !.configuration = [g \in DOMAIN c \ {f} |-> c[g]]] : f \in DOMAIN c}
  \cup {[answer EXCEPT !.samples = @ - 1], [answer EXCEPT !.capture = ~@]}
  \cup {[answer EXCEPT !.stages = [t \in DOMAIN answer.stages \ {s} |-> answer.stages[t]]] :
          s \in DOMAIN answer.stages}
  \cup {[answer EXCEPT !.stages = [t \in DOMAIN answer.stages \cup {s} |-> answer.samples]] :
          s \in {"h2d_ms", "cpu_ms"} \ DOMAIN answer.stages}
=============================================================================

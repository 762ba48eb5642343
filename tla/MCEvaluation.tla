----------------------------- MODULE MCEvaluation -----------------------------
(* Scenarios and experiments, each chosen so that a part of the code runs.   *)
EXTENDS Evaluation

\* What the trials of a case may measure: two disjoint stable profiles, one
\* that overlaps both, one whose pooled median is not the median of its
\* trials, one whose trials jump, and one with a trial too short for the clock.
Fast == <<<<2, 2>>>>
Slow == <<<<8, 9>>, <<9, 9>>>>
Spread == <<<<2, 2>>, <<8, 8>>>>
Skewed == <<<<3, 3>>, <<3, 9>>, <<9, 9>>>>
Jumpy == <<<<10, 10>>, <<20, 21>>>>
Zero == <<<<0, 0>>, <<4, 4>>>>

All == {"cpu", "cpu-avx2", "cuda"}
Pair == {"cpu", "cuda"}
GpuOrigin == {"gpu-origin"}
Pageable == {"pageable"}
Both == {"pageable", "pinned"}

Scenario(backends, boundaries, policies, trials, sizes, profiles, watched) ==
  [backends |-> backends, boundaries |-> boundaries, policies |-> policies, trials |-> trials,
   k1 |-> "optimized", sizes |-> sizes, profiles |-> profiles, faulty |-> FALSE,
   watched |-> watched, after |-> {NoExperiment}, device |-> "d1"]

\* Crossovers need a grid; claims need many outcomes at one size.
Grids ==
  {Scenario(Pair, {}, Pageable, 2, 4, {Fast, Slow}, {HostOrigin("pageable")}),
   Scenario(Pair, {}, Pageable, 2, 3, {Fast, Slow}, {CUDA_RESIDENT, CUDA_RESIDENT_GRAPH}),
   Scenario({"cpu", "cpu-avx2"}, {}, Pageable, 2, 2, {Fast, Slow}, {CUDA_RESIDENT})}
Groups ==
  {Scenario(Pair, {}, Pageable, 24, 1, {Fast, Slow, Spread, Skewed, Jumpy, Zero}, {CUDA_RESIDENT_GRAPH}),
   Scenario(All, {}, Pageable, 10, 1, {Fast, Slow, Jumpy, Zero}, {HostOrigin("pageable")}),
   Scenario(Pair, {}, Both, 10, 1, {Fast, Slow, Spread, Jumpy}, {HostOrigin("pinned")}),
   Scenario(All, {}, Both, 12, 1, {Fast, Slow}, {HostOrigin("pinned")}),
   Scenario(All, GpuOrigin, Pageable, 14, 1, {Fast, Slow}, {CudaGpuOrigin("pageable")}),
   Scenario(Pair, GpuOrigin, Both, 18, 1, {Fast, Slow}, {CudaGpuOrigin("pinned")})}

\* Every path, with processes that may answer for something else.
Faulty ==
  {[Scenario(All, GpuOrigin, Both, 10, 1, {Fast}, {CUDA_RESIDENT}) EXCEPT !.faulty = TRUE, !.k1 = k1] :
     k1 \in K1_VARIANTS}

Refused ==
  {Scenario(Pair, {"somewhere"}, Pageable, 24, 1, {Fast}, {CUDA_RESIDENT}),
   Scenario(Pair, {}, {"pinned"}, 24, 1, {Fast}, {CUDA_RESIDENT}),
   Scenario({"cpu"}, GpuOrigin, Pageable, 24, 1, {Fast}, {CUDA_RESIDENT}),
   Scenario({"cuda"}, {}, Pageable, 24, 1, {Fast}, {CUDA_RESIDENT}),
   Scenario(Pair, {}, Pageable, 0, 1, {Fast}, {CUDA_RESIDENT}),
   Scenario(All, {}, Pageable, 24, 1, {Fast}, {CUDA_RESIDENT})}

\* A/B experiments on two cells, of which one, none or both lie in DRAM, a
\* size asked for twice, and designs that are no evidence.  The L2 cache holds
\* two values.
TheExperiment ==
  [kind |-> "k1-ab", counts |-> <<1, 3>>, bits |-> <<8>>, processes |-> DEFAULT_PROCESSES,
   dirty |-> FALSE, allowDirty |-> FALSE, pilot |-> FALSE, others |-> "default",
   l2Bytes |-> 2, probeBytes |-> {4, 8}, device |-> "d1"]
NoEvidence ==
  {[TheExperiment EXCEPT !.counts = <<3>>, !.processes = 3],
   [TheExperiment EXCEPT !.counts = <<3, 3>>, !.processes = 1, !.others = "changed"],
   [TheExperiment EXCEPT !.counts = <<3>>, !.dirty = TRUE],
   [TheExperiment EXCEPT !.counts = <<3>>, !.dirty = TRUE, !.allowDirty = TRUE],
   [TheExperiment EXCEPT !.counts = <<3>>, !.allowDirty = TRUE],
   [TheExperiment EXCEPT !.counts = <<3>>, !.pilot = TRUE],
   [TheExperiment EXCEPT !.counts = <<3>>, !.others = "changed"],
   [TheExperiment EXCEPT !.counts = <<3>>, !.probeBytes = {4}],
   [TheExperiment EXCEPT !.counts = <<3>>, !.device = "d2"],
   [TheExperiment EXCEPT !.counts = <<1>>],
   [TheExperiment EXCEPT !.counts = <<3>>, !.bits = <<4, 8>>],
   [TheExperiment EXCEPT !.kind = "k1-baseline"]}
MCDiffer == {[count |-> 3, bits |-> 4]}
MCK1Samples == {<<0, 0>>, <<2, 2>>, <<5>>}

Publications ==
  {[Scenario(Pair, GpuOrigin, Pageable, 6, 1, {Fast, Slow}, {CudaGpuOrigin("pageable")})
     EXCEPT !.after = NoEvidence],
   [Scenario(Pair, {}, Both, 10, 2, {Fast, Slow}, {HostOrigin("pinned"), CUDA_RESIDENT_GRAPH})
     EXCEPT !.after = {TheExperiment}]}

MCScenarios == Grids \cup Groups \cup Faulty \cup Refused \cup Publications

\* Three sizes, any of which may fail.
MCCrossover == {Scenario(Pair, {}, Pageable, 2, 3, {Fast, Slow}, {CUDA_RESIDENT})}
=============================================================================

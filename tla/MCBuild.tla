------------------------------- MODULE MCBuild -------------------------------
(* One source per list; three editions, one with other flags. *)
EXTENDS Build

CONSTANT OtherFlags \* the edition with other compiler flags

MCLists ==
  [native_host_sources |-> <<"quantizer">>, native_avx2_sources |-> <<"quantizer_avx2">>,
   native_cuda_sources |-> <<"quantizer_cuda">>, native_rng_sources |-> <<"rng_cuda">>,
   native_probe_sources |-> <<"stream_probe">>, test_cuda_api_sources |-> <<"test_cuda_api">>,
   test_codec_sources |-> <<"test_codec">>, test_quantizer_sources |-> <<"test_quantizer">>,
   test_avx2_sources |-> <<"test_quantizer_avx2", "quantizer_avx2", "quantizer">>,
   test_avx2_driver_sources |-> <<"test_quantizer_avx2">>,
   test_rng_cpu_sources |-> <<"test_rng_cpu">>, test_asan_probe_sources |-> <<"asan_overread">>]
MCJustFlags == [e \in Editions |-> IF e = OtherFlags THEN "f2" ELSE "f1"]

\* A CUDA sweep, a CPU-only one, and the publication's stream probe.
CudaSweep == FindBinary(TRUE)
CpuSweep == FindBinary(FALSE)
StreamProbe == QueryDeviceAttributes

\* Rebuilds of the shared binary, the chains that reuse a folder of objects,
\* the small programs, and two builds that overlap.
Case(want, first, second) ==
  [want |-> want, script |-> [b \in Builders |-> IF b = "b1" THEN first ELSE second]]
MCCases ==
  {Case(CudaSweep, <<"build-cpu", "build-cuda">>, <<>>),
   Case(CpuSweep, <<"build-cpu", "build-cuda">>, <<>>),
   Case(CudaSweep, <<"build-cuda", "build-cuda-fault">>, <<>>),
   Case(CpuSweep, <<"test-cpu-gcc-ubsan", "build-cpu">>, <<>>),
   Case(CpuSweep, <<"build-avx2-test">>, <<>>),
   Case(StreamProbe, <<"build-cuda-api-test", "build-rng">>, <<>>),
   Case(CpuSweep, <<"build-codec-test">>, <<>>),
   Case(CpuSweep, <<"build-quantizer-test", "build-rng-cpu-test">>, <<>>),
   Case(StreamProbe, <<"build-stream-probe">>, <<"build-stream-probe">>)}

\* A second build while the driver works.
MCRebuild == {Case(CudaSweep, <<"build-cuda", "build-cuda">>, <<>>)}
=============================================================================

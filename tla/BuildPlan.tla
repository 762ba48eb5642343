------------------------------ MODULE BuildPlan ------------------------------
(***************************************************************************)
(* The compiler commands of each native build recipe (native_build.py).    *)
(*                                                                         *)
(* A command has a tool, options, inputs and an output.  Its options are   *)
(* the justfile variables it expands, the value those variables have in    *)
(* the edition of the tree they are read from, and the defines and         *)
(* sanitizer switches native_build adds.  The spelling of the arguments is *)
(* left out.  A source or an object is named by its stem, as _object_path  *)
(* does.                                                                   *)
(***************************************************************************)
EXTENDS Sequences, SequencesExt, Naturals

CONSTANTS
  Editions,    \* contents the working tree may have
  Lists,       \* Lists[v]: the sources the justfile variable v lists
  JustFlags,   \* JustFlags[e]: the flag variables of the justfile of e
  Msvc         \* os.name == "nt"

SOURCE_LIST_VARIABLES ==
  {"native_host_sources", "native_avx2_sources", "native_cuda_sources",
   "native_rng_sources", "native_probe_sources", "test_cuda_api_sources",
   "test_codec_sources", "test_quantizer_sources", "test_avx2_sources",
   "test_avx2_driver_sources", "test_rng_cpu_sources", "test_asan_probe_sources"}

\* The targets of one compile-and-link command, or of one per source for AVX2:
\* recipe, sources, binary.
TEST_TARGETS ==
  << <<"build-codec-test", "test_codec_sources", "test_codec">>,
     <<"build-quantizer-test", "test_quantizer_sources", "test_quantizer">>,
     <<"build-avx2-test", "test_avx2_sources", "test_quantizer_avx2">>,
     <<"build-rng-cpu-test", "test_rng_cpu_sources", "test_rng_cpu">> >>

BUILD_RECIPES ==
  {"build-cpu", "build-cuda", "build-cuda-fault", "build-cuda-api-test",
   "build-stream-probe", "build-rng", "test-cpu-gcc-ubsan"}
  \cup {TEST_TARGETS[i][1] : i \in DOMAIN TEST_TARGETS}

\* The scalar comparator, the AVX2 comparator and the CUDA kernels are each in
\* one of the lists of the justfile.
ASSUME PlanAssumption ==
  /\ Lists \in [SOURCE_LIST_VARIABLES -> Seq(STRING)]
  /\ DOMAIN JustFlags = Editions
  /\ Msvc \in BOOLEAN
ASSUME ListsAssumption ==
  LET Listed(list) == Range(Lists[list])
  IN  /\ "quantizer" \in Listed("native_host_sources")
            \ (Listed("native_avx2_sources") \cup Listed("native_cuda_sources"))
      /\ "quantizer_avx2" \in Listed("native_avx2_sources")
            \ (Listed("native_host_sources") \cup Listed("native_cuda_sources"))
      /\ "quantizer_cuda" \in Listed("native_cuda_sources")
            \ (Listed("native_host_sources") \cup Listed("native_avx2_sources"))

-----------------------------------------------------------------------------
(* Files and commands *)

File(dir, stem, ext) == [dir |-> dir, stem |-> stem, ext |-> ext]
Src(s) == File("src", s, "")
Bin(n) == File("build", n, "")
ObjectPath(group, s, ext) == File(group, s, ext)
Extension(gcc) == IF Msvc /\ ~gcc THEN "obj" ELSE "o"

Compiler(gcc) == IF gcc THEN "gcc" ELSE IF Msvc THEN "cl.exe" ELSE "cc"

Options(e, vars, extra) == [vars |-> vars, just |-> JustFlags[e], extra |-> extra]
Command(tool, opts, ins, out) == [tool |-> tool, opts |-> opts, ins |-> ins, out |-> out]

\* The host and the test compilers take their flags from one of two families.
Family(gcc, cl, cc) == IF Msvc /\ ~gcc THEN cl ELSE cc
HostVars(gcc) == Family(gcc, {"cl_host_flags", "cl_includes"}, {"cc_host_flags", "cc_includes"})
AvxVars(gcc) == Family(gcc, {"avx2_cl_flags"}, {"avx2_cc_flags"})
TestVars(gcc) == Family(gcc, {"cl_test_flags", "cl_includes"}, {"cc_strict_flags", "cc_includes"})

\* One object per source of a list, in the folder of its group.
Objects(sources, group, ext) ==
  [i \in DOMAIN sources |-> ObjectPath(group, sources[i], ext)]
CompileObjects(sources, group, tool, opts, ext) ==
  [i \in DOMAIN sources |->
     Command(tool, opts, <<Src(sources[i])>>, ObjectPath(group, sources[i], ext))]
Sources(list) == [i \in DOMAIN Lists[list] |-> Src(Lists[list][i])]

NvccVars == {"nvcc_flags", "nvcc_fp_flags", "nvcc_warn_flags"}
NvccLink(e, objects, name) == <<Command("nvcc", Options(e, {"nvcc_flags"}, {}), objects, Bin(name))>>

-----------------------------------------------------------------------------
(* One plan per recipe: its commands and the binary of its stamp *)

CpuPlan(e, gcc, sanitizer, name) ==
  LET host == Lists["native_host_sources"]
      avx2 == Lists["native_avx2_sources"]
      ext == Extension(gcc)
  IN  CompileObjects(host, "cpu", Compiler(gcc), Options(e, HostVars(gcc), sanitizer), ext)
      \o CompileObjects(avx2, "cpu", Compiler(gcc), Options(e, AvxVars(gcc), sanitizer), ext)
      \o <<Command(Compiler(gcc), Options(e, {}, sanitizer),
                   Objects(host, "cpu", ext) \o Objects(avx2, "cpu", ext), Bin(name))>>

CudaPlan(e) ==
  LET host == Lists["native_host_sources"]
      avx2 == Lists["native_avx2_sources"]
      cuda == Lists["native_cuda_sources"]
      ext == Extension(FALSE)
  IN  CompileObjects(host, "cuda", Compiler(FALSE),
                     Options(e, HostVars(FALSE), {"SQ_ENABLE_CUDA"}), ext)
      \o CompileObjects(avx2, "cuda", Compiler(FALSE), Options(e, AvxVars(FALSE), {}), ext)
      \o CompileObjects(cuda, "cuda", "nvcc", Options(e, NvccVars, {}), ext)
      \o NvccLink(e, Objects(host \o avx2 \o cuda, "cuda", ext), "stoquant")

\* The host and AVX2 objects are those an earlier build-cuda left behind.
TEST_ONLY_DEFINES == {"SQ_CUDA_FAULT_INJECTION", "SQ_CUDA_BUFFER_INSPECTION"}
CudaFaultPlan(e) ==
  LET ext == Extension(FALSE)
      fault == IF ext = "obj" THEN "fault_obj" ELSE "fault_o"
      cuda == Lists["native_cuda_sources"]
  IN  CompileObjects(cuda, "cuda", "nvcc", Options(e, NvccVars, TEST_ONLY_DEFINES), fault)
      \o NvccLink(e, Objects(Lists["native_host_sources"] \o Lists["native_avx2_sources"], "cuda", ext)
                     \o Objects(cuda, "cuda", fault), "stoquant_fault")

CudaApiTestPlan(e) ==
  <<Command("nvcc", Options(e, NvccVars, {}),
            Sources("test_cuda_api_sources") \o Sources("native_cuda_sources"),
            Bin("test_cuda_api"))>>

NvccProgram(e, list, name) ==
  <<Command("nvcc", Options(e, {"nvcc_flags", "nvcc_warn_flags"}, {}), Sources(list), Bin(name))>>
ProbePlan(e) == NvccProgram(e, "native_probe_sources", "stream_probe")
RngPlan(e) == NvccProgram(e, "native_rng_sources", "test_rng")

\* The AVX2 test is compiled source by source, each with the flags of the list
\* it is in; the others by one command.
Avx2TestOptions(e, s, gcc, extra) ==
  IF s \in Range(Lists["native_avx2_sources"]) THEN Options(e, AvxVars(gcc), extra)
  ELSE IF s \in Range(Lists["test_avx2_driver_sources"]) THEN Options(e, TestVars(gcc), extra)
  ELSE Options(e, HostVars(gcc), Family(gcc, extra, extra \cup {"-fopenmp"}))
TestPlan(e, target, gcc, extra, name) ==
  LET list == Lists[target[2]]
      ext == Extension(gcc)
  IN  IF target[1] # "build-avx2-test"
      THEN <<Command(Compiler(gcc), Options(e, TestVars(gcc), extra), Sources(target[2]), Bin(name))>>
      ELSE [i \in DOMAIN list |->
              Command(Compiler(gcc), Avx2TestOptions(e, list[i], gcc, extra), <<Src(list[i])>>,
                      ObjectPath("test-avx2", list[i], ext))]
           \o <<Command(Compiler(gcc), Options(e, {}, extra), Objects(list, "test-avx2", ext), Bin(name))>>

Sanitizer == {"-fsanitize=undefined", "-fno-sanitize-recover=all"}
UbsanTests == <<"test_codec_ubsan", "test_quantizer_ubsan", "test_quantizer_avx2_ubsan",
                "test_rng_cpu_ubsan">>
UbsanTest(e, i) == TestPlan(e, TEST_TARGETS[i], TRUE, Sanitizer, UbsanTests[i])
UbsanPlan(e) ==
  CpuPlan(e, TRUE, Sanitizer, "stoquant_gcc_ubsan")
  \o UbsanTest(e, 1) \o UbsanTest(e, 2) \o UbsanTest(e, 3) \o UbsanTest(e, 4)

\* The AddressSanitizer suite: five programs, of which four are run as tests
\* and the last must be caught reading out of bounds.
AsanTargets ==
  << <<"test_codec_sources", "test_codec_asan", {}>>,
     <<"test_quantizer_sources", "test_quantizer_asan", {}>>,
     <<"test_avx2_sources", "test_quantizer_avx2_asan", {"/arch:AVX2", "/openmp"}>>,
     <<"test_rng_cpu_sources", "test_rng_cpu_asan", {}>>,
     <<"test_asan_probe_sources", "asan_overread_probe", {}>> >>
AsanPlan(e) ==
  [i \in DOMAIN AsanTargets |->
     Command("cl.exe",
             Options(e, {"cl_asan_flags"} \cup (IF i < 5 THEN {"cl_includes"} ELSE {}), AsanTargets[i][3]),
             Sources(AsanTargets[i][1]), Bin(AsanTargets[i][2]))]

\* What recipe_commands reconstructs, for the stamp and for its verification.
TargetOf(recipe) == CHOOSE t \in Range(TEST_TARGETS) : t[1] = recipe
CommandPlan(e, recipe) ==
  CASE recipe = "build-cpu" -> CpuPlan(e, FALSE, {}, "stoquant")
    [] recipe = "build-cuda" -> CudaPlan(e)
    [] recipe = "build-cuda-fault" -> CudaPlan(e) \o CudaFaultPlan(e)
    [] recipe = "build-cuda-api-test" -> CudaApiTestPlan(e)
    [] recipe = "build-stream-probe" -> ProbePlan(e)
    [] recipe = "build-rng" -> RngPlan(e)
    [] recipe = "test-cpu-gcc-ubsan" -> UbsanPlan(e)
    [] OTHER -> TestPlan(e, TargetOf(recipe), FALSE, {}, TargetOf(recipe)[3])

\* What build runs: the fault build only its own part, the suites their tests
\* after their programs.  A test run is a command without an output.
NoOutput == File("", "", "")
RunTests(names) == [i \in DOMAIN names |-> Command("run", "", <<Bin(names[i])>>, NoOutput)]
Work(e, recipe) ==
  CASE recipe = "build-cuda-fault" -> CudaFaultPlan(e)
    [] recipe = "test-cpu-gcc-ubsan" -> UbsanPlan(e) \o RunTests(UbsanTests)
    [] recipe = "test-cpu-asan" -> AsanPlan(e) \o RunTests([i \in DOMAIN AsanTargets |-> AsanTargets[i][2]])
    [] OTHER -> CommandPlan(e, recipe)
Stamped(recipe) == recipe \notin {"test-cpu-gcc-ubsan", "test-cpu-asan"}
Output(work) == Last(work).out

-----------------------------------------------------------------------------
(* What a command makes: its output records how it was made and of what. *)

Part(input, e, files) ==
  IF input.dir = "src" THEN [source |-> input.stem, edition |-> e] ELSE files[input]
Content(c, e, files) ==
  [tool |-> c.tool, opts |-> c.opts, parts |-> [i \in DOMAIN c.ins |-> Part(c.ins[i], e, files)]]
InputsPresent(c, files) == \A i \in DOMAIN c.ins : c.ins[i].dir = "src" \/ c.ins[i] \in DOMAIN files

With(files, f, content) == [g \in DOMAIN files \cup {f} |-> IF g = f THEN content ELSE files[g]]
Without(files, f) == [g \in DOMAIN files \ {f} |-> files[g]]

\* The reference: all commands of the recipe's plan, in an empty build folder,
\* on a tree that stays as it is.
NoFiles == [f \in {} |-> f]
Built(e, plan) ==
  LET built[n \in 0..Len(plan)] ==
        IF n = 0 THEN NoFiles
        ELSE With(built[n - 1], plan[n].out, Content(plan[n], e, built[n - 1]))
  IN  built
Expected(e, recipe) ==
  LET plan == CommandPlan(e, recipe) IN Built(e, plan)[Len(plan)][Last(plan).out]

\* A program without the editions of its sources and of the justfile.
ShapeOf(part) ==
  IF "source" \in DOMAIN part THEN [source |-> part.source]
  ELSE [tool |-> part.tool, vars |-> part.opts.vars, extra |-> part.opts.extra,
        parts |-> [i \in DOMAIN part.parts |-> part.parts[i].source]]
Shape(content) ==
  [tool |-> content.tool, vars |-> content.opts.vars, extra |-> content.opts.extra,
   parts |-> [i \in DOMAIN content.parts |-> ShapeOf(content.parts[i])]]

-----------------------------------------------------------------------------
(* provenance.parse_build_commands: the flags a report gives for the scalar
   comparator, the AVX2 comparator and the CUDA kernels *)

IsCompile(c) == c.out.dir # "build"
Compiles(c, tools, stems) ==
  IsCompile(c) /\ c.tool \in tools /\ \E i \in DOMAIN c.ins : c.ins[i].stem \in stems
HostTools == {"cl.exe", "gcc", "cc"}
\* The host compilations of source s, and all of nvcc.
HostCompiles(commands, s) == {j \in DOMAIN commands : Compiles(commands[j], HostTools, {s})}
NvccCompiles(commands) == {j \in DOMAIN commands : IsCompile(commands[j]) /\ commands[j].tool = "nvcc"}
\* The options of the first of the commands that match.
FirstOptions(commands, matching) ==
  {commands[i].opts : i \in {j \in matching : \A k \in 1..(j - 1) : k \notin matching}}
ParseBuildCommandsAnySource(commands) ==
  [comparator |-> FirstOptions(commands, HostCompiles(commands, "quantizer")),
   avx2 |-> FirstOptions(commands, {j \in DOMAIN commands :
                                      IsCompile(commands[j]) /\ commands[j].tool \in HostTools}),
   cuda |-> FirstOptions(commands, NvccCompiles(commands))]
ParseBuildCommands(commands) ==
  [comparator |-> FirstOptions(commands, HostCompiles(commands, "quantizer")),
   avx2 |-> FirstOptions(commands, HostCompiles(commands, "quantizer_avx2")),
   cuda |-> FirstOptions(commands, NvccCompiles(commands))]
=============================================================================

----------------------------- MODULE BuildProofs -----------------------------
(***************************************************************************)
(* Builds, stamps and drivers, for any source lists, any flags in the      *)
(* justfile of any edition, any number of builders, any scripts and any    *)
(* number of edits: an accepted binary is what its recipe makes of the     *)
(* recorded tree, the reported flags are those of its objects, and no      *)
(* undisturbed build is refused.                                           *)
(***************************************************************************)
EXTENDS Build, SequenceTheorems, WellFoundedInduction, NaturalsInduction, TLAPS

-----------------------------------------------------------------------------
(* The plans *)

ObjectDirs == {"cpu", "cuda", "test-avx2"}
Exts == {"", "o", "obj", "fault_o", "fault_obj"}
Programs == {"stoquant", "stoquant_fault", "test_cuda_api", "stream_probe", "test_rng",
             "test_codec", "test_quantizer", "test_quantizer_avx2", "test_rng_cpu"}
SuitePrograms ==
  {"stoquant_gcc_ubsan", "test_codec_ubsan", "test_quantizer_ubsan", "test_quantizer_avx2_ubsan",
   "test_rng_cpu_ubsan", "test_codec_asan", "test_quantizer_asan", "test_quantizer_avx2_asan",
   "test_rng_cpu_asan", "asan_overread_probe"}
Files == [dir : ObjectDirs \cup {"src", "build", ""},
          stem : STRING \cup Programs \cup SuitePrograms \cup {""}, ext : Exts]
Tools == {"gcc", "cl.exe", "cc", "nvcc"}
VarNames == {"cl_host_flags", "cl_includes", "cc_host_flags", "cc_includes", "avx2_cl_flags",
             "avx2_cc_flags", "cl_test_flags", "cc_strict_flags", "nvcc_flags", "nvcc_fp_flags",
             "nvcc_warn_flags", "cl_asan_flags"}
ExtraNames == {"SQ_ENABLE_CUDA", "SQ_CUDA_FAULT_INJECTION", "SQ_CUDA_BUFFER_INSPECTION",
               "-fopenmp", "-fsanitize=undefined", "-fno-sanitize-recover=all", "/arch:AVX2", "/openmp"}
OptionSet == [vars : SUBSET VarNames, just : Range(JustFlags), extra : SUBSET ExtraNames]
Commands == [tool : Tools \cup {"run"}, opts : OptionSet \cup {""}, ins : Seq(Files), out : Files]

\* A command that makes an object of one source.
Compilations ==
  {c \in Commands : c.tool \in Tools /\ c.opts \in OptionSet
                    /\ c.out.dir \in ObjectDirs /\ c.ins = <<Src(c.out.stem)>>}

LEMMA CompileObjectsPlan ==
  ASSUME NEW sources \in Seq(STRING), NEW group \in ObjectDirs, NEW tool \in Tools,
         NEW opts \in OptionSet, NEW ext \in Exts
  PROVE  LET plan == CompileObjects(sources, group, tool, opts, ext)
         IN  /\ plan \in Seq(Compilations)
             /\ Len(plan) = Len(sources)
             /\ \A i \in 1..Len(sources) :
                  /\ plan[i].tool = tool /\ plan[i].opts = opts
                  /\ plan[i].ins = <<Src(sources[i])>> /\ plan[i].out = File(group, sources[i], ext)
<1> DEFINE plan == CompileObjects(sources, group, tool, opts, ext)
           n == Len(sources)
<1>1. /\ n \in Nat /\ DOMAIN sources = 1..n
      /\ \A i \in 1..n : sources[i] \in STRING
  OBVIOUS
<1>2. plan = [i \in 1..n |-> [tool |-> tool, opts |-> opts, ins |-> <<Src(sources[i])>>,
                              out |-> File(group, sources[i], ext)]]
  BY <1>1 DEF CompileObjects, Command, ObjectPath
<1>3. ASSUME NEW i \in 1..n
      PROVE  [tool |-> tool, opts |-> opts, ins |-> <<Src(sources[i])>>,
              out |-> File(group, sources[i], ext)] \in Compilations
  <2> DEFINE s == sources[i]
  <2>1. s \in STRING
    BY <1>1
  <2> HIDE DEF s
  <2>2. Src(s) \in Files /\ File(group, s, ext) \in Files
    BY <2>1 DEF Src, File, Files, Exts
  <2>3. <<Src(s)>> \in Seq(Files)
    BY <2>2
  <2> QED
    BY <2>2, <2>3 DEF Compilations, Commands, File, s
<1> HIDE DEF plan, n
<1>4. plan \in [1..n -> Compilations]
  BY <1>2, <1>3
<1>5. plan \in Seq(Compilations) /\ Len(plan) = n
  BY <1>1, <1>4
<1>6. \A i \in 1..n : /\ plan[i].tool = tool /\ plan[i].opts = opts
                     /\ plan[i].ins = <<Src(sources[i])>> /\ plan[i].out = File(group, sources[i], ext)
  BY <1>2
<1> QED
  BY <1>5, <1>6 DEF plan, n

\* Two commands, or two plans, that differ at most in the edition whose flags
\* they expand.
AlikeCommands(c, d) ==
  /\ c.tool = d.tool /\ c.ins = d.ins /\ c.out = d.out
  /\ c.opts.vars = d.opts.vars /\ c.opts.extra = d.opts.extra
Alike(P, Q) == Len(P) = Len(Q) /\ \A j \in 1..Len(P) : AlikeCommands(P[j], Q[j])
Clean(P) == \A j \in 1..Len(P) : P[j].opts.extra \cap TEST_ONLY_DEFINES = {}
Outs(P) == {P[j].out : j \in 1..Len(P)}

\* The objects of one plan in two editions.
Pair(P, Q) == P \in Seq(Compilations) /\ Q \in Seq(Compilations) /\ Alike(P, Q)

LEMMA PairConcat ==
  ASSUME NEW P, NEW Q, NEW R, NEW S, Pair(P, Q), Pair(R, S)
  PROVE  /\ Pair(P \o R, Q \o S)
         /\ Clean(P) /\ Clean(R) => Clean(P \o R)
         /\ Outs(P \o R) = Outs(P) \cup Outs(R)
<1>1. \A u, v \in Seq(Compilations) :
        /\ u \o v \in Seq(Compilations) /\ Len(u \o v) = Len(u) + Len(v)
        /\ \A j \in 1..(Len(u) + Len(v)) : (u \o v)[j] = IF j <= Len(u) THEN u[j] ELSE v[j - Len(u)]
  OBVIOUS
<1>2. /\ P \in Seq(Compilations) /\ Q \in Seq(Compilations)
      /\ R \in Seq(Compilations) /\ S \in Seq(Compilations)
      /\ Len(P) \in Nat /\ Len(R) \in Nat /\ Len(Q) = Len(P) /\ Len(S) = Len(R)
  BY DEF Pair, Alike
<1>3. /\ P \o R \in Seq(Compilations) /\ Len(P \o R) = Len(P) + Len(R)
      /\ \A j \in 1..(Len(P) + Len(R)) : (P \o R)[j] = IF j <= Len(P) THEN P[j] ELSE R[j - Len(P)]
  BY <1>1, <1>2, Zenon
<1>4. /\ Q \o S \in Seq(Compilations) /\ Len(Q \o S) = Len(Q) + Len(S)
      /\ \A j \in 1..(Len(Q) + Len(S)) : (Q \o S)[j] = IF j <= Len(Q) THEN Q[j] ELSE S[j - Len(Q)]
  BY <1>1, <1>2, Zenon
<1>5. /\ \A j \in 1..Len(P) : AlikeCommands(P[j], Q[j])
      /\ \A j \in 1..Len(R) : AlikeCommands(R[j], S[j])
  BY DEF Pair, Alike
<1> DEFINE PR == P \o R
           QS == Q \o S
<1> HIDE DEF PR, QS
<1>6. /\ PR \in Seq(Compilations) /\ Len(PR) = Len(P) + Len(R)
      /\ \A j \in 1..(Len(P) + Len(R)) : PR[j] = IF j <= Len(P) THEN P[j] ELSE R[j - Len(P)]
  BY <1>3 DEF PR
<1>7. /\ QS \in Seq(Compilations) /\ Len(QS) = Len(P) + Len(R)
      /\ \A j \in 1..(Len(P) + Len(R)) : QS[j] = IF j <= Len(P) THEN Q[j] ELSE S[j - Len(P)]
  BY <1>2, <1>4 DEF QS
<1>8. ASSUME NEW j \in 1..(Len(P) + Len(R)), ~(j <= Len(P)) PROVE j - Len(P) \in 1..Len(R)
  BY <1>2, <1>8
<1>9. Pair(PR, QS)
  <2>1. \A j \in 1..(Len(P) + Len(R)) : AlikeCommands(PR[j], QS[j])
    <3> SUFFICES ASSUME NEW j \in 1..(Len(P) + Len(R)) PROVE AlikeCommands(PR[j], QS[j])
      OBVIOUS
    <3>1. CASE j <= Len(P)
      BY <1>2, <1>5, <1>6, <1>7, <3>1
    <3>2. CASE ~(j <= Len(P))
      BY <1>2, <1>5, <1>6, <1>7, <1>8, <3>2
    <3> QED
      BY <3>1, <3>2
  <2> QED
    BY <1>6, <1>7, <2>1 DEF Pair, Alike
<1>10. ASSUME Clean(P), Clean(R) PROVE Clean(PR)
  <2> SUFFICES ASSUME NEW j \in 1..(Len(P) + Len(R))
               PROVE  PR[j].opts.extra \cap TEST_ONLY_DEFINES = {}
    BY <1>6 DEF Clean
  <2>1. CASE j <= Len(P)
    BY <1>2, <1>6, <1>10, <2>1 DEF Clean
  <2>2. CASE ~(j <= Len(P))
    BY <1>2, <1>6, <1>8, <1>10, <2>2 DEF Clean
  <2> QED
    BY <2>1, <2>2
<1>11. Outs(PR) \subseteq Outs(P) \cup Outs(R)
  <2> SUFFICES ASSUME NEW j \in 1..(Len(P) + Len(R)) PROVE PR[j].out \in Outs(P) \cup Outs(R)
    BY <1>6 DEF Outs
  <2>1. CASE j <= Len(P)
    BY <1>2, <1>6, <2>1 DEF Outs
  <2>2. CASE ~(j <= Len(P))
    BY <1>2, <1>6, <1>8, <2>2 DEF Outs
  <2> QED
    BY <2>1, <2>2
<1>12. Outs(P) \subseteq Outs(PR)
  <2> SUFFICES ASSUME NEW j \in 1..Len(P) PROVE P[j].out \in Outs(PR)
    BY DEF Outs
  <2>1. j \in 1..(Len(P) + Len(R)) /\ PR[j] = P[j]
    BY <1>2, <1>6
  <2> QED
    BY <1>6, <2>1 DEF Outs
<1>13. Outs(R) \subseteq Outs(PR)
  <2> SUFFICES ASSUME NEW j \in 1..Len(R) PROVE R[j].out \in Outs(PR)
    BY DEF Outs
  <2>1. j + Len(P) \in 1..(Len(P) + Len(R)) /\ ~(j + Len(P) <= Len(P)) /\ (j + Len(P)) - Len(P) = j
    BY <1>2
  <2>2. PR[j + Len(P)] = R[j]
    BY <1>6, <2>1
  <2> QED
    BY <1>6, <2>1, <2>2 DEF Outs
<1> QED
  BY <1>9, <1>10, <1>11, <1>12, <1>13 DEF PR, QS

\* A plan that makes objects, each of one source, and then one binary.
Outline(P, name) ==
  /\ P \in Seq(Commands) /\ Len(P) > 0
  /\ \A j \in 1..(Len(P) - 1) : P[j] \in Compilations
  /\ P[Len(P)].tool \in Tools /\ P[Len(P)].opts \in OptionSet /\ P[Len(P)].out = Bin(name)
\* The binary consists of sources and of these objects.
Linked(P, name) ==
  /\ Outline(P, name)
  /\ \A i \in DOMAIN P[Len(P)].ins :
       \/ P[Len(P)].ins[i].dir = "src"
       \/ \E j \in 1..(Len(P) - 1) : P[j].out = P[Len(P)].ins[i]

\* A command that makes a binary, in two editions.
Links(c, d, name) ==
  /\ c \in Commands /\ d \in Commands /\ AlikeCommands(c, d)
  /\ c.tool \in Tools /\ c.opts \in OptionSet /\ c.out = Bin(name)

LEMMA LinkPlan ==
  ASSUME NEW P, NEW Q, NEW c, NEW d, NEW name, Pair(P, Q), Links(c, d, name)
  PROVE  /\ Outline(P \o <<c>>, name)
         /\ (\A i \in DOMAIN c.ins : c.ins[i].dir = "src" \/ c.ins[i] \in Outs(P))
              => Linked(P \o <<c>>, name)
         /\ Alike(P \o <<c>>, Q \o <<d>>)
         /\ Clean(P) /\ c.opts.extra \cap TEST_ONLY_DEFINES = {} => Clean(P \o <<c>>)
         /\ Len(P \o <<c>>) = Len(P) + 1
         /\ \A j \in 1..Len(P) : (P \o <<c>>)[j] = P[j]
         /\ (P \o <<c>>)[Len(P) + 1] = c
<1>1. \A u \in Seq(Commands) : \A x \in Commands :
        /\ u \o <<x>> \in Seq(Commands) /\ Len(u \o <<x>>) = Len(u) + 1
        /\ \A j \in 1..Len(u) : (u \o <<x>>)[j] = u[j]
        /\ (u \o <<x>>)[Len(u) + 1] = x
  OBVIOUS
<1>2. /\ P \in Seq(Compilations) /\ Q \in Seq(Compilations) /\ Len(P) \in Nat /\ Len(Q) = Len(P)
      /\ c \in Commands /\ d \in Commands
  BY DEF Pair, Alike, Links
<1>3. P \in Seq(Commands) /\ Q \in Seq(Commands)
  BY <1>2 DEF Compilations
<1> DEFINE Pc == P \o <<c>>
           Qd == Q \o <<d>>
<1>4. /\ Pc \in Seq(Commands) /\ Len(Pc) = Len(P) + 1
      /\ \A j \in 1..Len(P) : Pc[j] = P[j]
      /\ Pc[Len(P) + 1] = c
  BY <1>1, <1>2, <1>3, Zenon
<1>5. /\ Qd \in Seq(Commands) /\ Len(Qd) = Len(P) + 1
      /\ \A j \in 1..Len(P) : Qd[j] = Q[j]
      /\ Qd[Len(P) + 1] = d
  <2>1. /\ Qd \in Seq(Commands) /\ Len(Qd) = Len(Q) + 1
        /\ \A j \in 1..Len(Q) : Qd[j] = Q[j]
        /\ Qd[Len(Q) + 1] = d
    BY <1>1, <1>2, <1>3, Zenon
  <2> HIDE DEF Qd
  <2> QED
    BY <1>2, <2>1
<1> HIDE DEF Pc, Qd
<1>6. Len(Pc) - 1 = Len(P) /\ Len(Pc) > 0
  BY <1>2, <1>4
<1>7. \A j \in 1..Len(P) : P[j] \in Compilations
  BY <1>2
<1>8. Outline(Pc, name)
  <2>1. c.tool \in Tools /\ c.opts \in OptionSet /\ c.out = Bin(name)
    BY DEF Links
  <2> QED
    BY <1>4, <1>6, <1>7, <2>1 DEF Outline
<1>9. ASSUME \A i \in DOMAIN c.ins : c.ins[i].dir = "src" \/ c.ins[i] \in Outs(P)
      PROVE  Linked(Pc, name)
  <2>1. \A i \in DOMAIN c.ins : c.ins[i].dir = "src" \/ \E j \in 1..Len(P) : P[j].out = c.ins[i]
    BY <1>9 DEF Outs
  <2>2. \A i \in DOMAIN c.ins : c.ins[i].dir = "src" \/ \E j \in 1..Len(P) : Pc[j].out = c.ins[i]
    BY <1>4, <2>1
  <2> QED
    BY <1>4, <1>6, <1>8, <2>2 DEF Linked
<1>10. \A j \in 1..Len(Pc) : j \in 1..Len(P) \/ j = Len(P) + 1
  BY <1>2, <1>4
<1>11. Alike(Pc, Qd)
  <2>1. AlikeCommands(c, d) /\ \A j \in 1..Len(P) : AlikeCommands(P[j], Q[j])
    BY DEF Pair, Alike, Links
  <2>2. \A j \in 1..Len(Pc) : AlikeCommands(Pc[j], Qd[j])
    BY <1>4, <1>5, <1>10, <2>1
  <2> QED
    BY <1>4, <1>5, <2>2 DEF Alike
<1>12. ASSUME Clean(P), c.opts.extra \cap TEST_ONLY_DEFINES = {} PROVE Clean(Pc)
  BY <1>4, <1>10, <1>12 DEF Clean
<1> QED
  BY <1>4, <1>8, <1>9, <1>11, <1>12 DEF Pc, Qd

\* One compiler call that makes a binary of sources.
LEMMA OneCommand ==
  ASSUME NEW c, NEW d, NEW name, Links(c, d, name), \A i \in DOMAIN c.ins : c.ins[i].dir = "src"
  PROVE  /\ Linked(<<c>>, name) /\ Alike(<<c>>, <<d>>)
         /\ c.opts.extra \cap TEST_ONLY_DEFINES = {} => Clean(<<c>>)
<1>1. c \in Commands /\ d \in Commands
  BY DEF Links
<1> DEFINE P == <<c>>
           Q == <<d>>
<1>2. P \in Seq(Commands) /\ Len(P) = 1 /\ P[1] = c /\ Len(Q) = 1 /\ Q[1] = d
  BY <1>1
<1> HIDE DEF P, Q
<1>3. Linked(P, name)
  <2>1. c.tool \in Tools /\ c.opts \in OptionSet /\ c.out = Bin(name)
    BY DEF Links
  <2>2. P[Len(P)] = c /\ Len(P) > 0 /\ 1..(Len(P) - 1) = {}
    BY <1>2
  <2> QED
    BY <1>2, <2>1, <2>2 DEF Linked, Outline
<1>4. \A j \in 1..1 : j = 1
  OBVIOUS
<1>5. Alike(P, Q)
  BY <1>2, <1>4 DEF Alike, Links
<1>6. c.opts.extra \cap TEST_ONLY_DEFINES = {} => Clean(P)
  BY <1>2, <1>4 DEF Clean
<1> QED
  BY <1>3, <1>5, <1>6 DEF P, Q

\* The objects of a list, with the flags of edition x.
Compiled(x, sources, group, tool, vs, extra, ext) ==
  CompileObjects(sources, group, tool, Options(x, vs, extra), ext)

ObjectFiles(sources, group, ext) == {File(group, s, ext) : s \in Range(sources)}

LEMMA CompiledPair ==
  ASSUME NEW e \in Editions, NEW f \in Editions, NEW sources \in Seq(STRING),
         NEW group \in ObjectDirs, NEW tool \in Tools, NEW vs \in SUBSET VarNames,
         NEW extra \in SUBSET ExtraNames, NEW ext \in Exts
  PROVE  /\ Pair(Compiled(e, sources, group, tool, vs, extra, ext),
                 Compiled(f, sources, group, tool, vs, extra, ext))
         /\ extra \cap TEST_ONLY_DEFINES = {}
              => Clean(Compiled(e, sources, group, tool, vs, extra, ext))
         /\ Outs(Compiled(e, sources, group, tool, vs, extra, ext))
              = ObjectFiles(sources, group, ext)
<1> DEFINE o == Options(e, vs, extra)
           p == Options(f, vs, extra)
           P == CompileObjects(sources, group, tool, o, ext)
           Q == CompileObjects(sources, group, tool, p, ext)
<1>1. o \in OptionSet /\ p \in OptionSet /\ o.vars = p.vars /\ o.extra = p.extra /\ o.extra = extra
  BY PlanAssumption DEF Options, OptionSet, Range
<1> HIDE DEF o, p
<1>2. /\ P \in Seq(Compilations)
      /\ Len(P) = Len(sources)
      /\ \A i \in 1..Len(sources) :
           /\ P[i].tool = tool /\ P[i].opts = o
           /\ P[i].ins = <<Src(sources[i])>> /\ P[i].out = File(group, sources[i], ext)
  BY <1>1, CompileObjectsPlan
<1>3. /\ Q \in Seq(Compilations)
      /\ Len(Q) = Len(sources)
      /\ \A i \in 1..Len(sources) :
           /\ Q[i].tool = tool /\ Q[i].opts = p
           /\ Q[i].ins = <<Src(sources[i])>> /\ Q[i].out = File(group, sources[i], ext)
  BY <1>1, CompileObjectsPlan
<1> HIDE DEF P, Q
<1>4. Pair(P, Q)
  <2>1. ASSUME NEW i \in 1..Len(sources) PROVE AlikeCommands(P[i], Q[i])
    BY <1>1, <1>2, <1>3 DEF AlikeCommands
  <2> QED
    BY <1>2, <1>3, <2>1 DEF Pair, Alike
<1>5. extra \cap TEST_ONLY_DEFINES = {} => Clean(P)
  BY <1>1, <1>2 DEF Clean
<1>6. Outs(P) = {File(group, s, ext) : s \in Range(sources)}
  <2>1. DOMAIN sources = 1..Len(sources)
    OBVIOUS
  <2>2. \A i \in 1..Len(sources) : P[i].out = File(group, sources[i], ext)
    BY <1>2
  <2>3. ASSUME NEW i \in 1..Len(P) PROVE P[i].out \in {File(group, s, ext) : s \in Range(sources)}
    BY <1>2, <2>1, <2>2 DEF Range
  <2>4. ASSUME NEW s \in Range(sources) PROVE File(group, s, ext) \in Outs(P)
    BY <1>2, <2>1, <2>2 DEF Range, Outs
  <2> QED
    BY <2>3, <2>4 DEF Outs
<1> QED
  BY <1>4, <1>5, <1>6 DEF P, Q, o, p, Compiled, ObjectFiles

\* A list of the justfile is a sequence of stems.
LEMMA ListsTyped ==
  ASSUME NEW list \in SOURCE_LIST_VARIABLES
  PROVE  /\ Lists[list] \in Seq(STRING)
         /\ Sources(list) \in Seq(Files)
         /\ \A i \in DOMAIN Sources(list) : Sources(list)[i].dir = "src"
<1>1. Lists[list] \in Seq(STRING)
  BY PlanAssumption
<1> DEFINE l == Lists[list]
<1>2. /\ DOMAIN l = 1..Len(l) /\ Len(l) \in Nat
      /\ \A i \in 1..Len(l) : l[i] \in STRING
  BY <1>1
<1>3. Sources(list) = [i \in 1..Len(l) |-> Src(l[i])]
  BY <1>2 DEF Sources
<1> HIDE DEF l
<1>4. \A i \in 1..Len(l) : Src(l[i]) \in Files /\ Src(l[i]).dir = "src"
  BY <1>2 DEF Src, File, Files, Exts
<1>5. Sources(list) \in [1..Len(l) -> Files]
  BY <1>3, <1>4
<1> QED
  BY <1>1, <1>2, <1>3, <1>4, <1>5

\* The sequence holds elements of X only.
Within(q, X) == q \in Seq(Files) /\ \A i \in DOMAIN q : q[i] \in X

LEMMA WithinConcat ==
  ASSUME NEW p, NEW q, NEW X, Within(p, X), Within(q, X)
  PROVE  Within(p \o q, X)
<1>1. \A u, v \in Seq(Files) :
        /\ u \o v \in Seq(Files) /\ DOMAIN (u \o v) = 1..(Len(u) + Len(v))
        /\ \A j \in 1..(Len(u) + Len(v)) : (u \o v)[j] = IF j <= Len(u) THEN u[j] ELSE v[j - Len(u)]
  OBVIOUS
<1>2. p \in Seq(Files) /\ q \in Seq(Files) /\ Len(p) \in Nat /\ Len(q) \in Nat
  BY DEF Within
<1> DEFINE r == p \o q
<1>3. /\ r \in Seq(Files) /\ DOMAIN r = 1..(Len(p) + Len(q))
      /\ \A j \in 1..(Len(p) + Len(q)) : r[j] = IF j <= Len(p) THEN p[j] ELSE q[j - Len(p)]
  BY <1>1, <1>2, Zenon
<1> HIDE DEF r
<1>4. /\ \A i \in 1..Len(p) : p[i] \in X
      /\ \A i \in 1..Len(q) : q[i] \in X
  BY <1>2 DEF Within
<1>5. ASSUME NEW j \in 1..(Len(p) + Len(q)) PROVE r[j] \in X
  <2>1. CASE j <= Len(p)
    BY <1>2, <1>3, <1>4, <2>1
  <2>2. CASE ~(j <= Len(p))
    <3>1. j - Len(p) \in 1..Len(q)
      BY <1>2, <2>2
    <3> QED
      BY <1>3, <1>4, <2>2, <3>1
  <2> QED
    BY <2>1, <2>2
<1> QED
  BY <1>3, <1>5 DEF Within, r

LEMMA ObjectsWithin ==
  ASSUME NEW sources \in Seq(STRING), NEW group \in ObjectDirs, NEW ext \in Exts, NEW X,
         ObjectFiles(sources, group, ext) \subseteq X
  PROVE  Within(Objects(sources, group, ext), X)
<1> DEFINE n == Len(sources)
<1>1. /\ n \in Nat /\ DOMAIN sources = 1..n
      /\ \A i \in 1..n : sources[i] \in STRING /\ sources[i] \in Range(sources)
  BY DEF Range
<1>2. Objects(sources, group, ext) = [i \in 1..n |-> File(group, sources[i], ext)]
  BY <1>1 DEF Objects, ObjectPath
<1> HIDE DEF n
<1>3. \A i \in 1..n : File(group, sources[i], ext) \in Files /\ File(group, sources[i], ext) \in X
  BY <1>1 DEF File, Files, ObjectFiles
<1>4. Objects(sources, group, ext) \in [1..n -> Files]
  BY <1>2, <1>3
<1>5. Objects(sources, group, ext) \in Seq(Files)
  BY <1>1, <1>4
<1> QED
  BY <1>2, <1>3, <1>5 DEF Within

LEMMA StemsConcat ==
  ASSUME NEW p \in Seq(STRING), NEW q \in Seq(STRING)
  PROVE  p \o q \in Seq(STRING) /\ Range(p \o q) \subseteq Range(p) \cup Range(q)
<1> DEFINE r == p \o q
<1>1. /\ r \in Seq(STRING) /\ DOMAIN r = 1..(Len(p) + Len(q))
      /\ \A j \in 1..(Len(p) + Len(q)) : r[j] = IF j <= Len(p) THEN p[j] ELSE q[j - Len(p)]
      /\ DOMAIN p = 1..Len(p) /\ DOMAIN q = 1..Len(q) /\ Len(p) \in Nat /\ Len(q) \in Nat
  OBVIOUS
<1> HIDE DEF r
<1>2. ASSUME NEW j \in 1..(Len(p) + Len(q)) PROVE r[j] \in Range(p) \cup Range(q)
  <2>1. CASE j <= Len(p)
    BY <1>1, <2>1 DEF Range
  <2>2. CASE ~(j <= Len(p))
    <3>1. j - Len(p) \in 1..Len(q)
      BY <1>1, <2>2
    <3> QED
      BY <1>1, <2>2, <3>1 DEF Range
  <2> QED
    BY <2>1, <2>2
<1>3. Range(r) \subseteq Range(p) \cup Range(q)
  BY <1>1, <1>2 DEF Range
<1> QED
  BY <1>1, <1>3 DEF r

\* A link or a compile-and-link command, in two editions.
LEMMA LinkCommand ==
  ASSUME NEW e \in Editions, NEW f \in Editions, NEW tool \in Tools,
         NEW vs \in SUBSET VarNames, NEW extra \in SUBSET ExtraNames,
         NEW ins \in Seq(Files), NEW name \in Programs \cup SuitePrograms
  PROVE  LET c == Command(tool, Options(e, vs, extra), ins, Bin(name))
             d == Command(tool, Options(f, vs, extra), ins, Bin(name))
         IN  /\ Links(c, d, name)
             /\ c.opts.extra = extra /\ c.ins = ins
             /\ c.opts = Options(e, vs, extra) /\ c.tool = tool
<1> DEFINE o == Options(e, vs, extra)
           p == Options(f, vs, extra)
<1>1. o \in OptionSet /\ p \in OptionSet /\ o.vars = p.vars /\ o.extra = p.extra /\ o.extra = extra
  BY PlanAssumption DEF Options, OptionSet, Range
<1>2. Bin(name) \in Files
  BY DEF Bin, File, Files, Exts
<1> HIDE DEF o, p
<1> DEFINE b == Bin(name)
           c == [tool |-> tool, opts |-> o, ins |-> ins, out |-> b]
           d == [tool |-> tool, opts |-> p, ins |-> ins, out |-> b]
<1> HIDE DEF b
<1>3. c \in Commands /\ d \in Commands
  BY <1>1, <1>2 DEF Commands, b
<1>4. AlikeCommands(c, d) /\ c.opts.extra = extra
  BY <1>1 DEF AlikeCommands
<1>5. c.tool \in Tools /\ c.opts \in OptionSet /\ c.out = b
  BY <1>1
<1> QED
  BY <1>3, <1>4, <1>5 DEF Links, Command, o, p, b

Good(P, Q, name) == Linked(P, name) /\ Alike(P, Q)

LEMMA CpuPlanGood ==
  ASSUME NEW e \in Editions, NEW f \in Editions, NEW gcc \in BOOLEAN,
         NEW sanitizer \in SUBSET ExtraNames, sanitizer \cap TEST_ONLY_DEFINES = {},
         NEW name \in Programs \cup SuitePrograms
  PROVE  /\ Good(CpuPlan(e, gcc, sanitizer, name), CpuPlan(f, gcc, sanitizer, name), name)
         /\ Clean(CpuPlan(e, gcc, sanitizer, name))
<1> DEFINE host == Lists["native_host_sources"]
           avx2 == Lists["native_avx2_sources"]
           ext == Extension(gcc)
           tool == Compiler(gcc)
           H(x) == Compiled(x, host, "cpu", tool, HostVars(gcc), sanitizer, ext)
           A(x) == Compiled(x, avx2, "cpu", tool, AvxVars(gcc), sanitizer, ext)
           ins == Objects(host, "cpu", ext) \o Objects(avx2, "cpu", ext)
           c(x) == Command(tool, Options(x, {}, sanitizer), ins, Bin(name))
<1>1. /\ host \in Seq(STRING) /\ avx2 \in Seq(STRING)
      /\ ext \in Exts /\ tool \in Tools /\ "cpu" \in ObjectDirs
      /\ HostVars(gcc) \in SUBSET VarNames /\ AvxVars(gcc) \in SUBSET VarNames
      /\ {} \in SUBSET VarNames
  <2>1. host \in Seq(STRING) /\ avx2 \in Seq(STRING)
    BY ListsTyped DEF SOURCE_LIST_VARIABLES
  <2>2. ext \in Exts /\ tool \in Tools /\ "cpu" \in ObjectDirs
    BY DEF Extension, Exts, Compiler, Tools, ObjectDirs
  <2>3. HostVars(gcc) \in SUBSET VarNames /\ AvxVars(gcc) \in SUBSET VarNames
    BY DEF HostVars, AvxVars, Family, VarNames
  <2> QED
    BY <2>1, <2>2, <2>3
<1> HIDE DEF host, avx2, ext, tool
<1>2. Pair(H(e), H(f)) /\ Clean(H(e)) /\ Outs(H(e)) = ObjectFiles(host, "cpu", ext)
  BY <1>1, CompiledPair
<1>3. Pair(A(e), A(f)) /\ Clean(A(e)) /\ Outs(A(e)) = ObjectFiles(avx2, "cpu", ext)
  BY <1>1, CompiledPair
<1> HIDE DEF H, A
<1>4. /\ Pair(H(e) \o A(e), H(f) \o A(f)) /\ Clean(H(e) \o A(e))
      /\ Outs(H(e) \o A(e)) = Outs(H(e)) \cup Outs(A(e))
  BY <1>2, <1>3, PairConcat
<1> DEFINE X == Outs(H(e) \o A(e))
<1> HIDE DEF X
<1>5. Within(ins, X)
  <2>1. Within(Objects(host, "cpu", ext), X)
    BY <1>1, <1>2, <1>4, ObjectsWithin DEF X
  <2>2. Within(Objects(avx2, "cpu", ext), X)
    BY <1>1, <1>3, <1>4, ObjectsWithin DEF X
  <2> QED
    BY <2>1, <2>2, WithinConcat
<1> HIDE DEF ins
<1>6. ins \in Seq(Files) /\ \A i \in DOMAIN ins : ins[i] \in X
  BY <1>5 DEF Within
<1>7. Links(c(e), c(f), name) /\ c(e).opts.extra = sanitizer /\ c(e).ins = ins
  BY <1>1, <1>6, LinkCommand
<1> HIDE DEF c
<1> DEFINE P(x) == H(x) \o A(x)
<1> HIDE DEF P
<1>8. Pair(P(e), P(f)) /\ Clean(P(e)) /\ X = Outs(P(e))
  BY <1>4 DEF P, X
<1>9. \A i \in DOMAIN c(e).ins : c(e).ins[i].dir = "src" \/ c(e).ins[i] \in Outs(P(e))
  BY <1>6, <1>7, <1>8
<1>10. /\ Linked(P(e) \o <<c(e)>>, name) /\ Alike(P(e) \o <<c(e)>>, P(f) \o <<c(f)>>)
       /\ Clean(P(e) \o <<c(e)>>)
  BY <1>7, <1>8, <1>9, LinkPlan
<1> QED
  BY <1>10 DEF Good, CpuPlan, Compiled, P, H, A, c, ins, host, avx2, ext, tool

LEMMA CudaPlanGood ==
  ASSUME NEW e \in Editions, NEW f \in Editions
  PROVE  Good(CudaPlan(e), CudaPlan(f), "stoquant") /\ Clean(CudaPlan(e))
<1> DEFINE host == Lists["native_host_sources"]
           avx2 == Lists["native_avx2_sources"]
           cuda == Lists["native_cuda_sources"]
           ext == Extension(FALSE)
           tool == Compiler(FALSE)
           enable == {"SQ_ENABLE_CUDA"}
           none == {}
           hv == HostVars(FALSE)
           av == AvxVars(FALSE)
           H(x) == Compiled(x, host, "cuda", tool, hv, enable, ext)
           A(x) == Compiled(x, avx2, "cuda", tool, av, none, ext)
           C(x) == Compiled(x, cuda, "cuda", "nvcc", NvccVars, none, ext)
           ins == Objects(host \o avx2 \o cuda, "cuda", ext)
           link == {"nvcc_flags"}
           c(x) == Command("nvcc", Options(x, link, none), ins, Bin("stoquant"))
<1>1. /\ host \in Seq(STRING) /\ avx2 \in Seq(STRING) /\ cuda \in Seq(STRING)
      /\ ext \in Exts /\ tool \in Tools /\ "cuda" \in ObjectDirs /\ "nvcc" \in Tools
      /\ hv \in SUBSET VarNames /\ av \in SUBSET VarNames
      /\ NvccVars \in SUBSET VarNames /\ link \in SUBSET VarNames
      /\ enable \in SUBSET ExtraNames /\ none \in SUBSET ExtraNames
      /\ enable \cap TEST_ONLY_DEFINES = {} /\ none \cap TEST_ONLY_DEFINES = {}
      /\ "stoquant" \in Programs \cup SuitePrograms
  <2>1. host \in Seq(STRING) /\ avx2 \in Seq(STRING) /\ cuda \in Seq(STRING)
    BY ListsTyped DEF SOURCE_LIST_VARIABLES
  <2>2. ext \in Exts /\ tool \in Tools /\ "cuda" \in ObjectDirs /\ "nvcc" \in Tools
    BY DEF Extension, Exts, Compiler, Tools, ObjectDirs
  <2>3. /\ hv \in SUBSET VarNames /\ av \in SUBSET VarNames
        /\ NvccVars \in SUBSET VarNames /\ link \in SUBSET VarNames
    BY DEF HostVars, AvxVars, Family, VarNames, NvccVars
  <2>4. /\ enable \in SUBSET ExtraNames /\ none \in SUBSET ExtraNames
        /\ enable \cap TEST_ONLY_DEFINES = {} /\ none \cap TEST_ONLY_DEFINES = {}
    BY DEF ExtraNames, TEST_ONLY_DEFINES
  <2>5. "stoquant" \in Programs \cup SuitePrograms
    BY DEF Programs
  <2> QED
    BY <2>1, <2>2, <2>3, <2>4, <2>5
<1> HIDE DEF host, avx2, cuda, ext, tool, enable, none, link, hv, av
<1>2. Pair(H(e), H(f)) /\ Clean(H(e)) /\ Outs(H(e)) = ObjectFiles(host, "cuda", ext)
  BY <1>1, CompiledPair
<1>3. Pair(A(e), A(f)) /\ Clean(A(e)) /\ Outs(A(e)) = ObjectFiles(avx2, "cuda", ext)
  BY <1>1, CompiledPair
<1>4. Pair(C(e), C(f)) /\ Clean(C(e)) /\ Outs(C(e)) = ObjectFiles(cuda, "cuda", ext)
  BY <1>1, CompiledPair
<1> HIDE DEF H, A, C
<1> DEFINE O(x) == H(x) \o A(x)
           P(x) == O(x) \o C(x)
<1>5. Pair(O(e), O(f)) /\ Clean(O(e)) /\ Outs(O(e)) = Outs(H(e)) \cup Outs(A(e))
  BY <1>2, <1>3, PairConcat
<1> HIDE DEF O
<1>6. Pair(P(e), P(f)) /\ Clean(P(e)) /\ Outs(P(e)) = Outs(O(e)) \cup Outs(C(e))
  BY <1>4, <1>5, PairConcat
<1> HIDE DEF P
<1> DEFINE all == host \o avx2 \o cuda
<1>7. all \in Seq(STRING) /\ Range(all) \subseteq Range(host) \cup Range(avx2) \cup Range(cuda)
  <2> DEFINE both == host \o avx2
  <2>1. both \in Seq(STRING) /\ Range(both) \subseteq Range(host) \cup Range(avx2)
    BY <1>1, StemsConcat
  <2> HIDE DEF both
  <2>2. both \o cuda \in Seq(STRING) /\ Range(both \o cuda) \subseteq Range(both) \cup Range(cuda)
    BY <1>1, <2>1, StemsConcat
  <2>3. all = both \o cuda
    BY DEF both
  <2> HIDE DEF all
  <2> QED
    BY <2>1, <2>2, <2>3
<1> HIDE DEF all
<1>8. ObjectFiles(all, "cuda", ext) \subseteq Outs(P(e))
  BY <1>2, <1>3, <1>4, <1>5, <1>6, <1>7 DEF ObjectFiles
<1>9. Within(ins, Outs(P(e)))
  BY <1>1, <1>7, <1>8, ObjectsWithin DEF all
<1> HIDE DEF ins
<1>10. ins \in Seq(Files) /\ \A i \in DOMAIN ins : ins[i] \in Outs(P(e))
  BY <1>9 DEF Within
<1>11. Links(c(e), c(f), "stoquant") /\ c(e).opts.extra = none /\ c(e).ins = ins
  BY <1>1, <1>10, LinkCommand
<1> HIDE DEF c
<1>12. \A i \in DOMAIN c(e).ins : c(e).ins[i].dir = "src" \/ c(e).ins[i] \in Outs(P(e))
  BY <1>10, <1>11
<1>13. c(e).opts.extra \cap TEST_ONLY_DEFINES = {}
  BY <1>1, <1>11
<1>14. /\ Linked(P(e) \o <<c(e)>>, "stoquant") /\ Alike(P(e) \o <<c(e)>>, P(f) \o <<c(f)>>)
       /\ Clean(P(e) \o <<c(e)>>)
  BY <1>6, <1>11, <1>12, <1>13, LinkPlan
<1>15. \A x : CudaPlan(x) = P(x) \o <<c(x)>>
  BY DEF CudaPlan, NvccLink, Compiled, P, O, H, A, C, c, ins, host, avx2, cuda, ext, tool, enable, none, link, hv, av
<1> QED
  BY <1>14, <1>15 DEF Good

\* The fault build compiles the kernels with the test-only defines and links
\* them with whatever host objects there are.
LEMMA FaultPlanOutline ==
  ASSUME NEW e \in Editions
  PROVE  /\ Outline(CudaFaultPlan(e), "stoquant_fault")
         /\ ~Clean(CudaFaultPlan(e))
<1> DEFINE host == Lists["native_host_sources"]
           avx2 == Lists["native_avx2_sources"]
           cuda == Lists["native_cuda_sources"]
           ext == Extension(FALSE)
           fault == IF ext = "obj" THEN "fault_obj" ELSE "fault_o"
           none == {}
           link == {"nvcc_flags"}
           C == Compiled(e, cuda, "cuda", "nvcc", NvccVars, TEST_ONLY_DEFINES, fault)
           ins == Objects(host \o avx2, "cuda", ext) \o Objects(cuda, "cuda", fault)
           c == Command("nvcc", Options(e, link, none), ins, Bin("stoquant_fault"))
<1>1. /\ host \in Seq(STRING) /\ avx2 \in Seq(STRING) /\ cuda \in Seq(STRING)
      /\ ext \in Exts /\ fault \in Exts /\ "cuda" \in ObjectDirs /\ "nvcc" \in Tools
      /\ NvccVars \in SUBSET VarNames /\ link \in SUBSET VarNames
      /\ TEST_ONLY_DEFINES \in SUBSET ExtraNames /\ none \in SUBSET ExtraNames
      /\ "stoquant_fault" \in Programs \cup SuitePrograms
      /\ "quantizer_cuda" \in Range(cuda)
  <2>1. host \in Seq(STRING) /\ avx2 \in Seq(STRING) /\ cuda \in Seq(STRING)
    BY ListsTyped DEF SOURCE_LIST_VARIABLES
  <2>2. ext \in Exts /\ fault \in Exts /\ "cuda" \in ObjectDirs /\ "nvcc" \in Tools
    BY DEF Extension, Exts, Tools, ObjectDirs
  <2>3. NvccVars \in SUBSET VarNames /\ link \in SUBSET VarNames
    BY DEF VarNames, NvccVars
  <2>4. TEST_ONLY_DEFINES \in SUBSET ExtraNames /\ none \in SUBSET ExtraNames
    BY DEF ExtraNames, TEST_ONLY_DEFINES
  <2>5. "stoquant_fault" \in Programs \cup SuitePrograms
    BY DEF Programs
  <2>6. "quantizer_cuda" \in Range(cuda)
    BY ListsAssumption
  <2> QED
    BY <2>1, <2>2, <2>3, <2>4, <2>5, <2>6
<1> HIDE DEF host, avx2, cuda, ext, fault, none, link
<1>2. Pair(C, C)
  BY <1>1, CompiledPair
<1>3. Options(e, NvccVars, TEST_ONLY_DEFINES) \in OptionSet
  BY <1>1, PlanAssumption DEF Options, OptionSet, Range
<1>4. /\ Len(C) = Len(cuda)
      /\ \A i \in 1..Len(cuda) : C[i].opts = Options(e, NvccVars, TEST_ONLY_DEFINES)
  BY <1>1, <1>3, CompileObjectsPlan DEF Compiled
<1> HIDE DEF C
<1>5. ins \in Seq(Files)
  <2>1. host \o avx2 \in Seq(STRING)
    BY <1>1, StemsConcat
  <2> DEFINE X == ObjectFiles(host \o avx2, "cuda", ext) \cup ObjectFiles(cuda, "cuda", fault)
  <2>2. ObjectFiles(host \o avx2, "cuda", ext) \subseteq X /\ ObjectFiles(cuda, "cuda", fault) \subseteq X
    OBVIOUS
  <2> HIDE DEF X
  <2>3. Within(Objects(host \o avx2, "cuda", ext), X)
    BY <1>1, <2>1, <2>2, ObjectsWithin
  <2>4. Within(Objects(cuda, "cuda", fault), X)
    BY <1>1, <2>2, ObjectsWithin
  <2>5. Within(ins, X)
    BY <2>3, <2>4, WithinConcat
  <2> QED
    BY <2>5 DEF Within
<1> HIDE DEF ins
<1>6. Links(c, c, "stoquant_fault")
  BY <1>1, <1>5, LinkCommand
<1> HIDE DEF c
<1>7. /\ Outline(C \o <<c>>, "stoquant_fault") /\ Len(C \o <<c>>) = Len(C) + 1
      /\ \A j \in 1..Len(C) : (C \o <<c>>)[j] = C[j]
  BY <1>2, <1>6, LinkPlan
<1>8. ~Clean(C \o <<c>>)
  <2>1. 1 \in 1..Len(cuda) /\ Len(cuda) \in Nat
    BY <1>1 DEF Range
  <2>2. 1 \in 1..Len(C \o <<c>>) /\ (C \o <<c>>)[1] = C[1]
    BY <1>4, <1>7, <2>1
  <2>3. C[1].opts.extra = TEST_ONLY_DEFINES
    BY <1>4, <2>1 DEF Options
  <2>4. TEST_ONLY_DEFINES # {}
    BY DEF TEST_ONLY_DEFINES
  <2> QED
    BY <2>2, <2>3, <2>4 DEF Clean
<1>9. CudaFaultPlan(e) = C \o <<c>>
  BY DEF CudaFaultPlan, NvccLink, Compiled, C, c, ins, host, avx2, cuda, ext, fault, none, link
<1> QED
  BY <1>7, <1>8, <1>9

\* A program made by one compiler call.
Program(x, tool, vs, extra, ins, name) == <<Command(tool, Options(x, vs, extra), ins, Bin(name))>>

LEMMA ProgramGood ==
  ASSUME NEW e \in Editions, NEW f \in Editions, NEW tool \in Tools,
         NEW vs \in SUBSET VarNames, NEW extra \in SUBSET ExtraNames,
         extra \cap TEST_ONLY_DEFINES = {},
         NEW ins \in Seq(Files), \A i \in DOMAIN ins : ins[i].dir = "src",
         NEW name \in Programs \cup SuitePrograms
  PROVE  /\ Good(Program(e, tool, vs, extra, ins, name), Program(f, tool, vs, extra, ins, name), name)
         /\ Clean(Program(e, tool, vs, extra, ins, name))
<1> DEFINE c == Command(tool, Options(e, vs, extra), ins, Bin(name))
           d == Command(tool, Options(f, vs, extra), ins, Bin(name))
<1>1. Links(c, d, name) /\ c.opts.extra = extra /\ c.ins = ins
  BY LinkCommand
<1> HIDE DEF c, d
<1>2. Linked(<<c>>, name) /\ Alike(<<c>>, <<d>>) /\ Clean(<<c>>)
  BY <1>1, OneCommand
<1> QED
  BY <1>2 DEF Good, Program, c, d

\* The flags of a source of the AVX2 test, in two editions.
LEMMA Avx2Options ==
  ASSUME NEW e \in Editions, NEW f \in Editions, NEW s, NEW gcc \in BOOLEAN,
         NEW extra \in SUBSET ExtraNames, extra \cap TEST_ONLY_DEFINES = {}
  PROVE  /\ Avx2TestOptions(e, s, gcc, extra) \in OptionSet
         /\ Avx2TestOptions(e, s, gcc, extra).vars = Avx2TestOptions(f, s, gcc, extra).vars
         /\ Avx2TestOptions(e, s, gcc, extra).extra = Avx2TestOptions(f, s, gcc, extra).extra
         /\ Avx2TestOptions(e, s, gcc, extra).extra \cap TEST_ONLY_DEFINES = {}
<1> DEFINE a == AvxVars(gcc)
           t == TestVars(gcc)
           h == HostVars(gcc)
           openmp == Family(gcc, extra, extra \cup {"-fopenmp"})
           inAvx == s \in Range(Lists["native_avx2_sources"])
           inDriver == s \in Range(Lists["test_avx2_driver_sources"])
<1>1. a \in SUBSET VarNames /\ t \in SUBSET VarNames /\ h \in SUBSET VarNames
  BY DEF AvxVars, TestVars, HostVars, Family, VarNames
<1>2. openmp \in SUBSET ExtraNames /\ openmp \cap TEST_ONLY_DEFINES = {}
  <2>1. extra \cup {"-fopenmp"} \in SUBSET ExtraNames
    BY DEF ExtraNames
  <2>2. (extra \cup {"-fopenmp"}) \cap TEST_ONLY_DEFINES = {}
    BY DEF TEST_ONLY_DEFINES
  <2>3. openmp = extra \/ openmp = extra \cup {"-fopenmp"}
    BY DEF Family
  <2> QED
    BY <2>1, <2>2, <2>3
<1> HIDE DEF a, t, h, openmp, inAvx, inDriver
<1>3. \A x \in Editions : \A v \in SUBSET VarNames : \A y \in SUBSET ExtraNames :
        Options(x, v, y) \in OptionSet /\ Options(x, v, y).vars = v /\ Options(x, v, y).extra = y
  BY PlanAssumption DEF Options, OptionSet, Range
<1>4. \A x : Avx2TestOptions(x, s, gcc, extra) =
               IF inAvx THEN Options(x, a, extra)
               ELSE IF inDriver THEN Options(x, t, extra) ELSE Options(x, h, openmp)
  BY DEF Avx2TestOptions, a, t, h, openmp, inAvx, inDriver
<1>5. CASE inAvx
  <2>1. \A x : Avx2TestOptions(x, s, gcc, extra) = Options(x, a, extra)
    BY <1>4, <1>5
  <2> QED
    BY <1>1, <1>3, <2>1
<1>6. CASE ~inAvx /\ inDriver
  <2>1. \A x : Avx2TestOptions(x, s, gcc, extra) = Options(x, t, extra)
    BY <1>4, <1>6
  <2> QED
    BY <1>1, <1>3, <2>1
<1>7. CASE ~inAvx /\ ~inDriver
  <2>1. \A x : Avx2TestOptions(x, s, gcc, extra) = Options(x, h, openmp)
    BY <1>4, <1>7
  <2> QED
    BY <1>1, <1>2, <1>3, <2>1
<1> QED
  BY <1>5, <1>6, <1>7

LEMMA TestPlanGood ==
  ASSUME NEW e \in Editions, NEW f \in Editions, NEW target \in Range(TEST_TARGETS),
         NEW gcc \in BOOLEAN, NEW extra \in SUBSET ExtraNames, extra \cap TEST_ONLY_DEFINES = {},
         NEW name \in Programs \cup SuitePrograms
  PROVE  /\ Good(TestPlan(e, target, gcc, extra, name), TestPlan(f, target, gcc, extra, name), name)
         /\ Clean(TestPlan(e, target, gcc, extra, name))
<1> DEFINE v == target[2]
           list == Lists[v]
           n == Len(list)
           ext == Extension(gcc)
           tool == Compiler(gcc)
           vs == TestVars(gcc)
           none == {}
<1>1. v \in SOURCE_LIST_VARIABLES
  <2>1. \E i \in 1..4 : target = TEST_TARGETS[i]
    BY DEF Range, TEST_TARGETS
  <2> QED
    BY <2>1 DEF TEST_TARGETS, SOURCE_LIST_VARIABLES
<1>2. /\ list \in Seq(STRING) /\ n \in Nat /\ DOMAIN list = 1..n
      /\ \A i \in 1..n : list[i] \in STRING
      /\ Sources(v) \in Seq(Files) /\ \A i \in DOMAIN Sources(v) : Sources(v)[i].dir = "src"
  BY <1>1, ListsTyped
<1>3. /\ ext \in Exts /\ tool \in Tools /\ vs \in SUBSET VarNames /\ none \in SUBSET VarNames
      /\ "test-avx2" \in ObjectDirs
  BY DEF Extension, Exts, Compiler, Tools, TestVars, Family, VarNames, ObjectDirs
<1> HIDE DEF v, list, n, ext, tool, vs, none
<1>4. CASE target[1] # "build-avx2-test"
  <2>1. \A x : TestPlan(x, target, gcc, extra, name) = Program(x, tool, vs, extra, Sources(v), name)
    BY <1>4 DEF TestPlan, Program, tool, vs, v
  <2>2. /\ Good(Program(e, tool, vs, extra, Sources(v), name),
                Program(f, tool, vs, extra, Sources(v), name), name)
        /\ Clean(Program(e, tool, vs, extra, Sources(v), name))
    BY <1>2, <1>3, ProgramGood
  <2> QED
    BY <2>1, <2>2
<1>5. CASE target[1] = "build-avx2-test"
  <2> DEFINE o(x, i) == Avx2TestOptions(x, list[i], gcc, extra)
             A(x) == [i \in 1..n |-> [tool |-> tool, opts |-> o(x, i), ins |-> <<Src(list[i])>>,
                                      out |-> File("test-avx2", list[i], ext)]]
             ins == Objects(list, "test-avx2", ext)
             c(x) == Command(tool, Options(x, none, extra), ins, Bin(name))
  <2>1. \A x : TestPlan(x, target, gcc, extra, name) = A(x) \o <<c(x)>>
    BY <1>2, <1>5 DEF TestPlan, Command, ObjectPath, list, v, tool, ext, none
  <2>2. ASSUME NEW x \in Editions, NEW y \in Editions, NEW i \in 1..n
        PROVE  /\ o(x, i) \in OptionSet /\ o(x, i).vars = o(y, i).vars
               /\ o(x, i).extra = o(y, i).extra /\ o(x, i).extra \cap TEST_ONLY_DEFINES = {}
    BY Avx2Options
  <2> HIDE DEF o
  <2>3. ASSUME NEW x \in Editions
        PROVE  /\ A(x) \in Seq(Compilations) /\ Len(A(x)) = n
               /\ \A i \in 1..n : /\ A(x)[i].tool = tool /\ A(x)[i].opts = o(x, i)
                                  /\ A(x)[i].ins = <<Src(list[i])>>
                                  /\ A(x)[i].out = File("test-avx2", list[i], ext)
    <3>1. ASSUME NEW i \in 1..n
          PROVE  [tool |-> tool, opts |-> o(x, i), ins |-> <<Src(list[i])>>,
                  out |-> File("test-avx2", list[i], ext)] \in Compilations
      <4> DEFINE s == list[i]
                 p == o(x, i)
      <4>1. s \in STRING /\ p \in OptionSet
        BY <1>2, <2>2
      <4> HIDE DEF s, p
      <4>2. Src(s) \in Files /\ File("test-avx2", s, ext) \in Files
        BY <1>3, <4>1 DEF Src, File, Files, Exts
      <4>3. <<Src(s)>> \in Seq(Files)
        BY <4>2
      <4> QED
        BY <1>3, <4>1, <4>2, <4>3 DEF Compilations, Commands, File, s, p
    <3>2. A(x) \in [1..n -> Compilations]
      BY <3>1
    <3>3. A(x) \in Seq(Compilations) /\ Len(A(x)) = n
      BY <1>2, <3>2
    <3> QED
      BY <3>3
  <2> HIDE DEF A
  <2>4. Pair(A(e), A(f)) /\ Clean(A(e))
    <3>1. ASSUME NEW i \in 1..n
          PROVE  AlikeCommands(A(e)[i], A(f)[i]) /\ A(e)[i].opts.extra \cap TEST_ONLY_DEFINES = {}
      BY <2>2, <2>3 DEF AlikeCommands
    <3> QED
      BY <2>3, <3>1 DEF Pair, Alike, Clean
  <2>5. ObjectFiles(list, "test-avx2", ext) \subseteq Outs(A(e))
    <3>1. ASSUME NEW s \in Range(list) PROVE File("test-avx2", s, ext) \in Outs(A(e))
      BY <1>2, <2>3 DEF Range, Outs
    <3> QED
      BY <3>1 DEF ObjectFiles
  <2>6. Within(ins, Outs(A(e)))
    BY <1>2, <1>3, <2>5, ObjectsWithin
  <2> HIDE DEF ins
  <2>7. ins \in Seq(Files) /\ \A i \in DOMAIN ins : ins[i] \in Outs(A(e))
    BY <2>6 DEF Within
  <2>8. Links(c(e), c(f), name) /\ c(e).opts.extra = extra /\ c(e).ins = ins
    BY <1>3, <2>7, LinkCommand
  <2> HIDE DEF c
  <2>9. \A i \in DOMAIN c(e).ins : c(e).ins[i].dir = "src" \/ c(e).ins[i] \in Outs(A(e))
    BY <2>7, <2>8
  <2>10. c(e).opts.extra \cap TEST_ONLY_DEFINES = {}
    BY <2>8
  <2>11. /\ Linked(A(e) \o <<c(e)>>, name) /\ Alike(A(e) \o <<c(e)>>, A(f) \o <<c(f)>>)
         /\ Clean(A(e) \o <<c(e)>>)
    BY <2>4, <2>8, <2>9, <2>10, LinkPlan
  <2> QED
    BY <2>1, <2>11 DEF Good
<1> QED
  BY <1>4, <1>5

\* The binary beside which a recipe writes its stamp.
BinaryOf(r) ==
  CASE r \in {"build-cpu", "build-cuda"} -> "stoquant"
    [] r = "build-cuda-fault" -> "stoquant_fault"
    [] r = "build-cuda-api-test" -> "test_cuda_api"
    [] r = "build-stream-probe" -> "stream_probe"
    [] r = "build-rng" -> "test_rng"
    [] OTHER -> TargetOf(r)[3]
TestRecipes == {"build-codec-test", "build-quantizer-test", "build-avx2-test", "build-rng-cpu-test"}
Recipes == BUILD_RECIPES \cup {"test-cpu-asan"}

LEMMA RecipeNames ==
  /\ BUILD_RECIPES = {"build-cpu", "build-cuda", "build-cuda-fault", "build-cuda-api-test",
                      "build-stream-probe", "build-rng", "test-cpu-gcc-ubsan"} \cup TestRecipes
  /\ \A r \in TestRecipes : TargetOf(r) \in Range(TEST_TARGETS) /\ TargetOf(r)[3] \in Programs
<1>1. /\ DOMAIN TEST_TARGETS = 1..4
      /\ TEST_TARGETS[1] = <<"build-codec-test", "test_codec_sources", "test_codec">>
      /\ TEST_TARGETS[2] = <<"build-quantizer-test", "test_quantizer_sources", "test_quantizer">>
      /\ TEST_TARGETS[3] = <<"build-avx2-test", "test_avx2_sources", "test_quantizer_avx2">>
      /\ TEST_TARGETS[4] = <<"build-rng-cpu-test", "test_rng_cpu_sources", "test_rng_cpu">>
  BY DEF TEST_TARGETS
<1>2. \A i \in 1..4 : i = 1 \/ i = 2 \/ i = 3 \/ i = 4
  OBVIOUS
<1>3. {TEST_TARGETS[i][1] : i \in DOMAIN TEST_TARGETS} = TestRecipes
  BY <1>1, <1>2 DEF TestRecipes
<1>4. ASSUME NEW t \in Range(TEST_TARGETS) PROVE t[3] \in Programs
  <2>1. PICK i \in 1..4 : t = TEST_TARGETS[i]
    BY <1>1 DEF Range
  <2> QED
    BY <1>1, <1>2, <2>1 DEF Programs
<1>5. ASSUME NEW r \in TestRecipes PROVE TargetOf(r) \in Range(TEST_TARGETS)
  <2>1. PICK i \in 1..4 : TEST_TARGETS[i][1] = r
    BY <1>1, <1>3
  <2>2. TEST_TARGETS[i] \in Range(TEST_TARGETS)
    BY <1>1 DEF Range
  <2> QED
    BY <2>1, <2>2 DEF TargetOf
<1> QED
  BY <1>3, <1>4, <1>5 DEF BUILD_RECIPES

LEMMA StampedPlan ==
  ASSUME NEW e \in Editions, NEW f \in Editions, NEW r \in BUILD_RECIPES,
         Stamped(r), r # "build-cuda-fault"
  PROVE  /\ Work(e, r) = CommandPlan(e, r)
         /\ Good(CommandPlan(e, r), CommandPlan(f, r), BinaryOf(r))
         /\ Clean(CommandPlan(e, r))
         /\ BinaryOf(r) \in Programs
<1> DEFINE none == {}
           no == FALSE
           warn == {"nvcc_flags", "nvcc_warn_flags"}
<1>1. /\ none \in SUBSET ExtraNames /\ none \cap TEST_ONLY_DEFINES = {} /\ no \in BOOLEAN
      /\ NvccVars \in SUBSET VarNames /\ warn \in SUBSET VarNames /\ "nvcc" \in Tools
  BY DEF NvccVars, VarNames, Tools
<1>2. Work(e, r) = CommandPlan(e, r)
  BY DEF Work, Stamped
<1> HIDE DEF none, no, warn
<1>3. CASE r = "build-cpu"
  <2>1. \A x : CommandPlan(x, r) = CpuPlan(x, no, none, "stoquant")
    BY <1>3 DEF CommandPlan, no, none
  <2>2. BinaryOf(r) = "stoquant" /\ "stoquant" \in Programs
    BY <1>3 DEF BinaryOf, Programs
  <2>3. /\ Good(CpuPlan(e, no, none, "stoquant"), CpuPlan(f, no, none, "stoquant"), "stoquant")
        /\ Clean(CpuPlan(e, no, none, "stoquant"))
    BY <1>1, <2>2, CpuPlanGood
  <2> QED
    BY <1>2, <2>1, <2>2, <2>3
<1>4. CASE r = "build-cuda"
  <2>1. \A x : CommandPlan(x, r) = CudaPlan(x)
    BY <1>4 DEF CommandPlan
  <2>2. BinaryOf(r) = "stoquant" /\ "stoquant" \in Programs
    BY <1>4 DEF BinaryOf, Programs
  <2> QED
    BY <1>2, <2>1, <2>2, CudaPlanGood
<1>5. CASE r = "build-cuda-api-test"
  <2> DEFINE a == Sources("test_cuda_api_sources")
             b == Sources("native_cuda_sources")
             X == {g \in Files : g.dir = "src"}
             ins == a \o b
  <2>1. \A x : CommandPlan(x, r) = Program(x, "nvcc", NvccVars, none, ins, "test_cuda_api")
    BY <1>5 DEF CommandPlan, CudaApiTestPlan, Program, none
  <2>2. BinaryOf(r) = "test_cuda_api" /\ "test_cuda_api" \in Programs
    BY <1>5 DEF BinaryOf, Programs
  <2>3. Within(a, X) /\ Within(b, X)
    <3>1. ASSUME NEW q \in Seq(Files), \A i \in DOMAIN q : q[i].dir = "src" PROVE Within(q, X)
      <4>1. \A i \in DOMAIN q : q[i] \in Files
        OBVIOUS
      <4> QED
        BY <3>1, <4>1 DEF Within
    <3>2. /\ "test_cuda_api_sources" \in SOURCE_LIST_VARIABLES
          /\ "native_cuda_sources" \in SOURCE_LIST_VARIABLES
      BY DEF SOURCE_LIST_VARIABLES
    <3>3. /\ a \in Seq(Files) /\ \A i \in DOMAIN a : a[i].dir = "src"
          /\ b \in Seq(Files) /\ \A i \in DOMAIN b : b[i].dir = "src"
      BY <3>2, ListsTyped
    <3> HIDE DEF a, b, X
    <3> QED
      BY <3>1, <3>3
  <2> HIDE DEF a, b
  <2>4. Within(ins, X)
    BY <2>3, WithinConcat
  <2> HIDE DEF ins
  <2>5. ins \in Seq(Files) /\ \A i \in DOMAIN ins : ins[i].dir = "src"
    BY <2>4 DEF Within
  <2>6. /\ Good(Program(e, "nvcc", NvccVars, none, ins, "test_cuda_api"),
                Program(f, "nvcc", NvccVars, none, ins, "test_cuda_api"), "test_cuda_api")
        /\ Clean(Program(e, "nvcc", NvccVars, none, ins, "test_cuda_api"))
    BY <1>1, <2>2, <2>5, ProgramGood
  <2> QED
    BY <1>2, <2>1, <2>2, <2>6
<1>6. ASSUME NEW list \in SOURCE_LIST_VARIABLES, NEW name \in Programs,
             \A x : CommandPlan(x, r) = NvccProgram(x, list, name), BinaryOf(r) = name
      PROVE  /\ Good(CommandPlan(e, r), CommandPlan(f, r), BinaryOf(r)) /\ Clean(CommandPlan(e, r))
             /\ BinaryOf(r) \in Programs
  <2> DEFINE ins == Sources(list)
  <2>1. \A x : CommandPlan(x, r) = Program(x, "nvcc", warn, none, ins, name)
    BY <1>6 DEF NvccProgram, Program, none, warn
  <2>2. ins \in Seq(Files) /\ \A i \in DOMAIN ins : ins[i].dir = "src"
    BY ListsTyped
  <2> HIDE DEF ins
  <2>3. /\ Good(Program(e, "nvcc", warn, none, ins, name), Program(f, "nvcc", warn, none, ins, name), name)
        /\ Clean(Program(e, "nvcc", warn, none, ins, name))
    BY <1>1, <2>2, ProgramGood
  <2> QED
    BY <1>6, <2>1, <2>3
<1>7. CASE r = "build-stream-probe"
  <2>1. /\ \A x : CommandPlan(x, r) = NvccProgram(x, "native_probe_sources", "stream_probe")
        /\ BinaryOf(r) = "stream_probe"
    BY <1>7 DEF CommandPlan, ProbePlan, BinaryOf
  <2>2. "native_probe_sources" \in SOURCE_LIST_VARIABLES /\ "stream_probe" \in Programs
    BY DEF SOURCE_LIST_VARIABLES, Programs
  <2> QED
    BY <1>2, <1>6, <2>1, <2>2
<1>8. CASE r = "build-rng"
  <2>1. /\ \A x : CommandPlan(x, r) = NvccProgram(x, "native_rng_sources", "test_rng")
        /\ BinaryOf(r) = "test_rng"
    BY <1>8 DEF CommandPlan, RngPlan, BinaryOf
  <2>2. "native_rng_sources" \in SOURCE_LIST_VARIABLES /\ "test_rng" \in Programs
    BY DEF SOURCE_LIST_VARIABLES, Programs
  <2> QED
    BY <1>2, <1>6, <2>1, <2>2
<1>9. CASE r \in TestRecipes
  <2> DEFINE t == TargetOf(r)
  <2>1. t \in Range(TEST_TARGETS) /\ t[3] \in Programs
    BY <1>9, RecipeNames
  <2>2. (\A x : CommandPlan(x, r) = TestPlan(x, t, no, none, t[3])) /\ BinaryOf(r) = t[3]
    BY <1>9 DEF CommandPlan, BinaryOf, TestRecipes, no, none
  <2> HIDE DEF t
  <2>3. /\ Good(TestPlan(e, t, no, none, t[3]), TestPlan(f, t, no, none, t[3]), t[3])
        /\ Clean(TestPlan(e, t, no, none, t[3]))
    BY <1>1, <2>1, TestPlanGood
  <2> QED
    BY <1>2, <2>1, <2>2, <2>3
<1>10. r \in {"build-cpu", "build-cuda", "build-cuda-api-test", "build-stream-probe", "build-rng"}
         \cup TestRecipes
  BY RecipeNames DEF Stamped
<1> QED
  BY <1>3, <1>4, <1>5, <1>7, <1>8, <1>9, <1>10

\* A plan that makes no binary a stamp could be about.
Suite(P) ==
  /\ P \in Seq(Commands)
  /\ \A j \in 1..Len(P) : P[j].out.dir = "build" => P[j].out.stem \in SuitePrograms

LEMMA SuiteConcat ==
  ASSUME NEW P, NEW Q, Suite(P), Suite(Q)
  PROVE  /\ Suite(P \o Q) /\ Len(P \o Q) = Len(P) + Len(Q)
         /\ Len(Q) > 0 => (P \o Q)[Len(P) + Len(Q)] = Q[Len(Q)]
<1>1. \A u, v \in Seq(Commands) :
        /\ u \o v \in Seq(Commands) /\ Len(u \o v) = Len(u) + Len(v)
        /\ \A j \in 1..(Len(u) + Len(v)) : (u \o v)[j] = IF j <= Len(u) THEN u[j] ELSE v[j - Len(u)]
  OBVIOUS
<1>2. P \in Seq(Commands) /\ Q \in Seq(Commands) /\ Len(P) \in Nat /\ Len(Q) \in Nat
  BY DEF Suite
<1> DEFINE R == P \o Q
<1>3. /\ R \in Seq(Commands) /\ Len(R) = Len(P) + Len(Q)
      /\ \A j \in 1..(Len(P) + Len(Q)) : R[j] = IF j <= Len(P) THEN P[j] ELSE Q[j - Len(P)]
  BY <1>1, <1>2, Zenon
<1> HIDE DEF R
<1>4. ASSUME NEW j \in 1..(Len(P) + Len(Q))
      PROVE  R[j].out.dir = "build" => R[j].out.stem \in SuitePrograms
  <2>1. CASE j <= Len(P)
    BY <1>2, <1>3, <2>1 DEF Suite
  <2>2. CASE ~(j <= Len(P))
    <3>1. j - Len(P) \in 1..Len(Q)
      BY <1>2, <2>2
    <3> QED
      BY <1>3, <2>2, <3>1 DEF Suite
  <2> QED
    BY <2>1, <2>2
<1>5. Len(Q) > 0 => R[Len(P) + Len(Q)] = Q[Len(Q)]
  <2> SUFFICES ASSUME Len(Q) > 0 PROVE R[Len(P) + Len(Q)] = Q[Len(Q)]
    OBVIOUS
  <2>1. /\ Len(P) + Len(Q) \in 1..(Len(P) + Len(Q)) /\ ~(Len(P) + Len(Q) <= Len(P))
        /\ (Len(P) + Len(Q)) - Len(P) = Len(Q)
    BY <1>2
  <2> QED
    BY <1>3, <2>1
<1> QED
  BY <1>3, <1>4, <1>5 DEF Suite, R

LEMMA OutlineSuite ==
  ASSUME NEW P, NEW name \in SuitePrograms, Outline(P, name)
  PROVE  Suite(P)
<1>1. P \in Seq(Commands) /\ Len(P) \in Nat
  BY DEF Outline
<1>2. \A j \in 1..Len(P) : j \in 1..(Len(P) - 1) \/ j = Len(P)
  BY <1>1
<1>3. \A j \in 1..(Len(P) - 1) : P[j].out.dir # "build"
  BY DEF Outline, Compilations, ObjectDirs
<1>4. P[Len(P)].out.stem = name
  <2>1. P[Len(P)].out = Bin(name)
    BY DEF Outline
  <2>2. Bin(name).stem = name
    BY DEF Bin, File
  <2> QED
    BY <2>1, <2>2
<1> QED
  BY <1>1, <1>2, <1>3, <1>4 DEF Suite

LEMMA RunTestsSuite ==
  ASSUME NEW names \in Seq(SuitePrograms), Len(names) > 0
  PROVE  /\ Suite(RunTests(names)) /\ Len(RunTests(names)) = Len(names)
         /\ RunTests(names)[Len(names)].out = NoOutput
<1> DEFINE n == Len(names)
           R == RunTests(names)
           out == NoOutput
           c(i) == [tool |-> "run", opts |-> "", ins |-> <<Bin(names[i])>>, out |-> out]
<1>1. n \in Nat /\ n > 0 /\ DOMAIN names = 1..n /\ \A i \in 1..n : names[i] \in SuitePrograms
  OBVIOUS
<1>2. R = [i \in 1..n |-> c(i)]
  BY <1>1 DEF RunTests, Command
<1>3. out \in Files /\ out.dir # "build"
  BY DEF NoOutput, File, Files, Exts
<1> HIDE DEF n, R, out
<1>4. ASSUME NEW i \in 1..n PROVE c(i) \in Commands
  <2> DEFINE s == names[i]
  <2>1. s \in SuitePrograms
    BY <1>1
  <2> HIDE DEF s
  <2>2. Bin(s) \in Files
    BY <2>1 DEF Bin, File, Files, Exts
  <2>3. <<Bin(s)>> \in Seq(Files)
    BY <2>2
  <2> QED
    BY <1>3, <2>3 DEF Commands, s
<1>5. \A i \in 1..n : R[i].out = out
  BY <1>2
<1>6. R \in [1..n -> Commands]
  <2> HIDE DEF c
  <2> QED
    BY <1>2, <1>4
<1>7. R \in Seq(Commands) /\ Len(R) = n
  BY <1>1, <1>6
<1> QED
  BY <1>1, <1>3, <1>5, <1>7 DEF Suite, R, n, out

LEMMA UbsanSuite ==
  ASSUME NEW e \in Editions
  PROVE  LET W == UbsanPlan(e) \o RunTests(UbsanTests)
         IN  Suite(W) /\ Len(W) > 0 /\ W[Len(W)].out = NoOutput
<1> DEFINE yes == TRUE
           san == Sanitizer
<1>1. yes \in BOOLEAN /\ san \in SUBSET ExtraNames /\ san \cap TEST_ONLY_DEFINES = {}
  BY DEF Sanitizer, ExtraNames, TEST_ONLY_DEFINES
<1>2. /\ UbsanTests \in Seq(SuitePrograms) /\ Len(UbsanTests) = 4
      /\ \A i \in 1..4 : UbsanTests[i] \in SuitePrograms
      /\ "stoquant_gcc_ubsan" \in SuitePrograms
  BY DEF UbsanTests, SuitePrograms
<1>3. \A i \in 1..4 : TEST_TARGETS[i] \in Range(TEST_TARGETS)
  BY DEF Range, TEST_TARGETS
<1> HIDE DEF yes, san
<1> DEFINE C == CpuPlan(e, yes, san, "stoquant_gcc_ubsan")
           T(i) == TestPlan(e, TEST_TARGETS[i], yes, san, UbsanTests[i])
           R == RunTests(UbsanTests)
<1>4. Suite(C)
  <2>1. Good(C, C, "stoquant_gcc_ubsan")
    BY <1>1, <1>2, CpuPlanGood
  <2> HIDE DEF C
  <2> QED
    BY <1>2, <2>1, OutlineSuite DEF Good, Linked
<1>5. ASSUME NEW i \in 1..4 PROVE Suite(T(i))
  <2> DEFINE t == TEST_TARGETS[i]
             name == UbsanTests[i]
             P == TestPlan(e, t, yes, san, name)
  <2>1. t \in Range(TEST_TARGETS) /\ name \in SuitePrograms
    BY <1>2, <1>3
  <2> HIDE DEF t, name
  <2>2. Good(P, P, name)
    BY <1>1, <2>1, TestPlanGood
  <2> HIDE DEF P
  <2>3. Suite(P)
    BY <2>1, <2>2, OutlineSuite DEF Good, Linked
  <2> QED
    BY <2>3 DEF P, t, name
<1>6. Suite(R) /\ Len(R) = 4 /\ R[4].out = NoOutput
  <2>1. Len(UbsanTests) > 0
    BY <1>2
  <2>2. Suite(R) /\ Len(R) = Len(UbsanTests) /\ R[Len(UbsanTests)].out = NoOutput
    BY <1>2, <2>1, RunTestsSuite
  <2> HIDE DEF R
  <2> QED
    BY <1>2, <2>2
<1> HIDE DEF C, T, R
<1>7. Suite(T(1)) /\ Suite(T(2)) /\ Suite(T(3)) /\ Suite(T(4))
  BY <1>5
<1> DEFINE U1 == C \o T(1)
           U2 == U1 \o T(2)
           U3 == U2 \o T(3)
           U4 == U3 \o T(4)
<1>8. Suite(U1)
  BY <1>4, <1>7, SuiteConcat
<1> HIDE DEF U1
<1>9. Suite(U2)
  BY <1>7, <1>8, SuiteConcat
<1> HIDE DEF U2
<1>10. Suite(U3)
  BY <1>7, <1>9, SuiteConcat
<1> HIDE DEF U3
<1>11. Suite(U4)
  BY <1>7, <1>10, SuiteConcat
<1> HIDE DEF U4
<1>12. Suite(U4 \o R) /\ Len(U4 \o R) = Len(U4) + 4 /\ (U4 \o R)[Len(U4) + 4] = R[4]
  <2>1. Len(R) > 0
    BY <1>6
  <2>2. Suite(U4 \o R) /\ Len(U4 \o R) = Len(U4) + Len(R) /\ (U4 \o R)[Len(U4) + Len(R)] = R[Len(R)]
    BY <1>6, <1>11, <2>1, SuiteConcat
  <2> QED
    BY <1>6, <2>2
<1>13. Len(U4) \in Nat
  BY <1>11 DEF Suite
<1>14. Len(U4 \o R) > 0 /\ (U4 \o R)[Len(U4 \o R)].out = NoOutput
  BY <1>6, <1>12, <1>13
<1>15. UbsanPlan(e) = U4
  BY DEF UbsanPlan, UbsanTest, U4, U3, U2, U1, C, T, yes, san
<1> QED
  BY <1>12, <1>14, <1>15 DEF R

LEMMA AsanSuite ==
  ASSUME NEW e \in Editions
  PROVE  LET W == AsanPlan(e) \o RunTests([i \in DOMAIN AsanTargets |-> AsanTargets[i][2]])
         IN  Suite(W) /\ Len(W) > 0 /\ W[Len(W)].out = NoOutput
<1> DEFINE list(i) == AsanTargets[i][1]
           name(i) == AsanTargets[i][2]
           extra(i) == AsanTargets[i][3]
           vs(i) == {"cl_asan_flags"} \cup (IF i < 5 THEN {"cl_includes"} ELSE {})
           c(i) == Command("cl.exe", Options(e, vs(i), extra(i)), Sources(list(i)), Bin(name(i)))
           names == [i \in DOMAIN AsanTargets |-> AsanTargets[i][2]]
           P == AsanPlan(e)
           R == RunTests(names)
<1>1. DOMAIN AsanTargets = 1..5
  BY DEF AsanTargets
<1>2. \A i \in 1..5 : list(i) \in SOURCE_LIST_VARIABLES
  BY DEF AsanTargets, SOURCE_LIST_VARIABLES
<1>3. \A i \in 1..5 : name(i) \in SuitePrograms
  BY DEF AsanTargets, SuitePrograms
<1>4. \A i \in 1..5 : extra(i) \in SUBSET ExtraNames
  BY DEF AsanTargets, ExtraNames
<1>5. \A i \in 1..5 : vs(i) \in SUBSET VarNames
  BY DEF VarNames
<1>6. names = [i \in 1..5 |-> name(i)] /\ P = [i \in 1..5 |-> c(i)]
  BY <1>1 DEF AsanPlan
<1> HIDE DEF list, name, extra, vs, names, P
<1>7. ASSUME NEW i \in 1..5
      PROVE  c(i) \in Commands /\ (c(i).out.dir = "build" => c(i).out.stem \in SuitePrograms)
  <2>1. Sources(list(i)) \in Seq(Files)
    BY <1>2, ListsTyped
  <2>2. "cl.exe" \in Tools
    BY DEF Tools
  <2>3. Links(c(i), c(i), name(i))
    BY <1>3, <1>4, <1>5, <2>1, <2>2, LinkCommand
  <2> HIDE DEF c
  <2>4. c(i) \in Commands /\ c(i).out = Bin(name(i))
    BY <2>3 DEF Links
  <2>5. Bin(name(i)).stem = name(i)
    BY DEF Bin, File
  <2> QED
    BY <1>3, <2>4, <2>5
<1> HIDE DEF c
<1>8. P \in Seq(Commands) /\ Len(P) = 5 /\ \A i \in 1..5 : P[i] = c(i)
  <2>1. P \in [1..5 -> Commands]
    BY <1>6, <1>7
  <2> QED
    BY <1>6, <2>1
<1>9. Suite(P)
  BY <1>7, <1>8 DEF Suite
<1>10. names \in Seq(SuitePrograms) /\ Len(names) = 5
  <2>1. names \in [1..5 -> SuitePrograms]
    BY <1>3, <1>6
  <2> DEFINE n == 5
  <2>2. n \in Nat /\ names \in [1..n -> SuitePrograms]
    BY <2>1
  <2> HIDE DEF n
  <2>3. names \in Seq(SuitePrograms) /\ Len(names) = n
    BY <2>2
  <2> QED
    BY <2>3 DEF n
<1>11. Suite(R) /\ Len(R) = 5 /\ R[5].out = NoOutput
  <2>1. Len(names) > 0
    BY <1>10
  <2>2. Suite(R) /\ Len(R) = Len(names) /\ R[Len(names)].out = NoOutput
    BY <1>10, <2>1, RunTestsSuite
  <2> HIDE DEF R
  <2> QED
    BY <1>10, <2>2
<1> HIDE DEF R
<1>12. Suite(P \o R) /\ Len(P \o R) = 10 /\ (P \o R)[10] = R[5]
  <2>1. Len(R) > 0
    BY <1>11
  <2>2. Suite(P \o R) /\ Len(P \o R) = Len(P) + Len(R) /\ (P \o R)[Len(P) + Len(R)] = R[Len(R)]
    BY <1>9, <1>11, <2>1, SuiteConcat
  <2>3. Len(P) + Len(R) = 10
    BY <1>8, <1>11
  <2> HIDE DEF P
  <2> QED
    BY <1>11, <2>2, <2>3
<1>13. Len(P \o R) > 0 /\ (P \o R)[Len(P \o R)].out = NoOutput
  BY <1>11, <1>12
<1> QED
  BY <1>12, <1>13 DEF P, R, names

\* What build runs: the commands end with the binary of the stamp, or, for
\* the two suites, make programs no stamp is about.
LEMMA WorkOutline ==
  ASSUME NEW e \in Editions, NEW r \in Recipes
  PROVE  /\ Work(e, r) \in Seq(Commands) /\ Len(Work(e, r)) > 0
         /\ Stamped(r) => /\ r \in BUILD_RECIPES /\ BinaryOf(r) \in Programs
                          /\ Outline(Work(e, r), BinaryOf(r)) /\ Output(Work(e, r)) = Bin(BinaryOf(r))
         /\ ~Stamped(r) => Suite(Work(e, r)) /\ Output(Work(e, r)) = NoOutput
<1>1. CASE Stamped(r)
  <2>1. r \in BUILD_RECIPES
    BY <1>1 DEF Stamped, Recipes
  <2>2. BinaryOf(r) \in Programs /\ Outline(Work(e, r), BinaryOf(r))
    <3>1. CASE r = "build-cuda-fault"
      <4>1. Work(e, r) = CudaFaultPlan(e) /\ BinaryOf(r) = "stoquant_fault"
        BY <3>1 DEF Work, BinaryOf
      <4>2. "stoquant_fault" \in Programs
        BY DEF Programs
      <4> QED
        BY <4>1, <4>2, FaultPlanOutline
    <3>2. CASE r # "build-cuda-fault"
      BY <1>1, <2>1, <3>2, StampedPlan DEF Good, Linked
    <3> QED
      BY <3>1, <3>2
  <2> QED
    BY <1>1, <2>1, <2>2 DEF Outline, Output, Last
<1>2. CASE ~Stamped(r)
  <2> DEFINE W == Work(e, r)
  <2>1. Suite(W) /\ Len(W) > 0 /\ W[Len(W)].out = NoOutput
    <3>1. CASE r = "test-cpu-gcc-ubsan"
      <4>1. W = UbsanPlan(e) \o RunTests(UbsanTests)
        BY <3>1 DEF Work
      <4> QED
        BY <4>1, UbsanSuite
    <3>2. CASE r = "test-cpu-asan"
      <4>1. W = AsanPlan(e) \o RunTests([i \in DOMAIN AsanTargets |-> AsanTargets[i][2]])
        BY <3>2 DEF Work
      <4> QED
        BY <4>1, AsanSuite
    <3> QED
      BY <1>2, <3>1, <3>2 DEF Stamped
  <2> HIDE DEF W
  <2>2. W \in Seq(Commands) /\ Output(W) = NoOutput
    BY <2>1 DEF Suite, Output, Last
  <2> QED
    BY <1>2, <2>1, <2>2 DEF W
<1> QED
  BY <1>1, <1>2

-----------------------------------------------------------------------------
(* The reference: what a plan makes in an empty folder *)

\* A set of natural numbers has a least element.
LEMMA LeastElement ==
  ASSUME NEW S \in SUBSET Nat, S # {}
  PROVE  \E i \in S : \A j \in S : i <= j
<1>1. PICK i \in S : \A j \in S : ~(<<j, i>> \in OpToRel(<, Nat))
  BY WFMin, NatLessThanWellFounded
<1>2. ASSUME NEW j \in S PROVE i <= j
  <2>1. ~(<<j, i>> \in {p \in Nat \X Nat : p[1] < p[2]})
    BY <1>1, <1>2 DEF OpToRel
  <2>2. <<j, i>> \in Nat \X Nat /\ <<j, i>>[1] = j /\ <<j, i>>[2] = i
    OBVIOUS
  <2>3. ~(j < i)
    BY <2>1, <2>2
  <2> QED
    BY <2>3
<1> QED
  BY <1>2

\* The folder after n commands comes from that after n - 1.
After(e, c, fs) == With(fs, c.out, Content(c, e, fs))

LEMMA AfterDomain == \A e, c, fs : DOMAIN After(e, c, fs) = DOMAIN fs \cup {c.out}
  BY DEF After, With
LEMMA AfterOut == \A e, c, fs : After(e, c, fs)[c.out] = Content(c, e, fs)
  BY DEF After, With
LEMMA AfterOther ==
  \A e, c, fs, g : g \in DOMAIN fs /\ g # c.out => After(e, c, fs)[g] = fs[g]
  BY DEF After, With

LEMMA BuiltSteps ==
  ASSUME NEW e, NEW P \in Seq(Commands)
  PROVE  /\ Built(e, P)[0] = NoFiles
         /\ \A i \in 1..Len(P) : Built(e, P)[i] = After(e, P[i], Built(e, P)[i - 1])
<1> DEFINE n == Len(P)
           S(i, x) == After(e, P[i], x)
           Body(g, m) == [i \in 0..m |-> IF i = 0 THEN NoFiles ELSE S(i, g[i - 1])]
           Exists(m) == \E g : g = Body(g, m)
           Bad == {m \in 0..n : ~Exists(m)}
<1>0. n \in Nat
  OBVIOUS
<1>1. Built(e, P) = CHOOSE g : g = Body(g, n)
  BY DEF Built, After
<1> HIDE DEF n, S
<1>2. Bad = {}
  <2>1. SUFFICES ASSUME Bad # {} PROVE FALSE
    OBVIOUS
  <2>2. Bad \in SUBSET Nat
    <3> HIDE DEF Exists
    <3> QED
      BY <1>0
  <2> HIDE DEF Bad
  <2>3. PICK m \in Bad : \A k \in Bad : m <= k
    BY <2>1, <2>2, LeastElement
  <2>4. m \in 0..n /\ ~Exists(m)
    BY DEF Bad
  <2>5. m # 0
    <3> DEFINE g == [i \in 0..0 |-> NoFiles]
    <3>1. g = Body(g, 0)
      OBVIOUS
    <3>2. Exists(0)
      BY <3>1
    <3> QED
      BY <2>4, <3>2
  <2>6. m - 1 \in 0..n /\ Exists(m - 1)
    <3>1. m - 1 \in 0..n /\ m - 1 \notin Bad
      BY <1>0, <2>2, <2>3, <2>4, <2>5
    <3> QED
      BY <3>1 DEF Bad
  <2>7. PICK g : g = Body(g, m - 1)
    BY <2>6
  <2>8. \A i \in 0..(m - 1) : g[i] = IF i = 0 THEN NoFiles ELSE S(i, g[i - 1])
    BY <2>7
  <2> DEFINE h == [i \in 0..m |-> IF i = m THEN S(m, g[m - 1]) ELSE g[i]]
  <2>9. ASSUME NEW i \in 0..m PROVE h[i] = IF i = 0 THEN NoFiles ELSE S(i, h[i - 1])
    <3>1. CASE i = m
      <4>1. m - 1 \in 0..m /\ m - 1 # m /\ m \in 0..m
        BY <1>0, <2>4, <2>6
      <4>2. h[m - 1] = g[m - 1] /\ h[m] = S(m, g[m - 1])
        BY <4>1
      <4> QED
        BY <2>5, <3>1, <4>2
    <3>2. CASE i # m
      <4>1. i \in 0..(m - 1)
        BY <1>0, <2>4, <3>2
      <4>2. i # 0 => i - 1 \in 0..m /\ i - 1 # m
        BY <1>0, <2>4, <3>2
      <4>3. h[i] = g[i] /\ (i # 0 => h[i - 1] = g[i - 1])
        BY <3>2, <4>1, <4>2
      <4> QED
        BY <2>8, <4>1, <4>3
    <3> QED
      BY <3>1, <3>2
  <2>10. h = [i \in 0..m |-> h[i]]
    OBVIOUS
  <2> HIDE DEF h
  <2>11. h = Body(h, m)
    BY <2>9, <2>10
  <2> QED
    BY <2>4, <2>11
<1>3. Exists(n)
  <2>1. n \in 0..n
    BY <1>0
  <2> HIDE DEF Exists
  <2> QED
    BY <1>2, <2>1
<1> DEFINE B == Built(e, P)
<1>4. B = Body(B, n)
  BY <1>1, <1>3
<1> HIDE DEF B
<1>5. B[0] = NoFiles /\ \A i \in 1..n : B[i] = S(i, B[i - 1])
  <2>1. 0 \in 0..n /\ \A i \in 1..n : i \in 0..n /\ i # 0
    BY <1>0
  <2> QED
    BY <1>4, <2>1
<1> QED
  BY <1>5 DEF B, S, n

\* After n commands the folder holds what they were to make.
LEMMA BuiltDomain ==
  ASSUME NEW e, NEW P \in Seq(Commands), NEW n \in 0..Len(P)
  PROVE  DOMAIN Built(e, P)[n] = {P[j].out : j \in 1..n}
<1> DEFINE B == Built(e, P)
           O(k) == {P[j].out : j \in 1..k}
           Bad == {k \in 0..Len(P) : DOMAIN B[k] # O(k)}
<1>0. Len(P) \in Nat
  OBVIOUS
<1>1. B[0] = NoFiles /\ \A i \in 1..Len(P) : B[i] = After(e, P[i], B[i - 1])
  BY BuiltSteps
<1> HIDE DEF B
<1>2. Bad = {}
  <2>1. SUFFICES ASSUME Bad # {} PROVE FALSE
    OBVIOUS
  <2>2. Bad \in SUBSET Nat
    <3> HIDE DEF O
    <3> QED
      BY <1>0
  <2> HIDE DEF Bad
  <2>3. PICK m \in Bad : \A k \in Bad : m <= k
    BY <2>1, <2>2, LeastElement
  <2>4. m \in 0..Len(P) /\ DOMAIN B[m] # O(m)
    BY DEF Bad
  <2>5. m # 0
    <3>1. DOMAIN B[0] = {} /\ O(0) = {}
      BY <1>1 DEF NoFiles
    <3> QED
      BY <2>4, <3>1
  <2>6. m - 1 \in 0..Len(P) /\ m \in 1..Len(P) /\ m - 1 \notin Bad
    BY <1>0, <2>2, <2>3, <2>4, <2>5
  <2>7. DOMAIN B[m - 1] = O(m - 1)
    <3> HIDE DEF O
    <3> QED
      BY <2>6 DEF Bad
  <2>8. DOMAIN B[m] = DOMAIN B[m - 1] \cup {P[m].out}
    <3>1. B[m] = After(e, P[m], B[m - 1])
      BY <1>1, <2>6
    <3>2. \A c, x : DOMAIN After(e, c, x) = DOMAIN x \cup {c.out}
      BY AfterDomain
    <3>3. DOMAIN After(e, P[m], B[m - 1]) = DOMAIN B[m - 1] \cup {P[m].out}
      BY <3>2
    <3> QED
      BY <3>1, <3>3
  <2>9. O(m) = O(m - 1) \cup {P[m].out}
    <3>1. \A j \in 1..m : j \in 1..(m - 1) \/ j = m
      BY <1>0, <2>6
    <3>2. m \in 1..m /\ \A j \in 1..(m - 1) : j \in 1..m
      BY <1>0, <2>6
    <3> QED
      BY <3>1, <3>2
  <2> QED
    BY <2>4, <2>7, <2>8, <2>9
<1>3. DOMAIN B[n] = O(n)
  <2> HIDE DEF O
  <2> QED
    BY <1>2
<1> QED
  BY <1>3 DEF B

\* What a command of a linked plan reads that is not a source has been made.
LEMMA InputsMade ==
  ASSUME NEW e, NEW P, NEW name, Linked(P, name), NEW n \in 1..Len(P), NEW i \in DOMAIN P[n].ins
  PROVE  P[n].ins[i].dir = "src" \/ P[n].ins[i] \in DOMAIN Built(e, P)[n - 1]
<1>1. P \in Seq(Commands) /\ Len(P) \in Nat
  BY DEF Linked, Outline
<1>2. CASE n # Len(P)
  <2>1. n \in 1..(Len(P) - 1)
    BY <1>1, <1>2
  <2>2. P[n] \in Compilations
    BY <2>1 DEF Linked, Outline
  <2>3. P[n].ins = <<Src(P[n].out.stem)>>
    BY <2>2 DEF Compilations
  <2> DEFINE s == Src(P[n].out.stem)
  <2>4. s.dir = "src"
    BY DEF Src, File
  <2> HIDE DEF s
  <2>5. \A k \in DOMAIN <<s>> : <<s>>[k] = s
    OBVIOUS
  <2>6. P[n].ins = <<s>>
    BY <2>3 DEF s
  <2>7. P[n].ins[i] = s
    BY <2>5, <2>6, Zenon
  <2> QED
    BY <2>4, <2>7
<1>3. CASE n = Len(P)
  <2>1. \/ P[n].ins[i].dir = "src"
        \/ \E j \in 1..(n - 1) : P[j].out = P[n].ins[i]
    BY <1>3 DEF Linked
  <2>2. n - 1 \in 0..Len(P)
    BY <1>1
  <2>3. DOMAIN Built(e, P)[n - 1] = {P[j].out : j \in 1..(n - 1)}
    BY <1>1, <2>2, BuiltDomain
  <2> QED
    BY <2>1, <2>3
<1> QED
  BY <1>2, <1>3

\* The folder fs holds exactly what the first n commands make.
Exact(P, e, n, fs) ==
  \A g \in DOMAIN Built(e, P)[n] : g \in DOMAIN fs /\ fs[g] = Built(e, P)[n][g]

LEMMA ExactStart == ASSUME NEW P \in Seq(Commands), NEW e, NEW fs PROVE Exact(P, e, 0, fs)
<1>1. DOMAIN Built(e, P)[0] = {}
  BY BuiltSteps DEF NoFiles
<1> QED
  BY <1>1 DEF Exact

LEMMA ExactStep ==
  ASSUME NEW e, NEW P, NEW name, Linked(P, name), NEW n \in 1..Len(P), NEW fs,
         Exact(P, e, n - 1, fs)
  PROVE  Exact(P, e, n, After(e, P[n], fs))
<1> DEFINE B == Built(e, P)
           x == B[n - 1]
           y == B[n]
           z == After(e, P[n], fs)
           c == P[n]
<1>1. P \in Seq(Commands)
  BY DEF Linked, Outline
<1>2. y = After(e, c, x)
  BY <1>1, BuiltSteps
<1>3. \A g \in DOMAIN x : g \in DOMAIN fs /\ fs[g] = x[g]
  BY DEF Exact
<1>4. \A i \in DOMAIN c.ins : c.ins[i].dir = "src" \/ c.ins[i] \in DOMAIN x
  BY InputsMade
<1> HIDE DEF B, x, y, c
<1>5. Content(c, e, fs) = Content(c, e, x)
  <2>1. \A i \in DOMAIN c.ins : Part(c.ins[i], e, fs) = Part(c.ins[i], e, x)
    BY <1>3, <1>4 DEF Part
  <2> QED
    BY <2>1 DEF Content
<1>6. /\ DOMAIN y = DOMAIN x \cup {c.out} /\ y[c.out] = Content(c, e, x)
      /\ \A g \in DOMAIN x : g # c.out => y[g] = x[g]
  BY <1>2 DEF After, With
<1>7. z = After(e, c, fs)
  BY DEF c
<1>8. /\ DOMAIN z = DOMAIN fs \cup {c.out} /\ z[c.out] = Content(c, e, fs)
      /\ \A g \in DOMAIN fs : g # c.out => z[g] = fs[g]
  BY <1>7 DEF After, With
<1> HIDE DEF z
<1>9. \A g \in DOMAIN y : g \in DOMAIN z /\ z[g] = y[g]
  BY <1>3, <1>5, <1>6, <1>8
<1> QED
  BY <1>9 DEF Exact, B, y, z

LEMMA ShapeOfObject ==
  ASSUME NEW t, NEW o, NEW p
  PROVE  ShapeOf([tool |-> t, opts |-> o, parts |-> p]) =
           [tool |-> t, vars |-> o.vars, extra |-> o.extra, parts |-> [i \in DOMAIN p |-> p[i].source]]
<1> DEFINE x == [tool |-> t, opts |-> o, parts |-> p]
<1>1. x.tool = t /\ x.opts = o /\ x.parts = p /\ "source" \notin DOMAIN x
  OBVIOUS
<1> HIDE DEF x
<1>2. ShapeOf(x) = [tool |-> x.tool, vars |-> x.opts.vars, extra |-> x.opts.extra,
                    parts |-> [i \in DOMAIN x.parts |-> x.parts[i].source]]
  BY <1>1 DEF ShapeOf
<1>3. ShapeOf(x) = [tool |-> t, vars |-> o.vars, extra |-> o.extra,
                    parts |-> [i \in DOMAIN p |-> p[i].source]]
  BY <1>1, <1>2
<1> QED
  BY <1>3 DEF x

\* Objects of one source have the same shape if their commands are alike.
LEMMA ObjectShape ==
  ASSUME NEW c, NEW d, AlikeCommands(c, d), \A i \in DOMAIN c.ins : c.ins[i].dir = "src",
         NEW e, NEW f, NEW fs, NEW gs
  PROVE  ShapeOf(Content(c, e, fs)) = ShapeOf(Content(d, f, gs))
<1> DEFINE p == [i \in DOMAIN c.ins |-> Part(c.ins[i], e, fs)]
           q == [i \in DOMAIN d.ins |-> Part(d.ins[i], f, gs)]
<1>1. c.tool = d.tool /\ c.ins = d.ins /\ c.opts.vars = d.opts.vars /\ c.opts.extra = d.opts.extra
  BY DEF AlikeCommands
<1>2. /\ ShapeOf(Content(c, e, fs)) = [tool |-> c.tool, vars |-> c.opts.vars, extra |-> c.opts.extra,
                                       parts |-> [i \in DOMAIN p |-> p[i].source]]
      /\ ShapeOf(Content(d, f, gs)) = [tool |-> d.tool, vars |-> d.opts.vars, extra |-> d.opts.extra,
                                       parts |-> [i \in DOMAIN q |-> q[i].source]]
  <2>1. /\ Content(c, e, fs) = [tool |-> c.tool, opts |-> c.opts, parts |-> p]
        /\ Content(d, f, gs) = [tool |-> d.tool, opts |-> d.opts, parts |-> q]
    BY DEF Content
  <2> HIDE DEF p, q
  <2>2. ShapeOf([tool |-> c.tool, opts |-> c.opts, parts |-> p]) =
          [tool |-> c.tool, vars |-> c.opts.vars, extra |-> c.opts.extra,
           parts |-> [i \in DOMAIN p |-> p[i].source]]
    BY ShapeOfObject
  <2>3. ShapeOf([tool |-> d.tool, opts |-> d.opts, parts |-> q]) =
          [tool |-> d.tool, vars |-> d.opts.vars, extra |-> d.opts.extra,
           parts |-> [i \in DOMAIN q |-> q[i].source]]
    BY ShapeOfObject
  <2> QED
    BY <2>1, <2>2, <2>3, Zenon
<1>3. ASSUME NEW i \in DOMAIN c.ins
      PROVE  Part(c.ins[i], e, fs).source = Part(c.ins[i], f, gs).source
  BY DEF Part
<1>4. [i \in DOMAIN p |-> p[i].source] = [i \in DOMAIN q |-> q[i].source]
  <2>1. DOMAIN p = DOMAIN c.ins /\ DOMAIN q = DOMAIN c.ins
    BY <1>1
  <2>2. \A i \in DOMAIN c.ins : p[i].source = q[i].source
    BY <1>1, <1>3
  <2> HIDE DEF p, q
  <2> QED
    BY <2>1, <2>2
<1> HIDE DEF p, q
<1> QED
  BY <1>1, <1>2, <1>4

\* Binaries have the same shape if their commands are alike and so are the
\* objects they are linked from.
LEMMA BinaryShape ==
  ASSUME NEW c, NEW d, AlikeCommands(c, d), NEW e, NEW f, NEW fs, NEW gs,
         \A i \in DOMAIN c.ins : c.ins[i].dir = "src" \/ ShapeOf(fs[c.ins[i]]) = ShapeOf(gs[c.ins[i]])
  PROVE  Shape(Content(c, e, fs)) = Shape(Content(d, f, gs))
<1> DEFINE p == [i \in DOMAIN c.ins |-> Part(c.ins[i], e, fs)]
           q == [i \in DOMAIN d.ins |-> Part(d.ins[i], f, gs)]
<1>1. c.tool = d.tool /\ c.ins = d.ins /\ c.opts.vars = d.opts.vars /\ c.opts.extra = d.opts.extra
  BY DEF AlikeCommands
<1>2. /\ Shape(Content(c, e, fs)) = [tool |-> c.tool, vars |-> c.opts.vars, extra |-> c.opts.extra,
                                     parts |-> [i \in DOMAIN p |-> ShapeOf(p[i])]]
      /\ Shape(Content(d, f, gs)) = [tool |-> d.tool, vars |-> d.opts.vars, extra |-> d.opts.extra,
                                     parts |-> [i \in DOMAIN q |-> ShapeOf(q[i])]]
  BY DEF Content, Shape
<1>3. ASSUME NEW i \in DOMAIN c.ins
      PROVE  ShapeOf(Part(c.ins[i], e, fs)) = ShapeOf(Part(c.ins[i], f, gs))
  <2>1. CASE c.ins[i].dir = "src"
    <3>1. /\ Part(c.ins[i], e, fs) = [source |-> c.ins[i].stem, edition |-> e]
          /\ Part(c.ins[i], f, gs) = [source |-> c.ins[i].stem, edition |-> f]
      BY <2>1 DEF Part
    <3> QED
      BY <3>1 DEF ShapeOf
  <2>2. CASE c.ins[i].dir # "src"
    <3>1. Part(c.ins[i], e, fs) = fs[c.ins[i]] /\ Part(c.ins[i], f, gs) = gs[c.ins[i]]
      BY <2>2 DEF Part
    <3> QED
      BY <2>2, <3>1
  <2> QED
    BY <2>1, <2>2
<1>4. [i \in DOMAIN p |-> ShapeOf(p[i])] = [i \in DOMAIN q |-> ShapeOf(q[i])]
  <2>1. DOMAIN p = DOMAIN c.ins /\ DOMAIN q = DOMAIN c.ins
    BY <1>1
  <2>2. \A i \in DOMAIN c.ins : ShapeOf(p[i]) = ShapeOf(q[i])
    BY <1>1, <1>3
  <2> HIDE DEF p, q
  <2> QED
    BY <2>1, <2>2
<1> HIDE DEF p, q
<1> QED
  BY <1>1, <1>2, <1>4

\* The folder fs holds, up to the editions they were made from, what the
\* first n commands make.
Similar(P, e, n, fs) ==
  \A g \in DOMAIN Built(e, P)[n] :
    /\ g \in DOMAIN fs
    /\ IF g.dir = "build" THEN Shape(fs[g]) = Shape(Built(e, P)[n][g])
       ELSE ShapeOf(fs[g]) = ShapeOf(Built(e, P)[n][g])

LEMMA SimilarStart == ASSUME NEW P \in Seq(Commands), NEW e, NEW fs PROVE Similar(P, e, 0, fs)
<1>1. DOMAIN Built(e, P)[0] = {}
  BY BuiltSteps DEF NoFiles
<1> QED
  BY <1>1 DEF Similar

LEMMA SimilarStep ==
  ASSUME NEW e, NEW f, NEW P, NEW Q, NEW name, Linked(P, name), Alike(Q, P),
         NEW n \in 1..Len(P), NEW fs, Similar(P, e, n - 1, fs)
  PROVE  Similar(P, e, n, After(f, Q[n], fs))
<1> DEFINE B == Built(e, P)
           x == B[n - 1]
           y == B[n]
           d == Q[n]
           c == P[n]
           z == After(f, d, fs)
<1>1. P \in Seq(Commands) /\ Len(P) \in Nat
  BY DEF Linked, Outline
<1>2. y = After(e, c, x)
  BY <1>1, BuiltSteps
<1>3. \A g \in DOMAIN x : /\ g \in DOMAIN fs
                          /\ g.dir = "build" => Shape(fs[g]) = Shape(x[g])
                          /\ g.dir # "build" => ShapeOf(fs[g]) = ShapeOf(x[g])
  BY DEF Similar
<1>4. \A i \in DOMAIN c.ins : c.ins[i].dir = "src" \/ c.ins[i] \in DOMAIN x
  BY InputsMade
<1>5. AlikeCommands(d, c)
  BY DEF Alike
<1>6. DOMAIN x = {P[j].out : j \in 1..(n - 1)}
  <2>1. n - 1 \in 0..Len(P)
    BY <1>1
  <2> QED
    BY <1>1, <2>1, BuiltDomain
<1>7. \A g \in DOMAIN x : g.dir # "build"
  <2>1. \A j \in 1..(n - 1) : j \in 1..(Len(P) - 1)
    BY <1>1
  <2>2. \A j \in 1..(n - 1) : P[j].out.dir # "build"
    BY <2>1 DEF Linked, Outline, Compilations, ObjectDirs
  <2> HIDE DEF x
  <2> QED
    BY <1>6, <2>2
<1>8. IF c.out.dir = "build" THEN Shape(Content(d, f, fs)) = Shape(Content(c, e, x))
      ELSE ShapeOf(Content(d, f, fs)) = ShapeOf(Content(c, e, x))
  <2>1. CASE n = Len(P)
    <3>1. c.out.dir = "build"
      <4>1. c.out = Bin(name)
        BY <2>1 DEF Linked, Outline
      <4>2. Bin(name).dir = "build"
        BY DEF Bin, File
      <4> QED
        BY <4>1, <4>2
    <3> HIDE DEF c, d, x
    <3>2. d.ins = c.ins
      BY <1>5 DEF AlikeCommands
    <3>3. \A i \in DOMAIN d.ins : d.ins[i].dir = "src" \/ ShapeOf(fs[d.ins[i]]) = ShapeOf(x[d.ins[i]])
      BY <1>3, <1>4, <1>7, <3>2
    <3>4. Shape(Content(d, f, fs)) = Shape(Content(c, e, x))
      BY <1>5, <3>3, BinaryShape
    <3> QED
      BY <3>1, <3>4
  <2>2. CASE n # Len(P)
    <3>1. n \in 1..(Len(P) - 1)
      BY <1>1, <2>2
    <3>2. c \in Compilations
      BY <3>1 DEF Linked, Outline
    <3> HIDE DEF c, d, x
    <3>3. c.out.dir # "build" /\ c.ins = <<Src(c.out.stem)>>
      BY <3>2 DEF Compilations, ObjectDirs
    <3>4. d.ins = <<Src(c.out.stem)>>
      BY <1>5, <3>3 DEF AlikeCommands
    <3>5. \A i \in DOMAIN d.ins : d.ins[i].dir = "src"
      <4> DEFINE s == Src(c.out.stem)
      <4>1. s.dir = "src"
        BY DEF Src, File
      <4> HIDE DEF s
      <4>2. \A k \in DOMAIN <<s>> : <<s>>[k] = s
        OBVIOUS
      <4>3. d.ins = <<s>>
        BY <3>4 DEF s
      <4>4. \A i \in DOMAIN d.ins : d.ins[i] = s
        BY <4>2, <4>3, Zenon
      <4> QED
        BY <4>1, <4>4
    <3>6. ShapeOf(Content(d, f, fs)) = ShapeOf(Content(c, e, x))
      BY <1>5, <3>5, ObjectShape
    <3> QED
      BY <3>3, <3>6
  <2> QED
    BY <2>1, <2>2
<1> HIDE DEF B, x, y, c, d, z
<1>9. d.out = c.out
  BY <1>5 DEF AlikeCommands
<1>10. /\ DOMAIN y = DOMAIN x \cup {c.out} /\ y[c.out] = Content(c, e, x)
       /\ \A g \in DOMAIN x : g # c.out => y[g] = x[g]
  BY <1>2 DEF After, With
<1>11. /\ DOMAIN z = DOMAIN fs \cup {d.out} /\ z[d.out] = Content(d, f, fs)
       /\ \A g \in DOMAIN fs : g # d.out => z[g] = fs[g]
  BY DEF After, With, z
<1>12. ASSUME NEW g \in DOMAIN y
       PROVE  /\ g \in DOMAIN z
              /\ IF g.dir = "build" THEN Shape(z[g]) = Shape(y[g]) ELSE ShapeOf(z[g]) = ShapeOf(y[g])
  <2>1. CASE g = c.out
    BY <1>8, <1>9, <1>10, <1>11, <2>1
  <2>2. CASE g # c.out
    <3>1. g \in DOMAIN x
      BY <1>10, <2>2
    <3>2. g \in DOMAIN z /\ z[g] = fs[g] /\ y[g] = x[g]
      BY <1>3, <1>9, <1>10, <1>11, <2>2, <3>1
    <3> QED
      BY <1>3, <3>1, <3>2
  <2> QED
    BY <2>1, <2>2
<1> QED
  BY <1>12 DEF Similar, B, y, z, d

-----------------------------------------------------------------------------
(* The inductive invariant *)

Trees == [work : Editions, head : Editions]
Wants == {FindBinary(TRUE), FindBinary(FALSE), QueryDeviceAttributes}

\* The fields of a stamp, of a build and of a driver.
HasFields(r, fields) == r = [x \in fields |-> r[x]]
MadeFields == {"alone", "still", "fresh"}
StampFields == {"version", "recipe", "commands", "dirty", "revision", "fingerprint", "hash", "made"}
BuildFields == {"pc", "recipe", "plan", "next", "out", "stamp", "alone", "still"}
GitFields == {"revision", "dirty", "fingerprint"}
DriverFields == {"pc", "want", "git", "stamp", "hash", "calm"}
IsStamp(s) == HasFields(s, StampFields) /\ HasFields(s.made, MadeFields)
IsBuild(r) == HasFields(r, BuildFields)
IsDriver(d) == HasFields(d, DriverFields) /\ HasFields(d.git, GitFields)

\* The recipes whose stamp names all the commands that made the binary.  The
\* fault build links the objects an earlier build-cuda left behind.
Whole(recipe) == recipe \in BUILD_RECIPES /\ Stamped(recipe) /\ recipe # "build-cuda-fault"

\* The commands of a build are those of its recipe in one edition, in that of
\* the tree unless it changed since.
Planned(r, t) ==
  /\ r.recipe \in Recipes
  /\ \E e \in Editions : r.plan = Work(e, r.recipe)
  /\ r.still => r.plan = Work(t.work, r.recipe)
  /\ r.out = Output(r.plan)
  /\ r.next \in 1..(Len(r.plan) + 1)

\* What a build that runs alone has made so far.
Made(r, t, fs) ==
  r.alone /\ Whole(r.recipe) =>
    /\ \A e \in Editions : Similar(CommandPlan(e, r.recipe), e, r.next - 1, fs)
    /\ r.still => Exact(r.plan, t.work, r.next - 1, fs)

\* What write_stamp has read so far.
HasHash == {"open", "write"}
HasFingerprint == HasHash \cup {"hash"}
HasRevision == HasFingerprint \cup {"fingerprint"}
HasStatus == HasRevision \cup {"revision"}
Stamping == HasStatus \cup {"status"}
Filling(r, t, fs) ==
  /\ Stamped(r.recipe) /\ r.next = Len(r.plan) + 1
  /\ IsStamp(r.stamp) /\ r.stamp.recipe = r.recipe
  /\ \E e \in Editions : r.stamp.commands = CommandPlan(e, r.recipe)
  /\ r.still => /\ r.stamp.commands = CommandPlan(t.work, r.recipe)
                /\ r.pc \in HasStatus => r.stamp.dirty = Dirty(t)
                /\ r.pc \in HasRevision => r.stamp.revision = t.head
                /\ r.pc \in HasFingerprint => r.stamp.fingerprint = TreeFingerprint(t)
  /\ r.alone /\ r.pc \in HasHash => r.out \in DOMAIN fs /\ r.stamp.hash = fs[r.out]

BuilderOk(r, t, fs) ==
  /\ IsBuild(r) /\ r.pc \in {"idle", "run"} \cup Stamping
  /\ r.pc # "idle" => Planned(r, t) /\ Made(r, t, fs)
  /\ r.pc \in Stamping => Filling(r, t, fs)

\* The provenance of a stamp is that of one tree.
Provenance(s, t) ==
  s.revision = t.head /\ s.dirty = Dirty(t) /\ s.fingerprint = TreeFingerprint(t)

\* What a stamp beside binary n says is so, whatever happens afterwards.
StampSound(s, n) ==
  s # NoStamp =>
    /\ s.recipe \in BUILD_RECIPES /\ Stamped(s.recipe) /\ n = BinaryOf(s.recipe)
    /\ \E e \in Editions : s.commands = CommandPlan(e, s.recipe)
    /\ s.made.alone /\ Whole(s.recipe) =>
         /\ \A e \in Editions : Shape(s.hash) = Shape(Expected(e, s.recipe))
         /\ s.made.still => \E t \in Trees : /\ Provenance(s, t)
                                             /\ s.hash = Expected(t.work, s.recipe)
                                             /\ s.commands = CommandPlan(t.work, s.recipe)

\* A fresh stamp agrees with the tree and with the binary.
Fresh(s) == s # NoStamp /\ s.made.fresh
FreshSound(s, n, t, fs) ==
  Fresh(s) => /\ Bin(n) \in DOMAIN fs /\ s.hash = fs[Bin(n)]
              /\ Provenance(s, t) /\ s.commands = CommandPlan(t.work, s.recipe)

\* A driver past HashBinary has compared its stamp field by field.
Verified(d) ==
  /\ d.stamp.hash = d.hash /\ d.stamp.recipe \in d.want.recipes
  /\ d.stamp.revision = d.git.revision
  /\ d.stamp.dirty = d.git.dirty /\ d.stamp.fingerprint = d.git.fingerprint
DriverPcs == {"revision", "status", "fingerprint", "stamp", "hash", "commands", "use", "refused"}
DriverOk(d) ==
  /\ IsDriver(d) /\ d.pc \in DriverPcs /\ d.want \in Wants
  /\ d.pc \in {"hash", "commands", "use"} => d.stamp # NoStamp /\ StampSound(d.stamp, d.want.binary)
  /\ d.pc \in {"commands", "use"} => Verified(d)
\* What a calm driver has read is what is there.
CalmOk(d, t, s) ==
  /\ d.pc \notin {"revision", "refused"}
  /\ d.git.revision = t.head
  /\ d.pc # "status" => d.git.dirty = Dirty(t)
  /\ d.pc \notin {"status", "fingerprint"} => d.git.fingerprint = TreeFingerprint(t)
  /\ d.pc \in {"hash", "commands", "use"} => d.stamp = s

TreeInv == tree \in Trees
ScriptInv == script \in [Builders -> Seq(Recipes)]
BuildInv == DOMAIN build = Builders /\ \A b \in Builders : BuilderOk(build[b], tree, files)
AloneInv == \A b, c \in Builders : Active(b) /\ build[b].alone /\ c # b => ~Active(c)
StampInv == \A n \in DOMAIN stamps : n \in Programs /\ IsStamp(stamps[n]) /\ StampSound(stamps[n], n)
FreshInv ==
  \A n \in DOMAIN stamps :
    /\ FreshSound(stamps[n], n, tree, files)
    /\ Fresh(stamps[n]) => \A b \in Builders : Active(b) => build[b].out # Bin(n)
DriverInv == DriverOk(driver)
CalmInv == driver.calm => CalmFor(driver.want) /\ CalmOk(driver, tree, stamps[driver.want.binary])
IInv == TreeInv /\ ScriptInv /\ BuildInv /\ AloneInv /\ StampInv /\ FreshInv /\ DriverInv /\ CalmInv

-----------------------------------------------------------------------------
(* What the parts of the invariant say of one build, one stamp, one driver *)

LEMMA IdleOk == \A t, fs : BuilderOk(Idle, t, fs)
  BY DEF BuilderOk, Idle, IsBuild, HasFields, BuildFields, Stamping, HasStatus, HasRevision,
         HasFingerprint, HasHash

\* A build knows nothing of the folder unless it runs alone.
LEMMA FolderChanges ==
  ASSUME NEW r, NEW t, NEW fs, NEW gs, BuilderOk(r, t, fs), r.pc = "idle" \/ ~r.alone
  PROVE  BuilderOk(r, t, gs)
<1>1. CASE r.pc = "idle"
  BY <1>1 DEF BuilderOk, Stamping, HasStatus, HasRevision, HasFingerprint, HasHash
<1>2. CASE ~r.alone
  <2>1. Made(r, t, gs)
    BY <1>2 DEF Made
  <2>2. r.pc \in Stamping => Filling(r, t, gs)
    BY <1>2 DEF BuilderOk, Filling
  <2> QED
    BY <2>1, <2>2 DEF BuilderOk
<1> QED
  BY <1>1, <1>2

LEMMA OverlapBegins ==
  ASSUME NEW r, NEW t, NEW fs, BuilderOk(r, t, fs)
  PROVE  BuilderOk([r EXCEPT !.alone = FALSE], t, fs)
<1> DEFINE q == [r EXCEPT !.alone = FALSE]
<1>1. IsBuild(r)
  BY DEF BuilderOk
<1>2. /\ IsBuild(q) /\ q.pc = r.pc /\ q.recipe = r.recipe /\ q.plan = r.plan /\ q.next = r.next
      /\ q.out = r.out /\ q.stamp = r.stamp /\ q.still = r.still /\ ~q.alone
  BY <1>1 DEF IsBuild, HasFields, BuildFields
<1> HIDE DEF q
<1>3. Made(q, t, fs)
  BY <1>2 DEF Made
<1>4. r.pc # "idle" => Planned(q, t)
  BY <1>2 DEF BuilderOk, Planned
<1>5. r.pc \in Stamping => Filling(q, t, fs)
  BY <1>2 DEF BuilderOk, Filling
<1>6. BuilderOk(q, t, fs)
  BY <1>2, <1>3, <1>4, <1>5 DEF BuilderOk
<1> QED
  BY <1>6 DEF q

LEMMA TreeMoves ==
  ASSUME NEW r, NEW t, NEW u, NEW fs, BuilderOk(r, t, fs)
  PROVE  BuilderOk([r EXCEPT !.still = FALSE], u, fs)
<1> DEFINE q == [r EXCEPT !.still = FALSE]
<1>1. IsBuild(r)
  BY DEF BuilderOk
<1>2. /\ IsBuild(q) /\ q.pc = r.pc /\ q.recipe = r.recipe /\ q.plan = r.plan /\ q.next = r.next
      /\ q.out = r.out /\ q.stamp = r.stamp /\ q.alone = r.alone /\ ~q.still
  BY <1>1 DEF IsBuild, HasFields, BuildFields
<1> HIDE DEF q
<1>3. r.pc # "idle" => Made(q, u, fs)
  BY <1>2 DEF BuilderOk, Made
<1>4. r.pc # "idle" => Planned(q, u)
  BY <1>2 DEF BuilderOk, Planned
<1>5. r.pc \in Stamping => Filling(q, u, fs)
  BY <1>2 DEF BuilderOk, Filling
<1>6. BuilderOk(q, u, fs)
  BY <1>2, <1>3, <1>4, <1>5 DEF BuilderOk
<1> QED
  BY <1>6 DEF q

\* A whole recipe has one outline in all editions.
LEMMA WholePlan ==
  ASSUME NEW e \in Editions, NEW f \in Editions, NEW r, Whole(r)
  PROVE  /\ Work(e, r) = CommandPlan(e, r)
         /\ Linked(CommandPlan(e, r), BinaryOf(r)) /\ Alike(CommandPlan(e, r), CommandPlan(f, r))
         /\ Clean(CommandPlan(e, r)) /\ BinaryOf(r) \in Programs
  BY StampedPlan DEF Whole, Good

LEMMA BuildStarts ==
  ASSUME NEW t \in Trees, NEW recipe \in Recipes, NEW a, NEW fs
  PROVE  BuilderOk([Idle EXCEPT !.pc = "run", !.recipe = recipe, !.plan = Work(t.work, recipe),
                                !.out = Output(Work(t.work, recipe)), !.alone = a, !.still = TRUE], t, fs)
<1> DEFINE work == Work(t.work, recipe)
           q == [Idle EXCEPT !.pc = "run", !.recipe = recipe, !.plan = work,
                             !.out = Output(work), !.alone = a, !.still = TRUE]
<1>1. t.work \in Editions
  BY DEF Trees
<1>2. work \in Seq(Commands) /\ Len(work) > 0
  BY <1>1, WorkOutline
<1>3. /\ IsBuild(q) /\ q.pc = "run" /\ q.recipe = recipe /\ q.plan = work /\ q.next = 1
      /\ q.out = Output(work) /\ q.alone = a
  <2> HIDE DEF work
  <2> QED
    BY DEF Idle, IsBuild, HasFields, BuildFields
<1> HIDE DEF q
<1>4. Planned(q, t)
  <2>1. Len(work) \in Nat
    BY <1>2
  <2>2. q.next \in 1..(Len(work) + 1)
    BY <1>3, <2>1
  <2> QED
    BY <1>1, <1>3, <2>2 DEF Planned
<1>5. Made(q, t, fs)
  <2>1. SUFFICES ASSUME Whole(recipe)
                 PROVE  /\ \A e \in Editions : Similar(CommandPlan(e, recipe), e, 0, fs)
                        /\ Exact(work, t.work, 0, fs)
    BY <1>3 DEF Made
  <2>2. \A e \in Editions : Linked(CommandPlan(e, recipe), BinaryOf(recipe))
    BY <2>1, WholePlan
  <2>3. \A e \in Editions : CommandPlan(e, recipe) \in Seq(Commands)
    BY <2>2 DEF Linked, Outline
  <2>4. \A e \in Editions : Similar(CommandPlan(e, recipe), e, 0, fs)
    BY <2>3, SimilarStart
  <2>5. Exact(work, t.work, 0, fs)
    BY <1>2, ExactStart
  <2> QED
    BY <2>4, <2>5
<1>6. q.pc \notin Stamping /\ q.pc \in {"idle", "run"} \cup Stamping
  BY <1>3 DEF Stamping, HasStatus, HasRevision, HasFingerprint, HasHash
<1>7. BuilderOk(q, t, fs)
  BY <1>3, <1>4, <1>5, <1>6 DEF BuilderOk
<1> QED
  BY <1>7 DEF q

\* A build makes objects, its own binary, or programs of a suite.
LEMMA WritesItsOwn ==
  ASSUME NEW r, NEW t, Planned(r, t), NEW n \in Programs, r.out # Bin(n), NEW j \in 1..Len(r.plan)
  PROVE  r.plan[j].out # Bin(n)
<1>1. PICK e \in Editions : r.plan = Work(e, r.recipe)
  BY DEF Planned
<1>2. r.recipe \in Recipes /\ r.out = Output(r.plan)
  BY DEF Planned
<1>3. Bin(n).dir = "build" /\ Bin(n).stem = n
  BY DEF Bin, File
<1>4. CASE Stamped(r.recipe)
  <2>1. Outline(r.plan, BinaryOf(r.recipe)) /\ r.out = Bin(BinaryOf(r.recipe))
    BY <1>1, <1>2, <1>4, WorkOutline
  <2>2. CASE j = Len(r.plan)
    BY <2>1, <2>2 DEF Outline
  <2>3. CASE j # Len(r.plan)
    <3>1. Len(r.plan) \in Nat
      BY <2>1 DEF Outline
    <3>2. j \in 1..(Len(r.plan) - 1)
      BY <2>3, <3>1
    <3>3. r.plan[j] \in Compilations
      BY <2>1, <3>2 DEF Outline
    <3>4. r.plan[j].out.dir # "build"
      BY <3>3 DEF Compilations, ObjectDirs
    <3> QED
      BY <1>3, <3>4
  <2> QED
    BY <2>2, <2>3
<1>5. CASE ~Stamped(r.recipe)
  <2>1. Suite(r.plan)
    BY <1>1, <1>2, <1>5, WorkOutline
  <2>2. r.plan[j].out.dir = "build" => r.plan[j].out.stem \in SuitePrograms
    BY <2>1 DEF Suite
  <2>3. n \notin SuitePrograms
    BY DEF Programs, SuitePrograms
  <2> QED
    BY <1>3, <2>2, <2>3
<1> QED
  BY <1>4, <1>5

LEMMA CommandRuns ==
  ASSUME NEW r, NEW t \in Trees, NEW fs, NEW gs, BuilderOk(r, t, fs),
         r.pc = "run", r.next <= Len(r.plan),
         gs = IF r.plan[r.next].out = NoOutput THEN fs
              ELSE With(fs, r.plan[r.next].out, Content(r.plan[r.next], t.work, fs))
  PROVE  BuilderOk([r EXCEPT !.next = @ + 1], t, gs)
<1> DEFINE q == [r EXCEPT !.next = @ + 1]
           c == r.plan[r.next]
<1>1. IsBuild(r) /\ Planned(r, t) /\ Made(r, t, fs) /\ t.work \in Editions
  BY DEF BuilderOk, Trees
<1>2. PICK x \in Editions : r.plan = Work(x, r.recipe)
  BY <1>1 DEF Planned
<1>3. r.recipe \in Recipes /\ r.plan \in Seq(Commands)
  BY <1>1, <1>2, WorkOutline DEF Planned
<1>4. r.next \in 1..Len(r.plan) /\ Len(r.plan) \in Nat /\ r.next - 1 \in Nat
  BY <1>1, <1>3 DEF Planned
<1>5. /\ IsBuild(q) /\ q.pc = r.pc /\ q.recipe = r.recipe /\ q.plan = r.plan /\ q.next = r.next + 1
      /\ q.out = r.out /\ q.stamp = r.stamp /\ q.alone = r.alone /\ q.still = r.still
  BY <1>1 DEF IsBuild, HasFields, BuildFields
<1> HIDE DEF q
<1>6. q.next \in 1..(Len(q.plan) + 1) /\ q.next - 1 = r.next
  BY <1>4, <1>5
<1>7. Planned(q, t)
  BY <1>1, <1>5, <1>6 DEF Planned
<1>8. Made(q, t, gs)
  <2>1. SUFFICES ASSUME r.alone, Whole(r.recipe)
                 PROVE  /\ \A e \in Editions : Similar(CommandPlan(e, r.recipe), e, r.next, gs)
                        /\ r.still => Exact(r.plan, t.work, r.next, gs)
    BY <1>5, <1>6 DEF Made
  <2>2. Linked(r.plan, BinaryOf(r.recipe)) /\ r.plan = CommandPlan(x, r.recipe)
    BY <1>2, <2>1, WholePlan
  <2>3. c.out # NoOutput
    <3>1. c.out.dir # ""
      <4>1. CASE r.next = Len(r.plan)
        <5>1. c.out = Bin(BinaryOf(r.recipe))
          BY <2>2, <4>1 DEF Linked, Outline
        <5>2. Bin(BinaryOf(r.recipe)).dir = "build"
          BY DEF Bin, File
        <5> QED
          BY <5>1, <5>2
      <4>2. CASE r.next # Len(r.plan)
        <5>1. r.next \in 1..(Len(r.plan) - 1)
          BY <1>4, <4>2
        <5>2. c \in Compilations
          BY <2>2, <5>1 DEF Linked, Outline
        <5> QED
          BY <5>2 DEF Compilations, ObjectDirs
      <4> QED
        BY <4>1, <4>2
    <3>2. NoOutput.dir = ""
      BY DEF NoOutput, File
    <3> QED
      BY <3>1, <3>2
  <2>4. gs = After(t.work, c, fs)
    BY <2>3 DEF After
  <2>5. ASSUME NEW e \in Editions PROVE Similar(CommandPlan(e, r.recipe), e, r.next, gs)
    <3> DEFINE P == CommandPlan(e, r.recipe)
    <3>1. Linked(P, BinaryOf(r.recipe)) /\ Alike(r.plan, P)
      BY <2>1, <2>2, WholePlan
    <3>2. r.next \in 1..Len(P)
      BY <1>4, <3>1 DEF Alike
    <3>3. Similar(P, e, r.next - 1, fs)
      BY <1>1, <2>1 DEF Made
    <3> HIDE DEF P
    <3>4. Similar(P, e, r.next, After(t.work, c, fs))
      BY <3>1, <3>2, <3>3, SimilarStep
    <3> QED
      BY <2>4, <3>4 DEF P
  <2>6. ASSUME r.still PROVE Exact(r.plan, t.work, r.next, gs)
    <3>1. Exact(r.plan, t.work, r.next - 1, fs)
      BY <1>1, <2>1, <2>6 DEF Made
    <3>2. Exact(r.plan, t.work, r.next, After(t.work, c, fs))
      BY <1>4, <2>2, <3>1, ExactStep
    <3> QED
      BY <2>4, <3>2
  <2> QED
    BY <2>5, <2>6
<1>9. q.pc \notin Stamping /\ q.pc \in {"idle", "run"} \cup Stamping
  BY <1>5 DEF Stamping, HasStatus, HasRevision, HasFingerprint, HasHash
<1>10. BuilderOk(q, t, gs)
  BY <1>5, <1>7, <1>8, <1>9 DEF BuilderOk
<1> QED
  BY <1>10 DEF q

LEMMA StampFilled ==
  ASSUME NEW r, NEW t, NEW fs, BuilderOk(r, t, fs), r.pc \in Stamping, NEW to \in Stamping,
         NEW s, IsStamp(s), s.recipe = r.stamp.recipe, s.commands = r.stamp.commands,
         r.still => /\ to \in HasStatus => s.dirty = Dirty(t)
                    /\ to \in HasRevision => s.revision = t.head
                    /\ to \in HasFingerprint => s.fingerprint = TreeFingerprint(t),
         r.alone /\ to \in HasHash => r.out \in DOMAIN fs /\ s.hash = fs[r.out]
  PROVE  BuilderOk([r EXCEPT !.pc = to, !.stamp = s], t, fs)
<1> DEFINE q == [r EXCEPT !.pc = to, !.stamp = s]
<1>1. IsBuild(r) /\ Filling(r, t, fs)
  BY DEF BuilderOk
<1>2. r.pc # "idle" /\ Planned(r, t) /\ Made(r, t, fs)
  BY DEF BuilderOk, Stamping, HasStatus, HasRevision, HasFingerprint, HasHash
<1>3. /\ IsBuild(q) /\ q.pc = to /\ q.recipe = r.recipe /\ q.plan = r.plan /\ q.next = r.next
      /\ q.out = r.out /\ q.stamp = s /\ q.alone = r.alone /\ q.still = r.still
  BY <1>1 DEF IsBuild, HasFields, BuildFields
<1> HIDE DEF q
<1>4. Planned(q, t) /\ Made(q, t, fs)
  BY <1>2, <1>3 DEF Planned, Made
<1>5. Filling(q, t, fs)
  BY <1>1, <1>3 DEF Filling
<1>6. BuilderOk(q, t, fs)
  BY <1>3, <1>4, <1>5 DEF BuilderOk
<1> QED
  BY <1>6 DEF q

LEMMA StampStarts ==
  ASSUME NEW r, NEW t \in Trees, NEW fs, BuilderOk(r, t, fs),
         r.pc = "run", r.next > Len(r.plan), Stamped(r.recipe)
  PROVE  BuilderOk([r EXCEPT !.pc = "status",
                      !.stamp = [NoStamp EXCEPT !.version = 1, !.recipe = r.recipe,
                                                !.commands = CommandPlan(t.work, r.recipe)]], t, fs)
<1> DEFINE commands == CommandPlan(t.work, r.recipe)
           s == [NoStamp EXCEPT !.version = 1, !.recipe = r.recipe, !.commands = commands]
           q == [r EXCEPT !.pc = "status", !.stamp = s]
<1>1. IsBuild(r) /\ Planned(r, t) /\ Made(r, t, fs) /\ t.work \in Editions
  BY DEF BuilderOk, Trees
<1>2. Len(r.plan) \in Nat
  <2>1. PICK x \in Editions : r.plan = Work(x, r.recipe)
    BY <1>1 DEF Planned
  <2> QED
    BY <1>1, <2>1, WorkOutline DEF Planned
<1>3. r.next = Len(r.plan) + 1
  BY <1>1, <1>2 DEF Planned
<1>4. IsStamp(s) /\ s.recipe = r.recipe /\ s.commands = commands
  <2> HIDE DEF commands
  <2>1. /\ HasFields(NoStamp, StampFields)
        /\ HasFields([alone |-> FALSE, still |-> FALSE, fresh |-> FALSE], MadeFields)
    BY DEF NoStamp, HasFields, StampFields, MadeFields
  <2>2. NoStamp.made = [alone |-> FALSE, still |-> FALSE, fresh |-> FALSE]
    BY DEF NoStamp
  <2>3. HasFields(s, StampFields) /\ s.recipe = r.recipe /\ s.commands = commands /\ s.made = NoStamp.made
    BY <2>1 DEF HasFields, StampFields
  <2> HIDE DEF s
  <2>4. HasFields(s.made, MadeFields)
    BY <2>1, <2>2, <2>3
  <2> QED
    BY <2>3, <2>4 DEF IsStamp
<1> HIDE DEF s
<1>5. /\ IsBuild(q) /\ q.pc = "status" /\ q.recipe = r.recipe /\ q.plan = r.plan /\ q.next = r.next
      /\ q.out = r.out /\ q.stamp = s /\ q.alone = r.alone /\ q.still = r.still
  BY <1>1 DEF IsBuild, HasFields, BuildFields
<1> HIDE DEF q
<1>6. Planned(q, t) /\ Made(q, t, fs)
  BY <1>1, <1>5 DEF Planned, Made
<1>7. q.pc \in Stamping /\ q.pc \notin HasStatus /\ q.pc \notin HasRevision /\ q.pc \notin HasFingerprint
      /\ q.pc \notin HasHash
  BY <1>5 DEF Stamping, HasStatus, HasRevision, HasFingerprint, HasHash
<1>8. Filling(q, t, fs)
  BY <1>1, <1>3, <1>4, <1>5, <1>7 DEF Filling
<1>9. BuilderOk(q, t, fs)
  BY <1>5, <1>6, <1>7, <1>8 DEF BuilderOk
<1> QED
  BY <1>9 DEF q, s

\* One more field of the stamp.
LEMMA StatusRead ==
  ASSUME NEW r, NEW t, NEW fs, BuilderOk(r, t, fs), r.pc = "status"
  PROVE  BuilderOk([r EXCEPT !.pc = "revision", !.stamp = [r.stamp EXCEPT !.dirty = Dirty(t)]], t, fs)
<1> DEFINE d == Dirty(t)
           s == [r.stamp EXCEPT !.dirty = d]
           to == "revision"
<1>1. r.pc \in Stamping /\ to \in Stamping /\ to \notin HasRevision /\ to \notin HasFingerprint
      /\ to \notin HasHash
  BY DEF Stamping, HasStatus, HasRevision, HasFingerprint, HasHash
<1>2. Filling(r, t, fs)
  BY <1>1 DEF BuilderOk
<1>3. IsStamp(r.stamp)
  BY <1>2 DEF Filling
<1> HIDE DEF to, d
<1>4. IsStamp(s) /\ s.recipe = r.stamp.recipe /\ s.commands = r.stamp.commands /\ s.dirty = d
  BY <1>3 DEF IsStamp, HasFields, StampFields
<1> HIDE DEF s
<1>5. BuilderOk([r EXCEPT !.pc = to, !.stamp = s], t, fs)
  BY <1>1, <1>4, StampFilled DEF d
<1> QED
  BY <1>5 DEF s, to, d

LEMMA RevisionRead ==
  ASSUME NEW r, NEW t, NEW fs, BuilderOk(r, t, fs), r.pc = "revision"
  PROVE  BuilderOk([r EXCEPT !.pc = "fingerprint", !.stamp = [r.stamp EXCEPT !.revision = t.head]], t, fs)
<1> DEFINE s == [r.stamp EXCEPT !.revision = t.head]
           to == "fingerprint"
<1>1. r.pc \in Stamping /\ r.pc \in HasStatus /\ to \in Stamping /\ to \notin HasFingerprint /\ to \notin HasHash
  BY DEF Stamping, HasStatus, HasRevision, HasFingerprint, HasHash
<1>2. Filling(r, t, fs)
  BY <1>1 DEF BuilderOk
<1>3. IsStamp(r.stamp) /\ (r.still => r.stamp.dirty = Dirty(t))
  BY <1>1, <1>2 DEF Filling
<1> HIDE DEF to
<1>4. IsStamp(s) /\ s.recipe = r.stamp.recipe /\ s.commands = r.stamp.commands /\ s.revision = t.head
      /\ s.dirty = r.stamp.dirty
  BY <1>3 DEF IsStamp, HasFields, StampFields
<1> HIDE DEF s
<1>5. r.still => s.dirty = Dirty(t)
  BY <1>3, <1>4
<1>6. BuilderOk([r EXCEPT !.pc = to, !.stamp = s], t, fs)
  BY <1>1, <1>4, <1>5, StampFilled
<1> QED
  BY <1>6 DEF s, to

LEMMA FingerprintRead ==
  ASSUME NEW r, NEW t, NEW fs, BuilderOk(r, t, fs), r.pc = "fingerprint"
  PROVE  BuilderOk([r EXCEPT !.pc = "hash",
                             !.stamp = [r.stamp EXCEPT !.fingerprint = TreeFingerprint(t)]], t, fs)
<1> DEFINE p == TreeFingerprint(t)
           s == [r.stamp EXCEPT !.fingerprint = p]
           to == "hash"
<1>1. r.pc \in Stamping /\ r.pc \in HasStatus /\ r.pc \in HasRevision /\ to \in Stamping /\ to \notin HasHash
  BY DEF Stamping, HasStatus, HasRevision, HasFingerprint, HasHash
<1>2. Filling(r, t, fs)
  BY <1>1 DEF BuilderOk
<1>3. IsStamp(r.stamp) /\ (r.still => r.stamp.dirty = Dirty(t) /\ r.stamp.revision = t.head)
  BY <1>1, <1>2 DEF Filling
<1> HIDE DEF to, p
<1>4. IsStamp(s) /\ s.recipe = r.stamp.recipe /\ s.commands = r.stamp.commands
      /\ s.revision = r.stamp.revision /\ s.dirty = r.stamp.dirty /\ s.fingerprint = p
  BY <1>3 DEF IsStamp, HasFields, StampFields
<1> HIDE DEF s
<1>5. r.still => s.dirty = Dirty(t) /\ s.revision = t.head
  BY <1>3, <1>4
<1>6. BuilderOk([r EXCEPT !.pc = to, !.stamp = s], t, fs)
  BY <1>1, <1>4, <1>5, StampFilled DEF p
<1> QED
  BY <1>6 DEF s, to, p

LEMMA HashRead ==
  ASSUME NEW r, NEW t, NEW fs, BuilderOk(r, t, fs), r.pc = "hash", r.out \in DOMAIN fs
  PROVE  BuilderOk([r EXCEPT !.pc = "open", !.stamp = [r.stamp EXCEPT !.hash = fs[r.out]]], t, fs)
<1> DEFINE s == [r.stamp EXCEPT !.hash = fs[r.out]]
           to == "open"
<1>1. r.pc \in Stamping /\ r.pc \in HasStatus /\ r.pc \in HasRevision /\ r.pc \in HasFingerprint /\ to \in Stamping
  BY DEF Stamping, HasStatus, HasRevision, HasFingerprint, HasHash
<1>2. Filling(r, t, fs)
  BY <1>1 DEF BuilderOk
<1>3. IsStamp(r.stamp)
      /\ (r.still => /\ r.stamp.dirty = Dirty(t) /\ r.stamp.revision = t.head
                     /\ r.stamp.fingerprint = TreeFingerprint(t))
  BY <1>1, <1>2 DEF Filling
<1> HIDE DEF to
<1>4. IsStamp(s) /\ s.recipe = r.stamp.recipe /\ s.commands = r.stamp.commands
      /\ s.revision = r.stamp.revision /\ s.dirty = r.stamp.dirty /\ s.fingerprint = r.stamp.fingerprint
      /\ s.hash = fs[r.out]
  BY <1>3 DEF IsStamp, HasFields, StampFields
<1> HIDE DEF s
<1>5. r.still => s.dirty = Dirty(t) /\ s.revision = t.head /\ s.fingerprint = TreeFingerprint(t)
  BY <1>3, <1>4
<1>6. BuilderOk([r EXCEPT !.pc = to, !.stamp = s], t, fs)
  BY <1>1, <1>4, <1>5, StampFilled
<1> QED
  BY <1>6 DEF s, to

LEMMA StampOpened ==
  ASSUME NEW r, NEW t, NEW fs, BuilderOk(r, t, fs), r.pc = "open"
  PROVE  BuilderOk([r EXCEPT !.pc = "write"], t, fs)
<1> DEFINE s == r.stamp
           to == "write"
<1>1. /\ r.pc \in Stamping /\ r.pc \in HasStatus /\ r.pc \in HasRevision /\ r.pc \in HasFingerprint
      /\ r.pc \in HasHash /\ to \in Stamping
  BY DEF Stamping, HasStatus, HasRevision, HasFingerprint, HasHash
<1>2. Filling(r, t, fs) /\ IsBuild(r)
  BY <1>1 DEF BuilderOk
<1>3. /\ IsStamp(s)
      /\ (r.still => s.dirty = Dirty(t) /\ s.revision = t.head /\ s.fingerprint = TreeFingerprint(t))
      /\ r.alone => r.out \in DOMAIN fs /\ s.hash = fs[r.out]
  BY <1>1, <1>2 DEF Filling
<1> HIDE DEF to, s
<1>4. s.recipe = r.stamp.recipe /\ s.commands = r.stamp.commands
  BY DEF s
<1>5. BuilderOk([r EXCEPT !.pc = to, !.stamp = s], t, fs)
  BY <1>1, <1>3, <1>4, StampFilled
<1>6. [r EXCEPT !.pc = to, !.stamp = r.stamp] = [r EXCEPT !.pc = to]
  BY <1>2 DEF IsBuild, HasFields, BuildFields
<1> QED
  BY <1>5, <1>6 DEF s, to

\* The binary of a whole recipe, after its last command.
LEMMA BinaryMade ==
  ASSUME NEW e \in Editions, NEW r, Whole(r)
  PROVE  LET P == CommandPlan(e, r)
         IN  /\ Len(P) \in Nat /\ Bin(BinaryOf(r)) \in DOMAIN Built(e, P)[Len(P)]
             /\ Expected(e, r) = Built(e, P)[Len(P)][Bin(BinaryOf(r))]
<1> DEFINE P == CommandPlan(e, r)
           b == Bin(BinaryOf(r))
<1>1. Linked(P, BinaryOf(r))
  BY WholePlan
<1>2. P \in Seq(Commands) /\ Len(P) > 0 /\ Len(P) \in Nat /\ P[Len(P)].out = b
  BY <1>1 DEF Linked, Outline
<1>3. Expected(e, r) = Built(e, P)[Len(P)][Last(P).out]
  BY DEF Expected
<1> HIDE DEF P, b
<1>4. Last(P).out = b
  BY <1>2 DEF Last
<1>5. DOMAIN Built(e, P)[Len(P)] = {P[j].out : j \in 1..Len(P)}
  <2>1. Len(P) \in 0..Len(P)
    BY <1>2
  <2> QED
    BY <1>2, <2>1, BuiltDomain
<1>6. Len(P) \in 1..Len(P)
  BY <1>2
<1>7. b \in DOMAIN Built(e, P)[Len(P)]
  BY <1>2, <1>5, <1>6
<1> QED
  BY <1>2, <1>3, <1>4, <1>7 DEF P, b

LEMMA StampWritten ==
  ASSUME NEW r, NEW t \in Trees, NEW fs, BuilderOk(r, t, fs), r.pc = "write", NEW s,
         s = [r.stamp EXCEPT !.made = [alone |-> r.alone, still |-> r.still, fresh |-> r.alone /\ r.still]]
  PROVE  /\ IsStamp(s) /\ r.out.stem \in Programs /\ r.out = Bin(r.out.stem)
         /\ StampSound(s, r.out.stem) /\ FreshSound(s, r.out.stem, t, fs)
         /\ s.made.fresh => r.alone
<1> DEFINE name == BinaryOf(r.recipe)
<1>1. /\ r.pc \in Stamping /\ r.pc \in HasStatus /\ r.pc \in HasRevision /\ r.pc \in HasFingerprint
      /\ r.pc \in HasHash /\ r.pc # "idle"
  BY DEF Stamping, HasStatus, HasRevision, HasFingerprint, HasHash
<1>2. Filling(r, t, fs) /\ Planned(r, t) /\ Made(r, t, fs) /\ t.work \in Editions
  BY <1>1 DEF BuilderOk, Trees
<1>3. PICK x \in Editions : r.plan = Work(x, r.recipe)
  BY <1>2 DEF Planned
<1>4. r.recipe \in Recipes /\ Stamped(r.recipe) /\ r.out = Output(r.plan) /\ r.next = Len(r.plan) + 1
  BY <1>2 DEF Planned, Filling
<1>5. r.recipe \in BUILD_RECIPES /\ name \in Programs /\ r.out = Bin(name) /\ r.plan \in Seq(Commands)
  BY <1>3, <1>4, WorkOutline
<1>6. r.out.stem = name
  <2>1. Bin(name).stem = name
    BY DEF Bin, File
  <2> QED
    BY <1>5, <2>1
<1>7. /\ IsStamp(r.stamp) /\ r.stamp.recipe = r.recipe
      /\ \E e \in Editions : r.stamp.commands = CommandPlan(e, r.recipe)
      /\ r.still => /\ r.stamp.commands = CommandPlan(t.work, r.recipe) /\ r.stamp.dirty = Dirty(t)
                    /\ r.stamp.revision = t.head /\ r.stamp.fingerprint = TreeFingerprint(t)
      /\ r.alone => r.out \in DOMAIN fs /\ r.stamp.hash = fs[r.out]
  BY <1>1, <1>2 DEF Filling
<1>8. /\ HasFields(s, StampFields) /\ s.recipe = r.stamp.recipe /\ s.commands = r.stamp.commands
      /\ s.dirty = r.stamp.dirty /\ s.revision = r.stamp.revision
      /\ s.fingerprint = r.stamp.fingerprint /\ s.hash = r.stamp.hash
      /\ s.made = [alone |-> r.alone, still |-> r.still, fresh |-> r.alone /\ r.still]
  BY <1>7 DEF IsStamp, HasFields, StampFields
<1>9. s.made.alone = r.alone /\ s.made.still = r.still /\ (s.made.fresh => r.alone /\ r.still)
  <2> DEFINE f == r.alone /\ r.still
  <2>1. s.made = [alone |-> r.alone, still |-> r.still, fresh |-> f]
    BY <1>8
  <2> HIDE DEF f
  <2>2. s.made.alone = r.alone /\ s.made.still = r.still /\ s.made.fresh = f
    BY <2>1
  <2> QED
    BY <2>2 DEF f
<1>10. IsStamp(s)
  <2>1. HasFields(s.made, MadeFields)
    BY <1>8 DEF HasFields, MadeFields
  <2> QED
    BY <1>8, <2>1 DEF IsStamp
<1>11. r.still => Provenance(s, t) /\ s.commands = CommandPlan(t.work, s.recipe)
  BY <1>7, <1>8 DEF Provenance
<1>12. ASSUME r.alone, Whole(r.recipe), NEW e \in Editions
       PROVE  Shape(s.hash) = Shape(Expected(e, r.recipe))
  <2> DEFINE P == CommandPlan(e, r.recipe)
  <2>1. Linked(P, name) /\ Alike(P, CommandPlan(x, r.recipe)) /\ Work(x, r.recipe) = CommandPlan(x, r.recipe)
    BY <1>12, WholePlan
  <2>2. Len(P) = Len(r.plan)
    BY <1>3, <2>1 DEF Alike
  <2>3. Len(P) \in Nat /\ Bin(name) \in DOMAIN Built(e, P)[Len(P)]
        /\ Expected(e, r.recipe) = Built(e, P)[Len(P)][Bin(name)]
    BY <1>12, BinaryMade
  <2>4. Similar(P, e, r.next - 1, fs)
    BY <1>2, <1>12 DEF Made
  <2> HIDE DEF P, name
  <2>5. r.next - 1 = Len(P)
    BY <1>4, <2>2, <2>3
  <2>6. Bin(name).dir = "build"
    BY DEF Bin, File
  <2>7. Shape(fs[Bin(name)]) = Shape(Built(e, P)[Len(P)][Bin(name)])
    BY <2>3, <2>4, <2>5, <2>6 DEF Similar
  <2> QED
    BY <1>5, <1>7, <1>8, <1>12, <2>3, <2>7
<1>13. ASSUME r.alone, r.still, Whole(r.recipe) PROVE s.hash = Expected(t.work, r.recipe)
  <2> DEFINE P == CommandPlan(t.work, r.recipe)
  <2>1. r.plan = P
    <3>1. r.plan = Work(t.work, r.recipe)
      BY <1>2, <1>13 DEF Planned
    <3> QED
      BY <1>2, <1>13, <3>1, WholePlan
  <2>3. Len(P) \in Nat /\ Bin(name) \in DOMAIN Built(t.work, P)[Len(P)]
        /\ Expected(t.work, r.recipe) = Built(t.work, P)[Len(P)][Bin(name)]
    BY <1>2, <1>13, BinaryMade
  <2>4. Exact(r.plan, t.work, r.next - 1, fs)
    BY <1>2, <1>13 DEF Made
  <2> HIDE DEF P, name
  <2>5. r.next - 1 = Len(P)
    BY <1>4, <2>1, <2>3
  <2>6. fs[Bin(name)] = Built(t.work, P)[Len(P)][Bin(name)]
    BY <2>1, <2>3, <2>4, <2>5 DEF Exact
  <2> QED
    BY <1>5, <1>7, <1>8, <1>13, <2>3, <2>6
<1>14. StampSound(s, name)
  <2>1. s.recipe = r.recipe /\ \E e \in Editions : s.commands = CommandPlan(e, s.recipe)
    BY <1>7, <1>8
  <2>2. s.made.alone /\ Whole(s.recipe) => \A e \in Editions : Shape(s.hash) = Shape(Expected(e, s.recipe))
    BY <1>9, <1>12, <2>1
  <2>3. s.made.alone /\ Whole(s.recipe) /\ s.made.still =>
          \E u \in Trees : /\ Provenance(s, u) /\ s.hash = Expected(u.work, s.recipe)
                           /\ s.commands = CommandPlan(u.work, s.recipe)
    BY <1>9, <1>11, <1>13, <2>1
  <2> HIDE DEF name
  <2> QED
    BY <1>4, <1>5, <2>1, <2>2, <2>3 DEF StampSound, name
<1>15. FreshSound(s, name, t, fs)
  <2>1. r.alone /\ r.still => /\ Bin(name) \in DOMAIN fs /\ s.hash = fs[Bin(name)]
                              /\ Provenance(s, t) /\ s.commands = CommandPlan(t.work, s.recipe)
    BY <1>5, <1>7, <1>8, <1>11
  <2> HIDE DEF name
  <2> QED
    BY <1>9, <2>1 DEF FreshSound, Fresh
<1> HIDE DEF name
<1> QED
  BY <1>5, <1>6, <1>9, <1>10, <1>14, <1>15

\* A stamp that is no longer fresh is as sound as before.
LEMMA UnfreshSound ==
  ASSUME NEW s, NEW n, IsStamp(s), StampSound(s, n)
  PROVE  IsStamp(Unfresh(s)) /\ StampSound(Unfresh(s), n) /\ ~Fresh(Unfresh(s))
<1> DEFINE u == Unfresh(s)
<1>1. /\ HasFields(u, StampFields) /\ u.recipe = s.recipe /\ u.commands = s.commands
      /\ u.dirty = s.dirty /\ u.revision = s.revision /\ u.fingerprint = s.fingerprint /\ u.hash = s.hash
      /\ u.made = [s.made EXCEPT !.fresh = FALSE] /\ u.version = s.version
  BY DEF Unfresh, IsStamp, HasFields, StampFields
<1>2. /\ HasFields(u.made, MadeFields) /\ u.made.alone = s.made.alone /\ u.made.still = s.made.still
      /\ ~u.made.fresh
  <2> HIDE DEF u
  <2> QED
    BY <1>1 DEF IsStamp, HasFields, MadeFields
<1>3. u # NoStamp => s # NoStamp
  <2> SUFFICES ASSUME s = NoStamp PROVE u = NoStamp
    OBVIOUS
  <2> DEFINE no == FALSE
             m == [alone |-> no, still |-> no, fresh |-> no]
  <2>1. [m EXCEPT !.fresh = FALSE] = m
    <3> HIDE DEF no
    <3>1. [m EXCEPT !.fresh = no] = m
      OBVIOUS
    <3> QED
      BY <3>1 DEF no
  <2>2. s.made = m
    BY DEF NoStamp
  <2> HIDE DEF m, u
  <2>3. u.made = s.made
    BY <1>1, <2>1, <2>2
  <2>4. \A f \in StampFields : u[f] = s[f]
    BY <1>1, <2>3 DEF StampFields
  <2>5. HasFields(s, StampFields)
    BY DEF IsStamp
  <2> QED
    BY <1>1, <2>4, <2>5 DEF HasFields
<1> HIDE DEF u
<1>4. StampSound(u, n)
  BY <1>1, <1>2, <1>3 DEF StampSound, Provenance
<1>5. IsStamp(u) /\ ~Fresh(u)
  BY <1>1, <1>2 DEF IsStamp, Fresh
<1> QED
  BY <1>4, <1>5 DEF u

LEMMA NoStampSound == IsStamp(NoStamp) /\ (\A n : StampSound(NoStamp, n)) /\ ~Fresh(NoStamp)
<1>1. HasFields(NoStamp, StampFields)
      /\ NoStamp.made = [alone |-> FALSE, still |-> FALSE, fresh |-> FALSE]
  BY DEF NoStamp, HasFields, StampFields
<1>2. HasFields([alone |-> FALSE, still |-> FALSE, fresh |-> FALSE], MadeFields)
  BY DEF HasFields, MadeFields
<1> QED
  BY <1>1, <1>2 DEF IsStamp, StampSound, Fresh

-----------------------------------------------------------------------------
(* Steps of a builder *)

\* Only the build of b changes; another build under way is not alone.
LEMMA BuilderMoves ==
  ASSUME IInv, NEW b \in Builders, Active(b), tree' = tree, script' = script,
         DOMAIN build' = Builders, \A c \in Builders \ {b} : build'[c] = build[c],
         BuilderOk(build'[b], tree, files'),
         build'[b].pc # "idle" => build'[b].alone = build[b].alone
  PROVE  TreeInv' /\ ScriptInv' /\ BuildInv' /\ AloneInv'
<1>1. TreeInv' /\ ScriptInv'
  BY DEF IInv, TreeInv, ScriptInv
<1>2. BuildInv'
  <2>1. ASSUME NEW c \in Builders, c # b PROVE BuilderOk(build[c], tree, files')
    <3>1. BuilderOk(build[c], tree, files)
      BY DEF IInv, BuildInv
    <3>2. build[c].pc = "idle" \/ ~build[c].alone
      BY <2>1 DEF IInv, AloneInv, Active
    <3> QED
      BY <3>1, <3>2, FolderChanges
  <2>2. \A c \in Builders : BuilderOk(build'[c], tree', files')
    BY <2>1
  <2> QED
    BY <2>2 DEF BuildInv
<1>3. AloneInv'
  <2>1. SUFFICES ASSUME NEW x \in Builders, NEW y \in Builders, build'[x].pc # "idle",
                        build'[x].alone, y # x
                 PROVE  build'[y].pc = "idle"
    BY DEF AloneInv, Active
  <2>2. \A u, v \in Builders : build[u].pc # "idle" /\ build[u].alone /\ v # u => build[v].pc = "idle"
    BY DEF IInv, AloneInv, Active
  <2>3. CASE x = b
    BY <2>1, <2>2, <2>3 DEF Active
  <2>4. CASE x # b
    <3>1. build'[x] = build[x]
      BY <2>4
    <3>2. build[b].pc = "idle"
      BY <2>1, <2>2, <2>4, <3>1
    <3> QED
      BY <3>2 DEF Active
  <2> QED
    BY <2>3, <2>4
<1> QED
  BY <1>1, <1>2, <1>3

\* The binaries of other recipes than the one b builds stay as they are.
OthersStay(out, fs, gs) ==
  \A n \in Programs : out # Bin(n) /\ Bin(n) \in DOMAIN fs =>
    Bin(n) \in DOMAIN gs /\ gs[Bin(n)] = fs[Bin(n)]

LEMMA StampsStay ==
  ASSUME IInv, NEW b \in Builders, Active(b), tree' = tree, stamps' = stamps, driver' = driver,
         \A c \in Builders \ {b} : build'[c] = build[c],
         build'[b].pc # "idle" => build'[b].out = build[b].out,
         OthersStay(build[b].out, files, files')
  PROVE  StampInv' /\ FreshInv' /\ DriverInv' /\ CalmInv'
<1>1. StampInv' /\ DriverInv'
  BY DEF IInv, StampInv, DriverInv
<1>2. \A n, c : c \in Builders /\ (\A d \in Builders : build[d].pc # "idle" => build[d].out # Bin(n))
        => (build'[c].pc # "idle" => build'[c].out # Bin(n))
  BY DEF Active
<1>3. ASSUME NEW n \in DOMAIN stamps
      PROVE  /\ FreshSound(stamps[n], n, tree, files')
             /\ Fresh(stamps[n]) => \A c \in Builders : build'[c].pc # "idle" => build'[c].out # Bin(n)
  <2>1. n \in Programs /\ FreshSound(stamps[n], n, tree, files)
    BY DEF IInv, StampInv, FreshInv
  <2>2. Fresh(stamps[n]) => \A c \in Builders : build[c].pc # "idle" => build[c].out # Bin(n)
    BY DEF IInv, FreshInv, Active
  <2>3. Fresh(stamps[n]) => \A c \in Builders : build'[c].pc # "idle" => build'[c].out # Bin(n)
    BY <1>2, <2>2
  <2>4. Fresh(stamps[n]) => build[b].out # Bin(n)
    BY <2>2 DEF Active
  <2>5. FreshSound(stamps[n], n, tree, files')
    BY <2>1, <2>4 DEF FreshSound, OthersStay
  <2> QED
    BY <2>3, <2>5
<1>4. FreshInv'
  BY <1>3 DEF FreshInv, Active
<1>5. CalmInv'
  <2>1. SUFFICES ASSUME driver.calm
                 PROVE  CalmFor(driver.want)' /\ CalmOk(driver, tree, stamps[driver.want.binary])
    BY DEF CalmInv
  <2>2. CalmFor(driver.want) /\ CalmOk(driver, tree, stamps[driver.want.binary])
    BY <2>1 DEF IInv, CalmInv
  <2>3. \A c \in Builders : build'[c].pc # "idle" => build'[c].out # Bin(driver.want.binary)
    BY <1>2, <2>2 DEF CalmFor, Active
  <2>4. CalmFor(driver.want)'
    BY <2>2, <2>3 DEF CalmFor, Active
  <2> QED
    BY <2>2, <2>4
<1> QED
  BY <1>1, <1>4, <1>5

\* A step of b that leaves the stamps alone.
LEMMA BuilderSteps ==
  ASSUME IInv, NEW b \in Builders, Active(b), NEW q, build' = [build EXCEPT ![b] = q],
         tree' = tree, script' = script, stamps' = stamps, driver' = driver,
         BuilderOk(q, tree, files'),
         q.pc # "idle" => q.alone = build[b].alone /\ q.out = build[b].out,
         OthersStay(build[b].out, files, files')
  PROVE  IInv'
<1>1. DOMAIN build = Builders
  BY DEF IInv, BuildInv
<1>2. DOMAIN build' = Builders /\ build'[b] = q /\ \A c \in Builders \ {b} : build'[c] = build[c]
  BY <1>1
<1>3. TreeInv' /\ ScriptInv' /\ BuildInv' /\ AloneInv'
  BY <1>2, BuilderMoves
<1>4. StampInv' /\ FreshInv' /\ DriverInv' /\ CalmInv'
  BY <1>2, StampsStay
<1> QED
  BY <1>3, <1>4 DEF IInv

\* What the invariant says of one active build.
LEMMA ActiveBuild ==
  ASSUME IInv, NEW b \in Builders
  PROVE  /\ BuilderOk(build[b], tree, files) /\ tree \in Trees /\ IsBuild(build[b])
         /\ Active(b) => Planned(build[b], tree)
  BY DEF IInv, BuildInv, TreeInv, BuilderOk, Active

\* A command of b writes or removes nothing but its own output.
LEMMA OutputOnly ==
  ASSUME NEW r, NEW t, Planned(r, t), NEW j \in 1..Len(r.plan), NEW fs, NEW gs,
         \A g \in DOMAIN fs : g # r.plan[j].out => g \in DOMAIN gs /\ gs[g] = fs[g]
  PROVE  OthersStay(r.out, fs, gs)
<1>1. \A n \in Programs : r.out # Bin(n) => r.plan[j].out # Bin(n)
  BY WritesItsOwn
<1> QED
  BY <1>1 DEF OthersStay

LEMMA NothingWritten == \A out, fs : OthersStay(out, fs, fs)
  BY DEF OthersStay

LEMMA RunningIndex ==
  ASSUME IInv, NEW b \in Builders, Running(b)
  PROVE  Active(b) /\ build[b].next \in 1..Len(build[b].plan)
<1>1. Active(b) /\ Planned(build[b], tree)
  BY ActiveBuild DEF Running, Active
<1>2. PICK x \in Editions : build[b].plan = Work(x, build[b].recipe)
  BY <1>1 DEF Planned
<1>3. Len(build[b].plan) \in Nat
  BY <1>1, <1>2, WorkOutline DEF Planned
<1> QED
  BY <1>1, <1>3 DEF Planned, Running

LEMMA RunCommandInv == ASSUME IInv, NEW b \in Builders, RunCommand(b) PROVE IInv'
<1> DEFINE r == build[b]
           c == r.plan[r.next]
           q == [r EXCEPT !.next = @ + 1]
<1>1. Running(b) /\ r.pc = "run" /\ r.next <= Len(r.plan)
  BY DEF RunCommand, Running
<1>2. Active(b) /\ r.next \in 1..Len(r.plan)
  BY <1>1, RunningIndex
<1>3. BuilderOk(r, tree, files) /\ tree \in Trees /\ IsBuild(r) /\ Planned(r, tree)
  BY <1>2, ActiveBuild
<1>4. /\ files' = IF c.out = NoOutput THEN files ELSE With(files, c.out, Content(c, tree.work, files))
      /\ build' = [build EXCEPT ![b] = q]
      /\ tree' = tree /\ script' = script /\ stamps' = stamps /\ driver' = driver
  BY DEF RunCommand, Step
<1> HIDE DEF r
<1>5. BuilderOk(q, tree, files')
  BY <1>1, <1>3, <1>4, CommandRuns
<1>6. q.alone = r.alone /\ q.out = r.out
  BY <1>3 DEF IsBuild, HasFields, BuildFields
<1> HIDE DEF q
<1>7. OthersStay(r.out, files, files')
  <2>1. \A g \in DOMAIN files : g # c.out => g \in DOMAIN files' /\ files'[g] = files[g]
    BY <1>4 DEF With
  <2> QED
    BY <1>2, <1>3, <2>1, OutputOnly
<1>8. q.pc # "idle" => q.alone = build[b].alone /\ q.out = build[b].out
  BY <1>6 DEF r
<1>9. OthersStay(build[b].out, files, files')
  BY <1>7 DEF r
<1> QED
  BY <1>2, <1>4, <1>5, <1>8, <1>9, BuilderSteps

\* A build that ends.
LEMMA BuildEnds ==
  ASSUME IInv, NEW b \in Builders, Active(b), build' = [build EXCEPT ![b] = Idle],
         tree' = tree, script' = script, stamps' = stamps, driver' = driver,
         OthersStay(build[b].out, files, files')
  PROVE  IInv'
<1>1. BuilderOk(Idle, tree, files')
  BY IdleOk
<1>2. Idle.pc = "idle"
  BY DEF Idle
<1> QED
  BY <1>1, <1>2, BuilderSteps

LEMMA CommandFailsInv == ASSUME IInv, NEW b \in Builders, CommandFails(b) PROVE IInv'
<1> DEFINE r == build[b]
           c == r.plan[r.next]
<1>1. Running(b)
  BY DEF CommandFails
<1>2. Active(b) /\ r.next \in 1..Len(r.plan) /\ Planned(r, tree)
  BY <1>1, RunningIndex, ActiveBuild
<1>3. files' = files \/ files' = Without(files, c.out)
  BY DEF CommandFails
<1>4. \A g \in DOMAIN files : g # c.out => g \in DOMAIN files' /\ files'[g] = files[g]
  BY <1>3 DEF Without
<1>5. OthersStay(r.out, files, files')
  BY <1>2, <1>4, OutputOnly
<1>6. build' = [build EXCEPT ![b] = Idle] /\ tree' = tree /\ script' = script /\ stamps' = stamps
      /\ driver' = driver
  BY DEF CommandFails, Step
<1> QED
  BY <1>2, <1>5, <1>6, BuildEnds

LEMMA SuiteEndsInv == ASSUME IInv, NEW b \in Builders, SuiteEnds(b) PROVE IInv'
<1>1. Active(b) /\ files' = files
  BY DEF SuiteEnds, CommandsDone, Active
<1>2. build' = [build EXCEPT ![b] = Idle] /\ tree' = tree /\ script' = script /\ stamps' = stamps
      /\ driver' = driver
  BY DEF SuiteEnds, Step
<1>3. OthersStay(build[b].out, files, files')
  BY <1>1, NothingWritten
<1> QED
  BY <1>1, <1>2, <1>3, BuildEnds

LEMMA KillInv == ASSUME IInv, NEW b \in Builders, Kill(b) PROVE IInv'
<1> DEFINE r == build[b]
           c == r.plan[r.next]
<1>1. Active(b) /\ Planned(r, tree)
  BY ActiveBuild DEF Kill
<1>2. OthersStay(r.out, files, files')
  <2>1. CASE files' = files
    BY <2>1, NothingWritten
  <2>2. CASE Running(b) /\ files' = With(files, c.out, Torn)
    <3>1. r.next \in 1..Len(r.plan)
      BY <2>2, RunningIndex
    <3>2. \A g \in DOMAIN files : g # c.out => g \in DOMAIN files' /\ files'[g] = files[g]
      BY <2>2 DEF With
    <3> QED
      BY <1>1, <3>1, <3>2, OutputOnly
  <2> QED
    BY <2>1, <2>2 DEF Kill
<1>3. build' = [build EXCEPT ![b] = Idle] /\ tree' = tree /\ script' = script /\ stamps' = stamps
      /\ driver' = driver
  BY DEF Kill, Step
<1> QED
  BY <1>1, <1>2, <1>3, BuildEnds

\* A step of b that fills in its stamp.
LEMMA StampFills ==
  ASSUME IInv, NEW b \in Builders, Active(b), NEW to, NEW s,
         build' = [build EXCEPT ![b] = [build[b] EXCEPT !.pc = to, !.stamp = s]],
         BuilderOk([build[b] EXCEPT !.pc = to, !.stamp = s], tree, files),
         tree' = tree, files' = files, script' = script, stamps' = stamps, driver' = driver
  PROVE  IInv'
<1> DEFINE q == [build[b] EXCEPT !.pc = to, !.stamp = s]
<1>1. IsBuild(build[b])
  BY ActiveBuild
<1>2. q.alone = build[b].alone /\ q.out = build[b].out
  BY <1>1 DEF IsBuild, HasFields, BuildFields
<1> HIDE DEF q
<1>3. build' = [build EXCEPT ![b] = q] /\ BuilderOk(q, tree, files')
  BY DEF q
<1>4. OthersStay(build[b].out, files, files')
  BY NothingWritten
<1> QED
  BY <1>2, <1>3, <1>4, BuilderSteps

LEMMA StampBeginsInv == ASSUME IInv, NEW b \in Builders, StampBegins(b) PROVE IInv'
<1> DEFINE s == [NoStamp EXCEPT !.version = 1, !.recipe = build[b].recipe,
                                !.commands = CommandPlan(tree.work, build[b].recipe)]
<1>1. /\ build[b].pc = "run" /\ build[b].next > Len(build[b].plan) /\ Stamped(build[b].recipe)
      /\ Active(b) /\ tree' = tree /\ files' = files /\ script' = script /\ stamps' = stamps
      /\ driver' = driver
  BY DEF StampBegins, CommandsDone, Active
<1>2. \/ build' = [build EXCEPT ![b] = [build[b] EXCEPT !.pc = "status", !.stamp = s]]
      \/ build' = [build EXCEPT ![b] = Idle]
  BY DEF StampBegins, Step
<1>3. BuilderOk([build[b] EXCEPT !.pc = "status", !.stamp = s], tree, files)
  BY <1>1, ActiveBuild, StampStarts
<1> HIDE DEF s
<1>4. CASE build' = [build EXCEPT ![b] = [build[b] EXCEPT !.pc = "status", !.stamp = s]]
  BY <1>1, <1>3, <1>4, StampFills
<1>5. CASE build' = [build EXCEPT ![b] = Idle]
  BY <1>1, <1>5, BuildEnds, NothingWritten
<1> QED
  BY <1>2, <1>4, <1>5

LEMMA StampReadsInv ==
  ASSUME IInv, NEW b \in Builders,
         StampStatus(b) \/ StampRevision(b) \/ StampFingerprint(b) \/ StampHash(b)
  PROVE  IInv'
<1>1. BuilderOk(build[b], tree, files)
  BY ActiveBuild
<1>2. CASE StampStatus(b)
  <2> DEFINE s == [build[b].stamp EXCEPT !.dirty = Dirty(tree)]
  <2>1. /\ build[b].pc = "status" /\ Active(b)
        /\ build' = [build EXCEPT ![b] = [build[b] EXCEPT !.pc = "revision", !.stamp = s]]
        /\ tree' = tree /\ files' = files /\ script' = script /\ stamps' = stamps /\ driver' = driver
    BY <1>2 DEF StampStatus, StampReads, Step, Active
  <2>2. BuilderOk([build[b] EXCEPT !.pc = "revision", !.stamp = s], tree, files)
    BY <1>1, <2>1, StatusRead
  <2> HIDE DEF s
  <2> QED
    BY <2>1, <2>2, StampFills
<1>3. CASE StampRevision(b)
  <2> DEFINE s == [build[b].stamp EXCEPT !.revision = tree.head]
  <2>1. /\ build[b].pc = "revision" /\ Active(b)
        /\ build' = [build EXCEPT ![b] = [build[b] EXCEPT !.pc = "fingerprint", !.stamp = s]]
        /\ tree' = tree /\ files' = files /\ script' = script /\ stamps' = stamps /\ driver' = driver
    BY <1>3 DEF StampRevision, StampReads, Step, Active
  <2>2. BuilderOk([build[b] EXCEPT !.pc = "fingerprint", !.stamp = s], tree, files)
    BY <1>1, <2>1, RevisionRead
  <2> HIDE DEF s
  <2> QED
    BY <2>1, <2>2, StampFills
<1>4. CASE StampFingerprint(b)
  <2> DEFINE s == [build[b].stamp EXCEPT !.fingerprint = TreeFingerprint(tree)]
  <2>1. /\ build[b].pc = "fingerprint" /\ Active(b)
        /\ build' = [build EXCEPT ![b] = [build[b] EXCEPT !.pc = "hash", !.stamp = s]]
        /\ tree' = tree /\ files' = files /\ script' = script /\ stamps' = stamps /\ driver' = driver
    BY <1>4 DEF StampFingerprint, StampReads, Step, Active
  <2>2. BuilderOk([build[b] EXCEPT !.pc = "hash", !.stamp = s], tree, files)
    BY <1>1, <2>1, FingerprintRead
  <2> HIDE DEF s
  <2> QED
    BY <2>1, <2>2, StampFills
<1>5. CASE StampHash(b)
  <2> DEFINE s == [build[b].stamp EXCEPT !.hash = files[build[b].out]]
  <2>1. /\ build[b].pc = "hash" /\ Active(b)
        /\ tree' = tree /\ files' = files /\ script' = script /\ stamps' = stamps /\ driver' = driver
    BY <1>5 DEF StampHash, StampReads, Step, Active
  <2>2. CASE build[b].out \in DOMAIN files
    <3>1. build' = [build EXCEPT ![b] = [build[b] EXCEPT !.pc = "open", !.stamp = s]]
      BY <1>5, <2>2 DEF StampHash, StampReads, Step
    <3>2. BuilderOk([build[b] EXCEPT !.pc = "open", !.stamp = s], tree, files)
      BY <1>1, <2>1, <2>2, HashRead
    <3> HIDE DEF s
    <3> QED
      BY <2>1, <3>1, <3>2, StampFills
  <2>3. CASE build[b].out \notin DOMAIN files
    <3>1. build' = [build EXCEPT ![b] = Idle]
      BY <1>5, <2>3 DEF StampHash, Step
    <3> QED
      BY <2>1, <3>1, BuildEnds, NothingWritten
  <2> QED
    BY <2>2, <2>3
<1> QED
  BY <1>2, <1>3, <1>4, <1>5

LEMMA StampingBuild ==
  ASSUME NEW r, NEW t, NEW fs, BuilderOk(r, t, fs), r.pc \in Stamping
  PROVE  r.out.stem \in Programs /\ r.out = Bin(r.out.stem)
<1>1. Filling(r, t, fs) /\ Planned(r, t)
  BY DEF BuilderOk, Stamping, HasStatus, HasRevision, HasFingerprint, HasHash
<1>2. PICK x \in Editions : r.plan = Work(x, r.recipe)
  BY <1>1 DEF Planned
<1>3. r.recipe \in Recipes /\ Stamped(r.recipe) /\ r.out = Output(r.plan)
  BY <1>1 DEF Planned, Filling
<1>4. BinaryOf(r.recipe) \in Programs /\ r.out = Bin(BinaryOf(r.recipe))
  BY <1>2, <1>3, WorkOutline
<1>5. Bin(BinaryOf(r.recipe)).stem = BinaryOf(r.recipe)
  BY DEF Bin, File
<1>6. r.out.stem = BinaryOf(r.recipe)
  BY <1>4, <1>5
<1> QED
  BY <1>4, <1>6

\* A step of b that writes the stamp beside its binary.
LEMMA StampSteps ==
  ASSUME IInv, NEW b \in Builders, Active(b), NEW q, build' = [build EXCEPT ![b] = q],
         tree' = tree, script' = script, files' = files, driver' = driver,
         BuilderOk(q, tree, files),
         q.pc # "idle" => q.alone = build[b].alone /\ q.out = build[b].out,
         NEW s, NEW m \in Programs, build[b].out = Bin(m), stamps' = With(stamps, m, s),
         IsStamp(s), StampSound(s, m), FreshSound(s, m, tree, files),
         Fresh(s) => q.pc = "idle" /\ build[b].alone
  PROVE  IInv'
<1>1. DOMAIN build = Builders
  BY DEF IInv, BuildInv
<1>2. DOMAIN build' = Builders /\ build'[b] = q /\ \A c \in Builders \ {b} : build'[c] = build[c]
  BY <1>1
<1>3. TreeInv' /\ ScriptInv' /\ BuildInv' /\ AloneInv'
  BY <1>2, BuilderMoves
<1>4. /\ DOMAIN stamps' = DOMAIN stamps \cup {m} /\ stamps'[m] = s
      /\ \A n \in DOMAIN stamps : n # m => stamps'[n] = stamps[n]
  BY DEF With
<1>5. StampInv'
  <2>1. \A n \in DOMAIN stamps : n \in Programs /\ IsStamp(stamps[n]) /\ StampSound(stamps[n], n)
    BY DEF IInv, StampInv
  <2>2. \A n \in DOMAIN stamps' : n \in Programs /\ IsStamp(stamps'[n]) /\ StampSound(stamps'[n], n)
    BY <1>4, <2>1
  <2> QED
    BY <2>2 DEF StampInv
<1>6. \A n, c : c \in Builders /\ (\A d \in Builders : build[d].pc # "idle" => build[d].out # Bin(n))
        => (build'[c].pc # "idle" => build'[c].out # Bin(n))
  BY <1>2 DEF Active
<1>7. FreshInv'
  <2>1. ASSUME NEW n \in DOMAIN stamps'
        PROVE  /\ FreshSound(stamps'[n], n, tree, files)
               /\ Fresh(stamps'[n]) => \A c \in Builders : build'[c].pc # "idle" => build'[c].out # Bin(n)
    <3>1. CASE n = m
      <4>1. Fresh(s) => \A c \in Builders : build'[c].pc = "idle"
        <5>1. build[b].alone => \A c \in Builders : c # b => build[c].pc = "idle"
          BY DEF IInv, AloneInv, Active
        <5> QED
          BY <1>2, <5>1
      <4> QED
        BY <1>4, <3>1, <4>1
    <3>2. CASE n # m
      <4>1. n \in DOMAIN stamps /\ stamps'[n] = stamps[n]
        BY <1>4, <2>1, <3>2
      <4>2. FreshSound(stamps[n], n, tree, files)
        BY <4>1 DEF IInv, FreshInv
      <4>3. Fresh(stamps[n]) => \A c \in Builders : build[c].pc # "idle" => build[c].out # Bin(n)
        BY <4>1 DEF IInv, FreshInv, Active
      <4>4. Fresh(stamps[n]) => \A c \in Builders : build'[c].pc # "idle" => build'[c].out # Bin(n)
        BY <1>6, <4>3
      <4> QED
        BY <4>1, <4>2, <4>4
    <3> QED
      BY <3>1, <3>2
  <2> QED
    BY <2>1 DEF FreshInv, Active
<1>8. DriverInv'
  BY DEF IInv, DriverInv
<1>9. CalmInv'
  <2> DEFINE w == driver.want
  <2>1. SUFFICES ASSUME driver.calm
                 PROVE  CalmFor(w)' /\ CalmOk(driver, tree, stamps'[w.binary])
    BY DEF CalmInv
  <2>2. CalmFor(w) /\ CalmOk(driver, tree, stamps[w.binary])
    BY <2>1 DEF IInv, CalmInv
  <2>3. /\ w.binary \in DOMAIN stamps
        /\ \A c \in Builders : build[c].pc # "idle" => build[c].out # Bin(w.binary)
    BY <2>2 DEF CalmFor, Active
  <2>4. w.binary # m
    BY <2>3 DEF Active
  <2>5. w.binary \in DOMAIN stamps' /\ stamps'[w.binary] = stamps[w.binary]
    BY <1>4, <2>3, <2>4
  <2>6. \A c \in Builders : build'[c].pc # "idle" => build'[c].out # Bin(w.binary)
    BY <1>6, <2>3
  <2>7. CalmFor(w)'
    BY <2>2, <2>5, <2>6 DEF CalmFor, Active
  <2> QED
    BY <2>2, <2>5, <2>7
<1> QED
  BY <1>3, <1>5, <1>7, <1>8, <1>9 DEF IInv

LEMMA StampOpenInv == ASSUME IInv, NEW b \in Builders, StampOpen(b) PROVE IInv'
<1> DEFINE r == build[b]
           q == [r EXCEPT !.pc = "write"]
           m == r.out.stem
<1>1. BuilderOk(r, tree, files) /\ IsBuild(r)
  BY ActiveBuild
<1>2. /\ r.pc = "open" /\ Active(b) /\ build' = [build EXCEPT ![b] = q]
      /\ stamps' = With(stamps, m, NoStamp)
      /\ tree' = tree /\ script' = script /\ files' = files /\ driver' = driver
  BY DEF StampOpen, Step, Active
<1>3. m \in Programs /\ r.out = Bin(m)
  <2>1. r.pc \in Stamping
    BY <1>2 DEF Stamping, HasStatus, HasRevision, HasFingerprint, HasHash
  <2> QED
    BY <1>1, <2>1, StampingBuild
<1>4. BuilderOk(q, tree, files)
  BY <1>1, <1>2, StampOpened
<1>5. q.alone = r.alone /\ q.out = r.out
  BY <1>1 DEF IsBuild, HasFields, BuildFields
<1>6. IsStamp(NoStamp) /\ StampSound(NoStamp, m) /\ ~Fresh(NoStamp)
  BY NoStampSound
<1> HIDE DEF q, m
<1>7. FreshSound(NoStamp, m, tree, files)
  BY <1>6 DEF FreshSound
<1> QED
  BY <1>2, <1>3, <1>4, <1>5, <1>6, <1>7, StampSteps

LEMMA StampWriteInv == ASSUME IInv, NEW b \in Builders, StampWrite(b) PROVE IInv'
<1> DEFINE r == build[b]
           m == r.out.stem
           s == [r.stamp EXCEPT !.made = [alone |-> r.alone, still |-> r.still,
                                          fresh |-> r.alone /\ r.still]]
<1>1. BuilderOk(r, tree, files) /\ tree \in Trees
  BY ActiveBuild
<1>2. /\ r.pc = "write" /\ Active(b) /\ build' = [build EXCEPT ![b] = Idle]
      /\ stamps' = With(stamps, m, s)
      /\ tree' = tree /\ script' = script /\ files' = files /\ driver' = driver
  BY DEF StampWrite, Step, Active
<1> HIDE DEF s
<1>3. /\ IsStamp(s) /\ m \in Programs /\ r.out = Bin(m) /\ StampSound(s, m)
      /\ FreshSound(s, m, tree, files) /\ (s.made.fresh => r.alone)
  <2>1. s = [r.stamp EXCEPT !.made = [alone |-> r.alone, still |-> r.still, fresh |-> r.alone /\ r.still]]
    BY DEF s
  <2> HIDE DEF r
  <2> QED
    BY <1>1, <1>2, <2>1, StampWritten
<1>4. BuilderOk(Idle, tree, files) /\ Idle.pc = "idle"
  BY IdleOk DEF Idle
<1>5. Fresh(s) => r.alone
  BY <1>3 DEF Fresh
<1> HIDE DEF m
<1> QED
  BY <1>2, <1>3, <1>4, <1>5, StampSteps

LEMMA DriverCalm ==
  ASSUME NEW d, DriverOk(d), NEW x, NEW q, q = [d EXCEPT !.calm = x]
  PROVE  /\ DriverOk(q) /\ q.calm = x /\ q.want = d.want /\ q.pc = d.pc /\ q.git = d.git
         /\ q.stamp = d.stamp /\ q.hash = d.hash
<1>1. IsDriver(d)
  BY DEF DriverOk
<1>2. /\ HasFields(q, DriverFields) /\ q.calm = x /\ q.want = d.want /\ q.pc = d.pc /\ q.git = d.git
      /\ q.stamp = d.stamp /\ q.hash = d.hash
  BY <1>1 DEF IsDriver, HasFields, DriverFields
<1>3. IsDriver(q)
  BY <1>1, <1>2 DEF IsDriver
<1>4. DriverOk(q)
  BY <1>2, <1>3 DEF DriverOk, Verified
<1> QED
  BY <1>2, <1>4

LEMMA StartInv == ASSUME IInv, NEW b \in Builders, Start(b) PROVE IInv'
<1> DEFINE recipe == Head(script[b])
           work == Work(tree.work, recipe)
           alone == ~\E c \in Builders \ {b} : Active(c)
           free == driver.calm /\ Bin(driver.want.binary) # Output(work)
           r == [Idle EXCEPT !.pc = "run", !.recipe = recipe, !.plan = work,
                             !.out = Output(work), !.alone = alone, !.still = TRUE]
<1>1. /\ build' = [c \in Builders |-> IF c = b THEN r ELSE [build[c] EXCEPT !.alone = FALSE]]
      /\ driver' = [driver EXCEPT !.calm = driver.calm /\ Bin(driver.want.binary) # Output(work)]
      /\ stamps' = [n \in DOMAIN stamps |->
                      IF Bin(n) = Output(work) THEN Unfresh(stamps[n]) ELSE stamps[n]]
      /\ script' = [script EXCEPT ![b] = Tail(script[b])]
      /\ tree' = tree /\ files' = files /\ script[b] # <<>>
  BY DEF Start
<1>2. tree \in Trees /\ script \in [Builders -> Seq(Recipes)]
  BY DEF IInv, TreeInv, ScriptInv
<1>3. recipe \in Recipes /\ script' \in [Builders -> Seq(Recipes)]
  <2>1. script[b] \in Seq(Recipes) /\ script[b] # <<>>
    BY <1>1, <1>2
  <2>2. Head(script[b]) \in Recipes /\ Tail(script[b]) \in Seq(Recipes)
    BY <2>1
  <2> QED
    BY <1>1, <1>2, <2>2
<1>4. driver' = [driver EXCEPT !.calm = free]
  BY <1>1
<1> HIDE DEF recipe, alone, free
<1>5. BuilderOk(r, tree, files)
  BY <1>2, <1>3, BuildStarts
<1>6. r.pc = "run" /\ r.out = Output(work) /\ r.alone = alone
  <2> HIDE DEF work
  <2> QED
    BY DEF Idle
<1> HIDE DEF r, work
<1>7. ASSUME NEW c \in Builders, c # b
      PROVE  /\ build'[c] = [build[c] EXCEPT !.alone = FALSE] /\ BuilderOk(build'[c], tree, files)
             /\ build'[c].pc = build[c].pc /\ build'[c].out = build[c].out /\ ~build'[c].alone
  <2>1. build'[c] = [build[c] EXCEPT !.alone = FALSE]
    BY <1>1, <1>7
  <2>2. BuilderOk(build[c], tree, files) /\ IsBuild(build[c])
    BY ActiveBuild
  <2>3. BuilderOk([build[c] EXCEPT !.alone = FALSE], tree, files)
    BY <2>2, OverlapBegins
  <2>4. LET q == [build[c] EXCEPT !.alone = FALSE]
        IN  q.pc = build[c].pc /\ q.out = build[c].out /\ ~q.alone
    BY <2>2 DEF IsBuild, HasFields, BuildFields
  <2> QED
    BY <2>1, <2>3, <2>4
<1>8. build'[b] = r /\ DOMAIN build' = Builders
  BY <1>1
<1>9. TreeInv' /\ ScriptInv'
  BY <1>1, <1>2, <1>3 DEF TreeInv, ScriptInv
<1>10. BuildInv'
  <2>1. \A c \in Builders : BuilderOk(build'[c], tree, files)
    BY <1>5, <1>7, <1>8
  <2> QED
    BY <1>1, <1>8, <2>1 DEF BuildInv
<1>11. AloneInv'
  <2>1. SUFFICES ASSUME NEW x \in Builders, NEW y \in Builders, build'[x].alone, y # x
                 PROVE  build'[y].pc = "idle"
    BY DEF AloneInv, Active
  <2>2. x = b
    BY <1>7, <2>1
  <2>3. alone
    BY <1>6, <1>8, <2>1, <2>2
  <2>4. build[y].pc = "idle"
    BY <2>1, <2>2, <2>3 DEF alone, Active
  <2> QED
    BY <1>7, <2>1, <2>2, <2>4
<1>12. ASSUME NEW n \in DOMAIN stamps
       PROVE  /\ n \in Programs /\ IsStamp(stamps'[n]) /\ StampSound(stamps'[n], n)
              /\ Fresh(stamps'[n]) => stamps'[n] = stamps[n] /\ Bin(n) # Output(work)
  <2>1. n \in Programs /\ IsStamp(stamps[n]) /\ StampSound(stamps[n], n)
    BY DEF IInv, StampInv
  <2>2. stamps'[n] = IF Bin(n) = Output(work) THEN Unfresh(stamps[n]) ELSE stamps[n]
    BY <1>1
  <2>3. IsStamp(Unfresh(stamps[n])) /\ StampSound(Unfresh(stamps[n]), n) /\ ~Fresh(Unfresh(stamps[n]))
    BY <2>1, UnfreshSound
  <2> QED
    BY <2>1, <2>2, <2>3
<1>13. DOMAIN stamps' = DOMAIN stamps
  BY <1>1
<1>14. StampInv'
  BY <1>12, <1>13 DEF StampInv
<1>15. \A n, c : c \in Builders /\ (\A d \in Builders : build[d].pc # "idle" => build[d].out # Bin(n))
               /\ Bin(n) # Output(work) => (build'[c].pc # "idle" => build'[c].out # Bin(n))
  BY <1>6, <1>7, <1>8
<1>16. FreshInv'
  <2>1. ASSUME NEW n \in DOMAIN stamps, Fresh(stamps'[n])
        PROVE  /\ FreshSound(stamps'[n], n, tree, files)
               /\ \A c \in Builders : build'[c].pc # "idle" => build'[c].out # Bin(n)
    <3>1. stamps'[n] = stamps[n] /\ Bin(n) # Output(work) /\ Fresh(stamps[n])
      BY <1>12, <2>1
    <3>2. FreshSound(stamps[n], n, tree, files)
      BY DEF IInv, FreshInv
    <3>3. \A c \in Builders : build[c].pc # "idle" => build[c].out # Bin(n)
      BY <3>1 DEF IInv, FreshInv, Active
    <3> QED
      BY <1>15, <3>1, <3>2, <3>3
  <2>2. \A n \in DOMAIN stamps : ~Fresh(stamps'[n]) => FreshSound(stamps'[n], n, tree, files)
    BY DEF FreshSound
  <2>3. \A n \in DOMAIN stamps' :
          /\ FreshSound(stamps'[n], n, tree', files')
          /\ Fresh(stamps'[n]) => \A c \in Builders : build'[c].pc # "idle" => build'[c].out # Bin(n)
    BY <1>1, <1>13, <2>1, <2>2
  <2> QED
    BY <2>3 DEF FreshInv, Active
<1>17. /\ DriverOk(driver') /\ driver'.calm = free /\ driver'.want = driver.want
       /\ driver'.pc = driver.pc /\ driver'.git = driver.git /\ driver'.stamp = driver.stamp
  <2>1. DriverOk(driver)
    BY DEF IInv, DriverInv
  <2> QED
    BY <1>4, <2>1, DriverCalm
<1>18. DriverInv'
  BY <1>17 DEF DriverInv
<1>19. CalmInv'
  <2> DEFINE w == driver.want
  <2>1. SUFFICES ASSUME driver'.calm
                 PROVE  CalmFor(driver.want)' /\ CalmOk(driver', tree, stamps'[w.binary])
    BY <1>1, <1>17 DEF CalmInv
  <2>2. driver.calm /\ Bin(w.binary) # Output(work)
    BY <1>17, <2>1 DEF free
  <2>3. CalmFor(w) /\ CalmOk(driver, tree, stamps[w.binary])
    BY <2>2 DEF IInv, CalmInv
  <2>4. w.binary \in DOMAIN stamps' /\ stamps'[w.binary] = stamps[w.binary]
    BY <1>1, <2>2, <2>3 DEF CalmFor
  <2>5. \A c \in Builders : build'[c].pc # "idle" => build'[c].out # Bin(w.binary)
    BY <1>15, <2>2, <2>3 DEF CalmFor, Active
  <2>6. CalmFor(driver.want)'
    BY <1>17, <2>3, <2>4, <2>5 DEF CalmFor, Active
  <2>7. CalmOk(driver', tree, stamps'[w.binary])
    BY <1>17, <2>3, <2>4 DEF CalmOk
  <2> QED
    BY <2>6, <2>7
<1> QED
  BY <1>9, <1>10, <1>11, <1>14, <1>16, <1>18, <1>19 DEF IInv

-----------------------------------------------------------------------------
(* Steps of the developer *)

LEMMA TreeChangesInv == ASSUME IInv, NEW t \in Trees, TreeChanges(t) PROVE IInv'
<1> DEFINE no == FALSE
<1>1. /\ build' = [b \in Builders |-> [build[b] EXCEPT !.still = FALSE]]
      /\ driver' = [driver EXCEPT !.calm = no]
      /\ stamps' = [n \in DOMAIN stamps |-> Unfresh(stamps[n])]
      /\ tree' = t /\ files' = files /\ script' = script
  BY DEF TreeChanges
<1>2. ASSUME NEW b \in Builders
      PROVE  /\ BuilderOk(build'[b], t, files)
             /\ build'[b].pc = build[b].pc /\ build'[b].alone = build[b].alone
  <2>1. BuilderOk(build[b], tree, files) /\ IsBuild(build[b])
    BY ActiveBuild
  <2>2. build'[b] = [build[b] EXCEPT !.still = FALSE]
    BY <1>1
  <2>3. BuilderOk([build[b] EXCEPT !.still = FALSE], t, files)
    BY <2>1, TreeMoves
  <2>4. LET q == [build[b] EXCEPT !.still = FALSE] IN q.pc = build[b].pc /\ q.alone = build[b].alone
    BY <2>1 DEF IsBuild, HasFields, BuildFields
  <2> QED
    BY <2>2, <2>3, <2>4
<1>3. TreeInv' /\ ScriptInv'
  BY <1>1 DEF IInv, TreeInv, ScriptInv
<1>4. BuildInv'
  BY <1>1, <1>2 DEF BuildInv
<1>5. AloneInv'
  <2>1. \A u, v \in Builders : build[u].pc # "idle" /\ build[u].alone /\ v # u => build[v].pc = "idle"
    BY DEF IInv, AloneInv, Active
  <2>2. \A u, v \in Builders : build'[u].pc # "idle" /\ build'[u].alone /\ v # u => build'[v].pc = "idle"
    BY <1>2, <2>1
  <2> QED
    BY <2>2 DEF AloneInv, Active
<1>6. DOMAIN stamps' = DOMAIN stamps
  BY <1>1
<1>7. ASSUME NEW n \in DOMAIN stamps
      PROVE  n \in Programs /\ IsStamp(stamps'[n]) /\ StampSound(stamps'[n], n) /\ ~Fresh(stamps'[n])
  <2>1. n \in Programs /\ IsStamp(stamps[n]) /\ StampSound(stamps[n], n)
    BY DEF IInv, StampInv
  <2>2. stamps'[n] = Unfresh(stamps[n])
    BY <1>1
  <2> QED
    BY <2>1, <2>2, UnfreshSound
<1>8. StampInv'
  BY <1>6, <1>7 DEF StampInv
<1>9. FreshInv'
  <2>1. \A n \in DOMAIN stamps' : FreshSound(stamps'[n], n, tree', files') /\ ~Fresh(stamps'[n])
    BY <1>6, <1>7 DEF FreshSound
  <2> QED
    BY <2>1 DEF FreshInv
<1>10. DriverOk(driver') /\ driver'.calm = no
  <2>1. DriverOk(driver)
    BY DEF IInv, DriverInv
  <2>2. driver' = [driver EXCEPT !.calm = no]
    BY <1>1
  <2> HIDE DEF no
  <2>3. driver' = [driver EXCEPT !.calm = no]
    BY <2>2
  <2> QED
    BY <2>1, <2>3, DriverCalm
<1>11. DriverInv' /\ CalmInv'
  BY <1>10 DEF DriverInv, CalmInv
<1> QED
  BY <1>3, <1>4, <1>5, <1>8, <1>9, <1>11 DEF IInv

LEMMA DeveloperInv == ASSUME IInv, Edit \/ Commit PROVE IInv'
<1>1. tree \in Trees
  BY DEF IInv, TreeInv
<1>2. CASE Edit
  <2>1. PICK e \in Editions : TreeChanges([tree EXCEPT !.work = e])
    BY <1>2 DEF Edit
  <2>2. [tree EXCEPT !.work = e] \in Trees
    BY <1>1 DEF Trees
  <2> QED
    BY <2>1, <2>2, TreeChangesInv
<1>3. CASE Commit
  <2>1. TreeChanges([tree EXCEPT !.head = tree.work])
    BY <1>3 DEF Commit
  <2>2. [tree EXCEPT !.head = tree.work] \in Trees
    BY <1>1 DEF Trees
  <2> QED
    BY <2>1, <2>2, TreeChangesInv
<1> QED
  BY <1>2, <1>3

-----------------------------------------------------------------------------
(* Steps of the driver *)

LEMMA DriverSteps ==
  ASSUME IInv, tree' = tree, files' = files, stamps' = stamps, build' = build, script' = script,
         DriverOk(driver'), driver'.want = driver.want,
         driver'.calm => CalmFor(driver.want) /\ CalmOk(driver', tree, stamps[driver.want.binary])
  PROVE  IInv'
<1>1. TreeInv' /\ ScriptInv' /\ BuildInv' /\ AloneInv' /\ StampInv' /\ FreshInv'
  BY DEF IInv, TreeInv, ScriptInv, BuildInv, AloneInv, StampInv, FreshInv, Active
<1>2. DriverInv'
  BY DEF DriverInv
<1>3. CalmInv'
  BY DEF CalmInv, CalmFor, Active
<1> QED
  BY <1>1, <1>2, <1>3 DEF IInv

\* The provenance, one look at git after the other.
LEMMA GitReadsInv == ASSUME IInv, GitRevision \/ GitStatus \/ GitFingerprint PROVE IInv'
<1>1. /\ tree' = tree /\ files' = files /\ stamps' = stamps /\ build' = build /\ script' = script
  BY DEF GitRevision, GitStatus, GitFingerprint, DriverGoes, DriverSet
<1>2. DriverOk(driver) /\ IsDriver(driver) /\ driver.want \in Wants
  BY DEF IInv, DriverInv, DriverOk
<1>3. driver.calm => CalmFor(driver.want) /\ CalmOk(driver, tree, stamps[driver.want.binary])
  BY DEF IInv, CalmInv
<1>4. CASE GitRevision
  <2> DEFINE pc == "status"
             calm == CalmFor(driver.want)
  <2>1. driver' = [driver EXCEPT !.pc = pc, !.git.revision = tree.head, !.calm = calm]
    BY <1>4 DEF GitRevision, DriverGoes, DriverSet
  <2> HIDE DEF pc, calm
  <2>2. /\ HasFields(driver', DriverFields) /\ driver'.pc = pc /\ driver'.calm = calm
        /\ driver'.want = driver.want /\ driver'.git = [driver.git EXCEPT !.revision = tree.head]
    BY <1>2, <2>1 DEF IsDriver, HasFields, DriverFields
  <2>3. /\ HasFields(driver'.git, GitFields) /\ driver'.git.revision = tree.head
    <3>1. HasFields(driver.git, GitFields)
      BY <1>2 DEF IsDriver
    <3> QED
      BY <2>2, <3>1 DEF HasFields, GitFields
  <2>4. IsDriver(driver')
    BY <2>2, <2>3 DEF IsDriver
  <2>5. DriverOk(driver')
    BY <1>2, <2>2, <2>4 DEF DriverOk, DriverPcs, pc
  <2>6. CalmOk(driver', tree, stamps[driver.want.binary])
    BY <2>2, <2>3 DEF CalmOk, pc
  <2>7. driver'.calm => CalmFor(driver.want)
    BY <2>2 DEF calm
  <2> QED
    BY <1>1, <2>2, <2>5, <2>6, <2>7, DriverSteps
<1>5. CASE GitStatus
  <2> DEFINE pc == "fingerprint"
             x == Dirty(tree)
  <2>1. driver.pc = "status" /\ driver' = [driver EXCEPT !.pc = pc, !.git.dirty = x]
    BY <1>5 DEF GitStatus, DriverGoes, DriverSet
  <2> HIDE DEF pc, x
  <2>2. /\ HasFields(driver', DriverFields) /\ driver'.pc = pc /\ driver'.calm = driver.calm
        /\ driver'.want = driver.want /\ driver'.git = [driver.git EXCEPT !.dirty = x]
    BY <1>2, <2>1 DEF IsDriver, HasFields, DriverFields
  <2>3. /\ HasFields(driver'.git, GitFields) /\ driver'.git.dirty = x /\ driver'.git.revision = driver.git.revision
    <3>1. HasFields(driver.git, GitFields)
      BY <1>2 DEF IsDriver
    <3> QED
      BY <2>2, <3>1 DEF HasFields, GitFields
  <2>4. IsDriver(driver')
    BY <2>2, <2>3 DEF IsDriver
  <2>5. DriverOk(driver')
    BY <1>2, <2>2, <2>4 DEF DriverOk, DriverPcs, pc
  <2>6. driver.calm => CalmOk(driver', tree, stamps[driver.want.binary])
    BY <1>3, <2>2, <2>3 DEF CalmOk, pc, x
  <2> QED
    BY <1>1, <1>3, <2>2, <2>5, <2>6, DriverSteps
<1>6. CASE GitFingerprint
  <2> DEFINE pc == "stamp"
             x == TreeFingerprint(tree)
  <2>1. driver.pc = "fingerprint" /\ driver' = [driver EXCEPT !.pc = pc, !.git.fingerprint = x]
    BY <1>6 DEF GitFingerprint, DriverGoes, DriverSet
  <2> HIDE DEF pc, x
  <2>2. /\ HasFields(driver', DriverFields) /\ driver'.pc = pc /\ driver'.calm = driver.calm
        /\ driver'.want = driver.want /\ driver'.git = [driver.git EXCEPT !.fingerprint = x]
    BY <1>2, <2>1 DEF IsDriver, HasFields, DriverFields
  <2>3. /\ HasFields(driver'.git, GitFields) /\ driver'.git.fingerprint = x
        /\ driver'.git.revision = driver.git.revision /\ driver'.git.dirty = driver.git.dirty
    <3>1. HasFields(driver.git, GitFields)
      BY <1>2 DEF IsDriver
    <3> QED
      BY <2>2, <3>1 DEF HasFields, GitFields
  <2>4. IsDriver(driver')
    BY <2>2, <2>3 DEF IsDriver
  <2>5. DriverOk(driver')
    BY <1>2, <2>2, <2>4 DEF DriverOk, DriverPcs, pc
  <2>6. driver.calm => CalmOk(driver', tree, stamps[driver.want.binary])
    BY <1>3, <2>1, <2>2, <2>3 DEF CalmOk, pc, x
  <2> QED
    BY <1>1, <1>3, <2>2, <2>5, <2>6, DriverSteps
<1> QED
  BY <1>4, <1>5, <1>6

\* A refusal of a driver that is not calm.
LEMMA RefuseInv == ASSUME IInv, ~driver.calm, Refuse PROVE IInv'
<1> DEFINE pc == "refused"
<1>1. /\ tree' = tree /\ files' = files /\ stamps' = stamps /\ build' = build /\ script' = script
      /\ driver' = [driver EXCEPT !.pc = pc, !.git = NoGit, !.stamp = NoStamp, !.hash = Torn]
  BY DEF Refuse, DriverGoes, DriverSet
<1>2. IsDriver(driver) /\ driver.want \in Wants
  BY DEF IInv, DriverInv, DriverOk
<1>3. HasFields(NoGit, GitFields)
  BY DEF NoGit, HasFields, GitFields
<1> HIDE DEF pc
<1>4. /\ HasFields(driver', DriverFields) /\ driver'.pc = pc /\ driver'.calm = driver.calm
      /\ driver'.want = driver.want /\ driver'.git = NoGit
  BY <1>1, <1>2 DEF IsDriver, HasFields, DriverFields
<1>5. DriverOk(driver')
  BY <1>2, <1>3, <1>4 DEF DriverOk, IsDriver, DriverPcs, pc
<1> QED
  BY <1>1, <1>4, <1>5, DriverSteps

LEMMA GitFailsInv == ASSUME IInv, GitFails PROVE IInv'
<1> DEFINE pc == "refused"
           no == FALSE
<1>1. /\ tree' = tree /\ files' = files /\ stamps' = stamps /\ build' = build /\ script' = script
      /\ driver' = [driver EXCEPT !.pc = pc, !.git = NoGit, !.calm = no]
  BY DEF GitFails, DriverGoes, DriverSet
<1>2. IsDriver(driver) /\ driver.want \in Wants
  BY DEF IInv, DriverInv, DriverOk
<1>3. HasFields(NoGit, GitFields)
  BY DEF NoGit, HasFields, GitFields
<1>4. driver' = [driver EXCEPT !.pc = pc, !.git = NoGit, !.calm = no]
  BY <1>1
<1> HIDE DEF pc, no
<1>5. /\ HasFields(driver', DriverFields) /\ driver'.pc = pc /\ driver'.calm = no
      /\ driver'.want = driver.want /\ driver'.git = NoGit
  BY <1>2, <1>4 DEF IsDriver, HasFields, DriverFields
<1>6. DriverOk(driver')
  BY <1>2, <1>3, <1>5 DEF DriverOk, IsDriver, DriverPcs, pc
<1>7. ~driver'.calm
  BY <1>5 DEF no
<1> QED
  BY <1>1, <1>5, <1>6, <1>7, DriverSteps

\* The recipes a driver may ask for are whole ones.
LEMMA WantedRecipes ==
  ASSUME NEW w \in Wants, NEW r \in w.recipes
  PROVE  Whole(r) /\ (w.cuda => r = "build-cuda")
<1>1. \A x : x \in {"build-cpu", "build-cuda", "build-stream-probe"} => Whole(x)
  BY RecipeNames DEF Whole, Stamped
<1>2. CASE w = FindBinary(TRUE)
  <2>1. w.recipes = {"build-cuda"}
    BY <1>2 DEF FindBinary
  <2> QED
    BY <1>1, <2>1
<1>3. CASE w = FindBinary(FALSE)
  <2>1. w.recipes = {"build-cpu", "build-cuda"} /\ ~w.cuda
    BY <1>3 DEF FindBinary
  <2> QED
    BY <1>1, <2>1
<1>4. CASE w = QueryDeviceAttributes
  <2>1. w.recipes = {"build-stream-probe"} /\ ~w.cuda
    BY <1>4 DEF QueryDeviceAttributes
  <2> QED
    BY <1>1, <2>1
<1> QED
  BY <1>2, <1>3, <1>4 DEF Wants

\* What a calm driver will find.
LEMMA CalmFacts ==
  ASSUME IInv, driver.calm
  PROVE  LET n == driver.want.binary
         IN  /\ n \in DOMAIN stamps /\ stamps[n] # NoStamp
             /\ Bin(n) \in DOMAIN files /\ stamps[n].hash = files[Bin(n)]
             /\ Provenance(stamps[n], tree)
             /\ stamps[n].commands = CommandPlan(tree.work, stamps[n].recipe)
             /\ stamps[n].recipe \in driver.want.recipes
<1> DEFINE n == driver.want.binary
<1>1. CalmFor(driver.want)
  BY DEF IInv, CalmInv
<1>2. n \in DOMAIN stamps /\ stamps[n] # NoStamp /\ Fresh(stamps[n]) /\ stamps[n].recipe \in driver.want.recipes
  BY <1>1 DEF CalmFor, Fresh
<1>3. FreshSound(stamps[n], n, tree, files)
  BY <1>2 DEF IInv, FreshInv
<1> QED
  BY <1>2, <1>3 DEF FreshSound

LEMMA ReadStampInv == ASSUME IInv, ReadStamp PROVE IInv'
<1> DEFINE n == driver.want.binary
           pc == "hash"
<1>1. DriverOk(driver) /\ IsDriver(driver) /\ driver.want \in Wants
  BY DEF IInv, DriverInv, DriverOk
<1>2. CASE Bin(n) \in DOMAIN files /\ n \in DOMAIN stamps /\ stamps[n] # NoStamp
  <2>1. /\ tree' = tree /\ files' = files /\ stamps' = stamps /\ build' = build /\ script' = script
        /\ driver' = [driver EXCEPT !.pc = pc, !.stamp = stamps[n]] /\ driver.pc = "stamp"
    BY <1>2 DEF ReadStamp, DriverGoes, DriverSet
  <2> HIDE DEF pc
  <2>2. /\ HasFields(driver', DriverFields) /\ driver'.pc = pc /\ driver'.calm = driver.calm
        /\ driver'.want = driver.want /\ driver'.git = driver.git /\ driver'.stamp = stamps[n]
    BY <1>1, <2>1 DEF IsDriver, HasFields, DriverFields
  <2>3. StampSound(stamps[n], n)
    BY <1>2 DEF IInv, StampInv
  <2>4. DriverOk(driver')
    BY <1>1, <1>2, <2>2, <2>3 DEF DriverOk, IsDriver, DriverPcs, pc
  <2>5. driver.calm => CalmFor(driver.want) /\ CalmOk(driver', tree, stamps[n])
    <3>1. driver.calm => CalmFor(driver.want) /\ CalmOk(driver, tree, stamps[n])
      BY DEF IInv, CalmInv
    <3> QED
      BY <2>1, <2>2, <3>1 DEF CalmOk, pc
  <2> QED
    BY <2>1, <2>2, <2>4, <2>5, DriverSteps
<1>3. CASE ~(Bin(n) \in DOMAIN files /\ n \in DOMAIN stamps /\ stamps[n] # NoStamp)
  <2>1. ~driver.calm
    BY <1>3, CalmFacts
  <2>2. Refuse
    BY <1>3 DEF ReadStamp
  <2> QED
    BY <2>1, <2>2, RefuseInv
<1> QED
  BY <1>2, <1>3

LEMMA HashBinaryInv == ASSUME IInv, HashBinary PROVE IInv'
<1> DEFINE n == driver.want.binary
           f == Bin(n)
           s == driver.stamp
           pc == "commands"
<1>1. DriverOk(driver) /\ IsDriver(driver) /\ driver.want \in Wants /\ driver.pc = "hash"
  BY DEF IInv, DriverInv, DriverOk, HashBinary
<1>2. driver.calm => CalmFor(driver.want) /\ CalmOk(driver, tree, stamps[n])
  BY DEF IInv, CalmInv
<1>3. CASE f \in DOMAIN files /\ StampMatches(s, files[f])
  <2>1. /\ tree' = tree /\ files' = files /\ stamps' = stamps /\ build' = build /\ script' = script
        /\ driver' = [driver EXCEPT !.pc = pc, !.hash = files[f]]
    BY <1>3 DEF HashBinary, DriverGoes, DriverSet
  <2> HIDE DEF pc, f
  <2>2. /\ HasFields(driver', DriverFields) /\ driver'.pc = pc /\ driver'.calm = driver.calm
        /\ driver'.want = driver.want /\ driver'.git = driver.git /\ driver'.stamp = s
        /\ driver'.hash = files[f]
    BY <1>1, <2>1 DEF IsDriver, HasFields, DriverFields
  <2>3. Verified(driver')
    BY <1>3, <2>2 DEF Verified, StampMatches
  <2>4. DriverOk(driver')
    BY <1>1, <2>2, <2>3 DEF DriverOk, IsDriver, DriverPcs, pc
  <2>5. driver.calm => CalmOk(driver', tree, stamps[n])
    BY <1>1, <1>2, <2>2 DEF CalmOk, pc
  <2> QED
    BY <1>2, <2>1, <2>2, <2>4, <2>5, DriverSteps
<1>4. CASE ~(f \in DOMAIN files /\ StampMatches(s, files[f]))
  <2>1. ASSUME driver.calm PROVE f \in DOMAIN files /\ StampMatches(s, files[f])
    <3>1. /\ s = stamps[n] /\ driver.git.revision = tree.head /\ driver.git.dirty = Dirty(tree)
          /\ driver.git.fingerprint = TreeFingerprint(tree)
      BY <1>1, <1>2, <2>1 DEF CalmOk
    <3>2. /\ f \in DOMAIN files /\ stamps[n].hash = files[f] /\ Provenance(stamps[n], tree)
          /\ stamps[n].commands = CommandPlan(tree.work, stamps[n].recipe)
          /\ stamps[n].recipe \in driver.want.recipes
      BY <2>1, CalmFacts
    <3>3. Whole(s.recipe) /\ (driver.want.cuda => s.recipe = "build-cuda")
      BY <1>1, <3>1, <3>2, WantedRecipes
    <3>4. tree.work \in Editions
      BY DEF IInv, TreeInv, Trees
    <3>5. \A i \in DOMAIN s.commands : s.commands[i].opts.extra \cap TEST_ONLY_DEFINES = {}
      <4> DEFINE P == CommandPlan(tree.work, s.recipe)
      <4>1. Linked(P, BinaryOf(s.recipe)) /\ Clean(P)
        BY <3>3, <3>4, WholePlan
      <4>2. P \in Seq(Commands)
        BY <4>1 DEF Linked, Outline
      <4>3. s.commands = P
        BY <3>1, <3>2
      <4> HIDE DEF P
      <4>4. DOMAIN P = 1..Len(P)
        BY <4>2
      <4> QED
        BY <4>1, <4>3, <4>4 DEF Clean
    <3>6. s.recipe \in BUILD_RECIPES
      BY <3>3 DEF Whole
    <3> HIDE DEF f
    <3> QED
      BY <3>1, <3>2, <3>3, <3>5, <3>6 DEF StampMatches, Provenance
  <2>2. ~driver.calm
    BY <1>4, <2>1
  <2>3. Refuse
    BY <1>4 DEF HashBinary
  <2> QED
    BY <2>2, <2>3, RefuseInv
<1> QED
  BY <1>3, <1>4

LEMMA CheckCommandsInv == ASSUME IInv, CheckCommands PROVE IInv'
<1> DEFINE n == driver.want.binary
           s == driver.stamp
           pc == "use"
<1>1. DriverOk(driver) /\ IsDriver(driver) /\ driver.want \in Wants /\ driver.pc = "commands"
  BY DEF IInv, DriverInv, DriverOk, CheckCommands
<1>2. driver.calm => CalmFor(driver.want) /\ CalmOk(driver, tree, stamps[n])
  BY DEF IInv, CalmInv
<1>3. CASE s.commands = CommandPlan(tree.work, s.recipe)
  <2>1. /\ tree' = tree /\ files' = files /\ stamps' = stamps /\ build' = build /\ script' = script
        /\ driver' = [driver EXCEPT !.pc = pc]
    BY <1>3 DEF CheckCommands, DriverGoes, DriverSet
  <2> HIDE DEF pc
  <2>2. /\ HasFields(driver', DriverFields) /\ driver'.pc = pc /\ driver'.calm = driver.calm
        /\ driver'.want = driver.want /\ driver'.git = driver.git /\ driver'.stamp = s
        /\ driver'.hash = driver.hash
    BY <1>1, <2>1 DEF IsDriver, HasFields, DriverFields
  <2>3. DriverOk(driver')
    BY <1>1, <2>2 DEF DriverOk, Verified, IsDriver, DriverPcs, pc
  <2>4. driver.calm => CalmOk(driver', tree, stamps[n])
    BY <1>1, <1>2, <2>2 DEF CalmOk, pc
  <2> QED
    BY <1>2, <2>1, <2>2, <2>3, <2>4, DriverSteps
<1>4. CASE s.commands # CommandPlan(tree.work, s.recipe)
  <2>1. driver.calm => s = stamps[n]
    BY <1>1, <1>2 DEF CalmOk
  <2>2. ~driver.calm
    BY <1>4, <2>1, CalmFacts
  <2>3. Refuse
    BY <1>4 DEF CheckCommands
  <2> QED
    BY <2>2, <2>3, RefuseInv
<1> QED
  BY <1>3, <1>4

LEMMA UseInv == ASSUME IInv, Use PROVE IInv'
<1>1. /\ tree' = tree /\ files' = files /\ stamps' = stamps /\ build' = build /\ script' = script
      /\ driver' = driver
  BY DEF Use, DriverSet
<1>2. DriverOk(driver)
  BY DEF IInv, DriverInv
<1>3. driver.calm => CalmFor(driver.want) /\ CalmOk(driver, tree, stamps[driver.want.binary])
  BY DEF IInv, CalmInv
<1> QED
  BY <1>1, <1>2, <1>3, DriverSteps

-----------------------------------------------------------------------------
(* The invariant, and what follows from it *)

LEMMA InitInv == ASSUME Init PROVE IInv
<1>1. PICK c \in Cases : /\ script = c.script
                         /\ driver = [pc |-> "revision", want |-> c.want, git |-> NoGit, stamp |-> NoStamp,
                                      hash |-> Torn, calm |-> FALSE]
  BY DEF Init
<1>2. TreeInv
  <2>1. FirstEdition \in Editions
    BY BuildAssumption
  <2> QED
    BY <2>1 DEF Init, TreeInv, Trees
<1>3. ScriptInv
  <2>1. c.script \in [Builders -> Seq(BUILD_RECIPES \cup {"test-cpu-asan"})]
    BY BuildAssumption
  <2> QED
    BY <1>1, <2>1 DEF ScriptInv, Recipes
<1>4. build = [b \in Builders |-> Idle] /\ stamps = [n \in {} |-> NoStamp]
  BY DEF Init
<1>5. BuildInv /\ AloneInv
  <2>1. \A b \in Builders : build[b] = Idle
    BY <1>4
  <2>2. Idle.pc = "idle"
    BY DEF Idle
  <2>3. AloneInv
    BY <2>1, <2>2 DEF AloneInv, Active
  <2> QED
    BY <1>4, <2>1, <2>3, IdleOk DEF BuildInv
<1>6. StampInv /\ FreshInv
  BY <1>4 DEF StampInv, FreshInv
<1>7. DriverInv /\ CalmInv
  <2> DEFINE no == FALSE
  <2>1. driver = [pc |-> "revision", want |-> c.want, git |-> NoGit, stamp |-> NoStamp,
                  hash |-> Torn, calm |-> no]
    BY <1>1
  <2>2. c.want \in Wants
    BY BuildAssumption DEF Wants
  <2> HIDE DEF no
  <2>3. /\ HasFields(driver, DriverFields) /\ driver.pc = "revision" /\ driver.want = c.want
        /\ driver.git = NoGit /\ driver.calm = no
    BY <2>1 DEF HasFields, DriverFields
  <2>4. HasFields(NoGit, GitFields)
    BY DEF NoGit, HasFields, GitFields
  <2>5. DriverOk(driver)
    BY <2>2, <2>3, <2>4 DEF DriverOk, IsDriver, DriverPcs
  <2> QED
    BY <2>3, <2>5 DEF DriverInv, CalmInv, no
<1> QED
  BY <1>2, <1>3, <1>5, <1>6, <1>7 DEF IInv

LEMMA BuilderNext ==
  ASSUME IInv, NEW b \in Builders,
         \/ Start(b) \/ RunCommand(b) \/ CommandFails(b) \/ SuiteEnds(b)
         \/ StampBegins(b) \/ StampStatus(b) \/ StampRevision(b) \/ StampFingerprint(b)
         \/ StampHash(b) \/ StampOpen(b) \/ StampWrite(b) \/ Kill(b)
  PROVE  IInv'
  BY StartInv, RunCommandInv, CommandFailsInv, SuiteEndsInv, StampBeginsInv, StampReadsInv,
     StampOpenInv, StampWriteInv, KillInv

LEMMA NextInv == ASSUME IInv, [Next]_vars PROVE IInv'
<1>1. CASE Edit \/ Commit
  BY <1>1, DeveloperInv
<1>2. ASSUME NEW b \in Builders,
             \/ Start(b) \/ RunCommand(b) \/ CommandFails(b) \/ SuiteEnds(b)
             \/ StampBegins(b) \/ StampStatus(b) \/ StampRevision(b) \/ StampFingerprint(b)
             \/ StampHash(b) \/ StampOpen(b) \/ StampWrite(b) \/ Kill(b)
      PROVE  IInv'
  BY <1>2, BuilderNext
<1>3. CASE GitRevision \/ GitStatus \/ GitFingerprint
  BY <1>3, GitReadsInv
<1>4. CASE GitFails
  BY <1>4, GitFailsInv
<1>5. CASE ReadStamp
  BY <1>5, ReadStampInv
<1>6. CASE HashBinary
  BY <1>6, HashBinaryInv
<1>7. CASE CheckCommands
  BY <1>7, CheckCommandsInv
<1>8. CASE Use
  BY <1>8, UseInv
<1>9. CASE UNCHANGED vars
  <2>1. /\ tree' = tree /\ files' = files /\ stamps' = stamps /\ build' = build /\ script' = script
        /\ driver' = driver
    BY <1>9 DEF vars
  <2>2. DriverOk(driver)
    BY DEF IInv, DriverInv
  <2>3. driver.calm => CalmFor(driver.want) /\ CalmOk(driver, tree, stamps[driver.want.binary])
    BY DEF IInv, CalmInv
  <2> QED
    BY <2>1, <2>2, <2>3, DriverSteps
<1> QED
  BY <1>1, <1>2, <1>3, <1>4, <1>5, <1>6, <1>7, <1>8, <1>9 DEF Next

\* Every state of every behaviour satisfies the invariant, whatever the lists,
\* the flags, the editions, the builders and what they build.
THEOREM Invariance == Spec => []IInv
<1>1. Init => IInv
  BY InitInv
<1>2. IInv /\ [Next]_vars => IInv'
  BY NextInv
<1> QED
  BY <1>1, <1>2, PTL DEF Spec

\* Two trees of one revision with the same provenance have the same files.
LEMMA OneTree ==
  ASSUME NEW t, NEW u, t.head = u.head, Dirty(t) = Dirty(u), TreeFingerprint(t) = TreeFingerprint(u)
  PROVE  t.work = u.work
<1>1. CASE Dirty(t)
  <2>1. TreeFingerprint(t) = <<t.head, t.work>> /\ TreeFingerprint(u) = <<u.head, u.work>>
    BY <1>1 DEF TreeFingerprint
  <2>2. <<t.head, t.work>>[2] = t.work /\ <<u.head, u.work>>[2] = u.work
    OBVIOUS
  <2>3. <<t.head, t.work>> = <<u.head, u.work>>
    BY <2>1
  <2> QED
    BY <2>2, <2>3, Zenon
<1>2. CASE ~Dirty(t)
  BY <1>2 DEF Dirty
<1> QED
  BY <1>1, <1>2

LEMMA AcceptedStamp ==
  ASSUME IInv, Accepted
  PROVE  /\ Whole(driver.stamp.recipe) /\ driver.stamp # NoStamp
         /\ StampSound(driver.stamp, driver.want.binary) /\ Verified(driver)
<1>1. /\ driver.want \in Wants /\ driver.stamp # NoStamp /\ StampSound(driver.stamp, driver.want.binary)
      /\ Verified(driver)
  BY DEF IInv, DriverInv, DriverOk, Accepted
<1>2. driver.stamp.recipe \in driver.want.recipes
  BY <1>1 DEF Verified
<1> QED
  BY <1>1, <1>2, WantedRecipes

LEMMA IInvVerified == ASSUME IInv PROVE VerifiedIsBuilt
<1> DEFINE s == driver.stamp
<1>1. SUFFICES ASSUME Accepted, s.made.alone, NEW e \in Editions
               PROVE  /\ Shape(driver.hash) = Shape(Expected(e, s.recipe))
                      /\ s.made.still /\ Recorded(e) => driver.hash = Expected(e, s.recipe)
  BY DEF VerifiedIsBuilt
<1>2. Whole(s.recipe) /\ s # NoStamp /\ StampSound(s, driver.want.binary) /\ Verified(driver)
  BY <1>1, AcceptedStamp
<1>3. s.hash = driver.hash
  BY <1>2 DEF Verified
<1>4. Shape(driver.hash) = Shape(Expected(e, s.recipe))
  BY <1>1, <1>2, <1>3 DEF StampSound
<1>5. ASSUME s.made.still, Recorded(e) PROVE driver.hash = Expected(e, s.recipe)
  <2>1. PICK t \in Trees : Provenance(s, t) /\ s.hash = Expected(t.work, s.recipe)
    BY <1>1, <1>2, <1>5 DEF StampSound
  <2> DEFINE u == [work |-> e, head |-> driver.git.revision]
  <2>2. driver.git = [revision |-> u.head, dirty |-> Dirty(u), fingerprint |-> TreeFingerprint(u)]
    BY <1>5 DEF Recorded, GitProvenance
  <2>3. u.work = e /\ u.head = driver.git.revision
    OBVIOUS
  <2> DEFINE d == Dirty(u)
             p == TreeFingerprint(u)
  <2> HIDE DEF u, d, p
  <2>4. driver.git = [revision |-> u.head, dirty |-> d, fingerprint |-> p]
    BY <2>2 DEF d, p
  <2>5. driver.git.dirty = d /\ driver.git.fingerprint = p
    BY <2>4
  <2>6. s.revision = u.head /\ s.dirty = d /\ s.fingerprint = p
    BY <1>2, <2>3, <2>5 DEF Verified
  <2>7. t.head = u.head /\ Dirty(t) = Dirty(u) /\ TreeFingerprint(t) = TreeFingerprint(u)
    BY <2>1, <2>6 DEF Provenance, d, p
  <2>8. t.work = e
    BY <2>3, <2>7, OneTree
  <2> QED
    BY <1>3, <2>1, <2>8
<1> QED
  BY <1>4, <1>5

\* find_binary and query_device_attributes return a binary that is, byte for
\* byte, what its recipe makes of the recorded tree, and in any case one of
\* that recipe's sources, tools, defines and sanitizers.
THEOREM VerifiedIsBuiltHolds == Spec => []VerifiedIsBuilt
<1>1. IInv => VerifiedIsBuilt
  BY IInvVerified
<1> QED
  BY <1>1, Invariance, PTL

\* An undisturbed build is never refused: verify_stamp accepts every stamp
\* that write_stamp writes.
THEOREM NoFalseRefusalHolds == Spec => []NoFalseRefusal
<1>1. IInv => NoFalseRefusal
  BY DEF IInv, CalmInv, CalmOk, NoFalseRefusal
<1> QED
  BY <1>1, Invariance, PTL

-----------------------------------------------------------------------------
(* The flags of the objects in a binary *)

\* Every object was made by a command of the plan, with its flags.
ObjectOf(P, j, g, content) ==
  P[j].out = g /\ content.opts = P[j].opts /\ content.parts[1].source = g.stem

LEMMA ObjectsMade ==
  ASSUME NEW e, NEW P, NEW name, Linked(P, name), NEW n \in 0..(Len(P) - 1),
         NEW g \in DOMAIN Built(e, P)[n]
  PROVE  \E j \in 1..(Len(P) - 1) : ObjectOf(P, j, g, Built(e, P)[n][g])
<1> DEFINE B == Built(e, P)
           last == Len(P) - 1
           Fine(k) == \A h \in DOMAIN B[k] : \E j \in 1..last : ObjectOf(P, j, h, B[k][h])
           Bad == {k \in 0..last : ~Fine(k)}
<1>0. Len(P) \in Nat /\ Len(P) > 0 /\ last \in Nat /\ P \in Seq(Commands)
  BY DEF Linked, Outline
<1>1. B[0] = NoFiles /\ \A i \in 1..Len(P) : B[i] = After(e, P[i], B[i - 1])
  BY <1>0, BuiltSteps
<1> HIDE DEF B
<1>2. Bad = {}
  <2>1. SUFFICES ASSUME Bad # {} PROVE FALSE
    OBVIOUS
  <2>2. Bad \in SUBSET Nat
    <3> HIDE DEF Fine
    <3> QED
      BY <1>0
  <2> HIDE DEF Bad
  <2>3. PICK m \in Bad : \A k \in Bad : m <= k
    BY <2>1, <2>2, LeastElement
  <2>4. m \in 0..last /\ ~Fine(m)
    BY DEF Bad
  <2>5. m # 0
    <3>1. DOMAIN B[0] = {}
      BY <1>1 DEF NoFiles
    <3> QED
      BY <2>4, <3>1
  <2>6. m - 1 \in 0..last /\ m \in 1..last /\ m \in 1..Len(P) /\ m - 1 \notin Bad
    BY <1>0, <2>2, <2>3, <2>4, <2>5
  <2>7. Fine(m - 1)
    <3> HIDE DEF Fine
    <3> QED
      BY <2>6 DEF Bad
  <2> DEFINE x == B[m - 1]
             y == B[m]
             c == P[m]
  <2>8. y = After(e, c, x)
    BY <1>1, <2>6
  <2>9. c \in Compilations
    BY <2>6 DEF Linked, Outline
  <2>10. \A h \in DOMAIN x : \E j \in 1..last : ObjectOf(P, j, h, x[h])
    BY <2>7
  <2> HIDE DEF x, y
  <2>11. /\ DOMAIN y = DOMAIN x \cup {c.out} /\ y[c.out] = Content(c, e, x)
         /\ \A h \in DOMAIN x : h # c.out => y[h] = x[h]
    BY <2>8 DEF After, With
  <2>12. ObjectOf(P, m, c.out, y[c.out])
    <3> DEFINE s == Src(c.out.stem)
    <3>1. s.dir = "src" /\ s.stem = c.out.stem
      BY DEF Src, File
    <3>2. c.ins = <<s>>
      BY <2>9 DEF Compilations
    <3> HIDE DEF s
    <3>3. 1 \in DOMAIN <<s>> /\ <<s>>[1] = s
      OBVIOUS
    <3>4. 1 \in DOMAIN c.ins /\ c.ins[1] = s
      BY <3>2, <3>3, Zenon
    <3>5. Content(c, e, x).opts = c.opts
          /\ Content(c, e, x).parts = [i \in DOMAIN c.ins |-> Part(c.ins[i], e, x)]
      BY DEF Content
    <3>6. Content(c, e, x).parts[1] = Part(s, e, x)
      BY <3>4, <3>5
    <3>7. Part(s, e, x) = [source |-> s.stem, edition |-> e]
      BY <3>1 DEF Part
    <3>8. Content(c, e, x).parts[1].source = c.out.stem
      BY <3>1, <3>6, <3>7
    <3> QED
      BY <2>11, <3>5, <3>8 DEF ObjectOf
  <2>13. ASSUME NEW h \in DOMAIN y PROVE \E j \in 1..last : ObjectOf(P, j, h, y[h])
    <3>1. CASE h = c.out
      BY <2>6, <2>12, <3>1
    <3>2. CASE h # c.out
      BY <2>10, <2>11, <3>2
    <3> QED
      BY <3>1, <3>2
  <2> QED
    BY <2>4, <2>13 DEF y
<1>3. Fine(n)
  <2> HIDE DEF Fine
  <2>1. n \in 0..last
    OBVIOUS
  <2> QED
    BY <1>2, <2>1
<1> QED
  BY <1>3 DEF B

\* All inputs of the link are objects.
AllObjects(P) == \A i \in DOMAIN P[Len(P)].ins : P[Len(P)].ins[i].dir # "src"
\* The objects of source s have flags o and come from one of the tools; the
\* binary has one.
Flagged(P, s, o, tools) ==
  /\ \A j \in 1..(Len(P) - 1) : P[j].out.stem = s => P[j].opts = o /\ P[j].tool \in tools
  /\ \E i \in DOMAIN P[Len(P)].ins : P[Len(P)].ins[i].stem = s

\* The parts of the binary, one per object.
LEMMA BinaryParts ==
  ASSUME NEW e, NEW P, NEW name, Linked(P, name), AllObjects(P), NEW b, b = Built(e, P)[Len(P)][Bin(name)]
  PROVE  /\ DOMAIN b.parts = DOMAIN P[Len(P)].ins
         /\ \A i \in DOMAIN b.parts :
              \E j \in 1..(Len(P) - 1) : ObjectOf(P, j, P[Len(P)].ins[i], b.parts[i])
<1> DEFINE c == P[Len(P)]
           last == Len(P) - 1
           x == Built(e, P)[last]
<1>1. P \in Seq(Commands) /\ Len(P) \in Nat /\ Len(P) > 0 /\ c.out = Bin(name)
  BY DEF Linked, Outline
<1>2. Len(P) \in 1..Len(P) /\ last \in 0..last /\ last \in 0..Len(P)
  BY <1>1
<1>3. Built(e, P)[Len(P)] = After(e, c, x)
  BY <1>1, <1>2, BuiltSteps
<1>4. \A i \in DOMAIN c.ins : c.ins[i].dir = "src" \/ c.ins[i] \in DOMAIN x
  BY <1>2, InputsMade
<1>5. \A i \in DOMAIN c.ins : c.ins[i].dir # "src" /\ c.ins[i] \in DOMAIN x
  BY <1>4 DEF AllObjects
<1>6. \A g \in DOMAIN x : \E j \in 1..last : ObjectOf(P, j, g, x[g])
  BY <1>2, ObjectsMade
<1> HIDE DEF c, x, last
<1>7. b = Content(c, e, x)
  BY <1>1, <1>3, AfterOut
<1>8. b.parts = [i \in DOMAIN c.ins |-> Part(c.ins[i], e, x)]
  BY <1>7 DEF Content
<1>9. DOMAIN b.parts = DOMAIN c.ins /\ \A i \in DOMAIN c.ins : b.parts[i] = Part(c.ins[i], e, x)
  BY <1>8
<1>10. \A i \in DOMAIN c.ins : b.parts[i] = x[c.ins[i]]
  BY <1>5, <1>9 DEF Part
<1>11. \A i \in DOMAIN c.ins : \E j \in 1..last : ObjectOf(P, j, c.ins[i], b.parts[i])
  BY <1>5, <1>6, <1>10
<1> QED
  BY <1>9, <1>11 DEF c, last

BinaryIn(e, P, name) == Built(e, P)[Len(P)][Bin(name)]

LEMMA FlagsOfBinary ==
  ASSUME NEW e, NEW P, NEW name, Linked(P, name), AllObjects(P), NEW s
  PROVE  /\ \A o, tools : Flagged(P, s, o, tools) => FlagsOf(BinaryIn(e, P, name), s) = {o}
         /\ (\A j \in 1..(Len(P) - 1) : P[j].out.stem # s) => FlagsOf(BinaryIn(e, P, name), s) = {}
<1> DEFINE ins == P[Len(P)].ins
           last == Len(P) - 1
           b == BinaryIn(e, P, name)
<1>1. /\ DOMAIN b.parts = DOMAIN ins
      /\ \A i \in DOMAIN ins : \E j \in 1..last : ObjectOf(P, j, ins[i], b.parts[i])
  BY BinaryParts DEF BinaryIn
<1> HIDE DEF ins, last, b
<1>2. \A i \in DOMAIN ins : \E j \in 1..last : /\ P[j].out.stem = ins[i].stem /\ b.parts[i].opts = P[j].opts
                                               /\ b.parts[i].parts[1].source = ins[i].stem
  BY <1>1 DEF ObjectOf
<1>3. \A x : x \in FlagsOf(b, s) <=>
        \E i \in DOMAIN ins : b.parts[i].parts[1].source = s /\ x = b.parts[i].opts
  BY <1>1 DEF FlagsOf
<1>4. \A x : x \in FlagsOf(b, s) => \E j \in 1..last : P[j].out.stem = s /\ x = P[j].opts
  BY <1>2, <1>3
<1>5. ASSUME NEW o, NEW tools, Flagged(P, s, o, tools) PROVE FlagsOf(b, s) = {o}
  <2>1. \A j \in 1..last : P[j].out.stem = s => P[j].opts = o
    BY <1>5 DEF Flagged, last
  <2>2. PICK i \in DOMAIN ins : ins[i].stem = s
    BY <1>5 DEF Flagged, ins
  <2>3. b.parts[i].opts = o /\ b.parts[i].parts[1].source = s
    BY <1>2, <2>1, <2>2
  <2>4. o \in FlagsOf(b, s)
    BY <1>3, <2>2, <2>3
  <2>5. \A x \in FlagsOf(b, s) : x = o
    BY <1>4, <2>1
  <2> HIDE DEF FlagsOf
  <2> QED
    BY <2>4, <2>5
<1>6. (\A j \in 1..last : P[j].out.stem # s) => FlagsOf(b, s) = {}
  BY <1>4
<1> QED
  BY <1>5, <1>6 DEF last, b

\* Commands with the same flags: the first one stands for all of them.
LEMMA FirstOptionsSame ==
  ASSUME NEW P, NEW M \in SUBSET Nat, NEW o, \A j \in M : P[j].opts = o
  PROVE  (M # {} => FirstOptions(P, M) = {o}) /\ (M = {} => FirstOptions(P, M) = {})
<1>1. \A x : x \in FirstOptions(P, M) <=> \E i \in M : (\A k \in 1..(i - 1) : k \notin M) /\ x = P[i].opts
  BY DEF FirstOptions
<1>2. ASSUME M # {} PROVE o \in FirstOptions(P, M)
  <2>1. PICK i \in M : \A j \in M : i <= j
    BY <1>2, LeastElement
  <2>2. i \in Nat
    OBVIOUS
  <2>3. \A k \in 1..(i - 1) : k \notin M
    BY <2>1, <2>2
  <2> QED
    BY <1>1, <2>1, <2>3
<1>3. \A x \in FirstOptions(P, M) : x = o
  BY <1>1
<1>4. M = {} => FirstOptions(P, M) = {}
  BY <1>1
<1> HIDE DEF FirstOptions
<1> QED
  BY <1>2, <1>3, <1>4

\* Which commands of a linked plan parse_build_commands looks at.
LEMMA Indexes ==
  ASSUME NEW P, NEW name, Linked(P, name)
  PROVE  /\ \A s : HostCompiles(P, s) = {j \in 1..(Len(P) - 1) : P[j].tool \in HostTools /\ P[j].out.stem = s}
         /\ NvccCompiles(P) = {j \in 1..(Len(P) - 1) : P[j].tool = "nvcc"}
<1> DEFINE last == Len(P) - 1
<1>1. P \in Seq(Commands) /\ Len(P) \in Nat /\ Len(P) > 0 /\ P[Len(P)].out = Bin(name)
  BY DEF Linked, Outline
<1>2. DOMAIN P = 1..Len(P)
  BY <1>1
<1>3. ~IsCompile(P[Len(P)])
  <2>1. Bin(name).dir = "build"
    BY DEF Bin, File
  <2>2. P[Len(P)].out.dir = "build"
    BY <1>1, <2>1
  <2> QED
    BY <2>2 DEF IsCompile
<1>4. ASSUME NEW j \in 1..last
      PROVE  IsCompile(P[j]) /\ \A s : (\E i \in DOMAIN P[j].ins : P[j].ins[i].stem \in {s}) <=> P[j].out.stem = s
  <2> DEFINE c == P[j]
             f == Src(c.out.stem)
  <2>1. c \in Compilations
    BY DEF Linked, Outline
  <2>2. c.out.dir # "build" /\ c.ins = <<f>>
    BY <2>1 DEF Compilations, ObjectDirs
  <2>3. f.stem = c.out.stem
    BY DEF Src, File
  <2> HIDE DEF c, f
  <2>4. 1 \in DOMAIN <<f>> /\ \A k \in DOMAIN <<f>> : <<f>>[k] = f
    OBVIOUS
  <2>5. 1 \in DOMAIN c.ins /\ \A i \in DOMAIN c.ins : c.ins[i] = f
    BY <2>2, <2>4, Zenon
  <2>6. \A s : (\E i \in DOMAIN c.ins : c.ins[i].stem \in {s}) <=> c.out.stem = s
    BY <2>3, <2>5
  <2> QED
    BY <2>2, <2>6 DEF IsCompile, c
<1>5. \A j : j \in 1..Len(P) <=> j \in 1..last \/ j = Len(P)
  BY <1>1
<1>6. last \in Nat /\ Len(P) \notin 1..last
  BY <1>1
<1> HIDE DEF last
<1>7. ASSUME NEW s PROVE HostCompiles(P, s) = {j \in 1..last : P[j].tool \in HostTools /\ P[j].out.stem = s}
  <2>1. \A j : j \in HostCompiles(P, s) <=>
          /\ j \in 1..Len(P) /\ IsCompile(P[j]) /\ P[j].tool \in HostTools
          /\ \E i \in DOMAIN P[j].ins : P[j].ins[i].stem \in {s}
    BY <1>2 DEF HostCompiles, Compiles
  <2>2. \A j : j \in HostCompiles(P, s) <=> j \in 1..last /\ P[j].tool \in HostTools /\ P[j].out.stem = s
    BY <1>3, <1>4, <1>5, <1>6, <2>1
  <2> HIDE DEF HostCompiles
  <2> QED
    BY <2>2
<1>8. NvccCompiles(P) = {j \in 1..last : P[j].tool = "nvcc"}
  <2>1. \A j : j \in NvccCompiles(P) <=> j \in 1..Len(P) /\ IsCompile(P[j]) /\ P[j].tool = "nvcc"
    BY <1>2 DEF NvccCompiles
  <2>2. \A j : j \in NvccCompiles(P) <=> j \in 1..last /\ P[j].tool = "nvcc"
    BY <1>3, <1>4, <1>5, <1>6, <2>1
  <2> QED
    BY <2>2
<1> QED
  BY <1>7, <1>8 DEF last

\* parse_build_commands finds the flags of the objects of a binary.
LEMMA HostFlags ==
  ASSUME NEW e, NEW P, NEW name, Linked(P, name), AllObjects(P), NEW s, NEW o, Flagged(P, s, o, HostTools)
  PROVE  FirstOptions(P, HostCompiles(P, s)) = FlagsOf(BinaryIn(e, P, name), s)
<1> DEFINE b == BinaryIn(e, P, name)
           M == HostCompiles(P, s)
           last == Len(P) - 1
<1>1. last \in Nat
  BY DEF Linked, Outline
<1>2. M = {j \in 1..last : P[j].tool \in HostTools /\ P[j].out.stem = s}
  BY Indexes
<1>3. \A j \in 1..last : P[j].out.stem = s => P[j].opts = o /\ P[j].tool \in HostTools
  BY DEF Flagged
<1>4. \E j \in 1..last : P[j].out.stem = s
  <2>1. PICK i \in DOMAIN P[Len(P)].ins : P[Len(P)].ins[i].stem = s
    BY DEF Flagged
  <2>2. P[Len(P)].ins[i].dir # "src"
    BY DEF AllObjects
  <2> QED
    BY <2>1, <2>2 DEF Linked
<1>5. FlagsOf(b, s) = {o}
  <2>1. \A x, tools : Flagged(P, s, x, tools) => FlagsOf(b, s) = {x}
    BY FlagsOfBinary
  <2> QED
    BY <2>1, Zenon
<1> HIDE DEF M, last
<1>6. M \in SUBSET Nat /\ M # {} /\ \A j \in M : P[j].opts = o
  BY <1>1, <1>2, <1>3, <1>4
<1>7. FirstOptions(P, M) = {o}
  BY <1>6, FirstOptionsSame
<1> QED
  BY <1>5, <1>7 DEF M

LEMMA KernelFlags ==
  ASSUME NEW e, NEW P, NEW name, Linked(P, name), AllObjects(P), NEW s, NEW o,
         \/ /\ Flagged(P, s, o, {"nvcc"})
            /\ \A j \in 1..(Len(P) - 1) : P[j].tool = "nvcc" => P[j].opts = o
         \/ \A j \in 1..(Len(P) - 1) : P[j].out.stem # s /\ P[j].tool # "nvcc"
  PROVE  FirstOptions(P, NvccCompiles(P)) = FlagsOf(BinaryIn(e, P, name), s)
<1> DEFINE b == BinaryIn(e, P, name)
           M == NvccCompiles(P)
           last == Len(P) - 1
<1>1. last \in Nat
  BY DEF Linked, Outline
<1>2. M = {j \in 1..last : P[j].tool = "nvcc"}
  BY Indexes
<1>0. /\ \A x, tools : Flagged(P, s, x, tools) => FlagsOf(b, s) = {x}
      /\ (\A j \in 1..(Len(P) - 1) : P[j].out.stem # s) => FlagsOf(b, s) = {}
  BY FlagsOfBinary
<1>3. CASE Flagged(P, s, o, {"nvcc"}) /\ \A j \in 1..last : P[j].tool = "nvcc" => P[j].opts = o
  <2>1. \E j \in 1..last : P[j].out.stem = s
    <3>1. PICK i \in DOMAIN P[Len(P)].ins : P[Len(P)].ins[i].stem = s
      BY <1>3 DEF Flagged
    <3>2. P[Len(P)].ins[i].dir # "src"
      BY DEF AllObjects
    <3> QED
      BY <3>1, <3>2 DEF Linked
  <2>2. \A j \in 1..last : P[j].out.stem = s => P[j].tool = "nvcc"
    BY <1>3 DEF Flagged
  <2>3. FlagsOf(b, s) = {o}
    BY <1>0, <1>3, Zenon
  <2> HIDE DEF M, last
  <2>4. M \in SUBSET Nat /\ M # {} /\ \A j \in M : P[j].opts = o
    BY <1>1, <1>2, <1>3, <2>1, <2>2
  <2>5. FirstOptions(P, M) = {o}
    BY <2>4, FirstOptionsSame
  <2> QED
    BY <2>3, <2>5 DEF M
<1>4. CASE \A j \in 1..last : P[j].out.stem # s /\ P[j].tool # "nvcc"
  <2>1. FlagsOf(b, s) = {}
    BY <1>0, <1>4, Zenon
  <2> HIDE DEF M, last
  <2>2. M = {} /\ M \in SUBSET Nat
    BY <1>2, <1>4
  <2>3. FirstOptions(P, M) = {}
    BY <2>2, FirstOptionsSame
  <2> QED
    BY <2>1, <2>3 DEF M
<1> QED
  BY <1>3, <1>4

\* The stems of a sequence of files.
Stems(q) == {q[i].stem : i \in DOMAIN q}

LEMMA ObjectStems ==
  ASSUME NEW sources \in Seq(STRING), NEW group \in ObjectDirs, NEW ext \in Exts
  PROVE  /\ Within(Objects(sources, group, ext), {f \in Files : f.dir # "src"})
         /\ Range(sources) \subseteq Stems(Objects(sources, group, ext))
<1> DEFINE n == Len(sources)
           X == {f \in Files : f.dir # "src"}
<1>1. /\ n \in Nat /\ DOMAIN sources = 1..n
      /\ \A i \in 1..n : sources[i] \in STRING
  OBVIOUS
<1>2. Objects(sources, group, ext) = [i \in 1..n |-> File(group, sources[i], ext)]
  BY <1>1 DEF Objects, ObjectPath
<1>3. ObjectFiles(sources, group, ext) \subseteq X
  <2>1. \A s \in Range(sources) : File(group, s, ext) \in Files
    BY <1>1 DEF Range, File, Files
  <2>2. \A s : File(group, s, ext).dir # "src"
    BY DEF File, ObjectDirs
  <2> QED
    BY <2>1, <2>2 DEF ObjectFiles
<1> HIDE DEF X
<1>4. Within(Objects(sources, group, ext), X)
  BY <1>3, ObjectsWithin
<1> HIDE DEF n
<1>5. ASSUME NEW s \in Range(sources) PROVE s \in Stems(Objects(sources, group, ext))
  <2>1. PICK i \in 1..n : sources[i] = s
    BY <1>1 DEF Range
  <2>2. File(group, s, ext).stem = s
    BY DEF File
  <2> QED
    BY <1>2, <2>1, <2>2 DEF Stems
<1> QED
  BY <1>4, <1>5 DEF X

LEMMA StemsOfConcat ==
  ASSUME NEW p \in Seq(Files), NEW q \in Seq(Files)
  PROVE  Stems(p) \cup Stems(q) \subseteq Stems(p \o q)
<1> DEFINE r == p \o q
<1>1. /\ DOMAIN r = 1..(Len(p) + Len(q))
      /\ \A j \in 1..(Len(p) + Len(q)) : r[j] = IF j <= Len(p) THEN p[j] ELSE q[j - Len(p)]
      /\ DOMAIN p = 1..Len(p) /\ DOMAIN q = 1..Len(q) /\ Len(p) \in Nat /\ Len(q) \in Nat
  OBVIOUS
<1> HIDE DEF r
<1>2. ASSUME NEW i \in DOMAIN p PROVE i \in DOMAIN r /\ r[i] = p[i]
  BY <1>1
<1>3. ASSUME NEW i \in DOMAIN q PROVE i + Len(p) \in DOMAIN r /\ r[i + Len(p)] = q[i]
  <2>1. i + Len(p) \in 1..(Len(p) + Len(q)) /\ ~(i + Len(p) <= Len(p)) /\ i + Len(p) - Len(p) = i
    BY <1>1
  <2> QED
    BY <1>1, <2>1
<1>4. Stems(p) \subseteq Stems(r)
  BY <1>2 DEF Stems
<1>5. Stems(q) \subseteq Stems(r)
  BY <1>3 DEF Stems
<1> QED
  BY <1>4, <1>5 DEF r

LEMMA RangeOfConcat ==
  ASSUME NEW p \in Seq(STRING), NEW q \in Seq(STRING)
  PROVE  Range(p) \cup Range(q) \subseteq Range(p \o q)
<1> DEFINE r == p \o q
<1>1. /\ DOMAIN r = 1..(Len(p) + Len(q))
      /\ \A j \in 1..(Len(p) + Len(q)) : r[j] = IF j <= Len(p) THEN p[j] ELSE q[j - Len(p)]
      /\ DOMAIN p = 1..Len(p) /\ DOMAIN q = 1..Len(q) /\ Len(p) \in Nat /\ Len(q) \in Nat
  OBVIOUS
<1> HIDE DEF r
<1>2. ASSUME NEW i \in DOMAIN p PROVE i \in DOMAIN r /\ r[i] = p[i]
  BY <1>1
<1>3. ASSUME NEW i \in DOMAIN q PROVE i + Len(p) \in DOMAIN r /\ r[i + Len(p)] = q[i]
  <2>1. i + Len(p) \in 1..(Len(p) + Len(q)) /\ ~(i + Len(p) <= Len(p)) /\ i + Len(p) - Len(p) = i
    BY <1>1
  <2> QED
    BY <1>1, <2>1
<1>4. Range(p) \subseteq Range(r)
  BY <1>2 DEF Range
<1>5. Range(q) \subseteq Range(r)
  BY <1>3 DEF Range
<1> QED
  BY <1>4, <1>5 DEF r

\* The objects of a list all belong to any set that has what they share.
Sharing(sources, tool, opts) ==
  {c \in Compilations : c.tool = tool /\ c.opts = opts /\ c.out.stem \in Range(sources)}

LEMMA CompiledShare ==
  ASSUME NEW e \in Editions, NEW sources \in Seq(STRING), NEW group \in ObjectDirs, NEW tool \in Tools,
         NEW vs \in SUBSET VarNames, NEW extra \in SUBSET ExtraNames, NEW ext \in Exts,
         NEW X, Sharing(sources, tool, Options(e, vs, extra)) \subseteq X
  PROVE  Compiled(e, sources, group, tool, vs, extra, ext) \in Seq(X)
<1> DEFINE o == Options(e, vs, extra)
           P == CompileObjects(sources, group, tool, o, ext)
<1>1. o \in OptionSet
  BY PlanAssumption DEF Options, OptionSet, Range
<1>2. DOMAIN sources = 1..Len(sources) /\ Len(sources) \in Nat
  OBVIOUS
<1> HIDE DEF o
<1>3. /\ P \in Seq(Compilations) /\ Len(P) = Len(sources)
      /\ \A i \in 1..Len(sources) :
           /\ P[i].tool = tool /\ P[i].opts = o
           /\ P[i].ins = <<Src(sources[i])>> /\ P[i].out = File(group, sources[i], ext)
  BY <1>1, CompileObjectsPlan
<1> HIDE DEF P
<1>4. ASSUME NEW i \in 1..Len(P) PROVE P[i] \in X
  <2>1. P[i] \in Compilations
    BY <1>3
  <2>2. P[i].tool = tool /\ P[i].opts = o /\ P[i].out = File(group, sources[i], ext)
    BY <1>3
  <2>3. File(group, sources[i], ext).stem = sources[i]
    BY DEF File
  <2>4. P[i].out.stem = sources[i]
    BY <2>2, <2>3
  <2>5. sources[i] \in Range(sources)
    BY <1>2, <1>3 DEF Range
  <2>6. P[i] \in Sharing(sources, tool, o)
    BY <2>1, <2>2, <2>4, <2>5 DEF Sharing
  <2> QED
    BY <2>6 DEF o
<1>5. P \in Seq(X)
  <2>1. Len(P) \in Nat /\ DOMAIN P = 1..Len(P) /\ P = [i \in 1..Len(P) |-> P[i]]
    BY <1>2, <1>3
  <2>2. P \in [1..Len(P) -> X]
    BY <1>4, <2>1
  <2> QED
    BY <2>1, <2>2
<1> QED
  BY <1>5 DEF Compiled, P, o

\* The three kinds of objects of a plan, by their flags.
Described(P, ho, vo, co) ==
  /\ AllObjects(P)
  /\ Flagged(P, "quantizer", ho, HostTools) /\ Flagged(P, "quantizer_avx2", vo, HostTools)
  /\ \/ /\ Flagged(P, "quantizer_cuda", co, {"nvcc"})
        /\ \A j \in 1..(Len(P) - 1) : P[j].tool = "nvcc" => P[j].opts = co
     \/ \A j \in 1..(Len(P) - 1) : P[j].out.stem # "quantizer_cuda" /\ P[j].tool # "nvcc"

LEMMA DescribedFlags ==
  ASSUME NEW e, NEW P, NEW name, Linked(P, name), NEW ho, NEW vo, NEW co, Described(P, ho, vo, co)
  PROVE  ParseBuildCommands(P) =
           [comparator |-> FlagsOf(BinaryIn(e, P, name), "quantizer"),
            avx2 |-> FlagsOf(BinaryIn(e, P, name), "quantizer_avx2"),
            cuda |-> FlagsOf(BinaryIn(e, P, name), "quantizer_cuda")]
<1>1. AllObjects(P) /\ P \in Seq(Commands)
  BY DEF Described, Linked, Outline
<1>2. FirstOptions(P, HostCompiles(P, "quantizer")) = FlagsOf(BinaryIn(e, P, name), "quantizer")
  BY <1>1, HostFlags DEF Described
<1>3. FirstOptions(P, HostCompiles(P, "quantizer_avx2")) = FlagsOf(BinaryIn(e, P, name), "quantizer_avx2")
  BY <1>1, HostFlags DEF Described
<1>4. FirstOptions(P, NvccCompiles(P)) = FlagsOf(BinaryIn(e, P, name), "quantizer_cuda")
  BY <1>1, KernelFlags DEF Described
<1> QED
  BY <1>1, <1>2, <1>3, <1>4 DEF ParseBuildCommands

\* A plan of objects of X and one link.
LEMMA PlanOf ==
  ASSUME NEW X \in SUBSET Compilations, NEW R \in Seq(X), NEW c, NEW name, Links(c, c, name)
  PROVE  LET P == R \o <<c>>
         IN  (\A j \in 1..(Len(P) - 1) : P[j] \in X) /\ P[Len(P)] = c
<1>1. R \in Seq(Compilations) /\ Len(R) \in Nat /\ \A j \in 1..Len(R) : R[j] \in X
  OBVIOUS
<1>2. Pair(R, R)
  BY <1>1 DEF Pair, Alike, AlikeCommands
<1> DEFINE P == R \o <<c>>
<1>3. Len(P) = Len(R) + 1 /\ (\A j \in 1..Len(R) : P[j] = R[j]) /\ P[Len(R) + 1] = c
  BY <1>2, LinkPlan
<1> HIDE DEF P
<1>4. Len(P) - 1 = Len(R)
  BY <1>1, <1>3
<1>5. (\A j \in 1..(Len(P) - 1) : P[j] \in X) /\ P[Len(P)] = c
  BY <1>1, <1>3, <1>4
<1> QED
  BY <1>5 DEF P

\* The scalar comparator, the AVX2 comparator and the kernels are in one list each.
LEMMA InOneList ==
  LET host == Range(Lists["native_host_sources"])
      avx2 == Range(Lists["native_avx2_sources"])
      cuda == Range(Lists["native_cuda_sources"])
  IN  /\ "quantizer" \in host /\ "quantizer" \notin avx2 /\ "quantizer" \notin cuda
      /\ "quantizer_avx2" \in avx2 /\ "quantizer_avx2" \notin host /\ "quantizer_avx2" \notin cuda
      /\ "quantizer_cuda" \in cuda /\ "quantizer_cuda" \notin host /\ "quantizer_cuda" \notin avx2
  BY ListsAssumption

LEMMA CpuDescribed ==
  ASSUME NEW e \in Editions
  PROVE  \E ho, vo, co : Described(CpuPlan(e, FALSE, {}, "stoquant"), ho, vo, co)
<1> DEFINE host == Lists["native_host_sources"]
           avx2 == Lists["native_avx2_sources"]
           none == {}
           ext == Extension(FALSE)
           tool == Compiler(FALSE)
           hv == HostVars(FALSE)
           av == AvxVars(FALSE)
           ho == Options(e, hv, none)
           vo == Options(e, av, none)
           H == Compiled(e, host, "cpu", tool, hv, none, ext)
           A == Compiled(e, avx2, "cpu", tool, av, none, ext)
           I == Objects(host, "cpu", ext)
           J == Objects(avx2, "cpu", ext)
           ins == I \o J
           c == Command(tool, Options(e, none, none), ins, Bin("stoquant"))
           X == {k \in Compilations :
                   /\ k.out.stem = "quantizer" => k.opts = ho
                   /\ k.out.stem = "quantizer_avx2" => k.opts = vo
                   /\ k.out.stem # "quantizer_cuda" /\ k.tool = tool}
           F == {f \in Files : f.dir # "src"}
<1>1. /\ host \in Seq(STRING) /\ avx2 \in Seq(STRING)
      /\ ext \in Exts /\ tool \in Tools /\ "cpu" \in ObjectDirs
      /\ hv \in SUBSET VarNames /\ av \in SUBSET VarNames
      /\ none \in SUBSET VarNames /\ none \in SUBSET ExtraNames /\ "stoquant" \in Programs \cup SuitePrograms
  <2>1. host \in Seq(STRING) /\ avx2 \in Seq(STRING)
    BY ListsTyped DEF SOURCE_LIST_VARIABLES
  <2>2. ext \in Exts /\ tool \in Tools /\ "cpu" \in ObjectDirs
    BY DEF Extension, Exts, Compiler, Tools, ObjectDirs
  <2>3. hv \in SUBSET VarNames /\ av \in SUBSET VarNames
    BY DEF HostVars, AvxVars, Family, VarNames
  <2>4. "stoquant" \in Programs \cup SuitePrograms
    BY DEF Programs
  <2> QED
    BY <2>1, <2>2, <2>3, <2>4
<1>2. tool \in HostTools /\ tool # "nvcc"
  BY DEF Compiler, HostTools
<1>3. /\ "quantizer" \in Range(host) /\ "quantizer" \notin Range(avx2)
      /\ "quantizer_avx2" \in Range(avx2) /\ "quantizer_avx2" \notin Range(host)
      /\ "quantizer_cuda" \notin Range(host) /\ "quantizer_cuda" \notin Range(avx2)
  BY InOneList
<1> HIDE DEF host, avx2, none, ext, tool, hv, av
<1>4. H \in Seq(X)
  <2>1. Sharing(host, tool, ho) \subseteq X
    <3> HIDE DEF ho, vo
    <3> QED
      BY <1>3 DEF Sharing
  <2> HIDE DEF X
  <2> QED
    BY <1>1, <2>1, CompiledShare
<1>5. A \in Seq(X)
  <2>1. Sharing(avx2, tool, vo) \subseteq X
    <3> HIDE DEF ho, vo
    <3> QED
      BY <1>3 DEF Sharing
  <2> HIDE DEF X
  <2> QED
    BY <1>1, <2>1, CompiledShare
<1>6. X \in SUBSET Compilations
  <2> HIDE DEF ho, vo
  <2> QED
    OBVIOUS
<1> HIDE DEF H, A
<1>7. H \o A \in Seq(X)
  <2> HIDE DEF X
  <2> QED
    BY <1>4, <1>5
<1>8. Within(I, F) /\ Within(J, F) /\ Range(host) \subseteq Stems(I) /\ Range(avx2) \subseteq Stems(J)
  BY <1>1, ObjectStems
<1> HIDE DEF I, J, F
<1>9. Within(ins, F) /\ Stems(I) \cup Stems(J) \subseteq Stems(ins)
  BY <1>8, WithinConcat, StemsOfConcat DEF Within
<1> HIDE DEF ins
<1>10. ins \in Seq(Files) /\ \A i \in DOMAIN ins : ins[i].dir # "src"
  BY <1>9 DEF Within, F
<1>11. (\E i \in DOMAIN ins : ins[i].stem = "quantizer") /\ (\E i \in DOMAIN ins : ins[i].stem = "quantizer_avx2")
  BY <1>3, <1>8, <1>9 DEF Stems
<1>12. Links(c, c, "stoquant") /\ c.ins = ins
  BY <1>1, <1>10, LinkCommand
<1> HIDE DEF c
<1> DEFINE R == H \o A
           P == R \o <<c>>
<1> HIDE DEF R
<1>13. R \in Seq(X)
  BY <1>7 DEF R
<1> HIDE DEF ho, vo
<1>14. (\A j \in 1..(Len(P) - 1) : P[j] \in X) /\ P[Len(P)] = c
  <2> HIDE DEF X
  <2> QED
    BY <1>6, <1>12, <1>13, PlanOf
<1> HIDE DEF P
<1>15. AllObjects(P)
  BY <1>10, <1>12, <1>14 DEF AllObjects
<1>16. Flagged(P, "quantizer", ho, HostTools) /\ Flagged(P, "quantizer_avx2", vo, HostTools)
  BY <1>2, <1>11, <1>12, <1>14 DEF Flagged
<1>17. \A j \in 1..(Len(P) - 1) : P[j].out.stem # "quantizer_cuda" /\ P[j].tool # "nvcc"
  BY <1>2, <1>14
<1>18. Described(P, ho, vo, vo)
  BY <1>15, <1>16, <1>17 DEF Described
<1>19. CpuPlan(e, FALSE, {}, "stoquant") = P
  BY DEF CpuPlan, Compiled, P, R, H, A, c, ins, I, J, host, avx2, ext, tool, hv, av, none
<1> QED
  BY <1>18, <1>19

LEMMA CudaDescribed ==
  ASSUME NEW e \in Editions
  PROVE  \E ho, vo, co : Described(CudaPlan(e), ho, vo, co)
<1> DEFINE host == Lists["native_host_sources"]
           avx2 == Lists["native_avx2_sources"]
           cuda == Lists["native_cuda_sources"]
           none == {}
           enable == {"SQ_ENABLE_CUDA"}
           link == {"nvcc_flags"}
           ext == Extension(FALSE)
           tool == Compiler(FALSE)
           nvcc == "nvcc"
           hv == HostVars(FALSE)
           av == AvxVars(FALSE)
           ho == Options(e, hv, enable)
           vo == Options(e, av, none)
           co == Options(e, NvccVars, none)
           H == Compiled(e, host, "cuda", tool, hv, enable, ext)
           A == Compiled(e, avx2, "cuda", tool, av, none, ext)
           C == Compiled(e, cuda, "cuda", nvcc, NvccVars, none, ext)
           all == host \o avx2 \o cuda
           ins == Objects(all, "cuda", ext)
           c == Command(nvcc, Options(e, link, none), ins, Bin("stoquant"))
           X == {k \in Compilations :
                   /\ k.out.stem = "quantizer" => k.opts = ho /\ k.tool = tool
                   /\ k.out.stem = "quantizer_avx2" => k.opts = vo /\ k.tool = tool
                   /\ k.out.stem = "quantizer_cuda" => k.opts = co /\ k.tool = nvcc
                   /\ k.tool = nvcc => k.opts = co}
<1>1. /\ host \in Seq(STRING) /\ avx2 \in Seq(STRING) /\ cuda \in Seq(STRING)
      /\ ext \in Exts /\ tool \in Tools /\ "cuda" \in ObjectDirs /\ nvcc \in Tools
      /\ hv \in SUBSET VarNames /\ av \in SUBSET VarNames
      /\ NvccVars \in SUBSET VarNames /\ link \in SUBSET VarNames
      /\ enable \in SUBSET ExtraNames /\ none \in SUBSET ExtraNames
      /\ "stoquant" \in Programs \cup SuitePrograms
  <2>1. host \in Seq(STRING) /\ avx2 \in Seq(STRING) /\ cuda \in Seq(STRING)
    BY ListsTyped DEF SOURCE_LIST_VARIABLES
  <2>2. ext \in Exts /\ tool \in Tools /\ "cuda" \in ObjectDirs /\ nvcc \in Tools
    BY DEF Extension, Exts, Compiler, Tools, ObjectDirs
  <2>3. /\ hv \in SUBSET VarNames /\ av \in SUBSET VarNames
        /\ NvccVars \in SUBSET VarNames /\ link \in SUBSET VarNames
    BY DEF HostVars, AvxVars, Family, VarNames, NvccVars
  <2>4. enable \in SUBSET ExtraNames /\ none \in SUBSET ExtraNames
    BY DEF ExtraNames
  <2>5. "stoquant" \in Programs \cup SuitePrograms
    BY DEF Programs
  <2> QED
    BY <2>1, <2>2, <2>3, <2>4, <2>5
<1>2. tool \in HostTools /\ tool # nvcc
  BY DEF Compiler, HostTools
<1>3. /\ "quantizer" \in Range(host) /\ "quantizer" \notin Range(avx2) /\ "quantizer" \notin Range(cuda)
      /\ "quantizer_avx2" \in Range(avx2) /\ "quantizer_avx2" \notin Range(host)
      /\ "quantizer_avx2" \notin Range(cuda)
      /\ "quantizer_cuda" \in Range(cuda) /\ "quantizer_cuda" \notin Range(host)
      /\ "quantizer_cuda" \notin Range(avx2)
  BY InOneList
<1> HIDE DEF host, avx2, cuda, none, enable, link, ext, tool, nvcc, hv, av
<1>4. Sharing(host, tool, ho) \subseteq X /\ Sharing(avx2, tool, vo) \subseteq X /\ Sharing(cuda, nvcc, co) \subseteq X
  <2> HIDE DEF ho, vo, co
  <2>1. Sharing(host, tool, ho) \subseteq X
    BY <1>2, <1>3 DEF Sharing
  <2>2. Sharing(avx2, tool, vo) \subseteq X
    BY <1>2, <1>3 DEF Sharing
  <2>3. Sharing(cuda, nvcc, co) \subseteq X
    BY <1>2, <1>3 DEF Sharing
  <2> QED
    BY <2>1, <2>2, <2>3
<1>5. X \in SUBSET Compilations
  <2> HIDE DEF ho, vo, co
  <2> QED
    OBVIOUS
<1>6. H \in Seq(X) /\ A \in Seq(X) /\ C \in Seq(X)
  <2> HIDE DEF X
  <2>1. H \in Seq(X)
    BY <1>1, <1>4, CompiledShare
  <2>2. A \in Seq(X)
    BY <1>1, <1>4, CompiledShare
  <2>3. C \in Seq(X)
    BY <1>1, <1>4, CompiledShare
  <2> QED
    BY <2>1, <2>2, <2>3
<1> HIDE DEF H, A, C
<1>7. H \o A \o C \in Seq(X)
  <2> HIDE DEF X
  <2>1. H \o A \in Seq(X)
    BY <1>6
  <2> DEFINE O == H \o A
  <2> HIDE DEF O
  <2>2. O \o C \in Seq(X)
    BY <1>6, <2>1 DEF O
  <2> QED
    BY <2>2 DEF O
<1>8. all \in Seq(STRING) /\ Range(host) \cup Range(avx2) \cup Range(cuda) \subseteq Range(all)
  <2> DEFINE both == host \o avx2
  <2>1. both \in Seq(STRING) /\ Range(host) \cup Range(avx2) \subseteq Range(both)
    BY <1>1, StemsConcat, RangeOfConcat
  <2> HIDE DEF both
  <2>2. both \o cuda \in Seq(STRING) /\ Range(both) \cup Range(cuda) \subseteq Range(both \o cuda)
    BY <1>1, <2>1, StemsConcat, RangeOfConcat
  <2>3. all = both \o cuda
    BY DEF both
  <2> HIDE DEF all
  <2> QED
    BY <2>1, <2>2, <2>3
<1> HIDE DEF all
<1> DEFINE F == {f \in Files : f.dir # "src"}
<1>9. Within(ins, F) /\ Range(all) \subseteq Stems(ins)
  BY <1>1, <1>8, ObjectStems
<1> HIDE DEF ins
<1>10. ins \in Seq(Files) /\ \A i \in DOMAIN ins : ins[i].dir # "src"
  BY <1>9 DEF Within
<1>11. /\ \E i \in DOMAIN ins : ins[i].stem = "quantizer"
       /\ \E i \in DOMAIN ins : ins[i].stem = "quantizer_avx2"
       /\ \E i \in DOMAIN ins : ins[i].stem = "quantizer_cuda"
  BY <1>3, <1>8, <1>9 DEF Stems
<1>12. Links(c, c, "stoquant") /\ c.ins = ins
  BY <1>1, <1>10, LinkCommand
<1> HIDE DEF c
<1> DEFINE R == H \o A \o C
           P == R \o <<c>>
<1> HIDE DEF R
<1>13. R \in Seq(X)
  BY <1>7 DEF R
<1> HIDE DEF ho, vo, co
<1>14. (\A j \in 1..(Len(P) - 1) : P[j] \in X) /\ P[Len(P)] = c
  <2> HIDE DEF X
  <2> QED
    BY <1>5, <1>12, <1>13, PlanOf
<1> HIDE DEF P
<1>15. AllObjects(P)
  BY <1>10, <1>12, <1>14 DEF AllObjects
<1>16. /\ Flagged(P, "quantizer", ho, HostTools) /\ Flagged(P, "quantizer_avx2", vo, HostTools)
       /\ Flagged(P, "quantizer_cuda", co, {nvcc})
  BY <1>2, <1>11, <1>12, <1>14 DEF Flagged
<1>17. \A j \in 1..(Len(P) - 1) : P[j].tool = nvcc => P[j].opts = co
  BY <1>14
<1>18. Described(P, ho, vo, co)
  BY <1>15, <1>16, <1>17 DEF Described, nvcc
<1>19. CudaPlan(e) = P
  BY DEF CudaPlan, NvccLink, Compiled, P, R, H, A, C, c, ins, all, host, avx2, cuda, ext, tool, enable,
         none, link, hv, av, nvcc
<1> QED
  BY <1>18, <1>19

\* What collect_build_commands reads from the commands of a recipe is what the
\* binary of that recipe is made of.
LEMMA FlagsOfExpected ==
  ASSUME NEW e \in Editions, NEW r \in {"build-cpu", "build-cuda"}, Whole(r)
  PROVE  ParseBuildCommands(CommandPlan(e, r)) =
           [comparator |-> FlagsOf(Expected(e, r), "quantizer"),
            avx2 |-> FlagsOf(Expected(e, r), "quantizer_avx2"),
            cuda |-> FlagsOf(Expected(e, r), "quantizer_cuda")]
<1> DEFINE P == CommandPlan(e, r)
<1>1. Linked(P, BinaryOf(r))
  BY WholePlan
<1>2. \E ho, vo, co : Described(P, ho, vo, co)
  <2>1. CASE r = "build-cpu"
    <3>1. P = CpuPlan(e, FALSE, {}, "stoquant")
      BY <2>1 DEF CommandPlan
    <3> HIDE DEF P
    <3> QED
      BY <3>1, CpuDescribed
  <2>2. CASE r = "build-cuda"
    <3>1. P = CudaPlan(e)
      BY <2>2 DEF CommandPlan
    <3> HIDE DEF P
    <3> QED
      BY <3>1, CudaDescribed
  <2> QED
    BY <2>1, <2>2
<1>3. Expected(e, r) = BinaryIn(e, P, BinaryOf(r))
  BY BinaryMade DEF BinaryIn
<1> HIDE DEF P
<1>4. PICK ho, vo, co : Described(P, ho, vo, co)
  BY <1>2
<1>5. ParseBuildCommands(P) =
        [comparator |-> FlagsOf(BinaryIn(e, P, BinaryOf(r)), "quantizer"),
         avx2 |-> FlagsOf(BinaryIn(e, P, BinaryOf(r)), "quantizer_avx2"),
         cuda |-> FlagsOf(BinaryIn(e, P, BinaryOf(r)), "quantizer_cuda")]
  BY <1>1, <1>4, DescribedFlags
<1> QED
  BY <1>3, <1>5 DEF P

LEMMA IInvFlags == ASSUME IInv PROVE ReportedFlags
<1> DEFINE s == driver.stamp
<1>1. SUFFICES ASSUME Accepted, s.made.alone, s.made.still, s.recipe \in {"build-cpu", "build-cuda"}
               PROVE  ParseBuildCommands(s.commands) =
                        [comparator |-> FlagsOf(driver.hash, "quantizer"),
                         avx2 |-> FlagsOf(driver.hash, "quantizer_avx2"),
                         cuda |-> FlagsOf(driver.hash, "quantizer_cuda")]
  BY DEF ReportedFlags
<1>2. Whole(s.recipe) /\ s # NoStamp /\ StampSound(s, driver.want.binary) /\ Verified(driver)
  BY <1>1, AcceptedStamp
<1>3. s.hash = driver.hash
  BY <1>2 DEF Verified
<1>4. PICK t \in Trees : s.hash = Expected(t.work, s.recipe) /\ s.commands = CommandPlan(t.work, s.recipe)
  BY <1>1, <1>2 DEF StampSound
<1>5. t.work \in Editions
  BY DEF Trees
<1>6. ParseBuildCommands(CommandPlan(t.work, s.recipe)) =
        [comparator |-> FlagsOf(Expected(t.work, s.recipe), "quantizer"),
         avx2 |-> FlagsOf(Expected(t.work, s.recipe), "quantizer_avx2"),
         cuda |-> FlagsOf(Expected(t.work, s.recipe), "quantizer_cuda")]
  BY <1>1, <1>2, <1>5, FlagsOfExpected
<1> QED
  BY <1>3, <1>4, <1>6

\* The flags a report gives for the scalar comparator, the AVX2 comparator and
\* the CUDA kernels are the ones those objects of the verified binary were
\* compiled with, for every choice of source lists and compiler flags.
THEOREM ReportedFlagsHolds == Spec => []ReportedFlags
<1>1. IInv => ReportedFlags
  BY IInvFlags
<1> QED
  BY <1>1, Invariance, PTL
=============================================================================

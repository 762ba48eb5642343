-------------------------------- MODULE Build --------------------------------
(***************************************************************************)
(* Native builds, the stamps they leave beside their binaries, and a       *)
(* driver that verifies a stamp before it times the binary.                *)
(*                                                                         *)
(* One working tree and one build folder are shared by a developer who     *)
(* edits and commits, by builds that run one compiler command after the    *)
(* other (two may overlap, nothing locks the folder), and by a driver.     *)
(* Every look at git, at the justfile, at a stamp or at a binary is a step *)
(* of its own.  A command may fail, and a build may be killed anywhere.    *)
(*                                                                         *)
(* A hash is the content it is taken of.  `made' in a stamp is a history   *)
(* variable: no check reads it.                                            *)
(*                                                                         *)
(* An operator defined just before another one and named after it is a     *)
(* seeded fault; PROJECT.json says which property catches it.              *)
(***************************************************************************)
EXTENDS BuildPlan

CONSTANTS
  FirstEdition, \* the edition first checked out
  Builders,     \* processes that run native_build.build
  Cases,        \* what may be built and asked for: `script' says which recipes
                \* each builder runs in turn, such as the chains of
                \* dependencies in the justfile; `want' what the driver asks for
  MaxChanges,   \* edits and commits
  MaxUses       \* native processes a driver starts

\* What drivers ask for: a binary, whether it must serve CUDA paths, and the
\* recipes it may come from.
FindBinary(cuda) ==
  [binary |-> "stoquant", cuda |-> cuda,
   recipes |-> IF cuda THEN {"build-cuda"} ELSE {"build-cpu", "build-cuda"}]
QueryDeviceAttributes ==
  [binary |-> "stream_probe", cuda |-> FALSE, recipes |-> {"build-stream-probe"}]

ASSUME BuildAssumption ==
  /\ FirstEdition \in Editions
  /\ \A c \in Cases :
       /\ c.script \in [Builders -> Seq(BUILD_RECIPES \cup {"test-cpu-asan"})]
       /\ c.want \in {FindBinary(TRUE), FindBinary(FALSE), QueryDeviceAttributes}
  /\ MaxChanges \in Nat /\ MaxUses \in Nat

VARIABLES
  tree,      \* work: the edition of the files, head: the committed one
  files,     \* objects and binaries in build/, by path
  stamps,    \* stamps[n]: the stamp beside binary n
  build,     \* build[b]: the build b runs
  driver,    \* what the driver asked for, read and decided
  used,      \* the binary's contents at each process the driver started
  changes,   \* edits and commits so far
  script     \* script[b]: the recipes b has still to build

vars == <<tree, files, stamps, build, driver, used, changes, script>>

Torn == [tool |-> "torn", opts |-> [vars |-> {}, just |-> "", extra |-> {}], parts |-> <<>>]
\* No stamp, or one that is incomplete or still being filled in.
NoStamp == [version |-> 0, recipe |-> "", commands |-> <<>>, dirty |-> TRUE, revision |-> "",
            fingerprint |-> <<>>, hash |-> Torn, made |-> [alone |-> FALSE, still |-> FALSE, fresh |-> FALSE]]

\* git: the revision, whether status lists anything, and the hash of the diff
\* and of the untracked files.
Dirty(t) == t.work # t.head
TreeFingerprintStatus(t) == IF Dirty(t) THEN <<"dirty">> ELSE <<>>
TreeFingerprint(t) == IF Dirty(t) THEN <<t.head, t.work>> ELSE <<>>
GitProvenance(t) == [revision |-> t.head, dirty |-> Dirty(t), fingerprint |-> TreeFingerprint(t)]
NoGit == [revision |-> "unknown", dirty |-> TRUE, fingerprint |-> <<"unknown">>]

\* plan: the commands of the recipe; next: the one to run next.
Idle == [pc |-> "idle", recipe |-> "", plan |-> <<>>, next |-> 1, out |-> NoOutput, stamp |-> NoStamp,
         alone |-> FALSE, still |-> FALSE]

Init ==
  /\ tree = [work |-> FirstEdition, head |-> FirstEdition]
  /\ files = NoFiles
  /\ stamps = [n \in {} |-> NoStamp]
  /\ build = [b \in Builders |-> Idle]
  /\ \E c \in Cases :
       /\ script = c.script
       /\ driver = [pc |-> "revision", want |-> c.want, git |-> NoGit, stamp |-> NoStamp,
                    hash |-> Torn, calm |-> FALSE]
  /\ used = <<>> /\ changes = 0

Active(b) == build[b].pc # "idle"

\* History: since this stamp was written the tree has changed, or another
\* build of its binary has begun.
Unfresh(stamp) == [stamp EXCEPT !.made.fresh = FALSE]

\* Bound: a behaviour is followed until the driver has been refused or has
\* started MaxUses processes.
Followed == driver.pc # "refused" /\ Len(used) < MaxUses

-----------------------------------------------------------------------------
(* The developer *)

\* A change of the tree is noted by every build under way and by the driver.
TreeChanges(t) ==
  /\ Followed /\ changes < MaxChanges
  /\ tree' = t
  /\ changes' = changes + 1
  /\ build' = [b \in Builders |-> [build[b] EXCEPT !.still = FALSE]]
  /\ driver' = [driver EXCEPT !.calm = FALSE]
  /\ stamps' = [n \in DOMAIN stamps |-> Unfresh(stamps[n])]
  /\ UNCHANGED <<files, used, script>>
Edit == \E e \in Editions \ {tree.work} : TreeChanges([tree EXCEPT !.work = e])
Commit == Dirty(tree) /\ TreeChanges([tree EXCEPT !.head = tree.work])

-----------------------------------------------------------------------------
(* native_build.build *)

Step(b, record) == Followed /\ build' = [build EXCEPT ![b] = record]

\* The commands are read from the justfile once.  The MSVC suite refuses other
\* systems; just may fail.
Start(b) ==
  /\ Followed /\ ~Active(b) /\ script[b] # <<>>
  /\ Head(script[b]) = "test-cpu-asan" => Msvc
  /\ LET recipe == Head(script[b])
         work == Work(tree.work, recipe)
         overlap == \E c \in Builders \ {b} : Active(c)
     IN  /\ build' = [c \in Builders |->
                        IF c = b THEN [Idle EXCEPT !.pc = "run", !.recipe = recipe, !.plan = work,
                                                   !.out = Output(work), !.alone = ~overlap, !.still = TRUE]
                        ELSE [build[c] EXCEPT !.alone = FALSE]]
         /\ driver' = [driver EXCEPT !.calm = @ /\ Bin(driver.want.binary) # Output(work)]
         /\ stamps' = [n \in DOMAIN stamps |->
                         IF Bin(n) = Output(work) THEN Unfresh(stamps[n]) ELSE stamps[n]]
  /\ script' = [script EXCEPT ![b] = Tail(@)]
  /\ UNCHANGED <<tree, files, used, changes>>

\* One command that exits with 0.
Running(b) == build[b].pc = "run" /\ build[b].next <= Len(build[b].plan)
RunCommand(b) ==
  /\ Running(b)
  /\ LET c == build[b].plan[build[b].next] IN
     /\ InputsPresent(c, files)
     /\ files' = IF c.out = NoOutput THEN files ELSE With(files, c.out, Content(c, tree.work, files))
  /\ Step(b, [build[b] EXCEPT !.next = @ + 1])
  /\ UNCHANGED <<tree, stamps, driver, used, changes, script>>

\* Another exit code ends the build; the compiler may have taken its output away.
CommandFails(b) ==
  /\ Running(b)
  /\ files' \in {files, Without(files, build[b].plan[build[b].next].out)}
  /\ Step(b, Idle)
  /\ UNCHANGED <<tree, stamps, driver, used, changes, script>>

\* The suites write no stamp.
CommandsDone(b) == build[b].pc = "run" /\ build[b].next > Len(build[b].plan)
SuiteEnds(b) ==
  /\ CommandsDone(b) /\ ~Stamped(build[b].recipe)
  /\ Step(b, Idle)
  /\ UNCHANGED <<tree, files, stamps, driver, used, changes, script>>

\* write_stamp: the binary must be there, the commands are read again.
StampBegins(b) ==
  /\ CommandsDone(b) /\ Stamped(build[b].recipe)
  /\ IF build[b].out \in DOMAIN files
     THEN Step(b, [build[b] EXCEPT !.pc = "status",
            !.stamp = [NoStamp EXCEPT !.version = 1, !.recipe = build[b].recipe,
                                      !.commands = CommandPlan(tree.work, build[b].recipe)]])
     ELSE Step(b, Idle)
  /\ UNCHANGED <<tree, files, stamps, driver, used, changes, script>>

StampReads(b, from, to, stamp) ==
  /\ build[b].pc = from
  /\ Step(b, [build[b] EXCEPT !.pc = to, !.stamp = stamp])
  /\ UNCHANGED <<tree, files, stamps, driver, used, changes, script>>
StampStatus(b) ==
  StampReads(b, "status", "revision", [build[b].stamp EXCEPT !.dirty = Dirty(tree)])
StampRevision(b) ==
  StampReads(b, "revision", "fingerprint", [build[b].stamp EXCEPT !.revision = tree.head])
StampFingerprint(b) ==
  StampReads(b, "fingerprint", "hash", [build[b].stamp EXCEPT !.fingerprint = TreeFingerprint(tree)])
\* A binary that has gone raises; nothing is written.
StampHash(b) ==
  IF build[b].out \in DOMAIN files
  THEN StampReads(b, "hash", "open", [build[b].stamp EXCEPT !.hash = files[build[b].out]])
  ELSE /\ build[b].pc = "hash" /\ Step(b, Idle)
       /\ UNCHANGED <<tree, files, stamps, driver, used, changes, script>>

\* write_text opens the file, which empties it, and then writes.
StampOpen(b) ==
  /\ build[b].pc = "open"
  /\ stamps' = With(stamps, build[b].out.stem, NoStamp)
  /\ Step(b, [build[b] EXCEPT !.pc = "write"])
  /\ UNCHANGED <<tree, files, driver, used, changes, script>>
StampWrite(b) ==
  /\ build[b].pc = "write"
  /\ LET made == [alone |-> build[b].alone, still |-> build[b].still,
                  fresh |-> build[b].alone /\ build[b].still]
     IN  stamps' = With(stamps, build[b].out.stem, [build[b].stamp EXCEPT !.made = made])
  /\ Step(b, Idle)
  /\ UNCHANGED <<tree, files, driver, used, changes, script>>

\* A kill leaves the file being written as it was, away, or incomplete.
Kill(b) ==
  /\ Active(b)
  /\ \/ files' = files
     \/ /\ Running(b) /\ build[b].plan[build[b].next].out # NoOutput
        /\ files' = With(files, build[b].plan[build[b].next].out, Torn)
  /\ Step(b, Idle)
  /\ UNCHANGED <<tree, stamps, driver, used, changes, script>>

-----------------------------------------------------------------------------
(* A driver: collect_git_provenance, find_binary or query_device_attributes,
   then the native processes of its run *)

DriverSet(record) == driver' = record /\ UNCHANGED <<tree, files, stamps, build, changes, script>>
DriverGoes(record) == DriverSet(record) /\ UNCHANGED used
\* A refusal raises; what was read is forgotten.
Refuse ==
  DriverGoes([driver EXCEPT !.pc = "refused", !.git = NoGit, !.stamp = NoStamp, !.hash = Torn])

\* calm: the binary has just been built for this, and nothing changes from
\* here on that could invalidate it.
CalmFor(w) ==
  /\ w.binary \in DOMAIN stamps
  /\ stamps[w.binary] # NoStamp
  /\ stamps[w.binary].made.fresh
  /\ stamps[w.binary].recipe \in w.recipes
  /\ \A b \in Builders : Active(b) => build[b].out # Bin(w.binary)
GitRevision ==
  /\ driver.pc = "revision"
  /\ DriverGoes([driver EXCEPT !.pc = "status", !.git.revision = tree.head,
                               !.calm = CalmFor(driver.want)])
GitStatus ==
  driver.pc = "status" /\ DriverGoes([driver EXCEPT !.pc = "fingerprint", !.git.dirty = Dirty(tree)])
GitFingerprint ==
  /\ driver.pc = "fingerprint"
  /\ DriverGoes([driver EXCEPT !.pc = "stamp", !.git.fingerprint = TreeFingerprint(tree)])
\* "unknown" provenance, which no stamp matches.
GitFails ==
  /\ driver.pc \in {"revision", "status", "fingerprint"}
  /\ DriverGoes([driver EXCEPT !.pc = "refused", !.git = NoGit, !.calm = FALSE])

\* The binary is there, its stamp is there, complete and of this version.
ReadStamp ==
  /\ driver.pc = "stamp"
  /\ LET n == driver.want.binary IN
     IF Bin(n) \in DOMAIN files /\ n \in DOMAIN stamps /\ stamps[n] # NoStamp
     THEN DriverGoes([driver EXCEPT !.pc = "hash", !.stamp = stamps[n]])
     ELSE Refuse

\* The checks between reading the stamp and reconstructing its commands.
StampMatchesAnyBinary(s, hash) ==
  /\ s.revision = driver.git.revision
  /\ s.dirty = driver.git.dirty /\ s.fingerprint = driver.git.fingerprint
  /\ s.recipe \in BUILD_RECIPES
  /\ driver.want.cuda => s.recipe = "build-cuda"
  /\ s.recipe \in driver.want.recipes
StampMatchesCudaOnly(s, hash) ==
  /\ s.hash = hash
  /\ s.revision = driver.git.revision
  /\ s.dirty = driver.git.dirty /\ s.fingerprint = driver.git.fingerprint
  /\ s.recipe = "build-cuda"
StampMatches(s, hash) ==
  /\ s.hash = hash
  /\ s.revision = driver.git.revision
  /\ s.dirty = driver.git.dirty /\ s.fingerprint = driver.git.fingerprint
  /\ s.recipe \in BUILD_RECIPES
  /\ \A i \in DOMAIN s.commands : s.commands[i].opts.extra \cap TEST_ONLY_DEFINES = {}
  /\ driver.want.cuda => s.recipe = "build-cuda"
  /\ s.recipe \in driver.want.recipes
HashBinary ==
  /\ driver.pc = "hash"
  /\ LET n == Bin(driver.want.binary) IN
     IF n \in DOMAIN files /\ StampMatches(driver.stamp, files[n])
     THEN DriverGoes([driver EXCEPT !.pc = "commands", !.hash = files[n]])
     ELSE Refuse
\* Last, the stamp's commands against those of the justfile as it is now.
CheckCommands ==
  /\ driver.pc = "commands"
  /\ IF driver.stamp.commands = CommandPlan(tree.work, driver.stamp.recipe)
     THEN DriverGoes([driver EXCEPT !.pc = "use"])
     ELSE Refuse

\* A native process of the run: whatever program build/ holds at that moment.
Use ==
  /\ driver.pc = "use" /\ Followed
  /\ Bin(driver.want.binary) \in DOMAIN files /\ files[Bin(driver.want.binary)] # Torn
  /\ used' = Append(used, files[Bin(driver.want.binary)])
  /\ DriverSet(driver)

-----------------------------------------------------------------------------
Next ==
  \/ Edit \/ Commit
  \/ \E b \in Builders :
       \/ Start(b) \/ RunCommand(b) \/ CommandFails(b) \/ SuiteEnds(b)
       \/ StampBegins(b) \/ StampStatus(b) \/ StampRevision(b) \/ StampFingerprint(b)
       \/ StampHash(b) \/ StampOpen(b) \/ StampWrite(b) \/ Kill(b)
  \/ GitRevision \/ GitStatus \/ GitFingerprint \/ GitFails
  \/ ReadStamp \/ HashBinary \/ CheckCommands \/ Use
Spec == Init /\ [][Next]_vars

-----------------------------------------------------------------------------
(* Properties *)

Accepted == driver.pc = "use"
Recorded(e) == driver.git = GitProvenance([work |-> e, head |-> driver.git.revision])

\* A binary that find_binary or query_device_attributes returns is, byte for
\* byte, what its recipe makes of the one tree that has the recorded
\* provenance, whatever failed, killed or edited builds came before and
\* whatever is edited or committed while the driver looks, provided that the
\* build that wrote the stamp saw no edit and no overlapping build.  Even if
\* the tree was edited under it, it consists of the sources, compilers,
\* defines and sanitizers of that recipe: a sanitized, fault-injecting or
\* CPU-only program never serves as another.
VerifiedIsBuilt ==
  Accepted /\ driver.stamp.made.alone =>
    \A e \in Editions :
      LET expected == Expected(e, driver.stamp.recipe) IN
      /\ Shape(driver.hash) = Shape(expected)
      /\ driver.stamp.made.still /\ Recorded(e) => driver.hash = expected

\* The flags collect_build_commands reports for the scalar comparator, the AVX2
\* comparator and the CUDA kernels are the flags those objects of the accepted
\* binary were compiled with, not those of another translation unit.
FlagsOf(content, stem) ==
  {content.parts[i].opts : i \in {j \in DOMAIN content.parts : content.parts[j].parts[1].source = stem}}
ReportedFlags ==
  /\ Accepted /\ driver.stamp.made.alone /\ driver.stamp.made.still
  /\ driver.stamp.recipe \in {"build-cpu", "build-cuda"}
  => ParseBuildCommands(driver.stamp.commands) =
       [comparator |-> FlagsOf(driver.hash, "quantizer"), avx2 |-> FlagsOf(driver.hash, "quantizer_avx2"),
        cuda |-> FlagsOf(driver.hash, "quantizer_cuda")]

\* A driver that starts after an undisturbed build of what it needs, and sees
\* neither a change of the tree nor another build of that binary, is not
\* refused: write_stamp and verify_stamp agree on every field.
NoFalseRefusal == driver.calm => driver.pc # "refused"

\* docs/adr/0003: "The manifest records the verified stamp, so each timing ties
\* back to one exact binary": every native process of a driver ran the binary
\* that find_binary had verified.
TimingsTieToOneBinary == \A i \in DOMAIN used : used[i] = driver.hash
=============================================================================

---------------------------- MODULE SnapshotStore ----------------------------
(***************************************************************************)
(* The write-once snapshot life cycle of stoquant: drivers (the matrix     *)
(* sweep, the unbiasedness suite, the two K1 experiments) that name,       *)
(* reserve, fill and publish a directory under results/, and report        *)
(* processes that regenerate derived/ below a published one.               *)
(*                                                                         *)
(* Every driver and every report is an operating-system process, so each   *)
(* file-system call of snapshot_store.py is a step of its own and any      *)
(* other process may act between two of them.  A path is looked up by name *)
(* at every step, as the code does: nothing here locks a directory.        *)
(*                                                                         *)
(* An operator defined just before another one and named after it          *)
(* (ReservableExistOk before Reservable) is a seeded fault: the model does *)
(* not use it, PROJECT.json says which property catches it.                *)
(***************************************************************************)
EXTENDS Naturals

CONSTANTS
  Runs,           \* driver processes
  Reports,        \* report processes
  Names,          \* directory names: local date, revision and kind
  Nobody,         \* the owner of a directory that does not exist
  NumFiles,       \* raw files a run writes, the last one completing it
  RenameReplaces  \* TRUE: rename replaces an existing target (POSIX, empty
                  \* directory); FALSE: it raises (Windows, or not empty)

ASSUME ConstantsAssumption ==
  /\ Nobody \notin Runs
  /\ NumFiles \in Nat \ {0}
  /\ RenameReplaces \in BOOLEAN

VARIABLES
  final,      \* final[n]: the directory results/n
  partial,    \* partial[n]: the directory results/n.partial
  pc,         \* control point of each run
  kind,       \* which driver the run is
  name,       \* the name the run computed when it started
  dirtyRun,   \* git_dirty as read at the start, without --allow-dirty
  written,    \* raw files the run has written
  reg,        \* what the run's registration file points to
  rpc,        \* control point of each report
  rname,      \* the snapshot the report renders
  seen        \* the run whose raw files the report read

runVars == <<pc, kind, name, dirtyRun, written, reg>>
reportVars == <<rpc, rname, seen>>
vars == <<final, partial, runVars, reportVars>>

Kinds == {"matrix", "unbiasedness", "k1_baseline", "k1_ab"}
DrawingKinds == {"unbiasedness", "k1_ab"}

\* One directory: who made it, the raw files in it (each with the run that
\* wrote it), whether derived/ exists, and whose data the figures show.
Directory ==
  [owner: Runs \cup {Nobody}, raw: SUBSET (Runs \X (1..NumFiles)),
   derived: BOOLEAN, figures: SUBSET (Runs \cup {Nobody})]
Absent == [owner |-> Nobody, raw |-> {}, derived |-> FALSE, figures |-> {}]
Exists(d) == d.owner # Nobody
NewDirectory(r) == [Absent EXCEPT !.owner = r]
WithDerived(d) == [d EXCEPT !.derived = TRUE]
WithFigure(d, r) == [d EXCEPT !.figures = @ \cup {r}]
AllFiles(r) == {r} \X (1..NumFiles)

Goto(r, l) == pc' = [pc EXCEPT ![r] = l]
RGoto(p, l) == rpc' = [rpc EXCEPT ![p] = l]

Init ==
  /\ final = [n \in Names |-> Absent]
  /\ partial = [n \in Names |-> Absent]
  /\ pc = [r \in Runs |-> "idle"]
  /\ kind \in [Runs -> Kinds]
  /\ name \in [Runs -> Names]
  /\ dirtyRun \in [Runs -> BOOLEAN]
  /\ written = [r \in Runs |-> 0]
  /\ reg = [r \in Runs |-> "none"]
  /\ rpc = [p \in Reports |-> "idle"]
  /\ rname \in [Reports -> Names]
  /\ seen = [p \in Reports |-> Nobody]

-----------------------------------------------------------------------------
(* check_snapshot and create_snapshot *)

\* The driver starts; the unbiasedness suite goes straight to
\* create_snapshot, the others call check_snapshot before long preparation.
Begin(r) ==
  /\ pc[r] = "idle"
  /\ Goto(r, IF kind[r] = "unbiasedness" THEN "create_target" ELSE "check_target")
  /\ UNCHANGED <<final, partial, kind, name, dirtyRun, written, reg, reportVars>>

\* check_snapshot up to target.exists(): the dirty gate, then the first look.
TargetRefused(r) == dirtyRun[r] \/ Exists(final[name[r]])
CheckTarget(r) ==
  /\ pc[r] \in {"check_target", "create_target"}
  /\ Goto(r, IF TargetRefused(r) THEN "refused"
             ELSE IF pc[r] = "check_target" THEN "check_partial"
             ELSE "create_partial")
  /\ UNCHANGED <<final, partial, kind, name, dirtyRun, written, reg, reportVars>>

\* The rest of check_snapshot: partial.exists(), at a later moment.
CheckPartial(r) ==
  /\ pc[r] \in {"check_partial", "create_partial"}
  /\ Goto(r, IF Exists(partial[name[r]]) THEN "refused"
             ELSE IF pc[r] = "check_partial" THEN "prepare"
             ELSE "mkdir")
  /\ UNCHANGED <<final, partial, kind, name, dirtyRun, written, reg, reportVars>>

\* Readiness facts, build stamps, GPU warm-up: long, and may refuse the run.
Prepare(r) ==
  /\ pc[r] = "prepare"
  /\ \E l \in {"create_target", "refused"} : Goto(r, l)
  /\ UNCHANGED <<final, partial, kind, name, dirtyRun, written, reg, reportVars>>

\* partial.mkdir() without exist_ok: at most one of the contenders succeeds.
ReservableExistOk(n) == TRUE
Reservable(n) == ~Exists(partial[n])
Mkdir(r) ==
  /\ pc[r] = "mkdir"
  /\ IF Reservable(name[r])
     THEN /\ partial' = [partial EXCEPT ![name[r]] = NewDirectory(r)]
          /\ Goto(r, IF kind[r] = "matrix" THEN "register" ELSE "write")
     ELSE /\ Goto(r, "refused")
          /\ UNCHANGED partial
  /\ UNCHANGED <<final, kind, name, dirtyRun, written, reg, reportVars>>

-----------------------------------------------------------------------------
(* Filling the partial directory *)

\* register_active_snapshot: the temporary file is replaced atomically.
RegisterPartial(r) ==
  /\ pc[r] = "register"
  /\ reg' = [reg EXCEPT ![r] = "partial"]
  /\ Goto(r, "write")
  /\ UNCHANGED <<final, partial, kind, name, dirtyRun, written, reportVars>>

\* The next raw file.  The unbiasedness suite draws its figure before it
\* writes its results.
FilesLeftOneMore(r) == written[r] <= NumFiles
FilesLeftOneLess(r) == written[r] + 1 < NumFiles
FilesLeft(r) == written[r] < NumFiles
WriteFile(r) ==
  /\ pc[r] = "write"
  /\ FilesLeft(r)
  /\ kind[r] = "unbiasedness" => partial[name[r]].derived
  /\ written' = [written EXCEPT ![r] = @ + 1]
  /\ partial' = [partial EXCEPT ![name[r]].raw = @ \cup {<<r, written[r] + 1>>}]
  /\ UNCHANGED <<final, pc, kind, name, dirtyRun, reg, reportVars>>

\* The run's own figures: derived_directory on its partial directory, then
\* the plot, from the data the process holds.
DrawFigures(r) ==
  /\ pc[r] = "write"
  /\ kind[r] \in DrawingKinds
  /\ kind[r] = "k1_ab" => written[r] = NumFiles
  /\ ~partial[name[r]].derived
  /\ partial' = [partial EXCEPT ![name[r]] = WithFigure(WithDerived(@), r)]
  /\ UNCHANGED <<final, pc, kind, name, dirtyRun, written, reg, reportVars>>

\* The last file is on disk.  The unbiasedness suite commits only when every
\* case passed; otherwise it exits with its partial directory in place.
CompleteTooSoon(r) == written[r] + 1 >= NumFiles
Complete(r) == written[r] = NumFiles
Finish(r) ==
  /\ pc[r] = "write"
  /\ Complete(r)
  /\ kind[r] \in DrawingKinds => partial[name[r]].derived
  /\ \E l \in {"commit"} \cup (IF kind[r] = "unbiasedness" THEN {"failed"} ELSE {}) :
       Goto(r, l)
  /\ UNCHANGED <<final, partial, kind, name, dirtyRun, written, reg, reportVars>>

-----------------------------------------------------------------------------
(* Snapshot.commit *)

\* final.exists(): the last look before the rename.
CommitRefusedNever(r) == FALSE
CommitRefused(r) == Exists(final[name[r]])
CommitCheck(r) ==
  /\ pc[r] = "commit"
  /\ Goto(r, IF CommitRefused(r) THEN "failed" ELSE "rename")
  /\ UNCHANGED <<final, partial, kind, name, dirtyRun, written, reg, reportVars>>

\* partial.rename(final), then the matrix driver registers the final path.
Rename(r) ==
  /\ pc[r] = "rename"
  /\ IF Exists(final[name[r]]) /\ ~RenameReplaces
     THEN /\ Goto(r, "failed")
          /\ UNCHANGED <<final, partial>>
     ELSE /\ final' = [final EXCEPT ![name[r]] = partial[name[r]]]
          /\ partial' = [partial EXCEPT ![name[r]] = Absent]
          /\ Goto(r, IF kind[r] = "matrix" THEN "register_final" ELSE "done")
  /\ UNCHANGED <<kind, name, dirtyRun, written, reg, reportVars>>

RegisterFinal(r) ==
  /\ pc[r] = "register_final"
  /\ reg' = [reg EXCEPT ![r] = "final"]
  /\ Goto(r, "done")
  /\ UNCHANGED <<final, partial, kind, name, dirtyRun, written, reportVars>>

\* A crash, an interrupt or an exception once the name is reserved: nothing
\* is cleaned up, "an interrupted run keeps the partial folder".
Fail(r) ==
  /\ pc[r] \in {"register", "write", "commit", "rename", "register_final"}
  /\ Goto(r, "failed")
  /\ UNCHANGED <<final, partial, kind, name, dirtyRun, written, reg, reportVars>>

-----------------------------------------------------------------------------
(* Reports: read_snapshot, derived_directory, then the figures *)

ReadSnapshot(p) ==
  /\ rpc[p] = "idle"
  /\ Exists(final[rname[p]])
  /\ seen' = [seen EXCEPT ![p] = final[rname[p]].owner]
  /\ RGoto(p, "exists")
  /\ UNCHANGED <<final, partial, runVars, rname>>

DerivedExists(p) ==
  /\ rpc[p] = "exists"
  /\ RGoto(p, IF final[rname[p]].derived THEN "rmtree" ELSE "mkdir")
  /\ UNCHANGED <<final, partial, runVars, rname, seen>>

\* shutil.rmtree raises when another report removed the folder first.
Cleared(d) == [d EXCEPT !.derived = FALSE, !.figures = {}]
RemoveDerived(p) ==
  /\ rpc[p] = "rmtree"
  /\ RGoto(p, IF final[rname[p]].derived THEN "mkdir" ELSE "failed")
  /\ final' = [final EXCEPT ![rname[p]] = Cleared(@)]
  /\ UNCHANGED <<partial, runVars, rname, seen>>

\* out.mkdir(parents=True) raises when another report made the folder first.
MakeDerived(p) ==
  /\ rpc[p] = "mkdir"
  /\ RGoto(p, IF final[rname[p]].derived THEN "failed" ELSE "ensure")
  /\ final' = [final EXCEPT ![rname[p]] = WithDerived(@)]
  /\ UNCHANGED <<partial, runVars, rname, seen>>

\* out.mkdir(exist_ok=True): the folder is back if another report removed it.
EnsureDerived(p) ==
  /\ rpc[p] = "ensure"
  /\ RGoto(p, "render")
  /\ final' = [final EXCEPT ![rname[p]] = WithDerived(@)]
  /\ UNCHANGED <<partial, runVars, rname, seen>>

\* The figures and report.md, which need the folder to be there.
Render(p) ==
  /\ rpc[p] = "render"
  /\ IF final[rname[p]].derived
     THEN /\ final' = [final EXCEPT ![rname[p]] = WithFigure(@, seen[p])]
          /\ RGoto(p, "idle")
     ELSE /\ RGoto(p, "failed")
          /\ UNCHANGED final
  /\ UNCHANGED <<partial, runVars, rname, seen>>

\* A report that dies on the way, or a publication report that refuses its
\* cases or finds no K1 snapshot, leaves derived/ as it is.
AbandonReport(p) ==
  /\ rpc[p] \notin {"idle", "failed"}
  /\ RGoto(p, "failed")
  /\ UNCHANGED <<final, partial, runVars, rname, seen>>

-----------------------------------------------------------------------------
RunStep(r) ==
  \/ Begin(r) \/ CheckTarget(r) \/ CheckPartial(r) \/ Prepare(r) \/ Mkdir(r)
  \/ RegisterPartial(r) \/ WriteFile(r) \/ DrawFigures(r) \/ Finish(r)
  \/ CommitCheck(r) \/ Rename(r) \/ RegisterFinal(r)
ReportStep(p) ==
  \/ ReadSnapshot(p) \/ DerivedExists(p) \/ RemoveDerived(p)
  \/ MakeDerived(p) \/ EnsureDerived(p) \/ Render(p)
  \/ AbandonReport(p)

Next ==
  \/ \E r \in Runs : RunStep(r) \/ Fail(r)
  \/ \E p \in Reports : ReportStep(p)

Spec == Init /\ [][Next]_vars

\* The operating system keeps scheduling a driver that has started; whether
\* it fails, and whether anybody asks for a report, is left open.
FairSpec == Spec /\ \A r \in Runs : WF_vars(RunStep(r))

-----------------------------------------------------------------------------
(* Properties *)

TypeOK ==
  /\ final \in [Names -> Directory]
  /\ partial \in [Names -> Directory]
  /\ pc \in [Runs -> {"idle", "check_target", "check_partial", "prepare",
                      "create_target", "create_partial", "mkdir", "register",
                      "write", "commit", "rename", "register_final", "done",
                      "refused", "failed"}]
  /\ kind \in [Runs -> Kinds]
  /\ name \in [Runs -> Names]
  /\ dirtyRun \in [Runs -> BOOLEAN]
  /\ written \in [Runs -> 0..NumFiles]
  /\ reg \in [Runs -> {"none", "partial", "final"}]
  /\ rpc \in [Reports -> {"idle", "exists", "rmtree", "mkdir", "ensure",
                          "render", "failed"}]
  /\ rname \in [Reports -> Names]
  /\ seen \in [Reports -> Runs \cup {Nobody}]

\* A run between its mkdir and its rename.
Holds(r) == pc[r] \in {"register", "write", "commit", "rename"}

\* ADR 0005, "raw bytes stay fixed": whatever runs and reports do, the owner
\* and the raw files of a published snapshot never change and never go away.
WriteOnce ==
  [][\A n \in Names : Exists(final[n]) =>
       /\ final'[n].owner = final[n].owner
       /\ final'[n].raw = final[n].raw]_vars

\* ADR 0005, "failed runs leave no half snapshot": a directory under its
\* final name holds every raw file of one run and no file of another.
NoHalfSnapshot ==
  \A n \in Names : Exists(final[n]) => final[n].raw = AllFiles(final[n].owner)

\* A partial directory never mixes the files of two runs, although every
\* write looks the directory up by its name.
NoMixedPartial ==
  \A n \in Names : partial[n].raw \subseteq AllFiles(partial[n].owner)

\* Snapshot.commit looks at the final name and renames in two steps; no other
\* process can have published the name in between.
RenameFindsNameFree ==
  \A r \in Runs : pc[r] = "rename" => ~Exists(final[name[r]])

\* No snapshot, published or partial, comes from a run the dirty gate of
\* check_snapshot should have refused.
DirtyRunsLeaveNothing ==
  \A n \in Names :
    /\ Exists(final[n]) => ~dirtyRun[final[n].owner]
    /\ Exists(partial[n]) => ~dirtyRun[partial[n].owner]

\* The figures in derived/ were drawn from the raw files they lie beside,
\* even when reports overlap with each other and with runs of that name.
FiguresMatchRaw ==
  \A n \in Names : final[n].figures \subseteq {final[n].owner}

\* A notifier that follows its run's registration reads its own run's
\* directory: the partial one until the run has committed, the final one
\* once it is registered.  (Between the two the partial path may already
\* belong to another run.)
RegisteredIsOwn ==
  \A r \in Runs :
    /\ reg[r] = "partial" => r \in {partial[name[r]].owner, final[name[r]].owner}
    /\ reg[r] = "final" => r = final[name[r]].owner

\* A reserved name does not stay reserved: it is published, or a run of that
\* name has failed and left its partial directory for diagnosis.
ReservationResolves ==
  \A n \in Names :
    Exists(partial[n]) ~> \/ Exists(final[n])
                         \/ \E r \in Runs : name[r] = n /\ pc[r] = "failed"

-----------------------------------------------------------------------------
(* What the store promises: a ledger of published snapshots. *)
Ledger == INSTANCE SnapshotLedger WITH
  published <- [n \in Names |-> [owner |-> final[n].owner, raw |-> final[n].raw]]
LedgerSpec == Ledger!Spec
=============================================================================

------------------------- MODULE SnapshotStoreProofs -------------------------
(***************************************************************************)
(* Proofs about SnapshotStore, for any number of runs, reports and names   *)
(* and for both behaviours of rename on an existing target.                *)
(*                                                                         *)
(* The argument: only the run whose mkdir succeeded holds a partial name,  *)
(* it holds it until its own rename, and only a holder renames.  So while  *)
(* one run holds a name nobody else can publish it, which makes the two    *)
(* steps of Snapshot.commit behave as one.                                 *)
(***************************************************************************)
EXTENDS SnapshotStore, TLAPS

Unreserved(r) ==
  pc[r] \in {"idle", "check_target", "check_partial", "prepare",
             "create_target", "create_partial", "mkdir"}

\* A holder's directory is its own and holds exactly what it has written.
HoldersOwn ==
  \A r \in Runs : Holds(r) =>
    /\ partial[name[r]].owner = r
    /\ partial[name[r]].raw = {r} \X (1..written[r])

\* A run that has reserved nothing has written nothing and owns nothing; a
\* holder has published nothing; a run that commits has written everything.
RunProgress ==
  \A r \in Runs :
    /\ Unreserved(r) => written[r] = 0
    /\ Unreserved(r) \/ Holds(r) => \A n \in Names : final[n].owner # r
    /\ pc[r] \in {"commit", "rename"} => written[r] = NumFiles

AbsentIsEmpty ==
  \A n \in Names : ~Exists(final[n]) => final[n].raw = {}

\* The dirty gate was passed before anything is created, and the registered
\* final directory is the run's own.
PastGate ==
  \A r \in Runs :
    /\ pc[r] \notin {"idle", "check_target", "create_target", "refused"} => ~dirtyRun[r]
    /\ pc[r] = "register_final" => final[name[r]].owner = r

\* A report at work renders a published snapshot and has read that very one.
ReportsRead ==
  \A p \in Reports : rpc[p] \notin {"idle", "failed"} =>
    /\ Exists(final[rname[p]])
    /\ seen[p] = final[rname[p]].owner

PartialFigures ==
  \A n \in Names : partial[n].figures \subseteq {partial[n].owner}

IInv ==
  /\ TypeOK
  /\ HoldersOwn
  /\ RunProgress
  /\ AbsentIsEmpty
  /\ PastGate
  /\ ReportsRead
  /\ PartialFigures
  /\ NoHalfSnapshot
  /\ NoMixedPartial
  /\ RenameFindsNameFree
  /\ DirtyRunsLeaveNothing
  /\ FiguresMatchRaw
  /\ RegisteredIsOwn

-----------------------------------------------------------------------------
(* Facts about directory records *)

\* The updates that the actions make keep a value a directory.
LEMMA DirectoryUpdates ==
  /\ Absent \in Directory
  /\ \A r \in Runs : NewDirectory(r) \in Directory
  /\ \A d \in Directory :
       /\ Cleared(d) \in Directory
       /\ WithDerived(d) \in Directory
       /\ \A r \in Runs \cup {Nobody} : WithFigure(d, r) \in Directory
       /\ \A r \in Runs, k \in 1..NumFiles :
            [d EXCEPT !.raw = @ \cup {<<r, k>>}] \in Directory
<1>1. Absent \in Directory
  BY DEF Directory, Absent
<1>2. \A r \in Runs : NewDirectory(r) \in Directory
  BY <1>1 DEF Directory, NewDirectory
<1>3. ASSUME NEW d \in Directory PROVE Cleared(d) \in Directory
  BY DEF Directory, Cleared
<1>4. ASSUME NEW d \in Directory PROVE WithDerived(d) \in Directory
  BY DEF Directory, WithDerived
<1>5. ASSUME NEW d \in Directory, NEW r \in Runs \cup {Nobody}
      PROVE WithFigure(d, r) \in Directory
  BY DEF Directory, WithFigure
<1>6. ASSUME NEW d \in Directory, NEW r \in Runs, NEW k \in 1..NumFiles
      PROVE [d EXCEPT !.raw = @ \cup {<<r, k>>}] \in Directory
  BY DEF Directory
<1> QED
  BY <1>1, <1>2, <1>3, <1>4, <1>5, <1>6

-----------------------------------------------------------------------------
(* Type correctness *)

\* Every step of a run or a report keeps every variable in its type.
LEMMA TypeStep == TypeOK /\ [Next]_vars => TypeOK'
<1> SUFFICES ASSUME TypeOK, [Next]_vars PROVE TypeOK'
  OBVIOUS
<1> USE DEF TypeOK, Goto, RGoto, runVars, reportVars
<1>1. ASSUME NEW r \in Runs,
             \/ Begin(r) \/ CheckTarget(r) \/ CheckPartial(r) \/ Prepare(r)
             \/ RegisterPartial(r) \/ Finish(r) \/ CommitCheck(r)
             \/ RegisterFinal(r) \/ Fail(r)
      PROVE  TypeOK'
  BY <1>1 DEF Begin, CheckTarget, CheckPartial, Prepare, RegisterPartial,
              Finish, CommitCheck, RegisterFinal, Fail
<1>2. ASSUME NEW r \in Runs, Mkdir(r) PROVE TypeOK'
  <2>1. partial' \in [Names -> Directory]
    BY <1>2, DirectoryUpdates DEF Mkdir
  <2> QED BY <1>2, <2>1 DEF Mkdir
<1>3. ASSUME NEW r \in Runs, WriteFile(r) PROVE TypeOK'
  <2>1. written[r] + 1 \in 1..NumFiles
    BY <1>3, ConstantsAssumption DEF WriteFile, FilesLeft
  <2>2. partial' \in [Names -> Directory]
    BY <1>3, <2>1, DirectoryUpdates DEF WriteFile
  <2> QED BY <1>3, <2>1, <2>2 DEF WriteFile
<1>4. ASSUME NEW r \in Runs, DrawFigures(r) PROVE TypeOK'
  <2>1. partial' \in [Names -> Directory]
    BY <1>4, DirectoryUpdates DEF DrawFigures
  <2> QED BY <1>4, <2>1 DEF DrawFigures
<1>5. ASSUME NEW r \in Runs, Rename(r) PROVE TypeOK'
  <2>1. final' \in [Names -> Directory] /\ partial' \in [Names -> Directory]
    <3>1. partial[name[r]] \in Directory /\ Absent \in Directory
      BY DirectoryUpdates
    <3>2. \/ final' = final /\ partial' = partial
          \/ /\ final' = [final EXCEPT ![name[r]] = partial[name[r]]]
             /\ partial' = [partial EXCEPT ![name[r]] = Absent]
      BY <1>5 DEF Rename
    <3> QED BY <3>1, <3>2
  <2> QED BY <1>5, <2>1 DEF Rename
<1>6. ASSUME NEW p \in Reports, ReportStep(p) PROVE TypeOK'
  <2>1. final' \in [Names -> Directory]
    <3> DEFINE d == final[rname[p]]
    <3>1. /\ WithDerived(d) \in Directory
          /\ Cleared(d) \in Directory
          /\ WithFigure(d, seen[p]) \in Directory
      BY DirectoryUpdates
    <3>2. \/ UNCHANGED final
          \/ \E e \in {WithDerived(d), Cleared(d), WithFigure(d, seen[p])} :
               final' = [final EXCEPT ![rname[p]] = e]
      BY <1>6, Zenon DEF ReportStep, ReadSnapshot, DerivedExists, RemoveDerived,
                         MakeDerived, EnsureDerived, Render, AbandonReport
    <3> QED BY <3>1, <3>2
  <2>2. seen' \in [Reports -> Runs \cup {Nobody}]
    BY <1>6 DEF ReportStep, ReadSnapshot, DerivedExists, RemoveDerived,
                MakeDerived, EnsureDerived, Render, AbandonReport, Directory
  <2>3. /\ rpc' \in [Reports -> {"idle", "exists", "rmtree", "mkdir", "ensure",
                                 "render", "failed"}]
        /\ UNCHANGED <<partial, runVars, rname>>
    BY <1>6 DEF ReportStep, ReadSnapshot, DerivedExists, RemoveDerived,
                MakeDerived, EnsureDerived, Render, AbandonReport
  <2> QED BY <2>1, <2>2, <2>3
<1>7. CASE UNCHANGED vars
  BY <1>7 DEF vars
<1> QED
  BY <1>1, <1>2, <1>3, <1>4, <1>5, <1>6, <1>7 DEF Next, RunStep

\* No variable starts outside its type.
LEMMA InitType == Init => TypeOK
<1> SUFFICES ASSUME Init PROVE TypeOK
  OBVIOUS
<1>1. final \in [Names -> Directory] /\ partial \in [Names -> Directory]
  BY DirectoryUpdates DEF Init
<1>2. /\ written \in [Runs -> 0..NumFiles]
      /\ seen \in [Reports -> Runs \cup {Nobody}]
  BY ConstantsAssumption DEF Init
<1> QED BY <1>1, <1>2 DEF Init, TypeOK

\* The variables of the store always have their types.
THEOREM TypeCorrect == Spec => []TypeOK
BY InitType, TypeStep, PTL DEF Spec

-----------------------------------------------------------------------------
(* The inductive invariant, action by action *)

\* What the updates leave of a directory's owner, raw files and figures.
LEMMA DirectoryViews ==
  /\ ~Exists(Absent) /\ Absent.raw = {} /\ Absent.figures = {} /\ Absent.owner = Nobody
  /\ \A r \in Runs : /\ NewDirectory(r).owner = r
                     /\ NewDirectory(r).raw = {}
                     /\ NewDirectory(r).figures = {}
  /\ \A d \in Directory :
       /\ Cleared(d).owner = d.owner /\ Cleared(d).raw = d.raw
       /\ WithDerived(d).owner = d.owner /\ WithDerived(d).raw = d.raw
       /\ Cleared(d).figures = {} /\ WithDerived(d).figures = d.figures
       /\ \A r : /\ WithFigure(d, r).owner = d.owner
               /\ WithFigure(d, r).raw = d.raw
               /\ WithFigure(d, r).figures = d.figures \cup {r}
<1>1. /\ ~Exists(Absent) /\ Absent.raw = {} /\ Absent.figures = {}
      /\ Absent.owner = Nobody
  BY DEF Exists, Absent
<1>2. ASSUME NEW r \in Runs
      PROVE  /\ NewDirectory(r).owner = r
             /\ NewDirectory(r).raw = {}
             /\ NewDirectory(r).figures = {}
  BY DEF NewDirectory, Absent
<1>3. ASSUME NEW d \in Directory
      PROVE  /\ Cleared(d).owner = d.owner /\ Cleared(d).raw = d.raw
             /\ WithDerived(d).owner = d.owner /\ WithDerived(d).raw = d.raw
             /\ Cleared(d).figures = {} /\ WithDerived(d).figures = d.figures
  BY DEF Directory, Cleared, WithDerived
<1>4. ASSUME NEW d \in Directory, NEW r
      PROVE  /\ WithFigure(d, r).owner = d.owner
             /\ WithFigure(d, r).raw = d.raw
             /\ WithFigure(d, r).figures = d.figures \cup {r}
  BY DEF Directory, WithFigure
<1> QED BY <1>1, <1>2, <1>3, <1>4

\* Steps of a driver that only move its own control: the checks, the
\* preparation, the end of the writing and every failure.
LEMMA ControlSteps ==
  ASSUME IInv, TypeOK', NEW r \in Runs,
         \/ Begin(r) \/ CheckTarget(r) \/ CheckPartial(r) \/ Prepare(r)
         \/ Finish(r) \/ CommitCheck(r) \/ Fail(r)
  PROVE  IInv'
<1> USE DEF IInv, TypeOK, Goto, Begin, CheckTarget, CheckPartial, Prepare,
            Finish, CommitCheck, Fail, reportVars
<1>1. UNCHANGED <<final, partial, kind, name, dirtyRun, written, reg, reportVars>>
  OBVIOUS
<1>2. HoldersOwn' /\ RunProgress'
  BY DEF HoldersOwn, RunProgress, Holds, Unreserved, Complete
<1>3. PastGate'
  BY DEF PastGate, TargetRefused
<1>4. RenameFindsNameFree'
  BY DEF RenameFindsNameFree, CommitRefused
<1>5. /\ AbsentIsEmpty' /\ PartialFigures' /\ NoHalfSnapshot' /\ NoMixedPartial'
      /\ DirtyRunsLeaveNothing' /\ FiguresMatchRaw' /\ RegisteredIsOwn' /\ ReportsRead'
  BY <1>1 DEF AbsentIsEmpty, PartialFigures, NoHalfSnapshot, NoMixedPartial,
              DirtyRunsLeaveNothing, FiguresMatchRaw, RegisteredIsOwn, ReportsRead
<1> QED BY <1>2, <1>3, <1>4, <1>5

\* The reservation: the directory is fresh, so it belongs to nobody else.
LEMMA MkdirStep ==
  ASSUME IInv, TypeOK', NEW r \in Runs, Mkdir(r)
  PROVE  IInv'
<1> USE DEF IInv, TypeOK, Goto, reportVars
<1>1. CASE ~Reservable(name[r])
  <2> UNCHANGED <<final, partial, kind, name, dirtyRun, written, reg, reportVars>>
    BY <1>1 DEF Mkdir
  <2>1. pc' = [pc EXCEPT ![r] = "refused"]
    BY <1>1 DEF Mkdir
  <2>2. HoldersOwn' /\ RunProgress' /\ PastGate' /\ RenameFindsNameFree'
    BY <2>1 DEF HoldersOwn, RunProgress, Holds, Unreserved, PastGate, RenameFindsNameFree
  <2>3. /\ AbsentIsEmpty' /\ PartialFigures' /\ NoHalfSnapshot' /\ NoMixedPartial'
        /\ DirtyRunsLeaveNothing' /\ FiguresMatchRaw' /\ RegisteredIsOwn' /\ ReportsRead'
    BY DEF AbsentIsEmpty, PartialFigures, NoHalfSnapshot, NoMixedPartial,
           DirtyRunsLeaveNothing, FiguresMatchRaw, RegisteredIsOwn, ReportsRead
  <2> QED BY <2>2, <2>3
<1>2. CASE Reservable(name[r])
  <2> UNCHANGED <<final, kind, name, dirtyRun, written, reg, reportVars>>
    BY DEF Mkdir
  <2>1. /\ partial[name[r]].owner = Nobody
        /\ pc[r] = "mkdir"
        /\ partial' = [partial EXCEPT ![name[r]] = NewDirectory(r)]
        /\ pc'[r] \in {"register", "write"}
        /\ \A q \in Runs \ {r} : pc'[q] = pc[q]
    BY <1>2 DEF Mkdir, Reservable, Exists
  <2>2. /\ partial'[name[r]].owner = r
        /\ partial'[name[r]].raw = {}
        /\ partial'[name[r]].figures = {}
        /\ \A n \in Names \ {name[r]} : partial'[n] = partial[n]
    BY <2>1, DirectoryViews
  <2>3. HoldersOwn'
    <3>1. \A q \in Runs \ {r} : Holds(q) => name[q] # name[r]
      BY <2>1, ConstantsAssumption DEF HoldersOwn
    <3>2. written[r] = 0 /\ {r} \X (1..0) = {}
      BY <2>1 DEF RunProgress, Unreserved
    <3> QED BY <2>1, <2>2, <3>1, <3>2 DEF HoldersOwn, Holds
  <2>4. RunProgress' /\ PastGate' /\ RenameFindsNameFree'
    BY <2>1 DEF RunProgress, Holds, Unreserved, PastGate, RenameFindsNameFree
  <2>5. PartialFigures' /\ NoMixedPartial'
    BY <2>2 DEF PartialFigures, NoMixedPartial
  <2>6. DirtyRunsLeaveNothing'
    BY <2>1, <2>2 DEF DirtyRunsLeaveNothing, PastGate, Exists
  <2>7. RegisteredIsOwn'
    BY <2>1, <2>2, ConstantsAssumption DEF RegisteredIsOwn
  <2>8. AbsentIsEmpty' /\ NoHalfSnapshot' /\ FiguresMatchRaw' /\ ReportsRead'
    BY DEF AbsentIsEmpty, NoHalfSnapshot, FiguresMatchRaw, ReportsRead
  <2> QED BY <2>3, <2>4, <2>5, <2>6, <2>7, <2>8
<1> QED BY <1>1, <1>2

\* The two registrations touch only the registration file.
LEMMA RegisterSteps ==
  ASSUME IInv, TypeOK', NEW r \in Runs, RegisterPartial(r) \/ RegisterFinal(r)
  PROVE  IInv'
<1> USE DEF IInv, TypeOK, Goto, RegisterPartial, RegisterFinal, reportVars
<1>1. HoldersOwn' /\ RunProgress'
  BY DEF HoldersOwn, RunProgress, Holds, Unreserved
<1>2. PastGate' /\ RenameFindsNameFree'
  BY DEF PastGate, RenameFindsNameFree
<1>3. RegisteredIsOwn'
  BY DEF RegisteredIsOwn, HoldersOwn, Holds, PastGate
<1>4. /\ AbsentIsEmpty' /\ PartialFigures' /\ NoHalfSnapshot' /\ NoMixedPartial'
      /\ DirtyRunsLeaveNothing' /\ FiguresMatchRaw' /\ ReportsRead'
  BY DEF AbsentIsEmpty, PartialFigures, NoHalfSnapshot, NoMixedPartial,
         DirtyRunsLeaveNothing, FiguresMatchRaw, ReportsRead
<1> QED BY <1>1, <1>2, <1>3, <1>4

\* A raw file: the directory found under the name is the writer's own.
LEMMA WriteFileStep ==
  ASSUME IInv, TypeOK', NEW r \in Runs, WriteFile(r)
  PROVE  IInv'
<1> USE DEF IInv, TypeOK
<1> UNCHANGED <<final, pc, kind, name, dirtyRun, reg, reportVars>>
  BY DEF WriteFile
<1>1. /\ pc[r] = "write"
      /\ written[r] + 1 \in 1..NumFiles
      /\ written' = [written EXCEPT ![r] = @ + 1]
      /\ partial[name[r]].owner = r
      /\ partial[name[r]].raw = {r} \X (1..written[r])
  BY ConstantsAssumption DEF WriteFile, FilesLeft, HoldersOwn, Holds
<1>2. /\ \A n \in Names : /\ partial'[n].owner = partial[n].owner
                          /\ partial'[n].figures = partial[n].figures
      /\ \A n \in Names \ {name[r]} : partial'[n].raw = partial[n].raw
      /\ partial'[name[r]].raw = partial[name[r]].raw \cup {<<r, written[r] + 1>>}
  BY DEF WriteFile, Directory
<1>3. HoldersOwn'
  <2>1. \A q \in Runs \ {r} : Holds(q) => name[q] # name[r]
    BY <1>1 DEF HoldersOwn
  <2>2. {r} \X (1..(written[r] + 1)) = ({r} \X (1..written[r])) \cup {<<r, written[r] + 1>>}
    <3>1. 1..(written[r] + 1) = (1..written[r]) \cup {written[r] + 1}
      BY <1>1
    <3> QED BY <3>1
  <2>3. partial'[name[r]].raw = {r} \X (1..written'[r])
    BY <1>1, <1>2, <2>2
  <2>4. ASSUME NEW q \in Runs, Holds(q)
        PROVE  /\ partial'[name[q]].owner = q
               /\ partial'[name[q]].raw = {q} \X (1..written'[q])
    <3>1. CASE q = r
      BY <1>1, <1>2, <2>3, <3>1
    <3>2. CASE q # r
      <4>1. name[q] \in Names \ {name[r]} /\ written'[q] = written[q]
        BY <1>1, <2>1, <2>4, <3>2
      <4>2. /\ partial[name[q]].owner = q
            /\ partial[name[q]].raw = {q} \X (1..written[q])
        BY <2>4 DEF HoldersOwn
      <4> QED BY <1>2, <4>1, <4>2
    <3> QED BY <3>1, <3>2
  <2> QED BY <2>4 DEF HoldersOwn, Holds
<1>4. RunProgress'
  BY <1>1 DEF RunProgress, Unreserved, Holds
<1>5. PartialFigures' /\ DirtyRunsLeaveNothing' /\ RegisteredIsOwn'
  BY <1>2 DEF PartialFigures, DirtyRunsLeaveNothing, RegisteredIsOwn, Exists
<1>6. NoMixedPartial'
  <2>1. <<r, written[r] + 1>> \in AllFiles(r)
    BY <1>1 DEF AllFiles
  <2>2. ASSUME NEW n \in Names PROVE partial'[n].raw \subseteq AllFiles(partial'[n].owner)
    <3>1. partial[n].raw \subseteq AllFiles(partial[n].owner)
      BY DEF NoMixedPartial
    <3>2. CASE n = name[r]
      <4>1. /\ partial'[n].owner = r
            /\ partial[n].raw \subseteq AllFiles(r)
            /\ partial'[n].raw = partial[n].raw \cup {<<r, written[r] + 1>>}
        BY <1>1, <1>2, <3>1, <3>2
      <4> HIDE DEF IInv, TypeOK
      <4> QED BY <2>1, <4>1
    <3>3. CASE n # name[r]
      BY <1>2, <3>1, <3>3
    <3> QED BY <3>2, <3>3
  <2> QED BY <2>2 DEF NoMixedPartial
<1>7. /\ AbsentIsEmpty' /\ PastGate' /\ ReportsRead' /\ NoHalfSnapshot'
      /\ RenameFindsNameFree' /\ FiguresMatchRaw'
  BY DEF AbsentIsEmpty, PastGate, ReportsRead, NoHalfSnapshot,
         RenameFindsNameFree, FiguresMatchRaw, reportVars
<1> QED BY <1>3, <1>4, <1>5, <1>6, <1>7

\* The run's own figures go into its own directory and leave the raw files.
LEMMA DrawFiguresStep ==
  ASSUME IInv, TypeOK', NEW r \in Runs, DrawFigures(r)
  PROVE  IInv'
<1> USE DEF IInv, TypeOK
<1> UNCHANGED <<final, pc, kind, name, dirtyRun, written, reg, reportVars>>
  BY DEF DrawFigures
<1>1. partial[name[r]].owner = r
  BY DEF DrawFigures, HoldersOwn, Holds
<1>2. /\ \A n \in Names : /\ partial'[n].owner = partial[n].owner
                          /\ partial'[n].raw = partial[n].raw
      /\ \A n \in Names \ {name[r]} : partial'[n].figures = partial[n].figures
      /\ partial'[name[r]].figures = partial[name[r]].figures \cup {r}
  <2>1. partial' = [partial EXCEPT ![name[r]] = WithFigure(WithDerived(@), r)]
    BY DEF DrawFigures
  <2>2. WithDerived(partial[name[r]]) \in Directory
    BY DirectoryUpdates
  <2>3. /\ WithDerived(partial[name[r]]).owner = partial[name[r]].owner
        /\ WithDerived(partial[name[r]]).raw = partial[name[r]].raw
        /\ WithDerived(partial[name[r]]).figures = partial[name[r]].figures
    BY DirectoryViews
  <2>4. /\ partial'[name[r]].owner = WithDerived(partial[name[r]]).owner
        /\ partial'[name[r]].raw = WithDerived(partial[name[r]]).raw
        /\ partial'[name[r]].figures = WithDerived(partial[name[r]]).figures \cup {r}
    BY <2>1, <2>2, DirectoryViews
  <2> QED BY <2>1, <2>3, <2>4
<1>3. HoldersOwn'
  BY <1>2 DEF HoldersOwn, Holds
<1>4. PartialFigures' /\ NoMixedPartial' /\ DirtyRunsLeaveNothing' /\ RegisteredIsOwn'
  <2>1. PartialFigures' /\ NoMixedPartial'
    BY <1>1, <1>2 DEF PartialFigures, NoMixedPartial
  <2>2. DirtyRunsLeaveNothing'
    BY <1>2 DEF DirtyRunsLeaveNothing, Exists
  <2>3. RegisteredIsOwn'
    BY <1>2 DEF RegisteredIsOwn
  <2> QED BY <2>1, <2>2, <2>3
<1>5. /\ RunProgress' /\ AbsentIsEmpty' /\ PastGate' /\ ReportsRead' /\ NoHalfSnapshot'
      /\ RenameFindsNameFree' /\ FiguresMatchRaw'
  BY DEF RunProgress, Unreserved, Holds, AbsentIsEmpty, PastGate, ReportsRead,
         NoHalfSnapshot, RenameFindsNameFree, FiguresMatchRaw, reportVars
<1> QED BY <1>3, <1>4, <1>5

\* What a rename does: the name was free, it now holds the whole run, and no
\* other run holds it.
LEMMA RenameEffect ==
  ASSUME IInv, NEW r \in Runs, Rename(r)
  PROVE  /\ ~Exists(final[name[r]])
         /\ \A n \in Names : final[n].owner # r
         /\ partial[name[r]].owner = r
         /\ partial[name[r]].raw = AllFiles(r)
         /\ \A q \in Runs \ {r} : Holds(q) => name[q] # name[r]
         /\ final' = [final EXCEPT ![name[r]] = partial[name[r]]]
         /\ partial' = [partial EXCEPT ![name[r]] = Absent]
         /\ pc' = [pc EXCEPT ![r] = IF kind[r] = "matrix" THEN "register_final" ELSE "done"]
<1> USE DEF IInv
<1>1. pc[r] = "rename"
  BY DEF Rename
<1>2. ~Exists(final[name[r]])
  BY <1>1 DEF RenameFindsNameFree
<1>3. /\ partial[name[r]].owner = r
      /\ partial[name[r]].raw = AllFiles(r)
      /\ \A n \in Names : final[n].owner # r
  BY <1>1 DEF HoldersOwn, RunProgress, Holds, AllFiles
<1>4. \A q \in Runs \ {r} : Holds(q) => name[q] # name[r]
  BY <1>3 DEF HoldersOwn
<1> QED BY <1>2, <1>3, <1>4 DEF Rename, Goto

\* The publication.
LEMMA RenameStep ==
  ASSUME IInv, TypeOK', NEW r \in Runs, Rename(r)
  PROVE  IInv'
<1> USE DEF IInv, TypeOK
<1> UNCHANGED <<kind, name, dirtyRun, written, reg, reportVars>>
  BY DEF Rename
<1>1. /\ pc[r] = "rename"
      /\ pc'[r] \in {"register_final", "done"}
      /\ \A q \in Runs \ {r} : pc'[q] = pc[q]
  BY RenameEffect DEF Rename
<1>2. /\ final[name[r]].owner = Nobody
      /\ partial[name[r]].owner = r
      /\ final'[name[r]] = partial[name[r]]
      /\ partial'[name[r]] = Absent
      /\ \A n \in Names \ {name[r]} : final'[n] = final[n] /\ partial'[n] = partial[n]
      /\ \A q \in Runs \ {r} : Holds(q) => name[q] # name[r]
  BY RenameEffect DEF Exists
<1>11. /\ final'[name[r]].raw = AllFiles(r)
      /\ final'[name[r]].owner = r
      /\ final'[name[r]].figures \subseteq {r}
      /\ ~dirtyRun[r]
  BY <1>1, <1>2, RenameEffect DEF PartialFigures, PastGate
<1>12. /\ partial'[name[r]].owner = Nobody
      /\ partial'[name[r]].raw = {}
      /\ partial'[name[r]].figures = {}
  BY <1>2, DirectoryViews
<1>3. HoldersOwn' /\ RenameFindsNameFree'
  <2>1. ASSUME NEW q \in Runs, Holds(q)' PROVE Holds(q) /\ name[q] \in Names \ {name[r]}
    BY <1>1, <1>2, <2>1 DEF Holds
  <2> QED BY <1>1, <1>2, <2>1 DEF HoldersOwn, RenameFindsNameFree, Holds
<1>4. RunProgress'
  BY <1>1, <1>2 DEF RunProgress, Unreserved, Holds
<1>5. PastGate'
  BY <1>1, <1>2, ConstantsAssumption DEF PastGate
<1>6. AbsentIsEmpty' /\ NoHalfSnapshot'
  <2>1. ASSUME NEW n \in Names, n # name[r] PROVE final'[n] = final[n]
    BY <1>2, <2>1
  <2>2. Exists(final'[name[r]])
    BY <1>11, ConstantsAssumption DEF Exists
  <2>3. AbsentIsEmpty'
    BY <2>1, <2>2 DEF AbsentIsEmpty
  <2>4. NoHalfSnapshot'
    BY <1>11, <2>1 DEF NoHalfSnapshot
  <2> QED BY <2>3, <2>4
<1>7. PartialFigures' /\ NoMixedPartial' /\ FiguresMatchRaw'
  BY <1>2, <1>11, <1>12 DEF PartialFigures, NoMixedPartial, FiguresMatchRaw
<1>8. DirtyRunsLeaveNothing'
  BY <1>2, <1>11, <1>12 DEF DirtyRunsLeaveNothing, Exists
<1>9. RegisteredIsOwn'
  BY <1>2, ConstantsAssumption DEF RegisteredIsOwn
<1>10. ReportsRead'
  BY <1>2 DEF ReportsRead, Exists, reportVars
<1> QED BY <1>3, <1>4, <1>5, <1>6, <1>7, <1>8, <1>9, <1>10

\* A report changes nothing but derived/ and adds only what it has read.
LEMMA ReportEffect ==
  ASSUME IInv, NEW p \in Reports, ReportStep(p)
  PROVE  /\ UNCHANGED <<partial, runVars, rname>>
         /\ \A n \in Names : /\ final'[n].owner = final[n].owner
                             /\ final'[n].raw = final[n].raw
                             /\ final'[n].figures \subseteq final[n].figures \cup {final[n].owner}
<1> USE DEF IInv, TypeOK
<1>1. UNCHANGED <<partial, runVars, rname>>
  BY DEF ReportStep, ReadSnapshot, DerivedExists, RemoveDerived, MakeDerived,
         EnsureDerived, Render, AbandonReport
<1> DEFINE d == final[rname[p]]
<1>2. \/ UNCHANGED final
      \/ final' = [final EXCEPT ![rname[p]] = WithDerived(d)]
      \/ final' = [final EXCEPT ![rname[p]] = Cleared(d)]
      \/ /\ rpc[p] = "render"
         /\ final' = [final EXCEPT ![rname[p]] = WithFigure(d, seen[p])]
  BY Zenon DEF ReportStep, ReadSnapshot, DerivedExists, RemoveDerived,
               MakeDerived, EnsureDerived, Render, AbandonReport
<1>3. rpc[p] = "render" => seen[p] = d.owner
  BY DEF ReportsRead
<1>4. \A n \in Names : /\ final'[n].owner = final[n].owner
                      /\ final'[n].raw = final[n].raw
                      /\ final'[n].figures \subseteq final[n].figures \cup {final[n].owner}
  <2>1. /\ d \in Directory
        /\ UNCHANGED final \/ \A n \in Names \ {rname[p]} : final'[n] = final[n]
    BY <1>2
  <2>2. \/ UNCHANGED final
        \/ /\ final'[rname[p]].owner = d.owner
           /\ final'[rname[p]].raw = d.raw
           /\ final'[rname[p]].figures \subseteq d.figures \cup {d.owner}
    BY <1>2, <1>3, <2>1, DirectoryViews
  <2> QED BY <2>1, <2>2
<1> QED BY <1>1, <1>4

\* Every step of a report.
LEMMA ReportSteps ==
  ASSUME IInv, TypeOK', NEW p \in Reports, ReportStep(p)
  PROVE  IInv'
<1> USE DEF IInv, TypeOK
<1> UNCHANGED <<partial, pc, kind, name, dirtyRun, written, reg, rname>>
  BY ReportEffect DEF runVars
<1>1. HoldersOwn' /\ RunProgress' /\ PastGate'
  <2>1. HoldersOwn'
    BY DEF HoldersOwn, Holds
  <2>2. RunProgress'
    BY ReportEffect DEF RunProgress, Unreserved, Holds
  <2>3. PastGate'
    BY ReportEffect DEF PastGate
  <2> QED BY <2>1, <2>2, <2>3
<1>2. AbsentIsEmpty' /\ NoHalfSnapshot' /\ RenameFindsNameFree' /\ DirtyRunsLeaveNothing'
  BY ReportEffect DEF AbsentIsEmpty, NoHalfSnapshot, RenameFindsNameFree,
                      DirtyRunsLeaveNothing, Exists
<1>3. FiguresMatchRaw'
  BY ReportEffect DEF FiguresMatchRaw
<1>4. RegisteredIsOwn'
  BY ReportEffect DEF RegisteredIsOwn
<1>5. PartialFigures' /\ NoMixedPartial'
  BY DEF PartialFigures, NoMixedPartial
<1>6. ReportsRead'
  <2>1. \A q \in Reports \ {p} : rpc'[q] = rpc[q] /\ seen'[q] = seen[q]
    BY DEF ReportStep, ReadSnapshot, DerivedExists, RemoveDerived, MakeDerived,
           EnsureDerived, Render, AbandonReport, RGoto
  <2>2. CASE ReadSnapshot(p)
    BY <2>1, <2>2, ReportEffect, SMTT(30) DEF ReadSnapshot, ReportsRead, Exists
  <2>3. CASE rpc[p] \notin {"idle", "failed"} /\ UNCHANGED seen
    BY <2>1, <2>3, ReportEffect, SMTT(30) DEF ReportsRead, Exists
  <2> QED BY <2>2, <2>3 DEF ReportStep, DerivedExists, RemoveDerived, MakeDerived,
                            EnsureDerived, Render, AbandonReport
<1> QED BY <1>1, <1>2, <1>3, <1>4, <1>5, <1>6

-----------------------------------------------------------------------------
(* The theorems *)

\* The inductive invariant holds in every reachable state.
THEOREM Invariance == Spec => []IInv
<1>1. Init => IInv
  <2> SUFFICES ASSUME Init PROVE IInv
    OBVIOUS
  <2>1. TypeOK
    BY InitType
  <2>2. \A n \in Names : final[n] = Absent /\ partial[n] = Absent
    BY DEF Init
  <2>3. HoldersOwn /\ RunProgress /\ PastGate /\ RenameFindsNameFree /\ RegisteredIsOwn
    BY <2>2, DirectoryViews, ConstantsAssumption
       DEF Init, HoldersOwn, RunProgress, Holds, Unreserved, PastGate,
           RenameFindsNameFree, RegisteredIsOwn
  <2>4. /\ AbsentIsEmpty /\ PartialFigures /\ NoHalfSnapshot /\ NoMixedPartial
        /\ DirtyRunsLeaveNothing /\ FiguresMatchRaw
    BY <2>2, DirectoryViews
       DEF AbsentIsEmpty, PartialFigures, NoHalfSnapshot, NoMixedPartial,
           DirtyRunsLeaveNothing, FiguresMatchRaw
  <2>5. ReportsRead
    BY DEF Init, ReportsRead
  <2> QED BY <2>1, <2>3, <2>4, <2>5 DEF IInv
<1>2. IInv /\ [Next]_vars => IInv'
  <2> SUFFICES ASSUME IInv, [Next]_vars PROVE IInv'
    OBVIOUS
  <2>1. TypeOK'
    BY TypeStep DEF IInv
  <2>2. ASSUME NEW r \in Runs, RunStep(r) \/ Fail(r) PROVE IInv'
    BY <2>1, <2>2, ControlSteps, MkdirStep, RegisterSteps, WriteFileStep,
       DrawFiguresStep, RenameStep DEF RunStep
  <2>3. ASSUME NEW p \in Reports, ReportStep(p) PROVE IInv'
    BY <2>1, <2>3, ReportSteps
  <2>4. CASE UNCHANGED vars
    BY <2>1, <2>4
       DEF vars, runVars, reportVars, IInv, HoldersOwn, RunProgress, Holds,
           Unreserved, AbsentIsEmpty, PastGate, ReportsRead, PartialFigures,
           NoHalfSnapshot, NoMixedPartial, RenameFindsNameFree,
           DirtyRunsLeaveNothing, FiguresMatchRaw, RegisteredIsOwn
  <2> QED BY <2>2, <2>3, <2>4 DEF Next
<1> QED BY <1>1, <1>2, PTL DEF Spec

\* Snapshot.commit: no process can publish the name between the look at the
\* final name and the rename, on any platform.
THEOREM CommitIsSafe == Spec => []RenameFindsNameFree
BY Invariance, PTL DEF IInv

\* A published snapshot is the whole output of one run.
THEOREM PublishedIsWhole == Spec => []NoHalfSnapshot
BY Invariance, PTL DEF IInv

\* A partial directory, a figure, a registration and the dirty gate: no run
\* ever meets another run's data under a name it uses.
THEOREM RunsDoNotMix ==
  Spec => [](NoMixedPartial /\ FiguresMatchRaw /\ RegisteredIsOwn /\ DirtyRunsLeaveNothing)
BY Invariance, PTL DEF IInv

\* derived_directory: reports on one snapshot may remove each other's folder, but
\* the figures in derived/ were drawn from the raw files beside it.
THEOREM FiguresBelong == Spec => []FiguresMatchRaw
BY Invariance, PTL DEF IInv

\* Registration in matrix.py: the final path a driver registers is its own
\* snapshot, and the partial one is its own until it has committed.
THEOREM RegistrationsBelong == Spec => []RegisteredIsOwn
BY Invariance, PTL DEF IInv

\* Only a report or a rename writes below a final name.
LEMMA FinalStep ==
  ASSUME IInv, [Next]_vars
  PROVE  \/ UNCHANGED final
         \/ \E r \in Runs : Rename(r)
         \/ \E p \in Reports : ReportStep(p)
BY DEF Next, RunStep, vars, Begin, CheckTarget, CheckPartial, Prepare, Mkdir,
       RegisterPartial, WriteFile, DrawFigures, Finish, CommitCheck,
       RegisterFinal, Fail

\* The raw files of a published snapshot never change.
THEOREM RawBytesFixed == Spec => WriteOnce
<1> DEFINE Kept == \A n \in Names : Exists(final[n]) =>
                     /\ final'[n].owner = final[n].owner
                     /\ final'[n].raw = final[n].raw
<1>1. IInv /\ [Next]_vars => [Kept]_vars
  <2> SUFFICES ASSUME IInv, [Next]_vars PROVE Kept
    OBVIOUS
  <2>1. ASSUME NEW r \in Runs, Rename(r) PROVE Kept
    <3>1. \A n \in Names : Exists(final[n]) => final'[n] = final[n]
      BY <2>1, RenameEffect DEF IInv, TypeOK
    <3> QED BY <3>1
  <2>2. ASSUME NEW p \in Reports, ReportStep(p) PROVE Kept
    BY <2>2, ReportEffect
  <2> QED BY <2>1, <2>2, FinalStep
<1> QED BY <1>1, Invariance, PTL DEF Spec, WriteOnce

\* The store implements the append-only ledger of ADR 0005: a rename is one
\* Publish, and every other step leaves the ledger as it is.
THEOREM StoreImplementsLedger == Spec => LedgerSpec
<1> DEFINE view == [n \in Names |-> [owner |-> final[n].owner, raw |-> final[n].raw]]
<1>1. Init => Ledger!Init
  <2> SUFFICES ASSUME Init PROVE view = [n \in Names |-> Ledger!Free]
    BY DEF Ledger!Init
  <2>1. \A n \in Names : final[n].owner = Nobody /\ final[n].raw = {}
    BY DirectoryViews DEF Init
  <2> QED BY <2>1 DEF Ledger!Free
<1>2. IInv /\ [Next]_vars => [Ledger!Next]_view
  <2> SUFFICES ASSUME IInv, [Next]_vars PROVE Ledger!Next \/ UNCHANGED view
    OBVIOUS
  <2>1. CASE UNCHANGED final
    BY <2>1
  <2>2. ASSUME NEW p \in Reports, ReportStep(p) PROVE UNCHANGED view
    BY <2>2, ReportEffect
  <2>3. ASSUME NEW r \in Runs, Rename(r) PROVE Ledger!Next
    <3>1. name[r] \in Names /\ final \in [Names -> Directory]
      BY DEF IInv, TypeOK
    <3>2. view[name[r]] = Ledger!Free
      BY <2>3, <3>1, RenameEffect DEF Ledger!Free, IInv, AbsentIsEmpty, Exists
    <3>3. \A m \in Names : view[m].owner # r
      BY <2>3, RenameEffect
    <3>4. view' = [view EXCEPT ![name[r]] = Ledger!Whole(r)]
      <4>1. /\ final'[name[r]].owner = r
            /\ final'[name[r]].raw = AllFiles(r)
            /\ \A n \in Names \ {name[r]} : final'[n] = final[n]
        BY <2>3, <3>1, RenameEffect
      <4> QED BY <3>1, <4>1 DEF Ledger!Whole, AllFiles
    <3> HIDE DEF view
    <3>5. Ledger!Publish(name[r], r)
      BY <3>2, <3>3, <3>4 DEF Ledger!Publish, view
    <3> QED BY <3>1, <3>5 DEF Ledger!Next
  <2> QED BY <2>1, <2>2, <2>3, FinalStep
<1> QED BY <1>1, <1>2, Invariance, PTL DEF Spec, LedgerSpec, Ledger!Spec

=============================================================================

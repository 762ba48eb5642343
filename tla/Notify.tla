------------------------------- MODULE Notify -------------------------------
(***************************************************************************)
(* The notifier that supervises a benchmark command (notify.py): preflight *)
(* and start notifications, the child process, heartbeats with snapshot    *)
(* progress, Ctrl-C, the terminal notification and the exit code.          *)
(*                                                                         *)
(* Three things move independently of the wrapper: the child, the user's   *)
(* Ctrl-C, and the snapshot directories, which a driver renames while the  *)
(* wrapper looks at them.  Message text and elapsed times are left out.    *)
(*                                                                         *)
(* An operator defined just before another one and named after it is a     *)
(* seeded fault; PROJECT.json says which property catches it.              *)
(***************************************************************************)
EXTENDS Integers, FiniteSets

CONSTANTS
  Outcomes,       \* what a POST may do: "ok", "refused" (NotificationError),
                  \* "malformed" (an http.client error _publish lets through)
  SnapshotsMove,  \* TRUE: a driver may commit while the wrapper is looking
  MaxInterrupts   \* how often the user presses Ctrl-C

ASSUME NotifyAssumption ==
  /\ Outcomes \subseteq {"ok", "refused", "malformed"}
  /\ SnapshotsMove \in BOOLEAN
  /\ MaxInterrupts \in Nat

NoCode == -1
Killed == 9           \* the code of a child ended by terminate or kill
ChildCodes == {0, 1}  \* success and failure of the benchmark command

VARIABLES
  check,       \* --check was given: preflight only
  wpc,         \* the wrapper's control point
  child,       \* "none", "running" or "exited"
  bound,       \* the local variable child is no longer None
  childCode,   \* its exit code once it has exited
  exitCode,    \* the local variable exit_code
  registered,  \* the registration file: "none" or a directory of this run
  dirs,        \* snapshot directories that are new since the start
  listed,      \* what discover returned to new_since
  regDir,      \* the temporary registration directory exists
  interrupts,  \* Ctrl-C so far
  accepted,    \* notifications the server accepted
  terminal,    \* terminal notification tried: NoCode or its exit code
  fault        \* which unhandled fault the environment produced, if any

vars == <<check, wpc, child, bound, childCode, exitCode, registered, dirs, listed, regDir,
          interrupts, accepted, terminal, fault>>
fsVars == <<registered, dirs>>
childVars == <<child, bound, childCode>>

InTry == {"spawn", "bind", "wait", "beat_select", "beat_stat", "beat_publish"}
Tail == {"end_select", "end_stat", "end_publish"}
Ended == {"returned", "raised"}

Init ==
  /\ check \in BOOLEAN
  /\ wpc = "config" /\ child = "none" /\ bound = FALSE /\ childCode = NoCode
  /\ exitCode = NoCode /\ registered = "none" /\ dirs = {} /\ listed = {}
  /\ regDir = FALSE /\ interrupts = 0 /\ accepted = {} /\ terminal = NoCode
  /\ fault = "none"

-----------------------------------------------------------------------------
(* Before the launch *)

\* _configuration: a missing or invalid setting returns 2.
Configure ==
  /\ wpc = "config"
  /\ \/ wpc' = "preflight" /\ UNCHANGED exitCode
     \/ wpc' = "returned" /\ exitCode' = 2
  /\ UNCHANGED <<check, childVars, fsVars, listed, regDir, interrupts, accepted,
                 terminal, fault>>

\* main and _run_command: a failed preflight or start POST returns 2; with
\* --check an accepted preflight returns 0.
GatedPublish(from, to, what) ==
  /\ wpc = from
  /\ \E o \in Outcomes :
       /\ wpc' = CASE o = "malformed" -> "raised"
                   [] o = "refused" \/ check -> "returned"
                   [] OTHER -> to
       /\ exitCode' = CASE o = "refused" -> 2
                        [] o = "ok" /\ check -> 0
                        [] OTHER -> exitCode
       /\ accepted' = IF o = "ok" THEN accepted \cup {what} ELSE accepted
       /\ fault' = IF o = "malformed" THEN o ELSE fault
  /\ UNCHANGED <<check, childVars, fsVars, listed, regDir, interrupts, terminal>>

Preflight == GatedPublish("preflight", "start", "preflight")
StartPublish == GatedPublish("start", "launch", "start")

\* The registration directory, the child's environment, exit_code = 127.
Launch ==
  /\ wpc = "launch"
  /\ wpc' = "spawn"
  /\ regDir' = TRUE
  /\ exitCode' = 127
  /\ UNCHANGED <<check, childVars, fsVars, listed, interrupts, accepted, terminal, fault>>

\* subprocess.Popen starts the child or raises OSError; its result reaches
\* the local variable a moment after the process exists.
Spawn ==
  /\ wpc = "spawn"
  /\ \/ child' = "running" /\ wpc' = "bind"
     \/ child' = child /\ wpc' = "end_select"
  /\ UNCHANGED <<check, bound, childCode, exitCode, fsVars, listed, regDir,
                 interrupts, accepted, terminal, fault>>
Bind ==
  /\ wpc = "bind"
  /\ bound' = TRUE
  /\ wpc' = "wait"
  /\ UNCHANGED <<check, child, childCode, exitCode, fsVars, listed, regDir,
                 interrupts, accepted, terminal, fault>>

-----------------------------------------------------------------------------
(* The loop: wait with a timeout, heartbeat on TimeoutExpired *)

\* child.wait returns its code, or the heartbeat interval runs out first.
Wait ==
  /\ wpc = "wait"
  /\ IF child = "exited"
     THEN wpc' = "end_select" /\ exitCode' = childCode
     ELSE wpc' = "beat_select" /\ UNCHANGED exitCode
  /\ UNCHANGED <<check, childVars, fsVars, listed, regDir, interrupts,
                 accepted, terminal, fault>>

\* registered_snapshot wins when its directory is there; otherwise new_since
\* lists the directories that appeared since the start.
Select(from, stat, publish) ==
  /\ wpc = from
  /\ IF registered \in dirs
     THEN wpc' = publish /\ UNCHANGED listed
     ELSE wpc' = stat /\ listed' = dirs
  /\ UNCHANGED <<check, childVars, exitCode, fsVars, regDir, interrupts,
                 accepted, terminal, fault>>

\* path.stat() of every listed directory: FileNotFoundError when one of them
\* has been renamed.  In the loop the OSError handler catches it and falls
\* through to the terminal notification; after the loop nothing does.
Stat(from, publish, onError) ==
  /\ wpc = from
  /\ wpc' = IF listed \subseteq dirs THEN publish ELSE onError
  /\ fault' = IF listed \subseteq dirs THEN fault ELSE "stat"
  /\ regDir' = (regDir /\ wpc' # "raised")
  /\ UNCHANGED <<check, childVars, exitCode, fsVars, listed, interrupts,
                 accepted, terminal>>

\* _notify_best_effort: a NotificationError is only a warning; any other
\* exception leaves _run_command through its finally.
BestEffortStrict(from, to) ==
  /\ wpc = from
  /\ \E o \in Outcomes :
       /\ wpc' = CASE o = "ok" -> to
                   [] o = "refused" /\ from \in InTry -> "end_select"
                   [] OTHER -> "raised"
       /\ regDir' = (regDir /\ wpc' \notin Ended)
       /\ fault' = IF o = "malformed" THEN o ELSE fault
BestEffort(from, to) ==
  /\ wpc = from
  /\ \E o \in Outcomes :
       /\ wpc' = IF o = "malformed" THEN "raised" ELSE to
       /\ regDir' = (regDir /\ wpc' \notin Ended)
       /\ fault' = IF o = "malformed" THEN o ELSE fault

BeatSelect == Select("beat_select", "beat_stat", "beat_publish")
BeatStat == Stat("beat_stat", "beat_publish", "end_select")
BeatPublish ==
  /\ BestEffort("beat_publish", "wait")
  /\ UNCHANGED <<check, childVars, exitCode, fsVars, listed, interrupts, accepted, terminal>>

-----------------------------------------------------------------------------
(* except KeyboardInterrupt *)

\* Ctrl-C anywhere: the handler covers the inner try only.  A second one in
\* the handler, like one outside the try, leaves through the finally.
Interrupt ==
  /\ wpc \notin Ended
  /\ interrupts < MaxInterrupts
  /\ interrupts' = interrupts + 1
  /\ wpc' = IF wpc \in InTry THEN "int_poll" ELSE "raised"
  /\ regDir' = (regDir /\ wpc' # "raised")
  /\ UNCHANGED <<check, childVars, exitCode, fsVars, listed, accepted, terminal, fault>>

\* exit_code = child.returncode if it is set and not zero, else 130.
InterruptedCodeRaw(returncode) == returncode
InterruptedCode(returncode) ==
  IF bound /\ returncode \notin {NoCode, 0} THEN returncode ELSE 130

\* poll(), then terminate() for a child that still runs.
InterruptPoll ==
  /\ wpc = "int_poll"
  /\ IF bound /\ child = "running"
     THEN wpc' = "int_wait" /\ UNCHANGED exitCode
     ELSE wpc' = "end_select" /\ exitCode' = InterruptedCode(childCode)
  /\ UNCHANGED <<check, childVars, fsVars, listed, regDir, interrupts, accepted,
                 terminal, fault>>

\* child.wait(timeout=5): it has exited, or five seconds are over.
AfterTimeoutGiveUp == "end_select"
AfterTimeoutRetry == "int_wait"
AfterTimeout == "int_kill"
InterruptWait ==
  /\ wpc = "int_wait"
  /\ IF child = "exited"
     THEN wpc' = "end_select" /\ exitCode' = InterruptedCode(childCode)
     ELSE wpc' = AfterTimeout /\ UNCHANGED exitCode
  /\ UNCHANGED <<check, childVars, fsVars, listed, regDir, interrupts, accepted,
                 terminal, fault>>

\* child.kill() and child.wait(): the child cannot refuse.
InterruptKill ==
  /\ wpc = "int_kill"
  /\ child' = "exited"
  /\ childCode' = IF child = "exited" THEN childCode ELSE Killed
  /\ exitCode' = InterruptedCode(childCode')
  /\ wpc' = "end_select"
  /\ UNCHANGED <<check, bound, fsVars, listed, regDir, interrupts, accepted, terminal, fault>>

-----------------------------------------------------------------------------
(* The terminal notification and the return *)

EndSelect == Select("end_select", "end_stat", "end_publish")
EndStat == Stat("end_stat", "end_publish", "raised")
EndPublish ==
  /\ BestEffort("end_publish", "returned")
  /\ terminal' = exitCode
  /\ UNCHANGED <<check, childVars, exitCode, fsVars, listed, interrupts, accepted>>

-----------------------------------------------------------------------------
(* The child and the other drivers *)

\* The child exits by itself, or because of the terminate it was sent.
ChildExit ==
  /\ child = "running"
  /\ child' = "exited"
  /\ childCode' \in ChildCodes \cup (IF wpc \in {"int_wait", "int_kill"} THEN {Killed} ELSE {})
  /\ UNCHANGED <<check, wpc, bound, exitCode, fsVars, listed, regDir, interrupts,
                 accepted, terminal, fault>>

\* The matrix driver: reserve, register, commit, register again.
ChildSnapshot ==
  /\ child = "running"
  /\ \/ /\ dirs \cap {"own.partial", "own"} = {}
        /\ dirs' = dirs \cup {"own.partial"} /\ UNCHANGED registered
     \/ /\ "own.partial" \in dirs /\ registered = "none"
        /\ registered' = "own.partial" /\ UNCHANGED dirs
     \/ /\ SnapshotsMove /\ "own.partial" \in dirs /\ registered = "own.partial"
        /\ dirs' = (dirs \ {"own.partial"}) \cup {"own"} /\ UNCHANGED registered
     \/ /\ "own" \in dirs /\ registered = "own.partial"
        /\ registered' = "own" /\ UNCHANGED dirs
  /\ UNCHANGED <<check, wpc, childVars, exitCode, listed, regDir, interrupts,
                 accepted, terminal, fault>>

\* Another driver under the same results/ reserves a name and commits it,
\* after discover took the list of previous snapshots.
OtherSnapshot ==
  /\ wpc \notin {"config", "preflight"}
  /\ \/ /\ dirs \cap {"other.partial", "other"} = {}
        /\ dirs' = dirs \cup {"other.partial"}
     \/ /\ SnapshotsMove /\ "other.partial" \in dirs
        /\ dirs' = (dirs \ {"other.partial"}) \cup {"other"}
  /\ UNCHANGED <<check, wpc, childVars, exitCode, registered, listed, regDir,
                 interrupts, accepted, terminal, fault>>

Wrapper ==
  \/ Configure \/ Preflight \/ StartPublish \/ Launch \/ Spawn \/ Bind \/ Wait
  \/ BeatSelect \/ BeatStat \/ BeatPublish
  \/ InterruptPoll \/ InterruptWait \/ InterruptKill
  \/ EndSelect \/ EndStat \/ EndPublish

Next == Wrapper \/ Interrupt \/ ChildExit \/ ChildSnapshot \/ OtherSnapshot

Spec == Init /\ [][Next]_vars
\* The wrapper is scheduled.  Nothing makes the child exit, and nothing makes
\* the user press Ctrl-C.
FairSpec == Spec /\ WF_vars(Wrapper)

-----------------------------------------------------------------------------
(* Properties *)

\* A run that ends with code 0 is one whose child exited with 0 by itself and
\* that nobody interrupted, whatever notifications and directories did after
\* its preflight and its start had been accepted.
SuccessIsReal ==
  wpc = "returned" /\ exitCode = 0 /\ ~check =>
    childCode = 0 /\ interrupts = 0 /\ accepted = {"preflight", "start"}

\* docs/run-notifications.md, "After launch, delivery failures are warnings;
\* the benchmark command's exit code remains authoritative": the wrapper
\* returns the child's code, and does not end with an exception instead.
ExitCodeAuthoritative ==
  wpc \in Ended /\ bound /\ interrupts = 0 => wpc = "returned" /\ exitCode = childCode

\* The same as far as the code provides it: refused notifications never
\* change the returned code; only an exception that no handler was written
\* for does.
ExitCodeSurvivesRefusals == fault = "none" => ExitCodeAuthoritative

\* One Ctrl-C ends the child before it ends the wrapper, even when the child
\* ignores terminate, and the registration directory outlives the child and
\* not the wrapper.  (Not a second Ctrl-C, not one inside Popen, and not when
\* an unforeseen exception ended the loop.)
NoOrphan ==
  /\ bound /\ interrupts <= 1 /\ fault = "none" /\ child = "running" =>
       wpc \notin Ended /\ regDir
  /\ wpc \in Ended => ~regDir

\* A child that has exited, or a Ctrl-C, ends the wrapper: it does not wait
\* for a child that ignores terminate and does not keep sending heartbeats.
WrapperEnds == child = "exited" \/ interrupts > 0 ~> wpc \in Ended
=============================================================================

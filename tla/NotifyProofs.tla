----------------------------- MODULE NotifyProofs -----------------------------
(***************************************************************************)
(* Proofs about Notify, for any behaviour of the POSTs, of the snapshot    *)
(* directories and of a user who presses Ctrl-C any number of times.       *)
(*                                                                         *)
(* The argument: what the wrapper knows of its child is fixed by its       *)
(* control point.  exit_code stays 127 until the child is known to have    *)
(* exited, or a Ctrl-C was caught; from there on neither the child nor the *)
(* notifications can change it.                                            *)
(***************************************************************************)
EXTENDS Notify, TLAPS

BeforeSpawn == {"config", "preflight", "start", "launch"}
Loop == {"wait", "beat_select", "beat_stat", "beat_publish"}
Handler == {"int_poll", "int_wait", "int_kill"}

Flags == check \in BOOLEAN /\ bound \in BOOLEAN /\ regDir \in BOOLEAN
TypeOK ==
  /\ wpc \in BeforeSpawn \cup {"spawn", "bind"} \cup Loop \cup Handler \cup Tail \cup Ended
  /\ child \in {"none", "running", "exited"}
  /\ childCode \in Int /\ exitCode \in Int /\ interrupts \in Nat
  /\ fault \in {"none", "malformed", "stat"}
  /\ accepted \subseteq {"preflight", "start"}

\* What the operating system guarantees about the child.
ChildState ==
  /\ childCode = NoCode <=> child # "exited"
  /\ bound => child # "none"

\* Until Popen nothing exists; the two POSTs are accepted one by one.
Quiet ==
  wpc \in BeforeSpawn =>
    /\ child = "none" /\ ~regDir /\ interrupts = 0 /\ fault = "none"
    /\ exitCode # 0
    /\ wpc \in {"start", "launch"} => ~check
    /\ wpc = "launch" => accepted = {"preflight", "start"}
    /\ wpc = "start" => accepted = {"preflight"}
    /\ wpc = "preflight" => accepted = {}
    /\ wpc = "config" => accepted = {}

\* From Popen to the end of the wrapper.
Launched ==
  wpc \notin BeforeSpawn \cup Ended =>
    /\ ~check /\ regDir /\ accepted = {"preflight", "start"}

\* Inside the try nothing has gone wrong yet and the code is still 127.
Supervising ==
  wpc \in InTry \cup Handler =>
    /\ exitCode = 127 /\ fault = "none"
    /\ wpc \in InTry <=> interrupts = 0
    /\ wpc = "spawn" => child = "none"
    /\ wpc = "bind" => child # "none"
    /\ wpc \in {"spawn", "bind"} => ~bound
    /\ wpc \in Loop \cup {"int_wait", "int_kill"} => bound

\* A bound child that no exception hid from the wrapper has exited, and its
\* code is the wrapper's unless a Ctrl-C came first.
Settled ==
  /\ bound /\ fault = "none" => child = "exited"
  /\ bound /\ fault = "none" /\ interrupts = 0 => exitCode = childCode
SuccessIsChilds == exitCode = 0 => childCode = 0 /\ interrupts = 0

AtTail == wpc \in Tail => Settled /\ SuccessIsChilds

\* "returned" is reached from the tail, or before the launch with code 2, or
\* 0 for --check; "raised" from everywhere.
AtEnd ==
  wpc \in Ended =>
    /\ ~regDir
    /\ bound /\ fault = "none" /\ interrupts <= 1 => child = "exited"
    /\ bound /\ fault = "none" /\ interrupts = 0 =>
         wpc = "returned" /\ exitCode = childCode
    /\ wpc = "returned" /\ exitCode = 0 /\ ~check =>
         childCode = 0 /\ interrupts = 0 /\ accepted = {"preflight", "start"}

Facts == TypeOK /\ ChildState /\ Quiet /\ Launched /\ Supervising /\ AtTail /\ AtEnd
IInv == Flags /\ Facts

-----------------------------------------------------------------------------
(* The inductive invariant *)

\* The wrapper starts before everything it will have to account for.
LEMMA InitIInv == Init => IInv
<1> SUFFICES ASSUME Init PROVE IInv
  OBVIOUS
<1> USE DEF Init, NoCode, BeforeSpawn, Loop, Handler, InTry, Tail, Ended
<1>1. Flags
  BY DEF Flags
<1>2. TypeOK /\ ChildState /\ Quiet
  BY DEF TypeOK, ChildState, Quiet
<1>3. Launched /\ Supervising /\ AtTail /\ AtEnd
  BY DEF Launched, Supervising, AtTail, AtEnd
<1> QED
  BY <1>1, <1>2, <1>3 DEF IInv, Facts

\* The flags stay Boolean.
LEMMA FlagsStep == Flags /\ [Next]_vars => Flags'
<1> SUFFICES ASSUME Flags, [Next]_vars PROVE Flags'
  OBVIOUS
<1> USE DEF Flags, childVars, fsVars
<1>1. CASE Configure \/ Preflight \/ StartPublish \/ Launch \/ Spawn \/ Bind
  BY <1>1 DEF Configure, Preflight, StartPublish, GatedPublish, Launch, Spawn, Bind
<1>2. CASE Wait \/ BeatSelect \/ BeatStat \/ BeatPublish
  BY <1>2 DEF Wait, BeatSelect, Select, BeatStat, Stat, BeatPublish, BestEffort
<1>3. CASE InterruptPoll \/ InterruptWait \/ InterruptKill
  BY <1>3 DEF InterruptPoll, InterruptWait, InterruptKill
<1>4. CASE EndSelect \/ EndStat \/ EndPublish
  BY <1>4 DEF EndSelect, Select, EndStat, Stat, EndPublish, BestEffort
<1>5. CASE Interrupt \/ ChildExit \/ ChildSnapshot \/ OtherSnapshot \/ UNCHANGED vars
  BY <1>5 DEF Interrupt, ChildExit, ChildSnapshot, OtherSnapshot, vars
<1> QED
  BY <1>1, <1>2, <1>3, <1>4, <1>5 DEF Next, Wrapper

\* Every step of the wrapper keeps what its control point says of the child.
LEMMA WrapperStep == Facts /\ Wrapper => Facts'
<1> SUFFICES ASSUME Facts, Wrapper PROVE Facts'
  OBVIOUS
<1> USE NotifyAssumption
    DEF Facts, TypeOK, ChildState, Quiet, Launched, Supervising, AtTail, AtEnd, Settled,
        SuccessIsChilds, NoCode, BeforeSpawn, Loop, Handler, InTry, Tail, Ended,
        childVars, fsVars
<1>1. CASE Configure
  BY <1>1 DEF Configure
<1>2. CASE Preflight
  <2> PICK o \in Outcomes :
         /\ wpc' = CASE o = "malformed" -> "raised"
                     [] o = "refused" \/ check -> "returned"
                     [] OTHER -> "start"
         /\ exitCode' = CASE o = "refused" -> 2
                          [] o = "ok" /\ check -> 0
                          [] OTHER -> exitCode
         /\ accepted' = IF o = "ok" THEN accepted \cup {"preflight"} ELSE accepted
         /\ fault' = IF o = "malformed" THEN o ELSE fault
    BY <1>2 DEF Preflight, GatedPublish
  <2>1. /\ wpc = "preflight"
        /\ UNCHANGED <<check, childVars, fsVars, listed, regDir, interrupts, terminal>>
    BY <1>2 DEF Preflight, GatedPublish
  <2>2. CASE o = "malformed"
    BY <2>1, <2>2
  <2>3. CASE o = "refused"
    BY <2>1, <2>3
  <2>4. CASE o = "ok" /\ check
    BY <2>1, <2>4
  <2>5. CASE o = "ok" /\ ~check
    BY <2>1, <2>5
  <2> QED
    BY <2>2, <2>3, <2>4, <2>5
<1>3. CASE StartPublish
  BY <1>3 DEF StartPublish, GatedPublish
<1>4. CASE Launch
  BY <1>4 DEF Launch
<1>5. CASE Spawn
  BY <1>5 DEF Spawn
<1>6. CASE Bind
  <2>1. TypeOK' /\ ChildState'
    BY <1>6 DEF Bind
  <2>2. Quiet' /\ Launched'
    BY <1>6 DEF Bind
  <2>3. Supervising'
    BY <1>6 DEF Bind
  <2>4. AtTail' /\ AtEnd'
    BY <1>6 DEF Bind
  <2> QED
    BY <2>1, <2>2, <2>3, <2>4
<1>7. CASE Wait
  BY <1>7 DEF Wait
<1>8. CASE BeatSelect
  BY <1>8 DEF BeatSelect, Select
<1>9. CASE BeatStat
  <2>1. TypeOK' /\ ChildState'
    BY <1>9 DEF BeatStat, Stat
  <2>2. Quiet' /\ Launched'
    BY <1>9 DEF BeatStat, Stat
  <2>3. Supervising'
    BY <1>9 DEF BeatStat, Stat
  <2>4. AtTail' /\ AtEnd'
    BY <1>9 DEF BeatStat, Stat
  <2> QED
    BY <2>1, <2>2, <2>3, <2>4
<1>10. CASE BeatPublish
  BY <1>10 DEF BeatPublish, BestEffort
<1>11. CASE InterruptPoll
  BY <1>11 DEF InterruptPoll, InterruptedCode
<1>12. CASE InterruptWait
  BY <1>12 DEF InterruptWait, InterruptedCode, AfterTimeout
<1>13. CASE InterruptKill
  BY <1>13 DEF InterruptKill, InterruptedCode, Killed
<1>14. CASE EndSelect
  BY <1>14 DEF EndSelect, Select
<1>15. CASE EndStat
  BY <1>15 DEF EndStat, Stat
<1>16. CASE EndPublish
  BY <1>16 DEF EndPublish, BestEffort
<1> QED
  BY <1>1, <1>2, <1>3, <1>4, <1>5, <1>6, <1>7, <1>8, <1>9, <1>10, <1>11, <1>12,
     <1>13, <1>14, <1>15, <1>16 DEF Wrapper

\* So does whatever moves beside the wrapper: the user, the child, the
\* snapshot directories.
LEMMA OtherStep ==
  Facts /\ (Interrupt \/ ChildExit \/ ChildSnapshot \/ OtherSnapshot \/ UNCHANGED vars)
    => Facts'
<1> SUFFICES ASSUME Facts,
                    \/ Interrupt \/ ChildExit
                    \/ ChildSnapshot \/ OtherSnapshot \/ UNCHANGED vars
             PROVE  Facts'
  OBVIOUS
<1> USE NotifyAssumption
    DEF Facts, TypeOK, ChildState, Quiet, Launched, Supervising, AtTail, AtEnd, Settled,
        SuccessIsChilds, NoCode, BeforeSpawn, Loop, Handler, InTry, Tail, Ended,
        childVars, fsVars
<1>1. CASE Interrupt
  <2>1. TypeOK' /\ ChildState'
    BY <1>1 DEF Interrupt
  <2>2. Quiet' /\ Launched'
    BY <1>1 DEF Interrupt
  <2>3. Supervising'
    BY <1>1 DEF Interrupt
  <2>4. AtTail' /\ AtEnd'
    <3>1. CASE wpc \in InTry
      BY <1>1, <3>1 DEF Interrupt
    <3>2. CASE wpc \in BeforeSpawn
      BY <1>1, <3>2 DEF Interrupt
    <3>3. CASE wpc \in Handler \cup Tail
      <4>1. wpc' = "raised" /\ interrupts' = interrupts + 1 /\ interrupts \in Nat
        BY <1>1, <3>3 DEF Interrupt
      <4>2. ~regDir'
        BY <1>1, <4>1, Zenon DEF Interrupt
      <4>3. wpc \in Handler => interrupts # 0
        BY <3>3
      <4>4. wpc \in Tail => (bound /\ fault = "none" => child = "exited")'
        BY <1>1 DEF Interrupt
      <4> QED
        BY <3>3, <4>1, <4>2, <4>3, <4>4
    <3> QED
      BY <1>1, <3>1, <3>2, <3>3 DEF Interrupt
  <2> QED
    BY <2>1, <2>2, <2>3, <2>4
<1>2. CASE ChildExit
  BY <1>2 DEF ChildExit, ChildCodes, Killed
<1>3. CASE ChildSnapshot \/ OtherSnapshot \/ UNCHANGED vars
  <2>1. UNCHANGED <<check, wpc, childVars, exitCode, regDir, interrupts, accepted, fault>>
    BY <1>3 DEF ChildSnapshot, OtherSnapshot, vars
  <2>2. TypeOK' /\ ChildState'
    BY <2>1
  <2>3. Quiet' /\ Launched'
    BY <2>1
  <2>4. Supervising'
    BY <2>1
  <2>5. AtTail' /\ AtEnd'
    BY <2>1
  <2> QED
    BY <2>2, <2>3, <2>4, <2>5
<1> QED
  BY <1>1, <1>2, <1>3

\* In every reachable state the wrapper's control point says what has become
\* of its child, of the accepted notifications and of exit_code.
THEOREM Invariance == Spec => []IInv
<1>1. IInv /\ [Next]_vars => IInv'
  BY FlagsStep, WrapperStep, OtherStep DEF IInv, Next
<1> QED
  BY InitIInv, <1>1, PTL DEF Spec

-----------------------------------------------------------------------------
(* What follows from it *)

\* Exit code 0 is the code of a child that ended by itself with 0, in a run
\* nobody interrupted and whose preflight and start had been accepted.
THEOREM SuccessIsRealHolds == Spec => []SuccessIsReal
<1>1. IInv => SuccessIsReal
  BY DEF IInv, Facts, AtEnd, SuccessIsReal, Ended
<1> QED
  BY Invariance, <1>1, PTL

\* No refused POST, in any heartbeat or at the end, changes the code that
\* the wrapper returns.
THEOREM ExitCodeSurvives == Spec => []ExitCodeSurvivesRefusals
<1>1. IInv => ExitCodeSurvivesRefusals
  BY DEF IInv, Facts, AtEnd, ExitCodeSurvivesRefusals, ExitCodeAuthoritative, Ended
<1> QED
  BY Invariance, <1>1, PTL

\* The wrapper does not leave a child it knows of running, and removes its
\* registration directory whichever way it ends.
THEOREM NoOrphanHolds == Spec => []NoOrphan
<1>1. IInv => NoOrphan
  BY DEF IInv, Facts, TypeOK, ChildState, Quiet, Launched, AtEnd, NoOrphan, BeforeSpawn, Ended
<1> QED
  BY Invariance, <1>1, PTL
=============================================================================

--------------------------- MODULE SnapshotProofs ---------------------------
(***************************************************************************)
(* Proofs about the snapshot coordinator of Snapshot, for any number of    *)
(* runs and whichever of the commands knows the task.                      *)
(***************************************************************************)
EXTENDS Snapshot, TLAPS

(* The wrapper's state, without its counters. *)
TaskKinds ==
  /\ pc \in A!PCs /\ handler \in {"default", "gate"}
  /\ tripped \in BOOLEAN /\ done \in BOOLEAN /\ token \in BOOLEAN
  /\ sync \in BOOLEAN /\ cmd \in BOOLEAN /\ starts \in Nat

(* The coordinator's state. *)
RunKinds ==
  /\ step \in {"idle", "wait", "acquire", "check"} \union Commands \union Over
  /\ resume \in BOOLEAN /\ foreign \in BOOLEAN /\ early \in BOOLEAN

(* A dump has the fields of a process; none has just one. *)
Dumps == DOMAIN taken \in {DOMAIN NoSnapshot, DOMAIN A!Parked}

(* The steps of a run from which the signal has not been sent. *)
Unsignalled ==
  {"wait", "acquire", "check", "runc"}
    \union (IF Reaches = "runc" THEN {} ELSE {"docker"})
    \union (IF Reaches = "task" THEN {"task"} ELSE {})

(* A run signals the task once at most, because only one of its commands     *)
(* reaches it and none is tried twice.                                       *)
OncePerRun ==
  /\ runs \in 0..MaxRuns /\ sent \in 0..runs
  /\ step \in Unsignalled => sent < runs

(* A task under sync that nobody has signalled is before the gate or in it,  *)
(* with its handler installed exactly in the loop.                           *)
AtGate ==
  /\ A!Live => sync
  /\ A!Live /\ sent = 0 =>
       /\ ~tripped /\ ~done
       /\ pc \in A!Before \union {"test", "enter", "paused"}
       /\ handler = IF pc \in A!Before THEN "default" ELSE "gate"

(* The token that the wait has seen stays that of the task that is dumped,   *)
(* unless it was somebody else's; before that, this run has dumped nothing.  *)
SeenAtGate ==
  /\ step = "acquire" /\ ~foreign =>
       sent = 0 /\ pc \notin {"import", "create"}
  /\ step = "wait" => taken = NoSnapshot
  /\ SnapshotAtGate

IInv == TaskKinds /\ RunKinds /\ Dumps /\ OncePerRun /\ AtGate /\ SeenAtGate

-----------------------------------------------------------------------------
(* At first there is no task, and no run. *)
LEMMA InitIInv == Init => IInv
<1> SUFFICES ASSUME Init PROVE IInv
  OBVIOUS
<1>0. MaxRuns \in Nat
  BY SnapshotAssumption
<1> USE <1>0 DEF Init, A!Init, A!PCs, A!Absent, A!Live, Over
<1>1. TaskKinds /\ RunKinds
  BY DEF TaskKinds, RunKinds
<1>2. Dumps
  BY DEF Dumps
<1>3. OncePerRun
  BY DEF OncePerRun, Unsignalled
<1>4. AtGate /\ SeenAtGate
  BY DEF AtGate, SeenAtGate, SnapshotAtGate
<1> QED
  BY <1>1, <1>2, <1>3, <1>4 DEF IInv

(* The task, on its own, changes nothing of the coordinator's, sends itself   *)
(* no signal, and keeps its environment.                                      *)
LEMMA TaskKeeps ==
  Process => UNCHANGED <<step, resume, taken, runs, foreign, early, sync, cmd, sent>>
BY DEF Process, history, A!Step, A!Crash, A!Exit, A!Import, A!CreateToken, A!WriteToken,
       A!Install, A!TestDone, A!RunHandler, A!EnterPause, A!Wake, A!Uninstall, A!Unlink, A!StartApp

(* Every step of the coordinator and of the task keeps the task's types. *)
LEMMA NextTaskKinds == TaskKinds /\ RunKinds /\ [Next]_vars => TaskKinds'
<1> SUFFICES ASSUME TaskKinds, RunKinds, [Next]_vars PROVE TaskKinds'
  OBVIOUS
<1>0. Reaches \in Commands /\ MaxRuns \in Nat
  BY SnapshotAssumption
<1> USE <1>0
    DEF TaskKinds, A!PCs, A!Absent, A!Before, A!Waiting, A!After, process, history, Over, Commands
<1>1. CASE NewTask
  BY <1>1 DEF NewTask
<1>2. CASE Run
  BY <1>2 DEF Run
<1>3. CASE Wait
  BY <1>3 DEF Wait, Goto, NotThisTask
<1>4. CASE Acquire
  BY <1>4 DEF Acquire, Goto, Dumped, A!Live, A!Memory
<1>5. CASE Check
  BY <1>5 DEF Check, Goto
<1>6. CASE Deliver
  BY <1>6 DEF Deliver, Goto, Succ, A!Signal, A!Live
<1>7. CASE Process
  <2>0. UNCHANGED <<step, resume, taken, runs, history>>
    BY <1>7 DEF Process
  <2>1. CASE A!Import
    BY <2>0, <2>1 DEF A!Import
  <2>2. CASE A!CreateToken
    BY <2>0, <2>2 DEF A!CreateToken
  <2>3. CASE A!WriteToken
    BY <2>0, <2>3 DEF A!WriteToken
  <2>4. CASE A!Install
    BY <2>0, <2>4 DEF A!Install
  <2>5. CASE A!TestDone
    BY <2>0, <2>5 DEF A!TestDone
  <2>6. CASE A!RunHandler
    BY <2>0, <2>6 DEF A!RunHandler
  <2>7. CASE A!EnterPause
    BY <2>0, <2>7 DEF A!EnterPause
  <2>8. CASE A!Wake
    BY <2>0, <2>8 DEF A!Wake
  <2>9. CASE A!Uninstall
    BY <2>0, <2>9 DEF A!Uninstall
  <2>10. CASE A!Unlink
    BY <2>0, <2>10 DEF A!Unlink
  <2>11. CASE A!StartApp
    BY <2>0, <2>11 DEF A!StartApp
  <2>12. CASE A!Crash
    BY <2>0, <2>12 DEF A!Crash
  <2>13. CASE A!Exit
    BY <2>0, <2>13 DEF A!Exit
  <2> QED
    BY <1>7, <2>1, <2>2, <2>3, <2>4, <2>5, <2>6, <2>7, <2>8, <2>9, <2>10, <2>11, <2>12, <2>13
    DEF Process, A!Step
<1>8. CASE UNCHANGED vars
  BY <1>8 DEF vars
<1> QED
  BY <1>1, <1>2, <1>3, <1>4, <1>5, <1>6, <1>7, <1>8
  DEF Next, Coordinator

(* And those of the run. *)
LEMMA NextRunKinds == RunKinds /\ [Next]_vars => RunKinds'
<1> SUFFICES ASSUME RunKinds, [Next]_vars PROVE RunKinds'
  OBVIOUS
<1>0. Reaches \in Commands /\ MaxRuns \in Nat
  BY SnapshotAssumption
<1> USE <1>0 DEF RunKinds, process, history, Over, Commands
<1>1. CASE NewTask
  BY <1>1 DEF NewTask
<1>2. CASE Run
  BY <1>2 DEF Run
<1>3. CASE Wait
  BY <1>3 DEF Wait, Goto, NotThisTask
<1>4. CASE Acquire
  BY <1>4 DEF Acquire, Goto, Dumped, A!Live, A!Memory
<1>5. CASE Check
  BY <1>5 DEF Check, Goto
<1>6. CASE Deliver
  <2>1. step' \in {"docker", "task", "ok"} /\ UNCHANGED <<resume, foreign>>
    BY <1>6 DEF Deliver, Goto, Succ
  <2>2. early' = early \/ early' = (early \/ pc # "paused")
    BY <1>6, Zenon DEF Deliver
  <2>3. early' \in BOOLEAN
    BY <2>2
  <2> QED
    BY <2>1, <2>3
<1>7. CASE Process
  BY <1>7, TaskKeeps
<1>8. CASE UNCHANGED vars
  BY <1>8 DEF vars
<1> QED
  BY <1>1, <1>2, <1>3, <1>4, <1>5, <1>6, <1>7, <1>8
  DEF Next, Coordinator

(* What is dumped is a process. *)
LEMMA NextDumps == Dumps /\ [Next]_vars => Dumps'
<1> SUFFICES ASSUME Dumps, [Next]_vars PROVE Dumps'
  OBVIOUS
<1>0. Reaches \in Commands /\ MaxRuns \in Nat
  BY SnapshotAssumption
<1> USE <1>0 DEF Dumps, NoSnapshot, A!Parked, process, history, Over, Commands
<1>1. CASE NewTask
  BY <1>1 DEF NewTask
<1>2. CASE Run
  BY <1>2 DEF Run
<1>3. CASE Wait
  BY <1>3 DEF Wait, Goto, NotThisTask
<1>4. CASE Acquire
  BY <1>4 DEF Acquire, Goto, Dumped, A!Live, A!Memory
<1>5. CASE Check
  BY <1>5 DEF Check, Goto
<1>6. CASE Deliver
  BY <1>6 DEF Deliver, Goto, Succ, A!Signal, A!Live
<1>7. CASE Process
  BY <1>7, TaskKeeps
<1>8. CASE UNCHANGED vars
  BY <1>8 DEF vars
<1> QED
  BY <1>1, <1>2, <1>3, <1>4, <1>5, <1>6, <1>7, <1>8
  DEF Next, Coordinator

(* A run that has signalled is past the only command that can. *)
LEMMA NextOncePerRun == OncePerRun /\ RunKinds /\ [Next]_vars => OncePerRun'
<1> SUFFICES ASSUME OncePerRun, RunKinds, [Next]_vars PROVE OncePerRun'
  OBVIOUS
<1>0. Reaches \in Commands /\ MaxRuns \in Nat
  BY SnapshotAssumption
<1> USE <1>0 DEF OncePerRun, RunKinds, Unsignalled, process, history, Over, Commands
<1>1. CASE NewTask
  BY <1>1 DEF NewTask
<1>2. CASE Run
  BY <1>2 DEF Run
<1>3. CASE Wait
  BY <1>3 DEF Wait, Goto, NotThisTask
<1>4. CASE Acquire
  BY <1>4 DEF Acquire, Goto, Dumped, A!Live, A!Memory
<1>5. CASE Check
  BY <1>5 DEF Check, Goto
<1>6. CASE Deliver
  BY <1>6 DEF Deliver, Goto, Succ, A!Signal, A!Live
<1>7. CASE Process
  BY <1>7, TaskKeeps
<1>8. CASE UNCHANGED vars
  BY <1>8 DEF vars
<1> QED
  BY <1>1, <1>2, <1>3, <1>4, <1>5, <1>6, <1>7, <1>8
  DEF Next, Coordinator

(* Only a signal takes the task through the gate. *)
LEMMA NextAtGate == AtGate /\ TaskKinds /\ OncePerRun /\ [Next]_vars => AtGate'
<1> SUFFICES ASSUME AtGate, TaskKinds, OncePerRun, [Next]_vars PROVE AtGate'
  OBVIOUS
<1>0. Reaches \in Commands /\ MaxRuns \in Nat
  BY SnapshotAssumption
<1> USE <1>0
    DEF AtGate, A!Live, TaskKinds, OncePerRun, A!PCs, A!Absent, A!Before, A!Waiting, A!After,
        process, history, Over, Commands
<1>1. CASE NewTask
  BY <1>1 DEF NewTask
<1>2. CASE Run
  BY <1>2 DEF Run
<1>3. CASE Wait
  BY <1>3 DEF Wait, Goto, NotThisTask
<1>4. CASE Acquire
  BY <1>4 DEF Acquire, Goto, Dumped, A!Live, A!Memory
<1>5. CASE Check
  BY <1>5 DEF Check, Goto
<1>6. CASE Deliver
  BY <1>6 DEF Deliver, Goto, Succ, A!Signal, A!Live
<1>7. CASE Process
  <2>0. UNCHANGED <<step, resume, taken, runs, history>>
    BY <1>7 DEF Process
  <2>1. CASE A!Import
    BY <2>0, <2>1 DEF A!Import
  <2>2. CASE A!CreateToken
    BY <2>0, <2>2 DEF A!CreateToken
  <2>3. CASE A!WriteToken
    BY <2>0, <2>3 DEF A!WriteToken
  <2>4. CASE A!Install
    BY <2>0, <2>4 DEF A!Install
  <2>5. CASE A!TestDone
    BY <2>0, <2>5 DEF A!TestDone
  <2>6. CASE A!RunHandler
    BY <2>0, <2>6 DEF A!RunHandler
  <2>7. CASE A!EnterPause
    BY <2>0, <2>7 DEF A!EnterPause
  <2>8. CASE A!Wake
    BY <2>0, <2>8 DEF A!Wake
  <2>9. CASE A!Uninstall
    BY <2>0, <2>9 DEF A!Uninstall
  <2>10. CASE A!Unlink
    BY <2>0, <2>10 DEF A!Unlink
  <2>11. CASE A!StartApp
    BY <2>0, <2>11 DEF A!StartApp
  <2>12. CASE A!Crash
    BY <2>0, <2>12 DEF A!Crash
  <2>13. CASE A!Exit
    BY <2>0, <2>13 DEF A!Exit
  <2> QED
    BY <1>7, <2>1, <2>2, <2>3, <2>4, <2>5, <2>6, <2>7, <2>8, <2>9, <2>10, <2>11, <2>12, <2>13
    DEF Process, A!Step
<1>8. CASE UNCHANGED vars
  BY <1>8 DEF vars
<1> QED
  BY <1>1, <1>2, <1>3, <1>4, <1>5, <1>6, <1>7, <1>8
  DEF Next, Coordinator

(* The wait finds a token, and the task it belongs to, or fails.             *)
LEMMA Waited ==
  Wait => (~foreign' => ~NotThisTask) \/ (step' = "error" /\ UNCHANGED foreign)
BY Zenon DEF Wait, Goto

(* From the wait to the dump the task does not leave the gate. *)
LEMMA NextSeenAtGate ==
  SeenAtGate /\ AtGate /\ TaskKinds /\ RunKinds /\ OncePerRun /\ [Next]_vars => SeenAtGate'
<1> SUFFICES ASSUME SeenAtGate, AtGate, TaskKinds, RunKinds, OncePerRun, [Next]_vars
             PROVE  SeenAtGate'
  OBVIOUS
<1>0. Reaches \in Commands /\ MaxRuns \in Nat
  BY SnapshotAssumption
<1> USE <1>0
    DEF SeenAtGate, SnapshotAtGate, A!Captures, A!Unsettled, A!Parked, NoSnapshot, A!Memory,
        AtGate, A!Live, TaskKinds, RunKinds, A!PCs, A!Absent, A!Before, A!Waiting, A!After,
        process, history, Over, Commands
<1>1. CASE NewTask
  BY <1>1 DEF NewTask
<1>2. CASE Run
  BY <1>2 DEF Run
<1>3. CASE Wait
  <2>1. step = "wait" /\ step' \in {"acquire", "error"} /\ UNCHANGED <<process, taken>>
    BY <1>3 DEF Wait, Goto
  <2>2. CASE ~foreign' => ~NotThisTask
    <3>1. sent' = sent /\ pc' = pc /\ sent \in Nat
      BY <2>1 DEF OncePerRun
    <3>2. ~foreign' => sent = 0 /\ pc \notin {"import", "create"}
      BY <2>2, <3>1 DEF NotThisTask
    <3>3. taken' = NoSnapshot
      BY <2>1
    <3> QED
      BY <2>1, <3>1, <3>2, <3>3
  <2>3. CASE step' = "error" /\ UNCHANGED foreign
    BY <2>1, <2>3
  <2> QED
    BY <1>3, <2>2, <2>3, Waited
<1>4. CASE Acquire
  <2>1. step = "acquire" /\ step' \in {"check", "error"} /\ UNCHANGED foreign
    BY <1>4 DEF Acquire, Goto
  <2>2. CASE UNCHANGED taken
    BY <2>1, <2>2
  <2>3. CASE A!Live /\ taken' = A!Memory
    <3>1. ~foreign => A!Memory \in A!Captures
      BY <2>1, <2>3
    <3> QED
      BY <2>1, <2>3, <3>1
  <2> QED
    BY <1>4, <2>2, <2>3 DEF Acquire
<1>5. CASE Check
  <2>1. step' \in {"runc", "ok", "error"} /\ UNCHANGED <<taken, foreign>>
    BY <1>5 DEF Check, Goto
  <2> QED
    BY <2>1
<1>6. CASE Deliver
  <2>1. step' \in {"docker", "task", "ok"} /\ UNCHANGED <<taken, foreign>>
    BY <1>6 DEF Deliver, Goto, Succ
  <2> QED
    BY <2>1
<1>7. CASE Process
  <2>0. UNCHANGED <<step, resume, taken, runs, history>>
    BY <1>7 DEF Process
  <2>1. CASE A!Import
    BY <2>0, <2>1 DEF A!Import
  <2>2. CASE A!CreateToken
    BY <2>0, <2>2 DEF A!CreateToken
  <2>3. CASE A!WriteToken
    BY <2>0, <2>3 DEF A!WriteToken
  <2>4. CASE A!Install
    BY <2>0, <2>4 DEF A!Install
  <2>5. CASE A!TestDone
    BY <2>0, <2>5 DEF A!TestDone
  <2>6. CASE A!RunHandler
    BY <2>0, <2>6 DEF A!RunHandler
  <2>7. CASE A!EnterPause
    BY <2>0, <2>7 DEF A!EnterPause
  <2>8. CASE A!Wake
    BY <2>0, <2>8 DEF A!Wake
  <2>9. CASE A!Uninstall
    BY <2>0, <2>9 DEF A!Uninstall
  <2>10. CASE A!Unlink
    BY <2>0, <2>10 DEF A!Unlink
  <2>11. CASE A!StartApp
    BY <2>0, <2>11 DEF A!StartApp
  <2>12. CASE A!Crash
    BY <2>0, <2>12 DEF A!Crash
  <2>13. CASE A!Exit
    BY <2>0, <2>13 DEF A!Exit
  <2> QED
    BY <1>7, <2>1, <2>2, <2>3, <2>4, <2>5, <2>6, <2>7, <2>8, <2>9, <2>10, <2>11, <2>12, <2>13
    DEF Process, A!Step
<1>8. CASE UNCHANGED vars
  BY <1>8 DEF vars
<1> QED
  BY <1>1, <1>2, <1>3, <1>4, <1>5, <1>6, <1>7, <1>8
  DEF Next, Coordinator

(* So every step preserves the invariant. *)
LEMMA NextIInv == IInv /\ [Next]_vars => IInv'
BY NextTaskKinds, NextRunKinds, NextDumps, NextOncePerRun, NextAtGate, NextSeenAtGate
DEF IInv

(* Every reachable state is described by the invariant. *)
THEOREM Invariance == Spec => []IInv
BY InitIInv, NextIInv, PTL DEF Spec

(* Every variable keeps its type; that the signals stay within MaxRuns says  *)
(* that no run of the coordinator signals the task twice.                    *)
THEOREM TypeCorrect == Spec => []TypeOK
<1>1. IInv => TypeOK
  <2> SUFFICES ASSUME IInv PROVE TypeOK
    OBVIOUS
  <2>1. sent \in 0..MaxRuns /\ runs \in 0..MaxRuns
    BY SnapshotAssumption DEF IInv, OncePerRun
  <2>2. {tripped, done, token, sync, cmd} \subseteq BOOLEAN
    BY DEF IInv, TaskKinds
  <2>3. {resume, foreign, early} \subseteq BOOLEAN
    BY DEF IInv, RunKinds
  <2>4. A!TypeOK
    BY <2>1, <2>2 DEF IInv, TaskKinds, A!TypeOK
  <2> QED
    BY <2>1, <2>3, <2>4 DEF IInv, RunKinds, Dumps, TypeOK
<1> QED
  BY Invariance, <1>1, PTL

(* A task that this run is the first to coordinate, and whose token is its   *)
(* own, is dumped at its gate, for any number of runs and tasks, whichever   *)
(* command reaches it, and however the task's bytecodes fall between those   *)
(* of the coordinator.                                                       *)
THEOREM DumpedAtGate == Spec => []SnapshotAtGate
<1>1. IInv => SnapshotAtGate
  BY DEF IInv, SeenAtGate
<1> QED
  BY Invariance, <1>1, PTL
=============================================================================

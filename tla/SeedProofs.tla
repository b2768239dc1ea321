----------------------------- MODULE SeedProofs -----------------------------
(***************************************************************************)
(* Proofs about the build of a seed, for any number of builds over one     *)
(* directory, any timeout of the wait, any cap of its pauses and however   *)
(* long the waiter is held up.                                             *)
(*                                                                         *)
(* The invariant has a part for the process, one for build() itself, two   *)
(* that relate them (what the token tells build() of the process, and what *)
(* build() has left behind), and two for the waiter.  While there is one,  *)
(* every step of the build is one of TokenWait, so that what TokenWait-    *)
(* Proofs shows of a wait holds of this one.                               *)
(***************************************************************************)
EXTENDS Seed, TLAPS

P == INSTANCE TokenWaitProofs WITH MaxOther <- 0, writing <- pc = "write"

(* The wrapper is never signalled while it is seeded: it does not leave the  *)
(* gate, and where it is tells everything else of it.                        *)
AtGate ==
  /\ pc \in {"absent", "ended"} \union A!Before \union {"test", "enter", "paused"}
  /\ tripped = FALSE /\ done = FALSE /\ sent = 0 /\ starts = 0
  /\ handler \in {"default", "gate"}
  /\ A!Live => sync /\ handler = IF pc \in A!Before THEN "default" ELSE "gate"
  /\ token \in BOOLEAN /\ sync \in BOOLEAN /\ cmd \in BOOLEAN

(* There is a waiter only during the wait, and each wait begins afresh. *)
Idle == step # "wait" => W!Fresh /\ others = 0
Waits == step = "wait" => P!IInv

(* Where build() is and what it keeps. *)
BuildKinds ==
  /\ step \in Steps /\ builds \in 0..MaxBuilds
  /\ temp \in BOOLEAN /\ command \in BOOLEAN
  /\ left \subseteq TempReasons \union Reasons

(* Where a token may be one of the process that runs now, it is: none is     *)
(* left when that process is started.                                        *)
TokenOfThisBuild ==
  /\ step = "run" /\ pc = "absent" => ~token
  /\ step = "wait" /\ token => pc \notin {"import", "create"}
  /\ step = "checkpoint" => pc \notin {"import", "create"}

(* A container is accounted for whenever build() has not one to deal with.   *)
TempAccounted ==
  /\ step = "create" => ~temp
  /\ step \notin {"created", "export", "rm", "rmError"} /\ temp =>
       \E r \in TempReasons : r \in left

Accounted ==
  step \notin {"wait", "cleanup", "checkpoint"} /\ pc # "absent" =>
    \E r \in Reasons : r \in left

IInv ==
  /\ AtGate /\ Idle /\ Waits /\ BuildKinds /\ TokenOfThisBuild
  /\ TempAccounted /\ Accounted /\ SnapshotAtGate

-----------------------------------------------------------------------------
(* What a step does to each of the actors. *)

Killed ==
  /\ A!Live /\ pc' = "ended"
  /\ UNCHANGED <<handler, tripped, done, token, sync, cmd, sent, starts>>

TokenRemoved ==
  /\ token' \in {token, FALSE}
  /\ UNCHANGED <<pc, handler, tripped, done, sync, cmd, sent, starts>>

ProcessMove ==
  \/ A!Import \/ A!CreateToken \/ A!WriteToken \/ A!Install
  \/ A!TestDone \/ A!EnterPause \/ A!Crash
  \/ A!Exec(TRUE, command) \/ Killed \/ Remove \/ TokenRemoved
  \/ UNCHANGED process

(* The steps of build() that concern neither the process nor the waiter. *)
Paperwork ==
  \/ Build \/ Create \/ Created \/ Export \/ RemoveTemp \/ InstallWrapper \/ InspectImage
  \/ WriteSpec

(* They leave both as they are, and do not begin a wait. *)
LEMMA PaperworkFrame ==
  Paperwork => UNCHANGED <<process, waiter>> /\ step # "wait" /\ step' # "wait"
<1> SUFFICES ASSUME Paperwork
             PROVE  UNCHANGED process /\ UNCHANGED waiter /\ step # "wait" /\ step' # "wait"
  OBVIOUS
<1>1. UNCHANGED process /\ UNCHANGED waiter
  BY Zenon DEF Paperwork, Build, Create, Created, Export, RemoveTemp, InstallWrapper,
     InspectImage, WriteSpec
<1>2. step # "wait" /\ step' # "wait"
  BY DEF Paperwork, Build, Create, Created, Export, RemoveTemp, InstallWrapper, InspectImage,
     WriteSpec, Goto, Over
<1> QED
  BY <1>1, <1>2

(* The process takes its own steps, is started, killed and removed, and the  *)
(* token of an earlier one may be removed.                                   *)
LEMMA ProcessMoves == [Next]_vars => ProcessMove
<1> SUFFICES ASSUME [Next]_vars PROVE ProcessMove
  OBVIOUS
<1> USE DEF ProcessMove
<1>1. CASE Paperwork
  BY <1>1, PaperworkFrame
<1>2. CASE Untoken
  <2>1. TokenRemoved
    BY <1>2 DEF Untoken, TokenRemoved
  <2> QED
    BY <2>1
<1>3. CASE Run
  BY <1>3, Zenon DEF Run
<1>4. CASE Wait \/ Waited \/ Interrupted
  BY <1>4, Zenon DEF Wait, Waited, Interrupted
<1>5. CASE Cleanup
  BY <1>5, Zenon DEF Cleanup
<1>6. CASE Checkpoint
  BY <1>6, Zenon DEF Checkpoint
<1>7. CASE Process
  BY <1>7, Zenon DEF Process
<1>8. CASE ProcessKilled
  BY <1>8, Zenon DEF ProcessKilled, Killed
<1>9. CASE UNCHANGED vars
  BY <1>9, Zenon DEF vars
<1> QED
  BY <1>1, <1>2, <1>3, <1>4, <1>5, <1>6, <1>7, <1>8, <1>9, Zenon DEF Next, Paperwork

-----------------------------------------------------------------------------
(* Nothing takes the process through the gate. *)
LEMMA NextAtGate == AtGate /\ BuildKinds /\ [Next]_vars => AtGate'
<1> SUFFICES ASSUME AtGate, BuildKinds, [Next]_vars PROVE AtGate'
  OBVIOUS
<1>0. ProcessMove /\ command \in BOOLEAN
  BY ProcessMoves DEF BuildKinds
<1> USE <1>0 DEF AtGate, A!Absent, A!Before, A!Live
<1>1. CASE A!Import
  BY <1>1 DEF A!Import
<1>2. CASE A!CreateToken
  BY <1>2 DEF A!CreateToken
<1>3. CASE A!WriteToken
  BY <1>3 DEF A!WriteToken
<1>4. CASE A!Install
  BY <1>4 DEF A!Install
<1>5. CASE A!TestDone
  BY <1>5 DEF A!TestDone
<1>6. CASE A!EnterPause
  BY <1>6 DEF A!EnterPause
<1>7. CASE A!Crash
  BY <1>7 DEF A!Crash
<1>8. CASE A!Exec(TRUE, command)
  BY <1>8 DEF A!Exec
<1>9. CASE Killed
  BY <1>9 DEF Killed
<1>10. CASE Remove
  BY <1>10 DEF Remove
<1>11. CASE TokenRemoved
  BY <1>11 DEF TokenRemoved
<1>12. CASE UNCHANGED process
  BY <1>12 DEF process
<1> QED
  BY <1>0, <1>1, <1>2, <1>3, <1>4, <1>5, <1>6, <1>7, <1>8, <1>9, <1>10, <1>11, <1>12, Zenon
  DEF ProcessMove

(* While build() waits, each of its steps is one of TokenWait. *)
LEMMA WaitStep ==
  Waits /\ AtGate /\ TokenOfThisBuild /\ [Next]_vars /\ step = "wait" /\ step' = "wait" =>
    [P!Next]_(P!vars)
<1> SUFFICES ASSUME Waits, AtGate, TokenOfThisBuild, [Next]_vars, step = "wait", step' = "wait"
             PROVE  [P!Next]_(P!vars)
  OBVIOUS
<1> USE DEF P!Next
<1>1. CASE Wait
  <2>1. CASE W!Waiter
    BY <2>1, Zenon
    DEF W!Waiter, P!Waiter, W!Check, P!Check, W!Watch, P!Watch, W!Loop, P!Loop, W!Select,
        P!Select, W!Read, P!Read, W!Break, P!Break, W!Poll, P!Poll, W!Look, P!Look, W!Pause,
        P!Pause, W!Sleep, P!Sleep, W!Last, P!Last, W!Goto, P!Goto, W!Return, P!Return,
        W!StartPoll, P!StartPoll, W!Unwatch, P!Unwatch, W!Earlier, P!Earlier, W!file, P!file,
        W!clock, P!clock, W!queue, P!queue
  <2>2. CASE W!Tick
    BY <2>2, Zenon
    DEF W!Tick, P!Tick, W!Blocked, P!Blocked, W!Still, P!Still, W!file, P!file, W!queue, P!queue
  <2>3. CASE W!Delay
    BY <2>3, Zenon
    DEF W!Delay, P!Delay, W!Blocked, P!Blocked, W!Still, P!Still, W!file, P!file, W!queue,
        P!queue
  <2> QED
    BY <1>1, <2>1, <2>2, <2>3 DEF Wait
<1>2. CASE Process
  <2>1. CASE A!CreateToken /\ token' # token
    <3>1. W!TokenOpened
      BY <1>2, <2>1 DEF Process, Noticed, A!CreateToken, A!Import, A!WriteToken, A!Install,
         A!TestDone, A!EnterPause, A!Crash
    <3> QED
      BY <3>1, Zenon
      DEF W!TokenOpened, P!TokenOpened, W!Report, P!Report, W!clock, P!clock
  <2>2. CASE A!WriteToken
    <3>1. W!TokenClosed
      BY <1>2, <2>2 DEF Process, Noticed, A!CreateToken, A!Import, A!WriteToken, A!Install,
         A!TestDone, A!EnterPause, A!Crash
    <3> QED
      BY <3>1, Zenon
      DEF W!TokenClosed, P!TokenClosed, W!Report, P!Report, W!clock, P!clock
  <2>3. CASE ~(A!CreateToken /\ token' # token) /\ ~A!WriteToken
    <3>1. UNCHANGED waiter
      BY <1>2, <2>3 DEF Process
    <3>2. token' = token /\ (pc = "write")' = (pc = "write")
      BY <1>2, <2>3 DEF Process, A!CreateToken, A!Import, A!Install, A!TestDone, A!EnterPause,
         A!Crash, TokenOfThisBuild, AtGate
    <3> QED
      BY <3>1, <3>2 DEF waiter, P!vars, P!file, P!clock, P!queue
  <2> QED
    BY <2>1, <2>2, <2>3
<1>3. CASE ProcessKilled
  <2>1. CASE pc = "write"
    <3>1. W!TokenClosed
      BY <1>3, <2>1 DEF ProcessKilled, Noticed
    <3> QED
      BY <3>1, Zenon
      DEF W!TokenClosed, P!TokenClosed, W!Report, P!Report, W!clock, P!clock
  <2>2. CASE pc # "write"
    BY <1>3, <2>2 DEF ProcessKilled, waiter, P!vars, P!file, P!clock, P!queue
  <2> QED
    BY <2>1, <2>2
<1>4. CASE UNCHANGED vars
  BY <1>4 DEF vars, process, waiter, P!vars, P!file, P!clock, P!queue
<1>5. ~Paperwork
  BY PaperworkFrame
<1>6. ~Untoken /\ ~Run /\ ~Waited /\ ~Cleanup /\ ~Checkpoint /\ ~Interrupted
  BY DEF Untoken, Run, Waited, Raised, Cleanup, Checkpoint, Interrupted, Goto, Over
<1> QED
  BY <1>1, <1>2, <1>3, <1>4, <1>5, <1>6, Zenon DEF Next, Paperwork

(* The invariant of TokenWait holds of a wait that begins. *)
LEMMA FreshWait == P!Init => P!IInv
<1>1. P!TokenWaitAssumption
  BY SeedAssumption DEF P!TokenWaitAssumption
<1> QED
  BY <1>1, P!InitIInv

(* So a wait keeps the invariant of TokenWait, from its fresh beginning. *)
LEMMA NextWaits ==
  Waits /\ Idle /\ AtGate /\ TokenOfThisBuild /\ [Next]_vars => Waits'
<1> SUFFICES ASSUME Waits, Idle, AtGate, TokenOfThisBuild, [Next]_vars, step' = "wait"
             PROVE  P!IInv'
  BY DEF Waits
<1>0. P!TokenWaitAssumption
  BY SeedAssumption DEF P!TokenWaitAssumption
<1>1. CASE step = "wait"
  <2>1. P!IInv /\ [P!Next]_(P!vars)
    BY <1>1, WaitStep DEF Waits
  <2> QED
    BY <2>1, <1>0, P!NextIInv
<1>2. CASE step # "wait"
  <2>1. Run /\ A!Exec(TRUE, command)
    <3>1. ~Paperwork
      BY PaperworkFrame
    <3>2. ~Untoken /\ ~Wait /\ ~Waited /\ ~Cleanup /\ ~Checkpoint /\ ~Interrupted
      BY <1>2 DEF Untoken, Wait, Waited, Raised, Cleanup, Checkpoint, Interrupted, Goto, Over
    <3>3. ~Process /\ ~ProcessKilled /\ ~UNCHANGED vars
      BY <1>2 DEF Process, ProcessKilled, vars
    <3>4. Run
      BY <3>1, <3>2, <3>3, Zenon DEF Next, Paperwork
    <3> QED
      BY <3>4 DEF Run, Goto
  <2>2. W!Fresh /\ others = 0 /\ token \in BOOLEAN
    BY <1>2 DEF Idle, AtGate
  <2>3. UNCHANGED waiter /\ token' = token /\ (pc = "write")' = FALSE
    BY <2>1 DEF Run, A!Exec
  <2>4. P!Init'
    BY <2>2, <2>3 DEF W!Fresh, P!Fresh, P!Init, waiter
  <2>5. P!Init' => P!IInv'
    BY FreshWait, PTL
  <2> QED
    BY <2>4, <2>5
<1> QED
  BY <1>1, <1>2

(* The end of a wait, however it comes, leaves no waiter. *)
LEMMA NextIdle == Idle /\ Waits /\ [Next]_vars => Idle'
<1> SUFFICES ASSUME Idle, Waits, [Next]_vars, step' # "wait" PROVE (W!Fresh /\ others = 0)'
  BY DEF Idle
<1>1. ASSUME step # "wait", UNCHANGED waiter PROVE (W!Fresh /\ others = 0)'
  BY <1>1 DEF Idle, W!Fresh, waiter
<1>2. ASSUME others = 0, Forget PROVE (W!Fresh /\ others = 0)'
  BY <1>2 DEF Forget, W!Fresh
<1>3. step = "wait" => others = 0
  <2>1. P!Kinds /\ P!TokenWaitAssumption => others \in 0..0
    BY DEF P!Kinds, P!Counts
  <2>2. P!TokenWaitAssumption
    BY SeedAssumption DEF P!TokenWaitAssumption
  <2> QED
    BY <2>1, <2>2 DEF Waits, P!IInv
<1>4. CASE step # "wait"
  <2>1. UNCHANGED waiter
    <3>1. CASE Paperwork
      BY <3>1, PaperworkFrame
    <3>2. CASE Untoken \/ Run \/ Cleanup \/ Checkpoint
      BY <3>2, Zenon DEF Untoken, Run, Cleanup, Checkpoint
    <3>3. CASE Wait \/ Waited
      BY <1>4, <3>3 DEF Wait, Waited
    <3>4. CASE Process
      BY <1>4, <3>4, Zenon DEF Process, Noticed
    <3>5. CASE ProcessKilled
      BY <1>4, <3>5, Zenon DEF ProcessKilled, Noticed
    <3>6. CASE Interrupted
      BY <1>4, <3>6 DEF Interrupted
    <3>7. CASE UNCHANGED vars
      BY <3>7 DEF vars
    <3> QED
      BY <3>1, <3>2, <3>3, <3>4, <3>5, <3>6, <3>7, Zenon DEF Next, Paperwork
  <2> QED
    BY <1>1, <1>4, <2>1
<1>5. CASE step = "wait"
  <2>1. Forget
    <3>1. ~Paperwork
      BY <1>5, PaperworkFrame
    <3>2. ~Untoken /\ ~Run /\ ~Cleanup /\ ~Checkpoint /\ ~Wait /\ ~Process /\ ~ProcessKilled
      BY <1>5 DEF Untoken, Run, Cleanup, Checkpoint, Wait, Process, ProcessKilled
    <3>3. ~UNCHANGED vars
      BY <1>5 DEF vars
    <3>4. Waited \/ Interrupted
      BY <3>1, <3>2, <3>3, Zenon DEF Next, Paperwork
    <3> QED
      BY <1>5, <3>4 DEF Waited, Interrupted
  <2> QED
    BY <1>2, <1>3, <1>5, <2>1
<1> QED
  BY <1>4, <1>5

(* Every step of build() keeps its own types. *)
LEMMA NextBuildKinds == BuildKinds /\ [Next]_vars => BuildKinds'
<1> SUFFICES ASSUME BuildKinds, [Next]_vars PROVE BuildKinds'
  OBVIOUS
<1>0. MaxBuilds \in Nat
  BY SeedAssumption
<1> USE <1>0 DEF BuildKinds, Steps, Reasons, TempReasons, Over, bundle
<1>1. CASE Build
  <2>1. builds' \in 0..MaxBuilds /\ step' = "create" /\ command' = command /\ left' \subseteq left
    BY <1>1 DEF Build
  <2>2. temp' \in BOOLEAN
    BY <1>1, Zenon DEF Build
  <2> QED
    BY <2>1, <2>2
<1>2. CASE Create
  BY <1>2 DEF Create, Goto
<1>3. CASE Export
  BY <1>3 DEF Export, Goto
<1>4. CASE RemoveTemp
  BY <1>4 DEF RemoveTemp, Goto
<1>5. CASE InstallWrapper
  BY <1>5 DEF InstallWrapper, Goto
<1>6. CASE InspectImage
  BY <1>6 DEF InspectImage, Goto
<1>7. CASE WriteSpec
  BY <1>7 DEF WriteSpec, Goto
<1>8. CASE Untoken
  BY <1>8 DEF Untoken, Goto
<1>9. CASE Run
  BY <1>9 DEF Run, Goto, A!Exec
<1>10. CASE Wait
  BY <1>10 DEF Wait
<1>11. CASE Waited
  BY <1>11 DEF Waited, Raised, Goto
<1>12. CASE Cleanup
  BY <1>12 DEF Cleanup, Goto, Remove
<1>13. CASE Checkpoint
  BY <1>13 DEF Checkpoint, Goto, Remove, A!Live, A!Memory
<1>14. CASE Process
  BY <1>14 DEF Process
<1>15. CASE ProcessKilled
  BY <1>15 DEF ProcessKilled
<1>16. CASE Interrupted
  BY <1>16 DEF Interrupted, Goto
<1>17. CASE UNCHANGED vars
  BY <1>17 DEF vars
<1>18. CASE Created
  BY <1>18 DEF Created, Goto
<1> QED
  BY <1>1, <1>2, <1>3, <1>4, <1>5, <1>6, <1>7, <1>8, <1>9, <1>10, <1>11, <1>12, <1>13, <1>14,
     <1>15, <1>16, <1>17, <1>18, Zenon
  DEF Next

(* The token is removed before the process is started, and only that one makes it. *)
LEMMA NextTokenOfThisBuild ==
  TokenOfThisBuild /\ AtGate /\ BuildKinds /\ Waits /\ [Next]_vars => TokenOfThisBuild'
<1> SUFFICES ASSUME TokenOfThisBuild, AtGate, BuildKinds, Waits, [Next]_vars
             PROVE  TokenOfThisBuild'
  OBVIOUS
<1>0. MaxBuilds \in Nat
  BY SeedAssumption
<1> USE <1>0
    DEF TokenOfThisBuild, AtGate, BuildKinds, Steps, Reasons, A!Absent, A!Before, A!Live,
        bundle, process, waiter, Over
<1>1. CASE Build
  BY <1>1 DEF Build, Goto
<1>2. CASE Create
  BY <1>2 DEF Create, Goto
<1>3. CASE Export
  BY <1>3 DEF Export, Goto
<1>4. CASE RemoveTemp
  BY <1>4 DEF RemoveTemp, Goto
<1>5. CASE InstallWrapper
  BY <1>5 DEF InstallWrapper, Goto
<1>6. CASE InspectImage
  BY <1>6 DEF InspectImage, Goto
<1>7. CASE WriteSpec
  BY <1>7 DEF WriteSpec, Goto
<1>8. CASE Untoken
  BY <1>8 DEF Untoken, Goto
<1>9. CASE Run
  BY <1>9 DEF Run, Goto, A!Exec
<1>10. CASE Wait
  BY <1>10 DEF Wait
<1>11. CASE Waited
  <2>1. step = "wait" /\ step' \in {"checkpoint", "cleanup", "error"} /\ UNCHANGED process
    BY <1>11, Zenon DEF Waited, Raised, Goto
  <2>2. step' = "checkpoint" => token
    BY <1>11 DEF Waited, Raised, Goto, Waits, P!IInv, P!Honest, P!SeenMeansCreated
  <2> QED
    BY <2>1, <2>2
<1>12. CASE Cleanup
  BY <1>12 DEF Cleanup, Goto, Remove
<1>13. CASE Checkpoint
  BY <1>13 DEF Checkpoint, Goto, Remove, A!Live, A!Memory
<1>14. CASE Process
  <2>0. UNCHANGED <<bundle, step, builds, left>>
    BY <1>14 DEF Process
  <2>1. CASE A!Import
    BY <1>14, <2>0, <2>1 DEF Process, A!Import
  <2>2. CASE A!CreateToken
    BY <1>14, <2>0, <2>2 DEF Process, A!CreateToken
  <2>3. CASE A!WriteToken
    BY <1>14, <2>0, <2>3 DEF Process, A!WriteToken
  <2>4. CASE A!Install
    BY <1>14, <2>0, <2>4 DEF Process, A!Install
  <2>5. CASE A!TestDone
    BY <1>14, <2>0, <2>5 DEF Process, A!TestDone
  <2>6. CASE A!EnterPause
    BY <1>14, <2>0, <2>6 DEF Process, A!EnterPause
  <2>7. CASE A!Crash
    BY <1>14, <2>0, <2>7 DEF Process, A!Crash
  <2> QED
    BY <1>14, <2>1, <2>2, <2>3, <2>4, <2>5, <2>6, <2>7 DEF Process
<1>15. CASE ProcessKilled
  BY <1>15 DEF ProcessKilled
<1>16. CASE Interrupted
  BY <1>16 DEF Interrupted, Goto
<1>17. CASE UNCHANGED vars
  BY <1>17 DEF vars
<1>18. CASE Created
  BY <1>18 DEF Created, Goto
<1> QED
  BY <1>1, <1>2, <1>3, <1>4, <1>5, <1>6, <1>7, <1>8, <1>9, <1>10, <1>11, <1>12, <1>13, <1>14,
     <1>15, <1>16, <1>17, <1>18, Zenon
  DEF Next

(* Nothing but the steps of build() concerns docker create's container, and  *)
(* the reasons why it is left are forgotten only when the next build begins. *)
LEMMA NextTempAccounted == TempAccounted /\ BuildKinds /\ [Next]_vars => TempAccounted'
<1> SUFFICES ASSUME TempAccounted, BuildKinds, [Next]_vars PROVE TempAccounted'
  OBVIOUS
<1> USE DEF TempAccounted, TempReasons, bundle
<1>1. CASE Build
  BY <1>1 DEF Build
<1>2. CASE Create
  BY <1>2 DEF Create, Goto
<1>3. CASE Created \/ Export \/ InstallWrapper \/ WriteSpec
  BY <1>3 DEF Created, Export, InstallWrapper, WriteSpec, Goto
<1>4. CASE RemoveTemp
  BY <1>4 DEF RemoveTemp, Goto
<1>5. CASE InspectImage
  BY <1>5 DEF InspectImage, Goto
<1>6. CASE Untoken \/ Run
  <2>1. temp' = temp /\ step \in {"untoken", "run"} /\ step' # "create"
    BY <1>6 DEF Untoken, Run, Goto
  <2>2. \A r \in TempReasons : r \in left => r \in left'
    BY <1>6 DEF Untoken, Run, Reasons
  <2> QED
    BY <2>1, <2>2
<1>7. CASE Wait \/ Process \/ ProcessKilled
  BY <1>7 DEF Wait, Process, ProcessKilled
<1>8. CASE Waited
  BY <1>8 DEF Waited, Raised, Goto
<1>9. CASE Cleanup
  BY <1>9 DEF Cleanup, Goto
<1>10. CASE Checkpoint
  BY <1>10 DEF Checkpoint, Goto
<1>11. CASE Interrupted
  <2>1. left \subseteq left' /\ UNCHANGED temp
    BY <1>11 DEF Interrupted
  <2>2. CASE step = "created"
    BY <1>11, <2>2 DEF Interrupted, Goto
  <2>3. CASE step # "created"
    BY <1>11, <2>1, <2>3 DEF Interrupted, Goto
  <2> QED
    BY <2>2, <2>3
<1>12. CASE UNCHANGED vars
  BY <1>12 DEF vars
<1> QED
  BY <1>1, <1>2, <1>3, <1>4, <1>5, <1>6, <1>7, <1>8, <1>9, <1>10, <1>11, <1>12, Zenon
  DEF Next

(* A step that leaves the seed's container behind says why. *)
LEMMA NextAccounted == Accounted /\ BuildKinds /\ [Next]_vars => Accounted'
<1> SUFFICES ASSUME Accounted, BuildKinds, [Next]_vars PROVE Accounted'
  OBVIOUS
<1> USE DEF Accounted, Reasons
<1>1. CASE Build \/ Create \/ RemoveTemp
  <2>1. UNCHANGED pc /\ step \notin {"wait", "cleanup", "checkpoint"}
    BY <1>1 DEF Build, Create, RemoveTemp, process, Over
  <2>2. \A r \in Reasons : r \in left => r \in left'
    BY <1>1 DEF Build, Create, RemoveTemp, TempReasons
  <2> QED
    BY <2>1, <2>2
<1>2. CASE Created \/ Export \/ InstallWrapper \/ InspectImage \/ WriteSpec \/ Untoken
  BY <1>2 DEF Created, Export, InstallWrapper, InspectImage, WriteSpec, Untoken, Goto, process
<1>3. CASE Run
  BY <1>3 DEF Run, Goto, process
<1>4. CASE Wait
  BY <1>4 DEF Wait, process
<1>5. CASE Waited
  BY <1>5 DEF Waited, Raised, Goto, process
<1>6. CASE Cleanup
  BY <1>6 DEF Cleanup, Goto, Remove, process
<1>7. CASE Checkpoint
  BY <1>7 DEF Checkpoint, Goto, Remove, process
<1>8. CASE Process \/ ProcessKilled
  <2>1. pc # "absent" /\ UNCHANGED <<step, left>>
    BY <1>8 DEF Process, ProcessKilled, A!CreateToken, A!WriteToken, A!Import, A!Install,
       A!TestDone, A!EnterPause, A!Crash, A!Live, A!Absent
  <2> QED
    BY <2>1
<1>9. CASE Interrupted
  <2>1. UNCHANGED pc /\ left \subseteq left'
    BY <1>9 DEF Interrupted, process
  <2>2. pc # "absent" => "interrupt" \in left'
    BY <1>9 DEF Interrupted
  <2> QED
    BY <2>1, <2>2
<1>10. CASE UNCHANGED vars
  BY <1>10 DEF vars, process
<1> QED
  BY <1>1, <1>2, <1>3, <1>4, <1>5, <1>6, <1>7, <1>8, <1>9, <1>10, Zenon DEF Next

(* Only a dump makes a snapshot, of a process whose token was seen. *)
LEMMA NextSnapshotAtGate ==
  SnapshotAtGate /\ TokenOfThisBuild /\ AtGate /\ [Next]_vars => SnapshotAtGate'
<1> SUFFICES ASSUME SnapshotAtGate, TokenOfThisBuild, AtGate, [Next]_vars
             PROVE  SnapshotAtGate'
  OBVIOUS
<1>1. CASE UNCHANGED snapshot
  BY <1>1 DEF SnapshotAtGate, A!Captures, A!Unsettled, A!Parked, NoSnapshot
<1>2. CASE Checkpoint /\ A!Live /\ snapshot' = A!Memory
  <2>1. pc \notin {"absent", "ended", "import", "create"}
    BY <1>2 DEF Checkpoint, A!Live, A!Absent, TokenOfThisBuild
  <2>2. A!Memory \in A!Captures
    BY <1>2, <2>1
    DEF AtGate, A!Live, A!Absent, A!Before, A!Memory, A!Captures, A!Unsettled, A!Parked
  <2> QED
    BY <1>2, <2>2 DEF SnapshotAtGate, A!Captures, A!Unsettled, A!Parked
<1>3. UNCHANGED snapshot \/ Checkpoint
  BY DEF Next, vars, bundle, Build, Create, Export, RemoveTemp, InstallWrapper, InspectImage,
     WriteSpec, Created, Untoken, Run, Wait, Waited, Cleanup, Process, ProcessKilled,
     Interrupted
<1> QED
  BY <1>1, <1>2, <1>3 DEF Checkpoint

-----------------------------------------------------------------------------
(* Nothing has been built at first. *)
LEMMA InitIInv == Init => IInv
<1> SUFFICES ASSUME Init PROVE IInv
  OBVIOUS
<1>0. PollCap \in Nat /\ PollCap >= 1 /\ MaxBuilds \in Nat
  BY SeedAssumption
<1> USE <1>0 DEF Init, A!Init, W!Fresh, A!Absent
<1>1. AtGate
  BY DEF AtGate, A!Live
<1>2. Idle /\ Waits
  BY DEF Idle, Waits, W!Fresh
<1>3. step # "wait"
  OBVIOUS
<1>4. BuildKinds
  <2>1. temp \in BOOLEAN /\ command \in BOOLEAN
    BY Zenon
  <2>2. step = "idle" /\ builds = 0 /\ left = {}
    OBVIOUS
  <2> QED
    BY <2>1, <2>2 DEF BuildKinds, Steps
<1>5. TokenOfThisBuild /\ TempAccounted /\ Accounted /\ SnapshotAtGate
  BY DEF TokenOfThisBuild, TempAccounted, Accounted, SnapshotAtGate
<1> QED
  BY <1>1, <1>2, <1>3, <1>4, <1>5 DEF IInv

(* Every step preserves the invariant. *)
LEMMA NextIInv == IInv /\ [Next]_vars => IInv'
BY NextAtGate, NextIdle, NextWaits, NextBuildKinds, NextTokenOfThisBuild,
   NextTempAccounted, NextAccounted,
   NextSnapshotAtGate
DEF IInv

(* Every reachable state is described by the invariant. *)
THEOREM Invariance == Spec => []IInv
BY InitIInv, NextIInv, PTL DEF Spec

(* Every variable keeps its type; the clock of the wait stays within twice   *)
(* the timeout, whatever was built before, and the process is never told to  *)
(* go on.                                                                    *)
THEOREM TypeCorrect == Spec => []TypeOK
<1>1. IInv => TypeOK
  <2> SUFFICES ASSUME IInv PROVE TypeOK
    OBVIOUS
  <2>0. Timeout \in Nat /\ PollCap \in Nat /\ PollCap >= 1 /\ MaxLag \in Nat
    BY SeedAssumption
  <2>1. A!TypeOK
    <3>1. {tripped, done, token, sync, cmd} \subseteq BOOLEAN
      BY DEF IInv, AtGate
    <3> QED
      BY <3>1 DEF IInv, AtGate, A!TypeOK, A!PCs, A!Absent, A!Before, A!Waiting, A!After
  <2>2. W!TypeOK
    <3>1. CASE step # "wait"
      <4>1. {token, pc = "write", watching, named} \subseteq BOOLEAN
        BY <3>1 DEF IInv, AtGate, Idle, W!Fresh
      <4>2. 0 \in 0..W!Limit
        BY <2>0 DEF W!Limit
      <4> QED
        BY <3>1, <4>1, <4>2, <2>0 DEF IInv, Idle, W!Fresh, W!Places, W!TypeOK
    <3>2. CASE step = "wait"
      <4>1. P!TokenWaitAssumption
        BY SeedAssumption DEF P!TokenWaitAssumption
      <4>2. P!TypeOK
        BY <3>2, <4>1, P!KindsTypeOK DEF IInv, Waits
      <4> QED
        BY <4>2, Zenon DEF W!TypeOK, P!TypeOK, W!Limit, P!Limit, W!Places, P!Places
    <3> QED
      BY <3>1, <3>2
  <2>3. {temp, command} \subseteq BOOLEAN
    BY DEF IInv, BuildKinds
  <2>4. DOMAIN snapshot \in {DOMAIN NoSnapshot, DOMAIN A!Parked}
    BY DEF IInv, SnapshotAtGate, A!Captures, A!Unsettled, A!Parked, NoSnapshot
  <2> QED
    BY <2>1, <2>2, <2>3, <2>4 DEF IInv, BuildKinds, TypeOK
<1> QED
  BY Invariance, <1>1, PTL

(* What is checkpointed is always a process that has made its token in this  *)
(* build and is still at its gate, after any number of builds that failed or *)
(* were interrupted over the same directory.                                 *)
THEOREM SeedAtGate == Spec => []SnapshotAtGate
<1>1. IInv => SnapshotAtGate
  BY DEF IInv
<1> QED
  BY Invariance, <1>1, PTL

(* A build that is over leaves neither its container nor that of docker      *)
(* create behind, unless one of the named failures is to blame.              *)
THEOREM LeavesNothing == Spec => []NothingLeft
<1>1. IInv => NothingLeft
  <2> SUFFICES ASSUME IInv, step \in Over
               PROVE  /\ pc # "absent" => left \intersect Reasons # {}
                      /\ temp => left \intersect TempReasons # {}
    BY DEF NothingLeft
  <2>1. pc # "absent" => \E r \in Reasons : r \in left
    BY DEF IInv, Accounted, Over
  <2>2. temp => \E r \in TempReasons : r \in left
    BY DEF IInv, TempAccounted, Over
  <2> QED
    BY <2>1, <2>2
<1> QED
  BY Invariance, <1>1, PTL
=============================================================================

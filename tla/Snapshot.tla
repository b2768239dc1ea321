------------------------------ MODULE Snapshot ------------------------------
(***************************************************************************)
(* SnapshotCoordinator.run of satecode/monitor.py: checkpoint a task that  *)
(* somebody else has started, at its ready point, and tell it to go on.    *)
(* The task runs the wrapper (Agent).  The wait for the token is reduced   *)
(* to what TokenWait shows of it: it answers True only if the file is      *)
(* there, and False, or raises, at a time that has nothing to do with the  *)
(* task.                                                                   *)
(*                                                                         *)
(* The same task may be coordinated again, and a new one may be started    *)
(* over the same root file system.  Unlike SeedBuilder, the coordinator    *)
(* does not remove a token it finds.                                       *)
(***************************************************************************)
EXTENDS Naturals

CONSTANTS
  Reaches,  \* the one command that knows the task: "runc", "docker" or "task"
  MaxRuns   \* bound on the runs of the coordinator

Commands == {"runc", "docker", "task"}

ASSUME SnapshotAssumption == Reaches \in Commands /\ MaxRuns \in Nat \ {0}

VARIABLES
  pc, handler, tripped, done, token, sync, cmd, sent, starts,  \* see Agent
  step,      \* where run() is; "ok" and "error" are its ends
  resume,    \* the argument of run()
  taken,     \* the memory this run has dumped, or NoSnapshot
  runs,
  foreign,   \* history: the token seen was not this task's, or it had been told to go on
  early      \* history: the task was signalled before it blocked

A == INSTANCE Agent WITH InitProcess <- TRUE, MaxSignals <- MaxRuns

NoSnapshot == [pc |-> "none"]

process == <<pc, handler, tripped, done, token, sync, cmd, sent, starts>>
history == <<foreign, early>>
vars == <<process, step, resume, taken, runs, history>>

Over == {"ok", "error"}

TypeOK ==
  /\ A!TypeOK
  /\ step \in {"idle", "wait", "acquire", "check"} \union Commands \union Over
  /\ {resume, foreign, early} \subseteq BOOLEAN
  /\ DOMAIN taken \in {DOMAIN NoSnapshot, DOMAIN A!Parked}
  /\ runs \in 0..MaxRuns

Init ==
  /\ A!Init
  /\ step = "idle" /\ resume = FALSE /\ taken = NoSnapshot /\ runs = 0
  /\ foreign = FALSE /\ early = FALSE

Goto(s) == step' = s /\ UNCHANGED <<resume, runs>>

-----------------------------------------------------------------------------
(* A task is started where no other one is; the token file stays.            *)
NewTask ==
  /\ step \in {"idle"} \union Over
  /\ pc \in {"absent", "ended"}
  /\ pc' = "import" /\ handler' = "default" /\ tripped' = FALSE /\ done' = FALSE
  /\ sync' = TRUE /\ cmd' = TRUE /\ sent' = 0 /\ starts' = 0
  /\ foreign' = FALSE /\ early' = FALSE /\ taken' = NoSnapshot
  /\ UNCHANGED <<token, step, resume, runs>>

Run ==
  /\ step \in {"idle"} \union Over /\ runs < MaxRuns
  /\ step' = "wait" /\ resume' \in BOOLEAN /\ runs' = runs + 1
  /\ taken' = NoSnapshot /\ foreign' = FALSE
  /\ UNCHANGED <<process, early>>

(* A token that is there now says nothing about the task that runs now.      *)
NotThisTask == pc \in {"absent", "import", "create", "ended"} \/ sent > 0

(* A plausible bug: the answer of the wait is not looked at. *)
Wait_AnswerIgnored ==
  /\ step = "wait"
  /\ Goto("acquire")
  /\ foreign' = (token /\ NotThisTask)
  /\ UNCHANGED <<process, taken, early>>

Wait ==
  /\ step = "wait"
  /\ \/ /\ token /\ Goto("acquire")
        /\ foreign' = NotThisTask
     \/ Goto("error") /\ UNCHANGED foreign
  /\ UNCHANGED <<process, taken, early>>

(* A dump by runc ends the task and its container, unless --leave-running is *)
(* among the arguments; one by ctr leaves it running.                        *)
Dumped ==
  \/ UNCHANGED process
  \/ /\ pc' = "absent" /\ handler' = "default" /\ tripped' = FALSE /\ done' = FALSE
     /\ UNCHANGED <<token, sync, cmd, sent, starts>>

(* The command fails, or takes too long and is killed, in which case the     *)
(* dump may have happened all the same.                                      *)
Acquire ==
  /\ step = "acquire"
  /\ \/ A!Live /\ Dumped /\ taken' = A!Memory /\ Goto("check")
     \/ A!Live /\ Dumped /\ UNCHANGED taken /\ Goto("error")
     \/ UNCHANGED <<process, taken>> /\ Goto("error")
  /\ UNCHANGED history

(* _bundle_ok; the digest is computed before the task is told to go on.      *)
Check ==
  /\ step = "check"
  /\ \/ Goto(IF resume THEN "runc" ELSE "ok")
     \/ Goto("error")
  /\ UNCHANGED <<process, taken, history>>

Succ == [runc |-> "docker", docker |-> "task", task |-> "ok"]

(* A plausible bug: when all the commands have failed they are tried again. *)
Deliver_StartsOver ==
  /\ step \in Commands
  /\ LET next == IF step = "task" THEN "runc" ELSE Succ[step] IN
     \/ /\ step = Reaches /\ A!Live
        /\ A!Signal /\ early' = (early \/ pc # "paused")
        /\ Goto("ok") \/ Goto(next)
     \/ Goto(next) /\ UNCHANGED <<process, early>>
  /\ UNCHANGED <<taken, foreign>>

(* _deliver_signal tries its commands in turn until one returns 0.  The one  *)
(* that knows the task may be killed by its timeout after it has signalled;  *)
(* when all have failed, the RuntimeError is swallowed.                      *)
Deliver ==
  /\ step \in Commands
  /\ \/ /\ step = Reaches /\ A!Live
        /\ A!Signal /\ early' = (early \/ pc # "paused")
        /\ Goto("ok") \/ Goto(Succ[step])
     \/ Goto(Succ[step]) /\ UNCHANGED <<process, early>>
  /\ UNCHANGED <<taken, foreign>>

-----------------------------------------------------------------------------
Process ==
  /\ A!Step \/ A!Crash \/ A!Exit
  /\ UNCHANGED <<step, resume, taken, runs, history>>

Coordinator == Wait \/ Acquire \/ Check \/ Deliver

Next == NewTask \/ Run \/ Coordinator \/ Process

(* Every wait and every command of the coordinator has a timeout; the kernel *)
(* keeps scheduling the task.                                                *)
Spec ==
  /\ Init /\ [][Next]_vars
  /\ WF_vars(Coordinator) /\ WF_vars(A!Step /\ Process)

-----------------------------------------------------------------------------
(* Properties *)

(* A task that this run is the first to coordinate, and whose token is its   *)
(* own, is dumped after its imports and before it is let through the gate.   *)
SnapshotAtGate == foreign \/ taken \in A!Captures \union {NoSnapshot}

(* A task that was told to go on while it was blocked starts its             *)
(* application, or is gone.                                                  *)
ToldGoesOn == (sent > 0 /\ ~early) ~> (starts > 0 \/ pc \in {"absent", "ended"})
=============================================================================

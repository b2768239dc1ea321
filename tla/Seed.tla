-------------------------------- MODULE Seed --------------------------------
(***************************************************************************)
(* SeedBuilder.build of satecode/seed.py on the ground: export the image's *)
(* root file system, install the wrapper, run it under runc, wait for its  *)
(* token file and checkpoint it.  It composes the wrapper process (Agent)  *)
(* with the waiter (TokenWait): they share the token file, which is open   *)
(* for writing while the process is at "write".                            *)
(*                                                                         *)
(* Every docker, runc and file operation may fail, the build may be        *)
(* interrupted at any of its steps, between what a command did and the     *)
(* note the build takes of it too, and it may be run again over the same   *)
(* directory with the same container id, whatever was left there.          *)
(***************************************************************************)
EXTENDS Naturals

CONSTANTS
  Timeout, PollCap, MaxLag,  \* see TokenWait
  MaxBuilds                  \* bound on the runs of build()

VARIABLES
  pc, handler, tripped, done, token, sync, cmd, sent, starts,  \* see Agent
  wpc, watching, named, foreign, way, others, now, deadline, wake, interval,
  lag, result, since, born,                                    \* see TokenWait
  step,       \* where build() is; "ok" and "error" are its ends
  temp,       \* is there a container made by this build's docker create?
  command,    \* does the written config.json have a command for the wrapper?
  snapshot,   \* the memory in $BUNDLE/snapshot, or NoSnapshot
  builds,
  left        \* history: why a container is left, the seed's or docker create's

A == INSTANCE Agent WITH InitProcess <- TRUE, MaxSignals <- 1
W == INSTANCE TokenWait WITH MaxOther <- 0, writing <- pc = "write"

NoSnapshot == [pc |-> "none"]

ASSUME SeedAssumption ==
  /\ Timeout \in Nat \ {0} /\ PollCap \in Nat \ {0}
  /\ MaxLag \in Nat /\ MaxBuilds \in Nat

process == <<pc, handler, tripped, done, token, sync, cmd, sent, starts>>
waiter == <<wpc, watching, named, foreign, way, others, now, deadline, wake,
            interval, lag, result, since, born>>
bundle == <<temp, command, snapshot>>
vars == <<process, waiter, bundle, step, builds, left>>

Over == {"ok", "error"}
Steps == {"idle", "create", "created", "export", "rm", "rmError", "install", "inspect",
          "spec", "untoken", "run", "wait", "cleanup", "checkpoint"} \union Over

(* What leaves a container under the seed's id. *)
Reasons == {"checkpoint", "delete", "running", "interrupt", "raised"}

(* What leaves the container of docker create: nobody knows of it, or docker *)
(* rm fails.                                                                 *)
TempReasons == {"unknown", "rm"}

TypeOK ==
  /\ A!TypeOK /\ W!TypeOK
  /\ step \in Steps
  /\ {temp, command} \subseteq BOOLEAN
  /\ DOMAIN snapshot \in {DOMAIN NoSnapshot, DOMAIN A!Parked}
  /\ builds \in 0..MaxBuilds
  /\ left \subseteq TempReasons \union Reasons

Init ==
  /\ A!Init /\ W!Fresh /\ others = 0
  /\ step = "idle" /\ temp = FALSE /\ command = FALSE /\ snapshot = NoSnapshot
  /\ builds = 0 /\ left = {}

Goto(s) == step' = s /\ UNCHANGED builds

-----------------------------------------------------------------------------
(* Up to runc run. *)

Build ==
  /\ step \in {"idle"} \union Over /\ builds < MaxBuilds
  /\ step' = "create" /\ builds' = builds + 1
  /\ temp' = FALSE /\ left' = left \ TempReasons
  /\ UNCHANGED <<process, waiter, command, snapshot>>

(* A container is named instead of an image: nothing to create or remove.  A *)
(* docker create that fails may have made one.                               *)
Create ==
  /\ step = "create"
  /\ \/ temp' = TRUE /\ UNCHANGED left /\ Goto("created")
     \/ UNCHANGED <<temp, left>> /\ (Goto("export") \/ Goto("error"))
     \/ temp' = TRUE /\ left' = left \union {"unknown"} /\ Goto("error")
  /\ UNCHANGED <<process, waiter, command, snapshot>>

(* Only from here on does the finally clause know what to remove. *)
Created ==
  /\ step = "created"
  /\ Goto("export")
  /\ UNCHANGED <<process, waiter, bundle, left>>

(* docker export piped into tarfile; members that cannot be extracted are    *)
(* skipped.                                                                  *)
Export ==
  /\ step = "export"
  /\ Goto("rm") \/ Goto("rmError")
  /\ UNCHANGED <<process, waiter, bundle, left>>

(* The finally clause; what docker rm returns is ignored. *)
RemoveTemp ==
  /\ step \in {"rm", "rmError"}
  /\ \/ temp' = FALSE /\ UNCHANGED left
     \/ temp /\ UNCHANGED temp /\ left' = left \union {"rm"}
  /\ Goto(IF step = "rm" THEN "install" ELSE "error")
  /\ UNCHANGED <<process, waiter, command, snapshot>>

(* The agent is copied into the rootfs, and the token's directory made there. *)
InstallWrapper ==
  /\ step = "install"
  /\ Goto("inspect") \/ Goto("error")
  /\ UNCHANGED <<process, waiter, bundle, left>>

(* An image that cannot be inspected is one without entrypoint and command;  *)
(* what the caller passes overrides either.                                  *)
InspectImage ==
  /\ step = "inspect"
  /\ command' \in BOOLEAN /\ Goto("spec")
  /\ UNCHANGED <<process, waiter, temp, snapshot, left>>

(* The entrypoint and the command go into the wrapper's environment, with    *)
(* CHECKPOINT_ENABLED=1 and the token's path, replacing what the image has.  *)
WriteSpec ==
  /\ step = "spec"
  /\ Goto("untoken") \/ Goto("error")
  /\ UNCHANGED <<process, waiter, bundle, left>>

(* A plausible bug: the token of an earlier build stays where it is. *)
Untoken_Kept ==
  /\ step = "untoken"
  /\ UNCHANGED token /\ Goto("run")
  /\ UNCHANGED <<pc, handler, tripped, done, sync, cmd, sent, starts>>
  /\ UNCHANGED <<waiter, bundle, left>>

Untoken ==
  /\ step = "untoken"
  /\ \/ token' = FALSE /\ Goto("run")
     \/ token /\ UNCHANGED token /\ Goto("error")
  /\ UNCHANGED <<pc, handler, tripped, done, sync, cmd, sent, starts>>
  /\ UNCHANGED <<waiter, bundle, left>>

(* The container id must be free. *)
Run ==
  /\ step = "run"
  /\ \/ A!Exec(TRUE, command) /\ left' = left \ Reasons /\ Goto("wait")
     \/ UNCHANGED <<process, left>> /\ Goto("error")
  /\ UNCHANGED <<waiter, bundle>>

-----------------------------------------------------------------------------
(* _wait_ready, _cleanup, _checkpoint. *)

(* A plausible bug: the clock of a wait is kept for the next one. *)
Forget_StaleClock ==
  /\ wpc' = "check" /\ way' = "none" /\ result' = "none"
  /\ watching' = FALSE /\ named' = FALSE /\ foreign' = 0
  /\ since' = 0 /\ born' = "none" /\ lag' = 0
  /\ UNCHANGED <<now, deadline, wake, interval, others>>

(* A wait that is over leaves nothing to the next one. *)
Forget ==
  /\ wpc' = "check" /\ way' = "none" /\ result' = "none"
  /\ watching' = FALSE /\ named' = FALSE /\ foreign' = 0
  /\ since' = 0 /\ born' = "none" /\ lag' = 0
  /\ now' = 0 /\ deadline' = 0 /\ wake' = 0 /\ interval' = 1
  /\ UNCHANGED others

Wait ==
  /\ step = "wait"
  /\ UNCHANGED process
  /\ W!Waiter \/ W!Tick \/ W!Delay
  /\ UNCHANGED <<bundle, step, builds, left>>

(* The ValueError of _wait_token is caught nowhere: no cleanup. *)
Raised ==
  /\ result = "raised" /\ Goto("error")
  /\ left' = left \union {"raised"}

(* A plausible bug: a timeout raises at once, without the cleanup. *)
Waited_NoCleanup ==
  /\ step = "wait" /\ wpc = "done"
  /\ \/ result = "seen" /\ Goto("checkpoint") /\ UNCHANGED left
     \/ result = "timeout" /\ Goto("error") /\ UNCHANGED left
     \/ Raised
  /\ Forget
  /\ UNCHANGED <<process, bundle>>

(* A plausible bug: only a token ends the wait. *)
Waited_OnlySeen ==
  /\ step = "wait" /\ wpc = "done" /\ result = "seen"
  /\ Forget /\ Goto("checkpoint")
  /\ UNCHANGED <<process, bundle, left>>

Waited ==
  /\ step = "wait" /\ wpc = "done"
  /\ \/ result = "seen" /\ Goto("checkpoint") /\ UNCHANGED left
     \/ result = "timeout" /\ Goto("cleanup") /\ UNCHANGED left
     \/ Raised
  /\ Forget
  /\ UNCHANGED <<process, bundle>>

Remove ==
  /\ pc' = "absent" /\ handler' = "default" /\ tripped' = FALSE /\ done' = FALSE
  /\ UNCHANGED <<token, sync, cmd, sent, starts>>

(* runc delete --force, whatever it returns; then the TimeoutError. *)
Cleanup ==
  /\ step = "cleanup"
  /\ \/ Remove /\ UNCHANGED left
     \/ UNCHANGED process /\ left' = left \union {"delete"}
  /\ Goto("error")
  /\ UNCHANGED <<waiter, bundle>>

(* A dump ends the process and its container, or, under --leave-running,     *)
(* neither; what follows it may yet fail.  A failed one (the process may be  *)
(* gone) leaves them as they are, and so does build().                       *)
Checkpoint ==
  /\ step = "checkpoint"
  /\ \/ /\ A!Live /\ snapshot' = A!Memory
        /\ \/ Remove /\ UNCHANGED left
           \/ UNCHANGED process /\ left' = left \union {"running"}
        /\ Goto("ok") \/ Goto("error")
     \/ /\ UNCHANGED <<process, snapshot>>
        /\ left' = left \union {"checkpoint"} /\ Goto("error")
  /\ UNCHANGED <<waiter, temp, command>>

-----------------------------------------------------------------------------
(* The rest of the world. *)

(* What happens to the token concerns a waiter only while there is one. *)
Noticed(event) == IF step = "wait" THEN event ELSE UNCHANGED waiter

(* The process goes on to the gate, where nobody signals it; the watch sees  *)
(* it create and close the token file.                                       *)
Process ==
  /\ \/ A!CreateToken /\ IF token' = token THEN UNCHANGED waiter ELSE Noticed(W!TokenOpened)
     \/ A!WriteToken /\ Noticed(W!TokenClosed)
     \/ A!Import /\ UNCHANGED waiter
     \/ A!Install /\ UNCHANGED waiter
     \/ A!TestDone /\ UNCHANGED waiter
     \/ A!EnterPause /\ UNCHANGED waiter
     \/ A!Crash /\ UNCHANGED waiter
  /\ UNCHANGED <<bundle, step, builds, left>>

ProcessKilled ==
  /\ A!Live
  /\ pc' = "ended"
  /\ UNCHANGED <<handler, tripped, done, token, sync, cmd, sent, starts>>
  /\ IF pc = "write" THEN Noticed(W!TokenClosed) ELSE UNCHANGED waiter
  /\ UNCHANGED <<bundle, step, builds, left>>

(* Nothing catches a KeyboardInterrupt but the finally clause of the export, *)
(* which removes the container it knows of (one that hits docker rm itself   *)
(* is a failure of docker rm).                                               *)
Interrupted ==
  /\ step \notin {"idle", "rm", "rmError"} \union Over
  /\ Goto(IF step = "export" THEN "rmError" ELSE "error")
  /\ left' = left \union (IF step = "created" THEN {"unknown"} ELSE {})
                  \union (IF pc = "absent" THEN {} ELSE {"interrupt"})
  /\ IF step = "wait" THEN Forget ELSE UNCHANGED waiter
  /\ UNCHANGED <<process, bundle>>

Next ==
  \/ Build \/ Create \/ Created \/ Export \/ RemoveTemp \/ InstallWrapper \/ InspectImage
  \/ WriteSpec \/ Untoken \/ Run \/ Wait \/ Waited \/ Cleanup \/ Checkpoint
  \/ Process \/ ProcessKilled \/ Interrupted

(* Every command build() runs returns, and time passes. *)
Fairness ==
  /\ WF_vars(Create \/ Created \/ Export \/ RemoveTemp \/ InstallWrapper \/ InspectImage
             \/ WriteSpec \/ Untoken \/ Run \/ Waited \/ Cleanup \/ Checkpoint)
  /\ WF_vars(Wait)

Spec == Init /\ [][Next]_vars /\ Fairness

-----------------------------------------------------------------------------
(* Properties *)

(* What is checkpointed is a process that has finished its imports, has      *)
(* created its token in this build and has not been let through the gate:    *)
(* one of the captures from which Launcher restores.  A token of an earlier  *)
(* build never stands for it.                                                *)
SnapshotAtGate == snapshot \in A!Captures \union {NoSnapshot}

(* What a build that is over leaves behind, and why.  A container of the     *)
(* seed's id is there only because build() was asked for it, runc checkpoint *)
(* or runc delete failed, the wait raised, or build() was interrupted: a     *)
(* timeout cleans up after itself.  The container of docker create is there  *)
(* only because docker rm failed, or because docker create failed or was     *)
(* interrupted before its id was noted.                                      *)
NothingLeft ==
  step \in Over =>
    /\ pc # "absent" => left \intersect Reasons # {}
    /\ temp => left \intersect TempReasons # {}

(* A build ends, also when the process dies without writing its token.       *)
BuildEnds == step = "create" ~> step \in Over
=============================================================================

------------------------------- MODULE Agent -------------------------------
(***************************************************************************)
(* The wrapper process satecode/agent.py, the entry point of every seeded  *)
(* container: it imports what the application will need, stops at a gate   *)
(* where it can be checkpointed, and runs the application when SIGUSR1     *)
(* tells it to go on.  One action is one stretch of Python between two     *)
(* points at which the rest of the world (a signal, the host looking for   *)
(* the token file, a CRIU freeze) can tell the difference.                 *)
(*                                                                         *)
(* Signals follow CPython: the C-level handler only sets a flag (tripped); *)
(* the Python handler _h runs later, between two bytecodes or when a       *)
(* blocking call returns.  A process that is pid 1 of its pid namespace    *)
(* never sees a signal it has no handler for; any other process dies of    *)
(* SIGUSR1's default action.                                               *)
(*                                                                         *)
(* Seed and Launcher compose these actions, by INSTANCE over the same      *)
(* variables, with the host side; Spec below is the process alone, with    *)
(* anyone sending it at most MaxSignals signals.                           *)
(***************************************************************************)
EXTENDS Naturals

CONSTANTS
  InitProcess,  \* is the wrapper pid 1 of its namespace (seed.py's spec: yes)?
  MaxSignals    \* bound on the SIGUSR1s sent to one process

ASSUME AgentAssumption == InitProcess \in BOOLEAN /\ MaxSignals \in Nat

VARIABLES
  pc,       \* where the process is
  handler,  \* disposition of SIGUSR1: "default" or "gate" (the closure _h)
  tripped,  \* C-level flag: SIGUSR1 caught, _h not yet run
  done,     \* the gate's local variable
  token,    \* does the token file exist?
  sync,     \* CHECKPOINT_ENABLED=1 in the environment
  cmd,      \* is there anything to run in ORIGINAL_ENTRYPOINT + args?
  sent,     \* history: signals sent to this process
  starts    \* history: times the application was started

procVars == <<pc, handler, tripped, done>>
vars == <<pc, handler, tripped, done, token, sync, cmd, sent, starts>>

Absent == "absent"
Before == {"import", "create", "write", "install"}  \* no handler yet
Waiting == {"test", "enter", "paused", "woken"}      \* the while loop
After  == {"uninstall", "unlink", "launch"}         \* past the loop
PCs == {Absent, "app", "ended"} \union Before \union Waiting \union After

Live == pc \notin {Absent, "ended"}

TypeOK ==
  /\ pc \in PCs
  /\ handler \in {"default", "gate"}
  /\ {tripped, done, token, sync, cmd} \subseteq BOOLEAN
  /\ sent \in 0..MaxSignals
  /\ starts \in Nat

Init ==
  /\ pc = Absent /\ handler = "default" /\ tripped = FALSE /\ done = FALSE
  /\ token = FALSE /\ sync = FALSE /\ cmd = FALSE
  /\ sent = 0 /\ starts = 0

-----------------------------------------------------------------------------
(* The process comes and goes. *)

(* runc run: a fresh interpreter enters main(), which reads its environment. *)
Exec(s, c) ==
  /\ pc = Absent
  /\ pc' = "import" /\ handler' = "default" /\ tripped' = FALSE /\ done' = FALSE
  /\ sync' = s /\ cmd' = c /\ sent' = 0
  /\ UNCHANGED <<token, starts>>

(* _preload catches Exception only: a SystemExit raised by an imported       *)
(* module, or a crash of its native code, ends the process before the gate.  *)
Crash ==
  /\ pc = "import"
  /\ pc' = "ended"
  /\ UNCHANGED <<handler, tripped, done, token, sync, cmd, sent, starts>>

(* The application returns, or raises. *)
Exit ==
  /\ pc = "app"
  /\ pc' = "ended"
  /\ UNCHANGED <<handler, tripped, done, token, sync, cmd, sent, starts>>

-----------------------------------------------------------------------------
(* main() and _gate(). *)

(* Script lookup and _preload are over; the gate is taken only under sync. *)
Import ==
  /\ pc = "import"
  /\ pc' = IF sync THEN "create" ELSE "launch"
  /\ UNCHANGED <<handler, tripped, done, token, sync, cmd, sent, starts>>

(* write_text opens the token (creating it); an OSError is only logged. *)
CreateToken ==
  /\ pc = "create"
  /\ \/ pc' = "write" /\ token' = TRUE
     \/ pc' = "install" /\ UNCHANGED token
  /\ UNCHANGED <<handler, tripped, done, sync, cmd, sent, starts>>

(* The pid is written and the file closed. *)
WriteToken ==
  /\ pc = "write"
  /\ pc' = "install"
  /\ UNCHANGED <<handler, tripped, done, token, sync, cmd, sent, starts>>

Install ==
  /\ pc = "install"
  /\ handler' = "gate"
  /\ pc' = "test"
  /\ UNCHANGED <<tripped, done, token, sync, cmd, sent, starts>>

(* A plausible bug: the loop forgets its condition after one look. *)
TestDone_AlwaysLeaves ==
  /\ pc = "test"
  /\ pc' = "uninstall"
  /\ UNCHANGED <<handler, tripped, done, token, sync, cmd, sent, starts>>

(* while not done *)
TestDone ==
  /\ pc = "test"
  /\ pc' = IF done THEN "uninstall" ELSE "enter"
  /\ UNCHANGED <<handler, tripped, done, token, sync, cmd, sent, starts>>

(* The interpreter may run _h between two bytecodes of the loop. *)
RunHandler ==
  /\ pc \in {"test", "enter"}
  /\ tripped
  /\ tripped' = FALSE
  /\ done' = TRUE
  /\ UNCHANGED <<pc, handler, token, sync, cmd, sent, starts>>

(* signal.pause() blocks whatever was caught before the system call. *)
EnterPause ==
  /\ pc = "enter"
  /\ pc' = "paused"
  /\ UNCHANGED <<handler, tripped, done, token, sync, cmd, sent, starts>>

(* A plausible bug: the handler's assignment is lost (no nonlocal). *)
Wake_HandlerLocal ==
  /\ pc = "woken"
  /\ pc' = "test"
  /\ tripped' = FALSE
  /\ UNCHANGED <<handler, done, token, sync, cmd, sent, starts>>

(* pause() returns by running the Python handlers of what was caught. *)
Wake ==
  /\ pc = "woken"
  /\ pc' = "test"
  /\ done' = TRUE
  /\ tripped' = FALSE
  /\ UNCHANGED <<handler, token, sync, cmd, sent, starts>>

(* The old disposition comes back; a signal caught meanwhile is consumed. *)
Uninstall ==
  /\ pc = "uninstall"
  /\ handler' = "default"
  /\ tripped' = FALSE
  /\ pc' = "unlink"
  /\ UNCHANGED <<done, token, sync, cmd, sent, starts>>

(* An OSError of the unlink is ignored. *)
Unlink ==
  /\ pc = "unlink"
  /\ token' \in {token, FALSE}
  /\ pc' = "launch"
  /\ UNCHANGED <<handler, tripped, done, sync, cmd, sent, starts>>

(* The script is run in this process, or exec'd, or there is nothing to run. *)
StartApp ==
  /\ pc = "launch"
  /\ \/ cmd /\ pc' = "app" /\ starts' = starts + 1
     \/ ~cmd /\ pc' = "ended" /\ UNCHANGED starts
  /\ UNCHANGED <<handler, tripped, done, token, sync, cmd, sent>>

Step ==
  \/ Import \/ CreateToken \/ WriteToken \/ Install
  \/ TestDone \/ RunHandler \/ EnterPause \/ Wake
  \/ Uninstall \/ Unlink \/ StartApp

-----------------------------------------------------------------------------
(* SIGUSR1 reaches a live process. *)
Signal ==
  /\ Live
  /\ sent' = sent + 1
  /\ \/ /\ handler = "gate"
        /\ tripped' = TRUE
        /\ pc' = IF pc = "paused" THEN "woken" ELSE pc
     \/ /\ handler = "default"
        /\ pc' = IF InitProcess THEN pc ELSE "ended"
        /\ UNCHANGED tripped
  /\ UNCHANGED <<handler, done, token, sync, cmd, starts>>

Next ==
  \/ \E s, c \in BOOLEAN : Exec(s, c)
  \/ Crash
  \/ Exit
  \/ Step
  \/ sent < MaxSignals /\ Signal

(* The kernel keeps scheduling the process; the application need not end. *)
Spec == Init /\ [][Next]_vars /\ WF_vars(Step)

-----------------------------------------------------------------------------
(* What a checkpoint of the process holds (the token file is not part of    *)
(* it), and where the process can be when the host has seen its token.      *)
Memory == [pc |-> pc, handler |-> handler, tripped |-> tripped, done |-> done]

Parked == [pc |-> "paused", handler |-> "gate", tripped |-> FALSE, done |-> FALSE]

Unsettled ==
  [pc : {"write", "install"}, handler : {"default"}, tripped : {FALSE}, done : {FALSE}]
    \union
  [pc : {"test", "enter"}, handler : {"gate"}, tripped : {FALSE}, done : {FALSE}]

Captures == Unsettled \union {Parked}

-----------------------------------------------------------------------------
(* Properties *)

(* Under sync the application starts only after somebody sent SIGUSR1 to    *)
(* this process: the gate of _gate() holds however signals, the deferred    *)
(* Python handler and the loop's test interleave.                           *)
GateHolds == (sync /\ starts > 0) => sent > 0

(* A signal that finds the process blocked in signal.pause() is never lost: *)
(* main() goes on to start the application, unless there is nothing to run. *)
WokenStarts == pc = "woken" ~> (starts > 0 \/ (pc = "ended" /\ ~cmd))
=============================================================================

------------------------------ MODULE Launcher ------------------------------
(***************************************************************************)
(* launch.sh (the template _LAUNCH_TMPL of satecode/codegen.py) on the     *)
(* satellite: mount the image, stage the bundle, restore the checkpointed  *)
(* wrapper process and resume it with SIGUSR1, or fall back to a cold run  *)
(* of the same bundle.  The container's process is the Agent: restored     *)
(* from a capture of its memory, or executed afresh.                       *)
(*                                                                         *)
(* The script may be killed at any step and run again, the machine may     *)
(* reboot (the bundle and the overlay's upper directory are under /run),   *)
(* the process may be killed, and every runc or mount command may fail.    *)
(* Left out because nothing here depends on it: _prefetch (it only warms   *)
(* the page cache and ignores every failure) and _diag (it only writes a   *)
(* note).                                                                  *)
(***************************************************************************)
EXTENDS Naturals

CONSTANTS
  Sites,        \* the installations considered, see SiteType
  MaxLaunches   \* bound on the runs of launch.sh

VARIABLES
  pc, handler, tripped, done, token, sync, cmd, sent, starts,  \* see Agent
  site,      \* what is installed; never changes
  step,      \* where launch.sh is
  outcome,   \* how the last launch ended
  launches,
  mounted, overlay,  \* is $MNT, is $BUNDLE/rootfs a mount point?
  config,    \* $BUNDLE/config.json: "none", "gated", "plain" or "broken"
  linked,    \* is $BUNDLE/$SNAP linked into the image?
  unsed,     \* history: did the sed of this launch's _cold fail?
  misheard,  \* history: has this launch's runc kill failed after delivering?
  origin     \* what made the container: this launch, or an earlier one

A == INSTANCE Agent WITH InitProcess <- TRUE, MaxSignals <- 1

NoSnapshot == [pc |-> "none"]

(* image: the EROFS file; rootfs: a directory of that name in it; snapshot: *)
(* the memory checkpointed in it; cmd: the seeded image had a command.      *)
SiteType ==
  [runc : BOOLEAN, image : BOOLEAN, rootfs : BOOLEAN, cmd : BOOLEAN,
   snapshot : A!Captures \union {NoSnapshot}]

ASSUME LauncherAssumption ==
  Sites \subseteq SiteType /\ MaxLaunches \in Nat

process == <<pc, handler, tripped, done, token, sync, cmd, sent, starts>>
host == <<mounted, overlay, config, linked, unsed, misheard>>
vars == <<process, host, site, step, outcome, launches, origin>>

Steps == {"idle", "pre", "mount", "overlay", "stage", "delete", "restore",
          "resume", "observe", "coldDelete", "coldSed", "coldRun", "coldWait"}
Falling == {"coldDelete", "coldSed", "coldRun", "coldWait"}

TypeOK ==
  /\ A!TypeOK
  /\ site \in Sites
  /\ step \in Steps
  /\ outcome \in {"none", "warm", "cold", "failed", "interrupted"}
  /\ launches \in 0..MaxLaunches
  /\ {mounted, overlay, linked, unsed, misheard} \subseteq BOOLEAN
  /\ config \in {"none", "gated", "plain", "broken"}
  /\ origin \in {"none", "earlier", "restored", "cold"}

(* Nothing under /run, no process; the image's rootfs still holds the token *)
(* file that was there when the seed was checkpointed.                      *)
Init ==
  /\ pc = "absent" /\ handler = "default" /\ tripped = FALSE /\ done = FALSE
  /\ token = TRUE /\ sync = FALSE /\ cmd = FALSE /\ sent = 0 /\ starts = 0
  /\ mounted = FALSE /\ overlay = FALSE /\ config = "none" /\ linked = FALSE
  /\ unsed = FALSE /\ misheard = FALSE
  /\ step = "idle" /\ outcome = "none" /\ origin = "none"
  /\ site \in Sites /\ launches = 0

-----------------------------------------------------------------------------
(* From the first line to _stage. *)

Launch ==
  /\ step = "idle" /\ launches < MaxLaunches
  /\ step' = "pre" /\ outcome' = "none" /\ launches' = launches + 1
  /\ origin' = IF pc = "absent" THEN "none" ELSE "earlier"
  /\ starts' = IF pc = "absent" THEN 0 ELSE starts
  /\ unsed' = FALSE /\ misheard' = FALSE
  /\ UNCHANGED <<pc, handler, tripped, done, token, sync, cmd, sent, site>>
  /\ UNCHANGED <<mounted, overlay, config, linked>>

Goto(s) == step' = s /\ UNCHANGED <<outcome, launches, site>>

Pre ==
  /\ step = "pre"
  /\ Goto(IF site.image /\ site.runc THEN "mount" ELSE "coldDelete")
  /\ UNCHANGED <<process, host, origin>>

(* What is a mount point already stays one; a mount may fail. *)
MountImage ==
  /\ step = "mount"
  /\ mounted' \in {mounted, TRUE}
  /\ Goto(IF mounted' /\ site.rootfs THEN "overlay" ELSE "coldDelete")
  /\ UNCHANGED <<process, overlay, config, linked, unsed, misheard, origin>>

MountOverlay ==
  /\ step = "overlay"
  /\ overlay' \in {overlay, TRUE}
  /\ Goto(IF overlay' THEN "stage" ELSE "coldDelete")
  /\ UNCHANGED <<process, mounted, config, linked, unsed, misheard, origin>>

(* The failure of cp counts, and may leave half a file; that of ln does not. *)
Stage ==
  /\ step = "stage"
  /\ \/ config' = "gated" /\ linked' \in {linked, TRUE} /\ Goto("delete")
     \/ config' \in {config, "broken"} /\ UNCHANGED linked /\ Goto("coldDelete")
  /\ UNCHANGED <<process, mounted, overlay, unsed, misheard, origin>>

-----------------------------------------------------------------------------
(* _restore, _resume, _observe. *)

Remove ==
  /\ pc' = "absent" /\ handler' = "default" /\ tripped' = FALSE /\ done' = FALSE
  /\ sent' = 0
  /\ UNCHANGED <<token, sync, cmd>>

(* runc delete --force; its failure is ignored, in _restore as in _cold. *)
DeleteContainer ==
  \/ UNCHANGED <<process, origin>>
  \/ /\ pc # "absent"
     /\ Remove
     /\ origin' = IF origin = "earlier" THEN "none" ELSE origin
     /\ starts' = IF origin = "earlier" THEN 0 ELSE starts

Delete == step = "delete" /\ DeleteContainer /\ Goto("restore") /\ UNCHANGED host

Restored ==
  /\ pc = "absent" /\ linked /\ site.snapshot # NoSnapshot
  /\ pc' = site.snapshot.pc /\ handler' = site.snapshot.handler
  /\ tripped' = site.snapshot.tripped /\ done' = site.snapshot.done
  /\ sync' = TRUE /\ cmd' = site.cmd /\ sent' = 0
  /\ UNCHANGED <<token, starts>>
  /\ origin' = "restored"

(* A plausible bug: the restore's return code is not looked at. *)
Restore_RcIgnored ==
  /\ step = "restore"
  /\ Restored \/ UNCHANGED <<process, origin>>
  /\ Goto("resume")
  /\ UNCHANGED host

(* runc restore needs a free container id and the checkpoint's images; if it *)
(* fails, the process may be there all the same.                            *)
Restore ==
  /\ step = "restore"
  /\ \/ Restored /\ Goto("resume")
     \/ (Restored \/ UNCHANGED <<process, origin>>) /\ Goto("coldDelete")
  /\ UNCHANGED host

(* A plausible bug: what runc kill returns is not looked at. *)
Resume_RcIgnored ==
  /\ step = "resume"
  /\ A!Signal \/ UNCHANGED process
  /\ Goto("observe")
  /\ UNCHANGED <<host, origin>>

(* runc kill delivers, or does not, or delivers and still reports a failure; *)
(* only its return code is looked at.                                       *)
Resume ==
  /\ step = "resume"
  /\ \/ A!Signal /\ UNCHANGED misheard /\ Goto("observe")
     \/ A!Signal /\ misheard' = TRUE /\ Goto("coldDelete")
     \/ UNCHANGED <<process, misheard>> /\ Goto("coldDelete")
  /\ UNCHANGED <<mounted, overlay, config, linked, unsed, origin>>

Finish(o) == step' = "idle" /\ outcome' = o /\ UNCHANGED <<launches, site>>

(* A plausible bug: a state that cannot be read makes the launch fall back. *)
Observe_FallsBack ==
  /\ step = "observe"
  /\ Finish("warm") \/ Goto("coldDelete")
  /\ UNCHANGED <<process, host, origin>>

(* Whatever runc state says is only logged. *)
Observe ==
  /\ step = "observe"
  /\ Finish("warm")
  /\ UNCHANGED <<process, host, origin>>

-----------------------------------------------------------------------------
(* _cold. *)

ColdDelete ==
  step = "coldDelete" /\ DeleteContainer /\ Goto("coldSed") /\ UNCHANGED host

(* A plausible bug: the substitution is gone. *)
ColdSed_Missing ==
  /\ step = "coldSed"
  /\ Goto("coldRun")
  /\ UNCHANGED <<process, host, origin>>

(* The failure of sed is ignored. *)
ColdSed ==
  /\ step = "coldSed"
  /\ \/ config' = (IF config = "gated" THEN "plain" ELSE config) /\ UNCHANGED unsed
     \/ UNCHANGED config /\ unsed' = TRUE
  /\ Goto("coldRun")
  /\ UNCHANGED <<process, mounted, overlay, linked, misheard, origin>>

(* runc run in the foreground: needs a free id, a configuration, a rootfs. *)
ColdRun ==
  /\ step = "coldRun"
  /\ \/ /\ pc = "absent" /\ site.runc /\ overlay /\ config \in {"gated", "plain"}
        /\ A!Exec(config = "gated", site.cmd)
        /\ origin' = "cold"
        /\ Goto("coldWait")
     \/ Finish("failed") /\ UNCHANGED <<process, origin>>
  /\ UNCHANGED host

(* It returns, and deletes the container, when the process has ended. *)
ColdWait ==
  /\ step = "coldWait" /\ pc = "ended"
  /\ Remove /\ UNCHANGED starts
  /\ Finish("cold")
  /\ UNCHANGED <<host, origin>>

Script ==
  \/ Pre \/ MountImage \/ MountOverlay \/ Stage
  \/ Delete \/ Restore \/ Resume \/ Observe
  \/ ColdDelete \/ ColdSed \/ ColdRun \/ ColdWait

-----------------------------------------------------------------------------
(* The rest of the world. *)

Process ==
  /\ A!Step \/ A!Crash \/ A!Exit
  /\ UNCHANGED <<host, site, step, outcome, launches, origin>>

ProcessKilled ==
  /\ A!Live
  /\ pc' = "ended"
  /\ UNCHANGED <<handler, tripped, done, token, sync, cmd, sent, starts>>
  /\ UNCHANGED <<host, site, step, outcome, launches, origin>>

ScriptKilled ==
  /\ step # "idle"
  /\ Finish("interrupted")
  /\ UNCHANGED <<process, host, origin>>

Reboot ==
  /\ pc' = "absent" /\ handler' = "default" /\ tripped' = FALSE /\ done' = FALSE
  /\ token' = TRUE /\ sync' = FALSE /\ cmd' = FALSE /\ sent' = 0 /\ starts' = 0
  /\ mounted' = FALSE /\ overlay' = FALSE /\ config' = "none" /\ linked' = FALSE
  /\ unsed' = FALSE /\ misheard' = FALSE
  /\ step' = "idle" /\ outcome' = "none" /\ origin' = "none"
  /\ UNCHANGED <<site, launches>>

Next ==
  \/ Launch \/ Script \/ Process
  \/ ProcessKilled \/ ScriptKilled \/ Reboot

(* The script and the process keep being scheduled while they can go on;     *)
(* nothing need ever be launched, killed or rebooted, and applications need *)
(* not end.                                                                 *)
Fairness ==
  /\ WF_vars(Script)
  /\ WF_vars(A!Step /\ UNCHANGED <<host, site, step, outcome, launches, origin>>)

Spec == Init /\ [][Next]_vars /\ Fairness

-----------------------------------------------------------------------------
(* Properties *)

(* One launch never runs the application twice, whatever fails, and when,    *)
(* but for one case the script cannot tell: runc kill has delivered the      *)
(* signal and then reports a failure.  Then it runs once restored and once   *)
(* cold at the most.                                                         *)
MayStart == IF misheard THEN 2 ELSE 1
AtMostOneStart == origin # "earlier" => starts <= MayStart

(* Exit 0 with "restored and resumed" is said only when the application is   *)
(* on its way: the signal has been noticed by a wrapper that will act on it  *)
(* (or that was killed since).  True only of settled checkpoints.            *)
WarmIsReleased ==
  outcome = "warm" =>
    done \/ pc \in {"woken", "ended"} \/ (tripped /\ pc # "paused")

(* The process was checkpointed while it was blocked in signal.pause().      *)
Settled == site.snapshot \in {A!Parked, NoSnapshot}

(* A launch of a settled checkpoint that says "restored and resumed" has     *)
(* woken the wrapper for good: no signal is lost on the way from restore to  *)
(* pause().                                                                  *)
SettledIsReleased == Settled => WarmIsReleased

(* Nobody signals a cold container, so it must not stop at the gate: the     *)
(* configuration it runs has CHECKPOINT_ENABLED=0, whatever was staged, half *)
(* staged or rewritten by this launch or an interrupted one before it.  Only *)
(* a failure of its own sed lets it stop there.                              *)
ColdIsNotGated == (origin = "cold" /\ ~unsed) => ~sync

(* SIGUSR1 goes only to the process this launch has restored, never to a     *)
(* container of the same id that an earlier launch left behind.              *)
ResumesOwnProcess == [][sent' > sent => origin = "restored"]_vars

(* A launch of a settled checkpoint gets the application started, warm or    *)
(* cold, unless sed fails or the cold run cannot start, the process dies, or *)
(* somebody stops the script or machine.                                     *)
Served == origin \in {"restored", "cold"} /\ starts > 0
Excused ==
  \/ outcome \in {"failed", "interrupted"}
  \/ step = "idle" /\ outcome = "none"
  \/ pc = "ended" \/ unsed
LaunchServes == (step = "pre" /\ Settled) ~> (Served \/ Excused)

(* README: the launcher falls back to the cold start upon failure.  When     *)
(* runc is there and the image is mounted, the fallback has a bundle to run. *)
FallbackHasBundle ==
  (step = "coldRun" /\ site.runc /\ mounted /\ site.rootfs) => config # "none"

(* launch.sh keeps the promise of Startup: warm or cold, both only when the  *)
(* answer to the release was lost, and it says which it was.                 *)
Promise == INSTANCE Startup WITH
  phase <- IF step = "idle" THEN "idle" ELSE IF step \in Falling THEN "cold" ELSE "warm",
  right <- IF origin = "restored" /\ (sent > 0 \/ misheard) THEN "warm"
           ELSE IF origin = "cold" THEN "cold" ELSE "none",
  lost <- misheard,
  begun <- IF origin \in {"restored", "cold"} THEN starts ELSE 0,
  report <- outcome
KeepsPromise == Promise!Spec
=============================================================================

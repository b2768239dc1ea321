------------------------------ MODULE Startup ------------------------------
(***************************************************************************)
(* What one run of launch.sh promises about the application, without       *)
(* saying how: the right to start it is given first to the restored        *)
(* container, and to a cold one only by a launch that does not know of     *)
(* having released the restored one; the application starts only under a   *)
(* right, once, or twice if both were given; the launch reports what it    *)
(* did.  Both are given only when the answer to the release was lost.      *)
(*                                                                         *)
(* Launcher implements this specification (property Launcher!Promise).     *)
(***************************************************************************)
EXTENDS Naturals

VARIABLES
  phase,    \* "idle", "warm" (trying to restore) or "cold" (falling back)
  right,    \* who may start the application: "none", "warm" or "cold"
  lost,     \* did the release take place without the launch knowing of it?
  begun,    \* how often the current launch has had the application started
  report    \* what the last launch said: "none", "warm", "cold", "failed", ...

vars == <<phase, right, lost, begun, report>>

Init ==
  phase = "idle" /\ right = "none" /\ lost = FALSE /\ begun = 0 /\ report = "none"

(* Whatever an earlier launch left behind does not count for this one. *)
Begin ==
  /\ phase = "idle"
  /\ phase' = "warm" /\ right' = "none" /\ lost' = FALSE /\ begun' = 0
  /\ report' = "none"

Release ==
  /\ phase = "warm" /\ right = "none"
  /\ right' = "warm"
  /\ UNCHANGED <<phase, lost, begun, report>>

(* The restored container is released, the launch is told that it is not. *)
ReleaseUnknown ==
  /\ phase = "warm" /\ right = "none"
  /\ right' = "warm" /\ lost' = TRUE /\ phase' = "cold"
  /\ UNCHANGED <<begun, report>>

GiveUp ==
  /\ phase = "warm" /\ right = "none"
  /\ phase' = "cold"
  /\ UNCHANGED <<right, lost, begun, report>>

Fallback ==
  /\ phase = "cold" /\ (right = "none" \/ (right = "warm" /\ lost))
  /\ right' = "cold"
  /\ UNCHANGED <<phase, lost, begun, report>>

(* The container that holds the right gets to the application. *)
Start ==
  /\ right # "none"
  /\ begun < (IF lost /\ right = "cold" THEN 2 ELSE 1)
  /\ begun' = begun + 1
  /\ UNCHANGED <<phase, right, lost, report>>

(* A launch that falls back and cannot says so, whatever it had released. *)
Report ==
  /\ \/ phase = "warm" /\ right = "warm" /\ report' = "warm"
     \/ phase = "cold" /\ report' = IF right = "cold" THEN "cold" ELSE "failed"
  /\ phase' = "idle"
  /\ UNCHANGED <<right, lost, begun>>

(* The script is killed: nothing it has done is undone. *)
Interrupt ==
  /\ phase # "idle"
  /\ phase' = "idle" /\ report' = "interrupted"
  /\ UNCHANGED <<right, lost, begun>>

(* The machine restarts: nothing is left. *)
Reboot ==
  phase' = "idle" /\ right' = "none" /\ lost' = FALSE /\ begun' = 0 /\ report' = "none"

Next ==
  \/ Begin \/ Release \/ ReleaseUnknown \/ GiveUp \/ Fallback \/ Start \/ Report
  \/ Interrupt \/ Reboot

Spec == Init /\ [][Next]_vars
=============================================================================

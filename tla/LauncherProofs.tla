--------------------------- MODULE LauncherProofs ---------------------------
(***************************************************************************)
(* Proofs about launch.sh for any set of installations, any number of      *)
(* launches, and checkpoints taken anywhere the seed can be frozen once    *)
(* its token can be seen (Agent!Captures).                                 *)
(***************************************************************************)
EXTENDS Launcher, TLAPS

(* The steps at which nothing of this launch's own exists yet. *)
Opening == {"pre", "mount", "overlay", "stage", "delete", "restore"}

(* Where the script is tells what container there can be, and whether the   *)
(* answer to a release can have been lost.                                   *)
Ways ==
  /\ step \in Opening => (origin \in {"none", "earlier"} /\ ~misheard)
  /\ step = "resume" => (origin = "restored" /\ sent = 0 /\ ~misheard)
  /\ step = "observe" => (origin = "restored" /\ sent = 1 /\ ~misheard)
  /\ step \in {"coldDelete", "coldSed", "coldRun"} =>
       (origin # "cold" /\ (origin = "restored" => (sent = 0 \/ misheard)))
  /\ step = "coldWait" => origin = "cold"
  /\ misheard => origin \in {"restored", "cold"}

(* What this launch has not created has started nothing for it. *)
Owned ==
  /\ origin = "none" => (pc = "absent" /\ starts = 0)
  /\ origin = "earlier" => pc # "absent"

(* A process starts the application once, when it leaves main(); a cold one  *)
(* finds it started before only when the answer to the release was lost.     *)
Once ==
  /\ origin = "restored" =>
       starts \in {0, 1} /\ ((A!Live /\ pc # "app") => starts = 0)
  /\ origin = "cold" =>
       starts \in 0..MayStart /\ ((A!Live /\ pc # "app") => starts < MayStart)

(* A restored process that has not been signalled is still at the gate. *)
Gated ==
  (origin = "restored" /\ sent = 0 /\ ~misheard) =>
    /\ starts = 0 /\ tripped = FALSE /\ done = FALSE
    /\ pc \in {"absent", "write", "install", "test", "enter", "paused", "ended"}

(* A cold run never uses the configuration that was staged for the restore. *)
Plain ==
  ~unsed =>
    /\ step = "coldRun" => config # "gated"
    /\ origin = "cold" => sync = FALSE

(* A launch reports "warm" right after the signal, and touches nothing then. *)
Warm == outcome = "warm" => (step = "idle" /\ origin = "restored" /\ sent = 1)

(* A process frozen in signal.pause() stays there until it is signalled, and *)
(* is on its way for good from then on.                                      *)
Freed ==
  (Settled /\ origin = "restored") =>
    /\ sent = 0 => (pc \in {"absent", "paused", "ended"} /\ (pc = "paused" => handler = "gate"))
    /\ sent = 1 => (done \/ pc \in {"woken", "ended"})

Parts == Ways /\ Owned /\ Once /\ Gated /\ Plain /\ Warm /\ Freed
IInv == TypeOK /\ Parts

-----------------------------------------------------------------------------
(* The checkpoints from which the launcher restores hold a wrapper that has *)
(* created its token and has not been signalled.                            *)
LEMMA SnapshotFacts ==
  ASSUME site \in Sites, site.snapshot # NoSnapshot
  PROVE  /\ site.snapshot.pc \in {"write", "install", "test", "enter", "paused"}
         /\ site.snapshot.handler \in {"default", "gate"}
         /\ site.snapshot.tripped = FALSE /\ site.snapshot.done = FALSE
<1>1. site \in SiteType
  BY LauncherAssumption
<1>2. site.snapshot \in A!Captures
  BY <1>1 DEF SiteType
<1> DEFINE m == site.snapshot
<1>3. CASE m \in [pc : {"write", "install"}, handler : {"default"},
                 tripped : {FALSE}, done : {FALSE}]
  BY <1>2, <1>3
<1>4. CASE m \in [pc : {"test", "enter"}, handler : {"gate"},
                 tripped : {FALSE}, done : {FALSE}]
  BY <1>2, <1>4
<1>5. CASE m = A!Parked
  BY <1>2, <1>5 DEF A!Parked
<1> QED
  BY <1>2, <1>3, <1>4, <1>5 DEF A!Captures, A!Unsettled

(* An installation has a command or not.                                     *)
LEMMA SiteFacts == ASSUME site \in Sites PROVE site.cmd \in BOOLEAN
<1>1. site \in SiteType
  BY LauncherAssumption
<1> QED
  BY <1>1 DEF SiteType

(* The initial state satisfies the invariant. *)
LEMMA InitIInv == Init => IInv
<1> SUFFICES ASSUME Init PROVE IInv
  OBVIOUS
<1>1. A!TypeOK
  <2>1. sent \in 0..1 /\ starts \in Nat
    BY DEF Init
  <2>2. {tripped, done, token, sync, cmd} \subseteq BOOLEAN
    BY DEF Init
  <2> QED
    BY <2>1, <2>2 DEF Init, A!TypeOK, A!PCs, A!Absent
<1>2. TypeOK
  <2>1. launches \in 0..MaxLaunches
    BY LauncherAssumption DEF Init
  <2>2. {mounted, overlay, linked, unsed, misheard} \subseteq BOOLEAN
    BY DEF Init
  <2> QED
    BY <1>1, <2>1, <2>2 DEF Init, TypeOK, Steps
<1>3. Parts
  BY DEF Init, Parts, Ways, Owned, Once, Gated, Plain, Warm, Freed, Opening, MayStart, A!Live, A!Absent
<1> QED
  BY <1>2, <1>3 DEF IInv

-----------------------------------------------------------------------------
(* The types, by kind of value.                                              *)
Flags == {tripped, done, token, sync, cmd, mounted, overlay, linked, unsed, misheard} \subseteq BOOLEAN
Counts == sent \in 0..1 /\ starts \in Nat /\ launches \in 0..MaxLaunches
Places ==
  /\ pc \in A!PCs /\ handler \in {"default", "gate"}
  /\ site \in Sites /\ step \in Steps
  /\ outcome \in {"none", "warm", "cold", "failed", "interrupted"}
  /\ config \in {"none", "gated", "plain", "broken"}
  /\ origin \in {"none", "earlier", "restored", "cold"}

(* The type invariant is the conjunction of the three.                       *)
LEMMA TypeKinds == TypeOK <=> Flags /\ Counts /\ Places
<1>1. TypeOK => Flags /\ Counts /\ Places
  BY DEF TypeOK, A!TypeOK, Flags, Counts, Places
<1>2. Flags /\ Counts /\ Places => TypeOK
  <2> SUFFICES ASSUME Flags, Counts, Places PROVE TypeOK
    OBVIOUS
  <2>1. {tripped, done, token, sync, cmd} \subseteq BOOLEAN
        /\ {mounted, overlay, linked, unsed, misheard} \subseteq BOOLEAN
    BY DEF Flags
  <2> QED
    BY <2>1 DEF TypeOK, A!TypeOK, Counts, Places
<1> QED
  BY <1>1, <1>2

(* Every step keeps the types: a process is signalled at most once, because  *)
(* the script resumes only what it has just restored.                       *)
LEMMA NextKinds == IInv /\ [Next]_vars => (Flags /\ Counts /\ Places)'
<1> SUFFICES ASSUME IInv, [Next]_vars PROVE Flags' /\ Counts' /\ Places'
  OBVIOUS
<1>0. Flags /\ Counts /\ Places /\ Ways
  BY TypeKinds DEF IInv, Parts
<1> USE DEF A!PCs, A!Absent, A!Before, A!Waiting, A!After, Steps, Goto, Finish,
            host, process
<1>1. CASE Launch
  <2>1. Flags'
    BY <1>0, <1>1 DEF Launch, Flags
  <2>2. Counts'
    BY <1>0, LauncherAssumption, <1>1 DEF Launch, Counts
  <2>3. Places'
    BY <1>0, <1>1 DEF Launch, Places
  <2> QED
    BY <2>1, <2>2, <2>3
<1>2. CASE Pre
  <2>1. Flags'
    BY <1>0, <1>2 DEF Pre, Flags
  <2>2. Counts'
    BY <1>0, <1>2 DEF Pre, Counts
  <2>3. Places'
    BY <1>0, <1>2 DEF Pre, Places
  <2> QED
    BY <2>1, <2>2, <2>3
<1>3. CASE MountImage
  <2>1. Flags'
    BY <1>0, <1>3 DEF MountImage, Flags
  <2>2. Counts'
    BY <1>0, <1>3 DEF MountImage, Counts
  <2>3. Places'
    BY <1>0, <1>3 DEF MountImage, Places
  <2> QED
    BY <2>1, <2>2, <2>3
<1>4. CASE MountOverlay
  <2>1. Flags'
    BY <1>0, <1>4 DEF MountOverlay, Flags
  <2>2. Counts'
    BY <1>0, <1>4 DEF MountOverlay, Counts
  <2>3. Places'
    BY <1>0, <1>4 DEF MountOverlay, Places
  <2> QED
    BY <2>1, <2>2, <2>3
<1>5. CASE Stage
  <2>1. Flags'
    BY <1>0, <1>5 DEF Stage, Flags
  <2>2. Counts'
    BY <1>0, <1>5 DEF Stage, Counts
  <2>3. Places'
    BY <1>0, <1>5 DEF Stage, Places
  <2> QED
    BY <2>1, <2>2, <2>3
<1>6. CASE Delete
  <2>1. Flags'
    BY <1>0, <1>6 DEF Delete, DeleteContainer, Remove, Flags
  <2>2. Counts'
    BY <1>0, <1>6 DEF Delete, DeleteContainer, Remove, Counts
  <2>3. Places'
    BY <1>0, <1>6 DEF Delete, DeleteContainer, Remove, Places
  <2> QED
    BY <2>1, <2>2, <2>3
<1>7. CASE Restore
  <2>1. Flags'
    BY <1>0, SnapshotFacts, SiteFacts, <1>7 DEF Restore, Restored, Flags, Places
  <2>2. Counts'
    BY <1>0, <1>7 DEF Restore, Restored, Counts
  <2>3. Places'
    BY <1>0, SnapshotFacts, <1>7 DEF Restore, Restored, Places
  <2> QED
    BY <2>1, <2>2, <2>3
<1>8. CASE Resume
  <2>1. Flags'
    BY <1>0, <1>8 DEF Resume, A!Signal, A!Live, Ways, Flags
  <2>2. Counts'
    BY <1>0, <1>8 DEF Resume, A!Signal, A!Live, Ways, Counts
  <2>3. Places'
    BY <1>0, <1>8 DEF Resume, A!Signal, A!Live, Ways, Places
  <2> QED
    BY <2>1, <2>2, <2>3
<1>9. CASE Observe
  <2>1. Flags'
    BY <1>0, <1>9 DEF Observe, Flags
  <2>2. Counts'
    BY <1>0, <1>9 DEF Observe, Counts
  <2>3. Places'
    BY <1>0, <1>9 DEF Observe, Places
  <2> QED
    BY <2>1, <2>2, <2>3
<1>10. CASE ColdDelete
  <2>1. Flags'
    BY <1>0, <1>10 DEF ColdDelete, DeleteContainer, Remove, Flags
  <2>2. Counts'
    BY <1>0, <1>10 DEF ColdDelete, DeleteContainer, Remove, Counts
  <2>3. Places'
    BY <1>0, <1>10 DEF ColdDelete, DeleteContainer, Remove, Places
  <2> QED
    BY <2>1, <2>2, <2>3
<1>11. CASE ColdSed
  <2>1. Flags'
    BY <1>0, <1>11 DEF ColdSed, Flags
  <2>2. Counts'
    BY <1>0, <1>11 DEF ColdSed, Counts
  <2>3. Places'
    BY <1>0, <1>11 DEF ColdSed, Places
  <2> QED
    BY <2>1, <2>2, <2>3
<1>12. CASE ColdRun
  <2>1. Flags'
    <3>1. site.cmd \in BOOLEAN /\ (config = "gated") \in BOOLEAN
      BY <1>0, SiteFacts DEF Places
    <3> QED
      BY <1>0, <3>1, <1>12 DEF ColdRun, A!Exec, Flags
  <2>2. Counts'
    BY <1>0, <1>12 DEF ColdRun, A!Exec, Counts
  <2>3. Places'
    BY <1>0, <1>12 DEF ColdRun, A!Exec, Places
  <2> QED
    BY <2>1, <2>2, <2>3
<1>13. CASE ColdWait
  <2>1. Flags'
    BY <1>0, <1>13 DEF ColdWait, Remove, Flags
  <2>2. Counts'
    BY <1>0, <1>13 DEF ColdWait, Remove, Counts
  <2>3. Places'
    BY <1>0, <1>13 DEF ColdWait, Remove, Places
  <2> QED
    BY <2>1, <2>2, <2>3
<1>14. CASE Process
  <2>1. CASE A!Crash
    <3>1. Flags'
      BY <1>0, <1>14, <2>1 DEF Process, A!Crash, Flags
    <3>2. Counts'
      BY <1>0, <1>14, <2>1 DEF Process, A!Crash, Counts
    <3>3. Places'
      BY <1>0, <1>14, <2>1 DEF Process, A!Crash, Places
    <3> QED
      BY <3>1, <3>2, <3>3
  <2>2. CASE A!Exit
    <3>1. Flags'
      BY <1>0, <1>14, <2>2 DEF Process, A!Exit, Flags
    <3>2. Counts'
      BY <1>0, <1>14, <2>2 DEF Process, A!Exit, Counts
    <3>3. Places'
      BY <1>0, <1>14, <2>2 DEF Process, A!Exit, Places
    <3> QED
      BY <3>1, <3>2, <3>3
  <2>3. CASE A!Import
    <3>1. Flags'
      BY <1>0, <1>14, <2>3 DEF Process, A!Import, Flags
    <3>2. Counts'
      BY <1>0, <1>14, <2>3 DEF Process, A!Import, Counts
    <3>3. Places'
      BY <1>0, <1>14, <2>3 DEF Process, A!Import, Places
    <3> QED
      BY <3>1, <3>2, <3>3
  <2>4. CASE A!CreateToken
    <3>1. Flags'
      BY <1>0, <1>14, <2>4 DEF Process, A!CreateToken, Flags
    <3>2. Counts'
      BY <1>0, <1>14, <2>4 DEF Process, A!CreateToken, Counts
    <3>3. Places'
      BY <1>0, <1>14, <2>4 DEF Process, A!CreateToken, Places
    <3> QED
      BY <3>1, <3>2, <3>3
  <2>5. CASE A!WriteToken
    <3>1. Flags'
      BY <1>0, <1>14, <2>5 DEF Process, A!WriteToken, Flags
    <3>2. Counts'
      BY <1>0, <1>14, <2>5 DEF Process, A!WriteToken, Counts
    <3>3. Places'
      BY <1>0, <1>14, <2>5 DEF Process, A!WriteToken, Places
    <3> QED
      BY <3>1, <3>2, <3>3
  <2>6. CASE A!Install
    <3>1. Flags'
      BY <1>0, <1>14, <2>6 DEF Process, A!Install, Flags
    <3>2. Counts'
      BY <1>0, <1>14, <2>6 DEF Process, A!Install, Counts
    <3>3. Places'
      BY <1>0, <1>14, <2>6 DEF Process, A!Install, Places
    <3> QED
      BY <3>1, <3>2, <3>3
  <2>7. CASE A!TestDone
    <3>1. Flags'
      BY <1>0, <1>14, <2>7 DEF Process, A!TestDone, Flags
    <3>2. Counts'
      BY <1>0, <1>14, <2>7 DEF Process, A!TestDone, Counts
    <3>3. Places'
      BY <1>0, <1>14, <2>7 DEF Process, A!TestDone, Places
    <3> QED
      BY <3>1, <3>2, <3>3
  <2>8. CASE A!RunHandler
    <3>1. Flags'
      BY <1>0, <1>14, <2>8 DEF Process, A!RunHandler, Flags
    <3>2. Counts'
      BY <1>0, <1>14, <2>8 DEF Process, A!RunHandler, Counts
    <3>3. Places'
      BY <1>0, <1>14, <2>8 DEF Process, A!RunHandler, Places
    <3> QED
      BY <3>1, <3>2, <3>3
  <2>9. CASE A!EnterPause
    <3>1. Flags'
      BY <1>0, <1>14, <2>9 DEF Process, A!EnterPause, Flags
    <3>2. Counts'
      BY <1>0, <1>14, <2>9 DEF Process, A!EnterPause, Counts
    <3>3. Places'
      BY <1>0, <1>14, <2>9 DEF Process, A!EnterPause, Places
    <3> QED
      BY <3>1, <3>2, <3>3
  <2>10. CASE A!Wake
    <3>1. Flags'
      BY <1>0, <1>14, <2>10 DEF Process, A!Wake, Flags
    <3>2. Counts'
      BY <1>0, <1>14, <2>10 DEF Process, A!Wake, Counts
    <3>3. Places'
      BY <1>0, <1>14, <2>10 DEF Process, A!Wake, Places
    <3> QED
      BY <3>1, <3>2, <3>3
  <2>11. CASE A!Uninstall
    <3>1. Flags'
      BY <1>0, <1>14, <2>11 DEF Process, A!Uninstall, Flags
    <3>2. Counts'
      BY <1>0, <1>14, <2>11 DEF Process, A!Uninstall, Counts
    <3>3. Places'
      BY <1>0, <1>14, <2>11 DEF Process, A!Uninstall, Places
    <3> QED
      BY <3>1, <3>2, <3>3
  <2>12. CASE A!Unlink
    <3>1. Flags'
      BY <1>0, <1>14, <2>12 DEF Process, A!Unlink, Flags
    <3>2. Counts'
      BY <1>0, <1>14, <2>12 DEF Process, A!Unlink, Counts
    <3>3. Places'
      BY <1>0, <1>14, <2>12 DEF Process, A!Unlink, Places
    <3> QED
      BY <3>1, <3>2, <3>3
  <2>13. CASE A!StartApp
    <3>1. Flags'
      BY <1>0, <1>14, <2>13 DEF Process, A!StartApp, Flags
    <3>2. Counts'
      BY <1>0, <1>14, <2>13 DEF Process, A!StartApp, Counts
    <3>3. Places'
      BY <1>0, <1>14, <2>13 DEF Process, A!StartApp, Places
    <3> QED
      BY <3>1, <3>2, <3>3
  <2> QED
    BY <1>14, <2>1, <2>2, <2>3, <2>4, <2>5, <2>6, <2>7, <2>8, <2>9, <2>10, <2>11, <2>12, <2>13
    DEF Process, A!Step
<1>15. CASE ProcessKilled
  <2>1. Flags'
    BY <1>0, <1>15 DEF ProcessKilled, Flags
  <2>2. Counts'
    BY <1>0, <1>15 DEF ProcessKilled, Counts
  <2>3. Places'
    BY <1>0, <1>15 DEF ProcessKilled, Places
  <2> QED
    BY <2>1, <2>2, <2>3
<1>16. CASE ScriptKilled
  <2>1. Flags'
    BY <1>0, <1>16 DEF ScriptKilled, Flags
  <2>2. Counts'
    BY <1>0, <1>16 DEF ScriptKilled, Counts
  <2>3. Places'
    BY <1>0, <1>16 DEF ScriptKilled, Places
  <2> QED
    BY <2>1, <2>2, <2>3
<1>17. CASE Reboot
  <2>1. Flags'
    BY <1>0, <1>17 DEF Reboot, Flags
  <2>2. Counts'
    BY <1>0, <1>17 DEF Reboot, Counts
  <2>3. Places'
    BY <1>0, <1>17 DEF Reboot, Places
  <2> QED
    BY <2>1, <2>2, <2>3
<1>18. CASE UNCHANGED vars
  <2>1. Flags'
    BY <1>0, <1>18 DEF vars, Flags
  <2>2. Counts'
    BY <1>0, <1>18 DEF vars, Counts
  <2>3. Places'
    BY <1>0, <1>18 DEF vars, Places
  <2> QED
    BY <2>1, <2>2, <2>3
<1> QED
  BY <1>1, <1>2, <1>3, <1>4, <1>5, <1>6, <1>7, <1>8, <1>9, <1>10, <1>11, <1>12,
     <1>13, <1>14, <1>15, <1>16, <1>17, <1>18
  DEF Next, Script

(* Hence every step preserves the type invariant.                            *)
LEMMA NextType == IInv /\ [Next]_vars => TypeOK'
BY NextKinds, TypeKinds, PTL

(* Every step keeps the relation between the script, the container and what  *)
(* has been started.                                                        *)
LEMMA NextParts == IInv /\ [Next]_vars => Parts'
<1> SUFFICES ASSUME IInv, [Next]_vars PROVE Parts'
  OBVIOUS
<1>0. Parts /\ sent \in {0, 1} /\ starts \in Nat /\ step \in Steps /\ misheard \in BOOLEAN
      /\ origin \in {"none", "earlier", "restored", "cold"}
  BY DEF IInv, TypeOK, A!TypeOK
<1> USE DEF Parts, Ways, Owned, Once, Gated, Plain, Warm, Freed, Settled, Opening, MayStart,
            A!Live, A!Absent, A!Before, A!Waiting, A!After, Steps, Goto, Finish, host, process
<1>1. CASE Launch
  BY <1>0, <1>1 DEF Launch
<1>2. CASE Pre
  BY <1>0, <1>2 DEF Pre
<1>3. CASE MountImage
  BY <1>0, <1>3 DEF MountImage
<1>4. CASE MountOverlay
  BY <1>0, <1>4 DEF MountOverlay
<1>5. CASE Stage
  BY <1>0, <1>5 DEF Stage
<1>6. CASE Delete
  BY <1>0, <1>6 DEF Delete, DeleteContainer, Remove
<1>7. CASE Restore
  <2>1. CASE Restored
    <3>1. Settled => site.snapshot.pc = "paused" /\ site.snapshot.handler = "gate"
      BY <2>1 DEF Restored, A!Parked
    <3>2. Ways' /\ Owned' /\ Warm'
      BY <1>0, <1>7, <2>1, SnapshotFacts DEF Restore, Restored, IInv, TypeOK
    <3>3. Once' /\ Gated' /\ Plain'
      BY <1>0, <1>7, <2>1, SnapshotFacts DEF Restore, Restored, IInv, TypeOK
    <3>4. Settled' => Settled
      BY <1>7 DEF Restore
    <3>5. pc' = site.snapshot.pc /\ handler' = site.snapshot.handler /\ sent' = 0
      BY <2>1 DEF Restored
    <3> HIDE DEF Settled
    <3>6. Freed'
      BY <3>1, <3>4, <3>5
    <3> QED
      BY <3>2, <3>3, <3>6
  <2>2. CASE UNCHANGED <<process, origin>>
    BY <1>0, <1>7, <2>2 DEF Restore, Restored
  <2> QED
    BY <1>7, <2>1, <2>2 DEF Restore
<1>8. CASE Resume
  BY <1>0, <1>8 DEF Resume, A!Signal
<1>9. CASE Observe
  BY <1>0, <1>9 DEF Observe
<1>10. CASE ColdDelete
  BY <1>0, <1>10 DEF ColdDelete, DeleteContainer, Remove
<1>11. CASE ColdSed
  BY <1>0, <1>11 DEF ColdSed
<1>12. CASE ColdRun
  <2>1. CASE origin' = "cold"
    <3>1. A!Exec(config = "gated", site.cmd) /\ step' = "coldWait" /\ pc = "absent"
          /\ outcome' = outcome /\ UNCHANGED host
      BY <1>0, <1>12, <2>1 DEF ColdRun
    <3>2. starts' = starts /\ misheard' = misheard /\ starts < MayStart
      BY <1>0, <1>12, <3>1 DEF ColdRun, A!Exec
    <3>3. Ways' /\ Owned' /\ Warm'
      BY <1>0, <1>12, <2>1, <3>1, <3>2 DEF A!Exec, ColdRun
    <3>4. Once' /\ Gated'
      BY <1>0, <2>1, <3>2
    <3>5. ~unsed' => sync' = FALSE
      <4>1. unsed' = unsed /\ step = "coldRun"
        BY <1>12 DEF ColdRun
      <4>2. ~unsed => config # "gated"
        BY <1>0, <4>1
      <4>3. sync' = (config = "gated")
        BY <3>1 DEF A!Exec
      <4> QED
        BY <4>1, <4>2, <4>3
    <3>6. Plain' /\ Freed'
      BY <2>1, <3>1, <3>5
    <3> QED
      BY <3>3, <3>4, <3>6
  <2>2. CASE UNCHANGED <<process, origin>>
    BY <1>0, <1>12, <2>2 DEF ColdRun
  <2> QED
    BY <1>12, <2>1, <2>2 DEF ColdRun
<1>13. CASE ColdWait
  BY <1>0, <1>13 DEF ColdWait, Remove
<1>14. CASE Process
  <2>1. CASE A!Crash
    BY <1>0, <1>14, <2>1 DEF Process, A!Crash
  <2>2. CASE A!Exit
    BY <1>0, <1>14, <2>2 DEF Process, A!Exit
  <2>3. CASE A!Import
    BY <1>0, <1>14, <2>3 DEF Process, A!Import
  <2>4. CASE A!CreateToken
    BY <1>0, <1>14, <2>4 DEF Process, A!CreateToken
  <2>5. CASE A!WriteToken
    BY <1>0, <1>14, <2>5 DEF Process, A!WriteToken
  <2>6. CASE A!Install
    BY <1>0, <1>14, <2>6 DEF Process, A!Install
  <2>7. CASE A!TestDone
    BY <1>0, <1>14, <2>7 DEF Process, A!TestDone
  <2>8. CASE A!RunHandler
    BY <1>0, <1>14, <2>8 DEF Process, A!RunHandler
  <2>9. CASE A!EnterPause
    BY <1>0, <1>14, <2>9 DEF Process, A!EnterPause
  <2>10. CASE A!Wake
    BY <1>0, <1>14, <2>10 DEF Process, A!Wake
  <2>11. CASE A!Uninstall
    BY <1>0, <1>14, <2>11 DEF Process, A!Uninstall
  <2>12. CASE A!Unlink
    BY <1>0, <1>14, <2>12 DEF Process, A!Unlink
  <2>13. CASE A!StartApp
    BY <1>0, <1>14, <2>13 DEF Process, A!StartApp
  <2> QED
    BY <1>14, <2>1, <2>2, <2>3, <2>4, <2>5, <2>6, <2>7, <2>8, <2>9, <2>10, <2>11, <2>12, <2>13
    DEF Process, A!Step
<1>15. CASE ProcessKilled
  BY <1>0, <1>15 DEF ProcessKilled
<1>16. CASE ScriptKilled
  BY <1>0, <1>16 DEF ScriptKilled
<1>17. CASE Reboot
  BY <1>0, <1>17 DEF Reboot
<1>18. CASE UNCHANGED vars
  BY <1>0, <1>18 DEF vars
<1> QED
  BY <1>1, <1>2, <1>3, <1>4, <1>5, <1>6, <1>7, <1>8, <1>9, <1>10, <1>11, <1>12,
     <1>13, <1>14, <1>15, <1>16, <1>17, <1>18
  DEF Next, Script

(* Every reachable state satisfies the invariant.                            *)
THEOREM Invariance == Spec => []IInv
<1>1. IInv /\ [Next]_vars => IInv'
  BY NextType, NextParts DEF IInv
<1> QED
  BY InitIInv, <1>1, PTL DEF Spec

-----------------------------------------------------------------------------
(* Every variable keeps its type; no process is signalled twice.             *)
THEOREM TypeCorrect == Spec => []TypeOK
<1>1. IInv => TypeOK
  BY DEF IInv
<1> QED
  BY Invariance, <1>1, PTL

(* The application is started at most once by a launch, and at most twice by *)
(* one whose runc kill has delivered the signal and then failed.             *)
THEOREM OneStart == Spec => []AtMostOneStart
<1>1. IInv => AtMostOneStart
  BY DEF IInv, TypeOK, Parts, Ways, Owned, Once, MayStart, AtMostOneStart
<1> QED
  BY Invariance, <1>1, PTL

(* A cold container runs past the gate, whatever was staged before it.       *)
THEOREM ColdRuns == Spec => []ColdIsNotGated
<1>1. IInv => ColdIsNotGated
  BY DEF IInv, Parts, Plain, ColdIsNotGated
<1> QED
  BY Invariance, <1>1, PTL

(* What is reported as restored and resumed is released, if the checkpoint   *)
(* was taken while the wrapper was blocked in signal.pause().                *)
THEOREM Released == Spec => []SettledIsReleased
<1>1. IInv => SettledIsReleased
  BY DEF IInv, Parts, Warm, Freed, SettledIsReleased, WarmIsReleased
<1> QED
  BY Invariance, <1>1, PTL

(* SIGUSR1 is sent only to the process this launch has restored.             *)
THEOREM OwnProcess == Spec => ResumesOwnProcess
<1>1. IInv /\ [Next]_vars => [sent' > sent => origin = "restored"]_vars
  <2> SUFFICES ASSUME IInv, [Next]_vars, ~UNCHANGED vars, origin # "restored"
               PROVE ~(sent' > sent)
    OBVIOUS
  <2>0. sent \in {0, 1} /\ Ways
    BY DEF IInv, TypeOK, A!TypeOK, Parts
  <2>1. ~Resume
    BY <2>0 DEF Resume, Ways
  <2>2. sent' = sent \/ sent' = 0
    <3> USE DEF host, process
    <3>1. CASE Launch
      BY <3>1 DEF Launch
    <3>2. CASE Pre \/ MountImage \/ MountOverlay \/ Stage
      BY <3>2 DEF Pre, MountImage, MountOverlay, Stage
    <3>3. CASE Delete \/ ColdDelete
      BY <3>3 DEF Delete, ColdDelete, DeleteContainer, Remove
    <3>4. CASE Restore \/ ColdRun
      BY <3>4 DEF Restore, Restored, ColdRun, A!Exec
    <3>5. CASE Observe \/ ColdSed \/ ColdWait
      BY <3>5 DEF Observe, ColdSed, ColdWait, Remove
    <3>6. CASE Process
      BY <3>6
      DEF Process, A!Step, A!Crash, A!Exit, A!Import, A!CreateToken, A!WriteToken,
          A!Install, A!TestDone, A!RunHandler, A!EnterPause, A!Wake, A!Uninstall,
          A!Unlink, A!StartApp
    <3>7. CASE ProcessKilled \/ ScriptKilled \/ Reboot
      BY <3>7 DEF ProcessKilled, ScriptKilled, Reboot
    <3> QED
      BY <2>1, <3>1, <3>2, <3>3, <3>4, <3>5, <3>6, <3>7 DEF Next, Script
  <2> QED
    BY <2>0, <2>2
<1> QED
  BY Invariance, <1>1, PTL DEF Spec, ResumesOwnProcess

-----------------------------------------------------------------------------
(* launch.sh implements Startup: each of its steps is a step of the promise, *)
(* or none.                                                                  *)
LEMMA StepKeepsPromise == IInv /\ [Next]_vars => [Promise!Next]_(Promise!vars)
<1> SUFFICES ASSUME IInv, [Next]_vars PROVE [Promise!Next]_(Promise!vars)
  OBVIOUS
<1>0. Parts /\ sent \in {0, 1} /\ starts \in Nat /\ step \in Steps /\ misheard \in BOOLEAN
      /\ origin \in {"none", "earlier", "restored", "cold"}
  BY DEF IInv, TypeOK, A!TypeOK
<1> USE DEF Parts, Ways, Owned, Once, Gated, Opening, MayStart, Falling, A!Live,
            A!Absent, A!After, Steps, Goto, Finish, host, process, Promise!vars
<1>1. CASE Launch
  <2>1. Promise!Begin
    BY <1>0, <1>1 DEF Launch, Promise!Begin
  <2> QED
    BY <2>1 DEF Promise!Next
<1>2. CASE Pre
  <2>1. UNCHANGED Promise!vars \/ Promise!GiveUp
    BY <1>0, <1>2 DEF Pre, Promise!GiveUp
  <2> QED
    BY <2>1 DEF Promise!Next
<1>3. CASE MountImage
  <2>1. UNCHANGED Promise!vars \/ Promise!GiveUp
    BY <1>0, <1>3 DEF MountImage, Promise!GiveUp
  <2> QED
    BY <2>1 DEF Promise!Next
<1>4. CASE MountOverlay
  <2>1. UNCHANGED Promise!vars \/ Promise!GiveUp
    BY <1>0, <1>4 DEF MountOverlay, Promise!GiveUp
  <2> QED
    BY <2>1 DEF Promise!Next
<1>5. CASE Stage
  <2>1. UNCHANGED Promise!vars \/ Promise!GiveUp
    BY <1>0, <1>5 DEF Stage, Promise!GiveUp
  <2> QED
    BY <2>1 DEF Promise!Next
<1>6. CASE Delete
  <2>1. UNCHANGED Promise!vars
    BY <1>0, <1>6 DEF Delete, DeleteContainer, Remove
  <2> QED
    BY <2>1
<1>7. CASE Restore
  <2>1. UNCHANGED Promise!vars \/ Promise!GiveUp
    BY <1>0, <1>7 DEF Restore, Restored, Promise!GiveUp
  <2> QED
    BY <2>1 DEF Promise!Next
<1>8. CASE Resume
  <2>1. Promise!Release \/ Promise!ReleaseUnknown \/ Promise!GiveUp
    BY <1>0, <1>8 DEF Resume, A!Signal, Promise!Release, Promise!ReleaseUnknown, Promise!GiveUp
  <2> QED
    BY <2>1 DEF Promise!Next
<1>9. CASE Observe
  <2>1. Promise!Report
    BY <1>0, <1>9 DEF Observe, Promise!Report
  <2> QED
    BY <2>1 DEF Promise!Next
<1>10. CASE ColdDelete
  <2>1. UNCHANGED Promise!vars
    BY <1>0, <1>10 DEF ColdDelete, DeleteContainer, Remove
  <2> QED
    BY <2>1
<1>11. CASE ColdSed
  <2>1. UNCHANGED Promise!vars
    BY <1>0, <1>11 DEF ColdSed
  <2> QED
    BY <2>1
<1>12. CASE ColdRun
  <2>1. Promise!Fallback \/ Promise!Report
    BY <1>0, <1>12 DEF ColdRun, A!Exec, Promise!Fallback, Promise!Report
  <2> QED
    BY <2>1 DEF Promise!Next
<1>13. CASE ColdWait
  <2>1. Promise!Report
    BY <1>0, <1>13 DEF ColdWait, Remove, Promise!Report
  <2> QED
    BY <2>1 DEF Promise!Next
<1>14. CASE Process
  <2>1. CASE A!StartApp
    <3>1. UNCHANGED Promise!vars \/ Promise!Start
      BY <1>0, <1>14, <2>1 DEF Process, A!StartApp, Promise!Start
    <3> QED
      BY <3>1 DEF Promise!Next
  <2>2. CASE ~A!StartApp
    <3>1. UNCHANGED Promise!vars
      BY <1>0, <1>14, <2>2
      DEF Process, A!Step, A!Crash, A!Exit, A!Import, A!CreateToken, A!WriteToken,
          A!Install, A!TestDone, A!RunHandler, A!EnterPause, A!Wake, A!Uninstall,
          A!Unlink
    <3> QED
      BY <3>1
  <2> QED
    BY <2>1, <2>2
<1>15. CASE ProcessKilled
  <2>1. UNCHANGED Promise!vars
    BY <1>0, <1>15 DEF ProcessKilled
  <2> QED
    BY <2>1
<1>16. CASE ScriptKilled
  <2>1. Promise!Interrupt
    BY <1>0, <1>16 DEF ScriptKilled, Promise!Interrupt
  <2> QED
    BY <2>1 DEF Promise!Next
<1>17. CASE Reboot
  <2>1. Promise!Reboot
    BY <1>0, <1>17 DEF Reboot, Promise!Reboot
  <2> QED
    BY <2>1 DEF Promise!Next
<1>18. CASE UNCHANGED vars
  <2>1. UNCHANGED Promise!vars
    BY <1>18 DEF vars
  <2> QED
    BY <2>1
<1> QED
  BY <1>1, <1>2, <1>3, <1>4, <1>5, <1>6, <1>7, <1>8, <1>9, <1>10, <1>11, <1>12,
     <1>13, <1>14, <1>15, <1>16, <1>17, <1>18
  DEF Next, Script

(* Hence launch.sh keeps the promise of Startup.                             *)
THEOREM Implementation == Spec => KeepsPromise
<1>1. Init => Promise!Init
  BY DEF Init, Promise!Init, Falling
<1> QED
  BY <1>1, StepKeepsPromise, Invariance, PTL DEF Spec, KeepsPromise, Promise!Spec
=============================================================================

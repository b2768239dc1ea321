----------------------------- MODULE MCLauncher -----------------------------
(* Installations for the checking of Launcher. *)
EXTENDS Launcher

(* What SeedBuilder leaves, frozen as soon as its token file could be seen,  *)
(* or when it had blocked in signal.pause(), or not at all; and what the     *)
(* satellite may lack.                                                       *)
Installed ==
  [runc : {TRUE}, image : {TRUE}, rootfs : {TRUE}, cmd : BOOLEAN,
   snapshot : A!Captures \union {NoSnapshot}]
Deficient ==
  [runc : BOOLEAN, image : BOOLEAN, rootfs : BOOLEAN, cmd : {TRUE}, snapshot : {A!Parked}]

MCSites == Installed \union Deficient
=============================================================================

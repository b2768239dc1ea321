------------------------------ MODULE MCRecord ------------------------------
(* Two directories, with a file each: the properties relate two files at most. *)
EXTENDS Record

MCFiles == 1..2
MCDirs == {"rootfs", "snapshot"}
MCDirOf == [f \in MCFiles |-> IF f = 2 THEN "snapshot" ELSE "rootfs"]
=============================================================================

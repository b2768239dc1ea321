----------------------------- MODULE MCSnapshot -----------------------------
(* Runs of the coordinator; the constants come from the configurations. *)
EXTENDS Snapshot
=============================================================================

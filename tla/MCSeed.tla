------------------------------- MODULE MCSeed -------------------------------
(* Builds of one seed; the constants come from the configurations. *)
EXTENDS Seed
=============================================================================

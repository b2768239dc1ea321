---------------------------- MODULE MCTokenWait ----------------------------
(* The waiter alone; the constants come from the configurations. *)
EXTENDS TokenWait
=============================================================================

----------------------------- MODULE MCPipeline -----------------------------
(* The stages; the bound comes from the configurations. *)
EXTENDS Pipeline
=============================================================================

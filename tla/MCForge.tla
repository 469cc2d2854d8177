------------------------------ MODULE MCForge -------------------------------
(* Forge with a few requests. *)
EXTENDS Forge
=============================================================================

---------------------------- MODULE MCComputerUse --------------------------
(* ComputerUse on small instances. *)
EXTENDS ComputerUse
=============================================================================

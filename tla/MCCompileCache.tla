--------------------------- MODULE MCCompileCache ---------------------------
(* Three processes: two that overlap and one that comes later. *)
EXTENDS CompileCache, TLC

CONSTANTS p1, p2, p3

MCProcess == {p1, p2, p3}

ProcessSymmetry == Permutations(MCProcess)
=============================================================================

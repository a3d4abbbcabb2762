---------------------------- MODULE MCServerTools ----------------------------
(***************************************************************************)
(* Two turns, two models and two uses, for TLC.  Models and ids are alike. *)
(***************************************************************************)
EXTENDS ServerTools, TLC

CONSTANTS m1, m2, a, b

Symmetry == Permutations({m1, m2}) \cup Permutations({a, b})
=============================================================================

----------------------------- MODULE MCDecider -----------------------------
(* The decision loop over a small desktop.  Where a run needs a third step, *)
(* there is one application, and both windows are its own.                  *)
EXTENDS Decider, MCDesktop

MCOneApp   == {a1}
MCOneOrder == <<a1>>
MCOneOwner == [w \in MCWin |-> a1]
=============================================================================

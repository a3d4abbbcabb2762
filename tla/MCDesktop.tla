----------------------------- MODULE MCDesktop -----------------------------
(* Two applications with a window each, one of them with a text field. *)
CONSTANTS a1, a2, w1, w2, e1

MCApp    == {a1, a2}
MCOrder  == <<a1, a2>>
MCWin    == {w1, w2}
MCElem   == {e1}
MCOwner  == [w \in MCWin |-> IF w = w1 THEN a1 ELSE a2]
MCParent == [e \in MCElem |-> w1]
=============================================================================

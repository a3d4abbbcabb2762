---------------------------- MODULE SerialTool ----------------------------
(***************************************************************************)
(* What ComputerUse promises its callers: calls take turns, each carries   *)
(* out its action at most once, and the result tells what is known of it.  *)
(*    ok       the action was carried out, in the call's turn              *)
(*    error    the call is over; it was carried out in full, in part or    *)
(*             not at all, and nothing more will happen                    *)
(*    refused  it was never carried out and never will be                  *)
(*    lost     the worker is gone: the action may have been carried out,   *)
(*             and may still be, once, after the call returned             *)
(***************************************************************************)
EXTENDS Naturals

CONSTANT Op

VARIABLES status, turn, effects

vars == <<status, turn, effects>>

Results == {"ok", "error", "refused", "lost"}

Init ==
    /\ status = [o \in Op |-> "new"]
    /\ turn = 0
    /\ effects = [o \in Op |-> 0]

Call(o) ==
    /\ status[o] = "new"
    /\ status' = [status EXCEPT ![o] = "pending"]
    /\ UNCHANGED <<turn, effects>>

\* Arguments are checked before the call waits for its turn.
Refuse(o) ==
    /\ status[o] = "new"
    /\ status' = [status EXCEPT ![o] = "refused"]
    /\ UNCHANGED <<turn, effects>>

Begin(o) ==
    /\ status[o] = "pending"
    /\ turn = 0
    /\ turn' = o
    /\ UNCHANGED <<status, effects>>

Act(o) ==
    /\ turn = o \/ status[o] = "lost"
    /\ effects[o] = 0
    /\ effects' = [effects EXCEPT ![o] = 1]
    /\ UNCHANGED <<status, turn>>

Finish(o, result) ==
    /\ turn = o
    /\ result = "ok" => effects[o] = 1
    /\ result = "refused" => effects[o] = 0
    /\ status' = [status EXCEPT ![o] = result]
    /\ turn' = 0
    /\ UNCHANGED effects

Next == \E o \in Op :
    \/ Call(o) \/ Refuse(o) \/ Begin(o) \/ Act(o)
    \/ \E result \in Results : Finish(o, result)

Spec == Init /\ [][Next]_vars
=============================================================================

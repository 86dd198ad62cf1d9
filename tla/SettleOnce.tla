------------------------------ MODULE SettleOnce ------------------------------
(***************************************************************************)
(* What a caller of settlePayment (src/integrations/settlement.ts) may     *)
(* rely on, and what ChallengeEngine and RouteFlow assume of it in one     *)
(* step: a call that reports success has moved the USDC, an authorization  *)
(* moves it once, and a call that reports failure says nothing - the       *)
(* transfer may have been made, or be made later.                          *)
(***************************************************************************)
CONSTANTS Task

VARIABLES moved, outcome

Init ==
    /\ moved = {}
    /\ outcome = [t \in Task |-> "none"]

Move(t) == moved' = moved \cup {t} /\ UNCHANGED outcome

Report(t) ==
    /\ outcome[t] = "none"
    /\ \/ t \in moved /\ outcome' = [outcome EXCEPT ![t] = "settled"]
       \/ outcome' = [outcome EXCEPT ![t] = "failed"]
    /\ UNCHANGED moved

Next == \E t \in Task : Move(t) \/ Report(t)

Spec == Init /\ [][Next]_<<moved, outcome>>
=============================================================================

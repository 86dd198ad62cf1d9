--------------------------- MODULE PaymentPromise ---------------------------
(***************************************************************************)
(* What the gateway promises about each transfer a client makes: nothing   *)
(* happens before it is paid, and afterwards it buys the resource or goes  *)
(* back to its sender, never both and never twice.                         *)
(***************************************************************************)
CONSTANT Tx

VARIABLE outcome

PromiseTypeOK == outcome \in [Tx -> {"unpaid", "paid", "served", "refunded"}]

Init == outcome = [t \in Tx |-> "unpaid"]

Settle(t, from, to) ==
    /\ outcome[t] = from
    /\ outcome' = [outcome EXCEPT ![t] = to]

Next == \E t \in Tx : \/ Settle(t, "unpaid", "paid")
                      \/ Settle(t, "paid", "served")
                      \/ Settle(t, "paid", "refunded")

Spec == Init /\ [][Next]_outcome
=============================================================================

-------------------------- MODULE DocumentedClaims --------------------------
(***************************************************************************)
(* Statements the repository makes about the program, in its docs and      *)
(* comments, that the code does not keep. Each is checked by a run of its  *)
(* own, with no fault or with the one that refutes it.                     *)
(***************************************************************************)
EXTENDS MCGateway

\* docs/FLOW.md: "Refunds cannot double-fire". A payer gets one refund.
RefundsCannotDoubleFire == \A t \in Tx : payouts[t] <= 1

\* docs/FLOW.md: "one txHash maps to exactly one challenge"; SPEC.md: "the same
\* tx cannot be redeemed for two different challenges". No two challenges end
\* delivered or refunded on account of one transfer.
OneChallengePerTx ==
    \A c, d \in Challenge :
        /\ c # d
        /\ challenges[c].state \in {"DELIVERED", "REFUNDED"}
        /\ challenges[d].state \in {"DELIVERED", "REFUNDED"}
        => challenges[c].txHash # challenges[d].txHash

\* docs/FLOW.md: "refund cron skips records with accessGrant set".
CronSkipsGrants ==
    \A k \in Cron :
        cron[k].pc = "send"
            => challenges[cron[k].current.challenge].accessGrant = NoTx

\* docs/FLOW.md: the requestId lookup prevents "Duplicate challenge creation".
\* A request has one challenge that can be paid.
NoDuplicateChallenge ==
    \A c, d \in Challenge :
        /\ c # d
        /\ challenges[c].state = "PENDING" /\ ~challenges[c].lapsed
        /\ challenges[d].state = "PENDING" /\ ~challenges[d].lapsed
        => challenges[c].requestId # challenges[d].requestId

\* challenge-engine.ts on preSettlementCheck: it is called before settling "to
\* avoid burning USDC when the challenge is already delivered, expired, or
\* cancelled". A call that made the check settles no transfer for a request
\* whose record is in one of these states.
NoBurnedTransfer ==
    [][\A h \in Handler :
         (/\ settled' # settled
          /\ handler[h].pc = "settle" /\ handler[h].kind = "http"
          /\ handler'[h].pc # "settle")
            => /\ ~ Redeemed(ActiveRecord(handler[h].requestId))
               /\ ActiveRecord(handler[h].requestId).state
                    \notin {"EXPIRED", "CANCELLED"}]_vars
=============================================================================

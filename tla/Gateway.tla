------------------------------- MODULE Gateway -------------------------------
(***************************************************************************)
(* The payment gateway: request handlers (ChallengeEngine) and refund runs *)
(* (RefundCron) sharing one store, with the clock that makes challenges    *)
(* lapse and unserved payments old enough to refund.                       *)
(***************************************************************************)
EXTENDS ChallengeEngine, RefundCron

vars == <<storeVars, engineVars, cronVars>>

Init == StoreInit /\ EngineInit /\ CronInit

\* Mutated form of GracePeriodPasses: minAgeMs is shorter than a call.
GraceTooShort(c) == PaymentAges(c)

\* minAgeMs is chosen longer than any call lasts, so a record ages once the call
\* that paid it is over; slow_handler drops that.
GracePeriodPasses(c) ==
    /\ "slow_handler" \in Faults \/ \A h \in Handler : ~ Serving(h, c)
    /\ PaymentAges(c)

ClockNext ==
    \/ \E c \in Challenge : ChallengeLapses(c) \/ GracePeriodPasses(c)
    \/ \E r \in Request : RequestKeyExpires(r)

Next ==
    \/ EngineNext /\ UNCHANGED cronVars
    \/ CronNext /\ UNCHANGED engineVars
    \/ ClockNext /\ UNCHANGED <<engineVars, cronVars>>

Spec == Init /\ [][Next]_vars

\* Calls that have begun run on, the timer that starts refund runs keeps firing
\* and time goes on. Nothing is assumed of clients, operators or faults.
Fairness ==
    /\ \A h \in Handler : WF_vars(HandlerStep(h) /\ UNCHANGED cronVars)
    /\ \A k \in Cron : WF_vars(CronStep(k) /\ UNCHANGED engineVars)
    /\ \A c \in Challenge : WF_vars(GracePeriodPasses(c) /\ UNCHANGED <<engineVars, cronVars>>)

FairSpec == Spec /\ Fairness

-----------------------------------------------------------------------------
TypeOK == StoreTypeOK /\ EngineTypeOK /\ CronTypeOK

\* A stored grant was issued for the transfer the record was paid with, and the
\* seen-transaction key of that transfer names this challenge: no two
\* challenges hold a grant for one transfer, whatever races, crashes and
\* rollbacks happen (markUsed before issueTokenWithRetry).
GrantOwnsTx ==
    \A c \in Challenge :
        LET t == challenges[c].accessGrant IN
        t # NoTx => challenges[c].txHash = t /\ seenTx[t] = c

\* What clients were handed, whether or not it could be stored: a transfer buys a
\* grant for one challenge, and a challenge is delivered for one transfer, also
\* when a call outlasts the grace period or its record is refunded under it.
DeliveredOnce ==
    \A t, u \in Tx : \A c \in served[t], d \in served[u] : c = d <=> t = u

\* The PENDING -> PAID compare-and-swap admits one call at a time to a
\* challenge, until that call has delivered, failed or rolled back.
OneServerPerChallenge ==
    \A g, h \in Handler, c \in Challenge : Serving(g, c) /\ Serving(h, c) => g = h

\* The refund job cannot overlook a payment: a record that is PAID and holds no
\* grant is in the sorted set it scans, and only PAID records are.
PaidSetComplete ==
    \A c \in Challenge :
        /\ c \in paidSet => challenges[c].state = "PAID"
        /\ challenges[c].state = "PAID" /\ challenges[c].accessGrant = NoTx => c \in paidSet

\* Nothing is granted or refunded that was not paid: every transfer a client
\* was served for, or that a refund was sent for, moved USDC to the seller.
BackedByTransfer ==
    \A t \in Tx : served[t] # {} \/ payouts[t] > 0 => t \in settled

\* A grant is a promise kept: once it is stored, the record is never claimed
\* for a refund.
GrantNeverRefunded ==
    [][\A c \in Challenge : challenges[c].accessGrant # NoTx
            => challenges'[c].state \in {"PAID", "DELIVERED"}]_vars

\* One refund run at a time works on a challenge.
OneRefundRunPerChallenge ==
    \A j, k \in Cron :
        /\ cron[j].current # NoSnapshot
        /\ cron[j].current.challenge = cron[k].current.challenge
        => j = k

\* A refund is sent to the account that made the recorded payment, although the
\* run took the address from a record it read some awaits ago.
RefundReachesPayer ==
    \A k \in Cron :
        cron[k].pc = "send" =>
            cron[k].current.fromAddress = challenges[cron[k].current.challenge].txHash

\* PaymentPromise, with the outcome of a transfer read off what the gateway
\* did with it. "broken" is no outcome of PaymentPromise.
Outcome ==
    [t \in Tx |->
        IF Cardinality(served[t]) + payouts[t] > 1 THEN "broken"
        ELSE IF served[t] # {} THEN "served"
        ELSE IF payouts[t] > 0 THEN "refunded"
        ELSE IF t \in settled THEN "paid"
        ELSE "unpaid"]

Promise == INSTANCE PaymentPromise WITH outcome <- Outcome

KeepsPromise == Promise!Spec

\* A payment that was recorded with its payer and got no grant does not stay
\* PAID: in the end it is delivered or claimed for a refund.
UnservedPaymentIsClaimed ==
    \A c \in Challenge :
        (/\ challenges[c].state = "PAID"
         /\ challenges[c].accessGrant = NoTx
         /\ challenges[c].fromAddress # NoTx)
        ~> (challenges[c].state # "PAID" \/ challenges[c].accessGrant # NoTx)

\* A claimed refund is decided: it ends REFUNDED or REFUND_FAILED.
ClaimedRefundIsDecided ==
    \A c \in Challenge :
        challenges[c].state = "REFUND_PENDING"
            ~> challenges[c].state \in {"REFUNDED", "REFUND_FAILED"}
=============================================================================

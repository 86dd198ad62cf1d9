----------------------------- MODULE RefundCron -----------------------------
(***************************************************************************)
(* The refund job (src/core/refund.ts): processRefunds, which every        *)
(* instance of the gateway runs on a timer, and retryFailedRefunds, which  *)
(* an operator calls. A member of Cron is one instance; a run reads its    *)
(* batch once and then works through it, one await per action, while       *)
(* requests and other runs go on.                                          *)
(***************************************************************************)
EXTENDS ChallengeStore, FiniteSets

CONSTANTS
    Cron,           \* gateway instances that run the job
    BatchSize,      \* config.batchSize
    MaxAttempts,    \* MAX_REFUND_ATTEMPTS
    MaxPayouts      \* bound on the refunds counted per payer

ASSUME CronAssumption ==
    /\ BatchSize \in Nat \ {0}
    /\ MaxAttempts \in Nat \ {0}
    /\ MaxPayouts \in Nat \ {0}

VARIABLES
    cron,       \* the locals of each run
    payouts     \* refunds broadcast to the sender of each transfer

cronVars == <<cron, payouts>>

\* A record as the run read it, of which it uses the id and the payer.
Snapshot == [challenge : Challenge, fromAddress : Tx]

NoSnapshot == [challenge |-> NoChallenge, fromAddress |-> NoTx]

Run == [pc      : {"idle", "claim", "send", "confirm", "fail"},
        batch   : SUBSET Snapshot,
        current : Snapshot \cup {NoSnapshot},
        attempt : 1..MaxAttempts]

IdleRun == [pc |-> "idle", batch |-> {}, current |-> NoSnapshot, attempt |-> 1]

CronTypeOK ==
    /\ cron \in [Cron -> Run]
    /\ payouts \in [Tx -> 0..MaxPayouts]

CronInit ==
    /\ cron = [k \in Cron |-> IdleRun]
    /\ payouts = [t \in Tx |-> 0]

-----------------------------------------------------------------------------
\* Go on with the next record of the batch; the run ends after the last one.
NextRecord(k, batch) ==
    cron' = [cron EXCEPT ![k] = IF batch = {} THEN IdleRun
                                ELSE [IdleRun EXCEPT !.pc = "claim", !.batch = batch]]

\* findPendingForRefund and the batch taken from its result.
FetchBatch(k) ==
    /\ cron[k].pc = "idle"
    /\ \E ids \in SUBSET PendingForRefund :
          /\ ids # {}
          /\ Cardinality(ids) <= BatchSize
          /\ ids # PendingForRefund => Cardinality(ids) = BatchSize
          /\ NextRecord(k, {[challenge |-> c, fromAddress |-> challenges[c].fromAddress]
                              : c \in ids})
    /\ UNCHANGED <<storeVars, payouts>>

\* Mutated form of ClaimRefund: a record another run has claimed counts as
\* claimed by this one.
ClaimShared(k, s) ==
    /\ cron[k].pc = "claim"
    /\ s \in cron[k].batch
    /\ \E from \in {"PAID", "REFUND_PENDING"} :
          Transition(s.challenge, from, "REFUND_PENDING", FALSE, challenges[s.challenge])
    /\ cron' = [cron EXCEPT ![k] = [IdleRun EXCEPT !.pc = "send",
                                                   !.batch = cron[k].batch \ {s},
                                                   !.current = s]]
    /\ UNCHANGED payouts

\* PAID -> REFUND_PENDING for the next record; one that is no longer PAID is
\* left to whoever moved it.
ClaimRefund(k, s) ==
    /\ cron[k].pc = "claim"
    /\ s \in cron[k].batch
    /\ \/ /\ Transition(s.challenge, "PAID", "REFUND_PENDING", FALSE,
                        challenges[s.challenge])
          /\ cron' = [cron EXCEPT ![k] = [IdleRun EXCEPT !.pc = "send",
                                                         !.batch = cron[k].batch \ {s},
                                                         !.current = s]]
       \/ /\ TransitionRefused(s.challenge, "PAID")
          /\ NextRecord(k, cron[k].batch \ {s})
    /\ UNCHANGED payouts

\* Mutated form of SendRefund: the attempts are not counted against the limit.
SendForever(k) ==
    /\ cron[k].pc = "send"
    /\ \/ /\ payouts[cron[k].current.fromAddress] < MaxPayouts
          /\ payouts' = [payouts EXCEPT ![cron[k].current.fromAddress] = @ + 1]
          /\ cron' = [cron EXCEPT ![k].pc = "confirm"]
       \/ UNCHANGED payouts /\ cron' = [cron EXCEPT ![k].attempt = @ + 1]
    /\ UNCHANGED storeVars

\* sendUsdc under the gas wallet lock. It may fail with nothing sent. With the
\* receipt timeout it has sent the refund and reports a failure all the same;
\* that error is retryable, as some of the others are.
SendRefund(k) ==
    LET payer == cron[k].current.fromAddress
        Broadcast == /\ payouts[payer] < MaxPayouts
                     /\ payouts' = [payouts EXCEPT ![payer] = @ + 1]
        Retry == /\ cron[k].attempt < MaxAttempts
                 /\ cron' = [cron EXCEPT ![k].attempt = @ + 1]
        GiveUp == cron' = [cron EXCEPT ![k].pc = "fail"]
    IN
    /\ cron[k].pc = "send"
    /\ \/ Broadcast /\ cron' = [cron EXCEPT ![k].pc = "confirm"]
       \/ /\ "receipt_timeout" \in Faults
          /\ Broadcast
          /\ Retry \/ (cron[k].attempt = MaxAttempts /\ GiveUp)
       \/ UNCHANGED payouts /\ (Retry \/ GiveUp)
    /\ UNCHANGED storeVars

\* REFUND_PENDING -> REFUNDED. A write that throws is caught together with the
\* errors of the broadcast.
ConfirmRefund(k) ==
    LET c == cron[k].current.challenge IN
    /\ cron[k].pc = "confirm"
    /\ \/ /\ \/ Transition(c, "REFUND_PENDING", "REFUNDED", FALSE, challenges[c])
             \/ TransitionRefused(c, "REFUND_PENDING")
          /\ NextRecord(k, cron[k].batch)
       \/ /\ "confirm_error" \in Faults
          /\ cron' = [cron EXCEPT ![k].pc = "fail"]
          /\ UNCHANGED storeVars
    /\ UNCHANGED payouts

\* Mutated form of FailRefund: the failure is logged and not written.
FailUnwritten(k) ==
    /\ cron[k].pc = "fail"
    /\ NextRecord(k, cron[k].batch)
    /\ UNCHANGED <<storeVars, payouts>>

\* REFUND_PENDING -> REFUND_FAILED. Its result is not looked at, and an error it
\* throws is caught, with the record left REFUND_PENDING.
FailRefund(k) ==
    LET c == cron[k].current.challenge IN
    /\ cron[k].pc = "fail"
    /\ \/ Transition(c, "REFUND_PENDING", "REFUND_FAILED", FALSE, challenges[c])
       \/ TransitionRefused(c, "REFUND_PENDING")
       \/ "confirm_error" \in Faults /\ UNCHANGED storeVars
    /\ NextRecord(k, cron[k].batch)
    /\ UNCHANGED payouts

\* The process dies, or the claim throws: the rest of the batch is dropped.
CronLost(k) ==
    /\ "cron_lost" \in Faults
    /\ cron[k].pc # "idle"
    /\ cron' = [cron EXCEPT ![k] = IdleRun]
    /\ UNCHANGED <<storeVars, payouts>>

-----------------------------------------------------------------------------
\* retryFailedRefunds: REFUND_FAILED -> PAID with the paidAt the record has, so
\* that it is at once old enough again.
RequeueFailed(c) ==
    /\ Transition(c, "REFUND_FAILED", "PAID", TRUE, challenges[c])
    /\ UNCHANGED cronVars

CronStep(k) ==
    \/ FetchBatch(k)
    \/ \E s \in cron[k].batch : ClaimRefund(k, s)
    \/ SendRefund(k)
    \/ ConfirmRefund(k)
    \/ FailRefund(k)

CronNext ==
    \/ \E k \in Cron : CronStep(k) \/ CronLost(k)
    \/ \E c \in Challenge : RequeueFailed(c)
=============================================================================

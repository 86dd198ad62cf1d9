---------------------------- MODULE GatewaySafety ----------------------------
(***************************************************************************)
(* The safety invariants of the gateway, for every number of challenges,   *)
(* requests, transfers, handlers and refund runs, and whatever faults are  *)
(* admitted. Each section strengthens one of them until it is inductive.   *)
(***************************************************************************)
EXTENDS Gateway, EngineProofs

-----------------------------------------------------------------------------
\* Type correctness of the composition: a step of an actor keeps the types it
\* writes (EngineProofs), and leaves the locals of the other actors alone.

LEMMA GatewayInit == Init => TypeInv
  BY InitTypeInv DEF Init

LEMMA TypeInvStep == TypeInv /\ [Next]_vars => TypeInv'
<1> SUFFICES ASSUME TypeInv, [Next]_vars PROVE TypeInv'
  OBVIOUS
<1> USE DEF TypeInv
<1>s. \A c \in Challenge : challenges[c] \in ChallengeRecord
  BY DEF StoreTypeOK
<1>1. CASE EngineNext /\ UNCHANGED cronVars
  <2>1. CronTypeOK' /\ \A k \in Cron : RunOK(cron'[k])
    BY <1>1 DEF cronVars, CronTypeOK, LocalsInv
  <2>2. ASSUME NEW h \in Handler, ClientCall(h) \/ HandlerStep(h) \/ HandlerLost(h)
        PROVE  TypeInv'
    BY <2>1, <2>2, EngineTypeStep DEF LocalsInv
  <2>3. ASSUME NEW t \in Tx, ClientTransfers(t) PROVE TypeInv'
    BY <2>1, <2>3, UnchangedStoreType DEF ClientTransfers, EngineTypeOK, LocalsInv
  <2> QED
    BY <1>1, <2>2, <2>3 DEF EngineNext
<1>2. CASE CronNext /\ UNCHANGED engineVars
  <2>1. EngineTypeOK' /\ \A h \in Handler : CallOK(handler'[h])
    BY <1>2 DEF engineVars, EngineTypeOK, LocalsInv
  <2>2. ASSUME NEW k \in Cron, CronStep(k) \/ CronLost(k) PROVE TypeInv'
    BY <2>1, <2>2, CronTypeStep DEF LocalsInv
  <2>3. ASSUME NEW c \in Challenge, RequeueFailed(c) PROVE TypeInv'
    <3>1. StoreTypeOK'
      BY <2>3, <1>s, TransitionType DEF RequeueFailed, ChallengeState
    <3> QED
      BY <2>1, <2>3, <3>1 DEF RequeueFailed, cronVars, CronTypeOK, LocalsInv
  <2> QED
    BY <1>2, <2>2, <2>3 DEF CronNext
<1>3. CASE ClockNext /\ UNCHANGED <<engineVars, cronVars>>
  <2>1. EngineTypeOK' /\ CronTypeOK' /\ LocalsInv'
    BY <1>3 DEF engineVars, cronVars, EngineTypeOK, CronTypeOK, LocalsInv
  <2>2. ASSUME NEW c \in Challenge, ChallengeLapses(c) PROVE StoreTypeOK'
    <3>1. [challenges[c] EXCEPT !.lapsed = TRUE] \in ChallengeRecord
      BY <1>s DEF ChallengeRecord
    <3> QED
      BY <2>2, <3>1 DEF ChallengeLapses, StoreTypeOK
  <2>3. ASSUME NEW c \in Challenge, GracePeriodPasses(c) PROVE StoreTypeOK'
    <3>1. [challenges[c] EXCEPT !.aged = TRUE] \in ChallengeRecord
      BY <1>s DEF ChallengeRecord
    <3> QED
      BY <2>3, <3>1 DEF GracePeriodPasses, PaymentAges, StoreTypeOK
  <2>4. ASSUME NEW r \in Request, RequestKeyExpires(r) PROVE StoreTypeOK'
    BY <2>4 DEF RequestKeyExpires, StoreTypeOK
  <2> QED
    BY <1>3, <2>1, <2>2, <2>3, <2>4 DEF ClockNext
<1>4. CASE UNCHANGED vars
  BY <1>4 DEF vars, storeVars, engineVars, cronVars, StoreTypeOK, EngineTypeOK,
              CronTypeOK, LocalsInv
<1> QED
  BY <1>1, <1>2, <1>3, <1>4 DEF Next

\* Every variable keeps its type, and every call and every refund run holds the
\* ids its next step uses, whatever faults occur.
THEOREM TypeCorrect == Spec => []TypeOK
<1>1. Spec => []TypeInv
  BY GatewayInit, TypeInvStep, PTL DEF Spec
<1>2. TypeInv => TypeOK
  BY DEF TypeInv, TypeOK
<1> QED
  BY <1>1, <1>2, PTL

-----------------------------------------------------------------------------
\* The clock changes what a record is compared with, and nothing else of it.
LEMMA ClockWrites ==
  ASSUME TypeInv, NEW c \in Challenge, ChallengeLapses(c) \/ GracePeriodPasses(c)
  PROVE  /\ UNCHANGED <<requestIndex, paidSet, seenTx>>
         /\ \A d \in Challenge :
               /\ challenges'[d].state = challenges[d].state
               /\ challenges'[d].txHash = challenges[d].txHash
               /\ challenges'[d].fromAddress = challenges[d].fromAddress
               /\ challenges'[d].accessGrant = challenges[d].accessGrant
  BY TimePasses DEF GracePeriodPasses

-----------------------------------------------------------------------------
\* The refund job cannot overlook a payment.

LEMMA PaidSetStep == TypeInv /\ PaidSetComplete /\ [Next]_vars => PaidSetComplete'
<1> SUFFICES ASSUME TypeInv, PaidSetWhole, [Next]_vars PROVE PaidSetWhole'
  BY DEF PaidSetComplete, PaidSetWhole
<1>u. ASSUME UNCHANGED <<challenges, paidSet>> PROVE PaidSetWhole'
  BY <1>u DEF PaidSetWhole
<1>1. ASSUME NEW h \in Handler, ClientCall(h) \/ HandlerStep(h) \/ HandlerLost(h)
      PROVE  PaidSetWhole'
  BY <1>1, EnginePaidSet
<1>2. ASSUME NEW t \in Tx, ClientTransfers(t) PROVE PaidSetWhole'
  BY <1>2, <1>u DEF ClientTransfers, storeVars
<1>3. CronNext => PaidSetWhole'
  BY CronPaidSet
<1>4. ASSUME NEW c \in Challenge, ChallengeLapses(c) \/ GracePeriodPasses(c)
      PROVE  PaidSetWhole'
  BY <1>4, ClockWrites DEF PaidSetWhole
<1>5. ASSUME NEW r \in Request, RequestKeyExpires(r) PROVE PaidSetWhole'
  BY <1>5, <1>u DEF RequestKeyExpires
<1>6. CASE UNCHANGED vars
  BY <1>6, <1>u DEF vars, storeVars
<1> QED
  BY <1>1, <1>2, <1>3, <1>4, <1>5, <1>6 DEF Next, EngineNext, ClockNext

\* The sorted set that the refund job scans (findPendingForRefund, redis.ts)
\* holds every PAID record without a grant, and PAID records only: no refund is
\* due that the job cannot find.
THEOREM PaidSetCorrect == Spec => []PaidSetComplete
<1>1. Init => PaidSetComplete
  <2> SUFFICES ASSUME Init, NEW c \in Challenge
               PROVE  c \notin paidSet /\ challenges[c].state # "PAID"
    BY DEF PaidSetComplete
  <2> QED
    BY DEF Init, StoreInit, AbsentRecord
<1> QED
  BY <1>1, GatewayInit, TypeInvStep, PaidSetStep, PTL DEF Spec

-----------------------------------------------------------------------------
\* One refund run at a time works on a challenge: the record a run has claimed
\* stays REFUND_PENDING until that run is done with it.

ClaimHeld ==
    \A k \in Cron, c \in Challenge :
        Refunding(k, c) => challenges[c].state = "REFUND_PENDING"

RefundInv == ClaimHeld /\ OneRefundRunPerChallenge

\* A write elsewhere: no record leaves REFUND_PENDING, and runs only let go.
LEMMA RefundKept ==
  ASSUME TypeInv, RefundInv, NEW K \in SUBSET Cron,
         \A k \in Cron : IF k \in K THEN cron'[k].current = NoSnapshot
                                   ELSE cron'[k].current = cron[k].current,
         \A c \in Challenge :
            /\ challenges[c].state = "REFUND_PENDING"
            /\ \A k \in K : ~ Refunding(k, c)
            => challenges'[c].state = "REFUND_PENDING"
  PROVE  RefundInv'
<1>1. ClaimHeld'
  <2> SUFFICES ASSUME NEW k \in Cron, NEW c \in Challenge, Refunding(k, c)'
               PROVE  challenges'[c].state = "REFUND_PENDING"
    BY DEF ClaimHeld
  <2>1. k \notin K /\ Refunding(k, c)
    BY DEF Refunding
  <2>2. \A j \in K : ~ Refunding(j, c)
    BY <2>1 DEF RefundInv, OneRefundRunPerChallenge, Refunding
  <2> QED
    BY <2>1, <2>2 DEF RefundInv, ClaimHeld
<1>2. OneRefundRunPerChallenge'
  <2> SUFFICES ASSUME NEW j \in Cron, NEW k \in Cron, j # k,
                      cron'[j].current # NoSnapshot,
                      cron'[j].current.challenge = cron'[k].current.challenge
               PROVE  FALSE
    BY DEF OneRefundRunPerChallenge
  <2>1. cron[j].current # NoSnapshot /\ cron'[j].current = cron[j].current
    OBVIOUS
  <2>2. cron[j].current.challenge # NoChallenge
    BY <2>1, RunHolds, StoreAssumption DEF Run
  <2>3. cron'[k].current = cron[k].current
    BY <2>1, <2>2 DEF NoSnapshot
  <2> QED
    BY <2>1, <2>3 DEF RefundInv, OneRefundRunPerChallenge
<1> QED
  BY <1>1, <1>2 DEF RefundInv

LEMMA RefundStep == TypeInv /\ RefundInv /\ [Next]_vars => RefundInv'
<1> SUFFICES ASSUME TypeInv, RefundInv, [Next]_vars PROVE RefundInv'
  OBVIOUS
<1>s. /\ challenges \in [Challenge -> ChallengeRecord]
      /\ cron \in [Cron -> Run]
  BY DEF TypeInv, StoreTypeOK, CronTypeOK
<1>e. ASSUME \A j \in Cron : cron'[j].current = cron[j].current,
             \A c \in Challenge : challenges[c].state = "REFUND_PENDING"
                                     => challenges'[c].state = "REFUND_PENDING"
      PROVE  RefundInv'
  <2> DEFINE K == {}
  <2>1. /\ K \in SUBSET Cron
        /\ \A j \in Cron : IF j \in K THEN cron'[j].current = NoSnapshot
                                      ELSE cron'[j].current = cron[j].current
        /\ \A c \in Challenge :
               /\ challenges[c].state = "REFUND_PENDING"
               /\ \A k \in K : ~ Refunding(k, c)
               => challenges'[c].state = "REFUND_PENDING"
    BY <1>e
  <2> HIDE DEF K
  <2> QED
    BY <2>1, RefundKept
<1>r. ASSUME NEW k \in Cron,
             \A j \in Cron : cron'[j].current = IF j = k THEN NoSnapshot ELSE cron[j].current,
             \A c \in Challenge : challenges[c].state = "REFUND_PENDING" /\ ~ Refunding(k, c)
                                     => challenges'[c].state = "REFUND_PENDING"
      PROVE  RefundInv'
  <2> DEFINE K == {k}
  <2>1. /\ K \in SUBSET Cron
        /\ \A j \in Cron : IF j \in K THEN cron'[j].current = NoSnapshot
                                      ELSE cron'[j].current = cron[j].current
        /\ \A c \in Challenge :
               /\ challenges[c].state = "REFUND_PENDING"
               /\ \A j \in K : ~ Refunding(j, c)
               => challenges'[c].state = "REFUND_PENDING"
    BY <1>r
  <2> HIDE DEF K
  <2> QED
    BY <2>1, RefundKept
<1>t. ASSUME NEW c \in Challenge, NEW from, NEW to \in ChallengeState, NEW scored,
             NEW rec \in ChallengeRecord, Transition(c, from, to, scored, rec)
      PROVE  /\ challenges[c].state = from
             /\ \A d \in Challenge : challenges'[d].state =
                                        IF d = c THEN to ELSE challenges[d].state
  BY <1>t, <1>s DEF Transition, ChallengeRecord
<1>1. ASSUME NEW h \in Handler, ClientCall(h) \/ HandlerStep(h) \/ HandlerLost(h),
             UNCHANGED cron
      PROVE  RefundInv'
  <2>1. ASSUME NEW c \in Challenge, NEW r \in Request, Create(c, r)
        PROVE  RefundInv'
    BY <1>1, <2>1, <1>e, <1>s DEF Create
  <2>2. ASSUME NEW c \in Challenge, NEW from \in {"PENDING", "PAID"},
               NEW to \in ChallengeState, NEW scored \in BOOLEAN,
               NEW rec \in ChallengeRecord, Transition(c, from, to, scored, rec)
        PROVE  RefundInv'
    BY <1>1, <2>2, <1>e, <1>t
  <2> QED
    BY <1>1, <1>e, <2>1, <2>2, EngineWrites
<1>2. ASSUME NEW k \in Cron, FetchBatch(k) PROVE RefundInv'
  <2>1. cron[k].pc = "idle" /\ UNCHANGED challenges
    BY <1>2 DEF FetchBatch, storeVars
  <2>2. \A j \in Cron : cron'[j].current = cron[j].current
    BY <1>2, <1>s, <2>1, RunHolds DEF FetchBatch, NextRecord, IdleRun
  <2> QED
    BY <2>1, <2>2, <1>e
<1>3. ASSUME NEW k \in Cron, NEW s \in cron[k].batch, ClaimRefund(k, s) PROVE RefundInv'
  <2>1. s \in Snapshot /\ s.challenge \in Challenge /\ s # NoSnapshot
    BY <1>s, StoreAssumption DEF Run, Snapshot, NoSnapshot
  <2>2. cron[k].current = NoSnapshot
    BY <1>3, RunHolds DEF ClaimRefund
  <2>3. CASE TransitionRefused(s.challenge, "PAID") /\ NextRecord(k, cron[k].batch \ {s})
    <3>1. \A j \in Cron : cron'[j].current = cron[j].current
      BY <1>s, <2>2, <2>3 DEF NextRecord, IdleRun
    <3> QED
      BY <2>3, <3>1, <1>e DEF TransitionRefused, storeVars
  <2>4. CASE /\ Transition(s.challenge, "PAID", "REFUND_PENDING", FALSE,
                           challenges[s.challenge])
             /\ cron' = [cron EXCEPT ![k] = [IdleRun EXCEPT !.pc = "send",
                                                            !.batch = cron[k].batch \ {s},
                                                            !.current = s]]
    <3>1. /\ challenges[s.challenge].state = "PAID"
          /\ \A d \in Challenge : challenges'[d].state =
                 IF d = s.challenge THEN "REFUND_PENDING" ELSE challenges[d].state
      BY <2>1, <2>4, <1>s, <1>t DEF ChallengeState
    <3>2. \A j \in Cron : cron'[j].current = IF j = k THEN s ELSE cron[j].current
      BY <2>4, <1>s DEF IdleRun
    <3>3. \A j \in Cron : ~ Refunding(j, s.challenge)
      BY <2>1, <3>1 DEF RefundInv, ClaimHeld
    <3>4. ClaimHeld'
      BY <3>1, <3>2 DEF RefundInv, ClaimHeld, Refunding
    <3>5. ASSUME NEW i \in Cron, NEW j \in Cron, i # j,
                 cron'[i].current # NoSnapshot,
                 cron'[i].current.challenge = cron'[j].current.challenge
          PROVE  FALSE
      <4>1. CASE i # k /\ j # k
        BY <3>2, <3>5, <4>1 DEF RefundInv, OneRefundRunPerChallenge
      <4>2. CASE i = k
        <5>1. cron[j].current.challenge = s.challenge
          BY <3>2, <3>5, <4>2
        <5>2. cron[j].current = NoSnapshot
          BY <3>3, <5>1 DEF Refunding
        <5> QED
          BY <2>1, <5>1, <5>2, StoreAssumption DEF NoSnapshot
      <4>3. CASE j = k
        BY <3>2, <3>3, <3>5, <4>3 DEF Refunding
      <4> QED
        BY <4>1, <4>2, <4>3
    <3> QED
      BY <3>4, <3>5 DEF RefundInv, OneRefundRunPerChallenge
  <2> QED
    BY <1>3, <2>3, <2>4 DEF ClaimRefund
<1>4. ASSUME NEW k \in Cron, SendRefund(k) PROVE RefundInv'
  <2>1. \A j \in Cron : cron'[j].current = cron[j].current
    BY <1>4, <1>s DEF SendRefund, Run
  <2> QED
    BY <1>4, <2>1, <1>e DEF SendRefund, storeVars
<1>5. ASSUME NEW k \in Cron, ConfirmRefund(k) \/ FailRefund(k) PROVE RefundInv'
  <2> DEFINE c == cron[k].current.challenge
  <2>1. c \in Challenge /\ Refunding(k, c)
    BY <1>5, RunHolds DEF ConfirmRefund, FailRefund, Refunding
  <2>2. ASSUME NEW to \in {"REFUNDED", "REFUND_FAILED"},
               \/ Transition(c, "REFUND_PENDING", to, FALSE, challenges[c])
               \/ UNCHANGED storeVars,
               NextRecord(k, cron[k].batch)
        PROVE  RefundInv'
    <3>1. \A j \in Cron : cron'[j].current = IF j = k THEN NoSnapshot ELSE cron[j].current
      BY <2>2, <1>s DEF NextRecord, IdleRun
    <3>2. \A d \in Challenge : d # c => challenges'[d].state = challenges[d].state
      BY <2>1, <2>2, <1>s DEF Transition, storeVars
    <3>3. \A d \in Challenge : ~ Refunding(k, d) => challenges'[d].state = challenges[d].state
      BY <2>1, <3>2 DEF Refunding
    <3> QED
      BY <3>1, <3>3, <1>r
  <2>3. ASSUME cron' = [cron EXCEPT ![k].pc = "fail"], UNCHANGED challenges
        PROVE  RefundInv'
    <3>1. \A j \in Cron : cron'[j].current = cron[j].current
      BY <2>3, <1>s DEF Run
    <3> QED
      BY <2>3, <3>1, <1>e
  <2> QED
    BY <1>5, <2>2, <2>3 DEF ConfirmRefund, FailRefund, TransitionRefused, storeVars
<1>6. ASSUME NEW k \in Cron, CronLost(k) PROVE RefundInv'
  <2>1. \A j \in Cron : cron'[j].current = IF j = k THEN NoSnapshot ELSE cron[j].current
    BY <1>6, <1>s DEF CronLost, IdleRun
  <2> QED
    BY <1>6, <2>1, <1>r DEF CronLost, storeVars
<1>7. ASSUME NEW c \in Challenge, RequeueFailed(c) PROVE RefundInv'
  BY <1>7, <1>s, <1>t, <1>e DEF RequeueFailed, cronVars, ChallengeState
<1>8. CASE ClockNext /\ UNCHANGED <<engineVars, cronVars>>
  <2>1. \A c \in Challenge : challenges'[c].state = challenges[c].state
    BY <1>8, ClockWrites DEF ClockNext, RequestKeyExpires
  <2> QED
    BY <1>8, <2>1, <1>e DEF cronVars
<1>9. CASE UNCHANGED vars
  BY <1>9, <1>e DEF vars, storeVars, cronVars
<1>10. ASSUME NEW t \in Tx, ClientTransfers(t), UNCHANGED cron PROVE RefundInv'
  BY <1>10, <1>e DEF ClientTransfers, storeVars
<1>11. EngineNext /\ UNCHANGED cronVars => RefundInv'
  BY <1>1, <1>10 DEF EngineNext, cronVars
<1>12. CronNext => RefundInv'
  BY <1>2, <1>3, <1>4, <1>5, <1>6, <1>7 DEF CronNext, CronStep
<1> QED
  BY <1>8, <1>9, <1>11, <1>12 DEF Next

LEMMA RefundCorrect == Spec => []RefundInv
<1>1. Init => RefundInv
  <2> SUFFICES ASSUME Init PROVE \A k \in Cron : cron[k].current = NoSnapshot
    BY DEF RefundInv, ClaimHeld, Refunding, OneRefundRunPerChallenge
  <2> QED
    BY DEF Init, CronInit, IdleRun
<1> QED
  BY <1>1, GatewayInit, TypeInvStep, RefundStep, PTL DEF Spec

\* The PAID -> REFUND_PENDING compare-and-swap of processRefunds (refund.ts)
\* gives a challenge to one run: no two instances of the job send a refund for
\* it at the same time, whatever batches they read.
THEOREM RefundRunsExclude == Spec => []OneRefundRunPerChallenge
<1>1. RefundInv => OneRefundRunPerChallenge
  BY DEF RefundInv
<1> QED
  BY <1>1, RefundCorrect, PTL

-----------------------------------------------------------------------------
\* One call serves a challenge, and a grant belongs to the transfer it was
\* issued for. While a call is between PAID and its end the record stays paid
\* with that call's transfer; a grant is only held by a paid record.

PaidStates == {"PAID", "DELIVERED", "REFUND_PENDING", "REFUNDED", "REFUND_FAILED"}

ServesPaid(l) ==
    l.pc \in AfterPaid =>
        /\ challenges[l.challenge].state \in PaidStates
        /\ challenges[l.challenge].txHash = l.tx
        /\ l.pc \in {"mark", "rollback"} => challenges[l.challenge].accessGrant = NoTx
        /\ l.pc \in {"issue", "persist", "deliver"} => seenTx[l.tx] = l.challenge

GrantHeld(c) ==
    challenges[c].accessGrant # NoTx =>
        /\ challenges[c].state \in PaidStates
        /\ challenges[c].txHash = challenges[c].accessGrant
        /\ seenTx[challenges[c].accessGrant] = c

ServiceInv ==
    /\ \A h \in Handler : ServesPaid(handler[h])
    /\ \A c \in Challenge : GrantHeld(c)
    /\ OneServerPerChallenge

\* What every write but PENDING -> PAID, a rollback and a grant leaves alone.
RecordsKept ==
    \A c \in Challenge :
        /\ challenges'[c].accessGrant = challenges[c].accessGrant
        /\ challenges[c].state \in PaidStates =>
              /\ challenges'[c].state \in PaidStates
              /\ challenges'[c].txHash = challenges[c].txHash

LEMMA ServingLocals ==
  ASSUME TypeInv, NEW h \in Handler
  PROVE  /\ handler[h] \in Locals
         /\ handler[h].pc \in {"pay"} \cup AfterPaid =>
               handler[h].challenge \in Challenge /\ handler[h].tx \in Tx
  BY DEF TypeInv, EngineTypeOK, LocalsInv, CallOK, AfterPaid

LEMMA TransitionKeeps ==
  ASSUME TypeInv, NEW c \in Challenge, NEW from, NEW to \in ChallengeState, NEW scored,
         Transition(c, from, to, scored, challenges[c]),
         from \in PaidStates => to \in PaidStates
  PROVE  RecordsKept /\ UNCHANGED seenTx
<1>1. challenges \in [Challenge -> ChallengeRecord]
  BY DEF TypeInv, StoreTypeOK
<1> QED
  BY <1>1 DEF Transition, RecordsKept, ChallengeRecord

\* Steps that serve nobody: records are kept, claims stand, and a call goes on
\* as it was or is past its service.
LEMMA ServiceKept ==
  ASSUME TypeInv, ServiceInv, RecordsKept,
         \A t \in Tx : seenTx[t] # NoChallenge => seenTx'[t] = seenTx[t],
         \A h \in Handler : handler'[h] = handler[h] \/ handler'[h].pc \notin AfterPaid
  PROVE  ServiceInv'
<1>1. ASSUME NEW h \in Handler PROVE ServesPaid(handler[h])'
  <2>1. CASE handler'[h] = handler[h] /\ handler[h].pc \in AfterPaid
    <3>1. handler[h].challenge \in Challenge /\ handler[h].tx \in Tx
      BY <2>1, ServingLocals
    <3>2. handler[h].challenge # NoChallenge
      BY <3>1, StoreAssumption
    <3> QED
      BY <2>1, <3>1, <3>2 DEF ServiceInv, ServesPaid, RecordsKept
  <2> QED
    BY <2>1 DEF ServesPaid
<1>2. ASSUME NEW c \in Challenge PROVE GrantHeld(c)'
  <2>1. challenges[c].accessGrant \in Tx \cup {NoTx} /\ c # NoChallenge
    BY StoreAssumption DEF TypeInv, StoreTypeOK, ChallengeRecord
  <2> QED
    BY <2>1 DEF ServiceInv, GrantHeld, RecordsKept
<1>3. OneServerPerChallenge'
  BY DEF ServiceInv, OneServerPerChallenge, Serving
<1> QED
  BY <1>1, <1>2, <1>3 DEF ServiceInv

\* A step of the one call that serves c, or is about to.
LEMMA ServiceMoves ==
  ASSUME TypeInv, ServiceInv, NEW h \in Handler, NEW c \in Challenge,
         handler[h].challenge = c,
         \A g \in Handler \ {h} : handler'[g] = handler[g] /\ ~ Serving(g, c),
         handler'[h].pc \in AfterPaid => handler'[h].challenge = c,
         \A d \in Challenge \ {c} : challenges'[d] = challenges[d],
         \A t \in Tx : seenTx[t] # NoChallenge => seenTx'[t] = seenTx[t],
         ServesPaid(handler[h])', \A d \in Challenge : d = c => GrantHeld(d)'
  PROVE  ServiceInv'
<1>1. ASSUME NEW g \in Handler \ {h} PROVE ServesPaid(handler[g])'
  <2>1. CASE handler[g].pc \in AfterPaid
    <3>1. /\ handler[g].challenge \in Challenge \ {c} /\ handler[g].tx \in Tx
          /\ handler[g].challenge # NoChallenge
      BY <2>1, ServingLocals, StoreAssumption DEF Serving
    <3> QED
      BY <2>1, <3>1 DEF ServiceInv, ServesPaid
  <2> QED
    BY <2>1 DEF ServesPaid
<1>2. ASSUME NEW d \in Challenge \ {c} PROVE GrantHeld(d)'
  <2>1. challenges[d].accessGrant \in Tx \cup {NoTx} /\ d # NoChallenge
    BY StoreAssumption DEF TypeInv, StoreTypeOK, ChallengeRecord
  <2> QED
    BY <2>1 DEF ServiceInv, GrantHeld
<1>3. OneServerPerChallenge'
  BY DEF ServiceInv, OneServerPerChallenge, Serving
<1> QED
  BY <1>1, <1>2, <1>3 DEF ServiceInv

\* A call that serves c is the only one that does.
LEMMA OnlyServer ==
  ASSUME TypeInv, ServiceInv, NEW h \in Handler, handler[h].pc \in AfterPaid
  PROVE  /\ handler[h].challenge \in Challenge
         /\ \A g \in Handler \ {h} : ~ Serving(g, handler[h].challenge)
  BY ServingLocals DEF ServiceInv, OneServerPerChallenge, Serving

LEMMA ServiceCall ==
  ASSUME TypeInv, ServiceInv, NEW h \in Handler,
         ClientCall(h) \/ HandlerStep(h) \/ HandlerLost(h)
  PROVE  ServiceInv'
<1> DEFINE c == handler[h].challenge
           t == handler[h].tx
<1>s. /\ challenges \in [Challenge -> ChallengeRecord]
      /\ seenTx \in [Tx -> Challenge \cup {NoChallenge}]
      /\ handler \in [Handler -> Locals]
      /\ CallOK(handler[h])
  BY DEF TypeInv, StoreTypeOK, EngineTypeOK, LocalsInv
<1>k. ASSUME RecordsKept, UNCHANGED seenTx,
             \A g \in Handler : handler'[g] = handler[g] \/ handler'[g].pc \notin AfterPaid
      PROVE  ServiceInv'
  BY <1>k, ServiceKept
<1>u. UNCHANGED storeVars => RecordsKept /\ UNCHANGED seenTx
  BY DEF storeVars, RecordsKept
<1>r. Return(h) => \A g \in Handler : \/ handler'[g] = handler[g]
                                       \/ handler'[g].pc \notin AfterPaid
  BY <1>s DEF Return, Idle, AfterPaid
<1>g. ASSUME NEW pc \in AwaitPoint, Goto(h, pc)
      PROVE  /\ handler'[h] = [handler[h] EXCEPT !.pc = pc]
             /\ handler'[h].pc = pc
             /\ handler'[h].challenge = c /\ handler'[h].tx = t
             /\ \A g \in Handler \ {h} : handler'[g] = handler[g]
  BY <1>g, <1>s DEF Goto, Locals
<1>1. ClientCall(h) => ServiceInv'
  <2> SUFFICES ASSUME ClientCall(h) PROVE ServiceInv'
    OBVIOUS
  <2>l. ASSUME NEW l, handler' = [handler EXCEPT ![h] = l], l.pc \notin AfterPaid
        PROVE  \A g \in Handler : handler'[g] = handler[g] \/ handler'[g].pc \notin AfterPaid
    BY <2>l, <1>s
  <2>1. \A g \in Handler : handler'[g] = handler[g] \/ handler'[g].pc \notin AfterPaid
    <3>1. ASSUME NEW r \in Request
          PROVE  [Idle EXCEPT !.pc = "create", !.kind = "access", !.requestId = r].pc
                   \notin AfterPaid
      BY DEF Idle, AfterPaid
    <3>2. ASSUME NEW d \in Challenge, NEW u \in Tx
          PROVE  [Idle EXCEPT !.pc = IF challenges[d].lapsed THEN "expire" ELSE "seen",
                              !.kind = "proof", !.challenge = d, !.tx = u].pc
                   \notin AfterPaid
      BY DEF Idle, AfterPaid
    <3>3. ASSUME NEW r \in Request, NEW u \in Tx
          PROVE  [Idle EXCEPT !.pc = "settle", !.kind = "http", !.requestId = r, !.tx = u].pc
                   \notin AfterPaid
      BY DEF Idle, AfterPaid
    <3>4. ASSUME NEW d \in Challenge
          PROVE  [Idle EXCEPT !.pc = "cancel", !.kind = "cancel", !.challenge = d].pc
                   \notin AfterPaid
      BY DEF Idle, AfterPaid
    <3>5. ASSUME NEW r \in Request, NEW u \in Tx
          PROVE  [Idle EXCEPT !.pc = "settle", !.kind = "agent", !.requestId = r, !.tx = u].pc
                   \notin AfterPaid
      BY DEF Idle, AfterPaid
    <3> QED
      BY <2>l, <3>1, <3>2, <3>3, <3>4, <3>5
      DEF ClientCall, RequestAccess, SubmitProof, PreSettlementCheck, SettleUnchecked,
         CancelRequest
  <2>2. UNCHANGED storeVars
    BY DEF ClientCall, RequestAccess, SubmitProof, PreSettlementCheck, SettleUnchecked,
         CancelRequest
  <2> QED
    BY <2>1, <2>2, <1>u, <1>k
<1>2. HandlerLost(h) \/ NoChallengeLeft(h) => ServiceInv'
  BY <1>r, <1>u, <1>k DEF HandlerLost, NoChallengeLeft
<1>3. CheckSeenTx(h) \/ VerifyProof(h) \/ SettlePayment(h) \/ FindActive(h) => ServiceInv'
  <2> SUFFICES ASSUME CheckSeenTx(h) \/ VerifyProof(h) \/ SettlePayment(h) \/ FindActive(h)
               PROVE  ServiceInv'
    OBVIOUS
  <2>1. UNCHANGED storeVars
    BY DEF CheckSeenTx, VerifyProof, SettlePayment, FindActive
  <2>2. \/ Return(h)
        \/ \E pc \in AwaitPoint \ AfterPaid : Goto(h, pc)
        \/ handler' = [handler EXCEPT ![h].pc = "seen", ![h].kind = "http"]
        \/ handler' = [handler EXCEPT ![h].pc = "pay",
                                     ![h].challenge = requestIndex[handler[h].requestId]]
    BY DEF CheckSeenTx, VerifyProof, SettlePayment, FindActive, AwaitPoint, AfterPaid
  <2>3. \A g \in Handler : handler'[g] = handler[g] \/ handler'[g].pc \notin AfterPaid
    BY <2>2, <1>r, <1>s DEF Goto, Locals, AfterPaid
  <2> QED
    BY <2>1, <2>3, <1>u, <1>k
<1>4. ASSUME NEW d \in Challenge, CreateChallenge(h, d) PROVE ServiceInv'
  <2>1. \A g \in Handler : handler'[g] = handler[g] \/ handler'[g].pc \notin AfterPaid
    BY <1>4, <1>r, <1>s DEF CreateChallenge, Locals, AfterPaid
  <2>2. RecordsKept /\ UNCHANGED seenTx
    <3>1. challenges[d].accessGrant = NoTx
      BY <1>4 DEF CreateChallenge, Create, ServiceInv, GrantHeld, PaidStates
    <3> QED
      BY <1>4, <1>s, <3>1 DEF CreateChallenge, Create, RecordsKept, PaidStates, AbsentRecord
  <2> QED
    BY <2>1, <2>2, <1>k
<1>5. ExpireChallenge(h) \/ CancelChallenge(h) => ServiceInv'
  <2> SUFFICES ASSUME ExpireChallenge(h) \/ CancelChallenge(h) PROVE ServiceInv'
    OBVIOUS
  <2>1. c \in Challenge
    BY <1>s DEF ExpireChallenge, CancelChallenge, At, CallOK, AfterPaid
  <2>2. RecordsKept /\ UNCHANGED seenTx
    BY <2>1, <1>u, TransitionKeeps
    DEF ExpireChallenge, CancelChallenge, TransitionRefused, ChallengeState, PaidStates
  <2> QED
    BY <2>2, <1>r, <1>k DEF ExpireChallenge, CancelChallenge
<1>6. Deliver(h) => ServiceInv'
  <2> SUFFICES ASSUME Deliver(h) PROVE ServiceInv'
    OBVIOUS
  <2>1. c \in Challenge
    BY <1>s DEF Deliver, At, CallOK, AfterPaid
  <2>2. RecordsKept /\ UNCHANGED seenTx
    BY <2>1, <1>u, TransitionKeeps
    DEF Deliver, TransitionRefused, ChallengeState, PaidStates
  <2> QED
    BY <2>2, <1>r, <1>k DEF Deliver
<1>7. PayChallenge(h) => ServiceInv'
  <2> SUFFICES ASSUME PayChallenge(h) PROVE ServiceInv'
    OBVIOUS
  <2>1. c \in Challenge /\ t \in Tx
    BY ServingLocals DEF PayChallenge, At
  <2>2. CASE TransitionRefused(c, "PENDING") /\ Return(h)
    BY <2>2, <1>r, <1>u, <1>k DEF TransitionRefused
  <2>3. ASSUME NEW from \in Payers(t),
               Transition(c, "PENDING", "PAID", TRUE, Paid(challenges[c], t, from)),
               Goto(h, "mark")
        PROVE  ServiceInv'
    <3>1. /\ challenges[c].state = "PENDING"
          /\ challenges' = [challenges EXCEPT ![c] =
                               [Paid(challenges[c], t, from) EXCEPT !.state = "PAID"]]
          /\ UNCHANGED seenTx
      BY <2>3 DEF Transition
    <3>2. challenges[c].accessGrant = NoTx
      BY <2>1, <3>1 DEF ServiceInv, GrantHeld, PaidStates
    <3>3. /\ challenges'[c].state = "PAID"
          /\ challenges'[c].txHash = t
          /\ challenges'[c].accessGrant = NoTx
      BY <2>1, <3>1, <3>2, <1>s DEF Paid, ChallengeRecord
    <3>4. \A d \in Challenge \ {c} : challenges'[d] = challenges[d]
      BY <2>1, <3>1, <1>s
    <3>5. \A g \in Handler : ~ Serving(g, c)
      BY <3>1 DEF ServiceInv, ServesPaid, Serving, PaidStates
    <3>6. /\ handler'[h].pc = "mark" /\ handler'[h].challenge = c /\ handler'[h].tx = t
          /\ \A g \in Handler \ {h} : handler'[g] = handler[g]
      BY <2>3, <1>g DEF AwaitPoint
    <3>7. ServesPaid(handler[h])' /\ \A d \in Challenge : d = c => GrantHeld(d)'
      BY <3>3, <3>6 DEF ServesPaid, GrantHeld, PaidStates
    <3> QED
      BY <2>1, <3>1, <3>4, <3>5, <3>6, <3>7, ServiceMoves
  <2> QED
    BY <2>2, <2>3 DEF PayChallenge
<1>8. ClaimTx(h) => ServiceInv'
  <2> SUFFICES ASSUME ClaimTx(h) PROVE ServiceInv'
    OBVIOUS
  <2>1. c \in Challenge /\ t \in Tx /\ handler[h].pc = "mark"
    BY ServingLocals DEF ClaimTx, At, AfterPaid
  <2>2. \A g \in Handler \ {h} : ~ Serving(g, c)
    BY <2>1, OnlyServer DEF AfterPaid
  <2>3. /\ UNCHANGED challenges
        /\ \A u \in Tx : seenTx[u] # NoChallenge => seenTx'[u] = seenTx[u]
    BY <2>1, <1>s DEF ClaimTx, MarkUsed, storeVars
  <2>4. /\ challenges[c].state \in PaidStates /\ challenges[c].txHash = t
        /\ challenges[c].accessGrant = NoTx
    BY <2>1 DEF ServiceInv, ServesPaid, AfterPaid
  <2>5. \A d \in Challenge : d = c => GrantHeld(d)'
    BY <2>3, <2>4 DEF GrantHeld
  <2>6. CASE MarkUsed(t, c) /\ Goto(h, "issue")
    <3>1. seenTx'[t] = c
      BY <2>1, <2>6, <1>s DEF MarkUsed
    <3>2. /\ handler'[h].pc = "issue" /\ handler'[h].challenge = c /\ handler'[h].tx = t
          /\ \A g \in Handler \ {h} : handler'[g] = handler[g]
      BY <2>6, <1>g DEF AwaitPoint
    <3>3. ServesPaid(handler[h])'
      BY <2>3, <2>4, <3>1, <3>2 DEF ServesPaid
    <3> QED
      BY <2>1, <2>2, <2>3, <2>5, <3>2, <3>3, ServiceMoves
  <2>7. CASE Goto(h, "rollback")
    <3>1. /\ handler'[h].pc = "rollback" /\ handler'[h].challenge = c /\ handler'[h].tx = t
          /\ \A g \in Handler \ {h} : handler'[g] = handler[g]
      BY <2>7, <1>g DEF AwaitPoint
    <3>2. ServesPaid(handler[h])'
      BY <2>3, <2>4, <3>1 DEF ServesPaid
    <3> QED
      BY <2>1, <2>2, <2>3, <2>5, <3>1, <3>2, ServiceMoves
  <2> QED
    BY <2>6, <2>7 DEF ClaimTx
<1>9. RollBack(h) => ServiceInv'
  <2> SUFFICES ASSUME RollBack(h) PROVE ServiceInv'
    OBVIOUS
  <2>1. c \in Challenge /\ handler[h].pc = "rollback"
    BY ServingLocals DEF RollBack, At, AfterPaid
  <2>2. CASE TransitionRefused(c, "PAID")
    BY <2>2, <1>r, <1>u, <1>k DEF RollBack, TransitionRefused
  <2>3. CASE Transition(c, "PAID", "PENDING", FALSE, challenges[c])
    <3>1. \A g \in Handler \ {h} : ~ Serving(g, c)
      BY <2>1, OnlyServer DEF AfterPaid
    <3>2. challenges[c].accessGrant = NoTx
      BY <2>1 DEF ServiceInv, ServesPaid, AfterPaid
    <3>3. /\ challenges'[c].accessGrant = NoTx
          /\ \A d \in Challenge \ {c} : challenges'[d] = challenges[d]
          /\ UNCHANGED seenTx
      BY <2>1, <2>3, <3>2, <1>s DEF Transition, ChallengeRecord
    <3>4. /\ handler'[h].pc = "idle"
          /\ \A g \in Handler \ {h} : handler'[g] = handler[g]
      BY <1>s DEF RollBack, Return, Idle
    <3>5. /\ ServesPaid(handler[h])' /\ handler'[h].pc \notin AfterPaid
          /\ \A d \in Challenge : d = c => GrantHeld(d)'
      BY <3>3, <3>4 DEF ServesPaid, GrantHeld, AfterPaid
    <3> QED
      BY <2>1, <3>1, <3>3, <3>4, <3>5, ServiceMoves
  <2> QED
    BY <2>2, <2>3 DEF RollBack
<1>10. IssueToken(h) => ServiceInv'
  <2> SUFFICES ASSUME IssueToken(h) PROVE ServiceInv'
    OBVIOUS
  <2>1. c \in Challenge /\ handler[h].pc = "issue"
    BY ServingLocals DEF IssueToken, At, AfterPaid
  <2>2. UNCHANGED <<challenges, seenTx>>
    BY DEF IssueToken, storeVars
  <2>3. CASE Return(h)
    BY <2>3, <1>r, <1>u, <1>k DEF IssueToken
  <2>4. CASE Goto(h, "persist")
    <3>1. \A g \in Handler \ {h} : ~ Serving(g, c)
      BY <2>1, OnlyServer DEF AfterPaid
    <3>2. /\ handler'[h].pc = "persist" /\ handler'[h].challenge = c /\ handler'[h].tx = t
          /\ \A g \in Handler \ {h} : handler'[g] = handler[g]
      BY <2>4, <1>g DEF AwaitPoint
    <3>3. ServesPaid(handler[h])' /\ \A d \in Challenge : d = c => GrantHeld(d)'
      BY <2>1, <2>2, <3>2 DEF ServiceInv, ServesPaid, GrantHeld, AfterPaid
    <3> QED
      BY <2>1, <2>2, <3>1, <3>2, <3>3, ServiceMoves
  <2> QED
    BY <2>3, <2>4 DEF IssueToken
<1>11. PersistGrant(h) => ServiceInv'
  <2> SUFFICES ASSUME PersistGrant(h) PROVE ServiceInv'
    OBVIOUS
  <2>1. c \in Challenge /\ t \in Tx /\ handler[h].pc = "persist"
    BY ServingLocals DEF PersistGrant, At, AfterPaid
  <2>2. \A g \in Handler \ {h} : ~ Serving(g, c)
    BY <2>1, OnlyServer DEF AfterPaid
  <2>3. /\ handler'[h].pc = "deliver" /\ handler'[h].challenge = c /\ handler'[h].tx = t
        /\ \A g \in Handler \ {h} : handler'[g] = handler[g]
    BY <1>g DEF PersistGrant, AwaitPoint
  <2>4. /\ challenges[c].state \in PaidStates /\ challenges[c].txHash = t
        /\ seenTx[t] = c
    BY <2>1 DEF ServiceInv, ServesPaid, AfterPaid
  <2>5. CASE TransitionRefused(c, "PAID")
    <3>1. UNCHANGED <<challenges, seenTx>>
      BY <2>5 DEF TransitionRefused, storeVars
    <3>2. ServesPaid(handler[h])' /\ \A d \in Challenge : d = c => GrantHeld(d)'
      BY <2>1, <2>3, <2>4, <3>1 DEF ServiceInv, ServesPaid, GrantHeld
    <3> QED
      BY <2>1, <2>2, <2>3, <3>1, <3>2, ServiceMoves
  <2>6. CASE Transition(c, "PAID", "PAID", FALSE,
                        [challenges[c] EXCEPT !.accessGrant = t])
    <3>1. /\ challenges'[c].state = "PAID"
          /\ challenges'[c].txHash = t
          /\ challenges'[c].accessGrant = t
          /\ \A d \in Challenge \ {c} : challenges'[d] = challenges[d]
          /\ UNCHANGED seenTx
      BY <2>1, <2>4, <2>6, <1>s DEF Transition, ChallengeRecord
    <3>2. ServesPaid(handler[h])' /\ \A d \in Challenge : d = c => GrantHeld(d)'
      BY <2>3, <2>4, <3>1 DEF ServesPaid, GrantHeld, PaidStates
    <3> QED
      BY <2>1, <2>2, <2>3, <3>1, <3>2, ServiceMoves
  <2> QED
    BY <2>5, <2>6 DEF PersistGrant
<1> QED
  BY <1>1, <1>2, <1>3, <1>4, <1>5, <1>6, <1>7, <1>8, <1>9, <1>10, <1>11 DEF HandlerStep

\* Refund runs and operators take a record from one paid state to another.
LEMMA CronKeepsRecords ==
  ASSUME TypeInv, CronNext
  PROVE  RecordsKept /\ UNCHANGED seenTx
<1>u. UNCHANGED storeVars => RecordsKept /\ UNCHANGED seenTx
  BY DEF storeVars, RecordsKept
<1>1. ASSUME NEW k \in Cron, CronStep(k) \/ CronLost(k)
      PROVE  RecordsKept /\ UNCHANGED seenTx
  <2>k. cron[k] \in Run
    BY RunHolds
  <2>1. CASE FetchBatch(k) \/ SendRefund(k) \/ CronLost(k)
    BY <2>1, <1>u DEF FetchBatch, SendRefund, CronLost
  <2>2. ASSUME NEW s \in cron[k].batch, ClaimRefund(k, s)
        PROVE  RecordsKept /\ UNCHANGED seenTx
    <3>1. s.challenge \in Challenge
      BY <2>k DEF Run, Snapshot
    <3> QED
      BY <2>2, <3>1, <1>u, TransitionKeeps
      DEF ClaimRefund, TransitionRefused, ChallengeState, PaidStates
  <2>3. CASE ConfirmRefund(k) \/ FailRefund(k)
    <3>1. cron[k].current.challenge \in Challenge
      BY <2>3, RunHolds DEF ConfirmRefund, FailRefund
    <3> QED
      BY <2>3, <3>1, <1>u, TransitionKeeps
      DEF ConfirmRefund, FailRefund, TransitionRefused, ChallengeState, PaidStates
  <2> QED
    BY <1>1, <2>1, <2>2, <2>3 DEF CronStep
<1>2. ASSUME NEW c \in Challenge, RequeueFailed(c) PROVE RecordsKept /\ UNCHANGED seenTx
  BY <1>2, TransitionKeeps DEF RequeueFailed, ChallengeState, PaidStates
<1> QED
  BY <1>1, <1>2 DEF CronNext

LEMMA ServiceStep == TypeInv /\ ServiceInv /\ [Next]_vars => ServiceInv'
<1> SUFFICES ASSUME TypeInv, ServiceInv, [Next]_vars PROVE ServiceInv'
  OBVIOUS
<1>s. \A c \in Challenge : challenges[c] \in ChallengeRecord
  BY DEF TypeInv, StoreTypeOK
<1>k. ASSUME RecordsKept, UNCHANGED <<seenTx, handler>> PROVE ServiceInv'
  BY <1>k, ServiceKept
<1>u. UNCHANGED storeVars => RecordsKept /\ UNCHANGED seenTx
  BY DEF storeVars, RecordsKept
<1>3. CronNext => RecordsKept /\ UNCHANGED seenTx
  BY CronKeepsRecords
<1>4. ClockNext => RecordsKept /\ UNCHANGED seenTx
  BY ClockWrites DEF ClockNext, RequestKeyExpires, RecordsKept
<1>5. ASSUME NEW t \in Tx, ClientTransfers(t) PROVE ServiceInv'
  BY <1>5, <1>u, <1>k DEF ClientTransfers
<1>6. EngineNext => ServiceInv'
  BY <1>5, ServiceCall DEF EngineNext
<1>7. UNCHANGED vars => ServiceInv'
  BY <1>u, <1>k DEF vars, engineVars
<1> QED
  BY <1>3, <1>4, <1>6, <1>7, <1>k DEF Next, engineVars

LEMMA ServiceCorrect == Spec => []ServiceInv
<1>1. Init => ServiceInv
  <2> SUFFICES ASSUME Init
               PROVE  /\ \A h \in Handler : handler[h].pc = "idle"
                      /\ \A c \in Challenge : challenges[c].accessGrant = NoTx
    BY DEF ServiceInv, ServesPaid, GrantHeld, OneServerPerChallenge, Serving, AfterPaid
  <2> QED
    BY DEF Init, StoreInit, EngineInit, AbsentRecord, Idle
<1> QED
  BY <1>1, GatewayInit, TypeInvStep, ServiceStep, PTL DEF Spec

\* The PENDING -> PAID compare-and-swap (submitProof, processHttpPayment) admits
\* one call at a time to a challenge; neither a rollback nor a refund and its
\* requeueing lets a second one in while the first is still at it.
THEOREM ServersExclude == Spec => []OneServerPerChallenge
<1>1. ServiceInv => OneServerPerChallenge
  BY DEF ServiceInv
<1> QED
  BY <1>1, ServiceCorrect, PTL

\* A stored grant belongs to the transfer the record was paid with, and that
\* transfer is claimed by this challenge (markUsed): no transfer buys two grants.
THEOREM NoDoubleSpend == Spec => []GrantOwnsTx
<1>1. ServiceInv => GrantOwnsTx
  BY DEF ServiceInv, GrantHeld, GrantOwnsTx
<1> QED
  BY <1>1, ServiceCorrect, PTL

-----------------------------------------------------------------------------
\* What was delivered stays the only delivery: the record remains paid with that
\* transfer, the claim of the transfer stands, and no call serves it again.

DeliveredFor(c, t) ==
    /\ seenTx[t] = c
    /\ challenges[c].state \in PaidStates
    /\ challenges[c].txHash = t
    /\ \A h \in Handler : ~ Serving(h, c)

DeliveryInv == \A t \in Tx : \A c \in served[t] : DeliveredFor(c, t)

LEMMA DeliveryKept ==
  ASSUME TypeInv, DeliveryInv, RecordsKept, UNCHANGED <<seenTx, served, handler>>
  PROVE  DeliveryInv'
<1> SUFFICES ASSUME NEW t \in Tx, NEW c \in served[t] PROVE DeliveredFor(c, t)'
  BY DEF DeliveryInv
<1>1. c \in Challenge /\ DeliveredFor(c, t)
  BY DEF DeliveryInv, TypeInv, EngineTypeOK
<1> QED
  BY <1>1 DEF DeliveredFor, RecordsKept, Serving

\* A call writes to a paid record, or begins to serve it, only if it serves it.
LEMMA CallsKeepApart ==
  ASSUME TypeInv, NEW h \in Handler, ClientCall(h) \/ HandlerStep(h) \/ HandlerLost(h),
         NEW d \in Challenge, challenges[d].state \in PaidStates, ~ Serving(h, d)
  PROVE  challenges'[d] = challenges[d] /\ ~ Serving(h, d)'
<1> DEFINE c == handler[h].challenge
           t == handler[h].tx
<1>s. /\ challenges \in [Challenge -> ChallengeRecord]
      /\ handler \in [Handler -> Locals]
      /\ CallOK(handler[h])
  BY DEF TypeInv, StoreTypeOK, EngineTypeOK, LocalsInv
<1>p. challenges[d].state \notin {"ABSENT", "PENDING"}
  BY DEF PaidStates
<1>r. Return(h) => ~ Serving(h, d)'
  BY <1>s DEF Return, Idle, Serving, AfterPaid
<1>g. ASSUME NEW pc \in AwaitPoint, Goto(h, pc), c # d \/ pc \notin AfterPaid
      PROVE  ~ Serving(h, d)'
  <2>1. handler'[h].pc = pc /\ handler'[h].challenge = c
    BY <1>g, <1>s DEF Goto, Locals
  <2> QED
    BY <1>g, <2>1 DEF Serving, AfterPaid
<1>a. h \in Handler /\ handler[h].pc \in AfterPaid => c # d
  BY DEF Serving
<1>w. ASSUME NEW from, NEW to, NEW scored, NEW rec, c \in Challenge, Transition(c, from, to, scored, rec)
      PROVE  c # d => challenges'[d] = challenges[d]
  BY <1>w, <1>s DEF Transition
<1>1. ClientCall(h) => challenges'[d] = challenges[d] /\ ~ Serving(h, d)'
  <2> SUFFICES ASSUME ClientCall(h)
               PROVE  challenges'[d] = challenges[d] /\ ~ Serving(h, d)'
    OBVIOUS
  <2>1. UNCHANGED challenges
    BY DEF ClientCall, RequestAccess, SubmitProof, PreSettlementCheck, SettleUnchecked,
           CancelRequest, storeVars
  <2>l. ASSUME NEW l, handler' = [handler EXCEPT ![h] = l], l.pc \notin AfterPaid
        PROVE  ~ Serving(h, d)'
    BY <2>l, <1>s DEF Serving
  <2>2. ASSUME NEW r \in Request, RequestAccess(h, r) PROVE ~ Serving(h, d)'
    BY <2>2, <2>l DEF RequestAccess, Idle, AfterPaid
  <2>3. ASSUME NEW e \in Challenge, NEW u \in Tx, SubmitProof(h, e, u) PROVE ~ Serving(h, d)'
    <3>1. handler'[h].pc \in {"expire", "seen"}
      BY <2>3, <1>s DEF SubmitProof, Idle
    <3> QED
      BY <3>1 DEF Serving, AfterPaid
  <2>4. ASSUME NEW r \in Request, NEW u \in Tx, PreSettlementCheck(h, r, u)
        PROVE  ~ Serving(h, d)'
    BY <2>4, <2>l DEF PreSettlementCheck, Idle, AfterPaid
  <2>5. ASSUME NEW r \in Request, NEW u \in Tx, SettleUnchecked(h, r, u)
        PROVE  ~ Serving(h, d)'
    BY <2>5, <2>l DEF SettleUnchecked, Idle, AfterPaid
  <2>6. ASSUME NEW e \in Challenge, CancelRequest(h, e) PROVE ~ Serving(h, d)'
    BY <2>6, <2>l DEF CancelRequest, Idle, AfterPaid
  <2> QED
    BY <2>1, <2>2, <2>3, <2>4, <2>5, <2>6 DEF ClientCall
<1>2. HandlerLost(h) \/ NoChallengeLeft(h) => challenges'[d] = challenges[d] /\ ~ Serving(h, d)'
  BY <1>r DEF HandlerLost, NoChallengeLeft, storeVars
<1>3. CheckSeenTx(h) \/ VerifyProof(h) \/ SettlePayment(h) \/ FindActive(h)
        => challenges'[d] = challenges[d] /\ ~ Serving(h, d)'
  <2> SUFFICES ASSUME CheckSeenTx(h) \/ VerifyProof(h) \/ SettlePayment(h) \/ FindActive(h)
               PROVE  challenges'[d] = challenges[d] /\ ~ Serving(h, d)'
    OBVIOUS
  <2>1. UNCHANGED challenges
    BY DEF CheckSeenTx, VerifyProof, SettlePayment, FindActive, storeVars
  <2>2. \/ Return(h)
        \/ \E pc \in AwaitPoint \ AfterPaid : Goto(h, pc)
        \/ handler' = [handler EXCEPT ![h].pc = "seen", ![h].kind = "http"]
        \/ handler' = [handler EXCEPT ![h].pc = "pay",
                                     ![h].challenge = requestIndex[handler[h].requestId]]
    BY DEF CheckSeenTx, VerifyProof, SettlePayment, FindActive, AwaitPoint, AfterPaid
  <2>3. CASE handler' = [handler EXCEPT ![h].pc = "seen", ![h].kind = "http"]
    BY <2>1, <2>3, <1>s DEF Locals, Serving, AfterPaid
  <2>4. CASE handler' = [handler EXCEPT ![h].pc = "pay",
                                     ![h].challenge = requestIndex[handler[h].requestId]]
    BY <2>1, <2>4, <1>s DEF Locals, Serving, AfterPaid
  <2> QED
    BY <2>1, <2>2, <2>3, <2>4, <1>r, <1>g
<1>4. ASSUME NEW e \in Challenge, CreateChallenge(h, e)
      PROVE  challenges'[d] = challenges[d] /\ ~ Serving(h, d)'
  <2>1. challenges'[d] = challenges[d]
    BY <1>4, <1>s, <1>p DEF CreateChallenge, Create
  <2>2. CASE handler' = [handler EXCEPT ![h].pc = "pay", ![h].challenge = e]
    BY <2>1, <2>2, <1>s DEF Locals, Serving, AfterPaid
  <2> QED
    BY <1>4, <2>1, <2>2, <1>r DEF CreateChallenge
<1>5. ExpireChallenge(h) \/ CancelChallenge(h)
        => challenges'[d] = challenges[d] /\ ~ Serving(h, d)'
  <2>1. ExpireChallenge(h) \/ CancelChallenge(h) => c \in Challenge
    BY <1>s DEF ExpireChallenge, CancelChallenge, At, CallOK, AfterPaid
  <2> QED
    BY <1>p, <1>r, <1>w, <2>1
    DEF ExpireChallenge, CancelChallenge, Transition, TransitionRefused, storeVars
<1>6. PayChallenge(h) => challenges'[d] = challenges[d] /\ ~ Serving(h, d)'
  <2> SUFFICES ASSUME PayChallenge(h)
               PROVE  challenges'[d] = challenges[d] /\ ~ Serving(h, d)'
    OBVIOUS
  <2>1. c \in Challenge
    BY ServingLocals DEF PayChallenge, At
  <2>2. CASE TransitionRefused(c, "PENDING") /\ Return(h)
    BY <2>2, <1>r DEF TransitionRefused, storeVars
  <2>3. ASSUME NEW from, Transition(c, "PENDING", "PAID", TRUE, Paid(challenges[c], t, from)),
               Goto(h, "mark")
        PROVE  challenges'[d] = challenges[d] /\ ~ Serving(h, d)'
    <3>1. c # d
      BY <2>3, <1>p DEF Transition
    <3> QED
      BY <2>1, <2>3, <3>1, <1>g, <1>w DEF AwaitPoint
  <2> QED
    BY <2>2, <2>3 DEF PayChallenge
<1>7. ClaimTx(h) \/ IssueToken(h) => challenges'[d] = challenges[d] /\ ~ Serving(h, d)'
  <2> SUFFICES ASSUME ClaimTx(h) \/ IssueToken(h)
               PROVE  challenges'[d] = challenges[d] /\ ~ Serving(h, d)'
    OBVIOUS
  <2>1. UNCHANGED challenges
    BY DEF ClaimTx, MarkUsed, IssueToken, storeVars
  <2>2. c # d
    BY <1>a DEF ClaimTx, IssueToken, At, AfterPaid
  <2> QED
    BY <2>1, <2>2, <1>r, <1>g DEF ClaimTx, IssueToken, AwaitPoint
<1>8. RollBack(h) \/ PersistGrant(h) \/ Deliver(h)
        => challenges'[d] = challenges[d] /\ ~ Serving(h, d)'
  <2> SUFFICES ASSUME RollBack(h) \/ PersistGrant(h) \/ Deliver(h)
               PROVE  challenges'[d] = challenges[d] /\ ~ Serving(h, d)'
    OBVIOUS
  <2>1. c \in Challenge /\ c # d
    BY <1>a, ServingLocals DEF RollBack, PersistGrant, Deliver, At, AfterPaid
  <2>2. challenges'[d] = challenges[d]
    BY <2>1, <1>w DEF RollBack, PersistGrant, Deliver, TransitionRefused, storeVars
  <2>3. Return(h) \/ Goto(h, "deliver")
    BY DEF RollBack, PersistGrant, Deliver
  <2> QED
    BY <2>1, <2>2, <2>3, <1>r, <1>g DEF AwaitPoint
<1> QED
  BY <1>1, <1>2, <1>3, <1>4, <1>5, <1>6, <1>7, <1>8 DEF HandlerStep

LEMMA DeliveryCall ==
  ASSUME TypeInv, ServiceInv, DeliveryInv, NEW h \in Handler,
         ClientCall(h) \/ HandlerStep(h) \/ HandlerLost(h)
  PROVE  DeliveryInv'
<1>s. /\ seenTx \in [Tx -> Challenge \cup {NoChallenge}]
      /\ served \in [Tx -> SUBSET Challenge]
      /\ handler \in [Handler -> Locals]
      /\ CallOK(handler[h])
  BY DEF TypeInv, StoreTypeOK, EngineTypeOK, LocalsInv
<1>1. /\ \A u \in Tx : seenTx[u] # NoChallenge => seenTx'[u] = seenTx[u]
      /\ \A g \in Handler \ {h} : handler'[g] = handler[g]
  BY <1>s
  DEF ClientCall, RequestAccess, SubmitProof, PreSettlementCheck, SettleUnchecked,
      CancelRequest, HandlerLost, HandlerStep, CreateChallenge, NoChallengeLeft,
      ExpireChallenge, CheckSeenTx, VerifyProof, SettlePayment, FindActive, PayChallenge,
      ClaimTx, RollBack, IssueToken, PersistGrant, Deliver, CancelChallenge, Return, Goto,
      Create, Transition, TransitionRefused, MarkUsed, storeVars
<1>2. ASSUME NEW u \in Tx, NEW d \in served[u] PROVE DeliveredFor(d, u)'
  <2>1. d \in Challenge /\ d # NoChallenge /\ DeliveredFor(d, u)
    BY <1>s, StoreAssumption DEF DeliveryInv
  <2>2. challenges'[d] = challenges[d] /\ ~ Serving(h, d)'
    BY <2>1, CallsKeepApart DEF DeliveredFor
  <2> QED
    BY <1>1, <2>1, <2>2 DEF DeliveredFor, Serving, PaidStates, AfterPaid
<1>3. CASE UNCHANGED served
  <2> SUFFICES ASSUME NEW u \in Tx, NEW d \in served'[u] PROVE DeliveredFor(d, u)'
    BY DEF DeliveryInv
  <2> QED
    BY <1>2, <1>3
<1>4. CASE Deliver(h)
  <2>0. PICK c \in Challenge, t \in Tx : handler[h].challenge = c /\ handler[h].tx = t
    BY <1>4, ServingLocals DEF Deliver, At, AfterPaid
  <2>1. handler[h].pc = "deliver"
    BY <1>4 DEF Deliver, At
  <2>2. \A g \in Handler \ {h} : ~ Serving(g, c)
    BY <2>0, <2>1, OnlyServer DEF AfterPaid
  <2>3. /\ challenges[c].state \in PaidStates /\ challenges[c].txHash = t
        /\ seenTx[t] = c /\ c # NoChallenge
    BY <2>0, <2>1, StoreAssumption DEF ServiceInv, ServesPaid, AfterPaid
  <2>4. RecordsKept
    BY <1>4, <2>0, <2>1, TransitionKeeps
    DEF Deliver, TransitionRefused, storeVars, RecordsKept, ChallengeState, PaidStates
  <2>5. ~ Serving(h, c)'
    BY <1>4, <1>s DEF Deliver, Return, Idle, Serving, AfterPaid
  <2>6. DeliveredFor(c, t)'
    BY <1>1, <2>0, <2>1, <2>2, <2>3, <2>4, <2>5 DEF DeliveredFor, RecordsKept, Serving
  <2>7. \A u \in Tx : served'[u] = IF u = t THEN served[u] \cup {c} ELSE served[u]
    <3>1. served' = [served EXCEPT ![t] = @ \cup {c}]
      BY <1>4, <2>0 DEF Deliver
    <3> QED
      BY <1>s, <3>1
  <2> SUFFICES ASSUME NEW u \in Tx, NEW d \in served'[u] PROVE DeliveredFor(d, u)'
    BY DEF DeliveryInv
  <2>8. CASE d \in served[u]
    BY <1>2, <2>8
  <2>9. CASE d = c /\ u = t
    BY <2>6, <2>9 DEF DeliveredFor
  <2> QED
    BY <2>7, <2>8, <2>9
<1>5. Deliver(h) \/ UNCHANGED served
  BY DEF ClientCall, RequestAccess, SubmitProof, PreSettlementCheck, SettleUnchecked,
         CancelRequest, HandlerLost, HandlerStep, CreateChallenge, NoChallengeLeft,
         ExpireChallenge, CheckSeenTx, VerifyProof, SettlePayment, FindActive, PayChallenge,
         ClaimTx, RollBack, IssueToken, PersistGrant, CancelChallenge
<1> QED
  BY <1>3, <1>4, <1>5

LEMMA DeliveryStep ==
  TypeInv /\ ServiceInv /\ DeliveryInv /\ [Next]_vars => DeliveryInv'
<1> SUFFICES ASSUME TypeInv, ServiceInv, DeliveryInv, [Next]_vars PROVE DeliveryInv'
  OBVIOUS
<1>1. CASE EngineNext
  <2>1. ASSUME NEW t \in Tx, ClientTransfers(t) PROVE DeliveryInv'
    BY <2>1, DeliveryKept DEF ClientTransfers, storeVars, RecordsKept
  <2> QED
    BY <1>1, <2>1, DeliveryCall DEF EngineNext
<1>2. CASE CronNext /\ UNCHANGED engineVars
  BY <1>2, CronKeepsRecords, DeliveryKept DEF engineVars
<1>3. CASE ClockNext /\ UNCHANGED <<engineVars, cronVars>>
  <2>1. RecordsKept /\ UNCHANGED seenTx
    BY <1>3, ClockWrites DEF ClockNext, RequestKeyExpires, RecordsKept
  <2> QED
    BY <1>3, <2>1, DeliveryKept DEF engineVars
<1>4. CASE UNCHANGED vars
  BY <1>4, DeliveryKept DEF vars, storeVars, engineVars, RecordsKept
<1> QED
  BY <1>1, <1>2, <1>3, <1>4 DEF Next

\* Whatever calls race, are lost or outlast the grace period (submitProof,
\* processHttpPayment): a transfer buys a grant for one challenge, and no client is
\* handed a second grant for a challenge that another transfer paid, not even when
\* the grant could not be stored because a refund had claimed the record.
THEOREM NoSecondDelivery == Spec => []DeliveredOnce
<1>1. Init => DeliveryInv
  BY DEF Init, EngineInit, DeliveryInv
<1>2. TypeInv /\ DeliveryInv => DeliveredOnce
  BY DEF DeliveryInv, DeliveredFor, DeliveredOnce
<1> QED
  BY <1>1, <1>2, GatewayInit, TypeInvStep, ServiceCorrect, DeliveryStep, PTL DEF Spec

-----------------------------------------------------------------------------
\* Nothing is granted or refunded that was not paid: whoever holds a transfer
\* has seen it settled.

PaidUp(l) ==
    \/ l.pc \in {"pay"} \cup AfterPaid
    \/ l.kind = "http" /\ l.pc \in {"seen", "find", "create"}
    => l.tx \in settled

PayerPaid(from) == from # NoTx => from \in settled

BackedInv ==
    /\ \A h \in Handler : PaidUp(handler[h])
    /\ \A c \in Challenge : PayerPaid(challenges[c].fromAddress)
    /\ \A k \in Cron : /\ \A s \in cron[k].batch : s.fromAddress \in settled
                      /\ PayerPaid(cron[k].current.fromAddress)
    /\ BackedByTransfer

LEMMA BackedCall ==
  ASSUME TypeInv, BackedInv, NEW h \in Handler,
         ClientCall(h) \/ HandlerStep(h) \/ HandlerLost(h), UNCHANGED cronVars
  PROVE  BackedInv'
<1>s. /\ challenges \in [Challenge -> ChallengeRecord]
      /\ handler \in [Handler -> Locals]
      /\ served \in [Tx -> SUBSET Challenge]
      /\ CallOK(handler[h])
      /\ PaidUp(handler[h])
  BY DEF TypeInv, StoreTypeOK, EngineTypeOK, LocalsInv, BackedInv
<1>1. settled \subseteq settled'
  BY DEF ClientCall, RequestAccess, SubmitProof, PreSettlementCheck, SettleUnchecked,
         CancelRequest, HandlerLost, HandlerStep, CreateChallenge, NoChallengeLeft, ExpireChallenge,
         CheckSeenTx, VerifyProof, SettlePayment, FindActive, PayChallenge, ClaimTx,
         RollBack, IssueToken, PersistGrant, Deliver, CancelChallenge
<1>2. \A c \in Challenge : PayerPaid(challenges[c].fromAddress)'
  <2>1. \A c \in Challenge : PayerPaid(challenges[c].fromAddress)
    BY DEF BackedInv
  <2>2. CASE UNCHANGED challenges
    BY <1>1, <2>1, <2>2 DEF PayerPaid
  <2>3. ASSUME NEW c \in Challenge, NEW r \in Request, Create(c, r)
        PROVE  \A d \in Challenge : PayerPaid(challenges[d].fromAddress)'
    BY <1>1, <1>s, <2>1, <2>3 DEF Create, AbsentRecord, PayerPaid
  <2>4. ASSUME NEW c \in Challenge, NEW from, NEW to, NEW scored,
               NEW rec \in ChallengeRecord,
               Transition(c, from, to, scored, rec), PayerRecorded(h, c, rec)
        PROVE  \A d \in Challenge : PayerPaid(challenges[d].fromAddress)'
    <3>1. \A d \in Challenge : challenges'[d].fromAddress =
                                 IF d = c THEN rec.fromAddress ELSE challenges[d].fromAddress
      BY <1>s, <2>4 DEF Transition, ChallengeRecord
    <3>2. PayerPaid(rec.fromAddress)
      BY <1>s, <2>1, <2>4 DEF PayerRecorded, PaidUp, PayerPaid
    <3> QED
      BY <1>1, <2>1, <3>1, <3>2 DEF PayerPaid
  <2> QED
    BY <2>2, <2>3, <2>4, EngineWrites
<1>3. \A g \in Handler : PaidUp(handler[g])'
  <2>o. ASSUME \A g \in Handler \ {h} : handler'[g] = handler[g], PaidUp(handler[h])'
        PROVE  \A g \in Handler : PaidUp(handler[g])'
    BY <1>1, <2>o DEF BackedInv, PaidUp
  <2>r. ASSUME Return(h) PROVE \A g \in Handler : PaidUp(handler[g])'
    BY <2>o, <2>r, <1>s DEF Return, Idle, PaidUp, AfterPaid
  <2>g. ASSUME NEW pc \in AwaitPoint, Goto(h, pc)
        PROVE  /\ handler'[h].pc = pc /\ handler'[h].tx = handler[h].tx
               /\ handler'[h].kind = handler[h].kind
               /\ \A g \in Handler \ {h} : handler'[g] = handler[g]
    BY <2>g, <1>s DEF Goto, Locals
  <2>1. ASSUME ClientCall(h) PROVE \A g \in Handler : PaidUp(handler[g])'
    <3>1. ASSUME NEW r \in Request, RequestAccess(h, r)
          PROVE  \A g \in Handler : PaidUp(handler[g])'
      BY <2>o, <3>1, <1>s DEF RequestAccess, Idle, PaidUp, AfterPaid
    <3>2. ASSUME NEW c \in Challenge, NEW t \in Tx, SubmitProof(h, c, t)
          PROVE  \A g \in Handler : PaidUp(handler[g])'
      <4>1. /\ handler'[h].kind = "proof" /\ handler'[h].pc \in {"expire", "seen"}
            /\ \A g \in Handler \ {h} : handler'[g] = handler[g]
        BY <3>2, <1>s DEF SubmitProof, Idle
      <4> QED
        BY <2>o, <4>1 DEF PaidUp, AfterPaid
    <3>3. ASSUME NEW r \in Request, NEW t \in Tx, PreSettlementCheck(h, r, t)
          PROVE  \A g \in Handler : PaidUp(handler[g])'
      BY <2>o, <3>3, <1>s DEF PreSettlementCheck, Idle, PaidUp, AfterPaid
    <3>4. ASSUME NEW c \in Challenge, CancelRequest(h, c)
          PROVE  \A g \in Handler : PaidUp(handler[g])'
      BY <2>o, <3>4, <1>s DEF CancelRequest, Idle, PaidUp, AfterPaid
    <3>5. ASSUME NEW r \in Request, NEW t \in Tx, SettleUnchecked(h, r, t)
          PROVE  \A g \in Handler : PaidUp(handler[g])'
      BY <2>o, <3>5, <1>s DEF SettleUnchecked, Idle, PaidUp, AfterPaid
    <3> QED
      BY <2>1, <3>1, <3>2, <3>3, <3>4, <3>5 DEF ClientCall
  <2>2. ASSUME NEW c \in Challenge, CreateChallenge(h, c)
        PROVE  \A g \in Handler : PaidUp(handler[g])'
    <3>1. CASE handler[h].kind = "http"
      <4>1. handler[h].tx \in settled
        BY <2>2, <3>1, <1>s DEF CreateChallenge, At, PaidUp
      <4>2. /\ handler'[h].tx = handler[h].tx
            /\ \A g \in Handler \ {h} : handler'[g] = handler[g]
        BY <2>2, <3>1, <1>s DEF CreateChallenge, Locals
      <4> QED
        BY <1>1, <2>o, <4>1, <4>2 DEF PaidUp
    <3> QED
      BY <2>2, <2>r, <3>1 DEF CreateChallenge
  <2>3. ASSUME CheckSeenTx(h) PROVE \A g \in Handler : PaidUp(handler[g])'
    <3>1. handler[h].kind = "http" => handler[h].tx \in settled
      BY <2>3, <1>s DEF CheckSeenTx, At, PaidUp
    <3> QED
      BY <1>1, <2>3, <2>g, <2>o, <2>r, <3>1 DEF CheckSeenTx, AwaitPoint, PaidUp, AfterPaid
  <2>4. ASSUME VerifyProof(h) PROVE \A g \in Handler : PaidUp(handler[g])'
    BY <1>1, <2>4, <2>g, <2>o, <2>r DEF VerifyProof, AwaitPoint, PaidUp
  <2>5. ASSUME SettlePayment(h) PROVE \A g \in Handler : PaidUp(handler[g])'
    <3>1. CASE Return(h)
      BY <3>1, <2>r
    <3>2. CASE /\ settled' = settled \cup {handler[h].tx}
               /\ handler' = [handler EXCEPT ![h].pc = "seen", ![h].kind = "http"]
      <4>1. handler'[h].tx = handler[h].tx /\ \A g \in Handler \ {h} : handler'[g] = handler[g]
        BY <3>2, <1>s DEF Locals
      <4>2. PaidUp(handler[h])'
        BY <3>2, <4>1 DEF PaidUp
      <4> QED
        BY <4>1, <4>2, <2>o
    <3> QED
      BY <2>5, <3>1, <3>2 DEF SettlePayment
  <2>6. ASSUME FindActive(h) PROVE \A g \in Handler : PaidUp(handler[g])'
    <3>1. handler[h].tx \in settled
      BY <2>6, <1>s DEF FindActive, At, CallOK, PaidUp, AfterPaid
    <3>2. CASE Return(h)
      BY <2>r, <3>2
    <3>3. CASE ~ Return(h)
      <4>1. /\ handler'[h].tx = handler[h].tx
            /\ \A g \in Handler \ {h} : handler'[g] = handler[g]
        BY <2>6, <3>3, <1>s DEF FindActive, Goto, Locals
      <4> QED
        BY <1>1, <2>o, <3>1, <4>1 DEF PaidUp
    <3> QED
      BY <3>2, <3>3
  <2>7. ASSUME PayChallenge(h) \/ ClaimTx(h) \/ IssueToken(h) \/ PersistGrant(h)
        PROVE  \A g \in Handler : PaidUp(handler[g])'
    <3>1. handler[h].tx \in settled
      BY <2>7, <1>s DEF PayChallenge, ClaimTx, IssueToken, PersistGrant, At, PaidUp, AfterPaid
    <3>2. Return(h) \/ \E pc \in AwaitPoint : Goto(h, pc)
      BY <2>7 DEF PayChallenge, ClaimTx, IssueToken, PersistGrant, AwaitPoint
    <3>3. ASSUME NEW pc \in AwaitPoint, Goto(h, pc)
          PROVE  \A g \in Handler : PaidUp(handler[g])'
      BY <1>1, <2>g, <2>o, <3>1, <3>3 DEF PaidUp
    <3> QED
      BY <2>r, <3>2, <3>3
  <2>8. ASSUME \/ HandlerLost(h) \/ NoChallengeLeft(h) \/ ExpireChallenge(h)
               \/ RollBack(h) \/ Deliver(h) \/ CancelChallenge(h)
        PROVE  \A g \in Handler : PaidUp(handler[g])'
    BY <2>8, <2>r DEF HandlerLost, NoChallengeLeft, ExpireChallenge, RollBack, Deliver,
                      CancelChallenge
  <2> QED
    BY <2>1, <2>2, <2>3, <2>4, <2>5, <2>6, <2>7, <2>8 DEF HandlerStep
<1>4. \A t \in Tx : served'[t] # {} => served[t] # {} \/ t \in settled'
  <2>1. CASE UNCHANGED served
    BY <2>1
  <2>2. CASE Deliver(h)
    <3>1. handler[h].tx \in settled
      BY <2>2, <1>s DEF Deliver, At, PaidUp, AfterPaid
    <3> QED
      BY <1>1, <1>s, <2>2, <3>1 DEF Deliver
  <2>3. Deliver(h) \/ UNCHANGED served
    BY DEF ClientCall, RequestAccess, SubmitProof, PreSettlementCheck, SettleUnchecked,
           CancelRequest, HandlerLost, HandlerStep, CreateChallenge, NoChallengeLeft, ExpireChallenge,
           CheckSeenTx, VerifyProof, SettlePayment, FindActive, PayChallenge, ClaimTx,
           RollBack, IssueToken, PersistGrant, CancelChallenge
  <2> QED
    BY <2>1, <2>2, <2>3
<1>5. BackedByTransfer'
  BY <1>1, <1>4 DEF BackedInv, BackedByTransfer, cronVars
<1>6. \A k \in Cron : /\ \A s \in cron'[k].batch : s.fromAddress \in settled'
                    /\ PayerPaid(cron[k].current.fromAddress)'
  BY <1>1 DEF BackedInv, PayerPaid, cronVars
<1> QED
  BY <1>2, <1>3, <1>5, <1>6 DEF BackedInv

LEMMA BackedCron ==
  ASSUME TypeInv, BackedInv, NEW k \in Cron, CronStep(k) \/ CronLost(k),
         UNCHANGED engineVars
  PROVE  BackedInv'
<1>s. /\ challenges \in [Challenge -> ChallengeRecord]
      /\ cron \in [Cron -> Run]
      /\ payouts \in [Tx -> 0..MaxPayouts]
      /\ RunOK(cron[k])
  BY DEF TypeInv, StoreTypeOK, CronTypeOK, LocalsInv
<1>b. /\ \A c \in Challenge : PayerPaid(challenges[c].fromAddress)
      /\ \A s \in cron[k].batch : s.fromAddress \in settled
      /\ PayerPaid(cron[k].current.fromAddress)
  BY DEF BackedInv
<1>e. /\ \A h \in Handler : PaidUp(handler[h])'
      /\ UNCHANGED <<settled, served>>
  BY DEF BackedInv, engineVars, PaidUp
<1>i. IdleRun.batch = {} /\ IdleRun.current.fromAddress = NoTx
  BY DEF IdleRun, NoSnapshot
<1> DEFINE RunPaid == /\ \A s \in cron'[k].batch : s.fromAddress \in settled
                      /\ PayerPaid(cron'[k].current.fromAddress)
                      /\ \A j \in Cron \ {k} : cron'[j] = cron[j]
<1>n. ASSUME NEW batch, \A s \in batch : s.fromAddress \in settled, NextRecord(k, batch)
      PROVE  RunPaid
  <2>1. CASE batch = {}
    BY <1>n, <1>s, <1>i, <2>1 DEF NextRecord, PayerPaid
  <2>2. CASE batch # {}
    BY <1>n, <1>s, <2>2 DEF NextRecord, PayerPaid, IdleRun, NoSnapshot
  <2> QED
    BY <2>1, <2>2
<1>1. RunPaid
  <2>1. CASE FetchBatch(k)
    <3>1. PICK ids \in SUBSET PendingForRefund :
            NextRecord(k, {[challenge |-> c, fromAddress |-> challenges[c].fromAddress]
                              : c \in ids})
      BY <2>1 DEF FetchBatch
    <3>2. \A c \in ids : challenges[c].fromAddress \in settled
      BY <1>b DEF PendingForRefund, PayerPaid, TypeInv, StoreTypeOK
    <3> QED
      BY <3>1, <3>2, <1>n
  <2>2. ASSUME NEW s \in cron[k].batch, ClaimRefund(k, s) PROVE RunPaid
    <3>1. CASE NextRecord(k, cron[k].batch \ {s})
      BY <1>b, <1>n, <3>1
    <3>2. CASE cron' = [cron EXCEPT ![k] = [IdleRun EXCEPT !.pc = "send",
                                                          !.batch = cron[k].batch \ {s},
                                                          !.current = s]]
      BY <1>s, <1>b, <3>2 DEF IdleRun, PayerPaid
    <3> QED
      BY <2>2, <3>1, <3>2 DEF ClaimRefund
  <2>3. CASE SendRefund(k)
    BY <1>s, <1>b, <2>3 DEF SendRefund, Run
  <2>4. CASE ConfirmRefund(k) \/ FailRefund(k)
    <3>1. CASE NextRecord(k, cron[k].batch)
      BY <1>b, <1>n, <3>1
    <3>2. CASE cron' = [cron EXCEPT ![k].pc = "fail"]
      BY <1>s, <1>b, <3>2 DEF Run
    <3> QED
      BY <2>4, <3>1, <3>2 DEF ConfirmRefund, FailRefund
  <2>5. CASE CronLost(k)
    BY <1>s, <1>i, <2>5 DEF CronLost, PayerPaid
  <2> QED
    BY <2>1, <2>2, <2>3, <2>4, <2>5 DEF CronStep
<1>2. \A c \in Challenge : challenges'[c].fromAddress = challenges[c].fromAddress
  <2>1. CASE UNCHANGED storeVars
    BY <2>1 DEF storeVars
  <2>2. ASSUME NEW c \in Challenge, NEW from, NEW to, NEW scored,
               Transition(c, from, to, scored, challenges[c])
        PROVE  \A d \in Challenge : challenges'[d].fromAddress = challenges[d].fromAddress
    BY <1>s, <2>2 DEF Transition, ChallengeRecord
  <2>3. ASSUME NEW s \in cron[k].batch, ClaimRefund(k, s)
        PROVE  \A d \in Challenge : challenges'[d].fromAddress = challenges[d].fromAddress
    <3>1. s.challenge \in Challenge
      BY <1>s DEF Run, Snapshot
    <3> QED
      BY <2>1, <2>2, <2>3, <3>1 DEF ClaimRefund, TransitionRefused
  <2>4. CASE ConfirmRefund(k) \/ FailRefund(k)
    <3>1. cron[k].current.challenge \in Challenge
      BY <2>4, RunHolds DEF ConfirmRefund, FailRefund
    <3> QED
      BY <2>1, <2>2, <2>4, <3>1 DEF ConfirmRefund, FailRefund, TransitionRefused
  <2> QED
    BY <2>1, <2>3, <2>4 DEF CronStep, CronLost, FetchBatch, SendRefund
<1>3. \A t \in Tx : payouts'[t] > 0 => payouts[t] > 0 \/ t \in settled
  <2>1. CASE UNCHANGED payouts
    BY <2>1
  <2>2. CASE SendRefund(k)
    <3>1. cron[k].current.fromAddress \in Tx /\ cron[k].current.fromAddress \in settled
      BY <1>s, <1>b, <2>2, StoreAssumption DEF SendRefund, RunOK, Snapshot, PayerPaid
    <3> QED
      BY <1>s, <2>2, <3>1 DEF SendRefund
  <2>3. SendRefund(k) \/ UNCHANGED payouts
    BY DEF CronStep, CronLost, FetchBatch, ClaimRefund, ConfirmRefund, FailRefund
  <2> QED
    BY <2>1, <2>2, <2>3
<1>4. BackedByTransfer'
  BY <1>e, <1>3 DEF BackedInv, BackedByTransfer
<1>5. \A c \in Challenge : PayerPaid(challenges[c].fromAddress)'
  BY <1>b, <1>e, <1>2 DEF PayerPaid
<1>6. ASSUME NEW j \in Cron
      PROVE  /\ \A s \in cron'[j].batch : s.fromAddress \in settled'
             /\ PayerPaid(cron[j].current.fromAddress)'
  BY <1>1, <1>e DEF BackedInv, PayerPaid
<1> QED
  BY <1>e, <1>4, <1>5, <1>6 DEF BackedInv

LEMMA BackedStep == TypeInv /\ BackedInv /\ [Next]_vars => BackedInv'
<1> SUFFICES ASSUME TypeInv, BackedInv, [Next]_vars PROVE BackedInv'
  OBVIOUS
<1>s. challenges \in [Challenge -> ChallengeRecord]
  BY DEF TypeInv, StoreTypeOK
<1>k. ASSUME settled \subseteq settled', UNCHANGED <<handler, served, cron, payouts>>,
             \A c \in Challenge : challenges'[c].fromAddress = challenges[c].fromAddress
      PROVE  BackedInv'
  BY <1>k DEF BackedInv, PaidUp, PayerPaid, BackedByTransfer
<1>1. ASSUME NEW c \in Challenge, RequeueFailed(c), UNCHANGED engineVars PROVE BackedInv'
  BY <1>1, <1>s, <1>k DEF RequeueFailed, Transition, cronVars, engineVars, ChallengeRecord
<1>2. ASSUME NEW t \in Tx, ClientTransfers(t), UNCHANGED cronVars PROVE BackedInv'
  BY <1>2, <1>k DEF ClientTransfers, storeVars, cronVars
<1>3. ClockNext /\ UNCHANGED <<engineVars, cronVars>> => BackedInv'
  BY <1>k, ClockWrites DEF ClockNext, RequestKeyExpires, engineVars, cronVars
<1>4. UNCHANGED vars => BackedInv'
  BY <1>k DEF vars, storeVars, engineVars, cronVars
<1> QED
  BY <1>1, <1>2, <1>3, <1>4, BackedCall, BackedCron DEF Next, EngineNext, CronNext

\* Nothing is granted or refunded that was not paid: a transfer a client was
\* served for, or a refund was sent for, moved USDC to the seller.
THEOREM NothingForNothing == Spec => []BackedByTransfer
<1>1. Init => BackedInv
  <2> SUFFICES ASSUME Init
               PROVE  /\ \A h \in Handler : handler[h] = Idle
                      /\ \A c \in Challenge : challenges[c] = AbsentRecord
                      /\ \A k \in Cron : cron[k] = IdleRun
                      /\ \A t \in Tx : served[t] = {} /\ payouts[t] = 0
    BY DEF BackedInv, PaidUp, PayerPaid, AfterPaid, BackedByTransfer, Idle, AbsentRecord,
           IdleRun, NoSnapshot
  <2> QED
    BY DEF Init, StoreInit, EngineInit, CronInit
<1>2. BackedInv => BackedByTransfer
  BY DEF BackedInv
<1> QED
  BY <1>1, <1>2, GatewayInit, TypeInvStep, BackedStep, PTL DEF Spec
=============================================================================

-------------------------- MODULE GatewayRefinement --------------------------
(***************************************************************************)
(* What the gateway promises about a grant, a refund and a transfer when   *)
(* minAgeMs is longer than a call: the records that refund runs work on    *)
(* and those that calls serve are never the same, and so the gateway       *)
(* implements PaymentPromise under the faults that leave no window open.   *)
(***************************************************************************)
EXTENDS GatewaySafety, FiniteSetTheorems

-----------------------------------------------------------------------------
\* A record a call works on is not old enough to refund; a record that is, or
\* was when a run read it, is no call's any more.

RefundStates == {"REFUND_PENDING", "REFUNDED", "REFUND_FAILED"}

FreshWhileServed ==
    \A h \in Handler, c \in Challenge :
        Serving(h, c) => challenges[c].state = "PAID" /\ ~ challenges[c].aged

RefundedIsOld ==
    \A c \in Challenge :
        challenges[c].state \in RefundStates
            => challenges[c].aged /\ challenges[c].accessGrant = NoTx

\* What a run read of a record is true of it still.
StillOwed(rec, s) ==
    /\ rec.state \in {"PAID"} \cup RefundStates
    /\ rec.aged
    /\ rec.accessGrant = NoTx
    /\ rec.fromAddress = s.fromAddress

BatchStillOwed ==
    \A k \in Cron :
        /\ \A s \in cron[k].batch : StillOwed(challenges[s.challenge], s)
        /\ LET s == cron[k].current IN
           s # NoSnapshot => StillOwed(challenges[s.challenge], s)

GraceInv == FreshWhileServed /\ RefundedIsOld /\ BatchStillOwed

LEMMA GraceWhilePaid == GraceInv => WhilePaid
  BY DEF GraceInv, FreshWhileServed, WhilePaid

\* The record s is in the batch of a run, or is the one it works on.
Holds(k, s) == s \in cron[k].batch \/ (s = cron[k].current /\ s # NoSnapshot)

\* The records a run holds exist.
LEMMA HeldRecords ==
  ASSUME TypeInv, NEW k \in Cron
  PROVE  /\ \A s \in cron[k].batch : s.challenge \in Challenge
         /\ cron[k].current # NoSnapshot => cron[k].current.challenge \in Challenge
  BY RunHolds DEF TypeInv, CronTypeOK, Run, Snapshot

\* A step on the record a call serves is that call's alone, and no refund run
\* holds the record.
LEMMA ServesAlone ==
  ASSUME TypeInv, ServiceInv, FreshWhileServed, NEW h \in Handler,
         NEW rec \in ChallengeRecord, Serves(h, rec)
  PROVE  LET c == handler[h].challenge IN
         /\ c \in Challenge /\ handler[h].tx \in Tx
         /\ \A g \in Handler \ {h} : handler'[g] = handler[g] /\ ~ Serving(g, c)
         /\ \A d \in Challenge : challenges'[d] = IF d = c THEN rec ELSE challenges[d]
         /\ challenges[c].state = "PENDING" \/ (challenges[c].state = "PAID" /\ ~ challenges[c].aged)
         /\ rec.state \in {"PENDING", "PAID", "DELIVERED"}
         /\ handler'[h].pc \in AfterPaid =>
               /\ handler'[h].challenge = c /\ handler'[h].tx = handler[h].tx
               /\ rec.state = "PAID" /\ ~ rec.aged
<1> DEFINE c == handler[h].challenge
<1>1. /\ c \in Challenge /\ handler[h].tx \in Tx /\ OthersKept(h)
      /\ \A d \in Challenge : challenges'[d] = IF d = c THEN rec ELSE challenges[d]
      /\ handler'[h].pc \in AfterPaid =>
            handler'[h].challenge = c /\ handler'[h].tx = handler[h].tx
  BY DEF Serves, Pays, Claims, Loses, RollsBack, Issues, Stores, Delivers, Takes, AfterPaid
<1>2. CASE Pays(h, rec)
  <2>1. challenges[c].state = "PENDING" /\ rec.state = "PAID" /\ ~ rec.aged
    BY <1>2 DEF Pays
  <2>2. \A g \in Handler : ~ Serving(g, c)
    BY <1>1, <2>1 DEF FreshWhileServed
  <2> QED
    BY <1>1, <2>1, <2>2 DEF OthersKept
<1>3. CASE ~ Pays(h, rec)
  <2>1. handler[h].pc \in AfterPaid
    BY <1>3 DEF Serves, Claims, Loses, RollsBack, Issues, Stores, Delivers, Takes, AfterPaid
  <2>2. challenges[c].state = "PAID" /\ ~ challenges[c].aged
    BY <1>1, <2>1 DEF FreshWhileServed, Serving
  <2>3. \A g \in Handler \ {h} : ~ Serving(g, c)
    BY <2>1, OnlyServer
  <2>4. /\ rec.state \in {"PENDING", "PAID", "DELIVERED"}
        /\ handler'[h].pc \in AfterPaid => rec.state = "PAID" /\ ~ rec.aged
    BY <1>3, <2>2 DEF Serves, Claims, Loses, RollsBack, Issues, Stores, Delivers, Takes,
                      AfterPaid
  <2> QED
    BY <1>1, <2>2, <2>3, <2>4 DEF OthersKept
<1> QED
  BY <1>2, <1>3

LEMMA GraceCall ==
  ASSUME TypeInv, ServiceInv, GraceInv, NEW h \in Handler,
         ClientCall(h) \/ HandlerStep(h) \/ HandlerLost(h), UNCHANGED cronVars
  PROVE  GraceInv'
<1> USE DEF GraceInv
<1>h. ASSUME NEW k \in Cron, NEW s, Holds(k, s)
      PROVE  s.challenge \in Challenge /\ StillOwed(challenges[s.challenge], s)
  BY <1>h, HeldRecords DEF BatchStillOwed, Holds
<1>1. CASE Aside(h)
  <2>1. FreshWhileServed'
    BY <1>1 DEF Aside, OthersKept, UnpaidMoves, FreshWhileServed, Serving
  <2>2. RefundedIsOld'
    BY <1>1 DEF Aside, UnpaidMoves, RefundedIsOld, RefundStates
  <2>3. ASSUME NEW k \in Cron, NEW s, Holds(k, s)
        PROVE  StillOwed(challenges'[s.challenge], s)
    BY <1>1, <1>h, <2>3 DEF Aside, UnpaidMoves, StillOwed, RefundStates
  <2> QED
    BY <2>1, <2>2, <2>3 DEF BatchStillOwed, cronVars, Holds
<1>2. ASSUME NEW rec \in ChallengeRecord, Serves(h, rec) PROVE GraceInv'
  <2> DEFINE c == handler[h].challenge
  <2>1. /\ c \in Challenge
        /\ \A g \in Handler \ {h} : handler'[g] = handler[g] /\ ~ Serving(g, c)
        /\ \A d \in Challenge : challenges'[d] = IF d = c THEN rec ELSE challenges[d]
        /\ challenges[c].state = "PENDING" \/ (challenges[c].state = "PAID" /\ ~ challenges[c].aged)
        /\ rec.state \in {"PENDING", "PAID", "DELIVERED"}
        /\ handler'[h].pc \in AfterPaid =>
              handler'[h].challenge = c /\ rec.state = "PAID" /\ ~ rec.aged
    BY <1>2, ServesAlone
  <2> HIDE DEF c
  <2>2. FreshWhileServed'
    BY <2>1 DEF FreshWhileServed, Serving
  <2>3. RefundedIsOld'
    BY <2>1 DEF RefundedIsOld, RefundStates
  <2>4. ASSUME NEW k \in Cron, NEW s, Holds(k, s)
        PROVE  StillOwed(challenges'[s.challenge], s)
    BY <1>h, <2>1, <2>4 DEF StillOwed, RefundStates
  <2> QED
    BY <2>2, <2>3, <2>4 DEF BatchStillOwed, cronVars, Holds
<1> QED
  BY <1>1, <1>2, CallShape, GraceWhilePaid

LEMMA GraceRun ==
  ASSUME TypeInv, GraceInv, NEW k \in Cron, CronStep(k) \/ CronLost(k), UNCHANGED handler
  PROVE  GraceInv'
<1> USE DEF GraceInv
<1>1. /\ \A j \in Cron \ {k} : cron'[j] = cron[j]
      /\ \A d \in Challenge : RunMoves(k, d)
      /\ RunHolding(k)
  BY RunShape
<1>o. \A s \in cron[k].batch : s.challenge \in Challenge /\ StillOwed(challenges[s.challenge], s)
  BY HeldRecords DEF BatchStillOwed
<1>2. FreshWhileServed'
  BY <1>1, <1>o DEF FreshWhileServed, Serving, RunMoves, StillOwed
<1>3. RefundedIsOld'
  BY <1>1, <1>o DEF RefundedIsOld, RefundStates, RunMoves, StillOwed
<1>4. ASSUME NEW s, s.challenge \in Challenge, StillOwed(challenges[s.challenge], s) PROVE StillOwed(challenges'[s.challenge], s)
  BY <1>1, <1>4 DEF StillOwed, RunMoves, RefundStates
<1>5. ASSUME NEW d \in PendingForRefund, NEW s,
             s.challenge = d, s.fromAddress = challenges[d].fromAddress
      PROVE  d \in Challenge /\ StillOwed(challenges[s.challenge], s)
  BY <1>5 DEF PendingForRefund, StillOwed, TypeInv, StoreTypeOK
<1>6. ASSUME NEW j \in Cron
      PROVE  /\ \A s \in cron'[j].batch : StillOwed(challenges'[s.challenge], s)
             /\ cron'[j].current # NoSnapshot => StillOwed(challenges'[cron'[j].current.challenge], cron'[j].current)
  <2>1. CASE j # k
    BY <1>1, <1>4, <2>1, HeldRecords DEF BatchStillOwed
  <2>2. CASE j = k
    <3>1. ASSUME NEW s \in cron'[k].batch PROVE StillOwed(challenges'[s.challenge], s)
      BY <1>1, <1>4, <1>5, <1>o DEF RunHolding
    <3>2. cron'[k].current # NoSnapshot => StillOwed(challenges'[cron'[k].current.challenge], cron'[k].current)
      BY <1>1, <1>4, <1>o, HeldRecords DEF RunHolding, BatchStillOwed
    <3> QED
      BY <2>2, <3>1, <3>2
  <2> QED
    BY <2>1, <2>2
<1> QED
  BY <1>2, <1>3, <1>6 DEF BatchStillOwed

\* A record ages in no other way than by the grace period.
LEMMA ClockAges ==
  ASSUME TypeInv, NEW c \in Challenge, ChallengeLapses(c) \/ GracePeriodPasses(c)
  PROVE  \A d \in Challenge :
            /\ challenges[d].aged => challenges'[d].aged
            /\ challenges'[d].aged => challenges[d].aged \/ (d = c /\ GracePeriodPasses(c))
<1>1. challenges \in [Challenge -> ChallengeRecord]
  BY DEF TypeInv, StoreTypeOK
<1>2. CASE ChallengeLapses(c)
  BY <1>1, <1>2 DEF ChallengeLapses, ChallengeRecord
<1>3. CASE GracePeriodPasses(c)
  BY <1>1, <1>3 DEF GracePeriodPasses, PaymentAges, ChallengeRecord
<1> QED
  BY <1>2, <1>3

LEMMA GraceStep ==
  ASSUME "slow_handler" \notin Faults, TypeInv, ServiceInv, GraceInv, [Next]_vars
  PROVE  GraceInv'
<1>h. \A k \in Cron : /\ \A s \in cron[k].batch : s.challenge \in Challenge
                      /\ cron[k].current # NoSnapshot => cron[k].current.challenge \in Challenge
  BY HeldRecords
<1>u. ASSUME UNCHANGED <<challenges, handler, cron>> PROVE GraceInv'
  BY <1>u DEF GraceInv, FreshWhileServed, Serving, RefundedIsOld, BatchStillOwed, StillOwed
<1>1. ASSUME NEW c \in Challenge, RequeueFailed(c), UNCHANGED engineVars PROVE GraceInv'
  <2> DEFINE old == challenges[c]
  <2>1. /\ old \in ChallengeRecord /\ Transition(c, "REFUND_FAILED", "PAID", TRUE, old)
        /\ "PAID" \in ChallengeState
    BY <1>1 DEF RequeueFailed, TypeInv, StoreTypeOK, ChallengeState
  <2> HIDE DEF old
  <2>2. challenges[c].state = "REFUND_FAILED" /\ Replaced(c, "PAID", old)
    BY <2>1, TransitionRecord
  <2>3. \A d \in Challenge :
           /\ challenges'[d].aged = challenges[d].aged
           /\ challenges'[d].accessGrant = challenges[d].accessGrant
           /\ challenges'[d].fromAddress = challenges[d].fromAddress
           /\ challenges'[d].state = IF d = c THEN "PAID" ELSE challenges[d].state
    BY <2>2 DEF Replaced, old
  <2>4. FreshWhileServed'
    BY <1>1, <2>2, <2>3 DEF GraceInv, FreshWhileServed, Serving, engineVars
  <2>5. RefundedIsOld'
    BY <2>3 DEF GraceInv, RefundedIsOld, RefundStates
  <2>6. BatchStillOwed'
    BY <1>1, <1>h, <2>3
    DEF GraceInv, BatchStillOwed, StillOwed, RefundStates, RequeueFailed, cronVars
  <2> QED
    BY <2>4, <2>5, <2>6 DEF GraceInv
<1>2. ASSUME NEW c \in Challenge, ChallengeLapses(c) \/ GracePeriodPasses(c),
             UNCHANGED <<engineVars, cronVars>>
      PROVE  GraceInv'
  <2>1. \A d \in Challenge :
           /\ challenges'[d].state = challenges[d].state
           /\ challenges'[d].accessGrant = challenges[d].accessGrant
           /\ challenges'[d].fromAddress = challenges[d].fromAddress
           /\ challenges[d].aged => challenges'[d].aged
           /\ challenges'[d].aged => challenges[d].aged \/ \A h \in Handler : ~ Serving(h, d)
    BY <1>2, ClockWrites, ClockAges DEF GracePeriodPasses
  <2>2. FreshWhileServed'
    BY <1>2, <2>1 DEF GraceInv, FreshWhileServed, Serving, engineVars
  <2>3. RefundedIsOld'
    BY <2>1 DEF GraceInv, RefundedIsOld
  <2>4. BatchStillOwed'
    BY <1>2, <1>h, <2>1 DEF GraceInv, BatchStillOwed, StillOwed, cronVars
  <2> QED
    BY <2>2, <2>3, <2>4 DEF GraceInv
<1>3. ASSUME NEW t \in Tx, ClientTransfers(t), UNCHANGED cronVars PROVE GraceInv'
  BY <1>3, <1>u DEF ClientTransfers, storeVars, cronVars
<1>4. ASSUME NEW r \in Request, RequestKeyExpires(r), UNCHANGED <<engineVars, cronVars>>
      PROVE  GraceInv'
  BY <1>4, <1>u DEF RequestKeyExpires, engineVars, cronVars
<1>5. UNCHANGED vars => GraceInv'
  BY <1>u DEF vars, storeVars, engineVars, cronVars
<1>6. ASSUME NEW k \in Cron, CronStep(k) \/ CronLost(k), UNCHANGED engineVars PROVE GraceInv'
  BY <1>6, GraceRun DEF engineVars
<1> QED
  BY <1>1, <1>2, <1>3, <1>4, <1>5, <1>6, GraceCall DEF Next, EngineNext, CronNext, ClockNext

LEMMA GraceCorrect ==
  ASSUME "slow_handler" \notin Faults
  PROVE  Spec => []GraceInv
<1>1. Init => GraceInv
  <2> SUFFICES ASSUME Init
               PROVE  /\ \A h \in Handler : handler[h].pc = "idle"
                      /\ \A c \in Challenge : challenges[c].state = "ABSENT"
                      /\ \A k \in Cron : cron[k].batch = {} /\ cron[k].current = NoSnapshot
    BY DEF GraceInv, FreshWhileServed, Serving, AfterPaid, RefundedIsOld, RefundStates,
           BatchStillOwed
  <2> QED
    BY DEF Init, StoreInit, EngineInit, CronInit, AbsentRecord, Idle, IdleRun
<1>2. TypeInv /\ ServiceInv /\ GraceInv /\ [Next]_vars => GraceInv'
  BY GraceStep
<1> QED
  BY <1>1, <1>2, GatewayInit, TypeInvStep, ServiceCorrect, PTL DEF Spec

-----------------------------------------------------------------------------
\* A grant is never taken back.

LEMMA GrantStays ==
  ASSUME TypeInv, ServiceInv, GraceInv, [Next]_vars, NEW c \in Challenge,
         challenges[c].accessGrant # NoTx
  PROVE  challenges'[c].accessGrant # NoTx
<1>0. challenges[c].state \in PaidStates
  BY DEF ServiceInv, GrantHeld
<1>1. ASSUME NEW h \in Handler, ClientCall(h) \/ HandlerStep(h) \/ HandlerLost(h)
      PROVE  challenges'[c].accessGrant # NoTx
  <2>1. CASE Aside(h)
    BY <1>0, <2>1 DEF Aside, UnpaidMoves, PaidStates
  <2>2. ASSUME NEW rec \in ChallengeRecord, Serves(h, rec)
        PROVE  challenges'[c].accessGrant # NoTx
    BY <1>0, <2>2, StoreAssumption
    DEF Serves, Pays, Claims, Loses, RollsBack, Issues, Stores, Delivers, Takes, PaidStates
  <2> QED
    BY <1>1, <2>1, <2>2, CallShape, GraceWhilePaid
<1>2. ASSUME NEW k \in Cron, CronStep(k) \/ CronLost(k)
      PROVE  challenges'[c].accessGrant # NoTx
  BY <1>2, RunShape DEF RunMoves
<1>3. ASSUME NEW d \in Challenge, RequeueFailed(d) PROVE challenges'[c].accessGrant # NoTx
  <2> DEFINE old == challenges[d]
  <2>1. /\ old \in ChallengeRecord /\ Transition(d, "REFUND_FAILED", "PAID", TRUE, old)
        /\ "PAID" \in ChallengeState
    BY <1>3 DEF RequeueFailed, TypeInv, StoreTypeOK, ChallengeState
  <2> HIDE DEF old
  <2>2. Replaced(d, "PAID", old)
    BY <2>1, TransitionRecord
  <2> QED
    BY <2>2 DEF Replaced, old
<1>4. ASSUME NEW d \in Challenge, ChallengeLapses(d) \/ GracePeriodPasses(d)
      PROVE  challenges'[c].accessGrant # NoTx
  BY <1>4, ClockWrites
<1>5. UNCHANGED challenges => challenges'[c].accessGrant # NoTx
  OBVIOUS
<1> QED
  BY <1>1, <1>2, <1>3, <1>4, <1>5
  DEF Next, EngineNext, CronNext, ClockNext, ClientTransfers, RequestKeyExpires, vars,
      storeVars

\* A grant is a promise kept (the accessGrant filter of findPendingForRefund,
\* redis.ts, and the grace period): once the grant is stored, no refund run
\* claims the record, in whatever order the writes of the call, of the runs and
\* of an operator's requeue fall. Calls that outlast minAgeMs are excluded.
THEOREM GrantsAreKept ==
  ASSUME "slow_handler" \notin Faults
  PROVE  Spec => GrantNeverRefunded
<1> DEFINE Kept == \A c \in Challenge : challenges[c].accessGrant # NoTx
                      => challenges'[c].state \in {"PAID", "DELIVERED"}
<1>1. ASSUME TypeInv, ServiceInv, GraceInv, [Next]_vars, ServiceInv', GraceInv'
      PROVE  Kept
  <2> SUFFICES ASSUME NEW c \in Challenge, challenges[c].accessGrant # NoTx
               PROVE  challenges'[c].state \in {"PAID", "DELIVERED"}
    OBVIOUS
  <2>1. challenges'[c].accessGrant # NoTx
    BY <1>1, GrantStays
  <2> QED
    BY <1>1, <2>1 DEF ServiceInv, GrantHeld, PaidStates, GraceInv, RefundedIsOld, RefundStates
<1>2. TypeInv /\ ServiceInv /\ GraceInv /\ [Next]_vars /\ ServiceInv' /\ GraceInv'
         => [Kept]_vars
  BY <1>1
<1>3. Spec => []TypeInv
  BY GatewayInit, TypeInvStep, PTL DEF Spec
<1> HIDE DEF Kept
<1>4. Spec => [][Kept]_vars
  BY <1>2, <1>3, ServiceCorrect, GraceCorrect, PTL DEF Spec
<1> QED
  BY <1>4 DEF GrantNeverRefunded, Kept

-----------------------------------------------------------------------------
\* A refund goes to the account that paid.

PayerIsSender == \A c \in Challenge : challenges[c].fromAddress = challenges[c].txHash

LEMMA PayerStep ==
  ASSUME "payer_unknown" \notin Faults, TypeInv, GraceInv, PayerIsSender, [Next]_vars
  PROVE  PayerIsSender'
<1>u. UNCHANGED challenges => PayerIsSender'
  BY DEF PayerIsSender
<1>1. ASSUME NEW h \in Handler, ClientCall(h) \/ HandlerStep(h) \/ HandlerLost(h)
      PROVE  PayerIsSender'
  <2>1. CASE Aside(h)
    BY <2>1 DEF Aside, UnpaidMoves, PayerIsSender
  <2>2. ASSUME NEW rec \in ChallengeRecord, Serves(h, rec) PROVE PayerIsSender'
    BY <2>2 DEF Serves, Pays, Claims, Loses, RollsBack, Issues, Stores, Delivers, Takes,
                PayerIsSender
  <2> QED
    BY <1>1, <2>1, <2>2, CallShape, GraceWhilePaid
<1>2. ASSUME NEW k \in Cron, CronStep(k) \/ CronLost(k) PROVE PayerIsSender'
  BY <1>2, RunShape DEF RunMoves, PayerIsSender
<1>3. ASSUME NEW d \in Challenge, RequeueFailed(d) PROVE PayerIsSender'
  <2> DEFINE old == challenges[d]
  <2>1. /\ old \in ChallengeRecord /\ Transition(d, "REFUND_FAILED", "PAID", TRUE, old)
        /\ "PAID" \in ChallengeState
    BY <1>3 DEF RequeueFailed, TypeInv, StoreTypeOK, ChallengeState
  <2> HIDE DEF old
  <2>2. Replaced(d, "PAID", old)
    BY <2>1, TransitionRecord
  <2> QED
    BY <2>2 DEF Replaced, PayerIsSender, old
<1>4. ASSUME NEW d \in Challenge, ChallengeLapses(d) \/ GracePeriodPasses(d)
      PROVE  PayerIsSender'
  BY <1>4, ClockWrites DEF PayerIsSender
<1> QED
  BY <1>1, <1>2, <1>3, <1>4, <1>u
  DEF Next, EngineNext, CronNext, ClockNext, ClientTransfers, RequestKeyExpires, vars,
      storeVars

LEMMA PayerCorrect ==
  ASSUME "slow_handler" \notin Faults, "payer_unknown" \notin Faults
  PROVE  Spec => []PayerIsSender
<1>1. ASSUME Init, NEW c \in Challenge
      PROVE  challenges[c].fromAddress = challenges[c].txHash
  <2>1. challenges[c] = AbsentRecord
    BY <1>1 DEF Init, StoreInit
  <2> QED
    BY <2>1 DEF AbsentRecord
<1>2. Init => PayerIsSender
  BY <1>1 DEF PayerIsSender
<1>3. TypeInv /\ GraceInv /\ PayerIsSender /\ [Next]_vars => PayerIsSender'
  BY PayerStep
<1> QED
  BY <1>2, <1>3, GatewayInit, TypeInvStep, GraceCorrect, PTL DEF Spec

\* A refund is sent to the account that made the payment now recorded
\* (processRefunds, refund.ts), although the run took the address from a record
\* it read some awaits earlier. Excluded are calls that outlast minAgeMs and
\* payments without a known payer, which leave an earlier payer in the record.
THEOREM RefundsReachPayers ==
  ASSUME "slow_handler" \notin Faults, "payer_unknown" \notin Faults
  PROVE  Spec => []RefundReachesPayer
<1>1. TypeInv /\ GraceInv /\ PayerIsSender => RefundReachesPayer
  <2> SUFFICES ASSUME TypeInv, GraceInv, PayerIsSender, NEW k \in Cron, cron[k].pc = "send"
               PROVE  cron[k].current.fromAddress
                         = challenges[cron[k].current.challenge].txHash
    BY DEF RefundReachesPayer
  <2>1. cron[k].current # NoSnapshot /\ cron[k].current.challenge \in Challenge
    BY RunHolds
  <2>2. challenges[cron[k].current.challenge].fromAddress = cron[k].current.fromAddress
    BY <2>1 DEF GraceInv, BatchStillOwed, StillOwed
  <2> QED
    BY <2>1, <2>2 DEF PayerIsSender
<1>2. Spec => []TypeInv
  BY GatewayInit, TypeInvStep, PTL DEF Spec
<1> QED
  BY <1>1, <1>2, GraceCorrect, PayerCorrect, PTL

-----------------------------------------------------------------------------
\* One transfer, one outcome. A recorded payment belongs to the transfer that
\* the record has claimed, a grant handed out is the one that is stored, and a
\* refund is counted on a record that nobody will refund again.

Claiming(c) == \E h \in Handler : /\ handler[h].pc \in {"mark", "rollback"}
                                  /\ handler[h].challenge = c

PaidIsClaimed ==
    \A c \in Challenge :
        challenges[c].state \in PaidStates /\ ~ Claiming(c)
            => challenges[c].txHash \in Tx /\ seenTx[challenges[c].txHash] = c

GrantIsStored ==
    \A h \in Handler :
        handler[h].pc = "deliver"
            => challenges[handler[h].challenge].accessGrant = handler[h].tx

ServedHasGrant ==
    \A t \in Tx : \A c \in served[t] : challenges[c].accessGrant = t

PaidBack(t, c) ==
    /\ seenTx[t] = c
    /\ challenges[c].state \in {"REFUND_PENDING", "REFUNDED"}
    /\ \A k \in Cron : Refunding(k, c) => cron[k].pc = "confirm"

PayoutsAccountedFor ==
    \A t \in Tx : payouts[t] > 0 => payouts[t] = 1 /\ \E c \in Challenge : PaidBack(t, c)

PromiseInv == PaidIsClaimed /\ GrantIsStored /\ ServedHasGrant /\ PayoutsAccountedFor

LEMMA PromiseAside ==
  ASSUME "mark_lost" \notin Faults, TypeInv, ServiceInv, GraceInv, PromiseInv,
         NEW h \in Handler, Aside(h), UNCHANGED cronVars
  PROVE  PromiseInv'
<1> USE DEF PromiseInv
<1>s. served \in [Tx -> SUBSET Challenge]
  BY DEF TypeInv, EngineTypeOK
<1>k. ASSUME NEW c \in Challenge, challenges[c].state \in PaidStates
      PROVE  challenges'[c] = challenges[c]
  BY <1>k DEF Aside, UnpaidMoves, PaidStates
<1>1. PaidIsClaimed'
  <2> SUFFICES ASSUME NEW c \in Challenge, challenges'[c].state \in PaidStates, ~ Claiming(c)'
               PROVE  challenges'[c].txHash \in Tx /\ seenTx'[challenges'[c].txHash] = c
    BY DEF PaidIsClaimed
  <2>1. challenges'[c] = challenges[c]
    BY DEF Aside, UnpaidMoves, PaidStates
  <2>2. ~ Claiming(c)
    BY DEF Aside, OthersKept, Claiming
  <2> QED
    BY <2>1, <2>2 DEF PaidIsClaimed, Aside
<1>2. GrantIsStored'
  <2> SUFFICES ASSUME NEW g \in Handler, handler'[g].pc = "deliver"
               PROVE  challenges'[handler'[g].challenge].accessGrant = handler'[g].tx
    BY DEF GrantIsStored
  <2>1. handler'[g] = handler[g]
    BY DEF Aside, OthersKept, AfterPaid
  <2>2. handler[g].challenge \in Challenge /\ challenges[handler[g].challenge].state = "PAID"
    BY <2>1, OnlyServer DEF GraceInv, FreshWhileServed, Serving, AfterPaid
  <2> QED
    BY <2>1, <2>2, <1>k DEF GrantIsStored, PaidStates
<1>3. ServedHasGrant'
  <2> SUFFICES ASSUME NEW t \in Tx, NEW c \in served[t] PROVE challenges'[c].accessGrant = t
    BY DEF ServedHasGrant, Aside
  <2>1. c \in Challenge /\ challenges[c].accessGrant = t /\ t # NoTx
    BY <1>s, StoreAssumption DEF ServedHasGrant
  <2> QED
    BY <2>1, <1>k DEF ServiceInv, GrantHeld
<1>4. PayoutsAccountedFor'
  <2> SUFFICES ASSUME NEW t \in Tx, payouts[t] > 0
               PROVE  payouts[t] = 1 /\ \E c \in Challenge : PaidBack(t, c)'
    BY DEF PayoutsAccountedFor, cronVars
  <2>1. PICK c \in Challenge : payouts[t] = 1 /\ PaidBack(t, c)
    BY DEF PayoutsAccountedFor
  <2>2. challenges'[c] = challenges[c] /\ UNCHANGED seenTx
    BY <2>1, <1>k DEF PaidBack, PaidStates, Aside
  <2> QED
    BY <2>1, <2>2 DEF PaidBack, Refunding, cronVars
<1> QED
  BY <1>1, <1>2, <1>3, <1>4

LEMMA PromiseServes ==
  ASSUME TypeInv, ServiceInv, GraceInv, PromiseInv, NEW h \in Handler,
         NEW rec \in ChallengeRecord, Serves(h, rec), UNCHANGED cronVars
  PROVE  PromiseInv'
<1> USE DEF PromiseInv
<1> DEFINE c == handler[h].challenge
           t == handler[h].tx
<1>s. /\ served \in [Tx -> SUBSET Challenge]
      /\ seenTx \in [Tx -> Challenge \cup {NoChallenge}]
      /\ NoChallenge \notin Challenge /\ NoTx \notin Tx
  BY StoreAssumption DEF TypeInv, EngineTypeOK, StoreTypeOK
<1>a. /\ c \in Challenge /\ t \in Tx
      /\ \A g \in Handler \ {h} : handler'[g] = handler[g] /\ ~ Serving(g, c)
      /\ \A d \in Challenge : challenges'[d] = IF d = c THEN rec ELSE challenges[d]
      /\ challenges[c].state = "PENDING" \/ (challenges[c].state = "PAID" /\ ~ challenges[c].aged)
      /\ handler'[h].pc \in AfterPaid => handler'[h].challenge = c /\ handler'[h].tx = t
  BY ServesAlone DEF GraceInv
<1>p. handler[h].pc \in AfterPaid =>
         /\ challenges[c].txHash = t
         /\ handler[h].pc \in {"issue", "persist", "deliver"} => seenTx[t] = c
  BY DEF ServiceInv, ServesPaid
<1>o. \A u \in Tx : seenTx[u] # NoChallenge => seenTx'[u] = seenTx[u]
  BY <1>s, <1>a DEF Serves, Pays, Claims, Loses, RollsBack, Issues, Stores, Delivers
<1>g. challenges[c].accessGrant # NoTx =>
         challenges[c].state = "PAID" /\ challenges[c].accessGrant = challenges[c].txHash
  BY <1>a DEF ServiceInv, GrantHeld, PaidStates
<1> HIDE DEF c, t
<1>1. PaidIsClaimed'
  <2> SUFFICES ASSUME NEW d \in Challenge, challenges'[d].state \in PaidStates, ~ Claiming(d)'
               PROVE  challenges'[d].txHash \in Tx /\ seenTx'[challenges'[d].txHash] = d
    BY DEF PaidIsClaimed
  <2>1. CASE d # c
    <3>1. challenges'[d] = challenges[d]
      BY <1>a, <2>1
    <3>2. ~ Claiming(d)
      BY <1>a, <2>1 DEF Claiming, c
    <3>3. challenges[d].txHash \in Tx /\ seenTx[challenges[d].txHash] = d
      BY <3>1, <3>2 DEF PaidIsClaimed
    <3> QED
      BY <1>s, <1>o, <3>1, <3>3
  <2>2. CASE d = c
    <3>1. challenges'[c] = rec
      BY <1>a
    <3>2. ~ Pays(h, rec) /\ ~ Loses(h, rec)
      BY <1>a, <2>2 DEF Pays, Loses, Takes, Claiming, AfterPaid
    <3>3. ~ RollsBack(h, rec)
      BY <3>1, <2>2 DEF RollsBack, PaidStates
    <3>4. CASE Claims(h, rec)
      BY <1>a, <1>s, <1>p, <2>2, <3>1, <3>4 DEF Claims, Takes, AfterPaid, c, t
    <3>5. CASE Issues(h, rec) \/ Stores(h, rec) \/ Delivers(h, rec)
      BY <1>a, <1>s, <1>p, <1>o, <2>2, <3>1, <3>5
      DEF Issues, Stores, Delivers, Takes, AfterPaid, c, t
    <3> QED
      BY <3>2, <3>3, <3>4, <3>5 DEF Serves
  <2> QED
    BY <2>1, <2>2
<1>2. GrantIsStored'
  <2> SUFFICES ASSUME NEW g \in Handler, handler'[g].pc = "deliver"
               PROVE  challenges'[handler'[g].challenge].accessGrant = handler'[g].tx
    BY DEF GrantIsStored
  <2>1. CASE g = h
    <3>1. Stores(h, rec)
      BY <2>1 DEF Serves, Pays, Claims, Loses, RollsBack, Issues, Delivers, Takes
    <3> QED
      BY <1>a, <2>1, <3>1 DEF Stores, AfterPaid, c, t
  <2>2. CASE g # h
    <3>1. handler'[g] = handler[g] /\ ~ Serving(g, c)
      BY <1>a, <2>2
    <3>2. handler[g].challenge \in Challenge \ {c}
      BY <3>1, ServingLocals DEF Serving, AfterPaid
    <3> QED
      BY <1>a, <3>1, <3>2 DEF GrantIsStored
  <2> QED
    BY <2>1, <2>2
<1>3. ServedHasGrant'
  <2>1. ASSUME NEW u \in Tx, NEW d \in served[u] PROVE challenges'[d].accessGrant = u
    <3>1. d \in Challenge /\ challenges[d].accessGrant = u /\ u # NoTx
      BY <1>s DEF ServedHasGrant
    <3>2. CASE d # c
      BY <1>a, <3>1, <3>2
    <3>3. CASE d = c
      <4>1. challenges[c].state = "PAID" /\ u = challenges[c].txHash
        BY <1>g, <3>1, <3>3
      <4>2. rec.accessGrant = challenges[c].accessGrant \/ Stores(h, rec)
        BY DEF Serves, Pays, Claims, Loses, RollsBack, Issues, Delivers, c
      <4>3. Stores(h, rec) => rec.accessGrant = u
        BY <1>p, <4>1 DEF Stores, Takes, AfterPaid, c, t
      <4> QED
        BY <1>a, <3>1, <3>3, <4>2, <4>3
    <3> QED
      BY <3>2, <3>3
  <2>2. CASE UNCHANGED served
    BY <2>1, <2>2 DEF ServedHasGrant
  <2>3. CASE Delivers(h, rec)
    <3>1. rec.accessGrant = t
      BY <2>3 DEF Delivers, Takes, GrantIsStored, c, t
    <3>2. \A u \in Tx : \A d \in served'[u] : d \in served[u] \/ (d = c /\ u = t)
      BY <1>s, <1>a, <2>3 DEF Delivers, c, t
    <3> QED
      BY <1>a, <2>1, <3>1, <3>2 DEF ServedHasGrant
  <2> QED
    BY <2>2, <2>3 DEF Serves, Pays, Claims, Loses, RollsBack, Issues, Stores
<1>4. PayoutsAccountedFor'
  <2> SUFFICES ASSUME NEW u \in Tx, payouts[u] > 0
               PROVE  payouts[u] = 1 /\ \E d \in Challenge : PaidBack(u, d)'
    BY DEF PayoutsAccountedFor, cronVars
  <2>1. PICK d \in Challenge : payouts[u] = 1 /\ PaidBack(u, d)
    BY DEF PayoutsAccountedFor
  <2>2. challenges'[d] = challenges[d]
    BY <1>a, <2>1 DEF PaidBack
  <2>3. seenTx'[u] = d
    BY <1>o, <1>s, <2>1 DEF PaidBack
  <2> QED
    BY <2>1, <2>2, <2>3 DEF PaidBack, Refunding, cronVars
<1> QED
  BY <1>1, <1>2, <1>3, <1>4

LEMMA PromiseCall ==
  ASSUME "mark_lost" \notin Faults, TypeInv, ServiceInv, GraceInv, PromiseInv,
         NEW h \in Handler, ClientCall(h) \/ HandlerStep(h) \/ HandlerLost(h),
         UNCHANGED cronVars
  PROVE  PromiseInv'
  BY CallShape, GraceWhilePaid, PromiseAside, PromiseServes

\* What a run sends is owed: the record is the one that has claimed the
\* transfer, and nothing has been sent for it.
LEMMA RefundIsDue ==
  ASSUME TypeInv, RefundInv, GraceInv, PayerIsSender, PromiseInv,
         NEW k \in Cron, cron[k].pc = "send"
  PROVE  LET c == cron[k].current.challenge
             t == cron[k].current.fromAddress
         IN  /\ c \in Challenge /\ t \in Tx
             /\ Refunding(k, c)
             /\ challenges[c].state = "REFUND_PENDING" /\ challenges[c].accessGrant = NoTx
             /\ seenTx[t] = c
             /\ payouts[t] = 0
<1> DEFINE s == cron[k].current
           c == s.challenge
           t == s.fromAddress
<1>1. s # NoSnapshot /\ c \in Challenge
  BY RunHolds
<1>2. StillOwed(challenges[c], s)
  BY <1>1 DEF GraceInv, BatchStillOwed
<1>3. Refunding(k, c) /\ challenges[c].state = "REFUND_PENDING"
  BY <1>1 DEF RefundInv, ClaimHeld, Refunding
<1>4. ~ Claiming(c)
  BY <1>1, <1>3 DEF GraceInv, FreshWhileServed, Serving, AfterPaid, Claiming
<1>5. challenges[c].txHash \in Tx /\ seenTx[challenges[c].txHash] = c
  BY <1>1, <1>3, <1>4 DEF PromiseInv, PaidIsClaimed, PaidStates
<1>6. challenges[c].txHash = t /\ challenges[c].accessGrant = NoTx
  BY <1>1, <1>2 DEF PayerIsSender, StillOwed
<1>7. ~ payouts[t] > 0
  <2> SUFFICES ASSUME NEW d \in Challenge, PaidBack(t, d) PROVE FALSE
    BY <1>5, <1>6 DEF PromiseInv, PayoutsAccountedFor
  <2> QED
    BY <1>3, <1>5, <1>6 DEF PaidBack
<1>8. payouts[t] \in Nat
  BY <1>5, <1>6, CronAssumption DEF TypeInv, CronTypeOK
<1>9. payouts[t] = 0
  BY <1>7, <1>8
<1> QED
  BY <1>1, <1>3, <1>5, <1>6, <1>9

LEMMA PromiseRun ==
  ASSUME "receipt_timeout" \notin Faults, "confirm_error" \notin Faults,
         TypeInv, RefundInv, GraceInv, PayerIsSender, PromiseInv,
         NEW k \in Cron, CronStep(k) \/ CronLost(k), UNCHANGED engineVars
  PROVE  PromiseInv'
<1>s. /\ served \in [Tx -> SUBSET Challenge]
      /\ payouts \in [Tx -> 0..MaxPayouts]
      /\ UNCHANGED <<handler, served>>
  BY DEF TypeInv, EngineTypeOK, CronTypeOK, engineVars
<1>1. /\ UNCHANGED seenTx
      /\ \A j \in Cron \ {k} : cron'[j] = cron[j]
      /\ \A d \in Challenge :
            /\ RunMoves(k, d)
            /\ challenges'[d].txHash = challenges[d].txHash
            /\ challenges'[d].accessGrant = challenges[d].accessGrant
            /\ challenges'[d].state \in PaidStates => challenges[d].state \in PaidStates
  BY RunShape DEF RunMoves, PaidStates
<1>2. PaidIsClaimed'
  BY <1>s, <1>1 DEF PromiseInv, PaidIsClaimed, Claiming
<1>3. GrantIsStored'
  BY <1>s, <1>1, ServingLocals DEF PromiseInv, GrantIsStored, AfterPaid
<1>4. ServedHasGrant'
  BY <1>s, <1>1 DEF PromiseInv, ServedHasGrant
<1>5. ASSUME NEW t \in Tx, NEW c \in Challenge, PaidBack(t, c) PROVE PaidBack(t, c)'
  <2>1. challenges'[c].state \in {"REFUND_PENDING", "REFUNDED"}
    BY <1>1, <1>5 DEF RunMoves, PaidBack, Refunding
  <2>2. ASSUME NEW j \in Cron, Refunding(j, c)' PROVE cron'[j].pc = "confirm"
    <3>1. CASE j = k
      BY <1>5, <2>2, <3>1, RunPays DEF PaidBack
    <3>2. CASE j # k
      BY <1>1, <1>5, <2>2, <3>2 DEF PaidBack, Refunding
    <3> QED
      BY <3>1, <3>2
  <2> QED
    BY <1>1, <1>5, <2>1, <2>2 DEF PaidBack
<1>6. CASE UNCHANGED payouts
  <2>1. PayoutsAccountedFor'
    BY <1>5, <1>6 DEF PromiseInv, PayoutsAccountedFor
  <2> QED
    BY <1>2, <1>3, <1>4, <2>1 DEF PromiseInv
<1>7. CASE Sends(k)
  <2>1. PICK c \in Challenge, t \in Tx :
           /\ t = cron[k].current.fromAddress /\ Refunding(k, c)
           /\ challenges[c].state = "REFUND_PENDING" /\ seenTx[t] = c /\ payouts[t] = 0
    BY <1>7, RefundIsDue DEF Sends
  <2>2. /\ payouts' = [payouts EXCEPT ![t] = 1]
        /\ UNCHANGED challenges
        /\ cron'[k].pc = "confirm"
        /\ cron'[k].current = cron[k].current
    BY <1>s, <1>7, <2>1 DEF Sends, storeVars
  <2>3. PaidBack(t, c)'
    <3>1. ASSUME NEW j \in Cron, Refunding(j, c)' PROVE j = k
      BY <1>1, <2>1, <3>1 DEF RefundInv, OneRefundRunPerChallenge, Refunding
    <3> QED
      BY <1>1, <2>1, <2>2, <3>1 DEF PaidBack
  <2>4. PayoutsAccountedFor'
    <3> SUFFICES ASSUME NEW u \in Tx, payouts'[u] > 0
                 PROVE  payouts'[u] = 1 /\ \E d \in Challenge : PaidBack(u, d)'
      BY DEF PayoutsAccountedFor
    <3>1. CASE u = t
      BY <1>s, <2>1, <2>2, <2>3, <3>1
    <3>2. CASE u # t
      <4>1. payouts'[u] = payouts[u]
        BY <1>s, <2>2, <3>2
      <4> QED
        BY <1>5, <4>1 DEF PromiseInv, PayoutsAccountedFor
    <3> QED
      BY <3>1, <3>2
  <2> QED
    BY <1>2, <1>3, <1>4, <2>4 DEF PromiseInv
<1> QED
  BY <1>6, <1>7, RunPays

\* A requeue and the clock leave alone all that PromiseInv speaks of but the
\* state, and a record refunded is not requeued.
LEMMA PromiseKept ==
  ASSUME PromiseInv, TypeInv, UNCHANGED <<handler, served, seenTx, cron, payouts>>,
         \A d \in Challenge :
            /\ challenges'[d].txHash = challenges[d].txHash
            /\ challenges'[d].accessGrant = challenges[d].accessGrant
            /\ \/ challenges'[d].state = challenges[d].state
               \/ challenges[d].state = "REFUND_FAILED" /\ challenges'[d].state = "PAID"
  PROVE  PromiseInv'
<1>s. served \in [Tx -> SUBSET Challenge]
  BY DEF TypeInv, EngineTypeOK
<1>1. PaidIsClaimed'
  BY DEF PromiseInv, PaidIsClaimed, PaidStates, Claiming
<1>2. GrantIsStored'
  BY ServingLocals DEF PromiseInv, GrantIsStored, AfterPaid
<1>3. ServedHasGrant'
  BY <1>s DEF PromiseInv, ServedHasGrant
<1>4. ASSUME NEW t \in Tx, NEW c \in Challenge, PaidBack(t, c) PROVE PaidBack(t, c)'
  BY <1>4 DEF PaidBack, Refunding
<1>5. PayoutsAccountedFor'
  BY <1>4 DEF PromiseInv, PayoutsAccountedFor
<1> QED
  BY <1>1, <1>2, <1>3, <1>5 DEF PromiseInv

LEMMA PromiseStep ==
  ASSUME Faults \subseteq {"handler_lost", "cron_lost"},
         TypeInv, RefundInv, ServiceInv, GraceInv, PayerIsSender, PromiseInv, [Next]_vars
  PROVE  PromiseInv'
<1>1. ASSUME NEW c \in Challenge, RequeueFailed(c), UNCHANGED engineVars PROVE PromiseInv'
  <2> DEFINE old == challenges[c]
  <2>1. /\ old \in ChallengeRecord /\ Transition(c, "REFUND_FAILED", "PAID", TRUE, old)
        /\ "PAID" \in ChallengeState
    BY <1>1 DEF RequeueFailed, TypeInv, StoreTypeOK, ChallengeState
  <2> HIDE DEF old
  <2>2. challenges[c].state = "REFUND_FAILED" /\ UNCHANGED seenTx /\ Replaced(c, "PAID", old)
    BY <2>1, TransitionRecord
  <2>3. \A d \in Challenge :
           /\ challenges'[d].txHash = challenges[d].txHash
           /\ challenges'[d].accessGrant = challenges[d].accessGrant
           /\ \/ challenges'[d].state = challenges[d].state
              \/ challenges[d].state = "REFUND_FAILED" /\ challenges'[d].state = "PAID"
    BY <2>2 DEF Replaced, old
  <2> QED
    BY <1>1, <2>2, <2>3, PromiseKept DEF RequeueFailed, engineVars, cronVars
<1>2. ASSUME NEW c \in Challenge, ChallengeLapses(c) \/ GracePeriodPasses(c),
             UNCHANGED <<engineVars, cronVars>>
      PROVE  PromiseInv'
  BY <1>2, ClockWrites, PromiseKept DEF engineVars, cronVars
<1>3. ASSUME NEW t \in Tx, ClientTransfers(t), UNCHANGED cronVars PROVE PromiseInv'
  BY <1>3, PromiseKept DEF ClientTransfers, storeVars, cronVars
<1>4. ASSUME NEW r \in Request, RequestKeyExpires(r), UNCHANGED <<engineVars, cronVars>>
      PROVE  PromiseInv'
  BY <1>4, PromiseKept DEF RequestKeyExpires, engineVars, cronVars
<1>5. UNCHANGED vars => PromiseInv'
  BY PromiseKept DEF vars, storeVars, engineVars, cronVars
<1> QED
  BY <1>1, <1>2, <1>3, <1>4, <1>5, PromiseCall, PromiseRun
  DEF Next, EngineNext, CronNext, ClockNext

LEMMA PromiseCorrect ==
  ASSUME Faults \subseteq {"handler_lost", "cron_lost"}
  PROVE  Spec => [](PayerIsSender /\ PromiseInv)
<1>1. ASSUME Init PROVE PromiseInv
  <2>1. \A c \in Challenge : challenges[c].state = "ABSENT"
    BY <1>1 DEF Init, StoreInit, AbsentRecord
  <2>2. \A h \in Handler : handler[h].pc = "idle"
    BY <1>1 DEF Init, EngineInit, Idle
  <2>3. /\ \A t \in Tx : served[t] = {}
        /\ \A t \in Tx : payouts[t] = 0
    BY <1>1 DEF Init, EngineInit, CronInit
  <2> QED
    BY <2>1, <2>2, <2>3 DEF PromiseInv, PaidIsClaimed, PaidStates, GrantIsStored,
                            ServedHasGrant, PayoutsAccountedFor
<1>2. TypeInv /\ RefundInv /\ ServiceInv /\ GraceInv /\ PayerIsSender /\ PromiseInv /\ [Next]_vars
         => PromiseInv'
  BY PromiseStep
<1>3. "slow_handler" \notin Faults /\ "payer_unknown" \notin Faults
  OBVIOUS
<1>4. Spec => []GraceInv
  BY <1>3, GraceCorrect
<1>5. Spec => []PayerIsSender
  BY <1>3, PayerCorrect
<1>6. Init => PromiseInv
  BY <1>1
<1> QED
  BY <1>2, <1>4, <1>5, <1>6, GatewayInit, TypeInvStep, RefundCorrect, ServiceCorrect, PTL
  DEF Spec

-----------------------------------------------------------------------------
\* The steps of the gateway, seen as outcomes of transfers.

OneOutcome ==
    \A t \in Tx :
        /\ served[t] \subseteq {seenTx[t]}
        /\ payouts[t] \in {0, 1}
        /\ payouts[t] > 0 => served[t] = {}
        /\ served[t] # {} \/ payouts[t] > 0 => t \in settled

OutcomeOf(t) ==
    IF served[t] # {} THEN "served"
    ELSE IF payouts[t] > 0 THEN "refunded"
    ELSE IF t \in settled THEN "paid"
    ELSE "unpaid"

LEMMA OutcomesExclude ==
  TypeInv /\ ServiceInv /\ GraceInv /\ PromiseInv /\ BackedByTransfer => OneOutcome
<1> SUFFICES ASSUME TypeInv, ServiceInv, GraceInv, PromiseInv, BackedByTransfer, NEW t \in Tx
             PROVE  /\ served[t] \subseteq {seenTx[t]}
                    /\ payouts[t] \in {0, 1}
                    /\ payouts[t] > 0 => served[t] = {}
                    /\ served[t] # {} \/ payouts[t] > 0 => t \in settled
  BY DEF OneOutcome
<1>1. payouts[t] \in Nat /\ served[t] \subseteq Challenge /\ t # NoTx
  BY StoreAssumption, CronAssumption DEF TypeInv, CronTypeOK, EngineTypeOK
<1>2. ASSUME NEW c \in served[t]
      PROVE  c \in Challenge /\ challenges[c].accessGrant = t /\ seenTx[t] = c
  BY <1>1, <1>2 DEF PromiseInv, ServedHasGrant, ServiceInv, GrantHeld
<1>3. payouts[t] > 0 =>
         payouts[t] = 1 /\ \E c \in Challenge : seenTx[t] = c /\ challenges[c].accessGrant = NoTx
  BY DEF PromiseInv, PayoutsAccountedFor, PaidBack, GraceInv, RefundedIsOld, RefundStates
<1>4. payouts[t] > 0 => served[t] = {}
  BY <1>1, <1>2, <1>3
<1>5. payouts[t] \in {0, 1}
  BY <1>1, <1>3
<1>6. served[t] # {} \/ payouts[t] > 0 => t \in settled
  BY DEF BackedByTransfer
<1> QED
  BY <1>2, <1>4, <1>5, <1>6

LEMMA OutcomeRead == OneOutcome => Outcome = [t \in Tx |-> OutcomeOf(t)]
<1> SUFFICES ASSUME OneOutcome, NEW t \in Tx
             PROVE  /\ Cardinality(served[t]) + payouts[t] > 1 => FALSE
  BY DEF Outcome, OutcomeOf
<1>1. served[t] = {} \/ served[t] = {seenTx[t]}
  BY DEF OneOutcome
<1>2. payouts[t] \in {0, 1} /\ (payouts[t] > 0 => served[t] = {})
  BY DEF OneOutcome
<1>3. Cardinality({}) = 0 /\ Cardinality({seenTx[t]}) = 1
  BY FS_EmptySet, FS_Singleton
<1> QED
  BY <1>1, <1>2, <1>3

\* A call moves USDC or hands out a grant, and never both in one step.
LEMMA CallSettles ==
  ASSUME TypeInv, GraceInv, NEW h \in Handler, ClientCall(h) \/ HandlerStep(h) \/ HandlerLost(h)
  PROVE  \/ UNCHANGED <<settled, served>>
         \/ UNCHANGED served /\ \E t \in Tx : settled' = settled \cup {t}
         \/ UNCHANGED <<settled, seenTx>> /\ \E t \in Tx, c \in Challenge :
               served' = [served EXCEPT ![t] = @ \cup {c}]
<1>1. CASE SettlePayment(h)
  <2>1. handler[h].tx \in Tx
    BY <1>1 DEF SettlePayment, At, TypeInv, LocalsInv, CallOK, AfterPaid
  <2> QED
    BY <1>1, <2>1 DEF SettlePayment
<1>2. CASE ~ SettlePayment(h)
  <2>1. UNCHANGED settled
    BY <1>2 DEF ClientCall, RequestAccess, SubmitProof, PreSettlementCheck, SettleUnchecked,
       CancelRequest, HandlerLost, HandlerStep, CreateChallenge, NoChallengeLeft,
       ExpireChallenge, CheckSeenTx, VerifyProof, FindActive, PayChallenge, ClaimTx, RollBack,
       IssueToken, PersistGrant, Deliver, CancelChallenge
  <2>2. CASE Aside(h)
    BY <2>1, <2>2 DEF Aside
  <2>3. ASSUME NEW rec \in ChallengeRecord, Serves(h, rec)
        PROVE  \/ UNCHANGED served
               \/ UNCHANGED seenTx /\ \E t \in Tx, c \in Challenge :
                     served' = [served EXCEPT ![t] = @ \cup {c}]
    BY <2>3 DEF Serves, Pays, Claims, Loses, RollsBack, Issues, Stores, Delivers, Takes
  <2> QED
    BY <2>1, <2>2, <2>3, CallShape, GraceWhilePaid
<1> QED
  BY <1>1, <1>2

OutcomeMoves(t, from, to) ==
    /\ OutcomeOf(t) = from /\ OutcomeOf(t)' = to
    /\ \A u \in Tx \ {t} : OutcomeOf(u)' = OutcomeOf(u)

LEMMA OutcomeStep ==
  ASSUME "receipt_timeout" \notin Faults, "confirm_error" \notin Faults,
         TypeInv, RefundInv, GraceInv, PayerIsSender, PromiseInv, OneOutcome, OneOutcome',
         [Next]_vars
  PROVE  \/ \A t \in Tx : OutcomeOf(t)' = OutcomeOf(t)
         \/ \E t \in Tx : \/ OutcomeMoves(t, "unpaid", "paid")
                          \/ OutcomeMoves(t, "paid", "served")
                          \/ OutcomeMoves(t, "paid", "refunded")
<1>s. /\ served \in [Tx -> SUBSET Challenge]
      /\ payouts \in [Tx -> 0..MaxPayouts]
  BY DEF TypeInv, EngineTypeOK, CronTypeOK
<1>1. CASE UNCHANGED <<settled, served, payouts>>
  BY <1>1 DEF OutcomeOf
<1>2. ASSUME NEW t \in Tx, settled' = settled \cup {t}, UNCHANGED <<served, payouts>>
      PROVE  (\A u \in Tx : OutcomeOf(u)' = OutcomeOf(u)) \/ OutcomeMoves(t, "unpaid", "paid")
  BY <1>2 DEF OneOutcome, OutcomeOf, OutcomeMoves
<1>3. ASSUME NEW t \in Tx, NEW c \in Challenge, served' = [served EXCEPT ![t] = @ \cup {c}],
             UNCHANGED <<settled, payouts, seenTx>>
      PROVE  (\A u \in Tx : OutcomeOf(u)' = OutcomeOf(u)) \/ OutcomeMoves(t, "paid", "served")
  <2>1. /\ served'[t] = served[t] \cup {c}
        /\ \A u \in Tx \ {t} : served'[u] = served[u]
    BY <1>s, <1>3
  <2>2. t \in settled /\ ~ (payouts[t] > 0)
    BY <1>3, <2>1 DEF OneOutcome
  <2>3. \A u \in Tx \ {t} : OutcomeOf(u)' = OutcomeOf(u)
    BY <1>3, <2>1 DEF OutcomeOf
  <2>4. OutcomeOf(t)' = "served" /\ OutcomeOf(t) \in {"served", "paid"}
    BY <2>1, <2>2 DEF OutcomeOf
  <2> QED
    BY <2>3, <2>4 DEF OutcomeMoves
<1>4. ASSUME NEW k \in Cron, Sends(k), UNCHANGED <<settled, served>>
      PROVE  \E t \in Tx : OutcomeMoves(t, "paid", "refunded")
  <2>1. PICK t \in Tx : t = cron[k].current.fromAddress /\ payouts[t] = 0
    BY <1>4, RefundIsDue DEF Sends
  <2>2. payouts'[t] = 1 /\ \A u \in Tx \ {t} : payouts'[u] = payouts[u]
    BY <1>s, <1>4, <2>1 DEF Sends
  <2>3. t \in settled /\ served[t] = {}
    BY <1>4, <2>2 DEF OneOutcome
  <2>4. \A u \in Tx \ {t} : OutcomeOf(u)' = OutcomeOf(u)
    BY <1>4, <2>2 DEF OutcomeOf
  <2>5. OutcomeOf(t)' = "refunded" /\ OutcomeOf(t) = "paid"
    BY <1>4, <2>1, <2>2, <2>3 DEF OutcomeOf
  <2> QED
    BY <2>4, <2>5 DEF OutcomeMoves
<1>5. ASSUME NEW h \in Handler, ClientCall(h) \/ HandlerStep(h) \/ HandlerLost(h),
             UNCHANGED cronVars
      PROVE  \/ UNCHANGED <<settled, served, payouts>>
             \/ \E t \in Tx : settled' = settled \cup {t} /\ UNCHANGED <<served, payouts>>
             \/ /\ UNCHANGED <<settled, payouts, seenTx>>
                /\ \E t \in Tx, c \in Challenge : served' = [served EXCEPT ![t] = @ \cup {c}]
  BY <1>5, CallSettles DEF cronVars
<1>6. ASSUME NEW k \in Cron, CronStep(k) \/ CronLost(k), UNCHANGED engineVars
      PROVE  UNCHANGED <<settled, served, payouts>> \/ (Sends(k) /\ UNCHANGED <<settled, served>>)
  BY <1>6, RunPays DEF engineVars
<1>7. ASSUME NEW t \in Tx, ClientTransfers(t), UNCHANGED cronVars
      PROVE  settled' = settled \cup {t} /\ UNCHANGED <<served, payouts>>
  BY <1>7 DEF ClientTransfers, cronVars
<1>8. ASSUME \/ UNCHANGED vars
             \/ ClockNext /\ UNCHANGED <<engineVars, cronVars>>
             \/ \E c \in Challenge : RequeueFailed(c) /\ UNCHANGED engineVars
      PROVE  UNCHANGED <<settled, served, payouts>>
  BY <1>8 DEF vars, engineVars, cronVars, RequeueFailed
<1> QED
  BY <1>1, <1>2, <1>3, <1>4, <1>5, <1>6, <1>7, <1>8 DEF Next, EngineNext, CronNext

\* The gateway implements PaymentPromise: each transfer is paid before anything
\* comes of it, and then it buys one grant or is refunded, never both and never
\* twice (submitProof, processHttpPayment and processRefunds together). Calls
\* may be lost, except between PAID and the claim of the hash, and so may runs;
\* each of the other faults by itself breaks the promise on small instances.
THEOREM GatewayImplementsPromise ==
  ASSUME Faults \subseteq {"handler_lost", "cron_lost"}
  PROVE  Spec => KeepsPromise
<1> DEFINE Read == Outcome = [t \in Tx |-> OutcomeOf(t)]
           Inv == /\ TypeInv /\ RefundInv /\ GraceInv /\ PayerIsSender /\ PromiseInv
                  /\ OneOutcome /\ Read
<1>1. Init => Promise!Init
  <2> SUFFICES ASSUME Init PROVE Outcome = [t \in Tx |-> "unpaid"]
    BY DEF Promise!Init
  <2>1. \A t \in Tx : served[t] = {} /\ payouts[t] = 0 /\ t \notin settled
    BY DEF Init, EngineInit, CronInit
  <2>2. Cardinality({}) = 0
    BY FS_EmptySet
  <2>3. \A t \in Tx : Cardinality(served[t]) + payouts[t] = 0
    BY <2>1, <2>2
  <2> QED
    BY <2>1, <2>3 DEF Outcome
<1>2. Inv /\ Inv' /\ [Next]_vars => [Promise!Next]_Outcome
  <2> SUFFICES ASSUME Inv, Inv', [Next]_vars PROVE [Promise!Next]_Outcome
    OBVIOUS
  <2>1. /\ Outcome = [t \in Tx |-> OutcomeOf(t)]
        /\ Outcome' = [t \in Tx |-> OutcomeOf(t)']
    OBVIOUS
  <2>2. ASSUME \A t \in Tx : OutcomeOf(t)' = OutcomeOf(t) PROVE UNCHANGED Outcome
    BY <2>1, <2>2
  <2>3. ASSUME NEW t \in Tx, NEW from, NEW to, OutcomeMoves(t, from, to)
        PROVE  Promise!Settle(t, from, to)
    BY <2>1, <2>3 DEF OutcomeMoves, Promise!Settle
  <2>4. "receipt_timeout" \notin Faults /\ "confirm_error" \notin Faults
    OBVIOUS
  <2> QED
    BY <2>2, <2>3, <2>4, OutcomeStep DEF Promise!Next
<1>3. "slow_handler" \notin Faults
  OBVIOUS
<1>4. Spec => []GraceInv
  BY <1>3, GraceCorrect
<1>5. TypeInv /\ ServiceInv /\ GraceInv /\ PromiseInv /\ BackedByTransfer => OneOutcome /\ Read
  BY OutcomesExclude, OutcomeRead
<1>6. Spec => []TypeInv
  BY GatewayInit, TypeInvStep, PTL DEF Spec
<1> HIDE DEF Read
<1>7. Spec => []Inv
  BY <1>4, <1>5, <1>6, RefundCorrect, ServiceCorrect, PromiseCorrect, NothingForNothing, PTL
<1> HIDE DEF Inv
<1> QED
  BY <1>1, <1>2, <1>7, PTL DEF Spec, KeepsPromise, Promise!Spec
=============================================================================

----------------------------- MODULE EngineProofs -----------------------------
(***************************************************************************)
(* What every composition of the engine and the refund job needs to know   *)
(* of their steps: the types they keep, and what they write.               *)
(***************************************************************************)
EXTENDS ChallengeEngine, RefundCron, TLAPS

-----------------------------------------------------------------------------
\* Type correctness. A call holds the ids its next step needs; so does a refund
\* run.

CallOK(l) ==
    \/ l.pc = "idle"
    \/ l.kind = "access" /\ l.pc = "create" /\ l.requestId \in Request
    \/ /\ l.kind = "proof"
       /\ l.pc \in {"expire", "seen", "verify", "pay"} \cup AfterPaid
       /\ l.challenge \in Challenge /\ l.tx \in Tx
    \/ /\ l.kind = "http"
       /\ l.pc \in {"settle", "seen", "find", "create"}
       /\ l.requestId \in Request /\ l.tx \in Tx
    \/ /\ l.kind = "http"
       /\ l.pc \in {"pay"} \cup AfterPaid
       /\ l.challenge \in Challenge /\ l.tx \in Tx
    \/ /\ l.kind = "agent"
       /\ l.pc = "settle"
       /\ l.requestId \in Request /\ l.tx \in Tx
    \/ l.kind = "cancel" /\ l.pc = "cancel" /\ l.challenge \in Challenge

RunOK(l) ==
    \/ l.pc \in {"idle", "claim"} /\ l.current = NoSnapshot
    \/ l.pc \in {"send", "confirm", "fail"} /\ l.current \in Snapshot

LocalsInv ==
    /\ \A h \in Handler : CallOK(handler[h])
    /\ \A k \in Cron : RunOK(cron[k])

TypeInv == StoreTypeOK /\ EngineTypeOK /\ CronTypeOK /\ LocalsInv

LEMMA InitTypeInv == StoreInit /\ EngineInit /\ CronInit => TypeInv
  BY StoreAssumption, CronAssumption
  DEF StoreInit, EngineInit, CronInit, TypeInv, StoreTypeOK,
      EngineTypeOK, CronTypeOK, AbsentRecord, ChallengeRecord, ChallengeState, Idle,
      Locals, AwaitPoint, IdleRun, Run, NoSnapshot, LocalsInv, CallOK, RunOK

\* What the writes of the store leave behind has the store's type.
LEMMA TransitionType ==
  ASSUME StoreTypeOK, NEW c \in Challenge, NEW from, NEW to \in ChallengeState,
         NEW scored \in BOOLEAN, NEW rec \in ChallengeRecord,
         Transition(c, from, to, scored, rec)
  PROVE  StoreTypeOK'
<1>1. [rec EXCEPT !.state = to] \in ChallengeRecord
  BY DEF ChallengeRecord
<1> QED
  BY <1>1 DEF StoreTypeOK, Transition, PaidSetAfter

LEMMA CreateType ==
  ASSUME StoreTypeOK, NEW c \in Challenge, NEW r \in Request \cup {NoRequest}, Create(c, r)
  PROVE  StoreTypeOK'
<1>1. [AbsentRecord EXCEPT !.state = "PENDING", !.requestId = r] \in ChallengeRecord
  BY DEF AbsentRecord, ChallengeRecord, ChallengeState
<1> QED
  BY <1>1 DEF StoreTypeOK, Create

LEMMA UnchangedStoreType ==
  ASSUME StoreTypeOK, UNCHANGED storeVars
  PROVE  StoreTypeOK'
  BY DEF StoreTypeOK, storeVars

\* The record that PENDING -> PAID writes.
LEMMA PaidType ==
  ASSUME NEW rec \in ChallengeRecord, NEW t \in Tx, NEW from \in Payers(t)
  PROVE  Paid(rec, t, from) \in ChallengeRecord
<1> DEFINE f == IF from = NoTx THEN rec.fromAddress ELSE from
<1>1. f \in Tx \cup {NoTx}
  BY DEF Payers, ChallengeRecord
<1> HIDE DEF f
<1>2. [rec EXCEPT !.txHash = t, !.aged = FALSE, !.fromAddress = f] \in ChallengeRecord
  BY <1>1 DEF ChallengeRecord
<1> QED
  BY <1>2 DEF Paid, f

\* A call that goes on with proper locals keeps the types of all calls.
LEMMA CallType ==
  ASSUME TypeInv, NEW h \in Handler, NEW l \in Locals, CallOK(l),
         handler' = [handler EXCEPT ![h] = l]
  PROVE  handler' \in [Handler -> Locals] /\ \A g \in Handler : CallOK(handler'[g])
  BY DEF TypeInv, EngineTypeOK, LocalsInv

LEMMA RunType ==
  ASSUME TypeInv, NEW k \in Cron, NEW l \in Run, RunOK(l),
         cron' = [cron EXCEPT ![k] = l]
  PROVE  cron' \in [Cron -> Run] /\ \A j \in Cron : RunOK(cron'[j])
  BY DEF TypeInv, CronTypeOK, LocalsInv

LEMMA IdleType == Idle \in Locals /\ CallOK(Idle)
  BY DEF Idle, Locals, AwaitPoint, CallOK

LEMMA EngineTypeStep ==
  ASSUME TypeInv, NEW h \in Handler
  PROVE  ClientCall(h) \/ HandlerStep(h) \/ HandlerLost(h)
            => /\ StoreTypeOK' /\ EngineTypeOK'
               /\ \A g \in Handler : CallOK(handler'[g])
<1> USE DEF TypeInv, EngineTypeOK
<1> DEFINE Good == /\ StoreTypeOK' /\ EngineTypeOK'
                   /\ \A g \in Handler : CallOK(handler'[g])
<1>h. handler[h] \in Locals /\ CallOK(handler[h])
  BY DEF LocalsInv
<1>1. ASSUME NEW r \in Request, RequestAccess(h, r) PROVE Good
  <2>1. [Idle EXCEPT !.pc = "create", !.kind = "access", !.requestId = r] \in Locals
    BY DEF Idle, Locals, AwaitPoint
  <2>2. CallOK([Idle EXCEPT !.pc = "create", !.kind = "access", !.requestId = r])
    BY DEF Idle, CallOK
  <2> QED
    BY <1>1, <2>1, <2>2, CallType, UnchangedStoreType DEF RequestAccess
<1>2. ASSUME NEW c \in Challenge, NEW t \in Tx, SubmitProof(h, c, t) PROVE Good
  <2> DEFINE l == [Idle EXCEPT !.pc = IF challenges[c].lapsed THEN "expire" ELSE "seen",
                               !.kind = "proof", !.challenge = c, !.tx = t]
  <2>1. l \in Locals
    BY DEF Idle, Locals, AwaitPoint
  <2>2. CallOK(l)
    BY DEF Idle, CallOK
  <2> QED
    BY <1>2, <2>1, <2>2, CallType, UnchangedStoreType DEF SubmitProof
<1>3. ASSUME NEW r \in Request, NEW t \in Tx, PreSettlementCheck(h, r, t) PROVE Good
  <2> DEFINE l == [Idle EXCEPT !.pc = "settle", !.kind = "http",
                               !.requestId = r, !.tx = t]
  <2>1. l \in Locals
    BY DEF Idle, Locals, AwaitPoint
  <2>2. CallOK(l)
    BY DEF Idle, CallOK
  <2> QED
    BY <1>3, <2>1, <2>2, CallType, UnchangedStoreType DEF PreSettlementCheck
<1>4. ASSUME NEW c \in Challenge, CancelRequest(h, c) PROVE Good
  <2> DEFINE l == [Idle EXCEPT !.pc = "cancel", !.kind = "cancel", !.challenge = c]
  <2>1. l \in Locals
    BY DEF Idle, Locals, AwaitPoint
  <2>2. CallOK(l)
    BY DEF Idle, CallOK
  <2> QED
    BY <1>4, <2>1, <2>2, CallType, UnchangedStoreType DEF CancelRequest
<1>5. ASSUME HandlerLost(h) PROVE Good
  BY <1>5, IdleType, CallType, UnchangedStoreType DEF HandlerLost, Return
<1>6. ASSUME HandlerStep(h) PROVE Good
  <2>g. ASSUME NEW pc \in AwaitPoint, Goto(h, pc), CallOK([handler[h] EXCEPT !.pc = pc])
        PROVE  handler' \in [Handler -> Locals] /\ \A g \in Handler : CallOK(handler'[g])
    <3>1. [handler[h] EXCEPT !.pc = pc] \in Locals
      BY <1>h DEF Locals
    <3> QED
      BY <2>g, <3>1, CallType DEF Goto
  <2>r. ASSUME Return(h)
        PROVE  handler' \in [Handler -> Locals] /\ \A g \in Handler : CallOK(handler'[g])
    BY <2>r, IdleType, CallType DEF Return
  <2>c. ASSUME NEW pc \in AwaitPoint, NEW c \in Challenge,
               handler' = [handler EXCEPT ![h].pc = pc, ![h].challenge = c],
               CallOK([handler[h] EXCEPT !.pc = pc, !.challenge = c])
        PROVE  handler' \in [Handler -> Locals] /\ \A g \in Handler : CallOK(handler'[g])
    <3>1. [handler[h] EXCEPT !.pc = pc, !.challenge = c] \in Locals
      BY <1>h DEF Locals
    <3> QED
      BY <2>c, <3>1, CallType
  <2>s. \A c \in Challenge : challenges[c] \in ChallengeRecord
    BY DEF StoreTypeOK
  <2>1. ASSUME NEW c \in Challenge, CreateChallenge(h, c) PROVE Good
    <3>1. StoreTypeOK'
      BY <2>1, <1>h, CreateType DEF CreateChallenge, At, CallOK, AfterPaid
    <3>2. CASE handler[h].kind = "access"
      BY <2>1, <3>1, <3>2, <2>r DEF CreateChallenge
    <3>3. CASE handler[h].kind = "http"
      <4>1. CallOK([handler[h] EXCEPT !.pc = "pay", !.challenge = c])
        BY <2>1, <3>3, <1>h DEF CreateChallenge, At, CallOK, Locals, AfterPaid
      <4> QED
        BY <2>1, <3>1, <3>3, <4>1, <2>c DEF CreateChallenge, AwaitPoint
    <3> QED
      BY <2>1, <3>2, <3>3 DEF CreateChallenge
  <2>2. ASSUME NoChallengeLeft(h) PROVE Good
    BY <2>2, <2>r, UnchangedStoreType DEF NoChallengeLeft
  <2>3. ASSUME ExpireChallenge(h) PROVE Good
    <3>1. handler[h].challenge \in Challenge
      BY <2>3, <1>h DEF ExpireChallenge, At, CallOK, AfterPaid
    <3>2. StoreTypeOK'
      BY <2>3, <3>1, <2>s, TransitionType, UnchangedStoreType
      DEF ExpireChallenge, ChallengeState, TransitionRefused
    <3> QED
      BY <2>3, <3>2, <2>r DEF ExpireChallenge
  <2>4. ASSUME CheckSeenTx(h) PROVE Good
    <3>1. StoreTypeOK'
      BY <2>4, UnchangedStoreType DEF CheckSeenTx
    <3>2. ASSUME handler[h].kind = "proof", Goto(h, "verify")
          PROVE  CallOK([handler[h] EXCEPT !.pc = "verify"])
      BY <2>4, <3>2, <1>h DEF CheckSeenTx, At, CallOK, Locals, AfterPaid
    <3>3. ASSUME handler[h].kind = "http", Goto(h, "find")
          PROVE  CallOK([handler[h] EXCEPT !.pc = "find"])
      BY <2>4, <3>3, <1>h DEF CheckSeenTx, At, CallOK, Locals, AfterPaid
    <3> QED
      BY <2>4, <3>1, <3>2, <3>3, <2>g, <2>r DEF CheckSeenTx, AwaitPoint
  <2>5. ASSUME VerifyProof(h) PROVE Good
    <3>1. StoreTypeOK'
      BY <2>5, UnchangedStoreType DEF VerifyProof
    <3>2. CallOK([handler[h] EXCEPT !.pc = "pay"])
      BY <2>5, <1>h DEF VerifyProof, At, CallOK, Locals, AfterPaid
    <3> QED
      BY <2>5, <3>1, <3>2, <2>g, <2>r DEF VerifyProof, AwaitPoint
  <2>6. ASSUME SettlePayment(h) PROVE Good
    <3>1. StoreTypeOK'
      BY <2>6, UnchangedStoreType DEF SettlePayment
    <3> DEFINE l == [handler[h] EXCEPT !.pc = "seen", !.kind = "http"]
    <3>2. handler[h].tx \in Tx /\ handler[h].requestId \in Request
      BY <2>6, <1>h DEF SettlePayment, At, CallOK, AfterPaid
    <3>3. l \in Locals /\ CallOK(l)
      BY <3>2, <1>h DEF CallOK, Locals, AwaitPoint
    <3>4. CASE handler' = [handler EXCEPT ![h] = l]
      BY <2>6, <3>1, <3>2, <3>3, <3>4, CallType DEF SettlePayment
    <3> QED
      BY <2>6, <3>1, <3>2, <3>4, <2>r DEF SettlePayment
  <2>7. ASSUME FindActive(h) PROVE Good
    <3>1. StoreTypeOK'
      BY <2>7, UnchangedStoreType DEF FindActive
    <3>2. /\ handler[h].requestId \in Request
          /\ CallOK([handler[h] EXCEPT !.pc = "create"])
          /\ \A c \in Challenge : CallOK([handler[h] EXCEPT !.pc = "pay", !.challenge = c])
      BY <2>7, <1>h DEF FindActive, At, CallOK, Locals, AfterPaid
    <3>3. ASSUME ActiveRecord(handler[h].requestId).state = "PENDING"
          PROVE  requestIndex[handler[h].requestId] \in Challenge
      BY <3>2, <3>3 DEF ActiveRecord, AbsentRecord, StoreTypeOK
    <3> QED
      BY <2>7, <3>1, <3>2, <3>3, <2>c, <2>g, <2>r DEF FindActive, AwaitPoint
  <2>8. ASSUME PayChallenge(h) PROVE Good
    <3> DEFINE c == handler[h].challenge
               t == handler[h].tx
    <3>1. c \in Challenge /\ t \in Tx /\ CallOK([handler[h] EXCEPT !.pc = "mark"])
      BY <2>8, <1>h DEF PayChallenge, At, CallOK, Locals, AfterPaid
    <3>2. ASSUME NEW from \in Payers(t)
          PROVE  Paid(challenges[c], t, from) \in ChallengeRecord
      BY <3>1, <2>s, PaidType
    <3>3. StoreTypeOK'
      <4>1. CASE TransitionRefused(c, "PENDING")
        BY <4>1, UnchangedStoreType DEF TransitionRefused
      <4>2. ASSUME NEW from \in Payers(t),
                   Transition(c, "PENDING", "PAID", TRUE, Paid(challenges[c], t, from))
            PROVE  StoreTypeOK'
        BY <4>2, <3>1, <3>2, TransitionType DEF ChallengeState
      <4> QED
        BY <2>8, <4>1, <4>2 DEF PayChallenge
    <3> QED
      BY <2>8, <3>1, <3>3, <2>g, <2>r DEF PayChallenge, AwaitPoint
  <2>9. ASSUME ClaimTx(h) PROVE Good
    <3>1. /\ handler[h].challenge \in Challenge /\ handler[h].tx \in Tx
          /\ CallOK([handler[h] EXCEPT !.pc = "issue"])
          /\ CallOK([handler[h] EXCEPT !.pc = "rollback"])
      BY <2>9, <1>h DEF ClaimTx, At, CallOK, Locals, AfterPaid
    <3>2. StoreTypeOK'
      BY <2>9, <3>1 DEF ClaimTx, MarkUsed, StoreTypeOK, storeVars
    <3> QED
      BY <2>9, <3>1, <3>2, <2>g DEF ClaimTx, AwaitPoint
  <2>10. ASSUME RollBack(h) PROVE Good
    <3>1. handler[h].challenge \in Challenge
      BY <2>10, <1>h DEF RollBack, At, CallOK, AfterPaid
    <3>2. StoreTypeOK'
      BY <2>10, <3>1, <2>s, TransitionType, UnchangedStoreType
      DEF RollBack, ChallengeState, TransitionRefused
    <3> QED
      BY <2>10, <3>2, <2>r DEF RollBack
  <2>11. ASSUME IssueToken(h) PROVE Good
    <3>1. StoreTypeOK'
      BY <2>11, UnchangedStoreType DEF IssueToken
    <3>2. CallOK([handler[h] EXCEPT !.pc = "persist"])
      BY <2>11, <1>h DEF IssueToken, At, CallOK, Locals, AfterPaid
    <3> QED
      BY <2>11, <3>1, <3>2, <2>g, <2>r DEF IssueToken, AwaitPoint
  <2>12. ASSUME PersistGrant(h) PROVE Good
    <3> DEFINE c == handler[h].challenge
    <3>1. c \in Challenge /\ handler[h].tx \in Tx
          /\ CallOK([handler[h] EXCEPT !.pc = "deliver"])
      BY <2>12, <1>h DEF PersistGrant, At, CallOK, Locals, AfterPaid
    <3>2. [challenges[c] EXCEPT !.accessGrant = handler[h].tx] \in ChallengeRecord
      BY <3>1, <2>s DEF ChallengeRecord
    <3>3. StoreTypeOK'
      BY <2>12, <3>1, <3>2, TransitionType, UnchangedStoreType
      DEF PersistGrant, ChallengeState, TransitionRefused
    <3> QED
      BY <2>12, <3>1, <3>3, <2>g DEF PersistGrant, AwaitPoint
  <2>13. ASSUME Deliver(h) PROVE Good
    <3> DEFINE c == handler[h].challenge
    <3>1. c \in Challenge /\ handler[h].tx \in Tx
      BY <2>13, <1>h DEF Deliver, At, CallOK, AfterPaid
    <3>2. StoreTypeOK'
      BY <2>13, <3>1, <2>s, TransitionType, UnchangedStoreType
      DEF Deliver, ChallengeState, TransitionRefused
    <3> QED
      BY <2>13, <3>1, <3>2, <2>r DEF Deliver
  <2>14. ASSUME CancelChallenge(h) PROVE Good
    <3>1. handler[h].challenge \in Challenge
      BY <2>14, <1>h DEF CancelChallenge, At, CallOK, AfterPaid
    <3>2. StoreTypeOK'
      BY <2>14, <3>1, <2>s, TransitionType, UnchangedStoreType
      DEF CancelChallenge, ChallengeState, TransitionRefused
    <3> QED
      BY <2>14, <3>2, <2>r DEF CancelChallenge
  <2> QED
    BY <1>6, <2>1, <2>2, <2>3, <2>4, <2>5, <2>6, <2>7, <2>8, <2>9, <2>10, <2>11, <2>12,
       <2>13, <2>14 DEF HandlerStep
<1>7. ASSUME NEW r \in Request, NEW t \in Tx, SettleUnchecked(h, r, t) PROVE Good
  <2> DEFINE l == [Idle EXCEPT !.pc = "settle", !.kind = "agent",
                               !.requestId = r, !.tx = t]
  <2>1. l \in Locals
    BY DEF Idle, Locals, AwaitPoint
  <2>2. CallOK(l)
    BY DEF Idle, CallOK
  <2> QED
    BY <1>7, <2>1, <2>2, CallType, UnchangedStoreType DEF SettleUnchecked
<1> QED
  BY <1>1, <1>2, <1>3, <1>4, <1>5, <1>6, <1>7 DEF ClientCall

LEMMA CronTypeStep ==
  ASSUME TypeInv, NEW k \in Cron
  PROVE  CronStep(k) \/ CronLost(k)
            => /\ StoreTypeOK' /\ CronTypeOK'
               /\ \A j \in Cron : RunOK(cron'[j])
<1> USE DEF TypeInv, CronTypeOK
<1> DEFINE Good == /\ StoreTypeOK' /\ CronTypeOK'
                   /\ \A j \in Cron : RunOK(cron'[j])
           CronGood == cron' \in [Cron -> Run] /\ \A j \in Cron : RunOK(cron'[j])
<1>k. cron[k] \in Run /\ RunOK(cron[k])
  BY DEF LocalsInv
<1>i. IdleRun \in Run /\ RunOK(IdleRun)
  BY CronAssumption DEF IdleRun, Run, RunOK
<1>s. \A c \in Challenge : challenges[c] \in ChallengeRecord
  BY DEF StoreTypeOK
<1>n. ASSUME NEW batch \in SUBSET Snapshot, NextRecord(k, batch) PROVE CronGood
  <2> DEFINE l == [IdleRun EXCEPT !.pc = "claim", !.batch = batch]
  <2>1. l \in Run /\ RunOK(l)
    <3>1. l \in Run
      BY <1>i DEF Run
    <3>2. RunOK(l)
      BY DEF RunOK, IdleRun
    <3> QED
      BY <3>1, <3>2
  <2> HIDE DEF l
  <2>2. CASE batch = {}
    BY <1>n, <1>i, <2>2, RunType DEF NextRecord
  <2>3. CASE batch # {}
    BY <1>n, <2>1, <2>3, RunType DEF NextRecord, l
  <2> QED
    BY <2>2, <2>3
<1>g. ASSUME NEW pc \in {"confirm", "fail"}, cron[k].pc \in {"send", "confirm"},
             cron' = [cron EXCEPT ![k].pc = pc]
      PROVE  CronGood
  <2>1. [cron[k] EXCEPT !.pc = pc] \in Run /\ RunOK([cron[k] EXCEPT !.pc = pc])
    BY <1>k, <1>g DEF Run, RunOK
  <2> QED
    BY <1>g, <2>1, RunType
<1>1. ASSUME FetchBatch(k) PROVE Good
  <2>1. PICK ids \in SUBSET PendingForRefund :
          NextRecord(k, {[challenge |-> c, fromAddress |-> challenges[c].fromAddress]
                            : c \in ids})
    BY <1>1 DEF FetchBatch
  <2>2. {[challenge |-> c, fromAddress |-> challenges[c].fromAddress] : c \in ids}
           \in SUBSET Snapshot
    BY <1>s DEF PendingForRefund, Snapshot, ChallengeRecord, StoreTypeOK
  <2> QED
    BY <1>1, <2>1, <2>2, <1>n, UnchangedStoreType DEF FetchBatch
<1>2. ASSUME NEW s \in cron[k].batch, ClaimRefund(k, s) PROVE Good
  <2>1. s \in Snapshot /\ s.challenge \in Challenge
    BY <1>k DEF Run, Snapshot
  <2>2. cron[k].batch \ {s} \in SUBSET Snapshot
    BY <1>k DEF Run
  <2> DEFINE l == [IdleRun EXCEPT !.pc = "send", !.batch = cron[k].batch \ {s},
                                  !.current = s]
  <2>3. l \in Run /\ RunOK(l)
    <3>1. l \in Run
      BY <1>i, <2>1, <2>2 DEF Run
    <3>2. RunOK(l)
      BY <2>1 DEF RunOK, IdleRun
    <3> QED
      BY <3>1, <3>2
  <2> HIDE DEF l
  <2>4. CASE /\ Transition(s.challenge, "PAID", "REFUND_PENDING", FALSE,
                           challenges[s.challenge])
             /\ cron' = [cron EXCEPT ![k] = l]
    <3>1. StoreTypeOK'
      BY <2>1, <2>4, <1>s, TransitionType DEF ChallengeState
    <3> QED
      BY <1>2, <2>3, <2>4, <3>1, RunType DEF ClaimRefund
  <2>5. CASE /\ TransitionRefused(s.challenge, "PAID")
             /\ NextRecord(k, cron[k].batch \ {s})
    BY <1>2, <2>2, <2>5, <1>n, UnchangedStoreType DEF ClaimRefund, TransitionRefused
  <2> QED
    BY <1>2, <2>4, <2>5 DEF ClaimRefund, l
<1>3. ASSUME SendRefund(k) PROVE Good
  <2>1. StoreTypeOK'
    BY <1>3, UnchangedStoreType DEF SendRefund
  <2>2. payouts' \in [Tx -> 0..MaxPayouts]
    BY <1>3, CronAssumption DEF SendRefund
  <2>3. ASSUME cron[k].attempt < MaxAttempts, cron' = [cron EXCEPT ![k].attempt = @ + 1]
        PROVE  CronGood
    <3>1. [cron[k] EXCEPT !.attempt = cron[k].attempt + 1] \in Run
      BY <2>3, <1>k, CronAssumption DEF Run
    <3>2. RunOK([cron[k] EXCEPT !.attempt = cron[k].attempt + 1])
      BY <1>k DEF Run, RunOK
    <3> QED
      BY <2>3, <3>1, <3>2, RunType
  <2> QED
    BY <1>3, <1>g, <2>1, <2>2, <2>3 DEF SendRefund
<1>4. ASSUME ConfirmRefund(k) PROVE Good
  <2> DEFINE c == cron[k].current.challenge
  <2>1. c \in Challenge /\ cron[k].batch \in SUBSET Snapshot
    BY <1>4, <1>k DEF ConfirmRefund, Run, RunOK, Snapshot
  <2>2. StoreTypeOK'
    BY <1>4, <2>1, <1>s, TransitionType, UnchangedStoreType
    DEF ConfirmRefund, ChallengeState, TransitionRefused
  <2> QED
    BY <1>4, <2>1, <2>2, <1>n, <1>g DEF ConfirmRefund
<1>5. ASSUME FailRefund(k) PROVE Good
  <2> DEFINE c == cron[k].current.challenge
  <2>1. c \in Challenge /\ cron[k].batch \in SUBSET Snapshot
    BY <1>5, <1>k DEF FailRefund, Run, RunOK, Snapshot
  <2>2. StoreTypeOK'
    BY <1>5, <2>1, <1>s, TransitionType, UnchangedStoreType
    DEF FailRefund, ChallengeState, TransitionRefused
  <2> QED
    BY <1>5, <2>1, <2>2, <1>n DEF FailRefund
<1>6. ASSUME CronLost(k) PROVE Good
  BY <1>6, <1>i, RunType, UnchangedStoreType DEF CronLost
<1> QED
  BY <1>1, <1>2, <1>3, <1>4, <1>5, <1>6 DEF CronStep

LEMMA RunHolds ==
  ASSUME TypeInv, NEW k \in Cron
  PROVE  /\ cron[k] \in Run
         /\ cron[k].pc \in {"idle", "claim"} => cron[k].current = NoSnapshot
         /\ cron[k].pc \in {"send", "confirm", "fail"}
              => /\ cron[k].current # NoSnapshot
                 /\ cron[k].current.challenge \in Challenge
  BY StoreAssumption
  DEF TypeInv, CronTypeOK, LocalsInv, RunOK, Run, Snapshot, NoSnapshot

-----------------------------------------------------------------------------
\* What a step of a call writes.

\* A write of PAID puts the record in the paid set, or stores a grant.
PaidRecorded(from, to, scored, rec) ==
    to = "PAID" => scored \/ (from = "PAID" /\ rec.accessGrant # NoTx)

\* The payer is kept, or it is the one of the call that pays.
PayerRecorded(h, c, rec) ==
    \/ rec.fromAddress = challenges[c].fromAddress
    \/ handler[h].pc = "pay" /\ rec.fromAddress = handler[h].tx

\* A call writes the record it holds, and does not give it another request.
OwnRecord(h, c, rec) ==
    c = handler[h].challenge /\ rec.requestId = challenges[c].requestId

LEMMA EngineWrites ==
  ASSUME TypeInv, NEW h \in Handler,
         ClientCall(h) \/ HandlerStep(h) \/ HandlerLost(h)
  PROVE  \/ UNCHANGED <<challenges, requestIndex, paidSet>>
         \/ \E c \in Challenge, r \in Request : Create(c, r)
         \/ \E c \in Challenge, from \in {"PENDING", "PAID"},
               to \in ChallengeState \ {"ABSENT"}, scored \in BOOLEAN, rec \in ChallengeRecord :
              /\ Transition(c, from, to, scored, rec)
              /\ PaidRecorded(from, to, scored, rec)
              /\ PayerRecorded(h, c, rec)
              /\ OwnRecord(h, c, rec)
<1> DEFINE Kept == UNCHANGED <<challenges, requestIndex, paidSet>>
           Created == \E c \in Challenge, r \in Request : Create(c, r)
           Moved == \E c \in Challenge, from \in {"PENDING", "PAID"},
                       to \in ChallengeState \ {"ABSENT"}, scored \in BOOLEAN,
                       rec \in ChallengeRecord :
                      /\ Transition(c, from, to, scored, rec)
                      /\ PaidRecorded(from, to, scored, rec)
                      /\ PayerRecorded(h, c, rec)
                      /\ OwnRecord(h, c, rec)
<1>h. handler[h] \in Locals /\ CallOK(handler[h])
  BY DEF TypeInv, EngineTypeOK, LocalsInv
<1>s. \A c \in Challenge : challenges[c] \in ChallengeRecord
  BY DEF TypeInv, StoreTypeOK
<1>m. ASSUME NEW c \in Challenge, NEW from \in {"PENDING", "PAID"},
             NEW to \in ChallengeState \ {"ABSENT", "PAID"}, c = handler[h].challenge,
             Transition(c, from, to, FALSE, challenges[c])
      PROVE  Moved
  BY <1>m, <1>s DEF PaidRecorded, PayerRecorded, OwnRecord
<1>1. ClientCall(h) \/ HandlerLost(h) => Kept
  BY DEF ClientCall, RequestAccess, SubmitProof, PreSettlementCheck, SettleUnchecked,
         CancelRequest, HandlerLost, storeVars
<1>2. /\ NoChallengeLeft(h) \/ CheckSeenTx(h) \/ VerifyProof(h) => Kept
      /\ SettlePayment(h) \/ FindActive(h) \/ ClaimTx(h) \/ IssueToken(h) => Kept
  BY DEF NoChallengeLeft, CheckSeenTx, VerifyProof, SettlePayment, FindActive, ClaimTx,
         MarkUsed, IssueToken, storeVars
<1>3. ASSUME NEW c \in Challenge, CreateChallenge(h, c) PROVE Created
  BY <1>3, <1>h DEF CreateChallenge, At, CallOK, AfterPaid
<1>4. ExpireChallenge(h) => Kept \/ Moved
  <2> SUFFICES ASSUME ExpireChallenge(h) PROVE Kept \/ Moved
    OBVIOUS
  <2>1. handler[h].challenge \in Challenge
    BY <1>h DEF ExpireChallenge, At, CallOK, AfterPaid
  <2> HIDE DEF Moved
  <2> QED
    BY <2>1, <1>m DEF ExpireChallenge, TransitionRefused, storeVars, ChallengeState
<1>5. PayChallenge(h) => Kept \/ Moved
  <2> SUFFICES ASSUME PayChallenge(h) PROVE Kept \/ Moved
    OBVIOUS
  <2> DEFINE c == handler[h].challenge
             t == handler[h].tx
  <2>1. c \in Challenge /\ t \in Tx
    BY <1>h DEF PayChallenge, At, CallOK, AfterPaid
  <2>2. ASSUME NEW from \in Payers(t),
               Transition(c, "PENDING", "PAID", TRUE, Paid(challenges[c], t, from))
        PROVE  Moved
    <3>1. Paid(challenges[c], t, from) \in ChallengeRecord
      BY <2>1, <1>s, PaidType
    <3>2. /\ PayerRecorded(h, c, Paid(challenges[c], t, from))
          /\ OwnRecord(h, c, Paid(challenges[c], t, from))
      BY <2>1, <1>s
      DEF PayerRecorded, OwnRecord, Paid, Payers, PayChallenge, At, ChallengeRecord
    <3> QED
      BY <2>1, <2>2, <3>1, <3>2 DEF PaidRecorded, ChallengeState
  <2> HIDE DEF Moved
  <2> QED
    BY <2>2 DEF PayChallenge, TransitionRefused, storeVars
<1>6. RollBack(h) => Kept \/ Moved
  <2> SUFFICES ASSUME RollBack(h) PROVE Kept \/ Moved
    OBVIOUS
  <2>1. handler[h].challenge \in Challenge
    BY <1>h DEF RollBack, At, CallOK, AfterPaid
  <2> HIDE DEF Moved
  <2> QED
    BY <2>1, <1>m DEF RollBack, TransitionRefused, storeVars, ChallengeState
<1>7. PersistGrant(h) => Kept \/ Moved
  <2> SUFFICES ASSUME PersistGrant(h) PROVE Kept \/ Moved
    OBVIOUS
  <2> DEFINE c == handler[h].challenge
             rec == [challenges[c] EXCEPT !.accessGrant = handler[h].tx]
  <2>1. c \in Challenge /\ handler[h].tx \in Tx
    BY <1>h DEF PersistGrant, At, CallOK, AfterPaid
  <2>2. /\ rec \in ChallengeRecord /\ rec.accessGrant # NoTx
        /\ PayerRecorded(h, c, rec) /\ OwnRecord(h, c, rec)
    BY <2>1, <1>s, StoreAssumption DEF ChallengeRecord, PayerRecorded, OwnRecord
  <2>3. Transition(c, "PAID", "PAID", FALSE, rec) => Moved
    BY <2>1, <2>2 DEF PaidRecorded, ChallengeState
  <2> HIDE DEF Moved
  <2> QED
    BY <2>3 DEF PersistGrant, TransitionRefused, storeVars
<1>8. Deliver(h) => Kept \/ Moved
  <2> SUFFICES ASSUME Deliver(h) PROVE Kept \/ Moved
    OBVIOUS
  <2>1. handler[h].challenge \in Challenge
    BY <1>h DEF Deliver, At, CallOK, AfterPaid
  <2> HIDE DEF Moved
  <2> QED
    BY <2>1, <1>m DEF Deliver, TransitionRefused, storeVars, ChallengeState
<1>9. CancelChallenge(h) => Kept \/ Moved
  <2> SUFFICES ASSUME CancelChallenge(h) PROVE Kept \/ Moved
    OBVIOUS
  <2>1. handler[h].challenge \in Challenge
    BY <1>h DEF CancelChallenge, At, CallOK, AfterPaid
  <2> HIDE DEF Moved
  <2> QED
    BY <2>1, <1>m DEF CancelChallenge, TransitionRefused, storeVars, ChallengeState
<1> HIDE DEF Kept, Created, Moved
<1>10. Kept \/ Created \/ Moved
  BY <1>1, <1>2, <1>3, <1>4, <1>5, <1>6, <1>7, <1>8, <1>9 DEF HandlerStep
<1> QED
  BY <1>10 DEF Kept, Created, Moved

\* A call takes the PENDING record of its request, or creates one.
LEMMA EngineTakes ==
  ASSUME TypeInv, NEW h \in Handler, HandlerStep(h)
  PROVE  /\ \A g \in Handler \ {h} : handler'[g] = handler[g]
         /\ \/ handler'[h].challenge \in {NoChallenge, handler[h].challenge}
            \/ /\ UNCHANGED challenges
               /\ \E r \in Request : handler'[h].challenge = requestIndex[r]
            \/ \E c \in Challenge, r \in Request : Create(c, r) /\ handler'[h].challenge = c
<1>h. handler \in [Handler -> Locals] /\ CallOK(handler[h])
  BY DEF TypeInv, EngineTypeOK, LocalsInv
<1>1. ASSUME NEW c \in Challenge, CreateChallenge(h, c)
      PROVE  /\ \E r \in Request : Create(c, r)
             /\ \A g \in Handler \ {h} : handler'[g] = handler[g]
             /\ handler'[h].challenge \in {NoChallenge, c}
  <2>1. handler[h].requestId \in Request
    BY <1>1, <1>h DEF CreateChallenge, At, CallOK, AfterPaid
  <2> QED
    BY <1>1, <1>h, <2>1 DEF CreateChallenge, Return, Idle, Locals
<1>2. ASSUME FindActive(h)
      PROVE  /\ \A g \in Handler \ {h} : handler'[g] = handler[g]
             /\ \/ handler'[h].challenge \in {NoChallenge, handler[h].challenge}
                \/ \E r \in Request : handler'[h].challenge = requestIndex[r]
             /\ UNCHANGED challenges
  <2>1. handler[h].requestId \in Request
    BY <1>2, <1>h DEF FindActive, At, CallOK, AfterPaid
  <2> QED
    BY <1>2, <1>h, <2>1 DEF FindActive, Return, Goto, Idle, Locals, storeVars
<1>3. ASSUME \/ NoChallengeLeft(h) \/ ExpireChallenge(h) \/ CheckSeenTx(h) \/ VerifyProof(h)
             \/ SettlePayment(h) \/ PayChallenge(h) \/ ClaimTx(h) \/ RollBack(h)
             \/ IssueToken(h) \/ PersistGrant(h) \/ Deliver(h) \/ CancelChallenge(h)
      PROVE  /\ \A g \in Handler \ {h} : handler'[g] = handler[g]
             /\ handler'[h].challenge \in {NoChallenge, handler[h].challenge}
  <2>1. \/ Return(h)
        \/ \E pc \in AwaitPoint : Goto(h, pc)
        \/ handler' = [handler EXCEPT ![h].pc = "seen", ![h].kind = "http"]
    BY <1>3 DEF NoChallengeLeft, ExpireChallenge, CheckSeenTx, VerifyProof, SettlePayment,
                PayChallenge, ClaimTx, RollBack, IssueToken, PersistGrant, Deliver,
                CancelChallenge, AwaitPoint
  <2> QED
    BY <2>1, <1>h DEF Return, Goto, Idle, Locals
<1> QED
  BY <1>1, <1>2, <1>3 DEF HandlerStep

-----------------------------------------------------------------------------
\* The shape of a step, for compositions in which a record stays PAID for as
\* long as a call serves it (WhilePaid).

WhilePaid == \A h \in Handler, c \in Challenge : Serving(h, c) => challenges[c].state = "PAID"

OthersKept(h) == \A g \in Handler \ {h} : handler'[g] = handler[g]

\* A record that nobody has paid is created, or ends unpaid.
UnpaidMoves(d) ==
    /\ challenges[d].state \in {"ABSENT", "PENDING"}
    /\ challenges'[d].state \in {"PENDING", "EXPIRED", "CANCELLED"}
    /\ \/ /\ challenges'[d].txHash = challenges[d].txHash
          /\ challenges'[d].fromAddress = challenges[d].fromAddress
          /\ challenges'[d].accessGrant = challenges[d].accessGrant
       \/ /\ challenges'[d].txHash = NoTx
          /\ challenges'[d].fromAddress = NoTx
          /\ challenges'[d].accessGrant = NoTx

\* A call goes on without having paid, or ends without having delivered.
Aside(h) ==
    /\ UNCHANGED <<seenTx, served>>
    /\ OthersKept(h)
    /\ handler'[h].pc \notin AfterPaid
    /\ handler[h].pc \in {"mark", "rollback"} => "mark_lost" \in Faults
    /\ \A d \in Challenge : challenges'[d] = challenges[d] \/ UnpaidMoves(d)

\* A call takes its record, and no other, from one await to the next.
Takes(h, from, to, rec) ==
    /\ handler[h].pc = from
    /\ handler[h].challenge \in Challenge /\ handler[h].tx \in Tx
    /\ handler'[h].pc = to
    /\ to # "idle" => /\ handler'[h].challenge = handler[h].challenge
                      /\ handler'[h].tx = handler[h].tx
    /\ OthersKept(h)
    /\ \A d \in Challenge :
          challenges'[d] = IF d = handler[h].challenge THEN rec ELSE challenges[d]

Pays(h, rec) ==
    LET old == challenges[handler[h].challenge] IN
    /\ Takes(h, "pay", "mark", rec)
    /\ old.state = "PENDING" /\ rec.state = "PAID" /\ ~ rec.aged
    /\ rec.txHash = handler[h].tx /\ rec.accessGrant = old.accessGrant
    /\ "payer_unknown" \notin Faults => rec.fromAddress = handler[h].tx
    /\ UNCHANGED <<seenTx, served>>

Claims(h, rec) ==
    /\ Takes(h, "mark", "issue", rec) /\ rec = challenges[handler[h].challenge]
    /\ seenTx[handler[h].tx] = NoChallenge
    /\ seenTx' = [seenTx EXCEPT ![handler[h].tx] = handler[h].challenge]
    /\ UNCHANGED served

Loses(h, rec) ==
    /\ Takes(h, "mark", "rollback", rec) /\ rec = challenges[handler[h].challenge]
    /\ UNCHANGED <<seenTx, served>>

RollsBack(h, rec) ==
    LET old == challenges[handler[h].challenge] IN
    /\ Takes(h, "rollback", "idle", rec)
    /\ rec.state = "PENDING" /\ rec.accessGrant = old.accessGrant
    /\ rec.txHash = old.txHash /\ rec.fromAddress = old.fromAddress
    /\ UNCHANGED <<seenTx, served>>

Issues(h, rec) ==
    /\ Takes(h, "issue", "persist", rec) /\ rec = challenges[handler[h].challenge]
    /\ UNCHANGED <<seenTx, served>>

Stores(h, rec) ==
    LET old == challenges[handler[h].challenge] IN
    /\ Takes(h, "persist", "deliver", rec)
    /\ rec.state = "PAID" /\ rec.accessGrant = handler[h].tx
    /\ rec.txHash = old.txHash /\ rec.fromAddress = old.fromAddress
    /\ rec.aged = old.aged
    /\ UNCHANGED <<seenTx, served>>

Delivers(h, rec) ==
    LET old == challenges[handler[h].challenge] IN
    /\ Takes(h, "deliver", "idle", rec)
    /\ rec.state \in {"PAID", "DELIVERED"} /\ rec.accessGrant = old.accessGrant
    /\ rec.txHash = old.txHash /\ rec.fromAddress = old.fromAddress
    /\ served' = [served EXCEPT ![handler[h].tx] = @ \cup {handler[h].challenge}]
    /\ UNCHANGED seenTx

Serves(h, rec) ==
    \/ Pays(h, rec) \/ Claims(h, rec) \/ Loses(h, rec) \/ RollsBack(h, rec)
    \/ Issues(h, rec) \/ Stores(h, rec) \/ Delivers(h, rec)

\* A compare-and-swap that succeeds replaces one record, and keeps of what is
\* written all but the state.
Replaced(d, to, old) ==
    \E rec \in ChallengeRecord :
        /\ rec.state = to
        /\ rec.txHash = old.txHash /\ rec.fromAddress = old.fromAddress
        /\ rec.accessGrant = old.accessGrant /\ rec.aged = old.aged
        /\ rec.requestId = old.requestId
        /\ \A b \in Challenge : challenges'[b] = IF b = d THEN rec ELSE challenges[b]

LEMMA TransitionRecord ==
  ASSUME TypeInv, NEW d \in Challenge, NEW from, NEW to \in ChallengeState, NEW scored,
         NEW old \in ChallengeRecord, Transition(d, from, to, scored, old)
  PROVE  /\ challenges[d].state = from
         /\ UNCHANGED <<requestIndex, seenTx>>
         /\ Replaced(d, to, old)
<1>1. [old EXCEPT !.state = to] \in ChallengeRecord
  BY DEF ChallengeRecord
<1> QED
  BY <1>1 DEF Replaced, Transition, ChallengeRecord, TypeInv, StoreTypeOK

LEMMA CallShape ==
  ASSUME TypeInv, WhilePaid, NEW h \in Handler,
         ClientCall(h) \/ HandlerStep(h) \/ HandlerLost(h)
  PROVE  Aside(h) \/ \E rec \in ChallengeRecord : Serves(h, rec)
<1> DEFINE c == handler[h].challenge
           t == handler[h].tx
<1>s. /\ challenges \in [Challenge -> ChallengeRecord]
      /\ seenTx \in [Tx -> Challenge \cup {NoChallenge}]
      /\ served \in [Tx -> SUBSET Challenge]
      /\ handler \in [Handler -> Locals]
      /\ CallOK(handler[h])
  BY DEF TypeInv, StoreTypeOK, EngineTypeOK, LocalsInv
<1>d. \A d \in Challenge : challenges[d] \in ChallengeRecord
  BY <1>s
<1>e. c \in Challenge => challenges[c] \in ChallengeRecord
  BY <1>d
<1>z. {"PENDING", "PAID", "DELIVERED", "EXPIRED", "CANCELLED"} \subseteq ChallengeState
  BY DEF ChallengeState
<1>c. handler[h].pc \in {"pay"} \cup AfterPaid => c \in Challenge /\ t \in Tx
  BY <1>s DEF CallOK, AfterPaid
<1>p. handler[h].pc \in AfterPaid => challenges[c].state = "PAID"
  BY <1>c DEF WhilePaid, Serving
<1>r. Return(h) => handler'[h].pc = "idle" /\ OthersKept(h)
  BY <1>s DEF Return, Idle, OthersKept
<1>g. ASSUME NEW pc \in AwaitPoint, Goto(h, pc)
      PROVE  /\ handler'[h].pc = pc /\ handler'[h].challenge = c /\ handler'[h].tx = t
             /\ OthersKept(h)
  BY <1>g, <1>s DEF Goto, Locals, OthersKept
<1>k. ASSUME UNCHANGED storeVars, UNCHANGED served, OthersKept(h),
             handler'[h].pc \notin AfterPaid,
             handler[h].pc \in {"mark", "rollback"} => "mark_lost" \in Faults
      PROVE  Aside(h)
  BY <1>k DEF Aside, storeVars
<1>q. ASSUME c \in Challenge, NEW from, NEW to \in ChallengeState, NEW scored,
             Transition(c, from, to, scored, challenges[c])
      PROVE  /\ challenges[c].state = from /\ UNCHANGED seenTx
             /\ Replaced(c, to, challenges[c])
  <2> DEFINE d == c
             old == challenges[d]
  <2>1. d \in Challenge /\ old \in ChallengeRecord /\ Transition(d, from, to, scored, old)
    BY <1>q, <1>e
  <2> HIDE DEF d, old
  <2>2. challenges[d].state = from /\ UNCHANGED seenTx /\ Replaced(d, to, old)
    BY <2>1, TransitionRecord
  <2> QED
    BY <2>2 DEF d, old
<1>1. ASSUME ClientCall(h) PROVE Aside(h)
  <2>l. ASSUME NEW l, handler' = [handler EXCEPT ![h] = l], l.pc \notin AfterPaid
        PROVE  OthersKept(h) /\ handler'[h].pc \notin AfterPaid
    BY <2>l, <1>s DEF OthersKept
  <2>1. OthersKept(h) /\ handler'[h].pc \notin AfterPaid
    <3>1. ASSUME NEW r \in Request
          PROVE  [Idle EXCEPT !.pc = "create", !.kind = "access", !.requestId = r].pc
                   \notin AfterPaid
      BY DEF Idle, AfterPaid
    <3>2. ASSUME NEW d \in Challenge, NEW u \in Tx
          PROVE  [Idle EXCEPT !.pc = IF challenges[d].lapsed THEN "expire" ELSE "seen",
                              !.kind = "proof", !.challenge = d, !.tx = u].pc
                   \notin AfterPaid
      BY DEF Idle, AfterPaid
    <3>3. ASSUME NEW r \in Request, NEW u \in Tx
          PROVE  [Idle EXCEPT !.pc = "settle", !.kind = "http", !.requestId = r, !.tx = u].pc
                   \notin AfterPaid
      BY DEF Idle, AfterPaid
    <3>4. ASSUME NEW d \in Challenge
          PROVE  [Idle EXCEPT !.pc = "cancel", !.kind = "cancel", !.challenge = d].pc
                   \notin AfterPaid
      BY DEF Idle, AfterPaid
    <3>5. ASSUME NEW r \in Request, NEW u \in Tx
          PROVE  [Idle EXCEPT !.pc = "settle", !.kind = "agent", !.requestId = r, !.tx = u].pc
                   \notin AfterPaid
      BY DEF Idle, AfterPaid
    <3> QED
      BY <1>1, <2>l, <3>1, <3>2, <3>3, <3>4, <3>5
      DEF ClientCall, RequestAccess, SubmitProof, PreSettlementCheck, SettleUnchecked,
          CancelRequest
  <2>2. UNCHANGED storeVars /\ UNCHANGED served /\ handler[h].pc = "idle"
    BY <1>1 DEF ClientCall, RequestAccess, SubmitProof, PreSettlementCheck, SettleUnchecked,
                CancelRequest, At
  <2> QED
    BY <2>1, <2>2, <1>k
<1>2. HandlerLost(h) \/ NoChallengeLeft(h) => Aside(h)
  BY <1>r, <1>k DEF HandlerLost, NoChallengeLeft, At, AfterPaid
<1>3. CheckSeenTx(h) \/ VerifyProof(h) \/ SettlePayment(h) \/ FindActive(h) => Aside(h)
  <2> SUFFICES ASSUME CheckSeenTx(h) \/ VerifyProof(h) \/ SettlePayment(h) \/ FindActive(h)
               PROVE  Aside(h)
    OBVIOUS
  <2>1. /\ UNCHANGED storeVars /\ UNCHANGED served
        /\ handler[h].pc \in {"seen", "verify", "settle", "find"}
    BY DEF CheckSeenTx, VerifyProof, SettlePayment, FindActive, At
  <2>2. \/ Return(h)
        \/ \E pc \in AwaitPoint \ AfterPaid : Goto(h, pc)
        \/ handler' = [handler EXCEPT ![h].pc = "seen", ![h].kind = "http"]
        \/ handler' = [handler EXCEPT ![h].pc = "pay",
                                     ![h].challenge = requestIndex[handler[h].requestId]]
    BY DEF CheckSeenTx, VerifyProof, SettlePayment, FindActive, AwaitPoint, AfterPaid
  <2>3. OthersKept(h) /\ handler'[h].pc \notin AfterPaid
    BY <2>2, <1>r, <1>s DEF Goto, Locals, AfterPaid, OthersKept
  <2> QED
    BY <2>1, <2>3, <1>k
<1>4. ASSUME NEW d \in Challenge, CreateChallenge(h, d) PROVE Aside(h)
  <2>1. OthersKept(h) /\ handler'[h].pc \notin AfterPaid /\ handler[h].pc = "create"
    BY <1>4, <1>r, <1>s DEF CreateChallenge, Locals, AfterPaid, OthersKept, At
  <2>2. \A b \in Challenge : challenges'[b] = challenges[b] \/ UnpaidMoves(b)
    BY <1>4, <1>s DEF CreateChallenge, Create, UnpaidMoves, AbsentRecord
  <2> QED
    BY <1>4, <2>1, <2>2 DEF CreateChallenge, Create, Aside
<1>5. ExpireChallenge(h) \/ CancelChallenge(h) => Aside(h)
  <2> SUFFICES ASSUME ExpireChallenge(h) \/ CancelChallenge(h) PROVE Aside(h)
    OBVIOUS
  <2>1. c \in Challenge /\ handler[h].pc \in {"expire", "cancel"}
    BY <1>s DEF ExpireChallenge, CancelChallenge, At, CallOK, AfterPaid
  <2>2. OthersKept(h) /\ handler'[h].pc \notin AfterPaid /\ UNCHANGED served
    BY <1>r DEF ExpireChallenge, CancelChallenge, AfterPaid
  <2>3. CASE TransitionRefused(c, "PENDING")
    BY <2>1, <2>2, <2>3, <1>k DEF TransitionRefused
  <2>4. ASSUME NEW to \in {"EXPIRED", "CANCELLED"},
               Transition(c, "PENDING", to, FALSE, challenges[c])
        PROVE  Aside(h)
    <3>1. challenges[c].state = "PENDING" /\ Replaced(c, to, challenges[c])
      BY <2>1, <2>4, <1>z, <1>q
    <3>2. \A b \in Challenge : challenges'[b] = challenges[b] \/ UnpaidMoves(b)
      BY <2>1, <3>1 DEF UnpaidMoves, Replaced
    <3> QED
      BY <2>1, <2>2, <2>4, <3>2 DEF Aside, Transition
  <2> QED
    BY <2>3, <2>4 DEF ExpireChallenge, CancelChallenge
<1>6. PayChallenge(h) => Aside(h) \/ \E rec \in ChallengeRecord : Pays(h, rec)
  <2> SUFFICES ASSUME PayChallenge(h)
               PROVE  Aside(h) \/ \E rec \in ChallengeRecord : Pays(h, rec)
    OBVIOUS
  <2>1. c \in Challenge /\ t \in Tx /\ handler[h].pc = "pay" /\ UNCHANGED served
    BY <1>c DEF PayChallenge, At
  <2>2. CASE TransitionRefused(c, "PENDING") /\ Return(h)
    BY <2>1, <2>2, <1>r, <1>k DEF TransitionRefused, AfterPaid
  <2>3. ASSUME NEW from \in Payers(t),
               Transition(c, "PENDING", "PAID", TRUE, Paid(challenges[c], t, from)),
               Goto(h, "mark")
        PROVE  \E rec \in ChallengeRecord : Pays(h, rec)
    <3> DEFINE new == Paid(challenges[c], t, from)
    <3>1. new \in ChallengeRecord
      BY <2>1, <1>s, PaidType
    <3>2. /\ new.txHash = t /\ ~ new.aged /\ new.accessGrant = challenges[c].accessGrant
          /\ "payer_unknown" \notin Faults => new.fromAddress = t
      BY <2>1, <1>s, StoreAssumption DEF Paid, Payers, ChallengeRecord
    <3>3. Transition(c, "PENDING", "PAID", TRUE, new)
      BY <2>3
    <3> HIDE DEF new
    <3>4. /\ challenges[c].state = "PENDING" /\ UNCHANGED seenTx
          /\ Replaced(c, "PAID", new)
      BY <2>1, <3>1, <3>3, <1>z, TransitionRecord
    <3>5. PICK rec \in ChallengeRecord :
             /\ rec.state = "PAID" /\ rec.txHash = new.txHash /\ rec.aged = new.aged
             /\ rec.fromAddress = new.fromAddress /\ rec.accessGrant = new.accessGrant
             /\ \A b \in Challenge : challenges'[b] = IF b = c THEN rec ELSE challenges[b]
      BY <3>4 DEF Replaced
    <3>6. /\ handler'[h].pc = "mark" /\ handler'[h].challenge = c /\ handler'[h].tx = t
          /\ OthersKept(h)
      BY <2>3, <1>g DEF AwaitPoint
    <3> QED
      BY <2>1, <3>2, <3>4, <3>5, <3>6 DEF Pays, Takes
  <2> QED
    BY <2>2, <2>3 DEF PayChallenge
<1>7. ClaimTx(h) => \E rec \in ChallengeRecord : Claims(h, rec) \/ Loses(h, rec)
  <2> SUFFICES ASSUME ClaimTx(h)
               PROVE  Claims(h, challenges[c]) \/ Loses(h, challenges[c])
    BY <1>c, <1>s DEF ClaimTx, At, AfterPaid
  <2>1. c \in Challenge /\ t \in Tx /\ handler[h].pc = "mark" /\ UNCHANGED served
    BY <1>c DEF ClaimTx, At, AfterPaid
  <2>2. CASE MarkUsed(t, c) /\ Goto(h, "issue")
    BY <2>1, <2>2, <1>g DEF MarkUsed, Claims, Takes, AwaitPoint
  <2>3. CASE UNCHANGED storeVars /\ Goto(h, "rollback")
    BY <2>1, <2>3, <1>g DEF storeVars, Loses, Takes, AwaitPoint
  <2> QED
    BY <2>2, <2>3 DEF ClaimTx
<1>8. RollBack(h) => \E rec \in ChallengeRecord : RollsBack(h, rec)
  <2> SUFFICES ASSUME RollBack(h) PROVE \E rec \in ChallengeRecord : RollsBack(h, rec)
    OBVIOUS
  <2>1. c \in Challenge /\ t \in Tx /\ handler[h].pc = "rollback" /\ UNCHANGED served
    BY <1>c DEF RollBack, At, AfterPaid
  <2>2. Transition(c, "PAID", "PENDING", FALSE, challenges[c])
    BY <2>1, <1>p DEF RollBack, TransitionRefused, AfterPaid
  <2>3. UNCHANGED seenTx /\ Replaced(c, "PENDING", challenges[c])
    BY <2>1, <2>2, <1>z, <1>q
  <2>4. PICK rec \in ChallengeRecord :
           /\ rec.state = "PENDING" /\ rec.accessGrant = challenges[c].accessGrant
           /\ rec.txHash = challenges[c].txHash
           /\ rec.fromAddress = challenges[c].fromAddress
           /\ \A b \in Challenge : challenges'[b] = IF b = c THEN rec ELSE challenges[b]
    BY <2>3 DEF Replaced
  <2> QED
    BY <2>1, <2>4, <2>3, <1>r DEF RollBack, RollsBack, Takes
<1>9. IssueToken(h) => Aside(h) \/ \E rec \in ChallengeRecord : Issues(h, rec)
  <2> SUFFICES ASSUME IssueToken(h) PROVE Aside(h) \/ Issues(h, challenges[c])
    BY <1>c, <1>s DEF IssueToken, At, AfterPaid
  <2>1. /\ c \in Challenge /\ t \in Tx /\ handler[h].pc = "issue"
        /\ UNCHANGED served /\ UNCHANGED storeVars
    BY <1>c DEF IssueToken, At, AfterPaid
  <2>2. CASE Return(h)
    BY <2>1, <2>2, <1>r, <1>k DEF AfterPaid
  <2>3. CASE Goto(h, "persist")
    BY <2>1, <2>3, <1>g DEF storeVars, Issues, Takes, AwaitPoint
  <2> QED
    BY <2>2, <2>3 DEF IssueToken
<1>10. PersistGrant(h) => \E rec \in ChallengeRecord : Stores(h, rec)
  <2> SUFFICES ASSUME PersistGrant(h) PROVE \E rec \in ChallengeRecord : Stores(h, rec)
    OBVIOUS
  <2> DEFINE new == [challenges[c] EXCEPT !.accessGrant = t]
  <2>1. c \in Challenge /\ t \in Tx /\ handler[h].pc = "persist" /\ UNCHANGED served
    BY <1>c DEF PersistGrant, At, AfterPaid
  <2>2. Transition(c, "PAID", "PAID", FALSE, new)
    BY <2>1, <1>p DEF PersistGrant, TransitionRefused, AfterPaid
  <2>3. /\ new \in ChallengeRecord /\ new.accessGrant = t
        /\ new.txHash = challenges[c].txHash /\ new.fromAddress = challenges[c].fromAddress
        /\ new.aged = challenges[c].aged
    BY <2>1, <1>s DEF ChallengeRecord
  <2> HIDE DEF new
  <2>4. UNCHANGED seenTx /\ Replaced(c, "PAID", new)
    BY <2>1, <2>2, <2>3, <1>z, TransitionRecord
  <2>5. PICK rec \in ChallengeRecord :
           /\ rec.state = "PAID" /\ rec.accessGrant = new.accessGrant
           /\ rec.aged = new.aged
           /\ rec.txHash = new.txHash /\ rec.fromAddress = new.fromAddress
           /\ \A b \in Challenge : challenges'[b] = IF b = c THEN rec ELSE challenges[b]
    BY <2>4 DEF Replaced
  <2> QED
    BY <2>1, <2>3, <2>5, <2>4, <1>g DEF PersistGrant, Stores, Takes, AwaitPoint
<1>11. Deliver(h) => \E rec \in ChallengeRecord : Delivers(h, rec)
  <2> SUFFICES ASSUME Deliver(h) PROVE \E rec \in ChallengeRecord : Delivers(h, rec)
    OBVIOUS
  <2>1. /\ c \in Challenge /\ t \in Tx /\ handler[h].pc = "deliver"
        /\ challenges[c].state = "PAID"
    BY <1>c, <1>p DEF Deliver, At, AfterPaid
  <2>2. /\ handler'[h].pc = "idle" /\ OthersKept(h)
        /\ served' = [served EXCEPT ![t] = @ \cup {c}]
    BY <1>r DEF Deliver
  <2>3. CASE UNCHANGED storeVars
    BY <2>1, <2>2, <2>3, <1>s DEF storeVars, Delivers, Takes
  <2>4. CASE Transition(c, "PAID", "DELIVERED", FALSE, challenges[c])
    <3>1. UNCHANGED seenTx /\ Replaced(c, "DELIVERED", challenges[c])
      BY <2>1, <2>4, <1>z, <1>q
    <3>2. PICK rec \in ChallengeRecord :
             /\ rec.state = "DELIVERED" /\ rec.accessGrant = challenges[c].accessGrant
             /\ rec.txHash = challenges[c].txHash
             /\ rec.fromAddress = challenges[c].fromAddress
             /\ \A b \in Challenge : challenges'[b] = IF b = c THEN rec ELSE challenges[b]
      BY <3>1 DEF Replaced
    <3> QED
      BY <2>1, <2>2, <3>1, <3>2 DEF Delivers, Takes
  <2> QED
    BY <2>1, <2>3, <2>4 DEF Deliver, TransitionRefused
<1> QED
  BY <1>1, <1>2, <1>3, <1>4, <1>5, <1>6, <1>7, <1>8, <1>9, <1>10, <1>11
  DEF HandlerStep, Serves

\* A refund run moves records between PAID and the refund states, and changes
\* nothing else of them.
RunMoves(k, d) ==
    /\ challenges'[d].txHash = challenges[d].txHash
    /\ challenges'[d].fromAddress = challenges[d].fromAddress
    /\ challenges'[d].accessGrant = challenges[d].accessGrant
    /\ challenges'[d].aged = challenges[d].aged
    /\ challenges'[d].requestId = challenges[d].requestId
    /\ \/ challenges'[d].state = challenges[d].state
       \/ /\ challenges[d].state = "PAID" /\ challenges'[d].state = "REFUND_PENDING"
          /\ \E s \in cron[k].batch : s.challenge = d
       \/ /\ challenges[d].state = "REFUND_PENDING"
          /\ cron[k].current # NoSnapshot /\ cron[k].current.challenge = d
          /\ \/ cron[k].pc = "confirm" /\ challenges'[d].state = "REFUNDED"
             \/ cron[k].pc = "fail" /\ challenges'[d].state = "REFUND_FAILED"

\* What a run holds afterwards it held before, or has just read.
RunHolding(k) ==
    /\ \A s \in cron'[k].batch :
          \/ s \in cron[k].batch
          \/ \E d \in PendingForRefund : /\ s.challenge = d
                                         /\ s.fromAddress = challenges[d].fromAddress
    /\ \/ cron'[k].current \in {NoSnapshot, cron[k].current}
       \/ cron'[k].current \in cron[k].batch

LEMMA RunShape ==
  ASSUME TypeInv, NEW k \in Cron, CronStep(k) \/ CronLost(k)
  PROVE  /\ UNCHANGED <<requestIndex, seenTx>>
         /\ \A j \in Cron \ {k} : cron'[j] = cron[j]
         /\ \A d \in Challenge : RunMoves(k, d)
         /\ RunHolding(k)
<1>s. /\ challenges \in [Challenge -> ChallengeRecord]
      /\ cron \in [Cron -> Run]
      /\ RunOK(cron[k])
  BY DEF TypeInv, StoreTypeOK, CronTypeOK, LocalsInv
<1>i. IdleRun.batch = {} /\ IdleRun.current = NoSnapshot
  BY DEF IdleRun
<1> DEFINE Records == UNCHANGED <<requestIndex, seenTx>> /\ \A d \in Challenge : RunMoves(k, d)
           Runs == (\A j \in Cron \ {k} : cron'[j] = cron[j]) /\ RunHolding(k)
<1>u. UNCHANGED storeVars => Records
  BY DEF storeVars, RunMoves
<1>t. ASSUME NEW c \in Challenge, NEW from, NEW to \in ChallengeState, NEW scored,
             Transition(c, from, to, scored, challenges[c]),
             \/ /\ from = "PAID" /\ to = "REFUND_PENDING"
                /\ \E s \in cron[k].batch : s.challenge = c
             \/ /\ from = "REFUND_PENDING"
                /\ cron[k].current # NoSnapshot /\ cron[k].current.challenge = c
                /\ \/ cron[k].pc = "confirm" /\ to = "REFUNDED"
                   \/ cron[k].pc = "fail" /\ to = "REFUND_FAILED"
      PROVE  Records
  <2> DEFINE old == challenges[c]
  <2>1. old \in ChallengeRecord /\ Transition(c, from, to, scored, old)
    BY <1>t, <1>s
  <2> HIDE DEF old
  <2>2. /\ challenges[c].state = from /\ UNCHANGED <<requestIndex, seenTx>>
        /\ Replaced(c, to, old)
    BY <2>1, TransitionRecord
  <2>3. ASSUME NEW d \in Challenge PROVE RunMoves(k, d)
    BY <1>t, <2>2 DEF Replaced, RunMoves, old
  <2> QED
    BY <2>2, <2>3
<1>n. ASSUME NEW batch \in SUBSET cron[k].batch, NextRecord(k, batch) PROVE Runs
  BY <1>n, <1>s, <1>i DEF NextRecord, RunHolding, IdleRun
<1>1. FetchBatch(k) => Records /\ Runs
  <2> SUFFICES ASSUME FetchBatch(k) PROVE Runs
    BY <1>u DEF FetchBatch
  <2> DEFINE snap(d) == [challenge |-> d, fromAddress |-> challenges[d].fromAddress]
  <2>1. PICK ids \in SUBSET PendingForRefund : NextRecord(k, {snap(d) : d \in ids})
    BY DEF FetchBatch
  <2>2. cron[k].current = NoSnapshot
    BY RunHolds DEF FetchBatch
  <2>3. /\ cron'[k].batch \subseteq {snap(d) : d \in ids} /\ cron'[k].current = NoSnapshot
        /\ \A j \in Cron \ {k} : cron'[j] = cron[j]
    BY <2>1, <1>s, <1>i DEF NextRecord, IdleRun
  <2>4. ASSUME NEW s \in cron'[k].batch
        PROVE  \E d \in PendingForRefund : /\ s.challenge = d
                                           /\ s.fromAddress = challenges[d].fromAddress
    BY <2>3
  <2> QED
    BY <2>3, <2>4 DEF RunHolding
<1>2. ASSUME NEW s \in cron[k].batch, ClaimRefund(k, s) PROVE Records /\ Runs
  <2>1. s \in Snapshot /\ s.challenge \in Challenge /\ {"REFUND_PENDING"} \subseteq ChallengeState
    BY <1>s DEF Run, Snapshot, ChallengeState
  <2>2. CASE TransitionRefused(s.challenge, "PAID") /\ NextRecord(k, cron[k].batch \ {s})
    BY <2>2, <1>u, <1>n DEF TransitionRefused
  <2>3. CASE /\ Transition(s.challenge, "PAID", "REFUND_PENDING", FALSE,
                           challenges[s.challenge])
             /\ cron' = [cron EXCEPT ![k] = [IdleRun EXCEPT !.pc = "send",
                                                            !.batch = cron[k].batch \ {s},
                                                            !.current = s]]
    <3>1. Runs
      BY <2>3, <1>s DEF RunHolding, IdleRun
    <3>2. Records
      BY <2>1, <2>3, <1>t
    <3> QED
      BY <3>1, <3>2
  <2> QED
    BY <1>2, <2>2, <2>3 DEF ClaimRefund
<1>3. SendRefund(k) => Records /\ Runs
  <2> SUFFICES ASSUME SendRefund(k) PROVE Runs
    BY <1>u DEF SendRefund
  <2> QED
    BY <1>s DEF SendRefund, Run, RunHolding
<1>4. ConfirmRefund(k) \/ FailRefund(k) => Records /\ Runs
  <2> SUFFICES ASSUME ConfirmRefund(k) \/ FailRefund(k) PROVE Records /\ Runs
    OBVIOUS
  <2> DEFINE c == cron[k].current.challenge
  <2>1. c \in Challenge /\ cron[k].current # NoSnapshot
    BY RunHolds DEF ConfirmRefund, FailRefund
  <2>2. Runs
    <3>1. CASE NextRecord(k, cron[k].batch)
      BY <3>1, <1>n
    <3>2. CASE cron' = [cron EXCEPT ![k].pc = "fail"]
      BY <3>2, <1>s DEF Run, RunHolding
    <3> QED
      BY <3>1, <3>2 DEF ConfirmRefund, FailRefund
  <2>3. Records
    <3>1. CASE UNCHANGED storeVars
      BY <3>1, <1>u
    <3>2. {"REFUNDED", "REFUND_FAILED"} \subseteq ChallengeState
      BY DEF ChallengeState
    <3>3. CASE /\ cron[k].pc = "confirm"
               /\ Transition(c, "REFUND_PENDING", "REFUNDED", FALSE, challenges[c])
      BY <2>1, <3>2, <3>3, <1>t
    <3>4. CASE /\ cron[k].pc = "fail"
               /\ Transition(c, "REFUND_PENDING", "REFUND_FAILED", FALSE, challenges[c])
      BY <2>1, <3>2, <3>4, <1>t
    <3> QED
      BY <3>1, <3>3, <3>4 DEF ConfirmRefund, FailRefund, TransitionRefused
  <2> QED
    BY <2>2, <2>3
<1>5. CronLost(k) => Records /\ Runs
  BY <1>s, <1>i, <1>u DEF CronLost, RunHolding
<1> HIDE DEF Records, Runs
<1>6. Records /\ Runs
  BY <1>1, <1>2, <1>3, <1>4, <1>5 DEF CronStep
<1> QED
  BY <1>6 DEF Records, Runs

\* The record a run has claimed and is refunding.
Refunding(k, c) == cron[k].current # NoSnapshot /\ cron[k].current.challenge = c

\* Without the faults of the receipt and of the last write, a run counts a
\* refund once for each time it claims the record, and then goes on to confirm.
Sends(k) ==
    LET payer == cron[k].current.fromAddress IN
    /\ cron[k].pc = "send" /\ cron'[k].pc = "confirm"
    /\ cron'[k].current = cron[k].current
    /\ payouts' = [payouts EXCEPT ![payer] = @ + 1]
    /\ UNCHANGED storeVars

LEMMA RunPays ==
  ASSUME "receipt_timeout" \notin Faults, "confirm_error" \notin Faults, TypeInv,
         NEW k \in Cron, CronStep(k) \/ CronLost(k)
  PROVE  /\ UNCHANGED payouts \/ Sends(k)
         /\ \A c \in Challenge : Refunding(k, c)' =>
               \/ challenges[c].state = "PAID" /\ challenges'[c].state = "REFUND_PENDING"
               \/ Refunding(k, c) /\ cron[k].pc = "send" /\ UNCHANGED challenges
<1>s. cron \in [Cron -> Run]
  BY DEF TypeInv, CronTypeOK
<1>c. challenges \in [Challenge -> ChallengeRecord]
  BY DEF TypeInv, StoreTypeOK
<1>i. /\ IdleRun.current = NoSnapshot
      /\ \A b : [IdleRun EXCEPT !.pc = "claim", !.batch = b].current = NoSnapshot
  BY DEF IdleRun
<1>n. ASSUME NEW batch, NextRecord(k, batch) PROVE cron'[k].current = NoSnapshot
  BY <1>s, <1>i, <1>n DEF NextRecord
<1>1. CASE FetchBatch(k)
  BY <1>1, <1>n DEF FetchBatch, Refunding
<1>2. ASSUME NEW s \in cron[k].batch, ClaimRefund(k, s)
      PROVE  /\ UNCHANGED payouts
             /\ \A c \in Challenge : Refunding(k, c)' =>
                   challenges[c].state = "PAID" /\ challenges'[c].state = "REFUND_PENDING"
  <2>1. CASE NextRecord(k, cron[k].batch \ {s})
    BY <1>2, <2>1, <1>n DEF ClaimRefund, Refunding
  <2>2. CASE /\ Transition(s.challenge, "PAID", "REFUND_PENDING", FALSE, challenges[s.challenge])
             /\ cron' = [cron EXCEPT ![k] = [IdleRun EXCEPT !.pc = "send",
                                                            !.batch = cron[k].batch \ {s},
                                                            !.current = s]]
    <3>1. cron'[k].current = s /\ challenges[s.challenge].state = "PAID"
      BY <1>s, <2>2 DEF Transition, IdleRun
    <3>2. s.challenge \in Challenge => challenges'[s.challenge].state = "REFUND_PENDING"
      BY <1>c, <2>2 DEF Transition, ChallengeRecord
    <3> QED
      BY <1>2, <3>1, <3>2 DEF ClaimRefund, Refunding
  <2> QED
    BY <1>2, <2>1, <2>2 DEF ClaimRefund
<1>3. CASE SendRefund(k)
  <2>1. cron[k].pc = "send" /\ cron'[k].current = cron[k].current /\ UNCHANGED challenges
    BY <1>s, <1>3 DEF SendRefund, Run, storeVars
  <2>2. UNCHANGED payouts \/ cron' = [cron EXCEPT ![k].pc = "confirm"]
    BY <1>3 DEF SendRefund
  <2>3. cron' = [cron EXCEPT ![k].pc = "confirm"] /\ ~ UNCHANGED payouts => Sends(k)
    BY <1>s, <1>3, <2>1 DEF SendRefund, Sends, Run
  <2> QED
    BY <2>1, <2>2, <2>3 DEF Refunding
<1>4. CASE ConfirmRefund(k)
  BY <1>4, <1>n DEF ConfirmRefund, Refunding
<1>5. CASE FailRefund(k)
  BY <1>5, <1>n DEF FailRefund, Refunding
<1>6. CASE CronLost(k)
  BY <1>s, <1>i, <1>6 DEF CronLost, Refunding
<1> QED
  BY <1>1, <1>2, <1>3, <1>4, <1>5, <1>6 DEF CronStep

\* The clock changes what a record is compared with, and nothing else of it.
LEMMA TimePasses ==
  ASSUME TypeInv, NEW c \in Challenge, ChallengeLapses(c) \/ PaymentAges(c)
  PROVE  /\ UNCHANGED <<requestIndex, paidSet, seenTx>>
         /\ \A d \in Challenge :
               /\ challenges'[d].state = challenges[d].state
               /\ challenges'[d].requestId = challenges[d].requestId
               /\ challenges'[d].txHash = challenges[d].txHash
               /\ challenges'[d].fromAddress = challenges[d].fromAddress
               /\ challenges'[d].accessGrant = challenges[d].accessGrant
<1>1. challenges \in [Challenge -> ChallengeRecord]
  BY DEF TypeInv, StoreTypeOK
<1>2. CASE ChallengeLapses(c)
  BY <1>1, <1>2 DEF ChallengeLapses, ChallengeRecord
<1>3. CASE PaymentAges(c)
  BY <1>1, <1>3 DEF PaymentAges, ChallengeRecord
<1> QED
  BY <1>2, <1>3

-----------------------------------------------------------------------------
\* The set that the refund job scans (PaidSetComplete of Gateway).

PaidSetWhole ==
    \A c \in Challenge :
        /\ c \in paidSet => challenges[c].state = "PAID"
        /\ challenges[c].state = "PAID" /\ challenges[c].accessGrant = NoTx => c \in paidSet

LEMMA TransitionPaidSet ==
  ASSUME TypeInv, PaidSetWhole, NEW c \in Challenge, NEW from,
         NEW to \in ChallengeState, NEW scored \in BOOLEAN, NEW rec \in ChallengeRecord,
         Transition(c, from, to, scored, rec), PaidRecorded(from, to, scored, rec)
  PROVE  PaidSetWhole'
<1>1. ASSUME NEW d \in Challenge
      PROVE  challenges'[d] = IF d = c THEN [rec EXCEPT !.state = to] ELSE challenges[d]
  BY DEF TypeInv, StoreTypeOK, Transition
<1>2. /\ [rec EXCEPT !.state = to].state = to
      /\ [rec EXCEPT !.state = to].accessGrant = rec.accessGrant
  BY DEF ChallengeRecord
<1>3. paidSet' = PaidSetAfter(c, from, to, scored) /\ challenges[c].state = from
  BY DEF Transition
<1> SUFFICES ASSUME NEW d \in Challenge
             PROVE  /\ d \in paidSet' => challenges'[d].state = "PAID"
                    /\ challenges'[d].state = "PAID" /\ challenges'[d].accessGrant = NoTx
                         => d \in paidSet'
  BY DEF PaidSetWhole
<1>4. CASE d = c
  BY <1>1, <1>2, <1>3, <1>4 DEF PaidSetAfter, PaidSetWhole, PaidRecorded
<1>5. CASE d # c
  BY <1>1, <1>3, <1>5 DEF PaidSetAfter, PaidSetWhole
<1> QED
  BY <1>4, <1>5

LEMMA CreatePaidSet ==
  ASSUME TypeInv, PaidSetWhole, NEW c \in Challenge, NEW r, Create(c, r)
  PROVE  PaidSetWhole'
  BY DEF Create, PaidSetWhole, TypeInv, StoreTypeOK, AbsentRecord

LEMMA EnginePaidSet ==
  ASSUME TypeInv, PaidSetWhole, NEW h \in Handler,
         ClientCall(h) \/ HandlerStep(h) \/ HandlerLost(h)
  PROVE  PaidSetWhole'
<1>1. ASSUME UNCHANGED <<challenges, paidSet>> PROVE PaidSetWhole'
  BY <1>1 DEF PaidSetWhole
<1> QED
  BY <1>1, CreatePaidSet, TransitionPaidSet, EngineWrites

LEMMA CronPaidSet == ASSUME TypeInv, PaidSetWhole, CronNext PROVE PaidSetWhole'
<1>s. \A c \in Challenge : challenges[c] \in ChallengeRecord
  BY DEF TypeInv, StoreTypeOK
<1>u. ASSUME UNCHANGED <<challenges, paidSet>> PROVE PaidSetWhole'
  BY <1>u DEF PaidSetWhole
<1>m. ASSUME NEW c \in Challenge, NEW from, NEW to \in ChallengeState, NEW scored \in BOOLEAN,
             to = "PAID" => scored, Transition(c, from, to, scored, challenges[c])
      PROVE  PaidSetWhole'
  BY <1>m, <1>s, TransitionPaidSet DEF PaidRecorded
<1>1. ASSUME NEW k \in Cron, CronStep(k) \/ CronLost(k) PROVE PaidSetWhole'
  <2>k. cron[k] \in Run /\ RunOK(cron[k])
    BY DEF TypeInv, CronTypeOK, LocalsInv
  <2>1. CASE FetchBatch(k) \/ SendRefund(k) \/ CronLost(k)
    BY <2>1, <1>u DEF FetchBatch, SendRefund, CronLost, storeVars
  <2>2. ASSUME NEW s \in cron[k].batch, ClaimRefund(k, s) PROVE PaidSetWhole'
    <3>1. s.challenge \in Challenge
      BY <2>k DEF Run, Snapshot
    <3> QED
      BY <2>2, <3>1, <1>u, <1>m
      DEF ClaimRefund, TransitionRefused, storeVars, ChallengeState
  <2>3. CASE ConfirmRefund(k) \/ FailRefund(k)
    <3>1. cron[k].current.challenge \in Challenge
      BY <2>3, <2>k DEF ConfirmRefund, FailRefund, RunOK, Snapshot
    <3> QED
      BY <2>3, <3>1, <1>u, <1>m
      DEF ConfirmRefund, FailRefund, TransitionRefused, storeVars, ChallengeState
  <2> QED
    BY <1>1, <2>1, <2>2, <2>3 DEF CronStep
<1>2. ASSUME NEW c \in Challenge, RequeueFailed(c) PROVE PaidSetWhole'
  BY <1>2, <1>m DEF RequeueFailed, ChallengeState
<1> QED
  BY <1>1, <1>2 DEF CronNext
=============================================================================

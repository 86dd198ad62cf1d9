--------------------------- MODULE SettlementProofs ---------------------------
(***************************************************************************)
(* The gas wallet lock and the settlement under it, for any number of      *)
(* calls of any kinds.                                                     *)
(***************************************************************************)
EXTENDS Settlement, TLAPS

\* Redis has a key for every holder, with time left; a call that has been in the
\* lock for less than the TTL holds it, and its clock and the key's add up.
LockIsHeld ==
    /\ lock.holder # NoTask => lock.ttl > 0
    /\ redis => \A t \in Task :
          Inside(t) /\ task[t].held < LOCK_TTL
              => lock.holder = t /\ lock.ttl + task[t].held = LOCK_TTL

\* Without Redis the call inside is the one at the head of the chain.
HeadIsInside ==
    ~ redis => \A t \in Task : Inside(t) => queue # << >> /\ Head(queue) = t

\* The clock of the lock starts when a call enters it.
ClockStarts == \A t \in Task : task[t].pc \in {"idle", "wait", "queued"} => task[t].held = 0

\* A call reports once, at its end.
ReportsAtEnd ==
    \A t \in Task : outcome[t] # "none" => task[t].pc \in {"release", "done"}

\* Which of the two locks a call is in, if any.
LockInUse ==
    \A t \in Task : /\ TaskAt(t, "wait") => redis /\ task[t].kind # "facilitator"
                    /\ TaskAt(t, "queued") => ~ redis /\ task[t].kind # "facilitator"
                    /\ TaskAt(t, "release") => task[t].kind # "facilitator"

IInv ==
    /\ SettleTypeOK
    /\ LockIsHeld /\ HeadIsInside /\ LockInUse
    /\ ClockStarts /\ ReportsAtEnd

-----------------------------------------------------------------------------
LEMMA InitHolds == SettleInit => IInv
  BY TaskAssumption
  DEF SettleInit, IInv, SettleTypeOK, LockIsHeld, HeadIsInside, ClockStarts, ReportsAtEnd,
      LockInUse, Inside, TaskAt, TaskLocals, Await, Kind, Held, LOCK_TTL, MaxSettleAttempts

\* What a step of one call does to the locals.
LEMMA GotoLocals ==
  ASSUME task \in [Task -> TaskLocals], NEW t \in Task, NEW pc \in Await,
         NEW ticks \in 0..LOCK_TTL, TaskGoto(t, pc, ticks)
  PROVE  /\ task' \in [Task -> TaskLocals]
         /\ task'[t].pc = pc /\ task'[t].left = ticks
         /\ task'[t].kind = task[t].kind /\ task'[t].held = task[t].held
         /\ \A s \in Task \ {t} : task'[s] = task[s]
<1> DEFINE moves == [task[t] EXCEPT !.pc = pc, !.left = ticks]
<1>1. task[t] \in TaskLocals
  OBVIOUS
<1>2. /\ moves \in TaskLocals
      /\ moves.pc = pc /\ moves.left = ticks
      /\ moves.kind = task[t].kind /\ moves.held = task[t].held
  BY <1>1 DEF TaskLocals
<1>3. task' = [task EXCEPT ![t] = moves]
  BY <1>1 DEF TaskGoto, TaskLocals
<1> QED
  BY <1>2, <1>3

\* A step of a call that is at work: it changes no lock, and if it reports it is
\* at its end. AtWork holds where a payment is verified, settled or refunded.
AtWork == {"verify", "settle", "send", "receipt"}

LEMMA WorkStep ==
  ASSUME IInv, NEW t \in Task, NEW pc \in AtWork \cup {"release", "done"},
         NEW ticks \in 0..LOCK_TTL,
         task[t].pc \in AtWork, TaskGoto(t, pc, ticks),
         pc = "release" => task[t].kind # "facilitator",
         UNCHANGED <<redis, lock, queue>>,
         inFlight' \in SUBSET Task, moved' \in SUBSET Task,
         \/ UNCHANGED outcome
         \/ /\ pc \in {"release", "done"}
            /\ \E result \in {"settled", "failed"} : outcome' = [outcome EXCEPT ![t] = result]
  PROVE  IInv'
<1>1. /\ task' \in [Task -> TaskLocals]
      /\ task'[t].pc = pc
      /\ task'[t].kind = task[t].kind /\ task'[t].held = task[t].held
      /\ \A s \in Task \ {t} : task'[s] = task[s]
  BY GotoLocals DEF IInv, SettleTypeOK, AtWork, Await
<1>2. \A s \in Task : Inside(s)' => Inside(s) /\ task'[s].held = task[s].held
  BY <1>1 DEF Inside, AtWork
<1>3. SettleTypeOK'
  BY <1>1 DEF IInv, SettleTypeOK
<1>4. LockIsHeld'
  BY <1>2 DEF IInv, LockIsHeld
<1>5. HeadIsInside'
  BY <1>2 DEF IInv, HeadIsInside
<1>6. ClockStarts' /\ ReportsAtEnd' /\ LockInUse'
  BY <1>1 DEF IInv, SettleTypeOK, ClockStarts, ReportsAtEnd, LockInUse, TaskAt, AtWork
<1> QED
  BY <1>3, <1>4, <1>5, <1>6 DEF IInv

LEMMA ReportStep ==
  ASSUME IInv, NEW t \in Task, task[t].pc \in AtWork,
         NEW result \in {"settled", "failed"}, Report(t, result)
  PROVE  IInv'
<1> DEFINE pc == IF task[t].kind = "facilitator" THEN "done" ELSE "release"
<1>1. TaskGoto(t, pc, 0) /\ outcome' = [outcome EXCEPT ![t] = result]
      /\ UNCHANGED <<redis, lock, queue, inFlight, moved>>
  BY DEF Report
<1>2. pc \in {"release", "done"} /\ (pc = "release" => task[t].kind # "facilitator")
  OBVIOUS
<1>3. 0 \in 0..LOCK_TTL
  BY DEF LOCK_TTL
<1>4. inFlight' \in SUBSET Task /\ moved' \in SUBSET Task
  BY <1>1 DEF IInv, SettleTypeOK
<1> HIDE DEF pc
<1> QED
  BY <1>1, <1>2, <1>3, <1>4, WorkStep

-----------------------------------------------------------------------------
LEMMA CallSettleStep ==
  ASSUME IInv, NEW t \in Task, CallSettle(t)
  PROVE  IInv'
<1>1. PICK pc \in {"verify", "wait", "queued"} :
        /\ TaskGoto(t, pc, IF pc = "queued" THEN 0 ELSE 1)
        /\ pc = "verify" <=> task[t].kind = "facilitator"
        /\ pc = "wait" => redis
        /\ pc = "queued" => ~ redis
        /\ queue' = IF pc = "queued" THEN Append(queue, t) ELSE queue
        /\ UNCHANGED <<redis, lock, inFlight, moved, outcome>>
  BY DEF CallSettle, VerifyTimeout, LockWait
<1>2. (IF pc = "queued" THEN 0 ELSE 1) \in 0..LOCK_TTL /\ pc \in Await
  BY DEF LOCK_TTL, Await
<1>3. /\ task' \in [Task -> TaskLocals]
      /\ task'[t].pc = pc
      /\ task'[t].kind = task[t].kind /\ task'[t].held = task[t].held
      /\ \A s \in Task \ {t} : task'[s] = task[s]
  BY <1>1, <1>2, GotoLocals DEF IInv, SettleTypeOK
<1>4. \A s \in Task : Inside(s)' => Inside(s) /\ task'[s].held = task[s].held
  BY <1>1, <1>3 DEF Inside
<1>5. SettleTypeOK'
  BY <1>1, <1>3 DEF IInv, SettleTypeOK
<1>6. LockIsHeld'
  BY <1>1, <1>4 DEF IInv, LockIsHeld
<1>7. HeadIsInside'
  <2>1. queue # << >> => queue' # << >> /\ Head(queue') = Head(queue)
    BY <1>1 DEF IInv, SettleTypeOK
  <2> QED
    BY <1>1, <1>4, <2>1 DEF IInv, HeadIsInside
<1>8. ClockStarts' /\ ReportsAtEnd' /\ LockInUse'
  <2>1. task[t].pc = "idle" /\ task[t].held = 0 /\ outcome[t] = "none"
    BY DEF CallSettle, TaskAt, IInv, ClockStarts, ReportsAtEnd, SettleTypeOK
  <2>2. \A s \in Task : s # t => task'[s] = task[s]
    BY <1>3
  <2>3. ClockStarts'
    BY <1>3, <2>1, <2>2 DEF IInv, ClockStarts
  <2>4. ReportsAtEnd'
    BY <1>1, <1>3, <2>1, <2>2 DEF IInv, ReportsAtEnd
  <2>5. LockInUse'
    BY <1>1, <1>3, <2>2 DEF IInv, LockInUse, TaskAt
  <2> QED
    BY <2>3, <2>4, <2>5
<1> QED
  BY <1>5, <1>6, <1>7, <1>8 DEF IInv

\* fn begins: the call is inside now, at its first await.
LEMMA RunLockedLocals ==
  ASSUME task \in [Task -> TaskLocals], NEW t \in Task, RunLocked(t)
  PROVE  /\ task' \in [Task -> TaskLocals]
         /\ task'[t].pc \in AtWork
         /\ task'[t].kind = task[t].kind /\ task'[t].held = task[t].held
         /\ \A s \in Task \ {t} : task'[s] = task[s]
<1> USE DEF AtWork, Await, LOCK_TTL
<1>1. \/ TaskGoto(t, "send", 1)
      \/ TaskGoto(t, "verify", 1)
  BY DEF RunLocked, RpcTimeout, VerifyTimeout
<1> QED
  BY <1>1, GotoLocals

LEMMA AcquireLockStep ==
  ASSUME IInv, NEW t \in Task, AcquireLock(t)
  PROVE  IInv'
<1>1. /\ task' \in [Task -> TaskLocals]
      /\ task'[t].pc \in AtWork
      /\ task'[t].kind = task[t].kind /\ task'[t].held = task[t].held
      /\ \A s \in Task \ {t} : task'[s] = task[s]
  BY RunLockedLocals DEF AcquireLock, IInv, SettleTypeOK
<1>2. /\ task[t].pc = "wait" /\ redis /\ task[t].held = 0
      /\ lock.holder = NoTask /\ lock' = [holder |-> t, ttl |-> LOCK_TTL]
      /\ UNCHANGED <<redis, queue, inFlight, moved, outcome>>
  BY DEF AcquireLock, TaskAt, IInv, LockInUse, ClockStarts
<1>3. SettleTypeOK'
  BY <1>1, <1>2 DEF IInv, SettleTypeOK, LOCK_TTL
<1>4. LockIsHeld'
  <2>1. \A s \in Task \ {t} : Inside(s)' => Inside(s) /\ task'[s].held = task[s].held
    BY <1>1 DEF Inside
  <2>2. \A s \in Task : Inside(s) => ~ task[s].held < LOCK_TTL
    BY <1>2, TaskAssumption DEF IInv, LockIsHeld
  <2>3. \A s \in Task \ {t} : Inside(s)' => ~ task'[s].held < LOCK_TTL
    BY <2>1, <2>2
  <2>4. lock'.holder = t /\ lock'.ttl = LOCK_TTL /\ task'[t].held = 0
    BY <1>1, <1>2
  <2> QED
    BY <2>3, <2>4 DEF LockIsHeld, LOCK_TTL
<1>5. HeadIsInside'
  BY <1>2 DEF HeadIsInside
<1>6. ClockStarts' /\ ReportsAtEnd' /\ LockInUse'
  BY <1>1, <1>2 DEF IInv, SettleTypeOK, ClockStarts, ReportsAtEnd, LockInUse, TaskAt, AtWork
<1> QED
  BY <1>3, <1>4, <1>5, <1>6 DEF IInv

LEMMA LockRefusedStep ==
  ASSUME IInv, NEW t \in Task, LockRefused(t)
  PROVE  IInv'
<1>1. /\ task' \in [Task -> TaskLocals]
      /\ task'[t].pc = "done"
      /\ task'[t].kind = task[t].kind /\ task'[t].held = task[t].held
      /\ \A s \in Task \ {t} : task'[s] = task[s]
  BY GotoLocals DEF LockRefused, IInv, SettleTypeOK, Await, LOCK_TTL
<1>2. \A s \in Task : Inside(s)' => Inside(s) /\ task'[s].held = task[s].held
  BY <1>1 DEF Inside
<1>3. SettleTypeOK'
  BY <1>1 DEF IInv, SettleTypeOK, LockRefused
<1>4. LockIsHeld' /\ HeadIsInside'
  BY <1>2 DEF IInv, LockIsHeld, HeadIsInside, LockRefused
<1>5. ClockStarts' /\ ReportsAtEnd' /\ LockInUse'
  BY <1>1 DEF IInv, SettleTypeOK, ClockStarts, ReportsAtEnd, LockInUse, TaskAt, LockRefused
<1> QED
  BY <1>3, <1>4, <1>5 DEF IInv

LEMMA TakeTurnStep ==
  ASSUME IInv, NEW t \in Task, TakeTurn(t)
  PROVE  IInv'
<1>1. /\ task' \in [Task -> TaskLocals]
      /\ task'[t].pc \in AtWork
      /\ task'[t].kind = task[t].kind /\ task'[t].held = task[t].held
      /\ \A s \in Task \ {t} : task'[s] = task[s]
  BY RunLockedLocals DEF TakeTurn, IInv, SettleTypeOK
<1>2. /\ task[t].pc = "queued" /\ ~ redis /\ queue # << >> /\ Head(queue) = t
      /\ UNCHANGED <<redis, lock, queue, inFlight, moved, outcome>>
  BY DEF TakeTurn, TaskAt, IInv, LockInUse
<1>3. SettleTypeOK'
  BY <1>1, <1>2 DEF IInv, SettleTypeOK
<1>4. LockIsHeld'
  BY <1>2 DEF IInv, LockIsHeld
<1>5. HeadIsInside'
  <2>1. \A s \in Task \ {t} : Inside(s)' => Inside(s)
    BY <1>1 DEF Inside
  <2> QED
    BY <1>2, <2>1 DEF IInv, HeadIsInside
<1>6. ClockStarts' /\ ReportsAtEnd' /\ LockInUse'
  BY <1>1, <1>2 DEF IInv, SettleTypeOK, ClockStarts, ReportsAtEnd, LockInUse, TaskAt, AtWork
<1> QED
  BY <1>3, <1>4, <1>5, <1>6 DEF IInv

\* Only calls that used the lock come to release it.
LEMMA ReleaseLockStep ==
  ASSUME IInv, NEW t \in Task, ReleaseLock(t)
  PROVE  IInv'
<1>1. /\ task' \in [Task -> TaskLocals]
      /\ task'[t].pc = "done"
      /\ task'[t].kind = task[t].kind /\ task'[t].held = task[t].held
      /\ \A s \in Task \ {t} : task'[s] = task[s]
  BY GotoLocals DEF ReleaseLock, IInv, SettleTypeOK, Await, LOCK_TTL
<1>2. \A s \in Task : Inside(s)' => s # t /\ Inside(s) /\ task'[s].held = task[s].held
  BY <1>1 DEF Inside
<1>3. Inside(t)
  BY DEF Inside, ReleaseLock, TaskAt, IInv, LockInUse
<1>4. /\ UNCHANGED lock \/ (redis /\ lock.holder = t /\ lock' = [holder |-> NoTask, ttl |-> 0])
      /\ queue' = IF redis THEN queue ELSE Tail(queue)
      /\ task[t].pc = "release"
      /\ UNCHANGED <<redis, inFlight, moved, outcome>>
  BY DEF ReleaseLock, TaskAt
<1>5. SettleTypeOK'
  <2>1. ~ redis => queue # << >>
    BY <1>3 DEF IInv, HeadIsInside
  <2>2. queue' \in Seq(Task)
    BY <1>4, <2>1 DEF IInv, SettleTypeOK
  <2> QED
    BY <1>1, <1>4, <2>2 DEF IInv, SettleTypeOK, LOCK_TTL
<1>6. LockIsHeld'
  BY <1>2, <1>4 DEF IInv, LockIsHeld
<1>7. HeadIsInside'
  BY <1>2, <1>3, <1>4 DEF IInv, HeadIsInside
<1>8. ClockStarts' /\ ReportsAtEnd' /\ LockInUse'
  BY <1>1, <1>4 DEF IInv, SettleTypeOK, ClockStarts, ReportsAtEnd, LockInUse, TaskAt
<1> QED
  BY <1>5, <1>6, <1>7, <1>8 DEF IInv
LEMMA VerifyPaymentStep ==
  ASSUME IInv, NEW t \in Task, VerifyPayment(t)
  PROVE  IInv'
<1>1. task[t].pc \in AtWork
  BY DEF VerifyPayment, TaskAt, AtWork
<1>2. ASSUME TaskGoto(t, "settle", SettleTimeout(t)),
             UNCHANGED <<redis, lock, queue, inFlight, moved, outcome>>
      PROVE  IInv'
  <2>1. SettleTimeout(t) \in 0..LOCK_TTL
    BY DEF SettleTimeout, LOCK_TTL
  <2>2. inFlight' \in SUBSET Task /\ moved' \in SUBSET Task
    BY <1>2 DEF IInv, SettleTypeOK
  <2> QED
    BY <1>1, <1>2, <2>1, <2>2, WorkStep DEF AtWork
<1> QED
  BY <1>1, <1>2, ReportStep DEF VerifyPayment

LEMMA SettlementAnsweredStep ==
  ASSUME IInv, NEW t \in Task, SettlementAnswered(t)
  PROVE  IInv'
<1>1. task[t].pc = "settle"
  BY DEF SettlementAnswered, TaskAt
<1>2. ASSUME RetrySettlement(t) PROVE IInv'
  <2> DEFINE again == [task[t] EXCEPT !.attempt = @ + 1, !.left = SettleTimeout(t)]
  <2>1. task[t] \in TaskLocals
    BY DEF IInv, SettleTypeOK
  <2>2. /\ again \in TaskLocals
        /\ again.pc = "settle" /\ again.kind = task[t].kind /\ again.held = task[t].held
    <3>1. task[t].attempt \in 1..3 /\ task[t].attempt < 3
      BY <1>2, <2>1 DEF TaskLocals, RetrySettlement, MaxSettleAttempts
    <3>2. task[t].attempt + 1 \in 1..MaxSettleAttempts
      BY <3>1 DEF MaxSettleAttempts
    <3>3. SettleTimeout(t) \in 0..LOCK_TTL
      BY DEF SettleTimeout, LOCK_TTL
    <3> HIDE DEF MaxSettleAttempts, LOCK_TTL
    <3> QED
      BY <1>1, <2>1, <3>2, <3>3 DEF TaskLocals
  <2>3. task' = [task EXCEPT ![t] = again] /\ UNCHANGED <<redis, lock, queue, inFlight, moved, outcome>>
    BY <1>2, <2>1 DEF RetrySettlement, TaskLocals
  <2> HIDE DEF again
  <2>4. /\ task' \in [Task -> TaskLocals]
        /\ \A s \in Task : /\ task'[s].pc = task[s].pc /\ task'[s].kind = task[s].kind
                           /\ task'[s].held = task[s].held
    BY <1>1, <2>2, <2>3 DEF IInv, SettleTypeOK
  <2> QED
    BY <2>3, <2>4 DEF IInv, SettleTypeOK, LockIsHeld, HeadIsInside, LockInUse, ClockStarts,
                      ReportsAtEnd, Inside, TaskAt
<1> QED
  BY <1>1, <1>2, ReportStep DEF SettlementAnswered, AtWork

LEMMA SubmitRefundStep ==
  ASSUME IInv, NEW t \in Task, SubmitRefund(t)
  PROVE  IInv'
<1>1. task[t].pc \in AtWork
  BY DEF SubmitRefund, TaskAt, AtWork
<1>2. ASSUME TaskGoto(t, "receipt", ReceiptTimeout), inFlight' = inFlight \cup {t},
             UNCHANGED <<redis, lock, queue, moved, outcome>>
      PROVE  IInv'
  <2>1. ReceiptTimeout \in 0..LOCK_TTL
    BY DEF ReceiptTimeout, LOCK_TTL
  <2>2. inFlight' \in SUBSET Task /\ moved' \in SUBSET Task
    BY <1>2 DEF IInv, SettleTypeOK
  <2> QED
    BY <1>1, <1>2, <2>1, <2>2, WorkStep DEF AtWork
<1> QED
  BY <1>1, <1>2, ReportStep DEF SubmitRefund

LEMMA RefundReceiptStep ==
  ASSUME IInv, NEW t \in Task, RefundReceipt(t)
  PROVE  IInv'
  BY ReportStep DEF RefundReceipt, TaskAt, AtWork

\* What the chain does is nothing to the lock.
LEMMA ChainStep ==
  ASSUME IInv, NEW t \in Task, SubmitSettlement(t) \/ Mine(t)
  PROVE  IInv'
<1>1. /\ UNCHANGED <<redis, task, lock, queue, outcome>>
      /\ inFlight' \in SUBSET Task /\ moved' \in SUBSET Task
  BY DEF SubmitSettlement, Mine, IInv, SettleTypeOK
<1> QED
  BY <1>1 DEF IInv, SettleTypeOK, LockIsHeld, HeadIsInside, LockInUse, ClockStarts,
              ReportsAtEnd, Inside, TaskAt

\* The clock of every call in the lock and the TTL of the key run together.
LEMMA TickStep ==
  ASSUME IInv, Tick
  PROVE  IInv'
<1>1. \A t \in Task :
         /\ task'[t] = [task[t] EXCEPT
                          !.left = IF Timed(t) THEN task[t].left - 1 ELSE 0,
                          !.held = IF Inside(t) /\ task[t].held < LOCK_TTL
                                   THEN task[t].held + 1 ELSE task[t].held]
         /\ task[t] \in TaskLocals
         /\ Timed(t) => task[t].left > 0
  BY DEF Tick, IInv, SettleTypeOK
<1>2. \A t \in Task :
         /\ task'[t] \in TaskLocals
         /\ task'[t].pc = task[t].pc /\ task'[t].kind = task[t].kind
         /\ task'[t].held = IF Inside(t) /\ task[t].held < LOCK_TTL
                            THEN task[t].held + 1 ELSE task[t].held
  <2> TAKE t \in Task
  <2> DEFINE left == IF Timed(t) THEN task[t].left - 1 ELSE 0
             held == IF Inside(t) /\ task[t].held < LOCK_TTL THEN task[t].held + 1
                                                            ELSE task[t].held
  <2>1. task[t] \in TaskLocals /\ task'[t] = [task[t] EXCEPT !.left = left, !.held = held]
    BY <1>1
  <2>2. task[t].left \in 0..LOCK_TTL /\ task[t].held \in 0..LOCK_TTL
    BY <2>1 DEF TaskLocals, Held
  <2>3. left \in 0..LOCK_TTL /\ held \in Held
    <3>1. Timed(t) => task[t].left > 0
      BY <1>1
    <3>2. left \in 0..LOCK_TTL
      BY <2>2, <3>1 DEF Timed, LOCK_TTL
    <3>3. held \in Held
      BY <2>2 DEF Inside, LOCK_TTL, Held
    <3> QED
      BY <3>2, <3>3
  <2> HIDE DEF left, held
  <2>4. /\ task'[t] \in TaskLocals
        /\ task'[t].pc = task[t].pc /\ task'[t].kind = task[t].kind /\ task'[t].held = held
    BY <2>1, <2>3 DEF TaskLocals
  <2> QED
    BY <2>4 DEF held
<1>3. /\ task' \in [Task -> TaskLocals]
      /\ UNCHANGED <<redis, queue, inFlight, moved, outcome>>
      /\ lock' = IF lock.ttl > 1 THEN [lock EXCEPT !.ttl = lock.ttl - 1]
                                 ELSE [holder |-> NoTask, ttl |-> 0]
  BY <1>2 DEF Tick
<1>4. \A t \in Task : Inside(t)' <=> Inside(t)
  BY <1>2 DEF Inside
<1>5. lock \in [holder : Task \cup {NoTask}, ttl : 0..LOCK_TTL]
  BY DEF IInv, SettleTypeOK
<1>6. SettleTypeOK'
  BY <1>3, <1>5 DEF IInv, SettleTypeOK, LOCK_TTL
<1>7. LockIsHeld'
  <2>1. lock'.holder # NoTask => lock'.ttl > 0
    BY <1>3, <1>5 DEF LOCK_TTL
  <2>2. ASSUME redis, NEW t \in Task, Inside(t), task'[t].held < LOCK_TTL
        PROVE  lock'.holder = t /\ lock'.ttl + task'[t].held = LOCK_TTL
    <3>1. task[t].held \in 0..4 /\ lock.ttl \in 0..4
      BY <1>1, <1>5 DEF TaskLocals, Held, LOCK_TTL
    <3>2. task[t].held < LOCK_TTL /\ task'[t].held = task[t].held + 1
      BY <1>2, <2>2, <3>1 DEF LOCK_TTL
    <3>3. lock.holder = t /\ lock.ttl + task[t].held = LOCK_TTL
      BY <2>2, <3>2 DEF IInv, LockIsHeld
    <3>4. lock.ttl > 1
      BY <2>2, <3>1, <3>2, <3>3 DEF LOCK_TTL
    <3> QED
      BY <1>3, <1>5, <3>1, <3>2, <3>3, <3>4 DEF LOCK_TTL
  <2> QED
    BY <1>3, <1>4, <2>1, <2>2 DEF LockIsHeld
<1>8. HeadIsInside'
  BY <1>3, <1>4 DEF IInv, HeadIsInside
<1>9. ClockStarts' /\ ReportsAtEnd' /\ LockInUse'
  BY <1>2, <1>3 DEF IInv, ClockStarts, ReportsAtEnd, LockInUse, TaskAt, Inside
<1> QED
  BY <1>6, <1>7, <1>8, <1>9 DEF IInv

LEMMA StepHolds == IInv /\ [SettleNext]_settleVars => IInv'
<1> SUFFICES ASSUME IInv, [SettleNext]_settleVars PROVE IInv'
  OBVIOUS
<1>1. ASSUME NEW t \in Task, TaskStep(t) PROVE IInv'
  BY <1>1, AcquireLockStep, LockRefusedStep, TakeTurnStep, ReleaseLockStep, VerifyPaymentStep,
     SettlementAnsweredStep, SubmitRefundStep, RefundReceiptStep
  DEF TaskStep
<1>2. CASE UNCHANGED settleVars
  BY <1>2 DEF settleVars, IInv, SettleTypeOK, LockIsHeld, HeadIsInside, LockInUse, ClockStarts,
              ReportsAtEnd, Inside, TaskAt
<1> QED
  BY <1>1, <1>2, CallSettleStep, ChainStep, TickStep DEF SettleNext

-----------------------------------------------------------------------------
\* The types of the calls, the lock and the queue (gas-wallet-lock.ts).
THEOREM SettlementTypeCorrect == SettleSpec => []SettleTypeOK
<1>1. IInv => SettleTypeOK
  BY DEF IInv
<1> QED
  BY <1>1, InitHolds, StepHolds, PTL DEF SettleSpec

\* withGasWalletLock lets two calls overlap only after one has overrun the TTL of
\* the Redis lock, for any number of calls in any number of processes.
THEOREM LockExcludes == SettleSpec => []OverlapOnlyAfterTTL
<1>1. IInv => OverlapOnlyAfterTTL
  <2> SUFFICES ASSUME IInv, NEW s \in Task, NEW t \in Task, s # t, Inside(s), Inside(t)
               PROVE  redis /\ LOCK_TTL \in {task[s].held, task[t].held}
    BY DEF OverlapOnlyAfterTTL
  <2>1. redis
    BY DEF IInv, HeadIsInside
  <2>2. task[s].held \in 0..LOCK_TTL /\ task[t].held \in 0..LOCK_TTL
    BY DEF IInv, SettleTypeOK, TaskLocals, Held
  <2> QED
    BY <2>1, <2>2 DEF IInv, LockIsHeld, LOCK_TTL
<1> QED
  BY <1>1, InitHolds, StepHolds, PTL DEF SettleSpec

\* The token compare of the release script: no call ends the lock of another.
THEOREM LockIsKept == SettleSpec => LockIsTakenFromNobody
<1> DEFINE Kept == \A t \in Task : lock.holder = t /\ lock'.holder # t
                                      => TaskAt(t, "release") \/ lock.ttl = 1
<1>1. IInv /\ [SettleNext]_settleVars => [Kept]_settleVars
  <2> SUFFICES ASSUME IInv, SettleNext, NEW t \in Task, lock.holder = t, lock'.holder # t
               PROVE  TaskAt(t, "release") \/ lock.ttl = 1
    OBVIOUS
  <2>1. t # NoTask /\ lock' # lock
    BY TaskAssumption
  <2>2. CASE Tick
    <3>1. lock \in [holder : Task \cup {NoTask}, ttl : 0..LOCK_TTL] /\ lock.ttl > 0
      BY <2>1 DEF IInv, SettleTypeOK, LockIsHeld
    <3>2. lock.ttl > 1 => lock'.holder = lock.holder
      BY <2>2, <3>1 DEF Tick
    <3> QED
      BY <3>1, <3>2 DEF LOCK_TTL
  <2>3. ASSUME NEW s \in Task, ReleaseLock(s) PROVE TaskAt(t, "release")
    BY <2>1, <2>3 DEF ReleaseLock
  <2>4. ASSUME NEW s \in Task, AcquireLock(s) PROVE FALSE
    BY <2>1, <2>4 DEF AcquireLock
  <2>5. ASSUME NEW s \in Task,
               \/ CallSettle(s) \/ LockRefused(s) \/ TakeTurn(s) \/ VerifyPayment(s)
               \/ SettlementAnswered(s) \/ SubmitRefund(s) \/ RefundReceipt(s)
               \/ SubmitSettlement(s) \/ Mine(s)
        PROVE  FALSE
    BY <2>1, <2>5 DEF CallSettle, LockRefused, TakeTurn, VerifyPayment, SettlementAnswered,
                      RetrySettlement, SubmitRefund, RefundReceipt, SubmitSettlement, Mine, Report
  <2> QED
    BY <2>2, <2>3, <2>4, <2>5 DEF SettleNext, TaskStep
<1>2. LockIsTakenFromNobody <=> [][Kept]_settleVars
  BY DEF LockIsTakenFromNobody
<1> HIDE DEF Kept
<1> QED
  BY <1>1, <1>2, InitHolds, StepHolds, PTL DEF SettleSpec

\* settlePayment does what the engine takes it for: it reports once, success
\* only for USDC that has moved, and an authorization moves it once.
THEOREM SettlementImplementsOnce == SettleSpec => KeepsSettleOnce
<1>1. SettleInit => Once!Init
  BY DEF SettleInit, Once!Init
<1>2. IInv /\ [SettleNext]_settleVars => [Once!Next]_<<moved, outcome>>
  <2> SUFFICES ASSUME IInv, SettleNext, ~ UNCHANGED <<moved, outcome>>
               PROVE  Once!Next
    BY DEF settleVars
  <2>1. ASSUME NEW t \in Task, NEW result \in {"settled", "failed"}, Report(t, result),
               outcome[t] = "none", result = "settled" => t \in moved
        PROVE  Once!Next
    BY <2>1 DEF Report, Once!Next, Once!Report
  <2>2. ASSUME NEW t \in Task, task[t].pc \notin {"release", "done"}
        PROVE  outcome[t] = "none"
    BY <2>2 DEF IInv, ReportsAtEnd
  <2>3. ASSUME NEW t \in Task, LockRefused(t) PROVE Once!Next
    <3>1. outcome[t] = "none"
      BY <2>2, <2>3 DEF LockRefused, TaskAt
    <3> QED
      BY <2>3, <3>1 DEF LockRefused, Once!Next, Once!Report
  <2>4. ASSUME NEW t \in Task,
               VerifyPayment(t) \/ SettlementAnswered(t) \/ SubmitRefund(t) \/ RefundReceipt(t)
        PROVE  Once!Next
    <3>1. outcome[t] = "none"
      BY <2>2, <2>4 DEF VerifyPayment, SettlementAnswered, SubmitRefund, RefundReceipt, TaskAt
    <3>2. PICK result \in {"settled", "failed"} :
             Report(t, result) /\ (result = "settled" => t \in moved)
      BY <2>4 DEF VerifyPayment, SettlementAnswered, SubmitRefund, RefundReceipt, RetrySettlement
    <3> QED
      BY <2>1, <3>1, <3>2
  <2>5. ASSUME NEW t \in Task, Mine(t) PROVE Once!Next
    BY <2>5 DEF Mine, Once!Next, Once!Move
  <2>6. ASSUME NEW t \in Task,
               \/ CallSettle(t) \/ AcquireLock(t) \/ TakeTurn(t) \/ ReleaseLock(t)
               \/ SubmitSettlement(t)
        PROVE  FALSE
    BY <2>6 DEF CallSettle, AcquireLock, TakeTurn, ReleaseLock, SubmitSettlement
  <2>7. ~ Tick
    BY DEF Tick
  <2> QED
    BY <2>3, <2>4, <2>5, <2>6, <2>7 DEF SettleNext, TaskStep
<1> QED
  BY <1>1, <1>2, InitHolds, StepHolds, PTL DEF SettleSpec, KeepsSettleOnce, Once!Spec
=============================================================================

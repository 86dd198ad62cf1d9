----------------------------- MODULE Settlement -----------------------------
(***************************************************************************)
(* What happens inside settlePayment and sendUsdc: the gas wallet lock     *)
(* (src/utils/gas-wallet-lock.ts), the settlement through the gas wallet   *)
(* or the facilitator with its timeouts and retries                        *)
(* (src/integrations/settlement.ts) and the refund transfer                *)
(* (src/adapter/send-usdc.ts). A member of Task is one call of one of      *)
(* them, by any process that shares the gas wallet.                        *)
(*                                                                         *)
(* Time runs in ticks of 30 s, the greatest common divisor of the timeouts *)
(* in the code; the pauses of a second or two between attempts are left    *)
(* out. A timer that has run down fires before time goes on.               *)
(***************************************************************************)
EXTENDS Integers, Sequences

CONSTANTS Task, NoTask

ASSUME TaskAssumption == NoTask \notin Task

LOCK_TTL == 4               \* LOCK_TTL_MS, 120 s
LockWait == 1               \* maxWaitMs, 30 s
VerifyTimeout == 1          \* 30 s, wallet and facilitator
ReceiptTimeout == 4         \* 120 s, the receipt of a refund
RpcTimeout == 1             \* external: how long the submission of a refund may take
MaxSettleAttempts == 3      \* MAX_SETTLE_ATTEMPTS; 1 + maxRetries of the facilitator

VARIABLES
    redis,      \* whether config.redis is set, or the in-process queue serialises
    task,       \* the locals of each call
    lock,       \* the Redis key: the holder's token and the time it has left
    queue,      \* gasWalletQueues: the calls chained in this process
    inFlight,   \* calls with a transaction sent and not mined
    moved,      \* calls whose authorization has moved USDC
    outcome     \* what each call reported

settleVars == <<redis, task, lock, queue, inFlight, moved, outcome>>

Kind == {"wallet", "facilitator", "refund"}

Await == {"idle", "wait", "queued", "verify", "settle", "send", "receipt",
          "release", "done"}

Held == 0..LOCK_TTL     \* counted no further than the TTL

TaskLocals == [kind    : Kind,
               pc      : Await,
               attempt : 1..MaxSettleAttempts,
               left    : 0..LOCK_TTL,   \* of the timer of the current await
               held    : Held]          \* since the call entered the lock

SettleTypeOK ==
    /\ redis \in BOOLEAN
    /\ task \in [Task -> TaskLocals]
    /\ lock \in [holder : Task \cup {NoTask}, ttl : 0..LOCK_TTL]
    /\ queue \in Seq(Task)
    /\ inFlight \in SUBSET Task
    /\ moved \in SUBSET Task
    /\ outcome \in [Task -> {"none", "settled", "failed"}]

SettleInit ==
    /\ redis \in BOOLEAN
    /\ task \in [Task -> [kind : Kind, pc : {"idle"}, attempt : {1}, left : {0}, held : {0}]]
    /\ lock = [holder |-> NoTask, ttl |-> 0]
    /\ queue = << >>
    /\ inFlight = {}
    /\ moved = {}
    /\ outcome = [t \in Task |-> "none"]

TaskAt(t, pc) == task[t].pc = pc

\* A step to pc with a timer of so many ticks.
TaskGoto(t, pc, ticks) == task' = [task EXCEPT ![t].pc = pc, ![t].left = ticks]

\* Calls that run fn: between entering the lock and asking for its release.
Inside(t) == task[t].pc \in {"verify", "settle", "send", "receipt", "release"}
                /\ task[t].kind # "facilitator"

-----------------------------------------------------------------------------
\* withGasWalletLock.

\* settlePayment, or the broadcast of a refund.
CallSettle(t) ==
    /\ TaskAt(t, "idle")
    /\ \/ /\ task[t].kind = "facilitator"
          /\ TaskGoto(t, "verify", VerifyTimeout)
          /\ UNCHANGED queue
       \/ /\ task[t].kind # "facilitator" /\ redis
          /\ TaskGoto(t, "wait", LockWait)
          /\ UNCHANGED queue
       \/ /\ task[t].kind # "facilitator" /\ ~ redis
          /\ TaskGoto(t, "queued", 0)
          /\ queue' = Append(queue, t)
    /\ UNCHANGED <<redis, lock, inFlight, moved, outcome>>

\* fn begins: a settlement verifies, a refund is submitted.
RunLocked(t) ==
    IF task[t].kind = "refund" THEN TaskGoto(t, "send", RpcTimeout)
                               ELSE TaskGoto(t, "verify", VerifyTimeout)

\* Mutated form of AcquireLock: SET without NX.
AcquireTaken(t) ==
    /\ TaskAt(t, "wait") /\ task[t].left > 0
    /\ lock' = [holder |-> t, ttl |-> LOCK_TTL]
    /\ RunLocked(t)
    /\ UNCHANGED <<redis, queue, inFlight, moved, outcome>>

\* acquireRedisLock: SET NX PX, polled until the deadline.
AcquireLock(t) ==
    /\ TaskAt(t, "wait") /\ task[t].left > 0
    /\ lock.holder = NoTask
    /\ lock' = [holder |-> t, ttl |-> LOCK_TTL]
    /\ RunLocked(t)
    /\ UNCHANGED <<redis, queue, inFlight, moved, outcome>>

\* The deadline has passed: 503, with fn never run.
LockRefused(t) ==
    /\ TaskAt(t, "wait") /\ task[t].left = 0
    /\ TaskGoto(t, "done", 0)
    /\ outcome' = [outcome EXCEPT ![t] = "failed"]
    /\ UNCHANGED <<redis, lock, queue, inFlight, moved>>

\* The promise chain of this process: the calls run in the order they came.
TakeTurn(t) ==
    /\ TaskAt(t, "queued")
    /\ queue # << >> /\ Head(queue) = t
    /\ RunLocked(t)
    /\ UNCHANGED <<redis, lock, queue, inFlight, moved, outcome>>

\* Mutated form of ReleaseLock: DEL without the compare of the token.
ReleaseAny(t) ==
    /\ TaskAt(t, "release")
    /\ lock' = [holder |-> NoTask, ttl |-> 0]
    /\ queue' = IF redis THEN queue ELSE Tail(queue)
    /\ TaskGoto(t, "done", 0)
    /\ UNCHANGED <<redis, inFlight, moved, outcome>>

\* Mutated form of ReleaseLock: the chain goes on only after a success.
ReleaseIfSettled(t) ==
    /\ TaskAt(t, "release")
    /\ redis \/ outcome[t] = "settled"
    /\ lock' = IF lock.holder = t THEN [holder |-> NoTask, ttl |-> 0] ELSE lock
    /\ queue' = IF redis THEN queue ELSE Tail(queue)
    /\ TaskGoto(t, "done", 0)
    /\ UNCHANGED <<redis, inFlight, moved, outcome>>

\* The key is deleted if it still holds the token of this call; a release that
\* throws is swallowed and leaves the key to its TTL. In one process the next
\* call of the chain has its turn, whether this one failed or not.
ReleaseLock(t) ==
    /\ TaskAt(t, "release")
    /\ \/ redis /\ lock.holder = t /\ lock' = [holder |-> NoTask, ttl |-> 0]
       \/ UNCHANGED lock
    /\ queue' = IF redis THEN queue ELSE Tail(queue)
    /\ TaskGoto(t, "done", 0)
    /\ UNCHANGED <<redis, inFlight, moved, outcome>>

-----------------------------------------------------------------------------
\* settleViaGasWallet and settleViaFacilitator: verify once, then settle in up
\* to three attempts.

Report(t, result) ==
    /\ TaskGoto(t, IF task[t].kind = "facilitator" THEN "done" ELSE "release", 0)
    /\ outcome' = [outcome EXCEPT ![t] = result]
    /\ UNCHANGED <<redis, lock, queue, inFlight, moved>>

\* 90 s for the wallet, 60 s for the facilitator.
SettleTimeout(t) == IF task[t].kind = "wallet" THEN 3 ELSE 2

\* Not retried, whether it says no, throws or times out.
VerifyPayment(t) ==
    /\ TaskAt(t, "verify")
    /\ \/ /\ TaskGoto(t, "settle", SettleTimeout(t))
          /\ UNCHANGED <<redis, lock, queue, inFlight, moved, outcome>>
       \/ Report(t, "failed")

\* The attempt reaches the chain. An attempt that is given up later goes on.
SubmitSettlement(t) ==
    /\ TaskAt(t, "settle")
    /\ inFlight' = inFlight \cup {t}
    /\ UNCHANGED <<redis, task, lock, queue, moved, outcome>>

\* Mutated form of RetrySettlement: attempts are counted from nought.
RetryOnceMore(t) ==
    /\ TaskAt(t, "settle")
    /\ task[t].attempt <= MaxSettleAttempts
    /\ task' = [task EXCEPT ![t].attempt = @ + 1, ![t].left = SettleTimeout(t)]
    /\ UNCHANGED <<redis, lock, queue, inFlight, moved, outcome>>

RetrySettlement(t) ==
    /\ TaskAt(t, "settle")
    /\ task[t].attempt < MaxSettleAttempts
    /\ task' = [task EXCEPT ![t].attempt = @ + 1, ![t].left = SettleTimeout(t)]
    /\ UNCHANGED <<redis, lock, queue, inFlight, moved, outcome>>

\* Mutated form of SettlementAnswered: shouldRetry is true of the last attempt
\* too, and the code behind the loop reports a settlement that did not happen.
RetryOncePastTheLast(t) ==
    /\ TaskAt(t, "settle")
    /\ \/ (t \in moved \/ task[t].attempt = MaxSettleAttempts) /\ Report(t, "settled")
       \/ RetrySettlement(t)
       \/ task[t].attempt < MaxSettleAttempts /\ Report(t, "failed")

\* An answer, an error or the timer ends the attempt: success, a transient
\* failure that is retried while attempts are left, or a failure that ends the
\* call (a final one, or any on the last attempt).
SettlementAnswered(t) ==
    /\ TaskAt(t, "settle")
    /\ \/ t \in moved /\ Report(t, "settled")
       \/ RetrySettlement(t)
       \/ Report(t, "failed")

-----------------------------------------------------------------------------
\* sendUsdc through the gas wallet: submit, then wait for the receipt.
SubmitRefund(t) ==
    /\ TaskAt(t, "send")
    /\ \/ /\ inFlight' = inFlight \cup {t}
          /\ TaskGoto(t, "receipt", ReceiptTimeout)
          /\ UNCHANGED <<redis, lock, queue, moved, outcome>>
       \/ Report(t, "failed")

RefundReceipt(t) ==
    /\ TaskAt(t, "receipt")
    /\ \/ t \in moved /\ Report(t, "settled")
       \/ (t \notin inFlight \/ task[t].left = 0) /\ Report(t, "failed")

-----------------------------------------------------------------------------
\* The chain includes a transaction, which moves the USDC or reverts, or drops
\* it. The authorization it carries is good for one transfer.
Mine(t) ==
    /\ t \in inFlight
    /\ inFlight' = inFlight \ {t}
    /\ moved' = moved \cup {t} \/ UNCHANGED moved
    /\ UNCHANGED <<redis, task, lock, queue, outcome>>

Timed(t) == task[t].pc \in {"wait", "verify", "settle", "send", "receipt"}

\* 30 s pass.
Tick ==
    /\ \A t \in Task : Timed(t) => task[t].left > 0
    /\ task' = [t \in Task |->
          [task[t] EXCEPT !.left = IF Timed(t) THEN @ - 1 ELSE 0,
                          !.held = IF Inside(t) /\ @ < LOCK_TTL THEN @ + 1 ELSE @]]
    /\ lock' = IF lock.ttl > 1 THEN [lock EXCEPT !.ttl = @ - 1]
                               ELSE [holder |-> NoTask, ttl |-> 0]
    /\ UNCHANGED <<redis, queue, inFlight, moved, outcome>>

\* What a call does by itself once it was made; the chain's answers apart.
TaskStep(t) ==
    \/ AcquireLock(t) \/ LockRefused(t) \/ TakeTurn(t) \/ ReleaseLock(t)
    \/ VerifyPayment(t) \/ SettlementAnswered(t)
    \/ SubmitRefund(t) \/ RefundReceipt(t)

SettleNext ==
    \/ \E t \in Task : CallSettle(t) \/ TaskStep(t) \/ SubmitSettlement(t) \/ Mine(t)
    \/ Tick

SettleSpec == SettleInit /\ [][SettleNext]_settleVars

\* Timers fire, the steps of the lock are taken and time goes on. Nothing is
\* assumed of the chain or the facilitator.
SettleFairness ==
    /\ \A t \in Task : WF_settleVars(task[t].left = 0 /\ TaskStep(t))
    /\ WF_settleVars(Tick)

-----------------------------------------------------------------------------
\* Two calls are in the gas wallet lock at one time only if it is the Redis
\* lock and one of them has been in it for the whole TTL: the exact limit of
\* the serialisation the header of gas-wallet-lock.ts promises. (A verification
\* and one attempt fit in the TTL; a retried settlement, or a refund whose
\* receipt is late, does not.)
OverlapOnlyAfterTTL ==
    \A s, t \in Task :
        s # t /\ Inside(s) /\ Inside(t)
            => redis /\ LOCK_TTL \in {task[s].held, task[t].held}

\* A call loses its lock by its own release or by the TTL, never because a call
\* that overran an earlier lock releases late.
LockIsTakenFromNobody ==
    [][\A t \in Task : lock.holder = t /\ lock'.holder # t
                           => TaskAt(t, "release") \/ lock.ttl = 1]_settleVars

\* However many attempts time out and go on unseen, the call keeps to what the
\* engine takes it for.
Once == INSTANCE SettleOnce

KeepsSettleOnce == Once!Spec

\* Every call is answered, if the chain and the facilitator stay silent and if
\* the lock is never released.
CallIsAnswered ==
    \A t \in Task : ~ TaskAt(t, "idle") ~> outcome[t] # "none" /\ TaskAt(t, "done")
=============================================================================

# key0 in TLA+

key0 is a payment gateway: a client asks for access to a resource, gets a
*challenge* (an amount of USDC to pay), pays on chain, and receives a grant. If
the grant cannot be issued, a refund job sends the money back. The gateway runs
in any number of instances that share a store (Redis, or Postgres) and one
chain. What is hard about it is not any single handler but their interleaving:
every handler is a chain of awaits over records that other handlers, other
instances and the refund job change meanwhile, and a transfer on chain cannot be
undone when a later step fails.

This directory holds the specification, its model-checking configurations and
its proofs.

    tlc -config gateway_promise.cfg MCGateway      # one run
    tlapm GatewaySafety.tla                        # one module of proofs

## The system

| Part | Source | State | Operations | Correct when |
|---|---|---|---|---|
| Challenge engine | `src/core/challenge-engine.ts` | none of its own | requestAccess, submitProof, cancelChallenge, preSettlementCheck, processHttpPayment; recordPerRequestPayment, markDelivered, assertPaidState, initiateRefund | one transfer buys at most one grant; a failed call leaves a record that is refunded; a grant given is not refunded |
| Challenge store | `src/core/storage/redis.ts`, `postgres.ts` | records, requestId index, sorted set of PAID records, audit list | create, transition (compare-and-swap on the state), findActiveByRequestId, findPendingForRefund | the sorted set holds every payment still owed; the CAS admits one winner |
| Seen-transaction store | same files | txHash -> challengeId | get, markUsed (SET NX) | first claim wins |
| Refund job | `src/core/refund.ts` | locals of a run | processRefunds, retryFailedRefunds | one refund per payment, to its payer, eventually |
| Settlement | `src/integrations/settlement.ts` | none | settlePayment through a facilitator or a gas wallet | reports the transfer it made |
| Gas wallet lock | `src/utils/gas-wallet-lock.ts` | one key with a TTL, or a promise queue | withGasWalletLock | one wallet transaction at a time |
| Chain adapter | `src/adapter/` | none | verifyProof, sendUsdc | accepts only a real, sufficient, timely transfer |
| HTTP gateways | `src/integrations/express.ts`, `hono.ts`, `fastify.ts` | none | discovery, challenge, payment; route flow with a proxied backend | settle only what can still be used |
| Pay-per-request | `src/integrations/pay-per-request.ts` | none | settle, mark, record, proxy, deliver | a failed response leaves a refundable record |
| MCP server, A2A executor | `src/integrations/mcp.ts`, `src/executor.ts` | none | access tools, message handling | as HTTP |
| Token issuance | `issueTokenWithRetry`, `src/core/access-token.ts` | none | issue with attempts and a timeout | one credential per payment |
| Outgoing auth | `src/helpers/auth.ts` | cached OAuth token | token for a backend call | a cached token does not expire while it is used |
| Standalone server | `docker/server.ts`, `docker/entrypoint.sh` | settings file, environment of its shell, repeatable job | setup and gateway mode, restart after a save, refund timer | what was saved is served; the refund job is scheduled |
| Validator, config, catalog, agent card, CLI, UI | `src/validator`, `src/core`, `src/integrations/cli*.ts`, `ui/` | none that changes | pure checks and formatting | |

The parts meet in three places. The *store* is shared by every handler and run
of every instance, and its compare-and-swap is the only synchronisation between
them. The *seen-transaction keys* join challenges that were paid with the same
transfer. The *chain* is written by clients, by settlement and by the refund job
and read by verification; nothing on it can be taken back.

What is hard to test, and what the properties are for (PROJECT.json lists each
at its line): the awaits between PAID, markUsed, the grant and DELIVERED, at any
of which the call may stop; two calls on one record; two records with one
transfer; the refund job working from a batch that is no longer true; a
broadcast whose receipt is late; a settlement that succeeds after the request it
was for is over; a sorted set that must follow every transition; a backend that
fails after its response was paid; a lock whose holder outlives its TTL; keys
that expire at different times; settings that survive one kind of restart and
not another.

## Modules

| Module | Models | |
|---|---|---|
| `ChallengeStore` | `core/storage/redis.ts` | records, index, sorted set, seen keys; the clock |
| `ChallengeEngine` | `core/challenge-engine.ts`, the payment flow of plans | one action per await of a call |
| `RefundCron` | `core/refund.ts` | one action per await of a run |
| `PaymentPromise` | nothing in particular: the abstract specification | what is promised about one transfer |
| `Gateway` | the composition for plans | Next, fairness, properties, refinement |
| `RouteFlow` | the route branch of `express.ts`, `hono.ts`, `fastify.ts` | calls that buy one response of the backend |
| `PayPerRequest` | `integrations/pay-per-request.ts` | the middleware, mounted by the seller or by the gateway |
| `AgentRoutes` | `integrations/mcp.ts`, `executor.ts`; recordPerRequestPayment, assertPaidState, initiateRefund | routes bought by agents |
| `RouteGateway` | the composition of all calls, in each deployment | Next, refinement of `PaymentPromise` |
| `Settlement` | `utils/gas-wallet-lock.ts`, `integrations/settlement.ts`, `adapter/send-usdc.ts` | the lock, attempts, timeouts, in ticks of 30 s |
| `SettleOnce` | the abstract specification of a settlement | what the engine takes for one step |
| `VerifyTransfer` | `adapter/verify-transfer.ts`, `adapter.ts` | how a transaction is judged |
| `AuditTrail` | `types/storage.ts` | what a history has to say, for both stores |
| `RedisKeys` | `core/storage/redis.ts` | the keys of one challenge, command by command, with their TTLs |
| `PostgresRows` | `core/storage/postgres.ts` | rows, audit rows, seen_txs, cleanup |
| `TokenIssuance` | issueTokenWithRetry, `helpers/remote.ts`, `helpers/docker-token-issuer.ts` | attempts that are given up and go on |
| `OAuthCache` | `helpers/auth.ts` | one cached token, overlapping refreshes |
| `StandaloneSetup` | `docker/server.ts`, `docker/entrypoint.sh` | saved settings over restarts |
| `RefundSchedule` | `docker/server.ts` | the repeatable job that replicas share |
| `MCGateway`, `MCRouteGateway`, `MCInfrastructure` | - | model values, symmetry, deployments, the sum of the parts |
| `DocumentedClaims`, `RouteClaims` | - | statements of the docs and comments the code does not keep |
| `EngineProofs` | - | lemmas on the steps of calls, runs and the clock, for both compositions |
| `GatewaySafety`, `GatewayRefinement` | - | the theorems about `Gateway` |
| `RouteProofs`, `RouteRefinement` | - | the theorems about `RouteGateway` |
| `SettlementProofs`, `StoreProofs`, `InfrastructureProofs` | - | the theorems about the parts |

`Gateway` and `RouteGateway` are two compositions of the same store, engine and
refund job. `Gateway` is small enough for every fault, for liveness and for
proofs; `RouteGateway` adds the paid routes and says which framework makes which
call. The modules below them share no state with them: each answers a question
that the gateway models take for granted (that a settlement is one step, that a
key is there, that a token is fresh).

### Correspondence with the code

*Records.* A record keeps the fields the protocol depends on: `state`,
`requestId`, `txHash`, `fromAddress`, `accessGrant`. Amounts, plans and texts
play no part in the order of steps. A transaction hash stands for one transfer,
and each transfer has a sender of its own; so `fromAddress` is the transfer
whose sender it is, and a refund "to the payer" can be told from one to somebody
else. `accessGrant` is the transfer the grant was issued for. The two dates the
code compares with the clock are the Booleans `lapsed` (expiresAt has passed)
and `aged` (paidAt is at least minAgeMs ago), set by `ChallengeLapses` and
`PaymentAges`.

*The store.* `Transition` and `TransitionRefused` are the two outcomes of the
Lua script: compare the state, write state and fields, maintain the sorted set
(`PaidSetAfter`), all in one step. The set is maintained as the script does it
and not as one would wish: only a transition that carries `paidAt` adds a
member, every other one from PAID removes it, the grant write (PAID -> PAID)
included. `ActiveRecord` returns what the index names in any state, as
`findActiveByRequestId` does.

*Calls.* A member of `Handler` is an in-flight call and `handler[h].pc` the
await it performs next:

    access   idle -> create -> idle
    proof    idle -> seen -> verify -> pay -> mark -> issue -> persist -> deliver -> idle
             idle -> expire -> idle
    http     idle -> settle -> seen -> find -> (create ->) pay -> mark -> ... as proof
    agent    as http, without the check before settle (MCP, A2A)
    cancel   idle -> cancel -> idle
    a lost claim:  mark -> rollback -> idle

The first action of a call does the lookup and the checks on what it returned.
Nothing else is atomic: `handler` keeps what the call read, not what is true now.
Error returns are a step to idle; which error the client gets is left out.
`served[t]` records the challenges whose client was handed a grant for `t`;
`settled` the transfers on chain. Both are observations of the world outside.

*Refund runs.* A run reads a batch (`FetchBatch`), then for each record claims
it (PAID -> REFUND_PENDING), sends, and writes REFUNDED or REFUND_FAILED. It
sends to the address in the record it *read*, as the code does. The batch is
read in one step although the code reads record by record; since each record is
claimed by a compare-and-swap later, a batch read over some time differs only in
what could have been claimed anyway. `RequeueFailed` is retryFailedRefunds for
one record. Records without a payer are never fetched.

*Route calls.* A member of `RouteCall` is an in-flight call for a route, of one
of five kinds. Their order of steps differs, and is kept:

    access (HTTP)   idle -> settle -> mark -> (pay ->) fetch -> deliver -> idle
                    idle -> create -> idle
    ppr, auto       idle -> settle -> mark -> (create -> pay ->) fetch -> deliver -> idle
    mcp             idle -> settle -> record -> find -> (create ->) pay -> mark
                         -> assert -> fetch -> deliver | refund -> idle
    a2a             as mcp without assert; a failed backend ends the call

`deployment` is a configuration: the framework, how the backend is named, and
whether the middleware has a store. It is chosen at the start and never changes.
The three HTTP frameworks hold a copy each of the same handler; the copies were
compared line by line and take the same steps at this grain, so the actions
`ExpressPayment`, `HonoPayment` and so on are one definition under three guards.
`provided[t]` counts the responses a transfer bought.

*Settlement.* A member of `Task` is a call of settlePayment or sendUsdc, in any
process that shares the gas wallet. Time runs in ticks of 30 s, the greatest
common divisor of the timeouts; a timer that has run down fires before time goes
on, so that a step is late only by what its timeout allows. `moved` is what the
chain did; an attempt that was given up goes on there.

*Lifetimes.* `RedisKeys` counts the TTL of each key; time passes for all keys at
once (`KeysAge`), wherever the clients are; only within the one write of the
create pipeline it does not. The two EXPIREs after a script to DELIVERED come at
any later time or, if the process dies or one throws, not at all
(`ClientFails`). markUsed comes where each flow calls it (`MayClaim`): in front
of create in the per-request flow, with a PENDING record in the route flow,
with a PAID one in the engine. `late` is the time a record was created after its
claim. The lifetimes of records are settings that nothing compares with the
seven days of a claim, so the order of these two is not assumed.

*The OAuth cache.* A tick is 10 s, the abort of a token request without headers
and the time a backend needs to look at a token. The timer is cleared when the
headers are there (`HeadersArrive`); the body takes any time (`reading`).

*Standalone server.* `file` is `.env.runtime`, `shell` the environment of the
entrypoint's loop. The loop sources the file into the shell it runs in and unsets
nothing, so the two differ after every save; `ContainerRestarts` is what ends the
shell, in any mode. Of the settings the three are kept that a gateway with plans
needs, and the container may have been given any of them. A request to save goes
through `writeFile` in the steps the runtime makes of it: truncate (`OpenFile`),
write (`WritePart`, `WriteAll`), answer (`Acknowledge`). In between come other
requests, errors, the exit(42) of an earlier save (`ExitForRestart`) and the end
of the container. `file` has the lines that are there and whether sourcing them
yields what they say: not so for an unfinished line, two writers over each other, or a
value that is no plain word of the shell. `saved` and `disturbed` are history:
the form acknowledged last, and whether the file has been opened since or was
written by two.

### Faults

`Faults` says what may go wrong, so that a run can say under which faults its
properties hold. `handler_lost`: a call stops at any await (process death, or a
store call that throws), except in the window between the PAID write and the
end of the txHash claim, which is `mark_lost`. `slow_handler`: a call still
runs when minAgeMs (5 minutes by default) has passed since its payment.
`payer_unknown`: settlement or verification names no payer. `receipt_timeout`:
a refund is broadcast and reported as failed. `confirm_error`: the write that
ends a refund throws; it is taken as not applied (had it been, the record is
already REFUNDED and the REFUND_FAILED write is refused). `cron_lost`: a run
stops half-way. The theorems of `GatewaySafety` hold for every set of faults, those of
`GatewayRefinement` say which faults they exclude: `GrantNeverRefunded` needs
that there is no `slow_handler`, `RefundReachesPayer` that there is also no
`payer_unknown`, and `KeepsPromise` that there is nothing but `handler_lost` and
`cron_lost`.

Route calls have two faults of their own. `call_lost`: a call stops, or throws,
before the backend has answered. `delivery_lost`: the client has its response and
DELIVERED is not written; the record then stays PAID and is refunded, so
`RouteKeepsPromise` is checked and proved without it, and under `handler_lost`
and `cron_lost` only of the others. (The handlers write DELIVERED without waiting
for it and drop its errors.)

The other modules have their faults built in: timers that fire at any time an
answer may also come, transactions that are dropped, releases of the lock that
throw, answers of the database that are lost after the write (`PgMarkUsed`),
connections that break, clients of Redis that die between two commands, token
responses whose body does not come, writes of the settings file that fail, are cut
or overlap, replicas and containers that die at any step.

## Properties

* `KeepsPromise`: the gateway implements `PaymentPromise`: a transfer is unpaid,
  then paid, then served or refunded, never both and never twice. The mapping
  (`Outcome`) reads the state of a transfer off `settled`, `served` and
  `payouts`. It holds under `handler_lost` and `cron_lost` and fails under each
  of the five other faults alone; that is the exact statement of what the
  protocol tolerates.
* `GrantOwnsTx`: no two challenges store a grant for one transfer.
* `OneServerPerChallenge`: between PAID and the end of the call, one call has the
  record.
* `DeliveredOnce`: a transfer is handed a grant for one challenge, and a challenge
  is delivered for one transfer. `GrantOwnsTx` is about the grants that are
  stored; this is about those that clients were given, also by a call that could
  not store its grant because a refund had claimed the record.
* `PaidSetComplete`: the refund scan misses no unserved payment.
* `BackedByTransfer`: nothing is granted or refunded that was not paid.
* `GrantNeverRefunded`: no record with a stored grant is claimed for a refund.
* `OneRefundRunPerChallenge`, `RefundReachesPayer`: the refund job.
* `UnservedPaymentIsClaimed`, `ClaimedRefundIsDecided`: liveness.

Paid routes (`RouteGateway`):

* `RouteKeepsPromise`: `PaymentPromise` again, for every way to use the gateway
  and any order of them: a transfer buys one grant or one response or is
  refunded once, and only one of these.
* `OnePurchase`: a transfer buys one grant or one response. It holds under every
  fault: those that break the promise let a transfer be served and paid back, be
  paid back twice or be lost, but never let it buy twice.
* `RoutePaidSetComplete`: every payment that is owed is in the set the refund job
  scans, whoever recorded it. Not in a program that assembles the exported
  classes by hand: there `assertPaidState` takes the record out of the set.
* `PprDeliveredIsProvided`: a payment recorded by the middleware is DELIVERED
  only if that very transfer bought a response. (The same is not true of the
  route flow, see `claim_failed_route_refundable`.)

Under and beside the engine:

* `OverlapOnlyAfterTTL`, `LockIsTakenFromNobody`, `CallIsAnswered`: what the gas
  wallet lock guarantees and what it does not. The header of
  `gas-wallet-lock.ts` says only one transaction is in flight at a time. The lock
  ensures this for 120 s: a verification (30 s) and one attempt (90 s) fit, a
  retried settlement or a refund whose receipt is late does not.
* `KeepsSettleOnce`: the retry loops implement `SettleOnce`.
* `VerdictIsRight`: a proof is accepted exactly for transactions that pay.
* `RedisAuditAccounts`, `PgAuditAccounts`: the history is one walk from the
  creation to the present state.
* `AuditCoversRecord`, `ClaimCoversRecord`, `IndexLeadsToRecord`,
  `GhostIsRemoved`: keys of one challenge that expire at different times. The
  first two say how long a record may be there without its history or its claim,
  because the code lets both happen: a history is there as long as a record that
  was not delivered; a claim ends before such a record by no more than the record
  was created after it, plus what `recordTTLSeconds` exceeds seven days by.
* `PgOwedIsScanned`, `PgGrantOwnsTx`: cleanup takes no payment that is owed out
  of the scan early; a lost answer never makes two winners.
* `NoAttemptBesideAnother`, `IssueEnds`: the retries of token issuance.
* `TokenOutlivesItsUse`: a token from the OAuth cache does not expire while it is
  used, and a fresh one does not if its response was read in time.
* `SavedPlansAreServed`: acknowledged plans over saves and restarts, until the next
  save opens the file.
* `RefundJobIsScheduled`: the timer the replicas share.

### Runs

| Run | Instance | Faults | Shows |
|---|---|---|---|
| `gateway_promise` | 2 challenges, 2 transfers, 2 calls, 2 runs, batch 2, 1 attempt | `handler_lost` | GrantOwnsTx, DeliveredOnce, OneRefundRunPerChallenge, RefundReachesPayer, KeepsPromise, GrantNeverRefunded |
| `gateway_faults` | 2 challenges, 1 transfer, 2 calls, 1 run | all but `payer_unknown` | TypeOK, OneServerPerChallenge, PaidSetComplete, BackedByTransfer, DeliveredOnce |
| `routes` | 2 challenges, 2 transfers, 1 plan call, 2 route calls, 1 run, batch 1, at most 2 calls begun; 5 deployments | `call_lost` | TypeOK, RoutePaidSetComplete, PprDeliveredIsProvided, RouteKeepsPromise |
| `route_faults` | as `routes`, with 1 transfer | all; `call_lost`, `delivery_lost` | OnePurchase |
| `infrastructure` | each part with 2 calls, clients, rows, callers or replicas, see below | built in | the properties of the parts |
| `gateway_live` | 2 challenges, 1 transfer, 1 call, 1 run, batch 2, 2 attempts | `handler_lost`, `mark_lost`, `payer_unknown`, `receipt_timeout` | both liveness properties |

*Bounds.* Two challenges are what a double spend or a duplicate needs; two
transfers are what a roll back followed by another payment needs; two calls are
what any race over a record needs, since the CAS lets through one of however
many; one requestId suffices, because a second one only adds challenges that are
not found by it, and submitProof reaches any challenge without the index. Two
attempts are needed for a retry, batches of two for a batch that goes stale
while its first record is refunded. `gateway_promise` needs all of two calls and two
transfers: a record has to be paid, rolled back and paid by another sender, or
the address a run read could not be wrong. It does without
`cron_lost`: a run that never goes on, while the other does, is among its
behaviours; `gateway_faults` has it. `MaxPayouts` bounds the refunds counted per
payer (2 where a double refund must be visible); `NoChallengeLeft` drops a call
that would need a third challengeId. The runs are exhaustive at these bounds.
Symmetry is used over all identifiers, which the code only compares, and not in
the run with liveness properties.

`routes` begins with nothing stored or with one challenge that was asked for
before, so that both calls it counts may be payments: two payments, of one or of
two transfers, and a refund run are what the properties can be broken by. The
five deployments of `EachDeployment` have each framework, each way to name a
backend, a middleware without a store, and hand-assembled classes.

`route_faults` looks at one transfer alone, since `OnePurchase` relates nothing of
two transfers.

`infrastructure` runs eight parts that share no variable: a behaviour picks one
and leaves the others at their start, so that the states are the sum of the
parts' states and not their product. Settlement: two calls of the kinds that
meet in the gas wallet, with the Redis lock and with the in-process chain, and a
third attempt that outlives the TTL. Redis: two clients, TTLs of 1 (index), 2 (delivered record), 3 (record) and 3
(claim), which keep the order and the equality of the defaults and let each key
expire before and after each other as far as that allows. Postgres: two rows for one transfer, a
history of five, so that a row is paid, rolled back and paid again. Issuance:
three attempts. OAuth: two callers, tokens of 4 ticks, a clock of 8, which is two
generations of tokens. Setup: two requests to save, so that one overlaps or cuts
the other; a container that was given nothing or all of the settings (the proof
has every choice).
Schedule: two replicas with two intervals. Proof: transactions of two events with
values up to the price of 2, which covers none, too little, split, exact and more.

*Deadlock* is checked in the runs of `Gateway`: there is always a step. In
`routes` the number of calls is bounded and in `infrastructure` calls end for
good, so behaviours may stop and the check is off.

*Fairness* (`FairSpec`, for `gateway_live`): a call that has begun goes on,
as an async function whose awaits have timeouts does; the job's timer keeps
firing and a run goes on; the clock reaches minAgeMs. Clients, operators and
faults are under no obligation. Weak fairness is enough: a step that a call or a
run can take stays possible until it is taken. `ClaimedRefundIsDecided` is
checked with lost calls and not with lost runs, because a lost run leaves
REFUND_PENDING for an operator, as a comment of `refund.ts` says. The batch is
large enough for all payments that are due: with a smaller one an operator who
keeps requeueing a refund that keeps failing starves the others (the code would
even prefer the requeued one, whose paidAt is older).

The three liveness properties of `infrastructure` assume less. `SettleFairness`:
timers that have run down fire and time goes on; nothing is assumed of the chain,
the facilitator or a release of the lock. `KeysFairness`: a client that has begun
goes on and scans are repeated. `IssueFairness`: an attempt is started and its
timer fires; the seller may be silent for ever.

### What the documents say and the code does not do

Each of these is a run of `DocumentedClaims` or `RouteClaims` that TLC refutes,
with no fault or with the one named; PROJECT.json quotes the sentences. Three smaller ones can be
seen from single definitions: `findActiveByRequestId` returns records in any
state (`ActiveRecord`), where `types/storage.ts` promises a PENDING and unexpired
one; a roll back keeps txHash and paidAt and the next payment overwrites them
(`RollBack`, `Paid`), where `docs/Refund_flow.md` says fields are written once;
and `retryFailedRefunds` leaves REFUND_FAILED (`RequeueFailed`), which
`state-machine.mdx` calls terminal.

| Run | Stated | What happens |
|---|---|---|
| `claim_single_refund` | refunds cannot double-fire | a receipt that is late makes the run send again (`receipt_timeout`) |
| `claim_one_challenge_per_tx` | one txHash, one challenge | a call lost before markUsed leaves the transfer free for a second challenge (`mark_lost`) |
| `claim_cron_skips_grants` | the job skips records with a grant | it looks when it reads the batch, not when it claims (`slow_handler`) |
| `claim_no_duplicate_challenge` | requestId prevents duplicates | lookup and create are two steps |
| `claim_no_burned_transfer` | nothing is settled for a finished challenge | the check and the settlement are two steps |
| `claim_failed_route_refundable` | a route payment without a 2xx stays refundable | a later payment with the same requestId marks the record of the failed one DELIVERED (`express.ts:365`) |

### What the models show of the code besides

Facts that a definition states and that a reader of the code may want to know.

* In every deployment that createKey0 accepts, an MCP or A2A payment for a route
  fails after its settlement: the id of a route is looked up among the plans
  (`CheckPlanAndTx`). The transfer is in no record.
* `initiateRefund` writes REFUND_PENDING, which no scan picks up (`InitiateRefund`).
* In embedded mode the route flow finds out after the settlement that it has no
  backend (`AfterPayment`); a route the gateway mounts by itself over
  `fetchResource` is never proxied and answers 404 (`Answers`).
* markUsed of Postgres answers false for every error, so a transfer whose insert
  succeeded and whose answer was lost is used up (`PgMarkUsed`).
* A PAID record expires after seven days in Redis and leaves a member of the
  sorted set behind, which the next scan removes; nothing else reports it
  (`RemoveGhost`). The claim of a transfer expires too, and verify-transfer.ts has
  no lower bound on the time of the block.
* A client that dies between the script to DELIVERED and the two EXPIREs leaves
  the record for seven days and its history for twelve hours (`ClientFails`).
* The per-request flow claims a transfer before it creates the record, and both
  live seven days by default: at the end of an undelivered record's life its claim
  is gone for as long as the two calls were apart (`MayClaim`).
* A token response whose body is slow is cached and handed out without a look at
  its age, so that a call may be given a token that has expired (`TokenArrives`).
* A proof whose price comes from several senders is accepted, and a refund goes
  to the first of them, be its share nothing (`AddUp`). A price of $0, which the
  configuration admits, is never met (`ReceiptVerdict`). An error of getBlock is
  not turned into RPC_ERROR (`ReadBlock`); NO_TRANSFER_EVENT is never answered.
* The issuer of the standalone server aborts after 10 s with an error that
  issueTokenWithRetry retries (`DockerAbort`), which it means not to do with
  timeouts (`challenge-engine.ts:86-88`).
* A form with routes and no plans is accepted and the server restarts in setup
  mode (`IsConfigured`). An option that is turned off stays on until the
  container restarts (`SourceSettings`). A save that is cut by the exit of an
  earlier one, fails or overlaps with another takes the acknowledged settings with
  it, as the file is truncated in place (`OpenFile`); values with `&`, `;`, `$` or a
  quote are not what the shell reads back (`WriteAll`). A server
  that starts before its database's name resolves stays in setup mode
  (`StartServer`).
* A replica that dies between the removal and the add leaves no refund job until
  another one starts (`ReplicaEnds`); replicas with different intervals may leave
  two (`AddJob`).

## Proofs

All theorems hold for arbitrary sets of challenges, requests, transfers, calls
and runs and every bound, from `StoreAssumption` (the sentinels are not ids,
Faults is a set of faults), `CronAssumption` (the three numbers are positive)
and, for routes, `RouteAssumption`.

### The gateway

`EngineProofs` is about the actions of `ChallengeEngine`, `RefundCron` and the
clock and about no specification, so that both compositions use it. It says once
what a step can do, and the invariants are then about these few shapes instead
of about every action:

* `TypeInv`: `TypeOK` alone is not inductive, since `CreateChallenge` writes
  `handler[h].requestId` into the index and `PayChallenge` uses
  `handler[h].challenge`, which have to be ids at that point. `CallOK` and
  `RunOK` say which locals of a call and a run are set at which await.
* `EngineWrites`: a step leaves the records alone, makes one, or is one
  transition. `CallShape` says more: it names the awaits between the PAID write
  and the end of a call (`Pays`, `Claims`, `Loses`, `RollsBack`, `Issues`,
  `Stores`, `Delivers`) and puts all other steps under `Aside`. `RunShape` does
  the same for refund runs, `TimePasses` for the clock.

`GatewaySafety`, for every set of faults:

* `TypeCorrect` (`TypeOK`).
* `PaidSetCorrect` (`PaidSetComplete`): inductive given the types, because each
  transition to PAID carries `paidAt` or already has a grant (`PaidRecorded`).
* `RefundRunsExclude` (`OneRefundRunPerChallenge`): strengthened by `ClaimHeld`,
  a run that works on a challenge holds it in REFUND_PENDING, which no other
  step leaves or enters; the claim needs PAID.
* `ServersExclude` (`OneServerPerChallenge`) and `NoDoubleSpend` (`GrantOwnsTx`):
  one invariant, `ServiceInv`. A call between PAID and its end serves a
  challenge that is past PENDING and is alone with it (`ServesPaid`); once it
  has claimed its transfer (`issue`, `persist`, `deliver`) the record's txHash
  and the seen key are its own (`GrantHeld`), so the grant it stores is too. A
  roll back comes only from a call that does not hold its transfer, so no record
  with a grant goes back to PENDING.
* `NoSecondDelivery` (`DeliveredOnce`), from `DeliveryInv`: of each grant that was
  handed out, the record is past PENDING for good and names the transfer, the
  claim of the transfer names the record, and no call serves it any more. The
  record may meanwhile be refunded, requeued and refunded again, which changes its
  state and not its payment (`CallsKeepApart`: only the one call that serves a
  record could change that). So the transfer determines the challenge and the
  challenge the transfer.
* `NothingForNothing` (`BackedByTransfer`): strengthened by where a transfer must
  be on chain already: in a call past verify or settle (`PaidUp`), in the
  fromAddress of a record and in the batch of a run (`PayerPaid`).

`GatewayRefinement` adds what holds while minAgeMs is longer than a call. Its
base is `GraceInv`: a record that a call serves is PAID and not aged
(`FreshWhileServed`), one in a refund state is aged and has no grant
(`RefundedIsOld`), and what a run read of a record, however long ago, is still
true of it (`BatchStillOwed`). Calls and runs therefore never work on the same
record.

* `GrantsAreKept` (`GrantNeverRefunded`): a stored grant stays (`GrantStays`), and
  by `RefundedIsOld` no record in a refund state has one.
* `RefundsReachPayers` (`RefundReachesPayer`): the address in the batch is that in
  the record, and that is the sender of the transfer recorded (`PayerIsSender`).
* `GatewayImplementsPromise` (`KeepsPromise`): `PromiseInv` ties what the world
  saw to the records. A payment past the claim of its hash owns the hash
  (`PaidIsClaimed`), a grant handed out is the one stored (`ServedHasGrant`), and
  a payout belongs to a record that owns the transfer and that nobody refunds
  again (`PayoutsAccountedFor`). So served and paid back exclude each other, and
  `OutcomeStep` shows that each step moves at most one transfer along
  `PaymentPromise`. `PaidIsClaimed` is what `mark_lost` breaks, `GraceInv` what
  `slow_handler` breaks, and `PayoutsAccountedFor` what `receipt_timeout` and
  `confirm_error` break.

### Paid routes

`RouteProofs` is about `Spec` of `RouteGateway`: calls for plans and for routes,
in every deployment, with every set of faults of both kinds. `RouteCallShape` is
the counterpart of `CallShape` for the five kinds of route calls: a step begins
a call (`Begins`), goes on or ends (`GoesOn`), moves the record the call holds
(`WritesOwn`), makes a record (`StoresNew`), finds one (`FindsOld`) or draws an
id for one (`NamesNew`).

* `RouteTypeCorrect` (`TypeOK`): with `RouteCallOK`, the locals of a call by kind
  and await, which is where the five orders of steps differ.
* `RoutePaidSetCorrect` (`RoutePaidSetComplete`): the lemmas on the set of
  `EngineProofs`, and `IdInv` for the deployments where `assertPaidState` is never
  reached (`DeploymentInv`).
* `PprDeliveryIsAnswered` (`PprDeliveredIsProvided`): `IdInv` says that a record
  is either named by a request or the middleware's, that calls only hold records
  of their own sort (`PlansNamed`, `HeldNamed`), and that a record of the
  middleware has one call (`HeldAlone`), which drew its id before the record was
  there (`HeldAbsent`). So nobody else pays it or marks it DELIVERED, and with
  `AnswerInv` (the call that delivers it paid it with its own transfer and has the
  answer) the property is inductive.

`RouteRefinement` proves `RoutesKeepPromise` (`RouteKeepsPromise`). Calls of
different kinds share records: a plan call or an agent's call may find the record
a route call is about to pay, and a payment may be marked DELIVERED by another
call than the one that made it. Six invariants by kind of call would have to be
kept apart, so the proof reads every call through a state function, `view`: the
stage it has reached (`PlanStage`, `RouteStage`), the record it names and the
transfer it carries. The stages differ in what the call owes: *asks* and
*settled* have written nothing; *claims* has a PAID record whose hash is not yet
claimed; *owns* and *granted* have record and hash; *holds* has the hash and a
record that may be another's; *delivers* has answered; *refunds* gives back.
`PlanShape` and `RouteMoves` show, for every set of faults, that each action of
either kind is one of nine moves between stages (`CallerMoves`: it stands by,
pays, marks the hash, gives back, rewrites, hands out a grant, responds, closes,
turns back), or a step that a fault adds which the promise does not tolerate
(`FaultMoves`), and only these are looked at afterwards.

* `CallsInv`: a hash has at most one call in the stages that need it, and names
  its record (`MarkedOnce`); a transfer buys one thing, and a call about to buy
  has a transfer that has bought nothing (`BoughtOnce`); a call that owns a
  record is alone with it, and the record is fresh (`OwnsPaid`); an owed record
  has the claim of its hash unless a call is about to settle that
  (`OwedIsMarked`), and if its transfer has bought something after all, the record
  has a grant or its call is about to write DELIVERED (`BoughtIsKept`); what a
  call that *holds* a hash may find owed for it is its own record
  (`HoldsFresh`).
* `RunsInv`: runs hold their records in REFUND_PENDING alone (`RunsHold`), what
  they read stays true (`BatchesDue`), a payout belongs to a record that no run
  sends for again (`PayoutsDue`).
* `Rests` is all that runs, requeues and the clock may do to a record under the
  eyes of calls, and `RestKeepsCalls` shows that this keeps `CallsInv`; the
  grace period is what makes it so, as a record that a call has in its hands does
  not age (`Unheld`).
* `OutcomeStep` then moves at most one transfer along `PaymentPromise`: a client
  gets something only for a transfer that has bought nothing (`CallOutcome`) and a
  run sends only for one that never will (`SendIsDue`).
* `PurchasesExclude` (`OnePurchase`) takes no more than `MarkedOnce` and
  `BoughtOnce`, which are inductive by themselves: in every kind of call markUsed
  comes before the grant or the response, a call that has marked a transfer is
  the only one, and `FaultMoves` hands out nothing and marks nothing. This is why
  the theorem excludes no fault.

### The parts under it

* `SettlementProofs`, for any number of calls of any kinds. `LockExcludes`
  (`OverlapOnlyAfterTTL`) from `LockIsHeld`: a call that has been in the lock for
  less than the TTL is the key's holder, and the time it has been there and the
  time the key has left add up to the TTL; two such calls would be one holder.
  Without Redis, `HeadIsInside`: the call inside is the head of the chain. The
  same invariant gives `LockIsKept` (`LockIsTakenFromNobody`). `ReportsAtEnd`, a
  call that has reported does nothing more, gives the refinement
  `SettlementImplementsOnce` (`KeepsSettleOnce`): each step is a Move, a Report
  or a stutter of `SettleOnce`.
* `StoreProofs`, Redis, for all lifetimes that keep the order of
  `TTLAssumption` (index, delivered record, record) and any lifetime of a claim:
  `IndexIsNeverStale` and `ClaimGapIsBounded` (`ClaimCoversRecord`) compare
  lifetimes (`LifetimeInv`) instead of saying what is there: the index has never
  more time left than its record, and what the record has more than its claim is
  bounded. `CreationInv` says how far create has come, since the first inequality
  holds only because nobody can shorten a life before the index is written, and how
  old a claim is that came before create.
  `AuditIsKept` (`AuditCoversRecord`) and `RedisHistoryIsWhole`
  (`RedisAuditAccounts`) are proved together (`AuditInv`): as long as
  there is a list each state was entered as often as it was left but for both
  ends of the walk (`AuditTells`, by `TimesAppend`); the beginning of the walk is
  missing until create has logged it, whatever scripts run before that. Postgres:
  `PgOneGrantPerTx` from `WinnerOwnsTx` (who won the claim or has a grant owns
  the row of seen_txs), `PgCleanupSparesOwed` from `DeletedIsOutdated` (what is
  deleted was outdated, and no transition changes it any more).
  `PgHistoryIsWhole` (`PgAuditAccounts`) from `HistoryInv`, since a row and its
  audit row are written in one transaction.
* `InfrastructureProofs`. `AttemptsExclude`, for any number of attempts;
  inductive as it stands, given the types. `TokensAreFresh`, for any number of
  calls and any lifetime above two ticks, from `CacheIsEarly` (expiresAt is never
  later than the real end of the token that is cached, whichever answer came
  last and however late) and the age of each call (`CallerInv`), which is unknown
  while it reads a body. `PlansSurviveRestarts` from three facts: a file that is
  being written by one request belongs to it (`OneWriter`), what that request has
  written is whole until the next one opens the file (`FileIsWhole`), and a shell
  that sourced it since has all of it (`ShellIsFresh`). `JobOutlivesReplicas`, for any
  number of replicas, from `SomeoneWillAdd`: without a job, a replica that is up
  implies one that is about to add it.
  `VerdictCorrect` (`VerdictIsRight`), for transactions with logs of any length:
  when the call is about to accept, `received` is the total of *all* USDC logs to
  the seller (`ReceivedIsSum`). The model folds the logs as the code does, the
  property speaks of a total in no order, so the proof shows that both are the sum
  of one tally (`FoundIsFold`, `TallyIsFold`, `WeightIsSum`). The sums are defined
  by recursion on finite sets and on lengths; their uniqueness is shown on the
  least set or length where two of them would differ (`SetInduction`, and
  `NatLessThanWellFounded` of the library), as the library's induction rules
  take an operator as a parameter, which no installed prover instantiates.
  `InfrastructureTypeCorrect` (`InfrastructureTypeOK`) puts the types of all parts
  side by side (`PartsInv`): a step of one part leaves the rest alone
  (`PartSteps`), and each part keeps to its own (`KeysTypeStep`, `PgTypeStep` in
  `StoreProofs`, `StepHolds` in `SettlementProofs`).

The strengthened invariants were model-checked on the instances above before
they were proved.

### Only model-checked

The liveness properties, as fairness and ENABLED are beyond the prover.

## Not modelled

* Signing, decoding and checking of JWTs (`core/access-token.ts`, `validator/`,
  `middleware.ts`): a stateless check on each request.
* Configuration, catalog, agent card, page rendering, onboarding helpers: pure
  checks and formatting at start; `factory.ts` wires the parts together. Which
  setting configures which object in `docker/server.ts` (373-780) is wiring too.
* The command line client and the setup UI: programs outside the gateway. What
  the UI submits is `Form` of `StandaloneSetup`.
* Wording and amounts; parsing of A2A messages beyond what it selects; free
  routes and plans and 402 answers, which change nothing.
* `append` of both audit stores, which nothing calls. The order of audit rows in
  Postgres, which is that of NOW() in overlapping transactions.
* In the gateway models a settlement, a verification and the issue of a token
  are one step each with the outcomes that `Settlement`, `VerifyTransfer` and
  `TokenIssuance` have; `create` is one step and no key of a record expires.
  `RedisKeys` and `PostgresRows` say what that leaves out. In particular the
  seven days after which a record and the claim of its transfer are gone are
  beyond the gateway models.
* exit(42) half a second after a save cuts the calls in flight; for the gateway
  this is `handler_lost`. (What it does to other saves is in `StandaloneSetup`.)

## Plan

The refinements of `PaymentPromise` and all safety properties of the gateways and
of the parts are proved. Next:

* the converse direction of the theorems that exclude faults, as far as it is a
  safety property: under `slow_handler` alone a transfer that is served and paid
  back was served after minAgeMs (so that the fault, and nothing else, is what
  breaks the promise).

--------------------------- MODULE ChallengeStore ---------------------------
(***************************************************************************)
(* The storage layer: challenge records behind a compare-and-swap, the     *)
(* requestId index, the "paid" sorted set the refund job scans, and the    *)
(* seen-transaction keys (src/core/storage/redis.ts).                      *)
(*                                                                         *)
(* Data is kept to what the payment properties tell apart:                 *)
(*   - a transaction hash stands for one on-chain USDC transfer to the     *)
(*     seller; every transfer has a sender of its own, so fromAddress is   *)
(*     the transfer whose sender it names;                                 *)
(*   - accessGrant is the transfer the stored grant was issued for;        *)
(*   - expiresAt and paidAt are reduced to what the code compares with the *)
(*     clock: lapsed says expiresAt <= now, aged says paidAt is at least   *)
(*     minAgeMs old.                                                       *)
(***************************************************************************)
EXTENDS Naturals

CONSTANTS
    Challenge,      \* challengeIds that can be created
    Request,        \* client-chosen requestIds
    Tx,             \* on-chain transfers to the seller
    NoChallenge, NoRequest, NoTx,
    Faults          \* the faults a model admits, a subset of FaultKinds

\* What can go wrong around the storage calls, the chain and the clock.
FaultKinds == {
    "handler_lost",     \* a request handler stops between two awaits
    "mark_lost",        \* ... stops after the PAID write, before its txHash claim is settled
    "slow_handler",     \* a handler is still running when minAgeMs has passed
    "payer_unknown",    \* verification or settlement names no payer
    "receipt_timeout",  \* a refund is broadcast but its receipt is not seen in time
    "confirm_error",    \* the write that ends a refund, well or not, throws
    "cron_lost"}        \* a refund run stops half-way

ASSUME StoreAssumption ==
    /\ NoChallenge \notin Challenge
    /\ NoRequest \notin Request
    /\ NoTx \notin Tx
    /\ Faults \subseteq FaultKinds

VARIABLES
    challenges,     \* key0:challenge:{challengeId}
    requestIndex,   \* key0:request:{requestId}
    paidSet,        \* members of the sorted set key0:paid
    seenTx          \* key0:seentx:{txHash}

storeVars == <<challenges, requestIndex, paidSet, seenTx>>

\* "ABSENT" is a challengeId that has not been created.
ChallengeState == {"ABSENT", "PENDING", "PAID", "DELIVERED", "EXPIRED",
                   "CANCELLED", "REFUND_PENDING", "REFUNDED", "REFUND_FAILED"}

ChallengeRecord ==
    [state       : ChallengeState,
     requestId   : Request \cup {NoRequest},
     txHash      : Tx \cup {NoTx},
     fromAddress : Tx \cup {NoTx},
     accessGrant : Tx \cup {NoTx},
     lapsed      : BOOLEAN,
     aged        : BOOLEAN]

AbsentRecord ==
    [state |-> "ABSENT", requestId |-> NoRequest, txHash |-> NoTx,
     fromAddress |-> NoTx, accessGrant |-> NoTx, lapsed |-> FALSE, aged |-> FALSE]

StoreTypeOK ==
    /\ challenges \in [Challenge -> ChallengeRecord]
    /\ requestIndex \in [Request -> Challenge \cup {NoChallenge}]
    /\ paidSet \in SUBSET Challenge
    /\ seenTx \in [Tx -> Challenge \cup {NoChallenge}]

StoreInit ==
    /\ challenges = [c \in Challenge |-> AbsentRecord]
    /\ requestIndex = [r \in Request |-> NoChallenge]
    /\ paidSet = {}
    /\ seenTx = [t \in Tx |-> NoChallenge]

-----------------------------------------------------------------------------
\* Reads.

\* findActiveByRequestId: whatever record the request index names, in any
\* state. AbsentRecord stands for null.
ActiveRecord(r) ==
    IF requestIndex[r] = NoChallenge THEN AbsentRecord
                                     ELSE challenges[requestIndex[r]]

\* A challenge that already delivered its grant.
Redeemed(rec) == rec.state = "DELIVERED" /\ rec.accessGrant # NoTx

\* Mutated form of PendingForRefund: a scan by state, without a look at the
\* grant (as the in-memory store of the tests does it).
PendingByState ==
    {c \in Challenge : /\ challenges[c].aged
                       /\ challenges[c].state = "PAID"
                       /\ challenges[c].fromAddress # NoTx}

\* findPendingForRefund: members of the paid set that are old enough, still
\* PAID, with a known payer and no grant.
PendingForRefund ==
    {c \in paidSet : /\ challenges[c].aged
                     /\ challenges[c].state = "PAID"
                     /\ challenges[c].fromAddress # NoTx
                     /\ challenges[c].accessGrant = NoTx}

-----------------------------------------------------------------------------
\* Writes.

\* create: a PENDING record under a fresh id; the request index now names it.
Create(c, r) ==
    /\ challenges[c].state = "ABSENT"
    /\ challenges' = [challenges EXCEPT ![c] =
                        [AbsentRecord EXCEPT !.state = "PENDING", !.requestId = r]]
    /\ requestIndex' = [requestIndex EXCEPT ![r] = c]
    /\ UNCHANGED <<paidSet, seenTx>>

\* Mutated forms of PaidSetAfter: a record that leaves PAID keeps its member; a
\* record that is requeued gets none.
PaidSetNeverShrinks(c, from, to, scored) ==
    IF to = "PAID" /\ scored THEN paidSet \cup {c} ELSE paidSet

PaidSetOnFirstPayment(c, from, to, scored) ==
    IF to = "PAID" /\ from = "PENDING" THEN paidSet \cup {c}
    ELSE IF from = "PAID" THEN paidSet \ {c}
    ELSE paidSet

\* The sorted-set maintenance at the end of the transition script. scored says
\* that the updates carry a paidAt, the only case in which a score is passed.
PaidSetAfter(c, from, to, scored) ==
    IF to = "PAID" /\ scored THEN paidSet \cup {c}
    ELSE IF from = "PAID" THEN paidSet \ {c}
    ELSE paidSet

\* transition(c, from, to, updates) when the stored state is from: rec is the
\* record with the updates written, the paid set follows in the same script.
Transition(c, from, to, scored, rec) ==
    /\ challenges[c].state = from
    /\ challenges' = [challenges EXCEPT ![c] = [rec EXCEPT !.state = to]]
    /\ paidSet' = PaidSetAfter(c, from, to, scored)
    /\ UNCHANGED <<requestIndex, seenTx>>

\* transition(...) when the stored state is another one: it returns false and
\* writes nothing.
TransitionRefused(c, from) ==
    /\ challenges[c].state # from
    /\ UNCHANGED storeVars

\* markUsed: SET NX, so the first challenge to claim a transfer keeps it.
MarkUsed(t, c) ==
    /\ seenTx[t] = NoChallenge
    /\ seenTx' = [seenTx EXCEPT ![t] = c]
    /\ UNCHANGED <<challenges, requestIndex, paidSet>>

-----------------------------------------------------------------------------
\* The clock.

\* now reaches expiresAt of a challenge nobody has paid.
ChallengeLapses(c) ==
    /\ challenges[c].state = "PENDING"
    /\ ~challenges[c].lapsed
    /\ challenges' = [challenges EXCEPT ![c].lapsed = TRUE]
    /\ UNCHANGED <<requestIndex, paidSet, seenTx>>

\* now reaches paidAt + minAgeMs.
PaymentAges(c) ==
    /\ challenges[c].state = "PAID"
    /\ ~challenges[c].aged
    /\ challenges' = [challenges EXCEPT ![c].aged = TRUE]
    /\ UNCHANGED <<requestIndex, paidSet, seenTx>>

\* The request index key reaches its TTL; the record itself lives longer. The
\* two lifetimes are configured apart, so the record may be in any state.
RequestKeyExpires(r) ==
    /\ requestIndex[r] # NoChallenge
    /\ requestIndex' = [requestIndex EXCEPT ![r] = NoChallenge]
    /\ UNCHANGED <<challenges, paidSet, seenTx>>
=============================================================================

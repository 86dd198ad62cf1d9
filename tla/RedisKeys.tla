------------------------------ MODULE RedisKeys ------------------------------
(***************************************************************************)
(* The keys of one challenge in Redis (src/core/storage/redis.ts) with     *)
(* their lifetimes: the record, the request index, the audit list, the     *)
(* member of the paid set and the seen-transaction key. ChallengeStore     *)
(* takes create and transition for one step each and keeps every key for   *)
(* ever; here the commands they are made of interleave with other clients  *)
(* and with expiry. A member of Client is a connection.                    *)
(***************************************************************************)
EXTENDS AuditTrail

CONSTANTS
    Client,
    RecordTTL,      \* recordTTLSeconds, 7 days
    DeliveredTTL,   \* deliveredTTLSeconds, 12 hours
    RequestTTL,     \* challengeTTLSeconds, 15 minutes
    SeenTxTTL,      \* SEEN_TX_TTL, 7 days
    MaxAudit        \* bound on the entries of the audit list

\* The first three can be configured, and nothing checks that they fit. SEEN_TX_TTL
\* is a constant of the code: by default it equals the first, but nothing is
\* assumed of it.
ASSUME TTLAssumption ==
    /\ RequestTTL \in Nat \ {0} /\ DeliveredTTL \in Nat /\ RecordTTL \in Nat
    /\ SeenTxTTL \in Nat \ {0} /\ MaxAudit \in Nat
    /\ RequestTTL <= DeliveredTTL /\ DeliveredTTL <= RecordTTL

VARIABLES
    created,    \* how many parts of the create pipeline Redis has executed
    state,      \* of the record
    ttl,        \* of each key; 0 says that the key does not exist
    audit,      \* the audit list
    paidMember, \* whether the paid set has this challenge
    claimed,    \* whether a payment has claimed its transfer with markUsed
    late,       \* history: the time from that claim to the creation of the record
    client      \* where each client is

keyVars == <<created, state, ttl, audit, paidMember, claimed, late, client>>

Key == {"record", "request", "audit", "seentx"}

KeysTypeOK ==
    /\ created \in 0..3
    /\ state \in RecordState
    /\ ttl \in [Key -> Nat]
    /\ audit \in Seq(Entry)
    /\ paidMember \in BOOLEAN
    /\ claimed \in BOOLEAN
    /\ late \in Nat
    /\ client \in [Client -> {"idle", "expireRecord", "expireAudit", "ghost"}]

KeysInit ==
    /\ created = 0
    /\ state = "PENDING"
    /\ ttl = [k \in Key |-> 0]
    /\ audit = << >>
    /\ paidMember = FALSE
    /\ claimed = FALSE
    /\ late = 0
    /\ client = [u \in Client |-> "idle"]

Live(k) == ttl[k] > 0

\* EXPIRE does nothing to a key that is gone.
Expire(k, seconds) == IF Live(k) THEN [ttl EXCEPT ![k] = seconds] ELSE ttl

-----------------------------------------------------------------------------
\* create. The pipeline is sent in one write, but it is no transaction: other
\* clients' commands come between its own.
WriteRecord ==
    /\ created' = created + 1
    /\ ttl' = [ttl EXCEPT !["record"] = RecordTTL]
    /\ UNCHANGED <<state, audit, paidMember, claimed, late, client>>

WriteIndex ==
    /\ created' = created + 1
    /\ ttl' = [ttl EXCEPT !["request"] = RequestTTL]
    /\ UNCHANGED <<state, audit, paidMember, claimed, late, client>>

WriteCreationEntry ==
    /\ created' = created + 1
    /\ audit' = Append(audit, [from |-> "none", to |-> "PENDING"])
    /\ ttl' = [ttl EXCEPT !["audit"] = RecordTTL]
    /\ UNCHANGED <<state, paidMember, claimed, late, client>>

\* Mutated form of CreateKeys: the index is written in front of the record.
CreateIndexFirst ==
    \/ created = 0 /\ WriteIndex
    \/ created = 1 /\ WriteRecord
    \/ created = 2 /\ WriteCreationEntry

CreateKeys ==
    \/ created = 0 /\ WriteRecord
    \/ created = 1 /\ WriteIndex
    \/ created = 2 /\ WriteCreationEntry

\* Who has the challengeId: nobody, before the index names it.
Known == created > 1

-----------------------------------------------------------------------------
\* Mutated form of AuditTTL: a refund is taken for a delivery.
AuditTTLOfFinal(to) == IF to \in {"DELIVERED", "REFUNDED"} THEN DeliveredTTL ELSE RecordTTL

\* The lifetime a script gives the audit list.
AuditTTL(to) == IF to = "DELIVERED" THEN DeliveredTTL ELSE RecordTTL

\* TRANSITION_LUA for a transition somebody asks for, when the stored state is
\* from; a script that finds another state, or no record, changes nothing.
\* Every way into PAID but PAID -> PAID brings a score.
RunScript(u, from, to) ==
    /\ client[u] = "idle" /\ Known
    /\ Len(audit) < MaxAudit
    /\ Live("record") /\ state = from
    /\ state' = to
    /\ audit' = Append(IF Live("audit") THEN audit ELSE << >>, [from |-> from, to |-> to])
    /\ ttl' = [ttl EXCEPT !["audit"] = AuditTTL(to)]
    /\ paidMember' = IF to = "PAID" /\ from # "PAID" THEN TRUE
                     ELSE IF from = "PAID" THEN FALSE ELSE paidMember
    /\ client' = [client EXCEPT ![u] = IF to = "DELIVERED" THEN "expireRecord" ELSE "idle"]
    /\ UNCHANGED <<created, claimed, late>>

\* Mutated form of LogTransition: refused transitions are logged as well.
LogRefused(u) ==
    \E step \in Asked :
        \/ RunScript(u, step[1], step[2])
        \/ /\ client[u] = "idle" /\ Known /\ Len(audit) < MaxAudit
           /\ Live("record") /\ state # step[1]
           /\ audit' = Append(audit, [from |-> step[1], to |-> step[2]])
           /\ UNCHANGED <<created, state, ttl, paidMember, claimed, late, client>>

LogTransition(u) == \E step \in Asked : RunScript(u, step[1], step[2])

\* The two EXPIREs that follow a script to DELIVERED, outside of it, at any later
\* time.
ShortenRecord(u) ==
    /\ client[u] = "expireRecord"
    /\ ttl' = Expire("record", DeliveredTTL)
    /\ client' = [client EXCEPT ![u] = "expireAudit"]
    /\ UNCHANGED <<created, state, audit, paidMember, claimed, late>>

ShortenAudit(u) ==
    /\ client[u] = "expireAudit"
    /\ ttl' = Expire("audit", DeliveredTTL)
    /\ client' = [client EXCEPT ![u] = "idle"]
    /\ UNCHANGED <<created, state, audit, paidMember, claimed, late>>

\* The process dies in front of one of them, or the command throws: the other
\* is not sent either.
ClientFails(u) ==
    /\ client[u] \in {"expireRecord", "expireAudit"}
    /\ client' = [client EXCEPT ![u] = "idle"]
    /\ UNCHANGED <<created, state, ttl, audit, paidMember, claimed, late>>

-----------------------------------------------------------------------------
\* Who calls markUsed: a per-request call in front of the creation of its record,
\* a route call with a PENDING record, the engine once it has written PAID.
MayClaim ==
    \/ created = 0
    \/ Known /\ Live("record") /\ state \in {"PENDING", "PAID"}

\* Mutated form of ClaimKey: the key lives as long as a delivered record.
ClaimKeyBriefly(u) ==
    /\ client[u] = "idle" /\ MayClaim /\ ~ Live("seentx")
    /\ ttl' = [ttl EXCEPT !["seentx"] = DeliveredTTL]
    /\ claimed' = TRUE /\ late' = 0
    /\ UNCHANGED <<created, state, audit, paidMember, client>>

\* markUsed: SET EX NX.
ClaimKey(u) ==
    /\ client[u] = "idle" /\ MayClaim /\ ~ Live("seentx")
    /\ ttl' = [ttl EXCEPT !["seentx"] = SeenTxTTL]
    /\ claimed' = TRUE /\ late' = 0
    /\ UNCHANGED <<created, state, audit, paidMember, client>>

\* findPendingForRefund reads the set, then each record.
ScanPaidSet(u) ==
    /\ client[u] = "idle"
    /\ paidMember /\ ~ Live("record")
    /\ client' = [client EXCEPT ![u] = "ghost"]
    /\ UNCHANGED <<created, state, ttl, audit, paidMember, claimed, late>>

\* Mutated form of RemoveGhost: a member without a record is skipped.
SkipGhost(u) ==
    /\ client[u] = "ghost"
    /\ client' = [client EXCEPT ![u] = "idle"]
    /\ UNCHANGED <<created, state, ttl, audit, paidMember, claimed, late>>

\* A member without a record is removed.
RemoveGhost(u) ==
    /\ client[u] = "ghost"
    /\ paidMember' = FALSE
    /\ client' = [client EXCEPT ![u] = "idle"]
    /\ UNCHANGED <<created, state, ttl, audit, claimed, late>>

-----------------------------------------------------------------------------
\* Time passes for every key, wherever the clients are; only within the one write
\* of the pipeline it does not.
KeysAge ==
    /\ created \in {0, 3}
    /\ \E k \in Key : Live(k)
    /\ ttl' = [k \in Key |-> IF Live(k) THEN ttl[k] - 1 ELSE 0]
    /\ late' = IF claimed /\ created = 0 THEN late + 1 ELSE late
    /\ UNCHANGED <<created, state, audit, paidMember, claimed, client>>

ClientStep(u) == ShortenRecord(u) \/ ShortenAudit(u) \/ ScanPaidSet(u) \/ RemoveGhost(u)

KeysNext ==
    \/ CreateKeys
    \/ \E u \in Client : LogTransition(u) \/ ClaimKey(u) \/ ClientStep(u) \/ ClientFails(u)
    \/ KeysAge

KeysSpec == KeysInit /\ [][KeysNext]_keyVars

\* The refund job scans again and again and a scan that has begun goes on.
KeysFairness == \A u \in Client : WF_keyVars(ClientStep(u))

-----------------------------------------------------------------------------
\* Once the creation is logged, an audit list that is there tells the whole
\* history of its record: no transition is missing, none that was refused or lost
\* a race is in it, and no list begins anew beside a record that is still used.
RedisAuditAccounts ==
    created = 3 /\ Live("record") /\ Live("audit") => AccountsFor(audit, state)

\* The history does not expire in front of its record, except by what a delivery
\* is to take off the record's lifetime: that is taken off the list's in the
\* script and off the record's outside of it, where it may be late or not come.
AuditCoversRecord ==
    created = 3 =>
        \/ ttl["record"] <= ttl["audit"]
        \/ /\ state = "DELIVERED"
           /\ \/ ttl["record"] <= DeliveredTTL
              \/ ttl["record"] <= ttl["audit"] + (RecordTTL - DeliveredTTL)

\* A request that is looked up by its requestId finds a record, during the
\* create pipeline of another call and after the record's life was shortened.
IndexLeadsToRecord == Live("request") => Live("record")

\* A record that may still have to be refunded outlives the claim of its transfer
\* by no more than it was created after it, and by what is configured; one that
\* was delivered by its own 12 hours at most.
ClaimCoversRecord ==
    claimed /\ Live("record") =>
        \/ ttl["record"] + SeenTxTTL <= ttl["seentx"] + RecordTTL + late
        \/ state = "DELIVERED" /\ ttl["record"] <= DeliveredTTL

\* A record that expires while it is PAID leaves a member in the paid set; the
\* scans of the refund job do not meet it for ever.
GhostIsRemoved == paidMember /\ ~ Live("record") ~> ~ paidMember
=============================================================================

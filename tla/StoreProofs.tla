----------------------------- MODULE StoreProofs -----------------------------
(***************************************************************************)
(* The two stores: the lifetimes of a challenge's keys in Redis, for any   *)
(* lifetimes that fit and any number of clients, and the rows of Postgres, *)
(* for any number of challenges that one transfer may pay.                 *)
(***************************************************************************)
EXTENDS Integers, RedisKeys, PostgresRows, FiniteSetTheorems, TLAPS

-----------------------------------------------------------------------------
(* The history both stores keep.                                           *)

LEMMA TimesNone == \A field, s : Times(<< >>, field, s) = 0
<1>1. \A field, s : {i \in DOMAIN << >> : << >>[i][field] = s} = {}
  OBVIOUS
<1> QED
  BY <1>1, FS_EmptySet DEF Times

LEMMA TimesAppend ==
  ASSUME NEW a \in Seq(Entry), NEW e \in Entry, NEW field \in {"from", "to"}, NEW s
  PROVE  /\ Times(a, field, s) \in Nat
         /\ Times(Append(a, e), field, s) = Times(a, field, s) + (IF e[field] = s THEN 1 ELSE 0)
<1> DEFINE n == Len(a)
           At(q) == {i \in DOMAIN q : q[i][field] = s}
<1>1. /\ n \in Nat /\ DOMAIN a = 1..n /\ DOMAIN Append(a, e) = 1..n + 1
      /\ \A i \in 1..n : Append(a, e)[i] = a[i]
      /\ Append(a, e)[n + 1] = e
  OBVIOUS
<1>2. IsFiniteSet(At(a)) /\ n + 1 \notin At(a)
  <2>1. IsFiniteSet(1..n)
    BY <1>1, FS_Interval
  <2> QED
    BY <1>1, <2>1, FS_Subset
<1>3. At(Append(a, e)) = IF e[field] = s THEN At(a) \cup {n + 1} ELSE At(a)
  BY <1>1
<1>4. /\ Cardinality(At(a)) \in Nat
      /\ Cardinality(At(a) \cup {n + 1}) = Cardinality(At(a)) + 1
  BY <1>2, FS_CardinalityType, FS_AddElement
<1>5. \A q : Times(q, field, s) = Cardinality(At(q))
  BY DEF Times
<1>6. Times(a, field, s) \in Nat
  BY <1>4, <1>5
<1> HIDE DEF At, n
<1>7. CASE e[field] = s
  <2>1. At(Append(a, e)) = At(a) \cup {n + 1}
    BY <1>3, <1>7
  <2>2. Times(Append(a, e), field, s) = Times(a, field, s) + 1
    BY <1>4, <1>5, <2>1
  <2> QED
    BY <1>6, <1>7, <2>2
<1>8. CASE e[field] # s
  <2>1. Times(Append(a, e), field, s) = Times(a, field, s)
    BY <1>3, <1>5, <1>8
  <2> QED
    BY <1>6, <1>8, <2>1
<1> QED
  BY <1>7, <1>8

\* A transition that is logged when it is made goes on with the walk.
LEMMA AccountsContinue ==
  ASSUME NEW a \in Seq(Entry), NEW e \in Entry, NEW current \in RecordState,
         AccountsFor(a, current), e.from = current
  PROVE  AccountsFor(Append(a, e), e.to)
<1> SUFFICES ASSUME NEW s \in RecordState
             PROVE  Times(Append(a, e), "to", s)
                       = Times(Append(a, e), "from", s) + (IF s = e.to THEN 1 ELSE 0)
  BY DEF AccountsFor
<1>1. e["to"] = e.to /\ e["from"] = e.from
  BY DEF Entry
<1>2. /\ Times(Append(a, e), "to", s) = Times(a, "to", s) + (IF e.to = s THEN 1 ELSE 0)
      /\ Times(Append(a, e), "from", s) = Times(a, "from", s) + (IF e.from = s THEN 1 ELSE 0)
      /\ Times(a, "to", s) \in Nat /\ Times(a, "from", s) \in Nat
  BY <1>1, TimesAppend
<1>3. Times(a, "to", s) = Times(a, "from", s) + (IF s = current THEN 1 ELSE 0)
  BY DEF AccountsFor
<1> QED
  BY <1>2, <1>3

-----------------------------------------------------------------------------
(* Redis.                                                                  *)

Shortening == {"expireRecord", "expireAudit"}

LifetimeType ==
    /\ created \in 0..3
    /\ ttl \in [Key -> Int]
    /\ \A k \in Key : 0 <= ttl[k]
    /\ late \in Nat
    /\ client \in [Client -> {"idle", "expireRecord", "expireAudit", "ghost"}]

\* The creation goes key by key, and nobody shortens a life before it has gone
\* as far as the index. A claim in front of it is as old as late says.
CreationInv ==
    /\ created = 0 => ttl["record"] = 0 /\ (claimed => SeenTxTTL <= ttl["seentx"] + late)
    /\ created = 1 => ttl["record"] = RecordTTL
    /\ created < 2 => ttl["request"] = 0 /\ \A u \in Client : client[u] \notin Shortening

\* Only the life of a delivered record is shortened.
LifetimeInv ==
    /\ ttl["request"] <= RequestTTL /\ ttl["request"] <= ttl["record"]
    /\ ttl["record"] <= RecordTTL
    /\ \A u \in Client : client[u] \in Shortening => state = "DELIVERED"
    /\ ClaimCoversRecord

KeysInv == LifetimeType /\ CreationInv /\ LifetimeInv

LEMMA KeysInit_Inv == KeysInit => KeysInv
  BY TTLAssumption
  DEF KeysInit, KeysInv, LifetimeType, CreationInv, LifetimeInv, Key, Shortening,
      ClaimCoversRecord, Live

LEMMA KeysNext_Inv == KeysInv /\ [KeysNext]_keyVars => KeysInv'
<1> SUFFICES ASSUME KeysInv, [KeysNext]_keyVars PROVE KeysInv'
  OBVIOUS
<1> USE TTLAssumption
<1> USE DEF KeysInv, LifetimeType, CreationInv, LifetimeInv, Key, Shortening,
            ClaimCoversRecord, Live
<1>1. CASE CreateKeys
  <2>1. CASE created = 0 /\ WriteRecord
    BY <2>1 DEF WriteRecord
  <2>2. CASE created = 1 /\ WriteIndex
    BY <2>2 DEF WriteIndex
  <2>3. CASE created = 2 /\ WriteCreationEntry
    BY <2>3 DEF WriteCreationEntry
  <2> QED
    BY <1>1, <2>1, <2>2, <2>3 DEF CreateKeys
<1>2. ASSUME NEW u \in Client, NEW step \in Asked, RunScript(u, step[1], step[2])
      PROVE  KeysInv'
  <2> DEFINE seconds == AuditTTL(step[2])
  <2>1. /\ ttl' = [ttl EXCEPT !["audit"] = seconds]
        /\ seconds \in Nat
        /\ UNCHANGED <<created, claimed, late>> /\ created > 1
        /\ state = step[1] /\ state' = step[2]
    BY <1>2 DEF RunScript, Known, AuditTTL
  <2>2. client' = [client EXCEPT ![u] = IF step[2] = "DELIVERED" THEN "expireRecord" ELSE "idle"]
    BY <1>2 DEF RunScript
  <2>3. state # "DELIVERED"
    BY <2>1 DEF Asked
  <2> HIDE DEF seconds
  <2>4. LifetimeType' /\ CreationInv'
    BY <2>1, <2>2
  <2>5. LifetimeInv'
    BY <2>1, <2>2, <2>3
  <2> QED
    BY <2>4, <2>5
<1>3. ASSUME NEW u \in Client, ClaimKey(u) PROVE KeysInv'
  BY <1>3 DEF ClaimKey, MayClaim, Known
<1>4. ASSUME NEW u \in Client, ShortenRecord(u) PROVE KeysInv'
  <2>1. created > 1 /\ state = "DELIVERED"
    BY <1>4 DEF ShortenRecord
  <2>2. /\ client' = [client EXCEPT ![u] = "expireAudit"]
        /\ UNCHANGED <<created, state, claimed, late>>
        /\ ttl' = IF ttl["record"] > 0 THEN [ttl EXCEPT !["record"] = DeliveredTTL] ELSE ttl
    BY <1>4 DEF ShortenRecord, Expire
  <2> QED
    BY <2>1, <2>2
<1>5. ASSUME NEW u \in Client, ShortenAudit(u) PROVE KeysInv'
  <2>1. /\ client' = [client EXCEPT ![u] = "idle"]
        /\ UNCHANGED <<created, state, claimed, late>>
        /\ ttl' = IF ttl["audit"] > 0 THEN [ttl EXCEPT !["audit"] = DeliveredTTL] ELSE ttl
    BY <1>5 DEF ShortenAudit, Expire
  <2> QED
    BY <2>1
<1>6. ASSUME NEW u \in Client, ScanPaidSet(u) \/ RemoveGhost(u) \/ ClientFails(u)
      PROVE  KeysInv'
  BY <1>6 DEF ScanPaidSet, RemoveGhost, ClientFails
<1>7. CASE KeysAge
  <2>1. /\ ttl' \in [Key -> Int]
        /\ \A k \in Key : ttl'[k] = IF ttl[k] > 0 THEN ttl[k] - 1 ELSE 0
    BY <1>7 DEF KeysAge
  <2>2. UNCHANGED <<created, client, claimed, state>> /\ created \in {0, 3}
    BY <1>7 DEF KeysAge
  <2>3. late' = IF claimed /\ created = 0 THEN late + 1 ELSE late
    BY <1>7 DEF KeysAge
  <2> QED
    BY <2>1, <2>2, <2>3
<1>8. CASE UNCHANGED keyVars
  BY <1>8 DEF keyVars
<1> QED
  BY <1>1, <1>2, <1>3, <1>4, <1>5, <1>6, <1>7, <1>8
  DEF KeysNext, LogTransition, ClientStep

\* An index entry leads to a record, at any point of its creation and of the two
\* EXPIREs (redis.ts:239-258, 355-360).
THEOREM IndexIsNeverStale == KeysSpec => []IndexLeadsToRecord
<1>1. KeysInv => IndexLeadsToRecord
  BY DEF KeysInv, LifetimeInv, LifetimeType, IndexLeadsToRecord, Live, Key
<1> QED
  BY <1>1, KeysInit_Inv, KeysNext_Inv, PTL DEF KeysSpec

\* However long a call takes from its claim to the creation of its record, and for
\* any lifetimes, the claim is missing beside the record for no longer than that
\* and the difference of the two lifetimes (pay-per-request.ts:412-443,
\* redis.ts:355-357, 440-447).
THEOREM ClaimGapIsBounded == KeysSpec => []ClaimCoversRecord
<1>1. KeysInv => ClaimCoversRecord
  BY DEF KeysInv, LifetimeInv
<1> QED
  BY <1>1, KeysInit_Inv, KeysNext_Inv, PTL DEF KeysSpec

\* s was entered as often as it was left, but for the begin and the end.
Balanced(begin, s) ==
    Times(audit, "to", s) + (IF s = begin THEN 1 ELSE 0)
        = Times(audit, "from", s) + (IF s = state THEN 1 ELSE 0)

\* What the list has to say at each point of the creation. A script that runs in
\* front of the creation entry logs a walk that lacks its beginning.
AuditTells ==
    /\ audit \in Seq(Entry) /\ state \in RecordState
    /\ created < 2 => audit = << >> /\ state = "PENDING"
    /\ created < 3 => \A s \in RecordState : Balanced("PENDING", s)
    /\ created < 3 /\ ~ Live("audit") => audit = << >> /\ state = "PENDING"
    /\ created = 3 /\ Live("record") /\ Live("audit") =>
          \A s \in RecordState : Balanced("none", s)

AuditInv == KeysInv /\ AuditCoversRecord /\ AuditTells

LEMMA AuditInit_Inv == KeysInit => AuditInv
<1> SUFFICES ASSUME KeysInit PROVE AuditCoversRecord /\ AuditTells
  BY KeysInit_Inv DEF AuditInv
<1>1. audit = << >> /\ state = "PENDING" /\ audit \in Seq(Entry)
  BY DEF KeysInit
<1>2. \A s \in RecordState : Balanced("PENDING", s)
  BY <1>1, TimesNone DEF Balanced
<1> QED
  BY <1>1, <1>2, TTLAssumption
  DEF KeysInit, AuditCoversRecord, AuditTells, Live, Key, RecordState

LEMMA AuditCoversStep == AuditInv /\ [KeysNext]_keyVars => AuditCoversRecord'
<1> SUFFICES ASSUME AuditInv, [KeysNext]_keyVars PROVE AuditCoversRecord'
  OBVIOUS
<1> USE TTLAssumption
<1> USE DEF AuditInv, KeysInv, LifetimeType, LifetimeInv, AuditCoversRecord,
            Key, Shortening
<1>1. CASE CreateKeys
  <2>1. CASE created = 0 /\ WriteRecord
    BY <2>1 DEF WriteRecord
  <2>2. CASE created = 1 /\ WriteIndex
    BY <2>2 DEF WriteIndex
  <2>3. CASE created = 2 /\ WriteCreationEntry
    BY <2>3 DEF WriteCreationEntry
  <2> QED
    BY <1>1, <2>1, <2>2, <2>3 DEF CreateKeys
<1>2. ASSUME NEW u \in Client, NEW step \in Asked, RunScript(u, step[1], step[2])
      PROVE  AuditCoversRecord'
  <2>1. /\ ttl' = [ttl EXCEPT !["audit"] = IF step[2] = "DELIVERED" THEN DeliveredTTL
                                                                  ELSE RecordTTL]
        /\ created' = created /\ state' = step[2]
    BY <1>2 DEF RunScript, AuditTTL
  <2> QED
    BY <2>1
<1>3. ASSUME NEW u \in Client, ClaimKey(u) PROVE AuditCoversRecord'
  BY <1>3 DEF ClaimKey
<1>4. ASSUME NEW u \in Client, ShortenRecord(u) PROVE AuditCoversRecord'
  <2>1. /\ created' = created /\ state' = state /\ state = "DELIVERED"
        /\ ttl' = IF ttl["record"] > 0 THEN [ttl EXCEPT !["record"] = DeliveredTTL] ELSE ttl
    BY <1>4 DEF ShortenRecord, Expire, Live
  <2> QED
    BY <2>1
<1>5. ASSUME NEW u \in Client, ShortenAudit(u) PROVE AuditCoversRecord'
  <2>1. /\ created' = created /\ state' = state /\ state = "DELIVERED"
        /\ ttl' = IF ttl["audit"] > 0 THEN [ttl EXCEPT !["audit"] = DeliveredTTL] ELSE ttl
    BY <1>5 DEF ShortenAudit, Expire, Live
  <2> QED
    BY <2>1
<1>6. ASSUME NEW u \in Client, ScanPaidSet(u) \/ RemoveGhost(u) \/ ClientFails(u)
      PROVE  AuditCoversRecord'
  BY <1>6 DEF ScanPaidSet, RemoveGhost, ClientFails
<1>7. CASE KeysAge
  <2>1. \A k \in Key : ttl'[k] = IF ttl[k] > 0 THEN ttl[k] - 1 ELSE 0
    BY <1>7 DEF KeysAge, Live
  <2>2. created' = created /\ state' = state
    BY <1>7 DEF KeysAge
  <2> QED
    BY <2>1, <2>2
<1>8. CASE UNCHANGED keyVars
  BY <1>8 DEF keyVars
<1> QED
  BY <1>1, <1>2, <1>3, <1>4, <1>5, <1>6, <1>7, <1>8
  DEF KeysNext, LogTransition, ClientStep

\* What is appended to the list.
LEMMA BalancedAppend ==
  ASSUME audit \in Seq(Entry), NEW begin, NEW s \in RecordState, Balanced(begin, s),
         NEW to \in RecordState, state \in RecordState,
         audit' = Append(audit, [from |-> state, to |-> to]), state' = to
  PROVE  Balanced(begin, s)'
<1> DEFINE e == [from |-> state, to |-> to]
<1>1. e \in Entry /\ e["from"] = state /\ e["to"] = to
  BY DEF Entry
<1> HIDE DEF e
<1>2. /\ Times(Append(audit, e), "to", s) = Times(audit, "to", s) + (IF to = s THEN 1 ELSE 0)
      /\ Times(Append(audit, e), "from", s)
            = Times(audit, "from", s) + (IF state = s THEN 1 ELSE 0)
      /\ Times(audit, "to", s) \in Nat /\ Times(audit, "from", s) \in Nat
  BY <1>1, TimesAppend
<1>3. Times(audit', "to", s) = Times(Append(audit, e), "to", s)
      /\ Times(audit', "from", s) = Times(Append(audit, e), "from", s)
  BY DEF e
<1> QED
  BY <1>2, <1>3 DEF Balanced

\* Steps that do not touch the list: no record and no list comes to life, and the
\* list of a challenge that is being created does not expire.
LEMMA AuditTellsKept ==
  ASSUME AuditTells, UNCHANGED <<audit, state, created>>,
         ttl'["record"] > 0 => ttl["record"] > 0, ttl'["audit"] > 0 => ttl["audit"] > 0,
         created < 3 => (ttl["audit"] > 0 => ttl'["audit"] > 0) \/ created < 2
  PROVE  AuditTells'
  BY DEF AuditTells, Balanced, Live

LEMMA AuditTellsStep == AuditInv /\ [KeysNext]_keyVars => AuditTells'
<1> SUFFICES ASSUME AuditInv, [KeysNext]_keyVars PROVE AuditTells'
  OBVIOUS
<1>t. /\ ttl \in [Key -> Int] /\ created \in 0..3 /\ Key = {"record", "request", "audit", "seentx"}
      /\ 0 < DeliveredTTL /\ 0 < RecordTTL /\ DeliveredTTL \in Nat /\ RecordTTL \in Nat
      /\ \A u \in Client : client[u] \in Shortening => ~ (created < 2)
  BY TTLAssumption DEF AuditInv, KeysInv, LifetimeType, CreationInv, Key
<1>a. /\ audit \in Seq(Entry) /\ state \in RecordState /\ AuditTells
  BY DEF AuditInv, AuditTells
<1>1. CASE CreateKeys
  <2>1. CASE created = 0 /\ WriteRecord
    <3>1. UNCHANGED <<audit, state>> /\ created' = 1 /\ ttl'["audit"] = ttl["audit"]
      BY <1>t, <2>1 DEF WriteRecord
    <3> QED
      BY <1>t, <1>a, <2>1, <3>1 DEF AuditTells, Balanced, Live
  <2>2. CASE created = 1 /\ WriteIndex
    <3>1. UNCHANGED <<audit, state>> /\ created' = 2 /\ ttl'["audit"] = ttl["audit"]
      BY <1>t, <2>2 DEF WriteIndex
    <3> QED
      BY <1>t, <1>a, <2>2, <3>1 DEF AuditTells, Balanced, Live
  <2>3. CASE created = 2 /\ WriteCreationEntry
    <3> DEFINE e == [from |-> "none", to |-> "PENDING"]
    <3>1. e \in Entry /\ e["from"] = "none" /\ e["to"] = "PENDING" /\ "none" \notin RecordState
      BY DEF Entry, RecordState
    <3>2. audit' = Append(audit, e) /\ state' = state /\ created' = 3
      BY <2>3 DEF WriteCreationEntry
    <3> HIDE DEF e
    <3>3. ASSUME NEW s \in RecordState PROVE Balanced("none", s)'
      <4>1. /\ Times(audit', "to", s) = Times(audit, "to", s) + (IF "PENDING" = s THEN 1 ELSE 0)
            /\ Times(audit', "from", s) = Times(audit, "from", s)
            /\ Times(audit, "to", s) \in Nat /\ Times(audit, "from", s) \in Nat
        BY <1>a, <3>1, <3>2, TimesAppend
      <4>2. Balanced("PENDING", s)
        BY <1>a, <2>3 DEF AuditTells
      <4> QED
        BY <3>1, <3>2, <4>1, <4>2 DEF Balanced
    <3>4. audit' \in Seq(Entry)
      BY <1>a, <3>1, <3>2
    <3> QED
      BY <1>a, <3>2, <3>3, <3>4 DEF AuditTells
  <2> QED
    BY <1>1, <2>1, <2>2, <2>3 DEF CreateKeys
<1>2. ASSUME NEW u \in Client, NEW step \in Asked, RunScript(u, step[1], step[2])
      PROVE  AuditTells'
  <2> DEFINE to == step[2]
             e == [from |-> state, to |-> to]
  <2>1. to \in RecordState
    BY DEF Asked, RecordState
  <2>2. /\ created \in {2, 3} /\ created' = created /\ ttl["record"] > 0
        /\ state' = to
        /\ ttl'["record"] = ttl["record"] /\ ttl'["audit"] > 0
        /\ audit' = Append(IF Live("audit") THEN audit ELSE << >>, e)
    BY <1>2, <1>t DEF RunScript, Known, Live, AuditTTL
  <2>3. created = 3 => Live("audit")
    BY <1>t, <2>2, <1>2 DEF AuditInv, AuditCoversRecord, Live, Asked, RunScript
  <2>4. audit' = Append(audit, e)
    BY <2>2, <2>3 DEF AuditInv, AuditTells
  <2>5. audit' \in Seq(Entry)
    BY <1>a, <2>1, <2>4 DEF Entry
  <2>6. ASSUME NEW begin, NEW s \in RecordState, Balanced(begin, s) PROVE Balanced(begin, s)'
    BY <1>a, <2>1, <2>2, <2>4, <2>6, BalancedAppend
  <2> HIDE DEF to, e
  <2> QED
    BY <1>a, <2>1, <2>2, <2>3, <2>5, <2>6 DEF AuditTells, Live
<1>3. ASSUME NEW u \in Client, ClaimKey(u) PROVE AuditTells'
  BY <1>3, <1>t, <1>a, AuditTellsKept DEF ClaimKey
<1>4. ASSUME NEW u \in Client, ShortenRecord(u) PROVE AuditTells'
  BY <1>4, <1>t, <1>a, AuditTellsKept DEF ShortenRecord, Expire, Live
<1>5. ASSUME NEW u \in Client, ShortenAudit(u) PROVE AuditTells'
  BY <1>5, <1>t, <1>a, AuditTellsKept DEF ShortenAudit, Expire, Live
<1>6. ASSUME NEW u \in Client, ScanPaidSet(u) \/ RemoveGhost(u) \/ ClientFails(u)
      PROVE  AuditTells'
  BY <1>6, <1>a, AuditTellsKept DEF ScanPaidSet, RemoveGhost, ClientFails
<1>7. CASE KeysAge
  <2>1. /\ ttl'["record"] = IF ttl["record"] > 0 THEN ttl["record"] - 1 ELSE 0
        /\ ttl'["audit"] = IF ttl["audit"] > 0 THEN ttl["audit"] - 1 ELSE 0
        /\ UNCHANGED <<audit, state, created>> /\ created \in {0, 3}
    BY <1>7, <1>t DEF KeysAge, Live
  <2> QED
    BY <1>t, <1>a, <2>1, AuditTellsKept
<1>8. CASE UNCHANGED keyVars
  BY <1>8, <1>a, AuditTellsKept DEF keyVars
<1> QED
  BY <1>1, <1>2, <1>3, <1>4, <1>5, <1>6, <1>7, <1>8
  DEF KeysNext, LogTransition, ClientStep

LEMMA AuditCorrect == KeysSpec => []AuditInv
<1>1. AuditInv /\ [KeysNext]_keyVars => AuditInv'
  BY KeysNext_Inv, AuditCoversStep, AuditTellsStep DEF AuditInv
<1> QED
  BY <1>1, AuditInit_Inv, PTL DEF KeysSpec

\* The history lasts as long as a record that is not delivered, and falls behind a
\* delivered one by what was to be taken off both, wherever the call that delivered
\* it fails or waits (redis.ts:165-168, 350-357).
THEOREM AuditIsKept == KeysSpec => []AuditCoversRecord
<1>1. AuditInv => AuditCoversRecord
  BY DEF AuditInv
<1> QED
  BY <1>1, AuditCorrect, PTL

\* A list beside a record that is there tells its whole history, whatever scripts
\* ran before its first entry was written (redis.ts:145-166, 262-274).
THEOREM RedisHistoryIsWhole == KeysSpec => []RedisAuditAccounts
<1>1. AuditInv => RedisAuditAccounts
  <2> SUFFICES ASSUME AuditInv, created = 3, Live("record"), Live("audit"), NEW s \in RecordState
               PROVE  Times(audit, "to", s)
                         = Times(audit, "from", s) + (IF s = state THEN 1 ELSE 0)
    BY DEF RedisAuditAccounts, AccountsFor
  <2>1. Balanced("none", s) /\ s # "none"
    BY DEF AuditInv, AuditTells, RecordState
  <2>2. Times(audit, "to", s) \in Nat
    <3>1. [from |-> "none", to |-> "PENDING"] \in Entry
      BY DEF Entry, RecordState
    <3> QED
      BY <3>1, TimesAppend DEF AuditInv, AuditTells
  <2> QED
    BY <2>1, <2>2 DEF Balanced
<1> QED
  BY <1>1, AuditCorrect, PTL

\* The types follow from AuditInv but for two flags.
KeysTypeInv == AuditInv /\ KeysTypeOK

LEMMA KeysTypeInit == KeysInit => KeysTypeInv
<1>1. KeysInit => KeysTypeOK
  <2> SUFFICES ASSUME KeysInit PROVE KeysTypeOK
    OBVIOUS
  <2>1. 0 \in Nat /\ "PENDING" \in RecordState /\ << >> \in Seq(Entry)
    BY TTLAssumption DEF RecordState
  <2>2. created \in 0..3 /\ ttl \in [Key -> Nat]
    BY <2>1 DEF KeysInit
  <2> QED
    BY <2>1, <2>2 DEF KeysInit, KeysTypeOK
<1> QED
  BY <1>1, AuditInit_Inv DEF KeysTypeInv

LEMMA KeysTypeStep == KeysTypeInv /\ [KeysNext]_keyVars => KeysTypeInv'
<1> SUFFICES ASSUME KeysTypeInv, [KeysNext]_keyVars PROVE KeysTypeInv'
  OBVIOUS
<1>1. AuditInv'
  BY KeysNext_Inv, AuditCoversStep, AuditTellsStep DEF KeysTypeInv, AuditInv
<1>2. paidMember' \in BOOLEAN /\ claimed' \in BOOLEAN
  <2> USE DEF KeysTypeInv, KeysTypeOK
  <2>1. CASE CreateKeys
    BY <2>1 DEF CreateKeys, WriteRecord, WriteIndex, WriteCreationEntry
  <2>2. ASSUME NEW u \in Client, LogTransition(u)
        PROVE  paidMember' \in BOOLEAN /\ claimed' \in BOOLEAN
    BY <2>2 DEF LogTransition, RunScript
  <2>3. ASSUME NEW u \in Client, ClaimKey(u)
        PROVE  paidMember' \in BOOLEAN /\ claimed' \in BOOLEAN
    BY <2>3 DEF ClaimKey
  <2>4. ASSUME NEW u \in Client, ClientStep(u)
        PROVE  paidMember' \in BOOLEAN /\ claimed' \in BOOLEAN
    BY <2>4 DEF ClientStep, ShortenRecord, ShortenAudit, ScanPaidSet, RemoveGhost
  <2>7. ASSUME NEW u \in Client, ClientFails(u)
        PROVE  paidMember' \in BOOLEAN /\ claimed' \in BOOLEAN
    BY <2>7 DEF ClientFails
  <2>5. CASE KeysAge
    BY <2>5 DEF KeysAge
  <2>6. CASE UNCHANGED keyVars
    BY <2>6 DEF keyVars
  <2> QED
    BY <2>1, <2>2, <2>3, <2>4, <2>5, <2>6, <2>7 DEF KeysNext
<1>3. (ttl \in [Key -> Nat])'
  <2>1. ttl' \in [Key -> Int] /\ \A k \in Key : 0 <= ttl'[k]
    BY <1>1 DEF AuditInv, KeysInv, LifetimeType
  <2> QED
    BY <2>1
<1> QED
  BY <1>1, <1>2, <1>3
  DEF KeysTypeInv, KeysTypeOK, AuditInv, AuditTells, KeysInv, LifetimeType

-----------------------------------------------------------------------------
(* Postgres.                                                               *)

RowsType ==
    /\ rows \in [Row -> [there : BOOLEAN, state : RecordState, grant : BOOLEAN,
                         age : Int, delivered : Int, deleted : BOOLEAN]]
    /\ DOMAIN history = Row
    /\ seenRow \in Row \cup {NoRow}
    /\ DOMAIN claim = Row

\* What is deleted was outdated, and stays as it was.
DeletedIsOutdated ==
    \A c \in Row :
        /\ history[c] # << >> /\ ~ rows[c].deleted => rows[c].there
        /\ rows[c].deleted => rows[c].state = "DELIVERED" \/ rows[c].age >= RowTTL

\* A claim is won by the challenge whose row is in the table.
WinnerOwnsTx == \A c \in Row : claim[c] = "won" \/ rows[c].grant => seenRow = c

PgInv == RowsType /\ DeletedIsOutdated /\ WinnerOwnsTx

LEMMA PgInit_Inv == PgInit => PgInv
  BY DEF PgInit, PgInv, RowsType, DeletedIsOutdated, WinnerOwnsTx, NoChallengeRow, RecordState

LEMMA PgNext_Inv == PgInv /\ [PgNext]_pgVars => PgInv'
<1> SUFFICES ASSUME PgInv, [PgNext]_pgVars PROVE PgInv'
  OBVIOUS
<1> USE DEF PgInv, RowsType, DeletedIsOutdated, WinnerOwnsTx
<1> DEFINE ARow == [there : BOOLEAN, state : RecordState, grant : BOOLEAN,
                    age : Int, delivered : Int, deleted : BOOLEAN]
<1>1. ASSUME NEW c \in Row, PgCreate(c) PROVE PgInv'
  <2>1. NoChallengeRow \in ARow /\ "PENDING" \in RecordState
    BY DEF NoChallengeRow, RecordState
  <2> DEFINE new == [NoChallengeRow EXCEPT !.there = TRUE]
  <2>2. new \in ARow /\ new.there /\ ~ new.deleted /\ ~ new.grant
    BY <2>1 DEF NoChallengeRow
  <2>3. rows' = [rows EXCEPT ![c] = new] /\ UNCHANGED <<seenRow, claim>>
        /\ DOMAIN history' = Row /\ \A d \in Row \ {c} : history'[d] = history[d]
    BY <1>1 DEF PgCreate
  <2> HIDE DEF new
  <2>4. ~ (claim[c] = "won") \/ seenRow = c
    OBVIOUS
  <2> QED
    BY <2>2, <2>3, <2>4
<1>2. ASSUME NEW c \in Row, NEW step \in Asked, PgTransition(c, step[1], step[2])
      PROVE  PgInv'
  <2> DEFINE from == step[1]
             to == step[2]
             grant == rows[c].grant \/ (from = "PAID" /\ to = "PAID")
  <2>1. to \in RecordState
    BY DEF Asked, RecordState
  <2>2. /\ rows[c].there /\ ~ rows[c].deleted
        /\ from = "PAID" /\ to = "PAID" => claim[c] = "won"
        /\ seenRow' = seenRow
        /\ DOMAIN history' = Row
        /\ DOMAIN claim' = Row
        /\ \A d \in Row : claim'[d] = "won" => claim[d] = "won"
    BY <1>2 DEF PgTransition, UpdateRow, Visible, MayAsk
  <2>3. rows' = [rows EXCEPT ![c].state = to, ![c].grant = grant]
    BY <1>2 DEF PgTransition, UpdateRow
  <2>4. \A d \in Row \ {c} : rows'[d] = rows[d] /\ history'[d] = history[d]
    BY <1>2, <2>3 DEF PgTransition
  <2>5. /\ rows'[c].there = rows[c].there /\ rows'[c].deleted = rows[c].deleted
        /\ rows'[c].grant = grant
    BY <2>3
  <2>6. rows' \in [Row -> ARow]
    BY <2>1, <2>3
  <2>7. DeletedIsOutdated'
    BY <2>2, <2>4, <2>5
  <2>8. WinnerOwnsTx'
    BY <2>2, <2>4, <2>5
  <2> QED
    BY <2>2, <2>6, <2>7, <2>8
<1>3. ASSUME NEW c \in Row, PgMarkUsed(c) PROVE PgInv'
  BY <1>3, RowAssumption DEF PgMarkUsed
<1>4. CASE Cleanup
  <2>1. \A c \in Row : rows[c] \in ARow
    OBVIOUS
  <2>2. /\ DOMAIN rows' = Row
        /\ \A c \in Row : rows'[c] = [rows[c] EXCEPT !.deleted =
                                         @ \/ (rows[c].there /\ Outdated(c))]
        /\ UNCHANGED <<history, seenRow, claim>>
    BY <1>4 DEF Cleanup
  <2>3. rows' \in [Row -> ARow]
    BY <1>4, <2>1 DEF Cleanup
  <2>4. \A c \in Row : /\ rows'[c].there = rows[c].there /\ rows'[c].state = rows[c].state
                       /\ rows'[c].grant = rows[c].grant /\ rows'[c].age = rows[c].age
                       /\ rows'[c].deleted = (rows[c].deleted \/ (rows[c].there /\ Outdated(c)))
    BY <2>1, <2>2
  <2> QED
    BY <2>2, <2>3, <2>4 DEF Outdated
<1>5. CASE PurgeDeleted
  <2>1. PICK gone \in SUBSET {c \in Row : rows[c].there /\ rows[c].deleted} :
            rows' = [c \in Row |-> IF c \in gone THEN [rows[c] EXCEPT !.there = FALSE]
                                   ELSE rows[c]]
    BY <1>5 DEF PurgeDeleted
  <2>2. rows' \in [Row -> ARow]
    <3>1. \A r \in ARow : [r EXCEPT !.there = FALSE] \in ARow
      OBVIOUS
    <3>2. \A c \in Row : rows[c] \in ARow
      OBVIOUS
    <3> HIDE DEF ARow
    <3> QED
      BY <2>1, <3>1, <3>2
  <2>3. \A c \in Row : /\ rows'[c].deleted = rows[c].deleted
                       /\ ~ rows[c].deleted => rows'[c].there = rows[c].there
                       /\ rows'[c].state = rows[c].state
                       /\ rows'[c].grant = rows[c].grant /\ rows'[c].age = rows[c].age
    BY <2>1
  <2> QED
    BY <1>5, <2>2, <2>3 DEF PurgeDeleted
<1>6. CASE RowsAge
  <2> DEFINE NextAge(r) == IF r.age < RowTTL THEN r.age + 1 ELSE r.age
             NextDelivered(r) == IF r.state = "DELIVERED" /\ r.delivered < DeliveredRowTTL
                                 THEN r.delivered + 1 ELSE r.delivered
             Older(r) == [r EXCEPT !.age = NextAge(r), !.delivered = NextDelivered(r)]
  <2>1. /\ rows' = [c \in Row |-> IF ~ rows[c].there THEN rows[c] ELSE Older(rows[c])]
        /\ UNCHANGED <<history, seenRow, claim>>
    BY <1>6 DEF RowsAge
  <2>2. ASSUME NEW r \in ARow
        PROVE  /\ Older(r) \in ARow
               /\ Older(r).there = r.there /\ Older(r).deleted = r.deleted
               /\ Older(r).state = r.state /\ Older(r).grant = r.grant
               /\ Older(r).age >= r.age
    <3>1. r.age \in Int /\ r.delivered \in Int
      OBVIOUS
    <3>2. NextAge(r) \in Int /\ NextDelivered(r) \in Int /\ NextAge(r) >= r.age
      BY <3>1, RowAssumption
    <3> HIDE DEF NextAge, NextDelivered
    <3> QED
      BY <3>2
  <2> HIDE DEF Older
  <2>3. \A c \in Row : rows[c] \in ARow
    OBVIOUS
  <2>4. rows' \in [Row -> ARow]
    BY <2>1, <2>2, <2>3
  <2>5. \A c \in Row : /\ rows'[c].there = rows[c].there
                       /\ rows'[c].deleted = rows[c].deleted
                       /\ rows'[c].state = rows[c].state /\ rows'[c].grant = rows[c].grant
                       /\ rows'[c].age >= rows[c].age
    BY <2>1, <2>2, <2>3
  <2>6. \A c \in Row : rows[c].age \in Int /\ rows'[c].age \in Int
    BY <2>3, <2>4
  <2> QED
    BY <2>1, <2>4, <2>5, <2>6, RowAssumption
<1>7. CASE UNCHANGED pgVars
  BY <1>7 DEF pgVars
<1> QED
  BY <1>1, <1>2, <1>3, <1>4, <1>5, <1>6, <1>7 DEF PgNext

\* A transfer pays for one grant, whatever answers of the database are lost
\* (postgres.ts:615-631).
THEOREM PgOneGrantPerTx == PgSpec => []PgGrantOwnsTx
<1>1. PgInv => PgGrantOwnsTx
  BY DEF PgInv, WinnerOwnsTx, PgGrantOwnsTx
<1> QED
  BY <1>1, PgInit_Inv, PgNext_Inv, PTL DEF PgSpec

\* cleanup takes nothing out of sight of the refund job before its time
\* (postgres.ts:450-540).
THEOREM PgCleanupSparesOwed == PgSpec => []PgOwedIsScanned
<1>1. PgInv => PgOwedIsScanned
  BY RowAssumption
  DEF PgInv, RowsType, DeletedIsOutdated, PgOwedIsScanned, PgPendingForRefund, Visible
<1> QED
  BY <1>1, PgInit_Inv, PgNext_Inv, PTL DEF PgSpec

\* The audit table: the row is written with the transition it tells of.
HistoryInv ==
    /\ history \in [Row -> Seq(Entry)]
    /\ \A c \in Row : rows[c].there => history[c] # << >>
    /\ PgAuditAccounts

LEMMA CreationAccounts ==
  LET e == [from |-> "none", to |-> "PENDING"] IN
  << e >> \in Seq(Entry) /\ AccountsFor(<< e >>, "PENDING")
<1> DEFINE e == [from |-> "none", to |-> "PENDING"]
<1>1. e \in Entry /\ e["from"] = "none" /\ e["to"] = "PENDING" /\ "none" \notin RecordState
  BY DEF Entry, RecordState
<1> HIDE DEF e
<1>2. << >> \in Seq(Entry) /\ Append(<< >>, e) = << e >>
  BY <1>1
<1>3. ASSUME NEW s \in RecordState
      PROVE  /\ Times(<< e >>, "to", s) = IF "PENDING" = s THEN 1 ELSE 0
             /\ Times(<< e >>, "from", s) = 0
  <2>1. /\ Times(Append(<< >>, e), "to", s) = Times(<< >>, "to", s) + (IF "PENDING" = s THEN 1 ELSE 0)
        /\ Times(Append(<< >>, e), "from", s) = Times(<< >>, "from", s) + 0
    BY <1>1, <1>2, TimesAppend
  <2> QED
    BY <1>2, <2>1, TimesNone
<1>4. AccountsFor(<< e >>, "PENDING")
  BY <1>3 DEF AccountsFor
<1> QED
  BY <1>1, <1>4 DEF e

LEMMA HistoryStep == PgInv /\ HistoryInv /\ [PgNext]_pgVars => HistoryInv'
<1> SUFFICES ASSUME PgInv, HistoryInv, [PgNext]_pgVars PROVE HistoryInv'
  OBVIOUS
<1>t. history \in [Row -> Seq(Entry)] /\ DOMAIN rows = Row
  BY DEF HistoryInv, PgInv, RowsType
<1>1. ASSUME NEW c \in Row, PgCreate(c) PROVE HistoryInv'
  <2> DEFINE first == <<[from |-> "none", to |-> "PENDING"]>>
  <2>1. /\ history' = [history EXCEPT ![c] = first]
        /\ rows'[c].state = "PENDING"
        /\ \A d \in Row \ {c} : rows'[d] = rows[d]
    BY <1>1, <1>t DEF PgCreate, NoChallengeRow
  <2>2. first \in Seq(Entry) /\ AccountsFor(first, "PENDING") /\ first # << >>
    BY CreationAccounts
  <2> HIDE DEF first
  <2>3. history' \in [Row -> Seq(Entry)]
    BY <1>t, <2>1, <2>2
  <2>4. ASSUME NEW d \in Row
        PROVE  /\ rows'[d].there => history'[d] # << >>
               /\ history'[d] # << >> => AccountsFor(history'[d], rows'[d].state)
    BY <1>t, <2>1, <2>2 DEF HistoryInv, PgAuditAccounts
  <2> QED
    BY <2>3, <2>4 DEF HistoryInv, PgAuditAccounts
<1>2. ASSUME NEW c \in Row, NEW step \in Asked, PgTransition(c, step[1], step[2])
      PROVE  HistoryInv'
  <2> DEFINE to == step[2]
             e == [from |-> step[1], to |-> to]
  <2>1. to \in RecordState /\ step[1] \in RecordState /\ e \in Entry
        /\ e.from = step[1] /\ e.to = to
    BY DEF Asked, RecordState, Entry
  <2>2. /\ rows[c].there /\ rows[c].state = step[1]
        /\ rows'[c].state = to
        /\ \A d \in Row \ {c} : rows'[d] = rows[d]
        /\ history' = [history EXCEPT ![c] = Append(history[c], e)]
    BY <1>2, <1>t DEF PgTransition, UpdateRow, Visible, PgInv, RowsType
  <2> HIDE DEF e, to
  <2>3. history[c] # << >> /\ history[c] \in Seq(Entry) /\ AccountsFor(history[c], rows[c].state)
    BY <1>t, <2>2 DEF HistoryInv, PgAuditAccounts
  <2>4. AccountsFor(Append(history[c], e), to)
    BY <2>1, <2>2, <2>3, AccountsContinue
  <2>5. Append(history[c], e) \in Seq(Entry) /\ Append(history[c], e) # << >>
    BY <2>1, <2>3
  <2>6. history' \in [Row -> Seq(Entry)]
    BY <1>t, <2>2, <2>5
  <2>7. ASSUME NEW d \in Row
        PROVE  /\ rows'[d].there => history'[d] # << >>
               /\ history'[d] # << >> => AccountsFor(history'[d], rows'[d].state)
    BY <1>t, <2>2, <2>4, <2>5 DEF HistoryInv, PgAuditAccounts
  <2> QED
    BY <2>6, <2>7 DEF HistoryInv, PgAuditAccounts
<1>3. ASSUME UNCHANGED history,
             \A c \in Row : rows'[c].state = rows[c].state /\ (rows'[c].there => rows[c].there)
      PROVE  HistoryInv'
  BY <1>3 DEF HistoryInv, PgAuditAccounts
<1>4. ASSUME NEW c \in Row, PgMarkUsed(c) PROVE HistoryInv'
  BY <1>3, <1>4 DEF PgMarkUsed
<1>5. CASE Cleanup
  <2>1. \A c \in Row : \E gone : rows'[c] = [rows[c] EXCEPT !.deleted = gone]
    BY <1>5 DEF Cleanup
  <2>2. \A c \in Row : rows'[c].state = rows[c].state /\ (rows'[c].there => rows[c].there)
    BY <2>1 DEF PgInv, RowsType
  <2> QED
    BY <1>3, <1>5, <2>2 DEF Cleanup
<1>6. CASE PurgeDeleted
  <2>1. \A c \in Row : rows'[c] = rows[c] \/ rows'[c] = [rows[c] EXCEPT !.there = FALSE]
    BY <1>6 DEF PurgeDeleted
  <2>2. \A c \in Row : rows'[c].state = rows[c].state /\ (rows'[c].there => rows[c].there)
    BY <2>1 DEF PgInv, RowsType
  <2> QED
    BY <1>3, <1>6, <2>2 DEF PurgeDeleted
<1>7. CASE RowsAge
  <2> DEFINE Older(c) == [rows[c] EXCEPT
                            !.age = IF @ < RowTTL THEN @ + 1 ELSE @,
                            !.delivered = IF rows[c].state = "DELIVERED" /\ @ < DeliveredRowTTL
                                          THEN @ + 1 ELSE @]
  <2>1. \A c \in Row : rows'[c] = rows[c] \/ rows'[c] = Older(c)
    BY <1>7 DEF RowsAge
  <2>2. \A c \in Row : Older(c).state = rows[c].state /\ Older(c).there = rows[c].there
    BY DEF PgInv, RowsType
  <2> HIDE DEF Older
  <2>3. \A c \in Row : rows'[c].state = rows[c].state /\ (rows'[c].there => rows[c].there)
    BY <2>1, <2>2
  <2> QED
    BY <1>3, <1>7, <2>3 DEF RowsAge
<1>8. CASE UNCHANGED pgVars
  BY <1>3, <1>8 DEF pgVars
<1> QED
  BY <1>1, <1>2, <1>4, <1>5, <1>6, <1>7, <1>8 DEF PgNext

\* The audit table tells the whole history of every challenge, also of one whose
\* row is gone (postgres.ts:345-440).
THEOREM PgHistoryIsWhole == PgSpec => []PgAuditAccounts
<1>1. PgInit => HistoryInv
  BY DEF PgInit, HistoryInv, PgAuditAccounts, NoChallengeRow
<1>2. HistoryInv => PgAuditAccounts
  BY DEF HistoryInv
<1> QED
  BY <1>1, <1>2, PgInit_Inv, PgNext_Inv, HistoryStep, PTL DEF PgSpec

\* The types of the tables, which the invariants above need only in part.
LEMMA PgTypeInit == PgInit => PgTypeOK
<1> SUFFICES ASSUME PgInit PROVE PgTypeOK
  OBVIOUS
<1>1. 0 \in 0..RowTTL /\ 0 \in 0..DeliveredRowTTL
  BY RowAssumption
<1>2. NoChallengeRow \in ChallengeRow
  BY <1>1 DEF NoChallengeRow, ChallengeRow, RecordState
<1> QED
  BY <1>2 DEF PgInit, PgTypeOK

LEMMA PgTypeStep == PgTypeOK /\ [PgNext]_pgVars => PgTypeOK'
<1> SUFFICES ASSUME PgTypeOK, [PgNext]_pgVars PROVE PgTypeOK'
  OBVIOUS
<1>t. /\ rows \in [Row -> ChallengeRow] /\ history \in [Row -> Seq(Entry)]
      /\ seenRow \in Row \cup {NoRow}
      /\ claim \in [Row -> {"none", "asked", "won", "lost"}]
  BY DEF PgTypeOK
<1>1. ASSUME NEW c \in Row, PgCreate(c) PROVE PgTypeOK'
  <2> DEFINE new == [NoChallengeRow EXCEPT !.there = TRUE]
             first == <<[from |-> "none", to |-> "PENDING"]>>
  <2>1. 0 \in 0..RowTTL /\ 0 \in 0..DeliveredRowTTL
    BY RowAssumption
  <2>2. new \in ChallengeRow
    BY <2>1 DEF NoChallengeRow, ChallengeRow, RecordState
  <2>3. first \in Seq(Entry)
    BY CreationAccounts
  <2>4. /\ rows' = [rows EXCEPT ![c] = new] /\ history' = [history EXCEPT ![c] = first]
        /\ UNCHANGED <<seenRow, claim>>
    BY <1>1 DEF PgCreate
  <2> HIDE DEF new, first
  <2> QED
    BY <1>t, <2>2, <2>3, <2>4 DEF PgTypeOK
<1>2. ASSUME NEW c \in Row, NEW step \in Asked, PgTransition(c, step[1], step[2])
      PROVE  PgTypeOK'
  <2> DEFINE e == [from |-> step[1], to |-> step[2]]
             row == [rows[c] EXCEPT !.state = step[2],
                                    !.grant = @ \/ (step[1] = "PAID" /\ step[2] = "PAID")]
  <2>1. step[2] \in RecordState /\ e \in Entry
    BY DEF Asked, RecordState, Entry
  <2>2. row \in ChallengeRow
    BY <1>t, <2>1 DEF ChallengeRow
  <2>3. rows' = [rows EXCEPT ![c] = row]
    BY <1>2, <1>t DEF PgTransition, UpdateRow, ChallengeRow
  <2>4. history' = [history EXCEPT ![c] = Append(history[c], e)] /\ seenRow' = seenRow
    BY <1>2 DEF PgTransition
  <2>5. Append(history[c], e) \in Seq(Entry)
    BY <1>t, <2>1
  <2>6. claim' \in [Row -> {"none", "asked", "won", "lost"}]
    BY <1>2, <1>t DEF PgTransition, UpdateRow
  <2> HIDE DEF row, e
  <2> QED
    BY <1>t, <2>2, <2>3, <2>4, <2>5, <2>6 DEF PgTypeOK
<1>3. ASSUME NEW c \in Row, PgMarkUsed(c) PROVE PgTypeOK'
  BY <1>3, <1>t DEF PgMarkUsed, PgTypeOK
<1>4. CASE Cleanup
  <2> DEFINE Swept(c) == [rows[c] EXCEPT !.deleted = @ \/ (rows[c].there /\ Outdated(c))]
  <2>1. rows' = [c \in Row |-> Swept(c)] /\ UNCHANGED <<history, seenRow, claim>>
    BY <1>4 DEF Cleanup
  <2>2. ASSUME NEW c \in Row PROVE Swept(c) \in ChallengeRow
    <3>1. (rows[c].deleted \/ (rows[c].there /\ Outdated(c))) \in BOOLEAN
      BY Zenon
    <3> QED
      BY <1>t, <3>1 DEF ChallengeRow
  <2> HIDE DEF Swept
  <2>3. rows' \in [Row -> ChallengeRow]
    BY <2>1, <2>2
  <2> QED
    BY <1>t, <2>1, <2>3 DEF PgTypeOK
<1>5. CASE PurgeDeleted
  <2>1. PICK gone : rows' = [c \in Row |-> IF c \in gone THEN [rows[c] EXCEPT !.there = FALSE]
                                           ELSE rows[c]]
    BY <1>5 DEF PurgeDeleted
  <2>2. \A c \in Row : [rows[c] EXCEPT !.there = FALSE] \in ChallengeRow
    BY <1>t DEF ChallengeRow
  <2>3. rows' \in [Row -> ChallengeRow]
    BY <1>t, <2>1, <2>2
  <2> QED
    BY <1>5, <1>t, <2>3 DEF PurgeDeleted, PgTypeOK
<1>6. CASE RowsAge
  <2> DEFINE Older(c) == [rows[c] EXCEPT
                            !.age = IF @ < RowTTL THEN @ + 1 ELSE @,
                            !.delivered = IF rows[c].state = "DELIVERED" /\ @ < DeliveredRowTTL
                                          THEN @ + 1 ELSE @]
  <2>1. rows' = [c \in Row |-> IF ~ rows[c].there THEN rows[c] ELSE Older(c)]
    BY <1>6 DEF RowsAge
  <2>2. ASSUME NEW c \in Row PROVE Older(c) \in ChallengeRow
    <3>1. rows[c].age \in 0..RowTTL /\ rows[c].delivered \in 0..DeliveredRowTTL
      BY <1>t DEF ChallengeRow
    <3>2. /\ (IF rows[c].age < RowTTL THEN rows[c].age + 1 ELSE rows[c].age) \in 0..RowTTL
          /\ (IF rows[c].state = "DELIVERED" /\ rows[c].delivered < DeliveredRowTTL
              THEN rows[c].delivered + 1 ELSE rows[c].delivered) \in 0..DeliveredRowTTL
      BY <3>1, RowAssumption
    <3> QED
      BY <1>t, <3>2 DEF ChallengeRow
  <2> HIDE DEF Older
  <2>3. rows' \in [Row -> ChallengeRow]
    BY <1>t, <2>1, <2>2
  <2> QED
    BY <1>6, <1>t, <2>3 DEF RowsAge, PgTypeOK
<1>7. CASE UNCHANGED pgVars
  BY <1>7 DEF pgVars, PgTypeOK
<1> QED
  BY <1>1, <1>2, <1>3, <1>4, <1>5, <1>6, <1>7 DEF PgNext
=============================================================================

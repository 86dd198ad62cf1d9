SPECIFICATION Spec
CONSTANTS
    Wallet = a
    Second = b
    Task = {a, b}
    NoTask = NoTask
    Client = {u1, u2}
    RecordTTL = 3
    DeliveredTTL = 2
    RequestTTL = 1
    SeenTxTTL = 3
    MaxAudit = 6
    Row = {c1, c2}
    NoRow = NoRow
    RowTTL = 2
    DeliveredRowTTL = 1
    MaxRowAudit = 5
    MaxAttempt = 3
    Caller = {u1, u2}
    TokenLife = 4
    LastTick = 8
    Saver = {r1, r2}
    Instance = {i1, i2}
    Interval = {m1, m5}
    Sender = {p1, p2}
    NoSender = NoSender
    Required = 2
    MaxValue = 2
    MaxEvents = 2
INVARIANTS
    InfrastructureTypeOK
    OverlapOnlyAfterTTL
    RedisAuditAccounts
    AuditCoversRecord
    IndexLeadsToRecord
    ClaimCoversRecord
    PgAuditAccounts
    PgOwedIsScanned
    PgGrantOwnsTx
    NoAttemptBesideAnother
    TokenOutlivesItsUse
    SavedPlansAreServed
    RefundJobIsScheduled
    VerdictIsRight
PROPERTIES
    LockIsTakenFromNobody
    KeepsSettleOnce
    CallIsAnswered
    GhostIsRemoved
    IssueEnds
CHECK_DEADLOCK FALSE

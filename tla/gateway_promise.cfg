SPECIFICATION Spec

CONSTANTS
    Challenge = {c1, c2}
    Request = {r1}
    Tx = {t1, t2}
    Handler = {h1, h2}
    Cron = {k1, k2}
    NoChallenge = NoChallenge
    NoRequest = NoRequest
    NoTx = NoTx
    Faults = {"handler_lost"}
    BatchSize = 2
    MaxAttempts = 1
    MaxPayouts = 2

SYMMETRY IdSymmetry

INVARIANTS
    GrantOwnsTx
    DeliveredOnce
    OneRefundRunPerChallenge
    RefundReachesPayer

PROPERTIES
    KeepsPromise
    GrantNeverRefunded

SPECIFICATION Spec

CONSTANTS
    Challenge = {c1, c2}
    Request = {r1}
    Tx = {t1}
    Handler = {h1, h2}
    Cron = {k1}
    NoChallenge = NoChallenge
    NoRequest = NoRequest
    NoTx = NoTx
    Faults = {}
    BatchSize = 1
    MaxAttempts = 1
    MaxPayouts = 1

INVARIANTS
    NoDuplicateChallenge

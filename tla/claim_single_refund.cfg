SPECIFICATION Spec

CONSTANTS
    Challenge = {c1}
    Request = {r1}
    Tx = {t1}
    Handler = {h1}
    Cron = {k1}
    NoChallenge = NoChallenge
    NoRequest = NoRequest
    NoTx = NoTx
    Faults = {"receipt_timeout"}
    BatchSize = 1
    MaxAttempts = 2
    MaxPayouts = 2

INVARIANTS
    RefundsCannotDoubleFire

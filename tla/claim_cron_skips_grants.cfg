SPECIFICATION Spec

CONSTANTS
    Challenge = {c1}
    Request = {r1}
    Tx = {t1}
    Handler = {h1}
    Cron = {k1}
    NoChallenge = NoChallenge
    NoRequest = NoRequest
    NoTx = NoTx
    Faults = {"slow_handler"}
    BatchSize = 1
    MaxAttempts = 1
    MaxPayouts = 1

INVARIANTS
    CronSkipsGrants

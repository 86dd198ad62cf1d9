SPECIFICATION FairSpec

CONSTANTS
    Challenge = {c1, c2}
    Request = {r1}
    Tx = {t1}
    Handler = {h1}
    Cron = {k1}
    NoChallenge = NoChallenge
    NoRequest = NoRequest
    NoTx = NoTx
    Faults = {"handler_lost", "mark_lost", "payer_unknown", "receipt_timeout"}
    BatchSize = 2
    MaxAttempts = 2
    MaxPayouts = 2

PROPERTIES
    UnservedPaymentIsClaimed
    ClaimedRefundIsDecided

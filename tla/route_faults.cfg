SPECIFICATION MCSpec
CONSTANTS
    Challenge = {c1, c2}
    Request = {r1}
    Tx = {t1}
    Handler = {h1}
    RouteCall = {q1, q2}
    Cron = {k1}
    NoChallenge = NoChallenge
    NoRequest = NoRequest
    NoTx = NoTx
    Faults = {"handler_lost", "mark_lost", "payer_unknown", "slow_handler", "receipt_timeout", "confirm_error", "cron_lost"}
    RouteFaults = {"call_lost", "delivery_lost"}
    Deployments <- EachDeployment
    BatchSize = 1
    MaxAttempts = 1
    MaxPayouts = 2
    MaxProvided = 2
    MaxCalls = 2
SYMMETRY IdSymmetry
INVARIANTS
    OnePurchase
CHECK_DEADLOCK FALSE

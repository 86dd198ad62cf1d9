SPECIFICATION Spec

CONSTANTS
    Challenge = {c1}
    Request = {r1}
    Tx = {t1, t2}
    Handler = {}
    RouteCall = {q1}
    Cron = {k1}
    NoChallenge = NoChallenge
    NoRequest = NoRequest
    NoTx = NoTx
    Faults = {}
    RouteFaults = {}
    Deployments <- ExpressOnly
    BatchSize = 1
    MaxAttempts = 1
    MaxPayouts = 1
    MaxProvided = 1
    MaxCalls = 3

INVARIANTS
    FailedRoutePaymentStaysRefundable

CHECK_DEADLOCK FALSE

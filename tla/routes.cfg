SPECIFICATION MCSpec
CONSTANTS
    Challenge = {c1, c2}
    Request = {r1}
    Tx = {t1, t2}
    Handler = {h1}
    RouteCall = {q1, q2}
    Cron = {k1}
    NoChallenge = NoChallenge
    NoRequest = NoRequest
    NoTx = NoTx
    Faults = {}
    RouteFaults = {"call_lost"}
    Deployments <- EachDeployment
    BatchSize = 1
    MaxAttempts = 1
    MaxPayouts = 2
    MaxProvided = 2
    MaxCalls = 2
SYMMETRY IdSymmetry
INVARIANTS
    TypeOK
    RoutePaidSetComplete
    PprDeliveredIsProvided
PROPERTIES
    RouteKeepsPromise
CHECK_DEADLOCK FALSE

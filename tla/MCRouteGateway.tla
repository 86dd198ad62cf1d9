--------------------------- MODULE MCRouteGateway ---------------------------
(***************************************************************************)
(* RouteGateway for TLC: the deployments its runs look at.                 *)
(***************************************************************************)
EXTENDS RouteGateway, TLC

Deploy(framework, backend, recordsPpr) ==
    [framework |-> framework, backend |-> backend, recordsPpr |-> recordsPpr]

\* Every framework, every way to name a backend, and once each: middleware
\* without a store, and hand-assembled classes.
EachDeployment ==
    {Deploy("express", "proxyTo", TRUE), Deploy("express", "embedded", FALSE),
     Deploy("hono", "fetchResource", TRUE), Deploy("fastify", "embedded", TRUE),
     Deploy("assembled", "proxyTo", FALSE)}

\* The bound on calls is kept low; in some initial states an earlier call has
\* left a challenge to be paid, so that the calls counted are those that pay.
AskedBefore ==
    \E c \in Challenge, r \in Request :
        /\ challenges = [d \in Challenge |->
                            IF d = c THEN [AbsentRecord EXCEPT !.state = "PENDING",
                                                               !.requestId = r]
                                     ELSE AbsentRecord]
        /\ requestIndex = [s \in Request |-> IF s = r THEN c ELSE NoChallenge]
        /\ paidSet = {}
        /\ seenTx = [t \in Tx |-> NoChallenge]
        /\ EngineInit /\ CronInit /\ RouteInit /\ calls = 0

MCInit == Init \/ AskedBefore

MCSpec == MCInit /\ [][Next]_vars

\* No definition tells two ids of one kind apart.
IdSymmetry == Permutations(Challenge) \cup Permutations(Tx) \cup Permutations(RouteCall)
=============================================================================

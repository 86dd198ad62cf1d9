---------------------------- MODULE RouteGateway ----------------------------
(***************************************************************************)
(* The whole gateway: plan calls (ChallengeEngine) as the integrations     *)
(* make them, route calls (RouteFlow, PayPerRequest, AgentRoutes) and      *)
(* refund runs (RefundCron) over one store, in each deployment.            *)
(***************************************************************************)
EXTENDS PayPerRequest, AgentRoutes, RefundCron

CONSTANTS MaxCalls      \* bound on the calls that clients make

ASSUME CallsAssumption == MaxCalls \in Nat \ {0}

VARIABLES calls         \* how many calls clients have made

vars == <<storeVars, engineVars, cronVars, routeVars, calls>>

Init == StoreInit /\ EngineInit /\ CronInit /\ RouteInit /\ calls = 0

CallBegins == calls < MaxCalls /\ calls' = calls + 1

-----------------------------------------------------------------------------
\* ChallengeEngine takes any id that has no record; ids that route calls have
\* taken are none.
NoIdTwice ==
    \A c \in Challenge :
        challenges[c].state = "ABSENT" /\ ~ Fresh(c) => challenges'[c].state = "ABSENT"

\* A plan call of one of these kinds goes on.
PlanStep(h, kinds) ==
    handler[h].kind \in kinds /\ HandlerStep(h) /\ NoIdTwice /\ UNCHANGED calls

\* Plan calls, from the request to the answer, as each integration makes them.
\* The A2A executor takes the requestId of a stored challenge; the MCP tool
\* derives one from the payment; neither looks before it settles.
AskForPlan(h) ==
    \/ (\E r \in Request : RequestAccess(h, r)) /\ CallBegins
    \/ PlanStep(h, {"access"})

PayForPlan(h) ==
    \/ (\E r \in Request, t \in Tx : PreSettlementCheck(h, r, t)) /\ CallBegins
    \/ PlanStep(h, {"http"})

ExpressPlanChallenge(h) == Runs("express") /\ AskForPlan(h)
ExpressPlanPayment(h) == Runs("express") /\ PayForPlan(h)

HonoPlanChallenge(h) == Runs("hono") /\ AskForPlan(h)
HonoPlanPayment(h) == Runs("hono") /\ PayForPlan(h)

FastifyPlanChallenge(h) == Runs("fastify") /\ AskForPlan(h)
FastifyPlanPayment(h) == Runs("fastify") /\ PayForPlan(h)

\* The agents' protocols are mounted on Express, or assembled by hand.
Agents == Runs("express") \/ Runs("assembled")

\* handleAccessRequest for a route, which needs a backend, and for a plan. A free
\* route is fetched at once and changes nothing.
A2ARouteRequest(h) == Agents /\ deployment.backend # "embedded" /\ AskForPlan(h)
A2APlanRequest(h) == Agents /\ AskForPlan(h)

\* handleX402PaymentSubmission for a plan.
A2APlan(h) ==
    /\ Agents
    /\ \/ /\ \E c \in Challenge, t \in Tx :
                /\ challenges[c].requestId # NoRequest
                /\ SettleUnchecked(h, challenges[c].requestId, t)
          /\ CallBegins
       \/ PlanStep(h, {"agent", "http"})

McpPlan(h) ==
    /\ Agents
    /\ \/ (\E r \in Request, t \in Tx : SettleUnchecked(h, r, t)) /\ CallBegins
       \/ PlanStep(h, {"agent", "http"})

PlanCall(h) ==
    \/ ExpressPlanChallenge(h) \/ ExpressPlanPayment(h)
    \/ HonoPlanChallenge(h) \/ HonoPlanPayment(h)
    \/ FastifyPlanChallenge(h) \/ FastifyPlanPayment(h)
    \/ A2ARouteRequest(h) \/ A2APlanRequest(h) \/ A2APlan(h) \/ McpPlan(h)

-----------------------------------------------------------------------------
\* minAgeMs is chosen longer than any call lasts; slow_handler drops that.
RouteGracePeriodPasses(c) ==
    /\ \/ "slow_handler" \in Faults
       \/ /\ \A h \in Handler : ~ Serving(h, c)
          /\ \A q \in RouteCall : ~ ServingRoute(q, c)
    /\ PaymentAges(c)

RouteStep(q) ==
    /\ AccessStep(q) \/ PprStep(q) \/ AgentStep(q)
    /\ UNCHANGED deployment
    /\ IF CallAt(q, "idle") THEN CallBegins ELSE UNCHANGED calls

Next ==
    \/ /\ \E h \in Handler :
             \/ PlanCall(h)
             \/ HandlerLost(h) /\ UNCHANGED calls
       /\ UNCHANGED <<routeVars, cronVars>>
    \/ /\ \E q \in RouteCall :
             \/ RouteStep(q)
             \/ RouteCallLost(q) /\ UNCHANGED <<deployment, calls>>
       /\ UNCHANGED <<handler, served, cronVars>>
    \/ CronNext /\ UNCHANGED <<engineVars, routeVars, calls>>
    \/ /\ \E c \in Challenge : ChallengeLapses(c) \/ RouteGracePeriodPasses(c)
       /\ UNCHANGED <<engineVars, routeVars, cronVars, calls>>
    \/ /\ \E r \in Request : RequestKeyExpires(r)
       /\ UNCHANGED <<engineVars, routeVars, cronVars, calls>>

Spec == Init /\ [][Next]_vars

-----------------------------------------------------------------------------
TypeOK == StoreTypeOK /\ EngineTypeOK /\ CronTypeOK /\ RouteTypeOK

\* PaymentPromise of the whole gateway: whichever of the ways to use it a
\* client tries, and in whatever order, a transfer buys one grant or one
\* response or is refunded once, and only one of these.
Outcome ==
    [t \in Tx |->
        IF provided[t] + Cardinality(served[t]) + payouts[t] > 1 THEN "broken"
        ELSE IF provided[t] + Cardinality(served[t]) > 0 THEN "served"
        ELSE IF payouts[t] > 0 THEN "refunded"
        ELSE IF t \in settled THEN "paid"
        ELSE "unpaid"]

Promise == INSTANCE PaymentPromise WITH outcome <- Outcome

RouteKeepsPromise == Promise!Spec

\* A transfer buys one grant or one response, whatever fails: this half of the
\* promise outlives every fault, also those that break the other one.
OnePurchase == \A t \in Tx : provided[t] + Cardinality(served[t]) <= 1

\* The refund job can find every payment it owes, whoever recorded it: a record
\* that is PAID without a grant is in the set it scans. (Not so where the
\* classes were assembled by hand: assertPaidState takes the record out.)
RoutePaidSetComplete ==
    ~ Runs("assembled") =>
        \A c \in Challenge :
            /\ challenges[c].state = "PAID" /\ challenges[c].accessGrant = NoTx
                 => c \in paidSet
            /\ c \in paidSet => challenges[c].state = "PAID"

\* A payment that the middleware recorded is DELIVERED only if its client had a
\* response for that very transfer: an error of the backend, a lost call or a
\* refund run in between never close an unanswered payment.
PprDeliveredIsProvided ==
    \A c \in Challenge :
        challenges[c].state = "DELIVERED" /\ challenges[c].requestId = NoRequest
            => provided[challenges[c].txHash] > 0
=============================================================================

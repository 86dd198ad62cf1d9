---------------------------- MODULE PayPerRequest ----------------------------
(***************************************************************************)
(* The payPerRequest middleware (src/integrations/pay-per-request.ts).     *)
(* Every call has a challengeId of its own, which is also its requestId    *)
(* and which no client ever names, so the request index plays no part.     *)
(* The seller mounts it on a path of its own ("ppr"); a gateway that knows *)
(* its backend mounts it on the path of every route ("auto").              *)
(***************************************************************************)
EXTENDS RouteFlow

IsPpr(q) == routeCall[q].kind \in {"ppr", "auto"}

\* Of the two ways a configuration names a backend the middleware knows one.
\* (Options given with the route count as proxyTo.)
Direct == deployment.backend = "proxyTo"

\* The factories of the integrations pass their store; the exported middleware
\* may have none.
Records(q) == routeCall[q].kind = "auto" \/ deployment.recordsPpr

\* A request that carries a payment. Without one the answer is 402, a free route
\* goes straight to the backend: neither changes anything.
PresentPpr(q, t) ==
    /\ ~ Runs("assembled")
    /\ \E kind \in {"ppr", "auto"} :
          /\ kind = "auto" => deployment.backend # "embedded"
          /\ Begin(q, [NoCall EXCEPT !.pc = "settle", !.kind = kind, !.tx = t])
    /\ UNCHANGED <<storeVars, settled, provided>>

\* markUsed under the new challengeId, the only guard against a second use.
MarkPpr(q, c) ==
    /\ CallAt(q, "mark") /\ IsPpr(q)
    /\ Fresh(c)
    /\ \/ /\ MarkUsed(routeCall[q].tx, c)
          /\ IF Records(q)
             THEN routeCall' = [routeCall EXCEPT ![q].pc = "create", ![q].challenge = c]
             ELSE CallGoto(q, "fetch")
       \/ /\ seenTx[routeCall[q].tx] # NoChallenge
          /\ UNCHANGED storeVars
          /\ CallReturn(q)
    /\ UNCHANGED <<settled, provided>>

\* store.create.
CreatePpr(q) ==
    /\ CallAt(q, "create") /\ IsPpr(q)
    /\ challenges' = [challenges EXCEPT ![routeCall[q].challenge].state = "PENDING"]
    /\ CallGoto(q, "pay")
    /\ UNCHANGED <<requestIndex, paidSet, seenTx, settled, provided>>

\* PENDING -> PAID, whose refusal ends the call.
PayPpr(q) ==
    LET c == routeCall[q].challenge
        t == routeCall[q].tx
    IN
    /\ CallAt(q, "pay") /\ IsPpr(q)
    /\ \/ /\ \E from \in Payers(t) :
                Transition(c, "PENDING", "PAID", TRUE, Paid(challenges[c], t, from))
          /\ CallGoto(q, "fetch")
       \/ TransitionRefused(c, "PENDING") /\ CallReturn(q)
    /\ UNCHANGED <<settled, provided>>

\* settleAndRecordForRoute.
SettleAndRecord(q) ==
    \/ IsPpr(q) /\ SettleRoute(q)
    \/ \E c \in Challenge : MarkPpr(q, c)
    \/ CreatePpr(q)
    \/ PayPpr(q)

\* Who answers: the backend, or the local handler behind the middleware. A path
\* the gateway mounted by itself has none, and the framework answers 404.
Answers(q) == IF routeCall[q].kind = "auto" /\ ~ Direct THEN {"error"} ELSE Answer

\* Mutated form of PprAnswer: DELIVERED is written whatever the answer was.
PprAnswerAny(q) ==
    IsPpr(q) /\ (CallBackend(q, Answers(q), {"2xx", "3xx"}) \/ MarkDelivered(q)
                   \/ (CallAt(q, "fetch") /\ CallGoto(q, "deliver")
                        /\ UNCHANGED <<storeVars, settled, provided>>))

\* The answer, and DELIVERED for one below 400. A call without a record has
\* nothing to write.
PprAnswer(q) ==
    IsPpr(q) /\ (CallBackend(q, Answers(q), {"2xx", "3xx"}) \/ MarkDelivered(q))

\* Where the middleware of a framework stands: what it does in front of
\* settleAndRecordForRoute, and after it.
ExpressPpr(q) == Runs("express") /\ ((\E t \in Tx : PresentPpr(q, t)) \/ PprAnswer(q))
HonoPpr(q) == Runs("hono") /\ ((\E t \in Tx : PresentPpr(q, t)) \/ PprAnswer(q))
FastifyPpr(q) == Runs("fastify") /\ ((\E t \in Tx : PresentPpr(q, t)) \/ PprAnswer(q))

PprStep(q) == SettleAndRecord(q) \/ ExpressPpr(q) \/ HonoPpr(q) \/ FastifyPpr(q)
=============================================================================

----------------------------- MODULE AgentRoutes -----------------------------
(***************************************************************************)
(* Paid routes over MCP (src/integrations/mcp.ts) and A2A                  *)
(* (src/executor.ts), and the engine operations made for them:             *)
(* recordPerRequestPayment, assertPaidState, markDelivered and             *)
(* initiateRefund.                                                         *)
(*                                                                         *)
(* Both handlers pass the id of a route where recordPerRequestPayment      *)
(* looks for the id of a plan. createKey0 rejects a configuration in which *)
(* one id is both, so the steps after that lookup are taken only where the *)
(* exported classes were assembled without that check.                     *)
(***************************************************************************)
EXTENDS RouteFlow

IsAgent(q) == routeCall[q].kind \in {"mcp", "a2a"}

\* The MCP tool access with a routeId and a payment; it looks for a backend
\* before it settles.
PayOverMcp(q, r, t) ==
    /\ Runs("express") \/ Runs("assembled")
    /\ deployment.backend # "embedded"
    /\ Begin(q, [NoCall EXCEPT !.pc = "settle", !.kind = "mcp",
                               !.requestId = r, !.tx = t])
    /\ UNCHANGED <<storeVars, settled, provided>>

\* An A2A payment names a challenge, whose record need only exist.
PayOverA2A(q, c, t) ==
    /\ Runs("express") \/ Runs("assembled")
    /\ challenges[c].state # "ABSENT"
    /\ Begin(q, [NoCall EXCEPT !.pc = "settle", !.kind = "a2a",
                               !.requestId = challenges[c].requestId, !.tx = t])
    /\ UNCHANGED <<storeVars, settled, provided>>

\* findPlan of an id that a route carries.
PlanHasRouteId == Runs("assembled")

\* The checks at the start of recordPerRequestPayment, after the settlement: the
\* plan, then the seen-transaction key. An A2A call gives up before them when it
\* finds no backend.
CheckPlanAndTx(q) ==
    /\ CallAt(q, "record")
    /\ IF /\ deployment.backend # "embedded"
          /\ PlanHasRouteId
          /\ seenTx[routeCall[q].tx] = NoChallenge
       THEN CallGoto(q, "find")
       ELSE CallReturn(q)
    /\ UNCHANGED <<storeVars, settled, provided>>

\* Mutated form of FindRouteRecord: the record found is not the one paid.
FindRouteRecordUnkept(q) ==
    LET r == routeCall[q].requestId IN
    /\ CallAt(q, "find")
    /\ CallGoto(q, IF FoundState(r) = "PENDING" THEN "pay" ELSE "create")
    /\ UNCHANGED <<storeVars, settled, provided>>

\* The record to pay: the PENDING one of the request, or a new one. A delivered,
\* expired or cancelled request ends the call.
FindRouteRecord(q) ==
    LET r == routeCall[q].requestId IN
    /\ CallAt(q, "find")
    /\ \/ FoundState(r) \in {"DELIVERED", "EXPIRED", "CANCELLED"} /\ CallReturn(q)
       \/ /\ FoundState(r) = "PENDING"
          /\ routeCall' = [routeCall EXCEPT ![q].pc = "pay", ![q].challenge = FoundId(r)]
       \/ /\ FoundState(r) \notin {"PENDING", "DELIVERED", "EXPIRED", "CANCELLED"}
          /\ CallGoto(q, "create")
    /\ UNCHANGED <<storeVars, settled, provided>>

CreateRouteRecord(q, c) ==
    /\ CallAt(q, "create") /\ IsAgent(q)
    /\ Fresh(c)
    /\ Create(c, routeCall[q].requestId)
    /\ routeCall' = [routeCall EXCEPT ![q].pc = "pay", ![q].challenge = c]
    /\ UNCHANGED <<settled, provided>>

\* PENDING -> PAID, then markUsed, and back to PENDING if another call has
\* claimed the transfer: the order of processHttpPayment, not of the others.
PayRouteRecord(q) ==
    LET c == routeCall[q].challenge
        t == routeCall[q].tx
    IN
    /\ CallAt(q, "pay") /\ IsAgent(q)
    /\ \/ /\ \E from \in Payers(t) :
                Transition(c, "PENDING", "PAID", TRUE, Paid(challenges[c], t, from))
          /\ CallGoto(q, "mark")
       \/ TransitionRefused(c, "PENDING") /\ CallReturn(q)
    /\ UNCHANGED <<settled, provided>>

MarkRouteRecord(q) ==
    LET t == routeCall[q].tx IN
    /\ CallAt(q, "mark") /\ IsAgent(q)
    /\ \/ /\ MarkUsed(t, routeCall[q].challenge)
          /\ CallGoto(q, IF routeCall[q].kind = "mcp" THEN "assert" ELSE "fetch")
       \/ seenTx[t] # NoChallenge /\ UNCHANGED storeVars /\ CallGoto(q, "rollback")
    /\ UNCHANGED <<settled, provided>>

RollBackRouteRecord(q) ==
    LET c == routeCall[q].challenge IN
    /\ CallAt(q, "rollback")
    /\ \/ Transition(c, "PAID", "PENDING", FALSE, challenges[c])
       \/ TransitionRefused(c, "PAID")
    /\ CallReturn(q)
    /\ UNCHANGED <<settled, provided>>

\* The guard in front of the backend: PAID -> PAID with no update at all, which
\* takes the record out of the set the refund job scans.
AssertPaidState(q) ==
    LET c == routeCall[q].challenge IN
    /\ CallAt(q, "assert")
    /\ \/ Transition(c, "PAID", "PAID", FALSE, challenges[c]) /\ CallGoto(q, "fetch")
       \/ TransitionRefused(c, "PAID") /\ CallReturn(q)
    /\ UNCHANGED <<settled, provided>>

\* The MCP tool: an answer below 400 is delivered, anything else starts a refund.
FetchOverMcp(q) ==
    /\ routeCall[q].kind = "mcp" /\ CallAt(q, "fetch")
    /\ \/ Provide(routeCall[q].tx) /\ CallGoto(q, "deliver")
       \/ UNCHANGED provided /\ CallGoto(q, "refund")
    /\ UNCHANGED <<storeVars, settled>>

\* The executor: 2xx is delivered, other answers leave the record PAID.
FetchOverA2A(q) == routeCall[q].kind = "a2a" /\ CallBackend(q, Answer, {"2xx"})

\* PAID -> REFUND_PENDING. Refused or failed, the client is told the same.
InitiateRefund(q) ==
    LET c == routeCall[q].challenge IN
    /\ CallAt(q, "refund")
    /\ \/ Transition(c, "PAID", "REFUND_PENDING", FALSE, challenges[c])
       \/ TransitionRefused(c, "PAID")
    /\ CallReturn(q)
    /\ UNCHANGED <<settled, provided>>

\* recordPerRequestPayment.
RecordPerRequestPayment(q) ==
    \/ CheckPlanAndTx(q)
    \/ FindRouteRecord(q)
    \/ \E c \in Challenge : CreateRouteRecord(q, c)
    \/ PayRouteRecord(q)
    \/ MarkRouteRecord(q)
    \/ RollBackRouteRecord(q)

AgentStep(q) ==
    \/ \E r \in Request, t \in Tx : PayOverMcp(q, r, t)
    \/ \E c \in Challenge, t \in Tx : PayOverA2A(q, c, t)
    \/ IsAgent(q) /\ SettleRoute(q)
    \/ RecordPerRequestPayment(q)
    \/ AssertPaidState(q)
    \/ FetchOverMcp(q)
    \/ FetchOverA2A(q)
    \/ IsAgent(q) /\ MarkDelivered(q)
    \/ InitiateRefund(q)
=============================================================================

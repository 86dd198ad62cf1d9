------------------------------ MODULE RouteFlow ------------------------------
(***************************************************************************)
(* Pay-per-request: the calls that buy one response of the seller's        *)
(* backend instead of an access grant. They share the store, the           *)
(* seen-transaction keys and the chain with the calls of ChallengeEngine.  *)
(*                                                                         *)
(*   access   POST /x402/access with a routeId (express, hono, fastify)    *)
(*   ppr      payPerRequest middleware the seller mounts on a path         *)
(*   auto     the same middleware as the gateway mounts it by itself       *)
(*   mcp, a2a the MCP tool and the A2A executor with a routeId             *)
(*                                                                         *)
(* As in ChallengeEngine, an action goes from one await to the next, and   *)
(* free routes, 402 answers that store nothing and rejected requests are   *)
(* steps that change nothing.                                              *)
(***************************************************************************)
EXTENDS ChallengeEngine

CONSTANTS
    RouteCall,      \* in-flight route calls
    Deployments,    \* the configurations a model admits
    RouteFaults,    \* the ways a route call may be cut off
    MaxProvided     \* bound on the responses counted per transfer

\* framework "assembled" is a program that puts the exported classes together
\* without createKey0, whose check of the configuration keeps the ids of routes
\* and plans apart. backend says how config names the backend, if it does;
\* recordsPpr whether the middleware got a store.
Deployment == [framework  : {"express", "hono", "fastify", "assembled"},
               backend    : {"proxyTo", "fetchResource", "embedded"},
               recordsPpr : BOOLEAN]

ASSUME RouteAssumption ==
    /\ Deployments \subseteq Deployment
    /\ RouteFaults \subseteq {"call_lost",      \* before the backend has answered
                              "delivery_lost"}  \* before DELIVERED is written
    /\ MaxProvided \in Nat \ {0}

VARIABLES
    deployment,     \* the configuration; it never changes
    routeCall,      \* the locals of each in-flight route call
    provided        \* how often a transfer bought a response of the backend

routeVars == <<deployment, routeCall, provided>>

RoutePoint == {"idle", "create", "settle", "record", "find", "pay", "mark",
               "rollback", "assert", "fetch", "deliver", "refund"}

RouteLocals == [pc        : RoutePoint,
                kind      : {"none", "access", "ppr", "auto", "mcp", "a2a"},
                requestId : Request \cup {NoRequest},
                challenge : Challenge \cup {NoChallenge},
                tx        : Tx \cup {NoTx},
                pending   : BOOLEAN]    \* existingRecord was PENDING when it was read

NoCall == [pc |-> "idle", kind |-> "none", requestId |-> NoRequest,
           challenge |-> NoChallenge, tx |-> NoTx, pending |-> FALSE]

RouteTypeOK ==
    /\ deployment \in Deployments
    /\ routeCall \in [RouteCall -> RouteLocals]
    /\ provided \in [Tx -> 0..MaxProvided]
    /\ \A q \in RouteCall :
          routeCall[q].pc \in {"pay", "rollback", "assert", "refund"}
              => routeCall[q].challenge \in Challenge /\ routeCall[q].tx \in Tx

RouteInit ==
    /\ deployment \in Deployments
    /\ routeCall = [q \in RouteCall |-> NoCall]
    /\ provided = [t \in Tx |-> 0]

CallAt(q, pc) == routeCall[q].pc = pc

CallGoto(q, pc) == routeCall' = [routeCall EXCEPT ![q].pc = pc]

CallReturn(q) == routeCall' = [routeCall EXCEPT ![q] = NoCall]

Begin(q, call) == CallAt(q, "idle") /\ routeCall' = [routeCall EXCEPT ![q] = call]

\* A route call that works on a record, or may yet mark it delivered.
ServingRoute(q, c) == routeCall[q].challenge = c

\* A challengeId no one has seen: the random UUIDs of the code never collide.
Fresh(c) ==
    /\ challenges[c].state = "ABSENT"
    /\ \A t \in Tx : seenTx[t] # c
    /\ \A q \in RouteCall : routeCall[q].challenge # c

\* The record a requestId leads to; a request without one gets a fresh
\* requestId, which leads nowhere.
FoundId(r) == IF r = NoRequest THEN NoChallenge ELSE requestIndex[r]

FoundState(r) == IF FoundId(r) = NoChallenge THEN "ABSENT"
                 ELSE challenges[FoundId(r)].state

-----------------------------------------------------------------------------
\* POST /x402/access with a routeId. The three frameworks hold a copy each of
\* this handler; express.ts is the one followed here.

\* No payment: a PENDING record of this request is named again, lapsed or not.
AskPrice(q, r) ==
    /\ FoundState(r) # "PENDING"
    /\ Begin(q, [NoCall EXCEPT !.pc = "create", !.kind = "access", !.requestId = r])
    /\ UNCHANGED <<storeVars, settled, provided>>

StoreChallenge(q, c) ==
    /\ CallAt(q, "create") /\ routeCall[q].kind = "access"
    /\ Fresh(c)
    /\ Create(c, routeCall[q].requestId)
    /\ CallReturn(q)
    /\ UNCHANGED <<settled, provided>>

\* Payment: the record is read before the settlement, in whatever state it is.
PresentPayment(q, r, t) ==
    /\ Begin(q, [pc |-> "settle", kind |-> "access", requestId |-> r,
                 challenge |-> FoundId(r), tx |-> t,
                 pending |-> FoundState(r) = "PENDING"])
    /\ UNCHANGED <<storeVars, settled, provided>>

\* settlePayment, with the outcomes of ChallengeEngine!SettlePayment.
SettleRoute(q) ==
    /\ CallAt(q, "settle")
    /\ \/ /\ settled' = settled \cup {routeCall[q].tx}
          /\ \/ CallGoto(q, IF routeCall[q].kind \in {"mcp", "a2a"}
                            THEN "record" ELSE "mark")
             \/ CallReturn(q)
       \/ settled' = settled /\ CallReturn(q)
    /\ UNCHANGED <<storeVars, provided>>

\* In embedded mode the handler finds only now that it has no backend to call.
AfterPayment(q) ==
    IF deployment.backend = "embedded" THEN CallReturn(q) ELSE CallGoto(q, "fetch")

\* Mutated form of MarkAccess: the answer of markUsed is not looked at.
MarkAccessUnchecked(q, c) ==
    /\ CallAt(q, "mark") /\ routeCall[q].kind = "access"
    /\ c = routeCall[q].challenge
    /\ \/ MarkUsed(routeCall[q].tx, c)
       \/ seenTx[routeCall[q].tx] # NoChallenge /\ UNCHANGED storeVars
    /\ IF routeCall[q].pending THEN CallGoto(q, "pay") ELSE AfterPayment(q)
    /\ UNCHANGED <<settled, provided>>

\* markUsed under the challengeId that was found, or a fresh one that no record
\* will ever carry.
MarkAccess(q, c) ==
    /\ CallAt(q, "mark") /\ routeCall[q].kind = "access"
    /\ IF routeCall[q].challenge = NoChallenge THEN Fresh(c) ELSE c = routeCall[q].challenge
    /\ \/ /\ MarkUsed(routeCall[q].tx, c)
          /\ IF routeCall[q].pending THEN CallGoto(q, "pay") ELSE AfterPayment(q)
       \/ /\ seenTx[routeCall[q].tx] # NoChallenge
          /\ UNCHANGED storeVars
          /\ CallReturn(q)
    /\ UNCHANGED <<settled, provided>>

\* Mutated form of PayAccess: paidAt is not written with PAID.
PayAccessUnscored(q) ==
    LET c == routeCall[q].challenge
        t == routeCall[q].tx
    IN
    /\ CallAt(q, "pay") /\ routeCall[q].kind = "access"
    /\ \/ Transition(c, "PENDING", "PAID", FALSE, Paid(challenges[c], t, t))
       \/ TransitionRefused(c, "PENDING")
    /\ AfterPayment(q)
    /\ UNCHANGED <<settled, provided>>

\* PENDING -> PAID, only if the record was PENDING before the settlement. Whether
\* it still is, is not looked at.
PayAccess(q) ==
    LET c == routeCall[q].challenge
        t == routeCall[q].tx
    IN
    /\ CallAt(q, "pay") /\ routeCall[q].kind = "access"
    /\ \/ \E from \in Payers(t) :
             Transition(c, "PENDING", "PAID", TRUE, Paid(challenges[c], t, from))
       \/ TransitionRefused(c, "PENDING")
    /\ AfterPayment(q)
    /\ UNCHANGED <<settled, provided>>

\* What the backend may do with a call: answer, or throw (a timeout included).
Answer == {"2xx", "3xx", "error", "throw"}

\* A response the client got for its money, counted up to the bound.
Provide(t) ==
    /\ provided[t] < MaxProvided
    /\ provided' = [provided EXCEPT ![t] = @ + 1]

\* The call of the backend, which gives one of answers, and its judgement: with
\* an answer in good the client has its response and DELIVERED is to be written,
\* otherwise the call ends and the record is left as it is.
CallBackend(q, answers, good) ==
    /\ CallAt(q, "fetch")
    /\ \E answer \in answers :
          \/ answer \in good /\ Provide(routeCall[q].tx) /\ CallGoto(q, "deliver")
          \/ answer \notin good /\ UNCHANGED provided /\ CallReturn(q)
    /\ UNCHANGED <<storeVars, settled>>

\* PAID -> DELIVERED, fire and forget: the client has its answer, and neither a
\* refused nor a failing write is seen by anyone.
MarkDelivered(q) ==
    LET c == routeCall[q].challenge IN
    /\ CallAt(q, "deliver")
    /\ \/ c # NoChallenge /\ Transition(c, "PAID", "DELIVERED", FALSE, challenges[c])
       \/ c # NoChallenge /\ TransitionRefused(c, "PAID")
       \/ c = NoChallenge /\ UNCHANGED storeVars
       \/ "delivery_lost" \in RouteFaults /\ UNCHANGED storeVars
    /\ CallReturn(q)
    /\ UNCHANGED <<settled, provided>>

Runs(framework) == deployment.framework = framework

IsAccess(q) == routeCall[q].kind = "access"

\* The three parts of the handler, in the framework a deployment runs.
AccessChallenge(q) ==
    \/ \E r \in Request : AskPrice(q, r)
    \/ \E c \in Challenge : StoreChallenge(q, c)

AccessPayment(q) ==
    \/ \E r \in Request \cup {NoRequest}, t \in Tx : PresentPayment(q, r, t)
    \/ IsAccess(q) /\ SettleRoute(q)
    \/ \E c \in Challenge : MarkAccess(q, c)
    \/ PayAccess(q)

AccessProxy(q) ==
    /\ IsAccess(q)
    /\ CallBackend(q, Answer, {"2xx"}) \/ MarkDelivered(q)

ExpressChallenge(q) == Runs("express") /\ AccessChallenge(q)
ExpressPayment(q) == Runs("express") /\ AccessPayment(q)
ExpressProxy(q) == Runs("express") /\ AccessProxy(q)

HonoChallenge(q) == Runs("hono") /\ AccessChallenge(q)
HonoPayment(q) == Runs("hono") /\ AccessPayment(q)
HonoProxy(q) == Runs("hono") /\ AccessProxy(q)

FastifyChallenge(q) == Runs("fastify") /\ AccessChallenge(q)
FastifyPayment(q) == Runs("fastify") /\ AccessPayment(q)
FastifyProxy(q) == Runs("fastify") /\ AccessProxy(q)

AccessStep(q) ==
    \/ ExpressChallenge(q) \/ ExpressPayment(q) \/ ExpressProxy(q)
    \/ HonoChallenge(q) \/ HonoPayment(q) \/ HonoProxy(q)
    \/ FastifyChallenge(q) \/ FastifyPayment(q) \/ FastifyProxy(q)

-----------------------------------------------------------------------------
\* A call that throws or a process that dies ends the call where it is. Between
\* the PAID write of a record and the claim of its transfer the fault is the
\* one that ChallengeStore names for it.
RouteCallLost(q) ==
    /\ ~ CallAt(q, "idle")
    /\ \/ CallAt(q, "deliver") /\ "delivery_lost" \in RouteFaults
       \/ CallAt(q, "rollback") /\ "mark_lost" \in Faults
       \/ CallAt(q, "mark") /\ routeCall[q].kind \in {"mcp", "a2a"}
          /\ "mark_lost" \in Faults
       \/ /\ ~ CallAt(q, "deliver") /\ ~ CallAt(q, "rollback")
          /\ ~ (CallAt(q, "mark") /\ routeCall[q].kind \in {"mcp", "a2a"})
          /\ "call_lost" \in RouteFaults
    /\ CallReturn(q)
    /\ UNCHANGED <<storeVars, settled, provided>>
=============================================================================

----------------------------- MODULE RouteProofs -----------------------------
(***************************************************************************)
(* The safety invariants of the whole gateway, route calls included, for   *)
(* every number of challenges, requests, transfers, calls and refund runs, *)
(* every deployment and whatever faults are admitted. What the engine and  *)
(* the refund job do is taken from EngineProofs.                           *)
(***************************************************************************)
EXTENDS RouteGateway, EngineProofs

-----------------------------------------------------------------------------
\* Type correctness. A route call holds the ids its next step needs.

RouteCallOK(l) ==
    \/ l = NoCall
    \/ /\ l.kind = "access"
       /\ \/ l.pc = "create" /\ l.requestId \in Request /\ l.challenge = NoChallenge
          \/ /\ l.pc \in {"settle", "mark"}
             /\ l.tx \in Tx /\ (l.pending => l.challenge \in Challenge)
          \/ l.pc = "pay" /\ l.tx \in Tx /\ l.challenge \in Challenge
          \/ l.pc \in {"fetch", "deliver"} /\ l.tx \in Tx
    \/ /\ l.kind \in {"ppr", "auto"}
       /\ \/ l.pc \in {"settle", "mark"} /\ l.tx \in Tx /\ l.challenge = NoChallenge
          \/ l.pc \in {"create", "pay"} /\ l.tx \in Tx /\ l.challenge \in Challenge
          \/ l.pc \in {"fetch", "deliver"} /\ l.tx \in Tx
    \/ /\ l.kind \in {"mcp", "a2a"}
       /\ \/ /\ l.pc \in {"settle", "record", "find", "create"}
             /\ l.tx \in Tx /\ l.challenge = NoChallenge
          \/ /\ l.pc \in {"pay", "mark", "rollback", "assert", "fetch", "deliver", "refund"}
             /\ l.tx \in Tx /\ l.challenge \in Challenge

RouteTypes ==
    /\ deployment \in Deployments
    /\ routeCall \in [RouteCall -> RouteLocals]
    /\ provided \in [Tx -> 0..MaxProvided]
    /\ \A q \in RouteCall : RouteCallOK(routeCall[q])

RouteTypeInv == TypeInv /\ RouteTypes

LEMMA NoCallType == NoCall \in RouteLocals /\ RouteCallOK(NoCall)
  BY DEF NoCall, RouteLocals, RoutePoint, RouteCallOK

LEMMA RouteInitType == Init => RouteTypeInv
  BY InitTypeInv, NoCallType, RouteAssumption
  DEF Init, RouteInit, RouteTypeInv, RouteTypes

LEMMA RouteTypeOKHolds == RouteTypes => RouteTypeOK
  BY DEF RouteTypes, RouteTypeOK, RouteCallOK, NoCall

-----------------------------------------------------------------------------
\* The shape of a step of a route call: what it does with the record it holds,
\* and which one it takes.

\* The steps of all route calls, whoever makes them.
RouteAction(q) ==
    \/ ~ Runs("assembled") /\ \E r \in Request : AskPrice(q, r)
    \/ \E c \in Challenge : StoreChallenge(q, c)
    \/ /\ ~ Runs("assembled")
       /\ \E r \in Request \cup {NoRequest}, t \in Tx : PresentPayment(q, r, t)
    \/ SettleRoute(q)
    \/ \E c \in Challenge : MarkAccess(q, c)
    \/ PayAccess(q)
    \/ \E answers \in SUBSET Answer, good \in SUBSET Answer : CallBackend(q, answers, good)
    \/ MarkDelivered(q)
    \/ \E t \in Tx : PresentPpr(q, t)
    \/ \E c \in Challenge : MarkPpr(q, c)
    \/ CreatePpr(q)
    \/ PayPpr(q)
    \/ \E r \in Request, t \in Tx : PayOverMcp(q, r, t)
    \/ \E c \in Challenge, t \in Tx : PayOverA2A(q, c, t)
    \/ CheckPlanAndTx(q)
    \/ FindRouteRecord(q)
    \/ \E c \in Challenge : CreateRouteRecord(q, c)
    \/ PayRouteRecord(q)
    \/ MarkRouteRecord(q)
    \/ RollBackRouteRecord(q)
    \/ AssertPaidState(q)
    \/ FetchOverMcp(q)
    \/ InitiateRefund(q)
    \/ RouteCallLost(q)

LEMMA RouteActions ==
  ASSUME NEW q, AccessStep(q) \/ PprStep(q) \/ AgentStep(q) \/ RouteCallLost(q)
  PROVE  RouteAction(q)
<1>1. Runs("express") \/ Runs("hono") \/ Runs("fastify") => ~ Runs("assembled")
  BY DEF Runs
<1>2. /\ Answers(q) \subseteq Answer
      /\ {"2xx"} \subseteq Answer /\ {"2xx", "3xx"} \subseteq Answer
  BY DEF Answers, Answer
<1>3. AccessStep(q) => RouteAction(q)
  <2>1. AccessStep(q) => /\ ~ Runs("assembled")
                         /\ AccessChallenge(q) \/ AccessPayment(q) \/ AccessProxy(q)
    BY <1>1 DEF AccessStep, ExpressChallenge, ExpressPayment, ExpressProxy, HonoChallenge,
                HonoPayment, HonoProxy, FastifyChallenge, FastifyPayment, FastifyProxy
  <2> QED
    BY <2>1, <1>2 DEF AccessChallenge, AccessPayment, AccessProxy, RouteAction
<1>4. PprStep(q) => RouteAction(q)
  <2>1. PprStep(q) => SettleAndRecord(q) \/ (\E t \in Tx : PresentPpr(q, t)) \/ PprAnswer(q)
    BY DEF PprStep, ExpressPpr, HonoPpr, FastifyPpr
  <2> QED
    BY <2>1, <1>2 DEF SettleAndRecord, PprAnswer, RouteAction
<1>5. AgentStep(q) => RouteAction(q)
  BY <1>2 DEF AgentStep, RecordPerRequestPayment, FetchOverA2A, RouteAction
<1> QED
  BY <1>3, <1>4, <1>5 DEF RouteAction

\* The challengeId a call names, or the lack of one, and what it leaves alone.
RecordsKept == UNCHANGED <<challenges, requestIndex, paidSet>>

\* A call begins with no record, or with the one of its request.
Begins(q) ==
    LET next == routeCall'[q] IN
    /\ routeCall[q] = NoCall
    /\ next.pc \in {"create", "settle"} /\ next.kind # "none"
    /\ next.kind \in {"access", "ppr", "auto"} => ~ Runs("assembled")
    /\ next.kind \in {"mcp", "a2a"} =>
          /\ next.pc = "settle"
          /\ \/ next.requestId \in Request
             \/ \E c \in Challenge : /\ challenges[c].state # "ABSENT"
                                     /\ next.requestId = challenges[c].requestId
    /\ \/ next.challenge = NoChallenge
       \/ next.kind = "access" /\ \E r \in Request : next.challenge = requestIndex[r]
    /\ RecordsKept /\ UNCHANGED provided

\* A call ends, or goes on with the record it has.
GoesOn(q) ==
    LET call == routeCall[q]
        next == routeCall'[q]
    IN
    /\ call # NoCall
    /\ \/ next = NoCall
       \/ /\ \E pc \in RoutePoint : next = [call EXCEPT !.pc = pc]
          /\ next.pc \in {"create", "find"} => IsAgent(q)
          /\ call.pc = "record" => Runs("assembled")
          /\ IsAgent(q) => call.pc # "settle" \/ next.pc = "record"
          /\ next.pc = "deliver" => call.pc = "fetch" /\ provided'[call.tx] > 0
          /\ IsPpr(q) /\ next.pc = "fetch" /\ next.challenge # NoChallenge
               => challenges'[next.challenge].txHash = next.tx

\* A call moves its record on: to PAID with its own transfer, to DELIVERED with
\* the response given, or back.
WritesOwn(q) ==
    LET c == routeCall[q].challenge IN
    /\ c \in Challenge
    /\ \E from \in {"PENDING", "PAID"}, to \in ChallengeState \ {"ABSENT"},
          scored \in BOOLEAN, rec \in ChallengeRecord :
          /\ Transition(c, from, to, scored, rec)
          /\ rec.requestId = challenges[c].requestId
          /\ rec.accessGrant = challenges[c].accessGrant
          /\ rec.txHash = challenges[c].txHash \/ routeCall[q].pc = "pay"
          /\ to = "PAID" => scored \/ routeCall[q].pc = "assert"
          /\ to = "DELIVERED" => routeCall[q].pc = "deliver"

Holds(q, l, pc, c) == l = [routeCall[q] EXCEPT !.pc = pc, !.challenge = c]

StoresNew(q, c) ==
    /\ CallAt(q, "create") /\ ~ IsPpr(q) /\ Fresh(c)
    /\ Create(c, routeCall[q].requestId)
    /\ routeCall'[q] = NoCall \/ (IsAgent(q) /\ Holds(q, routeCall'[q], "pay", c))
    /\ UNCHANGED provided

FindsOld(q, c) ==
    LET r == routeCall[q].requestId IN
    /\ CallAt(q, "find") /\ IsAgent(q)
    /\ r \in Request /\ c = requestIndex[r]
    /\ Holds(q, routeCall'[q], "pay", c)
    /\ RecordsKept /\ UNCHANGED provided

NamesNew(q, c) ==
    /\ CallAt(q, "mark") /\ IsPpr(q) /\ Fresh(c)
    /\ Holds(q, routeCall'[q], "create", c)
    /\ RecordsKept /\ UNCHANGED provided

RouteShape(q) ==
    \/ Begins(q)
    \/ GoesOn(q) /\ (RecordsKept \/ (WritesOwn(q) /\ UNCHANGED provided))
    \/ \E c \in Challenge : StoresNew(q, c) \/ FindsOld(q, c) \/ NamesNew(q, c)
    \/ CreatePpr(q) /\ routeCall'[q] = [routeCall[q] EXCEPT !.pc = "pay"]

OtherCallsKept(q) == \A p \in RouteCall \ {q} : routeCall'[p] = routeCall[p]

ResponsesKept == \A t \in Tx : provided[t] > 0 => provided'[t] > 0

CallKept(q) ==
    /\ routeCall' \in [RouteCall -> RouteLocals]
    /\ RouteCallOK(routeCall'[q])
    /\ OtherCallsKept(q)

LEMMA RouteCallShape ==
  ASSUME RouteTypeInv, NEW q \in RouteCall, RouteAction(q)
  PROVE  /\ CallKept(q)
         /\ provided' \in [Tx -> 0..MaxProvided] /\ ResponsesKept
         /\ RouteShape(q)
<1> DEFINE call == routeCall[q]
           next == routeCall'[q]
           Good == CallKept(q) /\ RouteShape(q)
<1>s. /\ routeCall \in [RouteCall -> RouteLocals] /\ call \in RouteLocals
      /\ RouteCallOK(call)
      /\ \A c \in Challenge : challenges[c] \in ChallengeRecord
      /\ requestIndex \in [Request -> Challenge \cup {NoChallenge}]
  BY DEF RouteTypeInv, RouteTypes, TypeInv, StoreTypeOK
<1>i. CallAt(q, "idle") <=> call = NoCall
  BY <1>s DEF CallAt, RouteCallOK, NoCall
<1>u. UNCHANGED storeVars => RecordsKept
  BY DEF storeVars, RecordsKept
<1>l. ASSUME NEW l \in RouteLocals, RouteCallOK(l), routeCall' = [routeCall EXCEPT ![q] = l]
      PROVE  CallKept(q) /\ next = l
  BY <1>l, <1>s DEF CallKept, OtherCallsKept
<1>r. CallReturn(q) => CallKept(q) /\ next = NoCall
  BY <1>l, NoCallType DEF CallReturn
<1>g. ASSUME NEW pc \in RoutePoint, CallGoto(q, pc), RouteCallOK([call EXCEPT !.pc = pc])
      PROVE  CallKept(q) /\ next = [call EXCEPT !.pc = pc] /\ next.pc = pc
  <2>1. [call EXCEPT !.pc = pc] \in RouteLocals /\ [call EXCEPT !.pc = pc].pc = pc
    BY <1>s DEF RouteLocals
  <2> QED
    BY <1>g, <1>l, <2>1, <1>s DEF CallGoto
<1>h. ASSUME NEW pc \in RoutePoint, NEW c \in Challenge,
             routeCall' = [routeCall EXCEPT ![q].pc = pc, ![q].challenge = c],
             RouteCallOK([call EXCEPT !.pc = pc, !.challenge = c])
      PROVE  CallKept(q) /\ Holds(q, next, pc, c)
  <2>1. [call EXCEPT !.pc = pc, !.challenge = c] \in RouteLocals
    BY <1>s DEF RouteLocals
  <2> QED
    BY <1>h, <1>l, <2>1, <1>s DEF Holds
<1>e. ASSUME call # NoCall, CallReturn(q), RecordsKept \/ (WritesOwn(q) /\ UNCHANGED provided)
      PROVE  Good
  BY <1>e, <1>r DEF GoesOn, RouteShape
<1>p. provided' \in [Tx -> 0..MaxProvided] /\ ResponsesKept
  <2>1. provided \in [Tx -> 0..MaxProvided]
    BY DEF RouteTypeInv, RouteTypes
  <2>2. UNCHANGED provided \/ \E t \in Tx : Provide(t)
    <3>1. call.pc = "fetch" => call.tx \in Tx
      BY <1>s DEF RouteCallOK, NoCall
    <3> QED
      BY <3>1
      DEF RouteAction, AskPrice, StoreChallenge, PresentPayment, SettleRoute, MarkAccess,
          PayAccess, CallBackend, MarkDelivered, PresentPpr, MarkPpr, CreatePpr, PayPpr,
          PayOverMcp, PayOverA2A, CheckPlanAndTx, FindRouteRecord, CreateRouteRecord,
          PayRouteRecord, MarkRouteRecord, RollBackRouteRecord, AssertPaidState,
          FetchOverMcp, InitiateRefund, RouteCallLost, CallAt
  <2>3. ASSUME NEW t \in Tx, Provide(t)
        PROVE  provided' \in [Tx -> 0..MaxProvided] /\ ResponsesKept
    BY <2>1, <2>3, RouteAssumption DEF Provide, ResponsesKept
  <2> QED
    BY <2>1, <2>2, <2>3 DEF ResponsesKept
<1>1. ASSUME NEW r \in Request, AskPrice(q, r), ~ Runs("assembled") PROVE Good
  <2> DEFINE l == [NoCall EXCEPT !.pc = "create", !.kind = "access", !.requestId = r]
  <2>1. l \in RouteLocals /\ RouteCallOK(l)
    BY DEF NoCall, RouteLocals, RoutePoint, RouteCallOK
  <2>2. l.pc = "create" /\ l.kind = "access" /\ l.challenge = NoChallenge
    BY DEF NoCall
  <2>3. CallKept(q) /\ next = l
    BY <1>1, <2>1, <1>l DEF AskPrice, Begin
  <2> QED
    BY <1>1, <2>2, <2>3, <1>i, <1>u DEF AskPrice, Begin, Begins, RouteShape
<1>2. ASSUME NEW r \in Request \cup {NoRequest}, NEW t \in Tx, PresentPayment(q, r, t),
             ~ Runs("assembled")
      PROVE  Good
  <2> DEFINE l == [pc |-> "settle", kind |-> "access", requestId |-> r,
                   challenge |-> FoundId(r), tx |-> t,
                   pending |-> FoundState(r) = "PENDING"]
  <2>1. /\ FoundId(r) \in Challenge \cup {NoChallenge}
        /\ FoundState(r) = "PENDING" => FoundId(r) \in Challenge
        /\ FoundId(r) = NoChallenge \/ \E s \in Request : FoundId(r) = requestIndex[s]
    BY <1>s DEF FoundId, FoundState
  <2>2. l \in RouteLocals /\ RouteCallOK(l)
    BY <2>1 DEF RouteLocals, RoutePoint, RouteCallOK
  <2>3. CallKept(q) /\ next = l
    BY <1>2, <2>2, <1>l DEF PresentPayment, Begin
  <2> QED
    BY <1>2, <2>1, <2>3, <1>i, <1>u DEF PresentPayment, Begin, Begins, RouteShape
<1>3. ASSUME NEW t \in Tx, PresentPpr(q, t) PROVE Good
  <2>1. PICK kind \in {"ppr", "auto"} :
           Begin(q, [NoCall EXCEPT !.pc = "settle", !.kind = kind, !.tx = t])
    BY <1>3 DEF PresentPpr
  <2> DEFINE l == [NoCall EXCEPT !.pc = "settle", !.kind = kind, !.tx = t]
  <2>2. l \in RouteLocals /\ RouteCallOK(l)
    BY DEF NoCall, RouteLocals, RoutePoint, RouteCallOK
  <2>3. l.pc = "settle" /\ l.kind = kind /\ l.challenge = NoChallenge
    BY DEF NoCall
  <2>4. CallKept(q) /\ next = l
    BY <2>1, <2>2, <1>l DEF Begin
  <2> QED
    BY <1>3, <2>1, <2>3, <2>4, <1>i, <1>u DEF PresentPpr, Begin, Begins, RouteShape
<1>4. ASSUME NEW r \in Request \cup {NoRequest}, NEW t \in Tx, NEW kind \in {"mcp", "a2a"},
             Begin(q, [NoCall EXCEPT !.pc = "settle", !.kind = kind,
                                     !.requestId = r, !.tx = t]),
             \/ r \in Request
             \/ \E c \in Challenge : /\ challenges[c].state # "ABSENT"
                                     /\ r = challenges[c].requestId,
             UNCHANGED <<storeVars, settled, provided>>
      PROVE  Good
  <2> DEFINE l == [NoCall EXCEPT !.pc = "settle", !.kind = kind, !.requestId = r, !.tx = t]
  <2>2. l \in RouteLocals /\ RouteCallOK(l)
    BY DEF NoCall, RouteLocals, RoutePoint, RouteCallOK
  <2>3. l.pc = "settle" /\ l.kind = kind /\ l.challenge = NoChallenge /\ l.requestId = r
    BY DEF NoCall
  <2>4. CallKept(q) /\ next = l
    BY <1>4, <2>2, <1>l DEF Begin
  <2> QED
    BY <1>4, <2>3, <2>4, <1>i, <1>u DEF Begin, Begins, RouteShape
<1>5. ASSUME NEW r \in Request, NEW t \in Tx, PayOverMcp(q, r, t) PROVE Good
  BY <1>5, <1>4 DEF PayOverMcp
<1>6. ASSUME NEW c \in Challenge, NEW t \in Tx, PayOverA2A(q, c, t) PROVE Good
  <2> DEFINE r == challenges[c].requestId
  <2>1. r \in Request \cup {NoRequest} /\ challenges[c].state # "ABSENT"
    BY <1>6, <1>s DEF ChallengeRecord, PayOverA2A
  <2>2. Begin(q, [NoCall EXCEPT !.pc = "settle", !.kind = "a2a", !.requestId = r, !.tx = t])
    BY <1>6 DEF PayOverA2A
  <2>3. \E d \in Challenge : challenges[d].state # "ABSENT" /\ r = challenges[d].requestId
    BY <2>1
  <2>4. UNCHANGED <<storeVars, settled, provided>>
    BY <1>6 DEF PayOverA2A
  <2> HIDE DEF r
  <2> QED
    BY <2>1, <2>2, <2>3, <2>4, <1>4
<1>n. ASSUME NEW pc, CallAt(q, pc), pc # "idle" PROVE call # NoCall
  BY <1>n DEF CallAt, NoCall
<1>x. ASSUME NEW pc \in RoutePoint, CallGoto(q, pc), RouteCallOK([call EXCEPT !.pc = pc]),
             call # NoCall, pc \in {"create", "find"} => IsAgent(q),
             call.pc = "record" => Runs("assembled"),
             IsAgent(q) => call.pc # "settle" \/ pc = "record",
             pc = "deliver" => call.pc = "fetch" /\ provided'[call.tx] > 0,
             IsPpr(q) /\ pc = "fetch" /\ call.challenge # NoChallenge
               => challenges'[call.challenge].txHash = call.tx,
             RecordsKept \/ (WritesOwn(q) /\ UNCHANGED provided)
      PROVE  Good
  <2>1. CallKept(q) /\ next = [call EXCEPT !.pc = pc] /\ next.pc = pc
    BY <1>x, <1>g
  <2>2. next.challenge = call.challenge /\ next.tx = call.tx
    BY <2>1, <1>s DEF RouteLocals
  <2>3. GoesOn(q)
    BY <1>x, <2>1, <2>2 DEF GoesOn
  <2> QED
    BY <1>x, <2>1, <2>3 DEF RouteShape
<1>w. ASSUME call.challenge \in Challenge, NEW from \in {"PENDING", "PAID"},
             NEW to \in ChallengeState \ {"ABSENT"}, NEW scored \in BOOLEAN,
             Transition(call.challenge, from, to, scored, challenges[call.challenge]),
             to = "PAID" => call.pc = "assert", to = "DELIVERED" => call.pc = "deliver"
      PROVE  WritesOwn(q)
  BY <1>w, <1>s DEF WritesOwn
<1>z. {"PENDING", "PAID", "DELIVERED", "REFUND_PENDING"} \subseteq ChallengeState \ {"ABSENT"}
  BY DEF ChallengeState
<1>y. ASSUME call.challenge \in Challenge, NEW from \in Payers(call.tx), call.tx \in Tx,
             call.pc = "pay",
             Transition(call.challenge, "PENDING", "PAID", TRUE,
                        Paid(challenges[call.challenge], call.tx, from))
      PROVE  WritesOwn(q) /\ challenges'[call.challenge].txHash = call.tx
  <2> DEFINE c == call.challenge
             rec == Paid(challenges[c], call.tx, from)
  <2>1. /\ rec \in ChallengeRecord /\ rec.txHash = call.tx
        /\ rec.requestId = challenges[c].requestId
        /\ rec.accessGrant = challenges[c].accessGrant
    <3>1. rec \in ChallengeRecord
      BY <1>y, <1>s, PaidType
    <3> QED
      BY <1>y, <1>s, <3>1 DEF Paid, ChallengeRecord
  <2>2. Transition(c, "PENDING", "PAID", TRUE, rec)
    BY <1>y
  <2> HIDE DEF rec
  <2>3. WritesOwn(q)
    BY <1>y, <1>z, <2>1, <2>2 DEF WritesOwn
  <2>4. challenges'[c] = [rec EXCEPT !.state = "PAID"]
    BY <1>y, <2>2 DEF Transition, RouteTypeInv, TypeInv, StoreTypeOK
  <2>5. challenges'[c].txHash = call.tx
    BY <2>1, <2>4 DEF ChallengeRecord
  <2> QED
    BY <2>3, <2>5
<1>7. ASSUME NEW c \in Challenge, StoreChallenge(q, c) PROVE Good
  <2>1. ~ IsPpr(q)
    BY <1>7 DEF StoreChallenge, IsPpr
  <2> QED
    BY <1>7, <2>1, <1>r DEF StoreChallenge, StoresNew, RouteShape
<1>8. ASSUME SettleRoute(q) PROVE Good
  <2>1. call # NoCall
    BY <1>8, <1>n DEF SettleRoute
  <2>2. CASE CallReturn(q)
    BY <1>8, <2>1, <2>2, <1>e, <1>u DEF SettleRoute
  <2>3. ASSUME NEW pc \in {"record", "mark"}, CallGoto(q, pc),
               pc = "record" <=> IsAgent(q)
        PROVE  Good
    <3>1. RouteCallOK([call EXCEPT !.pc = pc])
      BY <1>8, <2>3, <2>1, <1>s DEF SettleRoute, CallAt, RouteCallOK, RouteLocals, IsAgent
    <3> QED
      BY <1>8, <2>1, <2>3, <3>1, <1>x, <1>u DEF SettleRoute, CallAt, RoutePoint
  <2> QED
    BY <1>8, <2>2, <2>3 DEF SettleRoute, IsAgent
<1>9. ASSUME AfterPayment(q), call # NoCall, call.kind \in {"access", "ppr", "auto"},
             call.pc \in {"mark", "pay"}, call.tx \in Tx,
             RecordsKept \/ (WritesOwn(q) /\ UNCHANGED provided),
             IsPpr(q) /\ call.challenge # NoChallenge
               => challenges'[call.challenge].txHash = call.tx
      PROVE  Good
  <2>1. CASE CallReturn(q)
    BY <1>9, <2>1, <1>e
  <2>2. CASE CallGoto(q, "fetch")
    <3>1. RouteCallOK([call EXCEPT !.pc = "fetch"])
      BY <1>9, <1>s DEF RouteCallOK, RouteLocals
    <3> QED
      BY <1>9, <2>2, <3>1, <1>x DEF RoutePoint, IsAgent
  <2> QED
    BY <1>9, <2>1, <2>2 DEF AfterPayment
<1>10. ASSUME NEW c \in Challenge, MarkAccess(q, c) PROVE Good
  <2>1. /\ call # NoCall /\ call.pc = "mark" /\ call.kind = "access" /\ call.tx \in Tx
        /\ call.pending => call.challenge \in Challenge
        /\ ~ IsPpr(q) /\ ~ IsAgent(q)
    BY <1>10, <1>n, <1>s DEF MarkAccess, CallAt, RouteCallOK, NoCall, IsPpr, IsAgent
  <2>2. RecordsKept
    BY <1>10, <1>u DEF MarkAccess, MarkUsed, RecordsKept
  <2>3. CASE CallReturn(q)
    BY <2>1, <2>2, <2>3, <1>e
  <2>4. CASE AfterPayment(q)
    BY <2>1, <2>2, <2>4, <1>9
  <2>5. CASE call.pending /\ CallGoto(q, "pay")
    <3>1. RouteCallOK([call EXCEPT !.pc = "pay"])
      BY <2>1, <2>5, <1>s DEF RouteCallOK, RouteLocals
    <3> QED
      BY <2>1, <2>2, <2>5, <3>1, <1>x DEF RoutePoint
  <2> QED
    BY <1>10, <2>3, <2>4, <2>5 DEF MarkAccess
<1>11. ASSUME PayAccess(q) PROVE Good
  <2>1. /\ call # NoCall /\ call.pc = "pay" /\ call.kind = "access" /\ call.tx \in Tx
        /\ call.challenge \in Challenge /\ ~ IsPpr(q)
    BY <1>11, <1>n, <1>s DEF PayAccess, CallAt, RouteCallOK, NoCall, IsPpr
  <2>2. RecordsKept \/ (WritesOwn(q) /\ UNCHANGED provided)
    BY <1>11, <2>1, <1>y, <1>u DEF PayAccess, TransitionRefused
  <2> QED
    BY <1>11, <2>1, <2>2, <1>9 DEF PayAccess
<1>12. ASSUME call.pc = "fetch", Provide(call.tx), CallGoto(q, "deliver"), UNCHANGED storeVars
       PROVE  Good
  <2>1. call # NoCall /\ call.tx \in Tx
    BY <1>12, <1>s DEF RouteCallOK, NoCall
  <2>2. provided'[call.tx] > 0
    BY <1>12, <2>1, RouteAssumption DEF Provide, RouteTypeInv, RouteTypes
  <2>3. RouteCallOK([call EXCEPT !.pc = "deliver"])
    BY <1>12, <2>1, <1>s DEF RouteCallOK, RouteLocals
  <2> QED
    BY <1>12, <2>1, <2>2, <2>3, <1>x, <1>u DEF RoutePoint
<1>13. ASSUME NEW answers, NEW good, CallBackend(q, answers, good) PROVE Good
  <2>1. call.pc = "fetch" /\ call # NoCall /\ UNCHANGED storeVars
    BY <1>13, <1>n DEF CallBackend, CallAt
  <2> QED
    BY <1>13, <2>1, <1>12, <1>e, <1>u DEF CallBackend
<1>14. ASSUME MarkDelivered(q) PROVE Good
  <2>1. call # NoCall /\ call.pc = "deliver"
    BY <1>14, <1>n DEF MarkDelivered, CallAt
  <2>2. call.challenge \in Challenge \/ call.challenge = NoChallenge
    BY <1>s DEF RouteLocals
  <2>3. RecordsKept \/ WritesOwn(q)
    BY <1>14, <2>1, <2>2, <1>w, <1>u, <1>z DEF MarkDelivered, TransitionRefused
  <2> QED
    BY <1>14, <2>1, <2>3, <1>e DEF MarkDelivered
<1>15. ASSUME NEW c \in Challenge, MarkPpr(q, c) PROVE Good
  <2>1. /\ call # NoCall /\ call.pc = "mark" /\ call.kind \in {"ppr", "auto"}
        /\ call.tx \in Tx /\ call.challenge = NoChallenge /\ ~ IsAgent(q) /\ IsPpr(q)
    BY <1>15, <1>n, <1>s DEF MarkPpr, CallAt, RouteCallOK, NoCall, IsPpr, IsAgent
  <2>2. RecordsKept
    BY <1>15, <1>u DEF MarkPpr, MarkUsed, RecordsKept
  <2>3. CASE CallReturn(q)
    BY <2>1, <2>2, <2>3, <1>e
  <2>4. CASE CallGoto(q, "fetch")
    <3>1. RouteCallOK([call EXCEPT !.pc = "fetch"])
      BY <2>1, <1>s DEF RouteCallOK, RouteLocals
    <3> QED
      BY <2>1, <2>2, <2>4, <3>1, <1>x DEF RoutePoint
  <2>5. CASE routeCall' = [routeCall EXCEPT ![q].pc = "create", ![q].challenge = c]
    <3>1. RouteCallOK([call EXCEPT !.pc = "create", !.challenge = c])
      BY <2>1, <1>s DEF RouteCallOK, RouteLocals
    <3> QED
      BY <1>15, <2>1, <2>2, <2>5, <3>1, <1>h DEF MarkPpr, NamesNew, RouteShape, RoutePoint
  <2> QED
    BY <1>15, <2>3, <2>4, <2>5 DEF MarkPpr
<1>16. ASSUME CreatePpr(q) PROVE Good
  <2>1. RouteCallOK([call EXCEPT !.pc = "pay"])
    BY <1>16, <1>s DEF CreatePpr, CallAt, IsPpr, RouteCallOK, NoCall, RouteLocals
  <2> QED
    BY <1>16, <2>1, <1>g DEF CreatePpr, RouteShape, RoutePoint
<1>17. ASSUME PayPpr(q) PROVE Good
  <2>1. /\ call # NoCall /\ call.pc = "pay" /\ call.kind \in {"ppr", "auto"}
        /\ call.tx \in Tx /\ call.challenge \in Challenge /\ ~ IsAgent(q)
    BY <1>17, <1>n, <1>s DEF PayPpr, CallAt, RouteCallOK, NoCall, IsPpr, IsAgent
  <2>2. CASE TransitionRefused(call.challenge, "PENDING") /\ CallReturn(q)
    BY <1>17, <2>1, <2>2, <1>e, <1>u DEF PayPpr, TransitionRefused
  <2>3. ASSUME NEW from \in Payers(call.tx), CallGoto(q, "fetch"),
               Transition(call.challenge, "PENDING", "PAID", TRUE,
                          Paid(challenges[call.challenge], call.tx, from))
        PROVE  Good
    <3>1. RouteCallOK([call EXCEPT !.pc = "fetch"])
      BY <2>1, <1>s DEF RouteCallOK, RouteLocals
    <3>2. WritesOwn(q) /\ challenges'[call.challenge].txHash = call.tx
      BY <2>1, <2>3, <1>y
    <3> QED
      BY <1>17, <2>1, <2>3, <3>1, <3>2, <1>x DEF PayPpr, RoutePoint
  <2> QED
    BY <1>17, <2>2, <2>3 DEF PayPpr
<1>18. ASSUME CheckPlanAndTx(q) PROVE Good
  <2>1. /\ call # NoCall /\ call.pc = "record" /\ RecordsKept
        /\ IsAgent(q) /\ ~ IsPpr(q) /\ call.tx \in Tx /\ call.challenge = NoChallenge
    BY <1>18, <1>n, <1>s, <1>u
    DEF CheckPlanAndTx, CallAt, RouteCallOK, NoCall, IsAgent, IsPpr
  <2>2. CASE CallReturn(q)
    BY <2>1, <2>2, <1>e
  <2>3. CASE CallGoto(q, "find") /\ Runs("assembled")
    <3>1. RouteCallOK([call EXCEPT !.pc = "find"])
      BY <2>1, <1>s DEF RouteCallOK, RouteLocals, IsAgent
    <3> QED
      BY <2>1, <2>3, <3>1, <1>x DEF RoutePoint
  <2> QED
    BY <1>18, <2>2, <2>3 DEF CheckPlanAndTx, PlanHasRouteId
<1>19. ASSUME FindRouteRecord(q) PROVE Good
  <2>1. /\ call # NoCall /\ call.pc = "find" /\ RecordsKept
        /\ IsAgent(q) /\ ~ IsPpr(q) /\ call.tx \in Tx /\ call.challenge = NoChallenge
    BY <1>19, <1>n, <1>s, <1>u
    DEF FindRouteRecord, CallAt, RouteCallOK, NoCall, IsAgent, IsPpr
  <2> DEFINE r == call.requestId
             c == FoundId(r)
  <2>2. CASE CallReturn(q)
    BY <2>1, <2>2, <1>e
  <2>3. CASE CallGoto(q, "create")
    <3>1. RouteCallOK([call EXCEPT !.pc = "create"])
      BY <2>1, <1>s DEF RouteCallOK, RouteLocals, IsAgent
    <3> QED
      BY <2>1, <2>3, <3>1, <1>x DEF RoutePoint
  <2>4. CASE /\ FoundState(r) = "PENDING"
             /\ routeCall' = [routeCall EXCEPT ![q].pc = "pay", ![q].challenge = c]
    <3>1. r \in Request /\ c \in Challenge /\ c = requestIndex[r]
      BY <2>4, <1>s DEF FoundState, FoundId, RouteLocals
    <3>2. RouteCallOK([call EXCEPT !.pc = "pay", !.challenge = c])
      BY <2>1, <3>1, <1>s DEF RouteCallOK, RouteLocals, IsAgent
    <3> HIDE DEF c
    <3>3. CallKept(q) /\ Holds(q, next, "pay", c)
      BY <2>4, <3>1, <3>2, <1>h DEF RoutePoint
    <3>4. FindsOld(q, c)
      BY <1>19, <2>1, <3>1, <3>3 DEF FindRouteRecord, FindsOld, CallAt
    <3> QED
      BY <3>1, <3>3, <3>4 DEF RouteShape
  <2> QED
    BY <1>19, <2>2, <2>3, <2>4 DEF FindRouteRecord
<1>20. ASSUME NEW c \in Challenge, CreateRouteRecord(q, c) PROVE Good
  <2>1. call.pc = "create" /\ IsAgent(q) /\ ~ IsPpr(q) /\ call.tx \in Tx
    BY <1>20, <1>s DEF CreateRouteRecord, CallAt, RouteCallOK, NoCall, IsAgent, IsPpr
  <2>2. RouteCallOK([call EXCEPT !.pc = "pay", !.challenge = c])
    BY <2>1, <1>s DEF RouteCallOK, RouteLocals, IsAgent
  <2>3. CallKept(q) /\ Holds(q, next, "pay", c)
    BY <1>20, <2>2, <1>h DEF CreateRouteRecord, RoutePoint
  <2> QED
    BY <1>20, <2>1, <2>3 DEF CreateRouteRecord, StoresNew, RouteShape
<1>a. ASSUME NEW pc, CallAt(q, pc),
             \/ pc = "pay" /\ IsAgent(q)
             \/ pc = "mark" /\ IsAgent(q)
             \/ pc \in {"rollback", "assert", "refund"}
      PROVE  /\ call # NoCall /\ call.pc = pc /\ IsAgent(q) /\ ~ IsPpr(q)
             /\ call.tx \in Tx /\ call.challenge \in Challenge
  BY <1>a, <1>s DEF CallAt, RouteCallOK, NoCall, IsAgent, IsPpr
<1>b. ASSUME IsAgent(q), call.challenge \in Challenge, call.tx \in Tx,
             NEW pc \in {"mark", "rollback", "assert", "fetch", "refund"}
      PROVE  RouteCallOK([call EXCEPT !.pc = pc])
  BY <1>b, <1>s DEF RouteCallOK, RouteLocals, IsAgent
<1>21. ASSUME PayRouteRecord(q) PROVE Good
  <2>1. /\ call # NoCall /\ call.pc = "pay" /\ IsAgent(q) /\ ~ IsPpr(q)
        /\ call.tx \in Tx /\ call.challenge \in Challenge
    BY <1>21, <1>a DEF PayRouteRecord
  <2>2. CASE TransitionRefused(call.challenge, "PENDING") /\ CallReturn(q)
    BY <1>21, <2>1, <2>2, <1>e, <1>u DEF PayRouteRecord, TransitionRefused
  <2>3. ASSUME NEW from \in Payers(call.tx), CallGoto(q, "mark"),
               Transition(call.challenge, "PENDING", "PAID", TRUE,
                          Paid(challenges[call.challenge], call.tx, from))
        PROVE  Good
    <3>1. WritesOwn(q)
      BY <2>1, <2>3, <1>y
    <3> QED
      BY <1>21, <2>1, <2>3, <3>1, <1>b, <1>x DEF PayRouteRecord, RoutePoint
  <2> QED
    BY <1>21, <2>2, <2>3 DEF PayRouteRecord
<1>22. ASSUME MarkRouteRecord(q) PROVE Good
  <2>1. /\ call # NoCall /\ call.pc = "mark" /\ IsAgent(q) /\ ~ IsPpr(q)
        /\ call.tx \in Tx /\ call.challenge \in Challenge
    BY <1>22, <1>a DEF MarkRouteRecord
  <2>2. RecordsKept
    BY <1>22, <1>u DEF MarkRouteRecord, MarkUsed, RecordsKept
  <2>3. \E pc \in {"assert", "fetch", "rollback"} : CallGoto(q, pc)
    BY <1>22 DEF MarkRouteRecord
  <2> QED
    BY <2>1, <2>2, <2>3, <1>b, <1>x DEF RoutePoint
<1>23. ASSUME RollBackRouteRecord(q) PROVE Good
  <2>1. call # NoCall /\ call.challenge \in Challenge
    BY <1>23, <1>a DEF RollBackRouteRecord
  <2>2. RecordsKept \/ WritesOwn(q)
    BY <1>23, <2>1, <1>w, <1>u, <1>z DEF RollBackRouteRecord, TransitionRefused
  <2> QED
    BY <1>23, <2>1, <2>2, <1>e DEF RollBackRouteRecord
<1>24. ASSUME AssertPaidState(q) PROVE Good
  <2>1. /\ call # NoCall /\ call.pc = "assert" /\ IsAgent(q) /\ ~ IsPpr(q)
        /\ call.tx \in Tx /\ call.challenge \in Challenge
    BY <1>24, <1>a DEF AssertPaidState
  <2>2. CASE TransitionRefused(call.challenge, "PAID") /\ CallReturn(q)
    BY <1>24, <2>1, <2>2, <1>e, <1>u DEF AssertPaidState, TransitionRefused
  <2>3. CASE /\ Transition(call.challenge, "PAID", "PAID", FALSE, challenges[call.challenge])
             /\ CallGoto(q, "fetch")
    <3>1. WritesOwn(q)
      BY <2>1, <2>3, <1>w, <1>z
    <3> QED
      BY <1>24, <2>1, <2>3, <3>1, <1>b, <1>x DEF AssertPaidState, RoutePoint
  <2> QED
    BY <1>24, <2>2, <2>3 DEF AssertPaidState
<1>25. ASSUME FetchOverMcp(q) PROVE Good
  <2>1. /\ call # NoCall /\ call.pc = "fetch" /\ IsAgent(q) /\ ~ IsPpr(q)
        /\ call.tx \in Tx /\ call.challenge \in Challenge /\ UNCHANGED storeVars
    BY <1>25, <1>s DEF FetchOverMcp, CallAt, RouteCallOK, NoCall, IsAgent, IsPpr
  <2>2. CASE Provide(call.tx) /\ CallGoto(q, "deliver")
    BY <2>1, <2>2, <1>12
  <2>3. CASE CallGoto(q, "refund")
    BY <2>1, <2>3, <1>b, <1>x, <1>u DEF RoutePoint
  <2> QED
    BY <1>25, <2>2, <2>3 DEF FetchOverMcp
<1>26. ASSUME InitiateRefund(q) PROVE Good
  <2>1. call # NoCall /\ call.challenge \in Challenge
    BY <1>26, <1>a DEF InitiateRefund
  <2>2. RecordsKept \/ WritesOwn(q)
    BY <1>26, <2>1, <1>w, <1>u, <1>z DEF InitiateRefund, TransitionRefused
  <2> QED
    BY <1>26, <2>1, <2>2, <1>e DEF InitiateRefund
<1>27. ASSUME RouteCallLost(q) PROVE Good
  BY <1>27, <1>i, <1>e, <1>u DEF RouteCallLost
<1> HIDE DEF Good
<1> QED
  <2>1. Good
    BY <1>1, <1>2, <1>3, <1>5, <1>6, <1>7, <1>8, <1>10, <1>11, <1>13, <1>14, <1>15, <1>16,
       <1>17, <1>18, <1>19, <1>20, <1>21, <1>22, <1>23, <1>24, <1>25, <1>26, <1>27
    DEF RouteAction
  <2> QED
    BY <2>1, <1>p DEF Good

\* What a route call does to the keys and transfers it does not own.
LEMMA RouteCallClaims ==
  ASSUME RouteTypeInv, NEW q \in RouteCall, RouteAction(q)
  PROVE  /\ seenTx' \in [Tx -> Challenge \cup {NoChallenge}]
         /\ settled' \in SUBSET Tx
<1>s. /\ seenTx \in [Tx -> Challenge \cup {NoChallenge}] /\ settled \in SUBSET Tx
      /\ RouteCallOK(routeCall[q])
  BY DEF RouteTypeInv, RouteTypes, TypeInv, StoreTypeOK, EngineTypeOK
<1>1. routeCall[q].pc = "settle" => routeCall[q].tx \in Tx
  BY <1>s DEF RouteCallOK, NoCall
<1>2. /\ routeCall[q].pc = "mark" /\ IsAgent(q) => routeCall[q].challenge \in Challenge
  BY <1>s DEF RouteCallOK, NoCall, IsAgent
<1>3. settled' \in SUBSET Tx
  BY <1>s, <1>1
  DEF RouteAction, AskPrice, StoreChallenge, PresentPayment, SettleRoute, MarkAccess,
      PayAccess, CallBackend, MarkDelivered, PresentPpr, MarkPpr, CreatePpr, PayPpr,
      PayOverMcp, PayOverA2A, CheckPlanAndTx, FindRouteRecord, CreateRouteRecord,
      PayRouteRecord, MarkRouteRecord, RollBackRouteRecord, AssertPaidState,
      FetchOverMcp, InitiateRefund, RouteCallLost, CallAt
<1>4. UNCHANGED seenTx \/ \E c \in Challenge : MarkUsed(routeCall[q].tx, c)
  BY <1>2
  DEF RouteAction, AskPrice, StoreChallenge, PresentPayment, SettleRoute, MarkAccess,
      PayAccess, CallBackend, MarkDelivered, PresentPpr, MarkPpr, CreatePpr, PayPpr,
      PayOverMcp, PayOverA2A, CheckPlanAndTx, FindRouteRecord, CreateRouteRecord,
      PayRouteRecord, MarkRouteRecord, RollBackRouteRecord, AssertPaidState,
      FetchOverMcp, InitiateRefund, RouteCallLost, CallAt, storeVars, Create, Transition,
      TransitionRefused
<1> QED
  BY <1>s, <1>3, <1>4 DEF MarkUsed

LEMMA RouteCallType ==
  ASSUME RouteTypeInv, NEW q \in RouteCall, RouteAction(q)
  PROVE  StoreTypeOK'
<1>s. /\ challenges \in [Challenge -> ChallengeRecord]
      /\ requestIndex \in [Request -> Challenge \cup {NoChallenge}]
      /\ paidSet \in SUBSET Challenge
      /\ routeCall[q] \in RouteLocals
  BY DEF RouteTypeInv, RouteTypes, TypeInv, StoreTypeOK
<1>1. CASE RecordsKept
  BY <1>1, <1>s, RouteCallClaims DEF RecordsKept, StoreTypeOK
<1>2. CASE WritesOwn(q)
  BY <1>2, TransitionType DEF WritesOwn, RouteTypeInv, TypeInv
<1>3. ASSUME NEW c \in Challenge, StoresNew(q, c) PROVE StoreTypeOK'
  BY <1>3, <1>s, CreateType DEF StoresNew, RouteTypeInv, TypeInv, RouteLocals
<1>4. CASE CreatePpr(q)
  <2>1. \A c \in Challenge : [challenges[c] EXCEPT !.state = "PENDING"] \in ChallengeRecord
    BY <1>s DEF ChallengeRecord, ChallengeState
  <2> QED
    BY <1>4, <1>s, <2>1, RouteCallClaims DEF CreatePpr, StoreTypeOK
<1> QED
  BY <1>1, <1>2, <1>3, <1>4, RouteCallShape DEF RouteShape, Begins, FindsOld, NamesNew

-----------------------------------------------------------------------------
\* A step of the whole gateway is one of these.

PlanBegins(h) ==
    \/ \E r \in Request : RequestAccess(h, r)
    \/ \E r \in Request, t \in Tx : PreSettlementCheck(h, r, t) \/ SettleUnchecked(h, r, t)

PlanMoves(h) == PlanBegins(h) \/ (HandlerStep(h) /\ NoIdTwice) \/ HandlerLost(h)

TimeMoves ==
    \/ \E c \in Challenge : ChallengeLapses(c) \/ RouteGracePeriodPasses(c)
    \/ \E r \in Request : RequestKeyExpires(r)

LEMMA PlanCalls == ASSUME TypeInv, NEW h, PlanCall(h) PROVE PlanMoves(h)
<1>1. AskForPlan(h) \/ PayForPlan(h) => PlanMoves(h)
  BY DEF AskForPlan, PayForPlan, PlanStep, PlanMoves, PlanBegins
<1>2. A2APlan(h) => PlanMoves(h)
  <2>1. ASSUME NEW c \in Challenge, challenges[c].requestId # NoRequest
        PROVE  challenges[c].requestId \in Request
    BY <2>1 DEF TypeInv, StoreTypeOK, ChallengeRecord
  <2> QED
    BY <2>1 DEF A2APlan, PlanStep, PlanMoves, PlanBegins
<1>3. McpPlan(h) => PlanMoves(h)
  BY DEF McpPlan, PlanStep, PlanMoves, PlanBegins
<1> QED
  BY <1>1, <1>2, <1>3
  DEF PlanCall, ExpressPlanChallenge, ExpressPlanPayment, HonoPlanChallenge, HonoPlanPayment,
      FastifyPlanChallenge, FastifyPlanPayment, A2ARouteRequest, A2APlanRequest

LEMMA GatewaySteps ==
  ASSUME TypeInv, [Next]_vars
  PROVE  \/ (\E h \in Handler : PlanMoves(h)) /\ UNCHANGED <<routeVars, cronVars>>
         \/ (\E q \in RouteCall : RouteAction(q)) /\ UNCHANGED <<deployment, handler, served, cronVars>>
         \/ CronNext /\ UNCHANGED <<engineVars, routeVars>>
         \/ TimeMoves /\ UNCHANGED <<engineVars, routeVars, cronVars>>
         \/ UNCHANGED vars
<1>1. ASSUME NEW h \in Handler, PlanCall(h) \/ HandlerLost(h) PROVE PlanMoves(h)
  BY <1>1, PlanCalls DEF PlanMoves
<1>2. ASSUME NEW q \in RouteCall,
             RouteStep(q) \/ (RouteCallLost(q) /\ UNCHANGED <<deployment, calls>>)
      PROVE  RouteAction(q) /\ UNCHANGED deployment
  BY <1>2, RouteActions DEF RouteStep
<1> QED
  BY <1>1, <1>2 DEF Next, TimeMoves

LEMMA RouteTypeStep == RouteTypeInv /\ [Next]_vars => RouteTypeInv'
<1> SUFFICES ASSUME RouteTypeInv, [Next]_vars PROVE RouteTypeInv'
  OBVIOUS
<1>t. TypeInv
  BY DEF RouteTypeInv
<1>s. \A c \in Challenge : challenges[c] \in ChallengeRecord
  BY <1>t DEF TypeInv, StoreTypeOK
<1>r. UNCHANGED routeVars => RouteTypes'
  BY DEF routeVars, RouteTypeInv, RouteTypes
<1>c. UNCHANGED cronVars => CronTypeOK' /\ \A k \in Cron : RunOK(cron'[k])
  BY <1>t DEF cronVars, TypeInv, CronTypeOK, LocalsInv
<1>e. UNCHANGED engineVars => EngineTypeOK' /\ \A h \in Handler : CallOK(handler'[h])
  BY <1>t DEF engineVars, TypeInv, EngineTypeOK, LocalsInv
<1>1. ASSUME NEW h \in Handler, PlanMoves(h), UNCHANGED <<routeVars, cronVars>>
      PROVE  RouteTypeInv'
  <2>1. ClientCall(h) \/ HandlerStep(h) \/ HandlerLost(h)
    BY <1>1 DEF PlanMoves, PlanBegins, ClientCall
  <2> QED
    BY <1>1, <2>1, <1>t, <1>r, <1>c, EngineTypeStep DEF RouteTypeInv, TypeInv, LocalsInv
<1>2. ASSUME NEW q \in RouteCall, RouteAction(q),
             UNCHANGED <<deployment, handler, served, cronVars>>
      PROVE  RouteTypeInv'
  <2>1. RouteTypes'
    <3>1. \A p \in RouteCall : RouteCallOK(routeCall'[p])
      BY <1>2, RouteCallShape DEF CallKept, OtherCallsKept, RouteTypeInv, RouteTypes
    <3> QED
      BY <1>2, <3>1, RouteCallShape DEF CallKept, RouteTypeInv, RouteTypes
  <2>2. EngineTypeOK' /\ \A h \in Handler : CallOK(handler'[h])
    BY <1>2, <1>t, RouteCallClaims DEF TypeInv, EngineTypeOK, LocalsInv
  <2> QED
    BY <1>2, <2>1, <2>2, <1>c, RouteCallType DEF RouteTypeInv, TypeInv, LocalsInv
<1>3. ASSUME CronNext, UNCHANGED <<engineVars, routeVars>> PROVE RouteTypeInv'
  <2>1. ASSUME NEW k \in Cron, CronStep(k) \/ CronLost(k) PROVE RouteTypeInv'
    BY <1>3, <2>1, <1>t, <1>r, <1>e, CronTypeStep DEF RouteTypeInv, TypeInv, LocalsInv
  <2>2. ASSUME NEW c \in Challenge, RequeueFailed(c) PROVE RouteTypeInv'
    <3>1. StoreTypeOK'
      BY <2>2, <1>t, <1>s, TransitionType DEF RequeueFailed, ChallengeState, TypeInv
    <3> QED
      BY <1>3, <2>2, <3>1, <1>r, <1>e, <1>c DEF RequeueFailed, RouteTypeInv, TypeInv, LocalsInv
  <2> QED
    BY <1>3, <2>1, <2>2 DEF CronNext
<1>4. ASSUME TimeMoves, UNCHANGED <<engineVars, routeVars, cronVars>> PROVE RouteTypeInv'
  <2>1. \A c \in Challenge : /\ [challenges[c] EXCEPT !.lapsed = TRUE] \in ChallengeRecord
                             /\ [challenges[c] EXCEPT !.aged = TRUE] \in ChallengeRecord
    BY <1>s DEF ChallengeRecord
  <2>2. StoreTypeOK'
    BY <1>4, <1>t, <2>1
    DEF TimeMoves, ChallengeLapses, RouteGracePeriodPasses, PaymentAges, RequestKeyExpires,
        TypeInv, StoreTypeOK
  <2> QED
    BY <1>4, <2>2, <1>r, <1>e, <1>c DEF RouteTypeInv, TypeInv, LocalsInv
<1>5. ASSUME UNCHANGED vars PROVE RouteTypeInv'
  <2>1. StoreTypeOK'
    BY <1>5, <1>t, UnchangedStoreType DEF vars, TypeInv
  <2> QED
    BY <1>5, <2>1, <1>r, <1>e, <1>c DEF vars, RouteTypeInv, TypeInv, LocalsInv
<1> QED
  BY <1>t, <1>1, <1>2, <1>3, <1>4, <1>5, GatewaySteps

\* Every variable keeps its type in every deployment: no call, of a plan or of a
\* route, works on a record or a transfer it does not hold.
THEOREM RouteTypeCorrect == Spec => []TypeOK
<1>1. RouteTypeInv => TypeOK
  BY RouteTypeOKHolds DEF RouteTypeInv, TypeInv, TypeOK
<1> QED
  BY <1>1, RouteInitType, RouteTypeStep, PTL DEF Spec

-----------------------------------------------------------------------------
\* Who may name a record. The requestId of a record says who made it: those of
\* plans and of routes bought by name have one, those of the middleware, which
\* no client can name, have none. A call only ever holds a record of its own
\* sort, and one of the middleware has it to itself.

Named(c) == challenges[c].requestId # NoRequest

NamedThen(c) == challenges'[c].requestId # NoRequest

AbsentUnnamed == \A c \in Challenge : challenges[c].state = "ABSENT" => ~ Named(c)

IndexNames ==
    \A r \in Request :
        requestIndex[r] # NoChallenge => challenges[requestIndex[r]].requestId = r

PlansNamed ==
    \A h \in Handler : handler[h].challenge # NoChallenge => Named(handler[h].challenge)

HeldNamed ==
    \A q \in RouteCall :
        routeCall[q].challenge # NoChallenge => (IsPpr(q) <=> ~ Named(routeCall[q].challenge))

HeldAbsent ==
    \A q \in RouteCall :
        IsPpr(q) /\ CallAt(q, "create") => challenges[routeCall[q].challenge].state = "ABSENT"

HeldAlone ==
    \A p, q \in RouteCall :
        /\ p # q /\ IsPpr(p) /\ IsPpr(q)
        /\ routeCall[p].challenge # NoChallenge
        => routeCall[p].challenge # routeCall[q].challenge

\* The middleware is not mounted where the classes are assembled by hand, and
\* only there the agents' calls reach a record.
DeploymentInv ==
    /\ \A q \in RouteCall :
          /\ routeCall[q].kind \in {"access", "ppr", "auto"} => ~ Runs("assembled")
          /\ IsAgent(q) /\ routeCall[q].pc \notin {"settle", "record"} => Runs("assembled")
          /\ IsAgent(q) /\ Runs("assembled") => routeCall[q].requestId # NoRequest
    /\ Runs("assembled") => \A c \in Challenge : challenges[c].state # "ABSENT" => Named(c)

IdInv == AbsentUnnamed /\ IndexNames /\ PlansNamed /\ HeldNamed /\ HeldAbsent /\ HeldAlone
            /\ DeploymentInv

LEMMA InitIdInv == Init => IdInv
<1> SUFFICES ASSUME Init PROVE IdInv
  OBVIOUS
<1>1. ASSUME NEW c \in Challenge PROVE challenges[c].state = "ABSENT" /\ ~ Named(c)
  <2>1. challenges[c] = AbsentRecord
    BY DEF Init, StoreInit
  <2> QED
    BY <2>1 DEF AbsentRecord, Named
<1>2. \A q \in RouteCall : /\ routeCall[q].challenge = NoChallenge
                           /\ ~ IsPpr(q) /\ ~ IsAgent(q) /\ routeCall[q].kind = "none"
  BY DEF Init, RouteInit, NoCall, IsPpr, IsAgent
<1>3. \A h \in Handler : handler[h].challenge = NoChallenge
  BY DEF Init, EngineInit, Idle
<1>4. \A r \in Request : requestIndex[r] = NoChallenge
  BY DEF Init, StoreInit
<1> QED
  BY <1>1, <1>2, <1>3, <1>4
  DEF IdInv, AbsentUnnamed, IndexNames, PlansNamed, HeldNamed, HeldAbsent, HeldAlone,
      DeploymentInv

\* What a step does to the ids of records: nothing, or a request gets a new
\* record, or the middleware makes one under the id it has.
IdsKept ==
    /\ \A c \in Challenge :
          /\ challenges'[c].requestId = challenges[c].requestId
          /\ challenges'[c].state = "ABSENT" <=> challenges[c].state = "ABSENT"
    /\ \A r \in Request : requestIndex'[r] \in {requestIndex[r], NoChallenge}

IdGiven(c, r) ==
    /\ Fresh(c)
    /\ challenges'[c].requestId = r /\ challenges'[c].state # "ABSENT"
    /\ \A d \in Challenge \ {c} : challenges'[d] = challenges[d]
    /\ \A s \in Request : requestIndex'[s] = IF s = r THEN c ELSE requestIndex[s]

IdTaken(q) ==
    /\ IsPpr(q) /\ CallAt(q, "create") /\ routeCall[q].challenge \in Challenge
    /\ routeCall'[q].pc # "create"
    /\ \A c \in Challenge :
          /\ challenges'[c].requestId = challenges[c].requestId
          /\ c # routeCall[q].challenge => challenges'[c] = challenges[c]
    /\ requestIndex' = requestIndex

IdsMove ==
    \/ IdsKept
    \/ \E c \in Challenge, r \in Request : IdGiven(c, r)
    \/ \E q \in RouteCall : IdTaken(q)

\* What a step does to the records calls hold.
PlanTakes(h) ==
    LET c == handler'[h].challenge IN
    c # NoChallenge => c = handler[h].challenge \/ (c \in Challenge /\ NamedThen(c))

RouteTakes(q) ==
    LET call == routeCall[q]
        next == routeCall'[q]
    IN
    \/ next = call
    \/ next = NoCall
    \/ /\ next.kind = call.kind /\ next.challenge = call.challenge
       /\ ~ (IsPpr(q) /\ next.pc = "create")
    \/ /\ next.kind \in {"access", "mcp", "a2a"}
       /\ next.challenge # NoChallenge
            => next.challenge \in Challenge /\ NamedThen(next.challenge)
    \/ /\ next.kind \in {"ppr", "auto"} /\ next.challenge = NoChallenge /\ next.pc # "create"
    \/ /\ next.kind \in {"ppr", "auto"} /\ next.challenge \in Challenge
       /\ Fresh(next.challenge) /\ IdsKept
       /\ \A p \in RouteCall \ {q} : routeCall'[p] = routeCall[p]

LEMMA IdsStep ==
  ASSUME RouteTypeInv, IdInv, UNCHANGED deployment, RouteTypes', StoreTypeOK', IdsMove,
         \A h \in Handler : PlanTakes(h), \A q \in RouteCall : RouteTakes(q)
  PROVE  AbsentUnnamed' /\ IndexNames' /\ PlansNamed' /\ HeldNamed' /\ HeldAbsent' /\ HeldAlone'
<1>s. /\ requestIndex \in [Request -> Challenge \cup {NoChallenge}]
      /\ requestIndex' \in [Request -> Challenge \cup {NoChallenge}]
      /\ NoChallenge \notin Challenge /\ NoRequest \notin Request
      /\ \A q \in RouteCall : routeCall[q] \in RouteLocals /\ routeCall'[q] \in RouteLocals
      /\ \A h \in Handler : handler[h].challenge \in Challenge \cup {NoChallenge}
  BY StoreAssumption
  DEF RouteTypeInv, RouteTypes, TypeInv, StoreTypeOK, EngineTypeOK, Locals
<1>n. ASSUME NEW d \in Challenge, Named(d)
      PROVE  NamedThen(d) /\ challenges'[d].requestId = challenges[d].requestId
  BY <1>n DEF IdsMove, IdsKept, IdGiven, IdTaken, Named, NamedThen, Fresh, IdInv, AbsentUnnamed
<1>p. ASSUME NEW q \in RouteCall, IsPpr(q), routeCall[q].challenge # NoChallenge
      PROVE  ~ NamedThen(routeCall[q].challenge)
  <2>1. routeCall[q].challenge \in Challenge /\ ~ Named(routeCall[q].challenge)
    BY <1>p, <1>s DEF IdInv, HeldNamed, RouteLocals
  <2> QED
    BY <1>p, <2>1 DEF IdsMove, IdsKept, IdGiven, IdTaken, Named, NamedThen, Fresh
<1>1. AbsentUnnamed'
  <2> SUFFICES ASSUME NEW d \in Challenge, challenges'[d].state = "ABSENT" PROVE ~ NamedThen(d)
    BY DEF AbsentUnnamed, Named, NamedThen
  <2>1. CASE IdsKept
    BY <2>1 DEF IdsKept, IdInv, AbsentUnnamed, Named, NamedThen
  <2>2. ASSUME NEW c \in Challenge, NEW r \in Request, IdGiven(c, r) PROVE ~ NamedThen(d)
    BY <2>2 DEF IdGiven, IdInv, AbsentUnnamed, Named, NamedThen
  <2>3. ASSUME NEW q \in RouteCall, IdTaken(q) PROVE ~ NamedThen(d)
    BY <2>3, <1>s DEF IdTaken, IdInv, AbsentUnnamed, HeldAbsent, Named, NamedThen
  <2> QED
    BY <2>1, <2>2, <2>3 DEF IdsMove
<1>2. IndexNames'
  <2> SUFFICES ASSUME NEW r \in Request, requestIndex'[r] # NoChallenge
               PROVE  challenges'[requestIndex'[r]].requestId = r
    BY DEF IndexNames
  <2>1. ASSUME requestIndex'[r] = requestIndex[r]
        PROVE  challenges'[requestIndex'[r]].requestId = r
    <3>1. /\ requestIndex[r] \in Challenge /\ challenges[requestIndex[r]].requestId = r
          /\ Named(requestIndex[r])
      BY <2>1, <1>s DEF IdInv, IndexNames, Named
    <3> QED
      BY <2>1, <3>1, <1>n
  <2> QED
    BY <2>1 DEF IdsMove, IdsKept, IdGiven, IdTaken
<1>3. PlansNamed'
  <2> SUFFICES ASSUME NEW h \in Handler, handler'[h].challenge # NoChallenge
               PROVE  NamedThen(handler'[h].challenge)
    BY DEF PlansNamed, Named, NamedThen
  <2>1. ASSUME handler'[h].challenge = handler[h].challenge
        PROVE  NamedThen(handler'[h].challenge)
    <3>1. handler[h].challenge \in Challenge /\ Named(handler[h].challenge)
      BY <2>1, <1>s DEF IdInv, PlansNamed
    <3>2. NamedThen(handler[h].challenge)
      BY <3>1, <1>n
    <3> QED
      BY <2>1, <3>2
  <2> QED
    BY <2>1 DEF PlanTakes
<1>4. HeldNamed'
  <2> SUFFICES ASSUME NEW q \in RouteCall, routeCall'[q].challenge # NoChallenge
               PROVE  IsPpr(q)' <=> ~ NamedThen(routeCall'[q].challenge)
    BY DEF HeldNamed, Named, NamedThen
  <2> DEFINE c == routeCall'[q].challenge
  <2>1. c \in Challenge
    BY <1>s DEF RouteLocals
  <2>2. ASSUME routeCall'[q].kind = routeCall[q].kind, c = routeCall[q].challenge
        PROVE  IsPpr(q)' <=> ~ NamedThen(c)
    <3>1. IsPpr(q)' <=> IsPpr(q)
      BY <2>2 DEF IsPpr
    <3>2. IsPpr(q) <=> ~ Named(c)
      BY <2>2 DEF IdInv, HeldNamed
    <3>3. Named(c) => NamedThen(c)
      BY <2>1, <1>n
    <3>4. IsPpr(q) => ~ NamedThen(c)
      BY <2>2, <1>p
    <3> QED
      BY <3>1, <3>2, <3>3, <3>4
  <2>3. ASSUME Fresh(c), IdsKept PROVE ~ NamedThen(c)
    BY <2>1, <2>3 DEF Fresh, IdsKept, IdInv, AbsentUnnamed, Named, NamedThen
  <2> QED
    BY <2>1, <2>2, <2>3 DEF RouteTakes, NoCall, IsPpr
<1>5. HeldAbsent'
  <2> SUFFICES ASSUME NEW q \in RouteCall, IsPpr(q)', CallAt(q, "create")'
               PROVE  challenges'[routeCall'[q].challenge].state = "ABSENT"
    BY DEF HeldAbsent
  <2> DEFINE c == routeCall'[q].challenge
  <2>1. CASE routeCall'[q] = routeCall[q]
    <3>1. /\ c \in Challenge /\ c = routeCall[q].challenge /\ IsPpr(q) /\ CallAt(q, "create")
          /\ challenges[c].state = "ABSENT"
      BY <2>1 DEF IsPpr, CallAt, RouteTypeInv, RouteTypes, RouteCallOK, NoCall, IdInv,
                  HeldAbsent
    <3>2. ASSUME NEW d \in Challenge, NEW r \in Request, IdGiven(d, r)
          PROVE  challenges'[c] = challenges[c]
      BY <3>1, <3>2 DEF IdGiven, Fresh
    <3>3. ASSUME NEW p \in RouteCall, IdTaken(p) PROVE challenges'[c] = challenges[c]
      <4>1. p # q /\ IsPpr(p)
        BY <2>1, <3>1, <3>3 DEF IdTaken, CallAt
      <4>2. routeCall[p].challenge # c
        BY <4>1, <3>1, <3>3, <1>s DEF IdTaken, IdInv, HeldAlone
      <4> QED
        BY <3>1, <3>3, <4>2 DEF IdTaken
    <3> QED
      BY <3>1, <3>2, <3>3 DEF IdsMove, IdsKept
  <2>2. CASE c \in Challenge /\ Fresh(c) /\ IdsKept
    BY <2>2 DEF Fresh, IdsKept
  <2> QED
    BY <2>1, <2>2 DEF RouteTakes, NoCall, IsPpr, CallAt
<1>6. HeldAlone'
  <2> SUFFICES ASSUME NEW p \in RouteCall, NEW q \in RouteCall, p # q, IsPpr(p)', IsPpr(q)',
                      routeCall'[p].challenge # NoChallenge,
                      routeCall'[p].challenge = routeCall'[q].challenge
               PROVE  FALSE
    BY DEF HeldAlone
  <2> DEFINE c == routeCall'[p].challenge
  <2>f. ASSUME NEW x \in RouteCall, NEW y \in RouteCall, x # y,
               routeCall'[x].challenge = c, routeCall'[y].challenge = c,
               Fresh(c), \A z \in RouteCall \ {x} : routeCall'[z] = routeCall[z]
        PROVE  FALSE
    BY <2>f DEF Fresh
  <2>1. ASSUME NEW x \in RouteCall, IsPpr(x)', routeCall'[x].challenge = c
        PROVE  \/ IsPpr(x) /\ routeCall[x].challenge = c
               \/ Fresh(c) /\ \A z \in RouteCall \ {x} : routeCall'[z] = routeCall[z]
    BY <2>1 DEF RouteTakes, NoCall, IsPpr
  <2>2. ~ (IsPpr(p) /\ routeCall[p].challenge = c /\ IsPpr(q) /\ routeCall[q].challenge = c)
    BY DEF IdInv, HeldAlone
  <2> QED
    BY <2>1, <2>2, <2>f
<1> QED
  BY <1>1, <1>2, <1>3, <1>4, <1>5, <1>6

\* A plan call takes the record its request leads to, or a new one.
LEMMA PlanIds ==
  ASSUME RouteTypeInv, IdInv, NEW h \in Handler, PlanMoves(h)
  PROVE  /\ IdsKept \/ \E c \in Challenge, r \in Request : IdGiven(c, r)
         /\ \A g \in Handler : PlanTakes(g)
<1>s. /\ requestIndex \in [Request -> Challenge \cup {NoChallenge}]
      /\ challenges \in [Challenge -> ChallengeRecord]
      /\ NoChallenge \notin Challenge /\ NoRequest \notin Request
      /\ handler \in [Handler -> Locals] /\ CallOK(handler[h])
  BY StoreAssumption
  DEF RouteTypeInv, RouteTypes, TypeInv, StoreTypeOK, EngineTypeOK, LocalsInv
<1>t. TypeInv
  BY DEF RouteTypeInv
<1> DEFINE Kept == IdsKept \/ \E c \in Challenge, r \in Request : IdGiven(c, r)
<1>u. RecordsKept => Kept
  BY DEF RecordsKept, IdsKept
<1>c. ASSUME NEW c \in Challenge, NEW r \in Request, Create(c, r), NoIdTwice
      PROVE  IdGiven(c, r)
  <2>1. challenges'[c] = [AbsentRecord EXCEPT !.state = "PENDING", !.requestId = r]
    BY <1>c, <1>s DEF Create
  <2>2. challenges'[c].state = "PENDING" /\ challenges'[c].requestId = r
    BY <2>1 DEF AbsentRecord
  <2>3. Fresh(c)
    BY <1>c, <2>2 DEF Create, NoIdTwice
  <2> QED
    BY <1>c, <1>s, <2>2, <2>3 DEF Create, IdGiven
<1>m. ASSUME NEW c \in Challenge, NEW from \in {"PENDING", "PAID"}, NEW to \in ChallengeState,
             NEW scored \in BOOLEAN, NEW rec \in ChallengeRecord,
             Transition(c, from, to, scored, rec), to # "ABSENT",
             rec.requestId = challenges[c].requestId
      PROVE  IdsKept
  <2>1. challenges[c].state = from /\ UNCHANGED requestIndex /\ Replaced(c, to, rec)
    BY <1>t, <1>m, TransitionRecord
  <2> QED
    BY <1>m, <2>1 DEF Replaced, IdsKept
<1>1. CASE PlanBegins(h) \/ HandlerLost(h)
  <2>1. RecordsKept
    BY <1>1 DEF PlanBegins, RequestAccess, PreSettlementCheck, SettleUnchecked, HandlerLost,
                storeVars, RecordsKept
  <2>2. \A g \in Handler : handler'[g].challenge \in {NoChallenge, handler[g].challenge}
    <3>1. ASSUME NEW l, handler' = [handler EXCEPT ![h] = l], l.challenge = NoChallenge
          PROVE  \A g \in Handler : handler'[g].challenge \in {NoChallenge, handler[g].challenge}
      BY <3>1, <1>s
    <3> DEFINE Goal == \A g \in Handler :
                          handler'[g].challenge \in {NoChallenge, handler[g].challenge}
    <3>2. ASSUME NEW r \in Request, RequestAccess(h, r) PROVE Goal
      <4>1. [Idle EXCEPT !.pc = "create", !.kind = "access", !.requestId = r].challenge
               = NoChallenge
        BY DEF Idle
      <4> QED
        BY <3>1, <3>2, <4>1 DEF RequestAccess
    <3>3. ASSUME NEW r \in Request, NEW t \in Tx,
                 PreSettlementCheck(h, r, t) \/ SettleUnchecked(h, r, t)
          PROVE  Goal
      <4>1. \A kind : [Idle EXCEPT !.pc = "settle", !.kind = kind, !.requestId = r,
                                  !.tx = t].challenge = NoChallenge
        BY DEF Idle
      <4>2. PICK kind : handler' = [handler EXCEPT ![h] =
                           [Idle EXCEPT !.pc = "settle", !.kind = kind, !.requestId = r,
                                        !.tx = t]]
        BY <3>3 DEF PreSettlementCheck, SettleUnchecked
      <4> QED
        BY <3>1, <4>1, <4>2
    <3>4. ASSUME HandlerLost(h) PROVE Goal
      BY <3>1, <3>4 DEF HandlerLost, Return, Idle
    <3> QED
      BY <1>1, <3>2, <3>3, <3>4 DEF PlanBegins
  <2> QED
    BY <2>1, <2>2, <1>u DEF PlanTakes
<1>2. CASE HandlerStep(h) /\ NoIdTwice
  <2>1. Kept
    BY <1>t, <1>2, <1>u, <1>c, <1>m, EngineWrites DEF OwnRecord, RecordsKept
  <2>2. PlanTakes(h)
    <3>1. CASE handler'[h].challenge \in {NoChallenge, handler[h].challenge}
      BY <3>1 DEF PlanTakes
    <3>2. ASSUME NEW r \in Request, handler'[h].challenge = requestIndex[r],
                 UNCHANGED challenges
          PROVE  PlanTakes(h)
      BY <1>s, <3>2 DEF PlanTakes, IdInv, IndexNames, NamedThen
    <3>3. ASSUME NEW c \in Challenge, NEW r \in Request, Create(c, r),
                 handler'[h].challenge = c
          PROVE  PlanTakes(h)
      BY <1>2, <1>c, <1>s, <3>3 DEF PlanTakes, IdGiven, NamedThen
    <3> QED
      BY <1>t, <1>2, <3>1, <3>2, <3>3, EngineTakes
  <2> QED
    BY <1>t, <1>2, <2>1, <2>2, EngineTakes DEF PlanTakes
<1> QED
  BY <1>1, <1>2 DEF PlanMoves

\* Whoever stores a new record for a request has one.
LEMMA NewForRequest ==
  ASSUME RouteTypeInv, IdInv, NEW q \in RouteCall, NEW c \in Challenge, StoresNew(q, c)
  PROVE  routeCall[q].requestId \in Request
<1>s. routeCall[q] \in RouteLocals /\ RouteCallOK(routeCall[q])
  BY DEF RouteTypeInv, RouteTypes
<1>1. CASE IsAgent(q)
  BY <1>1, <1>s DEF StoresNew, CallAt, IdInv, DeploymentInv, RouteLocals
<1>2. CASE ~ IsAgent(q)
  BY <1>2, <1>s DEF StoresNew, CallAt, IsAgent, IsPpr, RouteCallOK, NoCall
<1> QED
  BY <1>1, <1>2

\* A route call takes the record its request leads to, or a new one; the
\* middleware takes an id that nobody else has.
LEMMA RouteIds ==
  ASSUME RouteTypeInv, IdInv, NEW q \in RouteCall, RouteAction(q)
  PROVE  IdsMove /\ \A p \in RouteCall : RouteTakes(p)
<1> DEFINE call == routeCall[q]
           next == routeCall'[q]
<1>s. /\ requestIndex \in [Request -> Challenge \cup {NoChallenge}]
      /\ challenges \in [Challenge -> ChallengeRecord]
      /\ NoChallenge \notin Challenge /\ NoRequest \notin Request
      /\ call \in RouteLocals /\ RouteCallOK(call)
  BY StoreAssumption DEF RouteTypeInv, RouteTypes, TypeInv, StoreTypeOK
<1>t. TypeInv
  BY DEF RouteTypeInv
<1>o. /\ \A p \in RouteCall \ {q} : routeCall'[p] = routeCall[p]
      /\ next \in RouteLocals /\ RouteCallOK(next) /\ RouteShape(q)
  BY RouteCallShape DEF CallKept, OtherCallsKept
<1>p. \A p \in RouteCall \ {q} : RouteTakes(p)
  BY <1>o DEF RouteTakes
<1>k. RecordsKept => IdsKept
  BY DEF RecordsKept, IdsKept
<1>x. ASSUME NEW r \in Request, next.challenge = requestIndex[r], RecordsKept,
             next.challenge # NoChallenge
      PROVE  next.challenge \in Challenge /\ NamedThen(next.challenge)
  BY <1>s, <1>x DEF IdInv, IndexNames, NamedThen, RecordsKept
<1>1. CASE Begins(q)
  <2>1. next.challenge = NoChallenge \/ next.kind = "access"
    BY <1>1 DEF Begins
  <2>2. next.kind \in {"ppr", "auto"} => next.challenge = NoChallenge /\ next.pc # "create"
    BY <1>o, <1>1, <1>s, <2>1 DEF Begins, RouteCallOK, NoCall
  <2>3. next.kind \in {"access", "ppr", "auto", "mcp", "a2a"}
    BY <1>o, <1>1 DEF Begins, RouteLocals
  <2>4. RouteTakes(q)
    BY <1>1, <1>x, <2>2, <2>3 DEF Begins, RouteTakes
  <2> QED
    BY <1>1, <1>p, <1>k, <2>4 DEF Begins, IdsMove
<1>2. CASE GoesOn(q) /\ (RecordsKept \/ WritesOwn(q))
  <2>1. RouteTakes(q)
    <3>1. CASE next = NoCall
      BY <3>1 DEF RouteTakes
    <3>2. ASSUME NEW pc \in RoutePoint, next = [call EXCEPT !.pc = pc],
                 next.pc = "create" => IsAgent(q)
          PROVE  RouteTakes(q)
      BY <3>2, <1>s DEF RouteTakes, RouteLocals, IsAgent, IsPpr
    <3> QED
      BY <1>2, <3>1, <3>2 DEF GoesOn
  <2>2. ASSUME WritesOwn(q) PROVE IdsKept
    <3> DEFINE c == call.challenge
    <3>1. PICK from \in {"PENDING", "PAID"}, to \in ChallengeState \ {"ABSENT"},
               scored \in BOOLEAN, rec \in ChallengeRecord :
                  Transition(c, from, to, scored, rec)
                    /\ rec.requestId = challenges[c].requestId
      BY <2>2 DEF WritesOwn
    <3>2. c \in Challenge
      BY <2>2 DEF WritesOwn
    <3> HIDE DEF c
    <3>3. challenges[c].state = from /\ UNCHANGED requestIndex /\ Replaced(c, to, rec)
      BY <1>t, <3>1, <3>2, TransitionRecord
    <3> QED
      BY <3>1, <3>2, <3>3 DEF Replaced, IdsKept
  <2> QED
    BY <1>2, <1>p, <1>k, <2>1, <2>2 DEF IdsMove
<1>3. ASSUME NEW c \in Challenge, StoresNew(q, c) PROVE IdsMove /\ RouteTakes(q)
  <2> DEFINE r == call.requestId
  <2>1. r \in Request
    BY <1>3, NewForRequest
  <2>2. Fresh(c) /\ Create(c, r)
    BY <1>3 DEF StoresNew
  <2> HIDE DEF r
  <2>3. challenges'[c] = [AbsentRecord EXCEPT !.state = "PENDING", !.requestId = r]
    BY <2>2, <1>s DEF Create
  <2>4. challenges'[c].state = "PENDING" /\ challenges'[c].requestId = r
    BY <2>3 DEF AbsentRecord
  <2>5. IdGiven(c, r)
    BY <2>1, <2>2, <2>4, <1>s DEF Create, IdGiven
  <2>6. RouteTakes(q)
    <3>1. NamedThen(c)
      BY <2>1, <2>4, <1>s DEF NamedThen
    <3> QED
      BY <1>3, <3>1, <1>s DEF StoresNew, RouteTakes, Holds, RouteLocals, IsAgent
  <2> QED
    BY <2>1, <2>5, <2>6 DEF IdsMove
<1>4. ASSUME NEW c \in Challenge, FindsOld(q, c) PROVE IdsMove /\ RouteTakes(q)
  <2>1. next.challenge = c /\ next.kind \in {"mcp", "a2a"}
    BY <1>4, <1>s DEF FindsOld, Holds, RouteLocals, IsAgent
  <2>2. NamedThen(c)
    BY <1>4, <2>1, <1>x, <1>s DEF FindsOld
  <2> QED
    BY <1>4, <2>1, <2>2, <1>k DEF FindsOld, IdsMove, RouteTakes
<1>5. ASSUME NEW c \in Challenge, NamesNew(q, c) PROVE IdsMove /\ RouteTakes(q)
  <2>1. next.challenge = c /\ next.kind \in {"ppr", "auto"}
    BY <1>5, <1>s DEF NamesNew, Holds, RouteLocals, IsPpr
  <2> QED
    BY <1>5, <2>1, <1>o, <1>k DEF NamesNew, IdsMove, RouteTakes
<1>6. CASE CreatePpr(q) /\ next = [call EXCEPT !.pc = "pay"]
  <2>1. /\ next.pc = "pay" /\ next.kind = call.kind /\ next.challenge = call.challenge
        /\ call.challenge \in Challenge
    BY <1>6, <1>s DEF RouteLocals, CreatePpr, IsPpr, CallAt, RouteCallOK, NoCall
  <2>2. IdTaken(q)
    BY <1>6, <2>1, <1>s DEF CreatePpr, IdTaken, ChallengeRecord
  <2>3. RouteTakes(q)
    BY <2>1 DEF RouteTakes
  <2> QED
    BY <2>2, <2>3, <1>p DEF IdsMove
<1> QED
  BY <1>o, <1>p, <1>1, <1>2, <1>3, <1>4, <1>5, <1>6 DEF RouteShape

LEMMA CronIds ==
  ASSUME RouteTypeInv, CronNext
  PROVE  /\ IdsKept
         /\ \A c \in Challenge :
               /\ challenges'[c].txHash = challenges[c].txHash
               /\ challenges'[c].state = "DELIVERED" => challenges[c].state = "DELIVERED"
<1>t. TypeInv /\ \A c \in Challenge : challenges[c] \in ChallengeRecord
  BY DEF RouteTypeInv, TypeInv, StoreTypeOK
<1>1. ASSUME NEW k \in Cron, CronStep(k) \/ CronLost(k)
      PROVE  UNCHANGED requestIndex /\ \A d \in Challenge : RunMoves(k, d)
  BY <1>t, <1>1, RunShape
<1>2. ASSUME NEW c \in Challenge, RequeueFailed(c)
      PROVE  /\ UNCHANGED requestIndex /\ Replaced(c, "PAID", challenges[c])
             /\ challenges[c].state = "REFUND_FAILED"
  <2> DEFINE old == challenges[c]
  <2>1. old \in ChallengeRecord /\ Transition(c, "REFUND_FAILED", "PAID", TRUE, old)
    BY <1>t, <1>2 DEF RequeueFailed
  <2> HIDE DEF old
  <2>2. UNCHANGED requestIndex /\ Replaced(c, "PAID", old) /\ challenges[c].state = "REFUND_FAILED"
    BY <1>t, <2>1, TransitionRecord DEF ChallengeState
  <2> QED
    BY <2>2 DEF old
<1> QED
  BY <1>1, <1>2 DEF CronNext, RunMoves, Replaced, IdsKept

LEMMA TimeIds ==
  ASSUME RouteTypeInv, TimeMoves
  PROVE  /\ IdsKept /\ UNCHANGED paidSet
         /\ \A c \in Challenge : /\ challenges'[c].txHash = challenges[c].txHash
                                 /\ challenges'[c].state = challenges[c].state
                                 /\ challenges'[c].accessGrant = challenges[c].accessGrant
<1>1. ASSUME NEW c \in Challenge, ChallengeLapses(c) \/ RouteGracePeriodPasses(c)
      PROVE  /\ UNCHANGED <<requestIndex, paidSet>>
             /\ \A d \in Challenge : /\ challenges'[d].state = challenges[d].state
                                     /\ challenges'[d].requestId = challenges[d].requestId
                                     /\ challenges'[d].txHash = challenges[d].txHash
                                     /\ challenges'[d].accessGrant = challenges[d].accessGrant
  BY <1>1, TimePasses DEF RouteTypeInv, RouteGracePeriodPasses
<1>2. ASSUME NEW r \in Request, RequestKeyExpires(r)
      PROVE  /\ UNCHANGED <<challenges, paidSet>>
             /\ \A s \in Request : requestIndex'[s] \in {requestIndex[s], NoChallenge}
  BY <1>2 DEF RequestKeyExpires, RouteTypeInv, TypeInv, StoreTypeOK
<1> QED
  BY <1>1, <1>2 DEF TimeMoves, IdsKept

\* The deployment is fixed, and a call that reaches a record is of a kind that
\* the deployment serves.
LEMMA DeploymentStep ==
  ASSUME RouteTypeInv, IdInv, NEW q \in RouteCall, RouteAction(q), UNCHANGED deployment
  PROVE  DeploymentInv'
<1> DEFINE call == routeCall[q]
           next == routeCall'[q]
           Fits(l) == /\ l.kind \in {"access", "ppr", "auto"} => ~ Runs("assembled")
                      /\ l.kind \in {"mcp", "a2a"} =>
                            /\ l.pc \notin {"settle", "record"} => Runs("assembled")
                            /\ Runs("assembled") => l.requestId # NoRequest
<1>s. /\ call \in RouteLocals /\ RouteCallOK(call) /\ NoRequest \notin Request
      /\ Fits(call)
  BY StoreAssumption
  DEF RouteTypeInv, RouteTypes, IdInv, DeploymentInv, IsAgent
<1>o. /\ \A p \in RouteCall \ {q} : routeCall'[p] = routeCall[p]
      /\ RouteShape(q)
  BY RouteCallShape DEF CallKept, OtherCallsKept
<1>1. Fits(next)
  <2>1. CASE Begins(q)
    BY <2>1, <1>s DEF Begins, IdInv, DeploymentInv, Named
  <2>2. CASE GoesOn(q)
    <3>1. CASE next = NoCall
      BY <3>1 DEF NoCall
    <3>2. ASSUME NEW pc \in RoutePoint, next = [call EXCEPT !.pc = pc],
                 call.pc = "record" => Runs("assembled"),
                 IsAgent(q) => call.pc # "settle" \/ next.pc = "record"
          PROVE  Fits(next)
      BY <3>2, <1>s DEF RouteLocals, IsAgent
    <3> QED
      BY <2>2, <3>1, <3>2 DEF GoesOn
  <2>3. ASSUME NEW c \in Challenge, StoresNew(q, c) PROVE Fits(next)
    <3>1. CASE next = NoCall
      BY <3>1 DEF NoCall
    <3>2. CASE IsAgent(q) /\ Holds(q, next, "pay", c)
      <4>1. next.kind = call.kind /\ next.requestId = call.requestId /\ call.pc = "create"
        BY <2>3, <3>2, <1>s DEF StoresNew, Holds, RouteLocals, CallAt
      <4> QED
        BY <3>2, <4>1, <1>s DEF IsAgent
    <3> QED
      BY <2>3, <3>1, <3>2 DEF StoresNew
  <2>4. ASSUME NEW c \in Challenge, FindsOld(q, c) PROVE Fits(next)
    BY <2>4, <1>s DEF FindsOld, Holds, RouteLocals, CallAt, IsAgent
  <2>5. ASSUME NEW c \in Challenge, NamesNew(q, c) PROVE Fits(next)
    BY <2>5, <1>s DEF NamesNew, Holds, RouteLocals, IsPpr
  <2>6. CASE CreatePpr(q) /\ next = [call EXCEPT !.pc = "pay"]
    BY <2>6, <1>s DEF CreatePpr, IsPpr, RouteLocals
  <2> QED
    BY <1>o, <2>1, <2>2, <2>3, <2>4, <2>5, <2>6 DEF RouteShape
<1>2. ASSUME Runs("assembled"), NEW c \in Challenge, challenges'[c].state # "ABSENT"
      PROVE  NamedThen(c)
  <2>1. challenges[c].state # "ABSENT" => Named(c)
    BY <1>2 DEF IdInv, DeploymentInv
  <2>2. ASSUME IdsKept PROVE NamedThen(c)
    BY <1>2, <2>1, <2>2 DEF IdsKept, Named, NamedThen
  <2>3. ASSUME NEW d \in Challenge, NEW r \in Request, IdGiven(d, r) PROVE NamedThen(c)
    BY <1>2, <1>s, <2>1, <2>3 DEF IdGiven, Named, NamedThen
  <2>4. ASSUME NEW p \in RouteCall, IdTaken(p) PROVE FALSE
    BY <1>2, <2>4 DEF IdTaken, IsPpr, IdInv, DeploymentInv
  <2> QED
    BY <2>2, <2>3, <2>4, RouteIds DEF IdsMove
<1>3. \A p \in RouteCall : Fits(routeCall'[p])
  BY <1>o, <1>1 DEF IdInv, DeploymentInv, IsAgent
<1> QED
  BY <1>2, <1>3 DEF DeploymentInv, Named, NamedThen, Runs, IsAgent

LEMMA IdInvStep == RouteTypeInv /\ IdInv /\ [Next]_vars => IdInv'
<1> SUFFICES ASSUME RouteTypeInv, IdInv, [Next]_vars PROVE IdInv'
  OBVIOUS
<1>t. RouteTypes' /\ StoreTypeOK' /\ TypeInv
  BY RouteTypeStep DEF RouteTypeInv, TypeInv
<1>r. UNCHANGED routeVars => \A q \in RouteCall : RouteTakes(q)
  BY DEF routeVars, RouteTakes
<1>h. UNCHANGED handler => \A h \in Handler : PlanTakes(h)
  BY DEF PlanTakes
<1>d. ASSUME UNCHANGED <<deployment, routeCall>>,
             IdsKept \/ \E c \in Challenge, r \in Request : IdGiven(c, r)
      PROVE  DeploymentInv'
  <2>1. ASSUME Runs("assembled"), NEW c \in Challenge, challenges'[c].state # "ABSENT"
        PROVE  NamedThen(c)
    BY <1>d, <2>1, StoreAssumption DEF IdsKept, IdGiven, IdInv, DeploymentInv, Named, NamedThen
  <2> QED
    BY <1>d, <2>1 DEF IdInv, DeploymentInv, Named, NamedThen, Runs, IsAgent
<1>s. ASSUME DeploymentInv', UNCHANGED deployment, IdsMove,
             \A h \in Handler : PlanTakes(h), \A q \in RouteCall : RouteTakes(q)
      PROVE  IdInv'
  BY <1>t, <1>s, IdsStep DEF IdInv
<1>1. ASSUME NEW h \in Handler, PlanMoves(h), UNCHANGED <<routeVars, cronVars>> PROVE IdInv'
  BY <1>1, <1>d, <1>r, <1>s, PlanIds DEF IdsMove, routeVars
<1>2. ASSUME NEW q \in RouteCall, RouteAction(q),
             UNCHANGED <<deployment, handler, served, cronVars>>
      PROVE  IdInv'
  BY <1>2, <1>h, <1>s, RouteIds, DeploymentStep
<1>3. ASSUME CronNext, UNCHANGED <<engineVars, routeVars>> PROVE IdInv'
  BY <1>3, <1>d, <1>r, <1>h, <1>s, CronIds DEF IdsMove, routeVars, engineVars
<1>4. ASSUME TimeMoves, UNCHANGED <<engineVars, routeVars, cronVars>> PROVE IdInv'
  BY <1>4, <1>d, <1>r, <1>h, <1>s, TimeIds DEF IdsMove, routeVars, engineVars
<1>5. ASSUME UNCHANGED vars PROVE IdInv'
  <2>1. IdsKept
    BY <1>5 DEF vars, storeVars, IdsKept
  <2> QED
    BY <1>5, <2>1, <1>d, <1>r, <1>h, <1>s DEF vars, IdsMove, routeVars, engineVars
<1> QED
  BY <1>t, <1>1, <1>2, <1>3, <1>4, <1>5, GatewaySteps

-----------------------------------------------------------------------------
\* The refund job cannot overlook a payment, whoever recorded it.

PaidSetInv == Runs("assembled") \/ PaidSetWhole

LEMMA RoutePaidSetStep == RouteTypeInv /\ IdInv /\ PaidSetInv /\ [Next]_vars => PaidSetInv'
<1> SUFFICES ASSUME RouteTypeInv, IdInv, PaidSetInv, [Next]_vars PROVE PaidSetInv'
  OBVIOUS
<1>t. TypeInv
  BY DEF RouteTypeInv
<1>d. UNCHANGED deployment
  BY <1>t, GatewaySteps DEF routeVars, vars
<1> SUFFICES ASSUME ~ Runs("assembled"), PaidSetWhole PROVE PaidSetWhole'
  BY <1>d DEF PaidSetInv, Runs
<1>u. ASSUME UNCHANGED <<challenges, paidSet>> PROVE PaidSetWhole'
  BY <1>u DEF PaidSetWhole
<1>1. ASSUME NEW h \in Handler, PlanMoves(h) PROVE PaidSetWhole'
  BY <1>1, <1>t, EnginePaidSet DEF PlanMoves, PlanBegins, ClientCall
<1>2. ASSUME NEW q \in RouteCall, RouteAction(q) PROVE PaidSetWhole'
  <2>1. CASE RecordsKept
    BY <2>1, <1>u DEF RecordsKept
  <2>2. CASE WritesOwn(q)
    <3>1. routeCall[q].pc # "assert"
      BY DEF RouteTypeInv, RouteTypes, RouteCallOK, NoCall, IdInv, DeploymentInv, IsAgent
    <3> QED
      BY <2>2, <3>1, <1>t, TransitionPaidSet DEF WritesOwn, PaidRecorded
  <2>3. ASSUME NEW c \in Challenge, StoresNew(q, c) PROVE PaidSetWhole'
    BY <2>3, <1>t, CreatePaidSet DEF StoresNew
  <2>4. CASE CreatePpr(q)
    <3> DEFINE c == routeCall[q].challenge
    <3>1. challenges[c].state = "ABSENT"
      BY <2>4 DEF CreatePpr, IdInv, HeldAbsent
    <3>2. /\ UNCHANGED paidSet
          /\ \A d \in Challenge : d # c => challenges'[d] = challenges[d]
          /\ c \in Challenge => challenges'[c].state = "PENDING"
      BY <2>4, <1>t DEF CreatePpr, TypeInv, StoreTypeOK, ChallengeRecord
    <3> QED
      BY <3>1, <3>2 DEF PaidSetWhole
  <2> QED
    BY <1>2, <2>1, <2>2, <2>3, <2>4, RouteCallShape DEF RouteShape, Begins, FindsOld, NamesNew
<1>3. ASSUME CronNext PROVE PaidSetWhole'
  BY <1>3, <1>t, CronPaidSet
<1>4. ASSUME TimeMoves PROVE PaidSetWhole'
  BY <1>4, TimeIds DEF PaidSetWhole
<1>5. ASSUME UNCHANGED vars PROVE PaidSetWhole'
  BY <1>5, <1>u DEF vars, storeVars
<1> QED
  BY <1>t, <1>1, <1>2, <1>3, <1>4, <1>5, GatewaySteps

\* Whatever way a payment came in, over a plan or a route, over HTTP or the
\* agents' protocols: a record that is PAID without a grant is in the set that
\* the refund job scans, and only PAID records are, unless the classes were
\* assembled by hand (assertPaidState).
THEOREM RoutePaidSetCorrect == Spec => []RoutePaidSetComplete
<1>1. Init => PaidSetInv
  <2> SUFFICES ASSUME Init, NEW c \in Challenge
               PROVE  c \notin paidSet /\ challenges[c].state # "PAID"
    BY DEF PaidSetInv, PaidSetWhole
  <2>1. paidSet = {} /\ challenges[c] = AbsentRecord
    BY DEF Init, StoreInit
  <2> QED
    BY <2>1 DEF AbsentRecord
<1>2. PaidSetInv => RoutePaidSetComplete
  BY DEF PaidSetInv, PaidSetWhole, RoutePaidSetComplete
<1> QED
  BY <1>1, <1>2, RouteInitType, RouteTypeStep, InitIdInv, IdInvStep, RoutePaidSetStep, PTL
  DEF Spec

-----------------------------------------------------------------------------
\* A record of the middleware is delivered for an answer.

\* The call has paid its record with its own transfer before it asks the
\* backend, and has the answer before it writes DELIVERED.
AnswerInv ==
    \A q \in RouteCall :
        IsPpr(q) /\ routeCall[q].challenge # NoChallenge =>
            /\ routeCall[q].pc \in {"fetch", "deliver"}
                 => challenges[routeCall[q].challenge].txHash = routeCall[q].tx
            /\ routeCall[q].pc = "deliver" => provided[routeCall[q].tx] > 0

Answered ==
    \A c \in Challenge :
        challenges[c].state = "DELIVERED" /\ ~ Named(c)
            => challenges[c].txHash \in Tx /\ provided[challenges[c].txHash] > 0

\* A step that is not of the middleware does not touch its records.
LEMMA MiddlewareSpared ==
  ASSUME RouteTypeInv, IdInv, NEW d \in Challenge, ~ NamedThen(d),
         \/ \E h \in Handler : PlanMoves(h)
         \/ \E q \in RouteCall :
               RouteAction(q) /\ (~ IsPpr(q) \/ routeCall[q].challenge # d)
  PROVE  challenges'[d] = challenges[d]
<1>t. TypeInv /\ challenges \in [Challenge -> ChallengeRecord]
  BY DEF RouteTypeInv, TypeInv, StoreTypeOK
<1>w. ASSUME NEW c \in Challenge, NEW from, NEW to, NEW scored, NEW rec,
             Transition(c, from, to, scored, rec), c # d
      PROVE  challenges'[d] = challenges[d]
  BY <1>w, <1>t DEF Transition
<1>c. ASSUME NEW c \in Challenge, NEW r \in Request, Create(c, r)
      PROVE  challenges'[d] = challenges[d]
  <2>1. challenges'[c] = [AbsentRecord EXCEPT !.state = "PENDING", !.requestId = r]
    BY <1>c, <1>t DEF Create
  <2>2. challenges'[c].requestId = r /\ r # NoRequest
    BY <2>1, StoreAssumption DEF AbsentRecord
  <2>3. c # d
    BY <2>2 DEF NamedThen
  <2> QED
    BY <1>c, <2>3, <1>t DEF Create
<1>n. NoChallenge \notin Challenge
  BY StoreAssumption
<1>k. IdsMove => (Named(d) => NamedThen(d))
  BY DEF IdsMove, IdsKept, IdGiven, IdTaken, Named, NamedThen, Fresh, IdInv, AbsentUnnamed
<1>1. ASSUME NEW h \in Handler, PlanMoves(h) PROVE challenges'[d] = challenges[d]
  <2>1. CASE ~ HandlerStep(h)
    BY <1>1, <2>1
    DEF PlanMoves, PlanBegins, RequestAccess, PreSettlementCheck, SettleUnchecked,
        HandlerLost, storeVars
  <2>2. CASE HandlerStep(h)
    <3>2. ASSUME handler[h].challenge \in Challenge PROVE handler[h].challenge # d
      <4>1. IdsMove
        BY <1>1, PlanIds DEF IdsMove
      <4> QED
        BY <3>2, <4>1, <1>k, <1>n DEF IdInv, PlansNamed
    <3> QED
      BY <2>2, <3>2, <1>c, <1>t, <1>w, EngineWrites DEF OwnRecord
  <2> QED
    BY <2>1, <2>2
<1>2. ASSUME NEW q \in RouteCall, RouteAction(q), ~ IsPpr(q) \/ routeCall[q].challenge # d
      PROVE  challenges'[d] = challenges[d]
  <2>1. CASE RecordsKept
    BY <2>1 DEF RecordsKept
  <2>2. IdsMove
    BY <1>2, RouteIds
  <2>3. CASE WritesOwn(q)
    <3>1. routeCall[q].challenge \in Challenge
      BY <2>3 DEF WritesOwn
    <3>2. routeCall[q].challenge # d
      BY <1>2, <3>1, <2>2, <1>k, <1>n DEF IdInv, HeldNamed
    <3> QED
      BY <2>3, <3>2, <1>w DEF WritesOwn
  <2>4. ASSUME NEW c \in Challenge, StoresNew(q, c) PROVE challenges'[d] = challenges[d]
    <3> DEFINE r == routeCall[q].requestId
    <3>1. r \in Request /\ Create(c, r)
      BY <2>4, NewForRequest DEF StoresNew
    <3> HIDE DEF r
    <3> QED
      BY <3>1, <1>c
  <2>5. CASE CreatePpr(q)
    BY <1>2, <2>5, <1>t DEF CreatePpr
  <2> QED
    BY <1>2, <2>1, <2>3, <2>4, <2>5, RouteCallShape DEF RouteShape, Begins, FindsOld, NamesNew
<1> QED
  BY <1>1, <1>2

\* A call keeps what it has shown, if its record keeps its transfer.
LEMMA AnswerHolds ==
  ASSUME RouteTypeInv, AnswerInv, ResponsesKept, NEW q \in RouteCall,
         routeCall'[q] = routeCall[q], IsPpr(q), routeCall[q].challenge # NoChallenge,
         challenges'[routeCall[q].challenge].txHash = challenges[routeCall[q].challenge].txHash
  PROVE  /\ routeCall'[q].pc \in {"fetch", "deliver"}
              => challenges'[routeCall'[q].challenge].txHash = routeCall'[q].tx
         /\ routeCall'[q].pc = "deliver" => provided'[routeCall'[q].tx] > 0
<1>1. routeCall[q].pc = "deliver" => routeCall[q].tx \in Tx
  BY DEF RouteTypeInv, RouteTypes, RouteCallOK, NoCall
<1> QED
  BY <1>1 DEF AnswerInv, ResponsesKept

\* The step of a call of the middleware itself.
LEMMA AnswerMade ==
  ASSUME RouteTypeInv, AnswerInv, NEW q \in RouteCall, RouteAction(q),
         routeCall'[q].kind \in {"ppr", "auto"}, routeCall'[q].challenge # NoChallenge
  PROVE  /\ routeCall'[q].pc \in {"fetch", "deliver"}
              => challenges'[routeCall'[q].challenge].txHash = routeCall'[q].tx
         /\ routeCall'[q].pc = "deliver" => provided'[routeCall'[q].tx] > 0
<1> DEFINE call == routeCall[q]
           next == routeCall'[q]
<1>s. /\ call \in RouteLocals /\ RouteShape(q) /\ TypeInv
      /\ \A c \in Challenge : challenges[c] \in ChallengeRecord
      /\ call.challenge \in Challenge \cup {NoChallenge}
  BY RouteCallShape DEF RouteTypeInv, RouteTypes, TypeInv, StoreTypeOK, RouteLocals
<1>1. CASE Begins(q)
  BY <1>1 DEF Begins
<1>2. CASE GoesOn(q) /\ (RecordsKept \/ WritesOwn(q))
  <2>1. CASE next = NoCall
    BY <2>1 DEF NoCall
  <2>2. ASSUME NEW pc \in RoutePoint, next = [call EXCEPT !.pc = pc]
        PROVE  /\ next.challenge = call.challenge /\ next.tx = call.tx
               /\ next.kind = call.kind /\ next.pc = pc
    BY <2>2, <1>s DEF RouteLocals
  <2>3. ASSUME next.challenge = call.challenge, next.tx = call.tx, IsPpr(q), next.pc = "deliver",
               call.pc = "fetch"
        PROVE  challenges'[next.challenge].txHash = next.tx
    <3> DEFINE c == call.challenge
    <3>1. c \in Challenge /\ challenges[c].txHash = call.tx
      BY <1>s, <2>3 DEF AnswerInv
    <3>2. CASE RecordsKept
      BY <2>3, <3>1, <3>2 DEF RecordsKept
    <3>3. CASE WritesOwn(q)
      <4>1. PICK from \in {"PENDING", "PAID"}, to \in ChallengeState \ {"ABSENT"},
                 scored \in BOOLEAN, rec \in ChallengeRecord :
                    Transition(c, from, to, scored, rec) /\ rec.txHash = challenges[c].txHash
        BY <2>3, <3>3 DEF WritesOwn
      <4> HIDE DEF c
      <4>2. Replaced(c, to, rec)
        BY <1>s, <3>1, <4>1, TransitionRecord
      <4>3. challenges'[c].txHash = call.tx
        BY <3>1, <4>1, <4>2 DEF Replaced
      <4> QED
        BY <2>3, <4>3 DEF c
    <3> QED
      BY <1>2, <3>2, <3>3
  <2> QED
    BY <1>2, <2>1, <2>2, <2>3 DEF GoesOn, IsPpr
<1>3. ASSUME NEW c \in Challenge, StoresNew(q, c) PROVE FALSE
  <2>1. CASE next = NoCall
    BY <2>1 DEF NoCall
  <2>2. CASE IsAgent(q) /\ Holds(q, next, "pay", c)
    BY <2>2, <1>s DEF Holds, IsAgent, RouteLocals
  <2> QED
    BY <1>3, <2>1, <2>2 DEF StoresNew
<1>4. ASSUME NEW c \in Challenge, FindsOld(q, c) PROVE FALSE
  BY <1>4, <1>s DEF FindsOld, Holds, IsAgent, RouteLocals
<1>5. ASSUME NEW c \in Challenge, NamesNew(q, c) PROVE next.pc = "create"
  BY <1>5, <1>s DEF NamesNew, Holds, RouteLocals
<1>6. CASE CreatePpr(q) /\ next = [call EXCEPT !.pc = "pay"]
  <2>1. next.pc = "pay"
    BY <1>6, <1>s DEF RouteLocals
  <2> QED
    BY <2>1
<1> QED
  BY <1>s, <1>1, <1>2, <1>3, <1>4, <1>5, <1>6 DEF RouteShape

LEMMA AnsweredMade ==
  ASSUME RouteTypeInv, IdInv, AnswerInv, Answered, NEW q \in RouteCall, RouteAction(q),
         IsPpr(q), NEW d \in Challenge, d = routeCall[q].challenge,
         challenges'[d].state = "DELIVERED"
  PROVE  challenges'[d].txHash \in Tx /\ provided'[challenges'[d].txHash] > 0
<1>s. /\ RouteShape(q) /\ TypeInv /\ ResponsesKept
      /\ RouteCallOK(routeCall[q])
      /\ challenges \in [Challenge -> ChallengeRecord]
      /\ NoChallenge \notin Challenge
  BY RouteCallShape, StoreAssumption DEF RouteTypeInv, RouteTypes, TypeInv, StoreTypeOK
<1>n. ~ Named(d)
  BY <1>s DEF IdInv, HeldNamed
<1>1. CASE RecordsKept
  BY <1>1, <1>n, <1>s DEF RecordsKept, Answered, ResponsesKept
<1>2. CASE WritesOwn(q) /\ UNCHANGED provided
  <2>1. PICK from \in {"PENDING", "PAID"}, to \in ChallengeState \ {"ABSENT"},
             scored \in BOOLEAN, rec \in ChallengeRecord :
                /\ Transition(d, from, to, scored, rec)
                /\ rec.txHash = challenges[d].txHash \/ routeCall[q].pc = "pay"
                /\ to = "DELIVERED" => routeCall[q].pc = "deliver"
    BY <1>2 DEF WritesOwn
  <2>2. Replaced(d, to, rec)
    BY <1>s, <2>1, TransitionRecord
  <2>3. to = "DELIVERED" /\ challenges'[d].txHash = rec.txHash
    BY <2>2 DEF Replaced
  <2>4. /\ routeCall[q].pc = "deliver" /\ routeCall[q].tx \in Tx
        /\ challenges'[d].txHash = challenges[d].txHash
    BY <1>s, <2>1, <2>3 DEF RouteCallOK, NoCall
  <2>5. challenges[d].txHash = routeCall[q].tx /\ provided[routeCall[q].tx] > 0
    BY <1>s, <2>4 DEF AnswerInv
  <2> QED
    BY <1>2, <2>4, <2>5
<1>3. ASSUME CreatePpr(q) PROVE FALSE
  <2>1. challenges'[d].state = "PENDING"
    BY <1>3, <1>s DEF CreatePpr, ChallengeRecord
  <2> QED
    BY <2>1
<1>4. ASSUME NEW c \in Challenge, StoresNew(q, c) PROVE FALSE
  BY <1>4 DEF StoresNew
<1> QED
  BY <1>s, <1>1, <1>2, <1>3, <1>4 DEF RouteShape, Begins, FindsOld, NamesNew

LEMMA AnswerStep ==
  RouteTypeInv /\ IdInv /\ AnswerInv /\ Answered /\ [Next]_vars => AnswerInv' /\ Answered'
<1> SUFFICES ASSUME RouteTypeInv, IdInv, AnswerInv, Answered, [Next]_vars
             PROVE  AnswerInv' /\ Answered'
  OBVIOUS
<1>t. TypeInv
  BY DEF RouteTypeInv
<1>s. /\ \A q \in RouteCall : routeCall[q].challenge \in Challenge \cup {NoChallenge}
      /\ \A c \in Challenge : challenges[c] \in ChallengeRecord
  BY <1>t DEF RouteTypeInv, RouteTypes, RouteLocals, TypeInv, StoreTypeOK
<1>h. \A q \in RouteCall : routeCall'[q].kind \in {"ppr", "auto"}
                             /\ routeCall'[q].challenge # NoChallenge
                               => ~ NamedThen(routeCall'[q].challenge)
  BY IdInvStep DEF IdInv, HeldNamed, IsPpr, Named, NamedThen
<1>a. ASSUME \A q \in RouteCall :
                routeCall'[q].kind \in {"ppr", "auto"} /\ routeCall'[q].challenge # NoChallenge =>
                   /\ routeCall'[q].pc \in {"fetch", "deliver"}
                        => challenges'[routeCall'[q].challenge].txHash = routeCall'[q].tx
                   /\ routeCall'[q].pc = "deliver" => provided'[routeCall'[q].tx] > 0,
             \A d \in Challenge :
                challenges'[d].state = "DELIVERED" /\ ~ NamedThen(d)
                  => challenges'[d].txHash \in Tx /\ provided'[challenges'[d].txHash] > 0
      PROVE  AnswerInv' /\ Answered'
  BY <1>a DEF AnswerInv, Answered, IsPpr, Named, NamedThen
\* What the middleware did not touch in this step.
<1>k. ASSUME ResponsesKept, NEW d \in Challenge, challenges'[d].state = "DELIVERED",
             ~ NamedThen(d), challenges[d].state = "DELIVERED",
             challenges'[d].txHash = challenges[d].txHash,
             challenges'[d].requestId = challenges[d].requestId
      PROVE  challenges'[d].txHash \in Tx /\ provided'[challenges'[d].txHash] > 0
  BY <1>k DEF Answered, ResponsesKept, Named, NamedThen
<1>m. ASSUME UNCHANGED <<routeCall, provided>>,
             \A d \in Challenge : ~ NamedThen(d) =>
                /\ challenges'[d].txHash = challenges[d].txHash
                /\ challenges'[d].requestId = challenges[d].requestId
                /\ challenges'[d].state = "DELIVERED" => challenges[d].state = "DELIVERED"
      PROVE  AnswerInv' /\ Answered'
  <2>1. ResponsesKept
    BY <1>m DEF ResponsesKept
  <2>2. ASSUME NEW q \in RouteCall, routeCall'[q].kind \in {"ppr", "auto"},
               routeCall'[q].challenge # NoChallenge
        PROVE  /\ routeCall'[q].pc \in {"fetch", "deliver"}
                    => challenges'[routeCall'[q].challenge].txHash = routeCall'[q].tx
               /\ routeCall'[q].pc = "deliver" => provided'[routeCall'[q].tx] > 0
    <3>1. IsPpr(q) /\ routeCall'[q] = routeCall[q] /\ routeCall[q].challenge \in Challenge
          /\ routeCall[q].challenge # NoChallenge
      BY <1>m, <1>s, <2>2 DEF IsPpr
    <3>2. challenges'[routeCall[q].challenge].txHash = challenges[routeCall[q].challenge].txHash
      BY <1>m, <1>h, <2>2, <3>1
    <3> QED
      BY <2>1, <3>1, <3>2, AnswerHolds
  <2>3. ASSUME NEW d \in Challenge, challenges'[d].state = "DELIVERED", ~ NamedThen(d)
        PROVE  challenges'[d].txHash \in Tx /\ provided'[challenges'[d].txHash] > 0
    BY <1>m, <2>1, <2>3, <1>k
  <2> QED
    BY <1>a, <2>2, <2>3
<1>1. ASSUME NEW h \in Handler, PlanMoves(h), UNCHANGED <<routeVars, cronVars>>
      PROVE  AnswerInv' /\ Answered'
  BY <1>1, <1>m, MiddlewareSpared DEF routeVars
<1>2. ASSUME NEW q \in RouteCall, RouteAction(q),
             UNCHANGED <<deployment, handler, served, cronVars>>
      PROVE  AnswerInv' /\ Answered'
  <2>1. ResponsesKept /\ \A p \in RouteCall \ {q} : routeCall'[p] = routeCall[p]
    BY <1>2, RouteCallShape DEF CallKept, OtherCallsKept
  <2>2. ASSUME NEW p \in RouteCall, routeCall'[p].kind \in {"ppr", "auto"},
               routeCall'[p].challenge # NoChallenge
        PROVE  /\ routeCall'[p].pc \in {"fetch", "deliver"}
                    => challenges'[routeCall'[p].challenge].txHash = routeCall'[p].tx
               /\ routeCall'[p].pc = "deliver" => provided'[routeCall'[p].tx] > 0
    <3>1. CASE p = q
      BY <1>2, <2>2, <3>1, AnswerMade
    <3>2. CASE p # q
      <4>1. /\ IsPpr(p) /\ routeCall'[p] = routeCall[p] /\ routeCall[p].challenge # NoChallenge
            /\ routeCall[p].challenge \in Challenge
        BY <1>s, <2>1, <2>2, <3>2 DEF IsPpr
      <4>2. ~ IsPpr(q) \/ routeCall[q].challenge # routeCall[p].challenge
        BY <3>2, <4>1 DEF IdInv, HeldAlone
      <4>3. ~ NamedThen(routeCall[p].challenge)
        BY <1>h, <2>2, <4>1
      <4>4. challenges'[routeCall[p].challenge] = challenges[routeCall[p].challenge]
        BY <1>2, <4>1, <4>2, <4>3, MiddlewareSpared
      <4> QED
        BY <2>1, <4>1, <4>4, AnswerHolds
    <3> QED
      BY <3>1, <3>2
  <2>3. ASSUME NEW d \in Challenge, challenges'[d].state = "DELIVERED", ~ NamedThen(d)
        PROVE  challenges'[d].txHash \in Tx /\ provided'[challenges'[d].txHash] > 0
    <3>1. CASE IsPpr(q) /\ routeCall[q].challenge = d
      BY <1>2, <2>3, <3>1, AnsweredMade
    <3>2. CASE ~ IsPpr(q) \/ routeCall[q].challenge # d
      <4>1. challenges'[d] = challenges[d]
        BY <1>2, <2>3, <3>2, MiddlewareSpared
      <4> QED
        BY <2>1, <2>3, <4>1, <1>k
    <3> QED
      BY <3>1, <3>2
  <2> QED
    BY <1>a, <2>2, <2>3
<1>3. ASSUME CronNext, UNCHANGED <<engineVars, routeVars>> PROVE AnswerInv' /\ Answered'
  BY <1>3, <1>m, CronIds DEF routeVars, IdsKept
<1>4. ASSUME TimeMoves, UNCHANGED <<engineVars, routeVars, cronVars>>
      PROVE  AnswerInv' /\ Answered'
  BY <1>4, <1>m, TimeIds DEF routeVars, IdsKept
<1>5. ASSUME UNCHANGED vars PROVE AnswerInv' /\ Answered'
  BY <1>5, <1>m DEF vars, storeVars, routeVars
<1> QED
  BY <1>t, <1>1, <1>2, <1>3, <1>4, <1>5, GatewaySteps

\* A payment that the middleware recorded is DELIVERED only if its client had
\* a response for that very transfer: no error of the backend, lost call or
\* refund run in between closes an unanswered payment, and no other call, of a
\* plan or a route, can write into its record.
THEOREM PprDeliveryIsAnswered == Spec => []PprDeliveredIsProvided
<1>1. Init => AnswerInv /\ Answered
  <2> SUFFICES ASSUME Init PROVE AnswerInv /\ Answered
    OBVIOUS
  <2>1. \A q \in RouteCall : routeCall[q].challenge = NoChallenge
    BY DEF Init, RouteInit, NoCall
  <2>2. \A c \in Challenge : challenges[c].state # "DELIVERED"
    BY DEF Init, StoreInit, AbsentRecord
  <2> QED
    BY <2>1, <2>2 DEF AnswerInv, Answered
<1>2. Answered => PprDeliveredIsProvided
  BY DEF Answered, PprDeliveredIsProvided, Named
<1> QED
  BY <1>1, <1>2, RouteInitType, RouteTypeStep, InitIdInv, IdInvStep, AnswerStep, PTL DEF Spec
=============================================================================

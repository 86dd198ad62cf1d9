--------------------------- MODULE RouteRefinement ---------------------------
(***************************************************************************)
(* The whole gateway implements PaymentPromise, as long as calls and runs  *)
(* are lost only where nothing is left half-done. Plan calls and the five  *)
(* kinds of route calls are looked at alike: by the stage a call has       *)
(* reached with the transfer it carries and the record it names.           *)
(***************************************************************************)
EXTENDS RouteProofs, FiniteSetTheorems

-----------------------------------------------------------------------------
\* The stages of a call.
\*   asks      it has moved nothing, or has ended
\*   settled   its transfer is on chain
\*   claims    its record is PAID, the hash is not yet claimed (or is lost)
\*   owns      the hash is claimed for its record
\*   granted   the grant is stored, or the record was DELIVERED meanwhile
\*   holds     the hash is claimed, for a record that may be another's
\*   delivers  the client has its response
\*   refunds   the backend failed and the record is to be refunded

PlanStage(l) ==
    CASE l.pc \in {"mark", "rollback"} -> "claims"
      [] l.pc \in {"issue", "persist"} -> "owns"
      [] l.pc = "deliver" -> "granted"
      [] l.pc \in {"seen", "find", "create", "pay"} /\ l.kind = "http" -> "settled"
      [] OTHER -> "asks"

RouteStage(l) ==
    CASE l.pc = "deliver" -> "delivers"
      [] l.pc = "refund" -> "refunds"
      [] l.pc \in {"mark", "rollback"} /\ l.kind \in {"mcp", "a2a"} -> "claims"
      [] l.pc \in {"assert", "fetch"} /\ l.kind \in {"mcp", "a2a"} -> "owns"
      [] l.pc \in {"record", "find", "create", "pay"} /\ l.kind \in {"mcp", "a2a"} -> "settled"
      [] l.pc = "mark" /\ l.kind \in {"access", "ppr", "auto"} -> "settled"
      [] l.pc \in {"pay", "fetch"} /\ l.kind \in {"access", "ppr", "auto"} -> "holds"
      [] l.pc = "create" /\ l.kind \in {"ppr", "auto"} -> "holds"
      [] OTHER -> "asks"

Caller == ({"plan"} \X Handler) \cup ({"route"} \X RouteCall)

StageOf(l, stage) == [stage |-> stage, challenge |-> l.challenge, tx |-> l.tx]

view == [x \in Caller |->
            IF x[1] = "plan" THEN StageOf(handler[x[2]], PlanStage(handler[x[2]]))
            ELSE StageOf(routeCall[x[2]], RouteStage(routeCall[x[2]]))]

Owning == {"claims", "owns", "granted", "refunds"}
Marked == {"owns", "granted", "refunds", "holds", "delivers"}

\* The states of a payment that has bought nothing yet, or that is paid back.
OwedStates == {"PAID", "REFUND_PENDING", "REFUNDED", "REFUND_FAILED"}

\* Only two of the five kinds of plan calls are made here.
PlanKinds == \A h \in Handler : handler[h].kind \notin {"proof", "cancel"}

-----------------------------------------------------------------------------
\* The shape of a step of a call.

OthersStay(x) == \A y \in Caller \ {x} : view'[y] = view[y]

Reaches(x, stage) ==
    /\ view'[x].stage = stage
    /\ view'[x].challenge = view[x].challenge
    /\ view'[x].tx = view[x].tx

Ends(x) == view'[x].stage = "asks"

\* The parts of a record that a change of state leaves alone.
SamePayment(d) ==
    /\ challenges'[d].txHash = challenges[d].txHash
    /\ challenges'[d].fromAddress = challenges[d].fromAddress
    /\ challenges'[d].aged = challenges[d].aged

SameGrant(d) == challenges'[d].accessGrant = challenges[d].accessGrant

\* A compare-and-swap from PAID, whether it succeeds or is refused.
Swaps(c, to) ==
    /\ c \in Challenge
    /\ \A d \in Challenge :
          /\ SamePayment(d) /\ SameGrant(d)
          /\ challenges'[d].state =
                IF d = c /\ challenges[d].state = "PAID" THEN to ELSE challenges[d].state

StandsBy(x) ==
    /\ \/ Ends(x) /\ view[x].stage \notin {"claims", "delivers"}
       \/ /\ view[x].stage = "asks"
          /\ view'[x].stage = "settled" /\ view'[x].tx \in settled'
       \/ /\ view[x].stage = "settled"
          /\ view'[x].stage = "settled" /\ view'[x].tx = view[x].tx
       \/ Reaches(x, view[x].stage)
       \/ view[x].stage = "owns" /\ Reaches(x, "refunds")
    /\ \A d \in Challenge : challenges'[d] = challenges[d] \/ UnpaidMoves(d)
    /\ settled' = settled \/ \E t \in Tx : settled' = settled \cup {t}
    /\ UNCHANGED <<seenTx, served, provided>>

\* PENDING -> PAID, before the claim of the hash or after it.
PaysOwn(x) ==
    LET c == view[x].challenge IN
    /\ \/ view[x].stage = "settled" /\ Reaches(x, "claims")
       \/ view[x].stage = "holds" /\ (Reaches(x, "holds") \/ Ends(x))
    /\ c \in Challenge
    /\ challenges[c].state = "PENDING" /\ challenges'[c].state = "PAID"
    /\ challenges'[c].txHash = view[x].tx /\ challenges'[c].fromAddress = view[x].tx
    /\ ~ challenges'[c].aged
    /\ \A d \in Challenge \ {c} : challenges'[d] = challenges[d]
    /\ UNCHANGED <<seenTx, served, provided, settled>>

MarksFor(x, c) ==
    LET t == view[x].tx IN
    /\ \/ view[x].stage = "claims" /\ c = view[x].challenge /\ Reaches(x, "owns")
       \/ /\ view[x].stage = "settled"
          /\ \/ Ends(x)
             \/ /\ view'[x].stage = "holds" /\ view'[x].tx = t
                /\ view'[x].challenge \in {NoChallenge, c}
    /\ seenTx[t] = NoChallenge /\ seenTx' = [seenTx EXCEPT ![t] = c]
    /\ UNCHANGED <<challenges, served, provided, settled>>

GivesBack(x) ==
    /\ view[x].stage = "claims" /\ Ends(x)
    /\ Swaps(view[x].challenge, "PENDING")
    /\ UNCHANGED <<seenTx, served, provided, settled>>

\* PAID -> PAID, with a grant or without.
Rewrites(x) ==
    LET c == view[x].challenge IN
    /\ view[x].stage = "owns"
    /\ \/ Reaches(x, "owns") \/ Ends(x)
       \/ /\ Reaches(x, "granted")
          /\ challenges'[c].state # "PAID" \/ challenges'[c].accessGrant # NoTx
    /\ \A d \in Challenge :
          /\ SamePayment(d) /\ (d # c => SameGrant(d))
          /\ challenges'[d].state = challenges[d].state
    /\ UNCHANGED <<seenTx, served, provided, settled>>

HandsOut(x) ==
    LET c == view[x].challenge IN
    /\ view[x].stage = "granted" /\ Ends(x)
    /\ Swaps(c, "DELIVERED") \/ UNCHANGED challenges
    /\ served' = [served EXCEPT ![view[x].tx] = @ \cup {c}]
    /\ UNCHANGED <<seenTx, provided, settled>>

Responds(x) ==
    /\ view[x].stage \in {"holds", "owns"} /\ Reaches(x, "delivers")
    /\ provided' = [provided EXCEPT ![view[x].tx] = @ + 1]
    /\ UNCHANGED <<challenges, seenTx, served, settled>>

Closes(x) ==
    LET c == view[x].challenge IN
    /\ view[x].stage = "delivers" /\ Ends(x)
    /\ (c = NoChallenge /\ UNCHANGED challenges) \/ Swaps(c, "DELIVERED")
    /\ UNCHANGED <<seenTx, served, provided, settled>>

TurnsBack(x) ==
    /\ view[x].stage = "refunds" /\ Ends(x)
    /\ Swaps(view[x].challenge, "REFUND_PENDING")
    /\ UNCHANGED <<seenTx, served, provided, settled>>

CallerMoves(x) ==
    \/ StandsBy(x) \/ PaysOwn(x) \/ (\E c \in Challenge : MarksFor(x, c))
    \/ GivesBack(x) \/ Rewrites(x) \/ HandsOut(x)
    \/ Responds(x) \/ Closes(x) \/ TurnsBack(x)

\* What the remaining faults add: a call that breaks off wherever it is, and a
\* payment whose payer is not known.
FaultMoves(x) ==
    /\ \/ "mark_lost" \in Faults \/ "payer_unknown" \in Faults
       \/ "delivery_lost" \in RouteFaults
    /\ \/ Ends(x)
       \/ view[x].stage = "settled" /\ Reaches(x, "claims")
       \/ view[x].stage = "holds" /\ Reaches(x, "holds")
    /\ UNCHANGED <<seenTx, served, provided, settled>>

LEMMA SwapShape ==
  ASSUME TypeInv, NEW c \in Challenge, NEW to \in ChallengeState, NEW scored,
         \/ Transition(c, "PAID", to, scored, challenges[c])
         \/ TransitionRefused(c, "PAID")
  PROVE  Swaps(c, to) /\ UNCHANGED seenTx
<1> DEFINE old == challenges[c]
<1>1. old \in ChallengeRecord
  BY DEF TypeInv, StoreTypeOK
<1>2. ASSUME TransitionRefused(c, "PAID") PROVE Swaps(c, to) /\ UNCHANGED seenTx
  BY <1>2 DEF TransitionRefused, storeVars, Swaps, SamePayment, SameGrant
<1>3. ASSUME Transition(c, "PAID", to, scored, old) PROVE Swaps(c, to) /\ UNCHANGED seenTx
  <2> HIDE DEF old
  <2>1. challenges[c].state = "PAID" /\ UNCHANGED seenTx /\ Replaced(c, to, old)
    BY <1>1, <1>3, TransitionRecord
  <2> QED
    BY <2>1 DEF Replaced, Swaps, SamePayment, SameGrant, old
<1> QED
  BY <1>2, <1>3

LEMMA PaidShape ==
  ASSUME TypeInv, NEW c \in Challenge, NEW t \in Tx,
         NEW from \in Payers(t), Transition(c, "PENDING", "PAID", TRUE, Paid(challenges[c], t, from))
  PROVE  /\ challenges[c].state = "PENDING" /\ challenges'[c].state = "PAID"
         /\ challenges'[c].txHash = t
         /\ challenges'[c].fromAddress = t \/ "payer_unknown" \in Faults
         /\ ~ challenges'[c].aged
         /\ \A d \in Challenge \ {c} : challenges'[d] = challenges[d]
         /\ UNCHANGED seenTx
<1> DEFINE rec == Paid(challenges[c], t, from)
<1>1. challenges[c] \in ChallengeRecord
  BY DEF TypeInv, StoreTypeOK
<1>2. rec \in ChallengeRecord
  BY <1>1, PaidType
<1>3. /\ rec.txHash = t /\ ~ rec.aged
      /\ rec.fromAddress = t \/ "payer_unknown" \in Faults
  BY <1>1, StoreAssumption DEF Paid, Payers, ChallengeRecord
<1> HIDE DEF rec
<1>4. /\ challenges[c].state = "PENDING" /\ UNCHANGED seenTx /\ Replaced(c, "PAID", rec)
  BY <1>2, TransitionRecord DEF ChallengeState, rec
<1> QED
  BY <1>3, <1>4 DEF Replaced

LEMMA UnpaidShape ==
  ASSUME TypeInv, NEW c \in Challenge, NEW r \in Request \cup {NoRequest}, Create(c, r)
  PROVE  /\ \A d \in Challenge : challenges'[d] = challenges[d] \/ UnpaidMoves(d)
         /\ UNCHANGED seenTx
  BY DEF Create, AbsentRecord, UnpaidMoves, TypeInv, StoreTypeOK

-----------------------------------------------------------------------------
\* The steps of plan calls have this shape.

PlanView(h) ==
    LET x == <<"plan", h>> IN
    /\ x \in Caller
    /\ view[x].stage = PlanStage(handler[h])
    /\ view[x].challenge = handler[h].challenge
    /\ view[x].tx = handler[h].tx

LEMMA PlanViewed == \A h \in Handler : PlanView(h)
  BY DEF PlanView, Caller, view, StageOf

LEMMA PlanViewMoves ==
  ASSUME NEW h \in Handler, UNCHANGED routeCall, \A g \in Handler \ {h} : handler'[g] = handler[g]
  PROVE  /\ OthersStay(<<"plan", h>>)
         /\ view'[<<"plan", h>>].stage = PlanStage(handler'[h])
         /\ view'[<<"plan", h>>].challenge = handler'[h].challenge
         /\ view'[<<"plan", h>>].tx = handler'[h].tx
<1> DEFINE x == <<"plan", h>>
           at(y) == IF y[1] = "plan" THEN StageOf(handler[y[2]], PlanStage(handler[y[2]]))
                    ELSE StageOf(routeCall[y[2]], RouteStage(routeCall[y[2]]))
           then(y) == IF y[1] = "plan" THEN StageOf(handler'[y[2]], PlanStage(handler'[y[2]]))
                      ELSE StageOf(routeCall[y[2]], RouteStage(routeCall[y[2]]))
<1>1. view = [y \in Caller |-> at(y)] /\ view' = [y \in Caller |-> then(y)]
  BY DEF view, PlanStage, StageOf
<1>2. ASSUME NEW y \in Caller, y # x PROVE at(y) = then(y)
  <2>1. CASE \E g \in Handler : y = <<"plan", g>>
    BY <1>2, <2>1
  <2>2. CASE \E q \in RouteCall : y = <<"route", q>>
    BY <2>2
  <2> QED
    BY <2>1, <2>2 DEF Caller
<1>3. x \in Caller /\ then(x) = StageOf(handler'[h], PlanStage(handler'[h]))
  BY DEF Caller
<1> HIDE DEF at, then
<1>4. OthersStay(x)
  BY <1>1, <1>2 DEF OthersStay
<1>5. view'[x] = StageOf(handler'[h], PlanStage(handler'[h]))
  BY <1>1, <1>3
<1> HIDE DEF x
<1> QED
  BY <1>4, <1>5 DEF x, StageOf

LEMMA PlanStages ==
  /\ PlanStage(Idle) = "asks"
  /\ \A l : /\ l.pc \in {"mark", "rollback"} => PlanStage(l) = "claims"
            /\ l.pc \in {"issue", "persist"} => PlanStage(l) = "owns"
            /\ l.pc = "deliver" => PlanStage(l) = "granted"
            /\ l.pc \in {"seen", "find", "create", "pay"} /\ l.kind = "http"
                 => PlanStage(l) = "settled"
            /\ l.pc \in {"create"} /\ l.kind = "access" => PlanStage(l) = "asks"
            /\ l.pc \in {"idle", "settle"} => PlanStage(l) = "asks"
  BY DEF PlanStage, Idle

LEMMA PlanShape ==
  ASSUME TypeInv, PlanKinds,
         NEW h \in Handler, PlanMoves(h), UNCHANGED <<routeCall, provided>>
  PROVE  /\ OthersStay(<<"plan", h>>) /\ PlanKinds'
         /\ CallerMoves(<<"plan", h>>) \/ FaultMoves(<<"plan", h>>)
<1> DEFINE x == <<"plan", h>>
           c == handler[h].challenge
           t == handler[h].tx
           Good == OthersStay(x) /\ PlanKinds' /\ (CallerMoves(x) \/ FaultMoves(x))
<1>s. /\ challenges \in [Challenge -> ChallengeRecord]
      /\ seenTx \in [Tx -> Challenge \cup {NoChallenge}]
      /\ handler \in [Handler -> Locals] /\ handler[h] \in Locals
      /\ CallOK(handler[h])
      /\ handler[h].kind \notin {"proof", "cancel"}
  BY DEF TypeInv, StoreTypeOK, EngineTypeOK, LocalsInv, PlanKinds
<1>v. view[x].stage = PlanStage(handler[h]) /\ view[x].challenge = c /\ view[x].tx = t
  BY PlanViewed DEF PlanView
<1>w. ASSUME NEW l, handler' = [handler EXCEPT ![h] = l], l.kind \notin {"proof", "cancel"}
      PROVE  /\ OthersStay(x) /\ PlanKinds'
             /\ view'[x].stage = PlanStage(l)
             /\ view'[x].challenge = l.challenge /\ view'[x].tx = l.tx
  <2>1. handler'[h] = l /\ \A g \in Handler \ {h} : handler'[g] = handler[g]
    BY <1>w, <1>s
  <2>2. PlanKinds'
    BY <1>w, <2>1 DEF PlanKinds
  <2> QED
    BY <2>1, <2>2, PlanViewMoves
<1>r. Return(h) => OthersStay(x) /\ PlanKinds' /\ Ends(x)
  <2>1. Idle.kind = "none"
    BY DEF Idle
  <2> QED
    BY <2>1, <1>w, PlanStages DEF Return, Ends
<1>g. ASSUME NEW pc, Goto(h, pc), handler[h].kind = "http"
      PROVE  /\ OthersStay(x) /\ PlanKinds'
             /\ pc \in {"mark", "rollback"} => Reaches(x, "claims")
             /\ pc \in {"issue", "persist"} => Reaches(x, "owns")
             /\ pc = "deliver" => Reaches(x, "granted")
             /\ pc \in {"seen", "find", "create", "pay"} => Reaches(x, "settled")
  <2> DEFINE l == [handler[h] EXCEPT !.pc = pc]
  <2>1. handler' = [handler EXCEPT ![h] = l]
    BY <1>g, <1>s DEF Goto
  <2>2. l.pc = pc /\ l.kind = "http" /\ l.challenge = c /\ l.tx = t
    BY <1>g, <1>s DEF Locals
  <2> HIDE DEF l
  <2>3. /\ OthersStay(x) /\ PlanKinds' /\ view'[x].stage = PlanStage(l)
        /\ view'[x].challenge = c /\ view'[x].tx = t
    BY <2>1, <2>2, <1>w
  <2> QED
    BY <2>2, <2>3, <1>v, PlanStages DEF Reaches
<1>k. handler[h].pc \in {"seen", "find", "pay", "mark", "rollback", "issue", "persist", "deliver"}
         => /\ handler[h].kind = "http" /\ t \in Tx
            /\ handler[h].pc \notin {"seen", "find"} => c \in Challenge
  BY <1>s DEF CallOK, AfterPaid
<1>a. ASSUME UNCHANGED <<challenges, seenTx, served, settled>>,
             OthersStay(x) /\ PlanKinds',
             \/ Ends(x) /\ view[x].stage \notin {"claims", "delivers"}
             \/ Reaches(x, view[x].stage)
      PROVE  Good
  BY <1>a DEF StandsBy, CallerMoves
<1>1. ASSUME PlanBegins(h) PROVE Good
  <2>1. handler[h].pc = "idle" /\ UNCHANGED <<challenges, seenTx, served, settled>>
    BY <1>1 DEF PlanBegins, RequestAccess, PreSettlementCheck, SettleUnchecked, At, storeVars
  <2>2. PICK l : /\ handler' = [handler EXCEPT ![h] = l]
                 /\ \/ l.pc = "create" /\ l.kind = "access"
                    \/ l.pc = "settle" /\ l.kind \in {"http", "agent"}
    <3>1. ASSUME NEW r \in Request, RequestAccess(h, r)
          PROVE  \E l : /\ handler' = [handler EXCEPT ![h] = l]
                        /\ l.pc = "create" /\ l.kind = "access"
      <4> WITNESS [Idle EXCEPT !.pc = "create", !.kind = "access", !.requestId = r]
      <4> QED
        BY <3>1 DEF RequestAccess, Idle
    <3>2. ASSUME NEW r \in Request, NEW u \in Tx, PreSettlementCheck(h, r, u)
          PROVE  \E l : /\ handler' = [handler EXCEPT ![h] = l]
                        /\ l.pc = "settle" /\ l.kind = "http"
      <4> WITNESS [Idle EXCEPT !.pc = "settle", !.kind = "http", !.requestId = r, !.tx = u]
      <4> QED
        BY <3>2 DEF PreSettlementCheck, Idle
    <3>3. ASSUME NEW r, NEW u \in Tx, SettleUnchecked(h, r, u)
          PROVE  \E l : /\ handler' = [handler EXCEPT ![h] = l]
                        /\ l.pc = "settle" /\ l.kind = "agent"
      <4> WITNESS [Idle EXCEPT !.pc = "settle", !.kind = "agent", !.requestId = r, !.tx = u]
      <4> QED
        BY <3>3 DEF SettleUnchecked, Idle
    <3>4. \/ \E r \in Request : RequestAccess(h, r)
          \/ \E r \in Request, u \in Tx : PreSettlementCheck(h, r, u)
          \/ \E r \in Request, u \in Tx : SettleUnchecked(h, r, u)
      BY <1>1 DEF PlanBegins
    <3> QED
      BY <3>1, <3>2, <3>3, <3>4
  <2>3. OthersStay(x) /\ PlanKinds' /\ Ends(x)
    BY <2>2, <1>w, PlanStages DEF Ends
  <2>4. view[x].stage = "asks"
    BY <2>1, <1>v, PlanStages
  <2> QED
    BY <2>1, <2>3, <2>4, <1>a
<1>2. ASSUME HandlerLost(h) PROVE Good
  <2>1. Return(h) /\ UNCHANGED <<challenges, seenTx, served, settled>>
    BY <1>2 DEF HandlerLost, storeVars
  <2>2. CASE handler[h].pc \notin {"mark", "rollback"}
    <3>1. view[x].stage \notin {"claims", "delivers"}
      BY <2>2, <1>v DEF PlanStage
    <3> QED
      BY <2>1, <3>1, <1>r, <1>a
  <2>3. CASE "mark_lost" \in Faults
    BY <2>1, <2>3, <1>r DEF FaultMoves
  <2> QED
    BY <1>2, <2>2, <2>3 DEF HandlerLost
<1>3. ASSUME NEW d \in Challenge, CreateChallenge(h, d) PROVE Good
  <2>1. /\ handler[h].pc = "create" /\ handler[h].requestId \in Request
        /\ handler[h].kind = "http" => t \in Tx
    BY <1>3, <1>s DEF CreateChallenge, At, CallOK, AfterPaid
  <2>2. /\ \A b \in Challenge : challenges'[b] = challenges[b] \/ UnpaidMoves(b)
        /\ UNCHANGED <<seenTx, served, settled>>
    BY <1>3, <2>1, UnpaidShape DEF CreateChallenge
  <2>3. CASE handler[h].kind = "access" /\ Return(h)
    <3>1. view[x].stage = "asks"
      BY <2>1, <2>3, <1>v, PlanStages
    <3> QED
      BY <2>2, <2>3, <3>1, <1>r DEF StandsBy, CallerMoves
  <2>4. CASE /\ handler[h].kind = "http"
             /\ handler' = [handler EXCEPT ![h].pc = "pay", ![h].challenge = d]
    <3> DEFINE l == [handler[h] EXCEPT !.pc = "pay", !.challenge = d]
    <3>1. l.pc = "pay" /\ l.kind = "http" /\ l.tx = t
      BY <2>4, <1>s DEF Locals
    <3>2. handler' = [handler EXCEPT ![h] = l]
      BY <2>4, <1>s
    <3> HIDE DEF l
    <3>3. OthersStay(x) /\ PlanKinds' /\ view'[x].stage = "settled" /\ view'[x].tx = t
      BY <3>1, <3>2, <1>w, PlanStages
    <3>4. view[x].stage = "settled"
      BY <2>1, <2>4, <1>v, PlanStages
    <3> QED
      BY <2>2, <3>3, <3>4, <1>v DEF StandsBy, CallerMoves
  <2> QED
    BY <1>3, <2>3, <2>4 DEF CreateChallenge
<1>4. ASSUME NoChallengeLeft(h) PROVE Good
  <2>1. view[x].stage \notin {"claims", "delivers"}
    BY <1>4, <1>v DEF NoChallengeLeft, At, PlanStage
  <2> QED
    BY <1>4, <2>1, <1>r, <1>a DEF NoChallengeLeft, storeVars
<1>5. ASSUME CheckSeenTx(h) PROVE Good
  <2>1. handler[h].kind = "http" /\ view[x].stage = "settled"
    BY <1>5, <1>k, <1>v, PlanStages DEF CheckSeenTx, At
  <2>2. Return(h) \/ Goto(h, "find")
    BY <1>5, <2>1 DEF CheckSeenTx
  <2> QED
    BY <1>5, <2>1, <2>2, <1>r, <1>g, <1>a DEF CheckSeenTx, storeVars
<1>6. ASSUME SettlePayment(h) PROVE Good
  <2>1. /\ handler[h].kind \in {"http", "agent"} /\ t \in Tx
        /\ view[x].stage = "asks"
    BY <1>6, <1>s, <1>v, PlanStages DEF SettlePayment, At, CallOK, AfterPaid
  <2>2. /\ UNCHANGED <<challenges, seenTx, served>>
        /\ settled' = settled \/ settled' = settled \cup {t}
    BY <1>6 DEF SettlePayment, storeVars
  <2>3. CASE Return(h)
    BY <2>1, <2>2, <2>3, <1>r DEF StandsBy, CallerMoves
  <2>4. CASE /\ settled' = settled \cup {t}
             /\ handler' = [handler EXCEPT ![h].pc = "seen", ![h].kind = "http"]
    <3> DEFINE l == [handler[h] EXCEPT !.pc = "seen", !.kind = "http"]
    <3>1. l.pc = "seen" /\ l.kind = "http" /\ l.tx = t
      BY <1>s DEF Locals
    <3>2. handler' = [handler EXCEPT ![h] = l]
      BY <2>4, <1>s
    <3> HIDE DEF l
    <3>3. OthersStay(x) /\ PlanKinds' /\ view'[x].stage = "settled" /\ view'[x].tx = t
      BY <3>1, <3>2, <1>w, PlanStages
    <3>4. t \in settled'
      BY <2>4
    <3> QED
      BY <2>1, <2>2, <3>3, <3>4 DEF StandsBy, CallerMoves
  <2> QED
    BY <1>6, <2>3, <2>4 DEF SettlePayment
<1>7. ASSUME FindActive(h) PROVE Good
  <2>1. /\ handler[h].kind = "http" /\ view[x].stage = "settled"
        /\ UNCHANGED <<challenges, seenTx, served, settled>>
    BY <1>7, <1>k, <1>v, PlanStages DEF FindActive, At, storeVars
  <2>2. CASE Return(h) \/ Goto(h, "create")
    BY <2>1, <2>2, <1>r, <1>g, <1>a
  <2>3. ASSUME NEW d, handler' = [handler EXCEPT ![h].pc = "pay", ![h].challenge = d]
        PROVE  Good
    <3> DEFINE l == [handler[h] EXCEPT !.pc = "pay", !.challenge = d]
    <3>1. l.pc = "pay" /\ l.kind = "http" /\ l.tx = t
      BY <2>1, <1>s DEF Locals
    <3>2. handler' = [handler EXCEPT ![h] = l]
      BY <2>3, <1>s
    <3> HIDE DEF l
    <3>3. OthersStay(x) /\ PlanKinds' /\ view'[x].stage = "settled" /\ view'[x].tx = t
      BY <3>1, <3>2, <1>w, PlanStages
    <3> QED
      BY <2>1, <3>3, <1>v DEF StandsBy, CallerMoves
  <2> QED
    BY <1>7, <2>2, <2>3 DEF FindActive
<1>8. ASSUME PayChallenge(h) PROVE Good
  <2>1. /\ c \in Challenge /\ t \in Tx /\ handler[h].kind = "http"
        /\ view[x].stage = "settled" /\ UNCHANGED <<served, settled>>
    BY <1>8, <1>k, <1>v, PlanStages DEF PayChallenge, At
  <2>2. CASE TransitionRefused(c, "PENDING") /\ Return(h)
    BY <2>1, <2>2, <1>r, <1>a DEF TransitionRefused, storeVars
  <2>3. ASSUME NEW from \in Payers(t), Goto(h, "mark"),
               Transition(c, "PENDING", "PAID", TRUE, Paid(challenges[c], t, from))
        PROVE  Good
    <3>1. OthersStay(x) /\ PlanKinds' /\ Reaches(x, "claims")
      BY <2>1, <2>3, <1>g
    <3>2. PaysOwn(x) \/ FaultMoves(x)
      BY <2>1, <2>3, <3>1, <1>v, PaidShape DEF PaysOwn, FaultMoves
    <3> QED
      BY <3>1, <3>2 DEF CallerMoves
  <2> QED
    BY <1>8, <2>2, <2>3 DEF PayChallenge
<1>9. ASSUME ClaimTx(h) PROVE Good
  <2>1. /\ c \in Challenge /\ t \in Tx /\ handler[h].kind = "http"
        /\ view[x].stage = "claims" /\ UNCHANGED <<served, settled>>
    BY <1>9, <1>k, <1>v, PlanStages DEF ClaimTx, At
  <2>2. CASE UNCHANGED storeVars /\ Goto(h, "rollback")
    BY <2>1, <2>2, <1>g, <1>a DEF storeVars
  <2>3. CASE MarkUsed(t, c) /\ Goto(h, "issue")
    <3>1. OthersStay(x) /\ PlanKinds' /\ Reaches(x, "owns")
      BY <2>1, <2>3, <1>g
    <3>2. MarksFor(x, c)
      BY <2>1, <2>3, <3>1, <1>v DEF MarksFor, MarkUsed
    <3> QED
      BY <2>1, <3>1, <3>2 DEF CallerMoves
  <2> QED
    BY <1>9, <2>2, <2>3 DEF ClaimTx
<1>10. ASSUME RollBack(h) PROVE Good
  <2>1. c \in Challenge /\ view[x].stage = "claims" /\ UNCHANGED <<served, settled>>
    BY <1>10, <1>k, <1>v, PlanStages DEF RollBack, At
  <2>2. Swaps(c, "PENDING") /\ UNCHANGED seenTx
    BY <1>10, <2>1, SwapShape DEF RollBack, ChallengeState
  <2>3. OthersStay(x) /\ PlanKinds' /\ Ends(x)
    BY <1>10, <1>r DEF RollBack
  <2> QED
    BY <2>1, <2>2, <2>3, <1>v DEF GivesBack, CallerMoves
<1>11. ASSUME IssueToken(h) PROVE Good
  <2>1. handler[h].kind = "http" /\ view[x].stage = "owns"
    BY <1>11, <1>k, <1>v, PlanStages DEF IssueToken, At
  <2> QED
    BY <1>11, <2>1, <1>r, <1>g, <1>a DEF IssueToken, storeVars
<1>12. ASSUME PersistGrant(h) PROVE Good
  <2>1. /\ c \in Challenge /\ t \in Tx /\ handler[h].kind = "http"
        /\ view[x].stage = "owns" /\ UNCHANGED <<served, settled>>
    BY <1>12, <1>k, <1>v, PlanStages DEF PersistGrant, At
  <2>2. OthersStay(x) /\ PlanKinds' /\ Reaches(x, "granted")
    BY <1>12, <2>1, <1>g DEF PersistGrant
  <2>3. /\ challenges'[c].state # "PAID" \/ challenges'[c].accessGrant # NoTx
        /\ \A d \in Challenge : /\ SamePayment(d) /\ (d # c => SameGrant(d))
                                /\ challenges'[d].state = challenges[d].state
        /\ UNCHANGED seenTx
    <3>1. CASE TransitionRefused(c, "PAID")
      BY <3>1 DEF TransitionRefused, storeVars, SamePayment, SameGrant
    <3>2. CASE Transition(c, "PAID", "PAID", FALSE, [challenges[c] EXCEPT !.accessGrant = t])
      BY <1>s, <2>1, <3>2, StoreAssumption
      DEF Transition, SamePayment, SameGrant, ChallengeRecord
    <3> QED
      BY <1>12, <3>1, <3>2 DEF PersistGrant
  <2> QED
    BY <2>1, <2>2, <2>3, <1>v DEF Rewrites, CallerMoves
<1>13. ASSUME Deliver(h) PROVE Good
  <2>1. c \in Challenge /\ view[x].stage = "granted" /\ UNCHANGED settled
    BY <1>13, <1>k, <1>v, PlanStages DEF Deliver, At
  <2>2. (Swaps(c, "DELIVERED") \/ UNCHANGED challenges) /\ UNCHANGED seenTx
    BY <1>13, <2>1, SwapShape DEF Deliver, ChallengeState, storeVars
  <2>3. OthersStay(x) /\ PlanKinds' /\ Ends(x)
    BY <1>13, <1>r DEF Deliver
  <2>4. served' = [served EXCEPT ![t] = @ \cup {c}]
    BY <1>13 DEF Deliver
  <2> QED
    BY <2>1, <2>2, <2>3, <2>4, <1>v DEF HandsOut, CallerMoves
<1>14. ~ ExpireChallenge(h) /\ ~ VerifyProof(h) /\ ~ CancelChallenge(h)
  BY <1>s DEF ExpireChallenge, VerifyProof, CancelChallenge, At, CallOK, AfterPaid
<1> QED
  <2>1. Good
    BY <1>1, <1>2, <1>3, <1>4, <1>5, <1>6, <1>7, <1>8, <1>9, <1>10, <1>11, <1>12, <1>13, <1>14
    DEF PlanMoves, HandlerStep
  <2> QED
    BY <2>1

-----------------------------------------------------------------------------
\* The steps of route calls have this shape.

RouteView(q) ==
    LET x == <<"route", q>> IN
    /\ x \in Caller
    /\ view[x].stage = RouteStage(routeCall[q])
    /\ view[x].challenge = routeCall[q].challenge
    /\ view[x].tx = routeCall[q].tx

LEMMA RouteViewed == \A q \in RouteCall : RouteView(q)
  BY DEF RouteView, Caller, view, StageOf

LEMMA RouteViewMoves ==
  ASSUME NEW q \in RouteCall, UNCHANGED handler,
         \A p \in RouteCall \ {q} : routeCall'[p] = routeCall[p]
  PROVE  /\ OthersStay(<<"route", q>>)
         /\ view'[<<"route", q>>].stage = RouteStage(routeCall'[q])
         /\ view'[<<"route", q>>].challenge = routeCall'[q].challenge
         /\ view'[<<"route", q>>].tx = routeCall'[q].tx
<1> DEFINE x == <<"route", q>>
           at(y) == IF y[1] = "plan" THEN StageOf(handler[y[2]], PlanStage(handler[y[2]]))
                    ELSE StageOf(routeCall[y[2]], RouteStage(routeCall[y[2]]))
           then(y) == IF y[1] = "plan" THEN StageOf(handler[y[2]], PlanStage(handler[y[2]]))
                      ELSE StageOf(routeCall'[y[2]], RouteStage(routeCall'[y[2]]))
<1>1. view = [y \in Caller |-> at(y)] /\ view' = [y \in Caller |-> then(y)]
  BY DEF view, RouteStage, StageOf
<1>2. ASSUME NEW y \in Caller, y # x PROVE at(y) = then(y)
  <2>1. CASE \E p \in RouteCall : y = <<"route", p>>
    BY <1>2, <2>1
  <2>2. CASE \E h \in Handler : y = <<"plan", h>>
    BY <2>2
  <2> QED
    BY <2>1, <2>2 DEF Caller
<1>3. x \in Caller /\ then(x) = StageOf(routeCall'[q], RouteStage(routeCall'[q]))
  BY DEF Caller
<1> HIDE DEF at, then
<1>4. OthersStay(x)
  BY <1>1, <1>2 DEF OthersStay
<1>5. view'[x] = StageOf(routeCall'[q], RouteStage(routeCall'[q]))
  BY <1>1, <1>3
<1> HIDE DEF x
<1> QED
  BY <1>4, <1>5 DEF x, StageOf

Agent == {"mcp", "a2a"}
Middle == {"access", "ppr", "auto"}

LEMMA RouteStages ==
  /\ RouteStage(NoCall) = "asks"
  /\ \A l : /\ l.pc = "deliver" => RouteStage(l) = "delivers"
            /\ l.pc = "refund" => RouteStage(l) = "refunds"
            /\ l.pc \in {"mark", "rollback"} /\ l.kind \in Agent => RouteStage(l) = "claims"
            /\ l.pc \in {"assert", "fetch"} /\ l.kind \in Agent => RouteStage(l) = "owns"
            /\ l.pc \in {"record", "find", "create", "pay"} /\ l.kind \in Agent
                 => RouteStage(l) = "settled"
            /\ l.pc = "mark" /\ l.kind \in Middle => RouteStage(l) = "settled"
            /\ l.pc \in {"pay", "fetch"} /\ l.kind \in Middle => RouteStage(l) = "holds"
            /\ l.pc = "create" /\ l.kind \in {"ppr", "auto"} => RouteStage(l) = "holds"
            /\ l.pc = "create" /\ l.kind = "access" => RouteStage(l) = "asks"
            /\ l.pc \in {"idle", "settle"} => RouteStage(l) = "asks"
  BY DEF RouteStage, NoCall, Agent, Middle

LEMMA RouteMoves ==
  ASSUME RouteTypeInv, HeldAbsent,
         NEW q \in RouteCall, RouteAction(q), UNCHANGED <<handler, served>>
  PROVE  /\ OthersStay(<<"route", q>>)
         /\ CallerMoves(<<"route", q>>) \/ FaultMoves(<<"route", q>>)
<1> DEFINE x == <<"route", q>>
           call == routeCall[q]
           c == routeCall[q].challenge
           t == routeCall[q].tx
           Good == OthersStay(x) /\ (CallerMoves(x) \/ FaultMoves(x))
<1>s. /\ challenges \in [Challenge -> ChallengeRecord]
      /\ seenTx \in [Tx -> Challenge \cup {NoChallenge}]
      /\ routeCall \in [RouteCall -> RouteLocals] /\ call \in RouteLocals
      /\ provided \in [Tx -> 0..MaxProvided]
      /\ RouteCallOK(call) /\ TypeInv
  BY DEF RouteTypeInv, RouteTypes, TypeInv, StoreTypeOK
<1>v. view[x].stage = RouteStage(call) /\ view[x].challenge = c /\ view[x].tx = t
  BY RouteViewed DEF RouteView
<1>w. ASSUME NEW l, routeCall' = [routeCall EXCEPT ![q] = l]
      PROVE  /\ OthersStay(x) /\ view'[x].stage = RouteStage(l)
             /\ view'[x].challenge = l.challenge /\ view'[x].tx = l.tx
  <2>1. routeCall'[q] = l /\ \A p \in RouteCall \ {q} : routeCall'[p] = routeCall[p]
    BY <1>w, <1>s
  <2> QED
    BY <2>1, RouteViewMoves
<1>r. CallReturn(q) => OthersStay(x) /\ Ends(x)
  BY <1>w, RouteStages DEF CallReturn, Ends
<1>g. ASSUME NEW pc, CallGoto(q, pc)
      PROVE  /\ OthersStay(x)
             /\ pc = "deliver" => Reaches(x, "delivers")
             /\ pc = "refund" => Reaches(x, "refunds")
             /\ pc \in {"mark", "rollback"} /\ call.kind \in Agent => Reaches(x, "claims")
             /\ pc \in {"assert", "fetch"} /\ call.kind \in Agent => Reaches(x, "owns")
             /\ pc \in {"record", "find", "create", "pay"} /\ call.kind \in Agent
                  => Reaches(x, "settled")
             /\ pc = "mark" /\ call.kind \in Middle => Reaches(x, "settled")
             /\ pc \in {"pay", "fetch"} /\ call.kind \in Middle => Reaches(x, "holds")
  <2> DEFINE l == [call EXCEPT !.pc = pc]
  <2>1. routeCall' = [routeCall EXCEPT ![q] = l]
    BY <1>g, <1>s DEF CallGoto
  <2>2. l.pc = pc /\ l.kind = call.kind /\ l.challenge = c /\ l.tx = t
    BY <1>s DEF RouteLocals
  <2> HIDE DEF l
  <2>3. /\ OthersStay(x) /\ view'[x].stage = RouteStage(l)
        /\ view'[x].challenge = c /\ view'[x].tx = t
    BY <2>1, <2>2, <1>w
  <2> QED
    BY <2>2, <2>3, <1>v, RouteStages DEF Reaches
<1>n. ASSUME NEW pc, NEW d, routeCall' = [routeCall EXCEPT ![q].pc = pc, ![q].challenge = d]
      PROVE  /\ OthersStay(x) /\ view'[x].challenge = d /\ view'[x].tx = t
             /\ pc = "pay" /\ call.kind \in Agent => view'[x].stage = "settled"
             /\ pc = "create" /\ call.kind \in {"ppr", "auto"} => view'[x].stage = "holds"
  <2> DEFINE l == [call EXCEPT !.pc = pc, !.challenge = d]
  <2>1. routeCall' = [routeCall EXCEPT ![q] = l]
    BY <1>n, <1>s
  <2>2. l.pc = pc /\ l.kind = call.kind /\ l.challenge = d /\ l.tx = t
    BY <1>s DEF RouteLocals
  <2> HIDE DEF l
  <2> QED
    BY <2>1, <2>2, <1>w, RouteStages
<1>b. ASSUME NEW l, Begin(q, l), l.pc \in {"create", "settle"}, l.pc = "create" => l.kind = "access"
      PROVE  OthersStay(x) /\ Ends(x) /\ view[x].stage = "asks"
  BY <1>b, <1>v, <1>w, RouteStages DEF Begin, CallAt, Ends
<1>k. /\ call.pc = "settle" => t \in Tx /\ call.kind \in Agent \cup Middle
      /\ call.pc \in {"record", "find", "rollback", "assert", "refund"} => t \in Tx /\ call.kind \in Agent
      /\ call.pc \in {"mark", "pay", "fetch"} => t \in Tx /\ call.kind \in Agent \cup Middle
      /\ call.pc = "deliver" => t \in Tx
      /\ call.pc = "create" => call.kind \in Agent \cup Middle
      /\ call.pc = "create" /\ call.kind = "access" => call.requestId \in Request
      /\ call.pc = "create" /\ call.kind # "access" => t \in Tx
      /\ call.pc = "create" /\ call.kind \in {"ppr", "auto"} => c \in Challenge
      /\ call.pc \in {"pay", "rollback", "assert", "refund"} => c \in Challenge
      /\ call.pc = "mark" /\ call.kind \in Agent => c \in Challenge
      /\ call.kind \in Agent /\ call.pc = "fetch" => c \in Challenge
      /\ call.pc = "mark" /\ call.kind \in {"ppr", "auto"} => c = NoChallenge
      /\ c \in Challenge \cup {NoChallenge}
  BY <1>s DEF RouteCallOK, NoCall, Agent, Middle, RouteLocals
<1>a. ASSUME UNCHANGED <<challenges, seenTx, provided, settled>>, OthersStay(x),
             \/ Ends(x) /\ view[x].stage \notin {"claims", "delivers"}
             \/ Reaches(x, view[x].stage)
             \/ view[x].stage = "owns" /\ Reaches(x, "refunds")
      PROVE  Good
  BY <1>a DEF StandsBy, CallerMoves
<1>1. ASSUME NEW r \in Request, AskPrice(q, r) PROVE Good
  <2>1. OthersStay(x) /\ Ends(x) /\ view[x].stage = "asks"
    <3> DEFINE l == [NoCall EXCEPT !.pc = "create", !.kind = "access", !.requestId = r]
    <3>1. Begin(q, l) /\ l.pc = "create" /\ l.kind = "access"
      BY <1>1 DEF AskPrice, NoCall
    <3> HIDE DEF l
    <3> QED
      BY <3>1, <1>b
  <2> QED
    BY <1>1, <2>1, <1>a DEF AskPrice, storeVars
<1>2. ASSUME NEW r, NEW u \in Tx, PresentPayment(q, r, u) PROVE Good
  <2>1. OthersStay(x) /\ Ends(x) /\ view[x].stage = "asks"
    <3> DEFINE l == [pc |-> "settle", kind |-> "access", requestId |-> r,
                     challenge |-> FoundId(r), tx |-> u, pending |-> FoundState(r) = "PENDING"]
    <3>1. Begin(q, l) /\ l.pc = "settle"
      BY <1>2 DEF PresentPayment
    <3> HIDE DEF l
    <3> QED
      BY <3>1, <1>b
  <2> QED
    BY <1>2, <2>1, <1>a DEF PresentPayment, storeVars
<1>3. ASSUME NEW kind, NEW r, NEW u \in Tx,
             Begin(q, [NoCall EXCEPT !.pc = "settle", !.kind = kind, !.requestId = r, !.tx = u]),
             UNCHANGED <<storeVars, settled, provided>>
      PROVE  Good
  <2>1. OthersStay(x) /\ Ends(x) /\ view[x].stage = "asks"
    <3> DEFINE l == [NoCall EXCEPT !.pc = "settle", !.kind = kind, !.requestId = r, !.tx = u]
    <3>1. Begin(q, l) /\ l.pc = "settle"
      BY <1>3 DEF NoCall
    <3> HIDE DEF l
    <3> QED
      BY <3>1, <1>b
  <2> QED
    BY <1>3, <2>1, <1>a DEF storeVars
<1>4. ASSUME NEW u \in Tx, PresentPpr(q, u) PROVE Good
  <2>1. PICK kind : Begin(q, [NoCall EXCEPT !.pc = "settle", !.kind = kind, !.tx = u])
    BY <1>4 DEF PresentPpr
  <2> DEFINE l == [NoCall EXCEPT !.pc = "settle", !.kind = kind, !.tx = u]
  <2>2. Begin(q, l) /\ l.pc = "settle"
    BY <2>1 DEF NoCall
  <2> HIDE DEF l
  <2>3. OthersStay(x) /\ Ends(x) /\ view[x].stage = "asks"
    BY <2>2, <1>b
  <2> QED
    BY <1>4, <2>3, <1>a DEF PresentPpr, storeVars
<1>5. ASSUME NEW d \in Challenge, StoreChallenge(q, d) PROVE Good
  <2>1. call.requestId \in Request /\ view[x].stage = "asks"
    BY <1>5, <1>k, <1>v, RouteStages DEF StoreChallenge, CallAt
  <2>2. /\ \A b \in Challenge : challenges'[b] = challenges[b] \/ UnpaidMoves(b)
        /\ UNCHANGED seenTx
    BY <1>5, <2>1, <1>s, UnpaidShape DEF StoreChallenge
  <2> QED
    BY <1>5, <2>1, <2>2, <1>r DEF StoreChallenge, StandsBy, CallerMoves
<1>6. ASSUME SettleRoute(q) PROVE Good
  <2>1. t \in Tx /\ call.kind \in Agent \cup Middle /\ view[x].stage = "asks"
    BY <1>6, <1>k, <1>v, RouteStages DEF SettleRoute, CallAt
  <2>2. /\ UNCHANGED <<challenges, seenTx, provided>>
        /\ settled' = settled \/ settled' = settled \cup {t}
    BY <1>6 DEF SettleRoute, storeVars
  <2>3. CASE CallReturn(q)
    BY <2>1, <2>2, <2>3, <1>r DEF StandsBy, CallerMoves
  <2>4. CASE /\ settled' = settled \cup {t}
             /\ CallGoto(q, IF call.kind \in {"mcp", "a2a"} THEN "record" ELSE "mark")
    <3>1. OthersStay(x) /\ Reaches(x, "settled")
      BY <2>1, <2>4, <1>g DEF Agent, Middle
    <3>2. view'[x].tx = t /\ t \in settled'
      BY <2>4, <3>1, <1>v DEF Reaches
    <3> QED
      BY <2>1, <2>2, <3>1, <3>2 DEF StandsBy, CallerMoves, Reaches
  <2> QED
    BY <1>6, <2>3, <2>4 DEF SettleRoute
<1>7. ASSUME NEW d \in Challenge, MarkAccess(q, d) PROVE Good
  <2>1. /\ t \in Tx /\ call.kind \in Middle /\ call.kind \notin Agent /\ view[x].stage = "settled"
        /\ c \in {NoChallenge, d}
    BY <1>7, <1>k, <1>v, RouteStages DEF MarkAccess, CallAt, Agent, Middle
  <2>2. CASE UNCHANGED storeVars /\ CallReturn(q)
    BY <1>7, <2>1, <2>2, <1>r, <1>a DEF MarkAccess, storeVars
  <2>3. CASE MarkUsed(t, d) /\ (CallGoto(q, "pay") \/ CallGoto(q, "fetch") \/ CallReturn(q))
    <3>1. OthersStay(x) /\ (Reaches(x, "holds") \/ Ends(x))
      BY <2>1, <2>3, <1>g, <1>r
    <3>2. MarksFor(x, d)
      BY <1>7, <2>1, <2>3, <3>1, <1>v DEF MarkAccess, MarksFor, MarkUsed, Reaches
    <3> QED
      BY <3>1, <3>2 DEF CallerMoves
  <2> QED
    BY <1>7, <2>2, <2>3 DEF MarkAccess, AfterPayment
<1>8. ASSUME PayAccess(q) PROVE Good
  <2>1. /\ c \in Challenge /\ t \in Tx /\ call.kind \in Middle /\ view[x].stage = "holds"
        /\ UNCHANGED <<settled, provided>>
    BY <1>8, <1>k, <1>v, RouteStages DEF PayAccess, CallAt, Middle
  <2>2. OthersStay(x) /\ (Reaches(x, "holds") \/ Ends(x))
    BY <1>8, <2>1, <1>g, <1>r DEF PayAccess, AfterPayment
  <2>3. CASE TransitionRefused(c, "PENDING")
    BY <2>1, <2>2, <2>3, <1>a DEF TransitionRefused, storeVars
  <2>4. ASSUME NEW from \in Payers(t),
               Transition(c, "PENDING", "PAID", TRUE, Paid(challenges[c], t, from))
        PROVE  Good
    <3>1. PaysOwn(x) \/ FaultMoves(x)
      BY <2>1, <2>2, <2>4, <1>v, <1>s, PaidShape DEF PaysOwn, FaultMoves
    <3> QED
      BY <2>2, <3>1 DEF CallerMoves
  <2> QED
    BY <1>8, <2>3, <2>4 DEF PayAccess
<1>9. ASSUME NEW answers, NEW good, CallBackend(q, answers, good) PROVE Good
  <2>1. /\ t \in Tx /\ view[x].stage \in {"holds", "owns"}
        /\ UNCHANGED <<challenges, seenTx, settled>>
    BY <1>9, <1>k, <1>v, RouteStages DEF CallBackend, CallAt, storeVars
  <2>2. CASE UNCHANGED provided /\ CallReturn(q)
    BY <2>1, <2>2, <1>r, <1>a
  <2>3. CASE Provide(t) /\ CallGoto(q, "deliver")
    <3>1. OthersStay(x) /\ Reaches(x, "delivers")
      BY <2>3, <1>g
    <3>2. Responds(x)
      BY <2>1, <2>3, <3>1, <1>v DEF Provide, Responds
    <3> QED
      BY <3>1, <3>2 DEF CallerMoves
  <2> QED
    BY <1>9, <2>2, <2>3 DEF CallBackend
<1>10. ASSUME MarkDelivered(q) PROVE Good
  <2>1. /\ view[x].stage = "delivers" /\ c \in Challenge \cup {NoChallenge}
        /\ UNCHANGED <<settled, provided>>
    BY <1>10, <1>k, <1>v, RouteStages DEF MarkDelivered, CallAt
  <2>2. OthersStay(x) /\ Ends(x)
    BY <1>10, <1>r DEF MarkDelivered
  <2>3. CASE "delivery_lost" \in RouteFaults /\ UNCHANGED storeVars
    BY <2>1, <2>2, <2>3 DEF FaultMoves, storeVars
  <2>4. CASE ~ ("delivery_lost" \in RouteFaults /\ UNCHANGED storeVars)
    <3>1. /\ (c = NoChallenge /\ UNCHANGED challenges) \/ Swaps(c, "DELIVERED")
          /\ UNCHANGED seenTx
      BY <1>10, <2>1, <2>4, <1>s, SwapShape DEF MarkDelivered, ChallengeState, storeVars
    <3> QED
      BY <2>1, <2>2, <3>1, <1>v DEF Closes, CallerMoves
  <2> QED
    BY <2>3, <2>4
<1>11. ASSUME NEW d \in Challenge, MarkPpr(q, d) PROVE Good
  <2>1. /\ t \in Tx /\ call.kind \in {"ppr", "auto"} /\ view[x].stage = "settled" /\ c = NoChallenge
    BY <1>11, <1>k, <1>v, RouteStages DEF MarkPpr, CallAt, IsPpr, Middle
  <2>2. CASE UNCHANGED storeVars /\ CallReturn(q)
    BY <1>11, <2>1, <2>2, <1>r, <1>a DEF MarkPpr, storeVars
  <2>3. CASE /\ MarkUsed(t, d)
             /\ \/ routeCall' = [routeCall EXCEPT ![q].pc = "create", ![q].challenge = d]
                \/ CallGoto(q, "fetch")
    <3>1. /\ OthersStay(x) /\ view'[x].stage = "holds" /\ view'[x].tx = t
          /\ view'[x].challenge \in {NoChallenge, d}
      BY <2>1, <2>3, <1>g, <1>n, <1>v DEF Middle, Reaches
    <3>2. MarksFor(x, d)
      BY <1>11, <2>1, <2>3, <3>1, <1>v DEF MarkPpr, MarksFor, MarkUsed
    <3> QED
      BY <3>1, <3>2 DEF CallerMoves
  <2> QED
    BY <1>11, <2>2, <2>3 DEF MarkPpr
<1>12. ASSUME CreatePpr(q) PROVE Good
  <2>1. /\ c \in Challenge /\ call.kind \in {"ppr", "auto"} /\ view[x].stage = "holds"
        /\ challenges[c].state = "ABSENT" /\ UNCHANGED <<seenTx, settled, provided>>
    BY <1>12, <1>k, <1>v, RouteStages DEF CreatePpr, CallAt, IsPpr, HeldAbsent
  <2>2. OthersStay(x) /\ Reaches(x, "holds")
    BY <1>12, <2>1, <1>g DEF CreatePpr, Middle
  <2>3. \A b \in Challenge : challenges'[b] = challenges[b] \/ UnpaidMoves(b)
    BY <1>12, <2>1, <1>s DEF CreatePpr, UnpaidMoves, ChallengeRecord
  <2> QED
    BY <2>1, <2>2, <2>3 DEF StandsBy, CallerMoves
<1>13. ASSUME PayPpr(q) PROVE Good
  <2>1. /\ c \in Challenge /\ t \in Tx /\ call.kind \in Middle /\ view[x].stage = "holds"
        /\ UNCHANGED <<settled, provided>>
    BY <1>13, <1>k, <1>v, RouteStages DEF PayPpr, CallAt, IsPpr, Middle
  <2>3. CASE TransitionRefused(c, "PENDING") /\ CallReturn(q)
    BY <2>1, <2>3, <1>a, <1>r DEF TransitionRefused, storeVars
  <2>4. ASSUME NEW from \in Payers(t), CallGoto(q, "fetch"),
               Transition(c, "PENDING", "PAID", TRUE, Paid(challenges[c], t, from))
        PROVE  Good
    <3>1. OthersStay(x) /\ Reaches(x, "holds")
      BY <2>1, <2>4, <1>g
    <3>2. PaysOwn(x) \/ FaultMoves(x)
      BY <2>1, <3>1, <2>4, <1>v, <1>s, PaidShape DEF PaysOwn, FaultMoves
    <3> QED
      BY <3>1, <3>2 DEF CallerMoves
  <2> QED
    BY <1>13, <2>3, <2>4 DEF PayPpr
<1>14. ASSUME CheckPlanAndTx(q) PROVE Good
  <2>1. call.kind \in Agent /\ view[x].stage = "settled"
    BY <1>14, <1>k, <1>v, RouteStages DEF CheckPlanAndTx, CallAt
  <2>2. CallGoto(q, "find") \/ CallReturn(q)
    BY <1>14 DEF CheckPlanAndTx
  <2> QED
    BY <1>14, <2>1, <2>2, <1>g, <1>r, <1>a DEF CheckPlanAndTx, storeVars
<1>15. ASSUME FindRouteRecord(q) PROVE Good
  <2>1. /\ call.kind \in Agent /\ view[x].stage = "settled"
        /\ UNCHANGED <<challenges, seenTx, provided, settled>>
    BY <1>15, <1>k, <1>v, RouteStages DEF FindRouteRecord, CallAt, storeVars
  <2>2. CASE CallReturn(q) \/ CallGoto(q, "create")
    BY <2>1, <2>2, <1>g, <1>r, <1>a
  <2>3. ASSUME NEW d, routeCall' = [routeCall EXCEPT ![q].pc = "pay", ![q].challenge = d]
        PROVE  Good
    BY <2>1, <2>3, <1>n, <1>v DEF StandsBy, CallerMoves
  <2> QED
    BY <1>15, <2>2, <2>3 DEF FindRouteRecord
<1>16. ASSUME NEW d \in Challenge, CreateRouteRecord(q, d) PROVE Good
  <2>1. call.kind \in Agent /\ view[x].stage = "settled"
    BY <1>16, <1>v, RouteStages DEF CreateRouteRecord, CallAt, IsAgent, Agent
  <2>2. call.requestId \in Request \cup {NoRequest}
    BY <1>s DEF RouteLocals
  <2>3. /\ \A b \in Challenge : challenges'[b] = challenges[b] \/ UnpaidMoves(b)
        /\ UNCHANGED seenTx
    BY <1>16, <2>2, <1>s, UnpaidShape DEF CreateRouteRecord
  <2>4. OthersStay(x) /\ view'[x].stage = "settled" /\ view'[x].tx = t
    BY <1>16, <2>1, <1>n DEF CreateRouteRecord
  <2> QED
    BY <1>16, <2>1, <2>3, <2>4, <1>v DEF CreateRouteRecord, StandsBy, CallerMoves
<1>17. ASSUME PayRouteRecord(q) PROVE Good
  <2>1. /\ c \in Challenge /\ t \in Tx /\ call.kind \in Agent /\ view[x].stage = "settled"
        /\ UNCHANGED <<settled, provided>>
    BY <1>17, <1>k, <1>v, RouteStages DEF PayRouteRecord, CallAt, IsAgent, Agent
  <2>3. CASE TransitionRefused(c, "PENDING") /\ CallReturn(q)
    BY <2>1, <2>3, <1>a, <1>r DEF TransitionRefused, storeVars
  <2>4. ASSUME NEW from \in Payers(t), CallGoto(q, "mark"),
               Transition(c, "PENDING", "PAID", TRUE, Paid(challenges[c], t, from))
        PROVE  Good
    <3>1. OthersStay(x) /\ Reaches(x, "claims")
      BY <2>1, <2>4, <1>g
    <3>2. PaysOwn(x) \/ FaultMoves(x)
      BY <2>1, <3>1, <2>4, <1>v, <1>s, PaidShape DEF PaysOwn, FaultMoves
    <3> QED
      BY <3>1, <3>2 DEF CallerMoves
  <2> QED
    BY <1>17, <2>3, <2>4 DEF PayRouteRecord
<1>18. ASSUME MarkRouteRecord(q) PROVE Good
  <2>1. /\ c \in Challenge /\ t \in Tx /\ call.kind \in Agent /\ view[x].stage = "claims"
        /\ UNCHANGED <<settled, provided>>
    BY <1>18, <1>k, <1>v, RouteStages DEF MarkRouteRecord, CallAt, IsAgent, Agent
  <2>2. CASE UNCHANGED storeVars /\ CallGoto(q, "rollback")
    BY <2>1, <2>2, <1>g, <1>a DEF storeVars
  <2>3. CASE MarkUsed(t, c) /\ (CallGoto(q, "assert") \/ CallGoto(q, "fetch"))
    <3>1. OthersStay(x) /\ Reaches(x, "owns")
      BY <2>1, <2>3, <1>g
    <3>2. MarksFor(x, c)
      BY <2>1, <2>3, <3>1, <1>v DEF MarksFor, MarkUsed
    <3> QED
      BY <2>1, <3>1, <3>2 DEF CallerMoves
  <2> QED
    BY <1>18, <2>2, <2>3 DEF MarkRouteRecord
<1>19. ASSUME RollBackRouteRecord(q) PROVE Good
  <2>1. c \in Challenge /\ view[x].stage = "claims" /\ UNCHANGED <<settled, provided>>
    BY <1>19, <1>k, <1>v, RouteStages DEF RollBackRouteRecord, CallAt
  <2>2. Swaps(c, "PENDING") /\ UNCHANGED seenTx
    BY <1>19, <2>1, <1>s, SwapShape DEF RollBackRouteRecord, ChallengeState
  <2>3. OthersStay(x) /\ Ends(x)
    BY <1>19, <1>r DEF RollBackRouteRecord
  <2> QED
    BY <2>1, <2>2, <2>3, <1>v DEF GivesBack, CallerMoves
<1>20. ASSUME AssertPaidState(q) PROVE Good
  <2>1. /\ c \in Challenge /\ call.kind \in Agent /\ view[x].stage = "owns"
        /\ UNCHANGED <<settled, provided>>
    BY <1>20, <1>k, <1>v, RouteStages DEF AssertPaidState, CallAt
  <2>2. Swaps(c, "PAID") /\ UNCHANGED seenTx
    BY <1>20, <2>1, <1>s, SwapShape DEF AssertPaidState, ChallengeState
  <2>3. \A d \in Challenge : /\ SamePayment(d) /\ SameGrant(d)
                             /\ challenges'[d].state = challenges[d].state
    BY <2>2 DEF Swaps
  <2>4. OthersStay(x) /\ (Reaches(x, "owns") \/ Ends(x))
    BY <1>20, <2>1, <1>r, <1>g DEF AssertPaidState
  <2> QED
    BY <2>1, <2>2, <2>3, <2>4 DEF Rewrites, CallerMoves
<1>21. ASSUME FetchOverMcp(q) PROVE Good
  <2>1. /\ view[x].stage = "owns" /\ UNCHANGED <<challenges, seenTx, settled>>
    BY <1>21, <1>v, RouteStages DEF FetchOverMcp, CallAt, storeVars, Agent
  <2>2. CASE UNCHANGED provided /\ CallGoto(q, "refund")
    BY <2>1, <2>2, <1>g, <1>a
  <2>3. CASE Provide(t) /\ CallGoto(q, "deliver")
    <3>1. OthersStay(x) /\ Reaches(x, "delivers")
      BY <2>3, <1>g
    <3>2. Responds(x)
      BY <2>1, <2>3, <3>1, <1>v DEF Provide, Responds
    <3> QED
      BY <3>1, <3>2 DEF CallerMoves
  <2> QED
    BY <1>21, <2>2, <2>3 DEF FetchOverMcp
<1>22. ASSUME InitiateRefund(q) PROVE Good
  <2>1. c \in Challenge /\ view[x].stage = "refunds" /\ UNCHANGED <<settled, provided>>
    BY <1>22, <1>k, <1>v, RouteStages DEF InitiateRefund, CallAt
  <2>2. Swaps(c, "REFUND_PENDING") /\ UNCHANGED seenTx
    BY <1>22, <2>1, <1>s, SwapShape DEF InitiateRefund, ChallengeState
  <2>3. OthersStay(x) /\ Ends(x)
    BY <1>22, <1>r DEF InitiateRefund
  <2> QED
    BY <2>1, <2>2, <2>3, <1>v DEF TurnsBack, CallerMoves
<1>23. ASSUME RouteCallLost(q) PROVE Good
  <2>1. CallReturn(q) /\ UNCHANGED <<challenges, seenTx, settled, provided>>
    BY <1>23 DEF RouteCallLost, storeVars
  <2>2. CASE /\ call.pc # "deliver" /\ call.pc # "rollback"
             /\ ~ (call.pc = "mark" /\ call.kind \in {"mcp", "a2a"})
    <3>1. view[x].stage \notin {"claims", "delivers"}
      BY <2>2, <1>v DEF RouteStage
    <3> QED
      BY <2>1, <3>1, <1>r, <1>a
  <2>3. CASE "mark_lost" \in Faults \/ "delivery_lost" \in RouteFaults
    BY <2>1, <2>3, <1>r DEF FaultMoves
  <2> QED
    BY <1>23, <2>2, <2>3 DEF RouteCallLost, CallAt
<1>24. ASSUME NEW r \in Request, NEW u \in Tx, PayOverMcp(q, r, u) PROVE Good
  BY <1>24, <1>3 DEF PayOverMcp
<1>25. ASSUME NEW d \in Challenge, NEW u \in Tx, PayOverA2A(q, d, u) PROVE Good
  BY <1>25, <1>3 DEF PayOverA2A
<1> HIDE DEF Good
<1>26. Good
  BY <1>1, <1>2, <1>4, <1>5, <1>6, <1>7, <1>8, <1>9, <1>10, <1>11, <1>12, <1>13, <1>14, <1>15,
     <1>16, <1>17, <1>18, <1>19, <1>20, <1>21, <1>22, <1>23, <1>24, <1>25 DEF RouteAction
<1> QED
  BY <1>26 DEF Good

-----------------------------------------------------------------------------
\* The inductive invariant. It says of every transfer how far its call has got,
\* and what that means for the record it was paid into.

Claimed(d) == \E x \in Caller : view[x].stage = "claims" /\ view[x].challenge = d

Bought(t) == provided[t] > 0 \/ served[t] # {}

\* Nothing is done with a transfer before it is on chain.
PaidUp ==
    /\ \A x \in Caller : view[x].stage # "asks" => view[x].tx \in settled
    /\ \A d \in Challenge : challenges[d].state \in OwedStates => challenges[d].txHash \in settled
    /\ \A t \in Tx : Bought(t) => t \in settled

\* A hash is claimed by one call.
MarkedOnce ==
    /\ \A x \in Caller :
          view[x].stage \in Marked =>
             /\ seenTx[view[x].tx] # NoChallenge
             /\ view[x].challenge \in {NoChallenge, seenTx[view[x].tx]}
    /\ \A x, y \in Caller :
          x # y /\ view[x].stage \in Marked /\ view[y].stage \in Marked
             => view[x].tx # view[y].tx

\* A transfer buys one thing, and no call that is still to buy has it.
BoughtOnce ==
    /\ \A t \in Tx :
          /\ provided[t] \in {0, 1}
          /\ provided[t] > 0 => served[t] = {}
          /\ \A c, d \in served[t] : c = d
          /\ Bought(t) => seenTx[t] # NoChallenge
    /\ \A x \in Caller :
          view[x].stage \in Marked \ {"delivers"} => ~ Bought(view[x].tx)

\* A call that owns a record is alone with it. It may be DELIVERED under its
\* hands, by a call that looked it up before it was paid.
Owns(x) ==
    LET rec == challenges[view[x].challenge] IN
    /\ rec.state \in {"PAID", "DELIVERED"} /\ ~ rec.aged
    /\ rec.txHash = view[x].tx
    /\ view[x].stage = "granted" => rec.state = "DELIVERED" \/ rec.accessGrant # NoTx

OwnsPaid ==
    /\ \A x \in Caller : view[x].stage \in Owning => view[x].challenge \in Challenge /\ Owns(x)
    /\ \A x, y \in Caller :
          x # y /\ view[x].stage \in Owning /\ view[y].stage \in Owning
             => view[x].challenge # view[y].challenge

\* A payment that is owed for the transfer of a call that holds its hash is
\* about to be rolled back, or is the one of that call.
HoldsFresh ==
    \A x \in Caller, d \in Challenge :
        /\ view[x].stage \in {"holds", "delivers"}
        /\ challenges[d].state \in OwedStates /\ challenges[d].txHash = view[x].tx
        => \/ Claimed(d)
           \/ view[x].challenge = d /\ challenges[d].state = "PAID" /\ ~ challenges[d].aged

OwedIsMarked ==
    \A d \in Challenge :
        challenges[d].state \in OwedStates /\ ~ Claimed(d)
            => challenges[d].txHash \in Tx /\ seenTx[challenges[d].txHash] = d

\* An owed payment whose transfer has bought something is safe from refunds: it
\* has a grant, or its call is about to write DELIVERED.
Kept(d) ==
    /\ challenges[d].state = "PAID"
    /\ \/ challenges[d].accessGrant # NoTx
       \/ \E x \in Caller : /\ view[x].stage = "delivers"
                            /\ view[x].challenge = d
                            /\ view[x].tx = challenges[d].txHash

BoughtIsKept ==
    \A d \in Challenge :
        challenges[d].state \in OwedStates /\ ~ Claimed(d) /\ Bought(challenges[d].txHash)
            => Kept(d)

PayerIsSender == \A d \in Challenge : challenges[d].fromAddress = challenges[d].txHash

CallsInv ==
    /\ PaidUp /\ MarkedOnce /\ BoughtOnce /\ OwnsPaid
    /\ HoldsFresh /\ OwedIsMarked /\ BoughtIsKept /\ PayerIsSender

\* The refund runs: one claims a record, what they read of it still holds, and
\* a refund that was sent is in the record it was sent for.
RunsHold ==
    /\ \A k \in Cron, d \in Challenge : Refunding(k, d) => challenges[d].state = "REFUND_PENDING"
    /\ \A j, k \in Cron, d \in Challenge : Refunding(j, d) /\ Refunding(k, d) => j = k

StillDue(s) ==
    LET rec == challenges[s.challenge] IN
    /\ rec.state \in OwedStates \cup {"DELIVERED"}
    /\ rec.aged /\ rec.accessGrant = NoTx /\ rec.fromAddress = s.fromAddress

BatchesDue ==
    \A k \in Cron : /\ \A s \in cron[k].batch : StillDue(s)
                    /\ cron[k].current # NoSnapshot => StillDue(cron[k].current)

PaidBack(t, d) ==
    /\ seenTx[t] = d /\ challenges[d].txHash = t
    /\ challenges[d].state \in {"REFUND_PENDING", "REFUNDED"}
    /\ \A k \in Cron : Refunding(k, d) => cron[k].pc = "confirm"

PayoutsDue == \A t \in Tx : payouts[t] > 0 => payouts[t] = 1 /\ \E d \in Challenge : PaidBack(t, d)

RunsInv == RunsHold /\ BatchesDue /\ PayoutsDue

-----------------------------------------------------------------------------
\* What the steps of a call do to records, claims and hashes.

ViewOK ==
    \A x \in Caller :
        /\ view[x].stage # "asks" => view[x].tx \in Tx
        /\ view[x].stage \in Owning => view[x].challenge \in Challenge

LEMMA ViewTyped == RouteTypeInv => ViewOK
<1> SUFFICES ASSUME RouteTypeInv PROVE ViewOK
  OBVIOUS
<1>1. ASSUME NEW h \in Handler
      PROVE  /\ view[<<"plan", h>>].stage # "asks" => view[<<"plan", h>>].tx \in Tx
             /\ view[<<"plan", h>>].stage \in Owning => view[<<"plan", h>>].challenge \in Challenge
  <2>1. CallOK(handler[h])
    BY DEF RouteTypeInv, TypeInv, LocalsInv
  <2> QED
    BY <2>1, PlanViewed DEF PlanView, PlanStage, CallOK, AfterPaid, Owning
<1>2. ASSUME NEW q \in RouteCall
      PROVE  /\ view[<<"route", q>>].stage # "asks" => view[<<"route", q>>].tx \in Tx
             /\ view[<<"route", q>>].stage \in Owning
                  => view[<<"route", q>>].challenge \in Challenge
  <2>1. RouteCallOK(routeCall[q])
    BY DEF RouteTypeInv, RouteTypes
  <2> QED
    BY <2>1, RouteViewed DEF RouteView, RouteStage, RouteCallOK, NoCall, Owning
<1> QED
  BY <1>1, <1>2 DEF ViewOK, Caller

\* An owed record was owed before, for the same transfer, or has just been paid.
StaysOwed(x, d) ==
    /\ SamePayment(d) /\ challenges[d].state \in OwedStates
    /\ \/ challenges'[d].state = challenges[d].state
       \/ TurnsBack(x) /\ d = view[x].challenge /\ challenges'[d].state = "REFUND_PENDING"
    /\ SameGrant(d) \/ (Rewrites(x) /\ d = view[x].challenge)

LEMMA OwedMoves ==
  ASSUME NEW x \in Caller, CallerMoves(x), NEW d \in Challenge, challenges'[d].state \in OwedStates
  PROVE  StaysOwed(x, d) \/ (PaysOwn(x) /\ d = view[x].challenge)
<1>1. CASE StandsBy(x)
  BY <1>1 DEF StandsBy, UnpaidMoves, OwedStates, StaysOwed, SamePayment, SameGrant
<1>2. CASE PaysOwn(x)
  BY <1>2 DEF PaysOwn, StaysOwed, SamePayment, SameGrant
<1>3. CASE \E c \in Challenge : MarksFor(x, c)
  BY <1>3 DEF MarksFor, StaysOwed, SamePayment, SameGrant
<1>4. CASE GivesBack(x)
  BY <1>4 DEF GivesBack, Swaps, OwedStates, StaysOwed
<1>5. CASE Rewrites(x)
  BY <1>5 DEF Rewrites, StaysOwed
<1>6. CASE HandsOut(x)
  BY <1>6 DEF HandsOut, Swaps, OwedStates, StaysOwed, SamePayment, SameGrant
<1>7. CASE Responds(x)
  BY <1>7 DEF Responds, StaysOwed, SamePayment, SameGrant
<1>8. CASE Closes(x)
  BY <1>8 DEF Closes, Swaps, OwedStates, StaysOwed, SamePayment, SameGrant
<1>9. CASE TurnsBack(x)
  BY <1>9 DEF TurnsBack, Swaps, OwedStates, StaysOwed
<1> QED
  BY <1>1, <1>2, <1>3, <1>4, <1>5, <1>6, <1>7, <1>8, <1>9 DEF CallerMoves

\* A claim starts with the payment and ends with the hash or the rollback.
LEMMA ClaimMoves ==
  ASSUME NEW x \in Caller, OthersStay(x), CallerMoves(x), NEW d
  PROVE  /\ Claimed(d)' => Claimed(d) \/ (PaysOwn(x) /\ d = view[x].challenge)
         /\ Claimed(d) =>
               \/ Claimed(d)'
               \/ /\ view[x].stage = "claims" /\ view[x].challenge = d
                  /\ GivesBack(x) \/ MarksFor(x, d)
<1>1. ASSUME view'[x].stage = "claims"
      PROVE  \/ PaysOwn(x) /\ view'[x].challenge = view[x].challenge
             \/ view[x].stage = "claims" /\ view'[x].challenge = view[x].challenge
  BY <1>1 DEF CallerMoves, StandsBy, PaysOwn, MarksFor, GivesBack, Rewrites, HandsOut, Responds,
              Closes, TurnsBack, Reaches, Ends
<1>2. ASSUME view[x].stage = "claims"
      PROVE  \/ view'[x].stage = "claims" /\ view'[x].challenge = view[x].challenge
             \/ GivesBack(x) \/ MarksFor(x, view[x].challenge)
  BY <1>2 DEF CallerMoves, StandsBy, PaysOwn, MarksFor, GivesBack, Rewrites, HandsOut, Responds,
              Closes, TurnsBack, Reaches, Ends
<1>3. ASSUME NEW y \in Caller, y # x PROVE view'[y] = view[y]
  BY <1>3 DEF OthersStay
<1>4. Claimed(d)' => Claimed(d) \/ (PaysOwn(x) /\ d = view[x].challenge)
  <2> SUFFICES ASSUME NEW y \in Caller, view'[y].stage = "claims", view'[y].challenge = d
               PROVE  Claimed(d) \/ (PaysOwn(x) /\ d = view[x].challenge)
    BY DEF Claimed, Caller
  <2> QED
    BY <1>1, <1>3 DEF Claimed
<1>5. ASSUME NEW y \in Caller, view[y].stage = "claims", view[y].challenge = d
      PROVE  \/ Claimed(d)'
             \/ /\ view[x].stage = "claims" /\ view[x].challenge = d
                /\ GivesBack(x) \/ MarksFor(x, d)
  <2>1. \A z \in Caller : view'[z].stage = "claims" /\ view'[z].challenge = d => Claimed(d)'
    BY DEF Claimed, Caller
  <2> QED
    BY <1>2, <1>3, <1>5, <2>1
<1> QED
  BY <1>4, <1>5 DEF Claimed

\* A call claims its hash, or carries on with what it has.
CarriesOn(x) ==
    /\ UNCHANGED seenTx
    /\ view'[x].stage \in Marked =>
          /\ view[x].stage \in Marked
          /\ view'[x].challenge = view[x].challenge /\ view'[x].tx = view[x].tx
    /\ view'[x].stage \in Marked \ {"delivers"} => view[x].stage # "delivers"

LEMMA MarkMoves ==
  ASSUME NEW x \in Caller, CallerMoves(x) \/ FaultMoves(x)
  PROVE  CarriesOn(x) \/ \E c \in Challenge : MarksFor(x, c)
<1>1. CASE StandsBy(x)
  BY <1>1 DEF StandsBy, CarriesOn, Marked, Reaches, Ends
<1>2. CASE PaysOwn(x)
  BY <1>2 DEF PaysOwn, CarriesOn, Marked, Reaches, Ends
<1>3. CASE GivesBack(x) \/ HandsOut(x) \/ Closes(x) \/ TurnsBack(x)
  BY <1>3 DEF GivesBack, HandsOut, Closes, TurnsBack, CarriesOn, Marked, Ends
<1>4. CASE Rewrites(x) \/ Responds(x)
  BY <1>4 DEF Rewrites, Responds, CarriesOn, Marked, Reaches, Ends
<1>5. CASE FaultMoves(x)
  BY <1>5 DEF FaultMoves, CarriesOn, Marked, Reaches, Ends
<1> QED
  BY <1>1, <1>2, <1>3, <1>4, <1>5 DEF CallerMoves

-----------------------------------------------------------------------------
\* The steps of a call keep each part of the invariant.

LEMMA PaidUpMoves ==
  ASSUME RouteTypeInv, CallsInv, NEW x \in Caller, OthersStay(x), CallerMoves(x)
  PROVE  PaidUp'
<1>i. PaidUp /\ ViewOK
  BY ViewTyped DEF CallsInv
<1>s. provided \in [Tx -> 0..MaxProvided] /\ served \in [Tx -> SUBSET Challenge]
  BY DEF RouteTypeInv, RouteTypes, TypeInv, EngineTypeOK
<1>1. settled \subseteq settled'
  BY DEF CallerMoves, StandsBy, PaysOwn, MarksFor, GivesBack, Rewrites, HandsOut, Responds,
         Closes, TurnsBack
<1>2. ASSUME NEW y \in Caller, view'[y].stage # "asks" PROVE view'[y].tx \in settled'
  <2>1. CASE y # x
    BY <1>i, <1>1, <1>2, <2>1 DEF OthersStay, PaidUp
  <2>2. CASE y = x
    <3>1. \/ view[x].stage # "asks" /\ view'[x].tx = view[x].tx
          \/ view'[x].tx \in settled'
      BY <1>2, <2>2 DEF CallerMoves, StandsBy, PaysOwn, MarksFor, GivesBack, Rewrites, HandsOut,
         Responds, Closes, TurnsBack, Reaches, Ends
    <3> QED
      BY <1>i, <1>1, <2>2, <3>1 DEF PaidUp
  <2> QED
    BY <2>1, <2>2
<1>3. ASSUME NEW d \in Challenge, challenges'[d].state \in OwedStates
      PROVE  challenges'[d].txHash \in settled'
  <2>1. CASE StaysOwed(x, d)
    BY <1>i, <1>1, <2>1 DEF StaysOwed, SamePayment, PaidUp
  <2>2. CASE PaysOwn(x) /\ d = view[x].challenge
    BY <1>i, <1>1, <2>2 DEF PaysOwn, PaidUp
  <2> QED
    BY <1>3, <2>1, <2>2, OwedMoves
<1>4. ASSUME NEW t \in Tx, provided'[t] > 0 \/ served'[t] # {} PROVE t \in settled'
  <2>1. CASE UNCHANGED <<provided, served>>
    BY <1>i, <1>1, <1>4, <2>1 DEF PaidUp, Bought
  <2>2. CASE HandsOut(x) \/ Responds(x)
    <3>1. view[x].tx \in settled /\ view[x].tx \in Tx
      BY <1>i, <2>2 DEF PaidUp, ViewOK, HandsOut, Responds
    <3>2. t # view[x].tx => provided'[t] = provided[t] /\ served'[t] = served[t]
      BY <1>s, <2>2, <3>1 DEF HandsOut, Responds
    <3> QED
      BY <1>i, <1>1, <1>4, <3>1, <3>2 DEF PaidUp, Bought
  <2> QED
    BY <2>1, <2>2 DEF CallerMoves, StandsBy, PaysOwn, MarksFor, GivesBack, Rewrites, Closes,
                      TurnsBack
<1> QED
  BY <1>2, <1>3, <1>4 DEF PaidUp, Bought, Caller

LEMMA MarkedOnceMoves ==
  ASSUME RouteTypeInv, MarkedOnce, NEW x \in Caller, OthersStay(x),
         CallerMoves(x) \/ FaultMoves(x)
  PROVE  MarkedOnce'
<1>i. MarkedOnce /\ ViewOK
  BY ViewTyped
<1>s. /\ seenTx \in [Tx -> Challenge \cup {NoChallenge}]
      /\ NoChallenge \notin Challenge
  BY StoreAssumption DEF RouteTypeInv, TypeInv, StoreTypeOK
<1>o. \A y \in Caller : y # x => view'[y] = view[y]
  BY DEF OthersStay
<1>1. CASE CarriesOn(x)
  <2>1. ASSUME NEW y \in Caller, view'[y].stage \in Marked
        PROVE  /\ view[y].stage \in Marked
               /\ view'[y].challenge = view[y].challenge /\ view'[y].tx = view[y].tx
    BY <1>o, <1>1, <2>1 DEF CarriesOn
  <2> QED
    BY <1>i, <1>1, <2>1 DEF MarkedOnce, CarriesOn, Caller
<1>2. ASSUME NEW c \in Challenge, MarksFor(x, c) PROVE MarkedOnce'
  <2> DEFINE t == view[x].tx
  <2>1. t \in Tx
    BY <1>i, <1>2 DEF ViewOK, MarksFor
  <2>2. /\ seenTx[t] = NoChallenge /\ seenTx'[t] = c
        /\ \A u \in Tx \ {t} : seenTx'[u] = seenTx[u]
    BY <1>s, <1>2, <2>1 DEF MarksFor
  <2>3. view'[x].stage \in Marked => view'[x].tx = t /\ view'[x].challenge \in {NoChallenge, c}
    BY <1>2 DEF MarksFor, Reaches, Ends, Marked
  <2>4. ASSUME NEW y \in Caller, y # x, view'[y].stage \in Marked
        PROVE  /\ view'[y] = view[y] /\ view[y].tx \in Tx /\ view[y].tx # t
               /\ seenTx'[view[y].tx] = seenTx[view[y].tx]
               /\ seenTx[view[y].tx] # NoChallenge
               /\ view[y].challenge \in {NoChallenge, seenTx[view[y].tx]}
    BY <1>i, <1>o, <2>2, <2>4 DEF MarkedOnce, ViewOK, Marked
  <2> HIDE DEF t
  <2>5. \A y \in Caller : view'[y].stage \in Marked =>
             /\ seenTx'[view'[y].tx] # NoChallenge
             /\ view'[y].challenge \in {NoChallenge, seenTx'[view'[y].tx]}
    BY <1>s, <2>2, <2>3, <2>4
  <2>6. \A y, z \in Caller :
           y # z /\ view'[y].stage \in Marked /\ view'[z].stage \in Marked
             => view'[y].tx # view'[z].tx
    <3> SUFFICES ASSUME NEW y \in Caller, NEW z \in Caller, y # z,
                        view'[y].stage \in Marked, view'[z].stage \in Marked
                 PROVE  view'[y].tx # view'[z].tx
      OBVIOUS
    <3>1. CASE y = x
      BY <2>3, <2>4, <3>1
    <3>2. CASE z = x
      BY <2>3, <2>4, <3>2
    <3>3. CASE y # x /\ z # x
      BY <1>i, <2>4, <3>3 DEF MarkedOnce
    <3> QED
      BY <3>1, <3>2, <3>3
  <2> QED
    BY <2>5, <2>6 DEF MarkedOnce, Caller
<1> QED
  BY <1>1, <1>2, MarkMoves

LEMMA BoughtOnceMoves ==
  ASSUME RouteTypeInv, MarkedOnce, BoughtOnce, NEW x \in Caller, OthersStay(x),
         CallerMoves(x) \/ FaultMoves(x)
  PROVE  BoughtOnce'
<1> DEFINE t == view[x].tx
           BoughtThen(u) == provided'[u] > 0 \/ served'[u] # {}
<1>i. BoughtOnce /\ MarkedOnce /\ ViewOK
  BY ViewTyped
<1>s. /\ seenTx \in [Tx -> Challenge \cup {NoChallenge}]
      /\ NoChallenge \notin Challenge
      /\ provided \in [Tx -> 0..MaxProvided] /\ served \in [Tx -> SUBSET Challenge]
  BY StoreAssumption DEF RouteTypeInv, RouteTypes, TypeInv, StoreTypeOK, EngineTypeOK
<1>o. \A y \in Caller : y # x => view'[y] = view[y]
  BY DEF OthersStay
<1>q. ASSUME \A u \in Tx :
                 /\ provided'[u] \in {0, 1}
                 /\ provided'[u] > 0 => served'[u] = {}
                 /\ \A c, d \in served'[u] : c = d
                 /\ BoughtThen(u) => seenTx'[u] # NoChallenge,
             \A y \in Caller : view'[y].stage \in Marked \ {"delivers"} => ~ BoughtThen(view'[y].tx)
      PROVE  BoughtOnce'
  BY <1>q DEF BoughtOnce, Bought, Caller
<1> HIDE DEF t
<1>1. ASSUME UNCHANGED <<provided, served>>, CarriesOn(x) PROVE BoughtOnce'
  <2>1. ASSUME NEW y \in Caller, view'[y].stage \in Marked \ {"delivers"}
        PROVE  view[y].stage \in Marked \ {"delivers"} /\ view'[y].tx = view[y].tx
    BY <1>o, <1>1, <2>1 DEF CarriesOn
  <2> QED
    BY <1>i, <1>1, <2>1, <1>q DEF CarriesOn, BoughtOnce, Bought
<1>2. ASSUME NEW c \in Challenge, MarksFor(x, c) PROVE BoughtOnce'
  <2>1. t \in Tx
    BY <1>i, <1>2 DEF ViewOK, MarksFor, t
  <2>2. /\ seenTx[t] = NoChallenge /\ seenTx'[t] = c
        /\ \A u \in Tx \ {t} : seenTx'[u] = seenTx[u]
        /\ UNCHANGED <<provided, served>>
    BY <1>s, <1>2, <2>1 DEF MarksFor, t
  <2>3. ~ BoughtThen(t)
    BY <1>i, <2>1, <2>2 DEF BoughtOnce, Bought
  <2>4. ASSUME NEW y \in Caller, view'[y].stage \in Marked \ {"delivers"}
        PROVE  ~ BoughtThen(view'[y].tx)
    <3>1. CASE y = x
      <4>1. view'[x].tx = t
        BY <1>2, <2>4, <3>1 DEF MarksFor, Reaches, Ends, Marked, t
      <4> QED
        BY <2>3, <3>1, <4>1
    <3>2. CASE y # x
      BY <1>i, <1>o, <2>2, <2>4, <3>2 DEF BoughtOnce, Bought
    <3> QED
      BY <3>1, <3>2
  <2> QED
    BY <1>s, <1>i, <2>2, <2>3, <2>4, <1>q DEF BoughtOnce, Bought
<1>3. ASSUME HandsOut(x) \/ Responds(x) PROVE BoughtOnce'
  <2>1. /\ t \in Tx /\ view[x].stage \in Marked /\ view[x].stage # "delivers"
        /\ ~ Bought(t) /\ seenTx[t] # NoChallenge /\ UNCHANGED seenTx
    BY <1>i, <1>3 DEF HandsOut, Responds, ViewOK, Marked, BoughtOnce, MarkedOnce, t
  <2>2. /\ \A u \in Tx \ {t} : provided'[u] = provided[u] /\ served'[u] = served[u]
        /\ \/ provided'[t] = provided[t] /\ served'[t] = served[t] \cup {view[x].challenge}
           \/ provided'[t] = provided[t] + 1 /\ served'[t] = served[t]
    BY <1>s, <1>3, <2>1 DEF HandsOut, Responds, t
  <2>3. provided[t] = 0 /\ served[t] = {}
    BY <1>s, <2>1 DEF Bought
  <2>4. view'[x].stage \notin Marked \ {"delivers"}
    BY <1>3 DEF HandsOut, Responds, Reaches, Ends, Marked
  <2>5. ASSUME NEW y \in Caller, view'[y].stage \in Marked \ {"delivers"}
        PROVE  ~ BoughtThen(view'[y].tx)
    <3>1. y # x /\ view'[y] = view[y]
      BY <1>o, <2>4, <2>5
    <3>2. view[y].tx # t /\ view[y].tx \in Tx /\ ~ Bought(view[y].tx)
      BY <1>i, <2>1, <2>5, <3>1 DEF MarkedOnce, BoughtOnce, ViewOK, Marked, t
    <3> QED
      BY <2>2, <3>1, <3>2 DEF Bought
  <2>6. ASSUME NEW u \in Tx
        PROVE  /\ provided'[u] \in {0, 1}
               /\ provided'[u] > 0 => served'[u] = {}
               /\ \A c, d \in served'[u] : c = d
               /\ BoughtThen(u) => seenTx'[u] # NoChallenge
    <3>1. CASE u = t
      BY <2>1, <2>2, <2>3, <3>1
    <3>2. CASE u # t
      BY <1>i, <2>1, <2>2, <3>2 DEF BoughtOnce, Bought
    <3> QED
      BY <3>1, <3>2
  <2> QED
    BY <2>5, <2>6, <1>q
<1>4. CarriesOn(x) \/ \E c \in Challenge : MarksFor(x, c)
  BY MarkMoves
<1>5. UNCHANGED <<provided, served>> \/ HandsOut(x) \/ Responds(x)
  BY DEF CallerMoves, FaultMoves, StandsBy, PaysOwn, MarksFor, GivesBack, Rewrites, Closes, TurnsBack
<1> QED
  BY <1>1, <1>2, <1>3, <1>4, <1>5

\* A paid record keeps its payment, and its state and grant under other hands.
LEMMA PaidMoves ==
  ASSUME NEW x \in Caller, CallerMoves(x), NEW d \in Challenge,
         challenges[d].state \in {"PAID", "DELIVERED"}
  PROVE  /\ SamePayment(d)
         /\ \/ challenges'[d].state \in {challenges[d].state, "DELIVERED"}
            \/ d = view[x].challenge /\ (GivesBack(x) \/ TurnsBack(x))
         /\ SameGrant(d) \/ (Rewrites(x) /\ d = view[x].challenge)
<1>1. CASE StandsBy(x)
  BY <1>1 DEF StandsBy, UnpaidMoves, SamePayment, SameGrant
<1>2. CASE PaysOwn(x)
  BY <1>2 DEF PaysOwn, SamePayment, SameGrant
<1>3. CASE Responds(x) \/ \E c \in Challenge : MarksFor(x, c)
  BY <1>3 DEF Responds, MarksFor, SamePayment, SameGrant
<1>4. CASE GivesBack(x) \/ TurnsBack(x)
  BY <1>4 DEF GivesBack, TurnsBack, Swaps
<1>5. CASE Rewrites(x)
  BY <1>5 DEF Rewrites
<1>6. CASE HandsOut(x) \/ Closes(x)
  BY <1>6 DEF HandsOut, Closes, Swaps, SamePayment, SameGrant
<1> QED
  BY <1>1, <1>2, <1>3, <1>4, <1>5, <1>6 DEF CallerMoves

\* A call owns a record from the payment on, and keeps it until it ends or has
\* its response.
LEMMA OwnerMoves ==
  ASSUME NEW x \in Caller, CallerMoves(x), view'[x].stage \in Owning
  PROVE  /\ view'[x].challenge = view[x].challenge /\ view'[x].tx = view[x].tx
         /\ \/ PaysOwn(x)
            \/ /\ view[x].stage \in Owning /\ ~ GivesBack(x) /\ ~ TurnsBack(x)
               /\ view'[x].stage = "granted" =>
                     \/ view[x].stage = "granted" /\ ~ Rewrites(x)
                     \/ challenges'[view[x].challenge].state # "PAID"
                     \/ challenges'[view[x].challenge].accessGrant # NoTx
<1>1. CASE StandsBy(x)
  BY <1>1 DEF StandsBy, GivesBack, TurnsBack, Rewrites, Owning, Reaches, Ends
<1>2. CASE PaysOwn(x)
  BY <1>2 DEF PaysOwn, Owning, Reaches, Ends
<1>3. CASE \E c \in Challenge : MarksFor(x, c)
  BY <1>3 DEF MarksFor, GivesBack, TurnsBack, Owning, Reaches, Ends
<1>4. CASE Rewrites(x)
  BY <1>4 DEF Rewrites, GivesBack, TurnsBack, Owning, Reaches, Ends
<1>5. CASE GivesBack(x) \/ TurnsBack(x) \/ HandsOut(x) \/ Closes(x) \/ Responds(x)
  BY <1>5 DEF GivesBack, TurnsBack, HandsOut, Closes, Responds, Owning, Reaches, Ends
<1> QED
  BY <1>1, <1>2, <1>3, <1>4, <1>5 DEF CallerMoves

LEMMA OwnsPaidMoves ==
  ASSUME RouteTypeInv, CallsInv, NEW x \in Caller, OthersStay(x), CallerMoves(x)
  PROVE  OwnsPaid'
<1> DEFINE OwnsThen(y) ==
             /\ view'[y].challenge \in Challenge
             /\ challenges'[view'[y].challenge].state \in {"PAID", "DELIVERED"}
             /\ ~ challenges'[view'[y].challenge].aged
             /\ challenges'[view'[y].challenge].txHash = view'[y].tx
             /\ view'[y].stage = "granted"
                  => \/ challenges'[view'[y].challenge].state = "DELIVERED"
                     \/ challenges'[view'[y].challenge].accessGrant # NoTx
<1>i. OwnsPaid
  BY DEF CallsInv
<1>o. \A y \in Caller : y # x => view'[y] = view[y]
  BY DEF OthersStay
<1>r. GivesBack(x) \/ TurnsBack(x) \/ Rewrites(x) => view[x].stage \in Owning
  BY DEF GivesBack, TurnsBack, Rewrites, Owning
<1>1. ASSUME NEW y \in Caller, y # x, view'[y].stage \in Owning PROVE OwnsThen(y)
  <2> DEFINE d == view[y].challenge
  <2>1. /\ view'[y] = view[y] /\ d \in Challenge /\ Owns(y)
        /\ view[x].stage \in Owning => d # view[x].challenge
    BY <1>i, <1>o, <1>1 DEF OwnsPaid
  <2>2. challenges[d].state \in {"PAID", "DELIVERED"}
    BY <2>1 DEF Owns
  <2> HIDE DEF d
  <2>3. /\ SamePayment(d) /\ SameGrant(d)
        /\ challenges'[d].state \in {challenges[d].state, "DELIVERED"}
    BY <1>r, <2>1, <2>2, PaidMoves
  <2> QED
    BY <2>1, <2>2, <2>3 DEF Owns, SamePayment, SameGrant, d
<1>2. ASSUME view'[x].stage \in Owning PROVE OwnsThen(x)
  <2> DEFINE d == view[x].challenge
  <2>1. CASE PaysOwn(x)
    <3>1. view'[x].stage = "claims" /\ Reaches(x, "claims")
      BY <1>2, <2>1 DEF PaysOwn, Reaches, Ends, Owning
    <3> QED
      BY <2>1, <3>1 DEF PaysOwn, Reaches
  <2>2. CASE ~ PaysOwn(x)
    <3>1. /\ view'[x].challenge = d /\ view'[x].tx = view[x].tx
          /\ view[x].stage \in Owning /\ ~ GivesBack(x) /\ ~ TurnsBack(x)
          /\ view'[x].stage = "granted" =>
                \/ view[x].stage = "granted" /\ ~ Rewrites(x)
                \/ challenges'[d].state # "PAID"
                \/ challenges'[d].accessGrant # NoTx
      BY <1>2, <2>2, OwnerMoves
    <3>2. d \in Challenge /\ Owns(x)
      BY <1>i, <3>1 DEF OwnsPaid
    <3>3. challenges[d].state \in {"PAID", "DELIVERED"}
      BY <3>2 DEF Owns
    <3> HIDE DEF d
    <3>4. /\ SamePayment(d) /\ challenges'[d].state \in {challenges[d].state, "DELIVERED"}
          /\ SameGrant(d) \/ Rewrites(x)
      BY <3>1, <3>2, <3>3, PaidMoves
    <3> QED
      BY <3>1, <3>2, <3>3, <3>4 DEF Owns, SamePayment, SameGrant, d
  <2> QED
    BY <2>1, <2>2
<1>3. ASSUME NEW y \in Caller, y # x, view'[x].stage \in Owning, view'[y].stage \in Owning
      PROVE  view'[x].challenge # view'[y].challenge
  <2>1. /\ view'[x].challenge = view[x].challenge
        /\ PaysOwn(x) \/ view[x].stage \in Owning
    BY <1>3, OwnerMoves
  <2>2. view'[y] = view[y] /\ Owns(y)
    BY <1>i, <1>o, <1>3 DEF OwnsPaid
  <2>3. CASE PaysOwn(x)
    BY <2>1, <2>2, <2>3 DEF PaysOwn, Owns
  <2>4. CASE view[x].stage \in Owning
    BY <1>i, <1>3, <2>1, <2>2, <2>4 DEF OwnsPaid
  <2> QED
    BY <2>1, <2>3, <2>4
<1>4. \A y, z \in Caller : y # z /\ view'[y].stage \in Owning /\ view'[z].stage \in Owning
                             => view'[y].challenge # view'[z].challenge
  <2> SUFFICES ASSUME NEW y \in Caller, NEW z \in Caller, y # z,
                      view'[y].stage \in Owning, view'[z].stage \in Owning
               PROVE  view'[y].challenge # view'[z].challenge
    OBVIOUS
  <2>1. CASE y = x \/ z = x
    BY <1>3, <2>1
  <2>2. CASE y # x /\ z # x
    BY <1>i, <1>o, <2>2 DEF OwnsPaid
  <2> QED
    BY <2>1, <2>2
<1> QED
  BY <1>1, <1>2, <1>4 DEF OwnsPaid, Owns, Caller

LEMMA PayerMoves ==
  ASSUME RouteTypeInv, CallsInv, NEW x \in Caller, OthersStay(x), CallerMoves(x)
  PROVE  PayerIsSender'
<1> SUFFICES ASSUME NEW d \in Challenge
             PROVE  challenges'[d].fromAddress = challenges'[d].txHash
  BY DEF PayerIsSender
<1>1. challenges[d].fromAddress = challenges[d].txHash
  BY DEF CallsInv, PayerIsSender
<1>2. CASE SamePayment(d)
  BY <1>1, <1>2 DEF SamePayment
<1>3. CASE StandsBy(x)
  BY <1>1, <1>3 DEF StandsBy, UnpaidMoves
<1>4. CASE PaysOwn(x)
  BY <1>1, <1>4 DEF PaysOwn
<1> QED
  BY <1>2, <1>3, <1>4 DEF CallerMoves, MarksFor, GivesBack, Rewrites, HandsOut, Responds, Closes,
     TurnsBack, Swaps, SamePayment

\* A claim that ends in this step leaves no owed record, or the hash to it.
LEMMA ClaimEnds ==
  ASSUME RouteTypeInv, CallsInv, NEW x \in Caller, OthersStay(x), CallerMoves(x),
         NEW d \in Challenge, challenges'[d].state \in OwedStates, Claimed(d), ~ Claimed(d)'
  PROVE  /\ MarksFor(x, d) /\ view[x].stage = "claims" /\ view[x].challenge = d
         /\ challenges[d].txHash = view[x].tx
<1>1. view[x].stage = "claims" /\ view[x].challenge = d /\ (GivesBack(x) \/ MarksFor(x, d))
  BY ClaimMoves
<1>2. Owns(x)
  BY <1>1 DEF CallsInv, OwnsPaid, Owning
<1>3. ~ GivesBack(x)
  BY <1>1, <1>2 DEF GivesBack, Swaps, Owns, OwedStates
<1> QED
  BY <1>1, <1>2, <1>3 DEF Owns

LEMMA HoldsFreshMoves ==
  ASSUME RouteTypeInv, CallsInv, NEW x \in Caller, OthersStay(x), CallerMoves(x)
  PROVE  HoldsFresh'
<1>i. /\ HoldsFresh /\ MarkedOnce /\ OwedIsMarked /\ OwnsPaid /\ ViewOK
      /\ NoChallenge \notin Challenge
  BY ViewTyped, StoreAssumption DEF CallsInv
<1>o. \A y \in Caller : y # x => view'[y] = view[y]
  BY DEF OthersStay
<1> SUFFICES ASSUME NEW y \in Caller, NEW d \in Challenge,
                    view'[y].stage \in {"holds", "delivers"},
                    challenges'[d].state \in OwedStates, challenges'[d].txHash = view'[y].tx,
                    ~ Claimed(d)'
             PROVE  /\ view'[y].challenge = d
                    /\ challenges'[d].state = "PAID" /\ ~ challenges'[d].aged
  BY DEF HoldsFresh, Caller
<1>1. CASE PaysOwn(x) /\ d = view[x].challenge
  <2>1. view[x].stage = "holds"
    <3> SUFFICES ASSUME Reaches(x, "claims") PROVE FALSE
      BY <1>1 DEF PaysOwn
    <3>1. \A z \in Caller : view'[z].stage = "claims" /\ view'[z].challenge = d => Claimed(d)'
      BY DEF Claimed, Caller
    <3> QED
      BY <1>1, <3>1 DEF Reaches
  <2>2. y = x
    <3> SUFFICES ASSUME y # x PROVE FALSE
      OBVIOUS
    <3>1. view[y].tx = view[x].tx /\ view[y].stage \in Marked
      BY <1>o, <1>1 DEF PaysOwn, Marked
    <3> QED
      BY <1>i, <2>1, <3>1 DEF MarkedOnce, Marked
  <2> QED
    BY <1>1, <2>1, <2>2 DEF PaysOwn, Reaches, Ends
<1>2. CASE StaysOwed(x, d)
  <2>1. challenges[d].state \in OwedStates /\ challenges[d].txHash = view'[y].tx
    BY <1>2 DEF StaysOwed, SamePayment
  <2>2. CASE \E c \in Challenge : MarksFor(x, c)
    <3>1. seenTx[view[x].tx] = NoChallenge /\ UNCHANGED challenges
      BY <2>2 DEF MarksFor
    <3>2. CASE y = x
      <4>1. view[x].stage = "settled" /\ view'[x].tx = view[x].tx
        BY <2>2, <3>2 DEF MarksFor, Reaches, Ends
      <4>2. ~ Claimed(d)
        BY <4>1, ClaimEnds
      <4> QED
        BY <1>i, <2>1, <3>1, <3>2, <4>1, <4>2 DEF OwedIsMarked
    <3>3. CASE y # x
      <4>1. view'[y] = view[y] /\ seenTx[view[y].tx] # NoChallenge
        BY <1>i, <1>o, <3>3 DEF MarkedOnce, Marked
      <4>2. ~ Claimed(d)
        BY <2>1, <3>1, <4>1, ClaimEnds
      <4> QED
        BY <1>i, <2>1, <3>1, <4>1, <4>2 DEF HoldsFresh
    <3> QED
      BY <3>2, <3>3
  <2>3. CASE CarriesOn(x)
    <3>1. /\ view[y].stage \in Marked
          /\ view'[y].challenge = view[y].challenge /\ view'[y].tx = view[y].tx
      BY <1>o, <2>3 DEF CarriesOn, Marked
    <3>2. ~ Claimed(d)
      <4> SUFFICES ASSUME Claimed(d) PROVE FALSE
        OBVIOUS
      <4>1. MarksFor(x, d) /\ challenges[d].txHash = view[x].tx
        BY ClaimEnds
      <4> QED
        BY <1>i, <2>1, <3>1, <4>1 DEF MarksFor, MarkedOnce
    <3>3. CASE view[y].stage \in {"holds", "delivers"}
      <4>1. view[y].challenge = d /\ challenges[d].state = "PAID" /\ ~ challenges[d].aged
        BY <1>i, <2>1, <3>1, <3>2, <3>3 DEF HoldsFresh
      <4>2. ~ (TurnsBack(x) /\ d = view[x].challenge)
        <5> SUFFICES ASSUME TurnsBack(x), d = view[x].challenge PROVE FALSE
          OBVIOUS
        <5>1. view[x].stage = "refunds" /\ Owns(x)
          BY <1>i DEF TurnsBack, OwnsPaid, Owning
        <5> QED
          BY <1>i, <2>1, <3>1, <3>3, <5>1 DEF Owns, MarkedOnce, Marked
      <4> QED
        BY <1>2, <3>1, <4>1, <4>2 DEF StaysOwed, SamePayment
    <3>4. CASE view[y].stage \notin {"holds", "delivers"}
      <4>1. y = x /\ Responds(x) /\ view[x].stage = "owns"
        <5>1. y = x
          BY <1>o, <3>4
        <5>2. view[x].stage \in {"owns", "granted", "refunds"}
          BY <3>1, <3>4, <5>1 DEF Marked
        <5> QED
          BY <5>1, <5>2 DEF CallerMoves, StandsBy, PaysOwn, MarksFor, GivesBack, Rewrites,
             HandsOut, Responds, Closes, TurnsBack, Reaches, Ends
      <4>2. /\ view[x].challenge \in Challenge /\ Owns(x)
            /\ seenTx[view[x].tx] = d /\ view[x].challenge \in {NoChallenge, seenTx[view[x].tx]}
        BY <1>i, <2>1, <3>1, <3>2, <4>1 DEF OwnsPaid, Owning, OwedIsMarked, MarkedOnce
      <4>3. view[x].challenge = d /\ UNCHANGED challenges
        BY <1>i, <4>1, <4>2 DEF Responds
      <4> QED
        BY <2>1, <3>1, <4>1, <4>2, <4>3 DEF Owns, OwedStates
    <3> QED
      BY <3>3, <3>4
  <2> QED
    BY <2>2, <2>3, MarkMoves
<1> QED
  BY <1>1, <1>2, OwedMoves

LEMMA OwedIsMarkedMoves ==
  ASSUME RouteTypeInv, CallsInv, NEW x \in Caller, OthersStay(x), CallerMoves(x)
  PROVE  OwedIsMarked'
<1>i. /\ MarkedOnce /\ OwedIsMarked /\ ViewOK /\ NoChallenge \notin Challenge
      /\ seenTx \in [Tx -> Challenge \cup {NoChallenge}]
  BY ViewTyped, StoreAssumption DEF CallsInv, RouteTypeInv, TypeInv, StoreTypeOK
<1> SUFFICES ASSUME NEW d \in Challenge, challenges'[d].state \in OwedStates, ~ Claimed(d)'
             PROVE  challenges'[d].txHash \in Tx /\ seenTx'[challenges'[d].txHash] = d
  BY DEF OwedIsMarked
<1>1. CASE PaysOwn(x) /\ d = view[x].challenge
  <2>1. view[x].stage = "holds"
    <3> SUFFICES ASSUME Reaches(x, "claims") PROVE FALSE
      BY <1>1 DEF PaysOwn
    <3>1. \A z \in Caller : view'[z].stage = "claims" /\ view'[z].challenge = d => Claimed(d)'
      BY DEF Claimed, Caller
    <3> QED
      BY <1>1, <3>1 DEF Reaches
  <2>2. view[x].tx \in Tx /\ seenTx[view[x].tx] = d
    BY <1>i, <1>1, <2>1 DEF ViewOK, MarkedOnce, Marked
  <2> QED
    BY <1>1, <2>2 DEF PaysOwn
<1>2. CASE StaysOwed(x, d)
  <2>1. challenges[d].state \in OwedStates /\ challenges'[d].txHash = challenges[d].txHash
    BY <1>2 DEF StaysOwed, SamePayment
  <2>2. CASE Claimed(d)
    <3>1. MarksFor(x, d) /\ challenges[d].txHash = view[x].tx /\ view[x].tx \in Tx
      BY <1>i, <2>2, ClaimEnds DEF ViewOK
    <3> QED
      BY <1>i, <2>1, <3>1 DEF MarksFor
  <2>3. CASE ~ Claimed(d)
    <3>1. challenges[d].txHash \in Tx /\ seenTx[challenges[d].txHash] = d
      BY <1>i, <2>1, <2>3 DEF OwedIsMarked
    <3>2. \A u \in Tx : seenTx[u] # NoChallenge => seenTx'[u] = seenTx[u]
      BY <1>i, MarkMoves DEF CarriesOn, MarksFor
    <3> QED
      BY <1>i, <2>1, <3>1, <3>2
  <2> QED
    BY <2>2, <2>3
<1> QED
  BY <1>1, <1>2, OwedMoves

LEMMA BoughtIsKeptMoves ==
  ASSUME RouteTypeInv, CallsInv, NEW x \in Caller, OthersStay(x), CallerMoves(x)
  PROVE  BoughtIsKept'
<1>i. /\ MarkedOnce /\ OwedIsMarked /\ OwnsPaid /\ BoughtOnce /\ HoldsFresh /\ BoughtIsKept
      /\ ViewOK /\ NoChallenge \notin Challenge
  BY ViewTyped, StoreAssumption DEF CallsInv
<1>s. provided \in [Tx -> 0..MaxProvided] /\ served \in [Tx -> SUBSET Challenge]
  BY DEF RouteTypeInv, RouteTypes, TypeInv, EngineTypeOK
<1>o. \A y \in Caller : y # x => view'[y] = view[y]
  BY DEF OthersStay
<1> DEFINE t == view[x].tx
           BoughtThen(u) == provided'[u] > 0 \/ served'[u] # {}
<1> SUFFICES ASSUME NEW d \in Challenge, challenges'[d].state \in OwedStates, ~ Claimed(d)',
                    BoughtThen(challenges'[d].txHash)
             PROVE  /\ challenges'[d].state = "PAID"
                    /\ \/ challenges'[d].accessGrant # NoTx
                       \/ \E z \in Caller : /\ view'[z].stage = "delivers"
                                            /\ view'[z].challenge = d
                                            /\ view'[z].tx = challenges'[d].txHash
  BY DEF BoughtIsKept, Kept, Bought, Caller
<1>n. view[x].stage \in Marked \ {"delivers"} => ~ Bought(t) /\ t \in Tx
  BY <1>i DEF BoughtOnce, ViewOK, Marked
<1>1. CASE PaysOwn(x) /\ d = view[x].challenge
  <2>1. view[x].stage = "holds"
    <3> SUFFICES ASSUME Reaches(x, "claims") PROVE FALSE
      BY <1>1 DEF PaysOwn
    <3>1. \A z \in Caller : view'[z].stage = "claims" /\ view'[z].challenge = d => Claimed(d)'
      BY DEF Claimed, Caller
    <3> QED
      BY <1>1, <3>1 DEF Reaches
  <2>2. FALSE
    BY <1>n, <1>1, <2>1 DEF PaysOwn, Marked, Bought
  <2> QED
    BY <2>2
<1>2. CASE StaysOwed(x, d)
  <2> DEFINE u == challenges[d].txHash
  <2>1. challenges[d].state \in OwedStates /\ challenges'[d].txHash = u
    BY <1>2 DEF StaysOwed, SamePayment
  <2>2. ~ Claimed(d)
    <3> SUFFICES ASSUME Claimed(d) PROVE FALSE
      OBVIOUS
    <3>1. MarksFor(x, d) /\ u = t /\ view[x].stage = "claims"
      BY ClaimEnds
    <3>2. t \in Tx /\ seenTx[t] = NoChallenge /\ UNCHANGED <<provided, served>>
      BY <1>i, <3>1 DEF MarksFor, ViewOK
    <3> QED
      BY <1>i, <2>1, <3>1, <3>2 DEF BoughtOnce, Bought
  <2>3. u \in Tx /\ seenTx[u] = d
    BY <1>i, <2>1, <2>2 DEF OwedIsMarked
  \* The record a call owns with this transfer is this one.
  <2>4. ASSUME view[x].stage \in {"granted", "owns"}, t = u
        PROVE  view[x].challenge = d /\ Owns(x) /\ challenges[d].state = "PAID"
    <3>1. view[x].challenge \in {NoChallenge, d} /\ view[x].challenge \in Challenge /\ Owns(x)
      BY <1>i, <2>3, <2>4 DEF MarkedOnce, Marked, OwnsPaid, Owning
    <3> QED
      BY <1>i, <2>1, <3>1 DEF Owns, OwedStates
  <2>5. CASE HandsOut(x) /\ u = t
    <3>1. view[x].stage = "granted"
      BY <2>5 DEF HandsOut
    <3>2. challenges[d].state = "PAID" /\ challenges[d].accessGrant # NoTx
      BY <2>4, <2>5, <3>1 DEF Owns
    <3>3. SameGrant(d) /\ ~ TurnsBack(x)
      BY <1>2, <3>1 DEF StaysOwed, Rewrites, TurnsBack
    <3> QED
      BY <1>2, <3>2, <3>3 DEF StaysOwed, SameGrant
  <2>6. CASE Responds(x) /\ u = t
    <3>1. view[x].challenge = d /\ challenges[d].state = "PAID"
      <4>1. CASE view[x].stage = "owns"
        BY <2>4, <2>6, <4>1
      <4>2. CASE view[x].stage = "holds"
        BY <1>i, <2>1, <2>2, <2>6, <4>2 DEF HoldsFresh
      <4> QED
        BY <2>6, <4>1, <4>2 DEF Responds
    <3> QED
      BY <2>6, <3>1 DEF Responds, Reaches
  <2>7. CASE ~ (HandsOut(x) /\ u = t) /\ ~ (Responds(x) /\ u = t)
    <3>1. Bought(u)
      <4>1. CASE UNCHANGED <<provided, served>>
        BY <2>1, <4>1 DEF Bought
      <4>2. CASE HandsOut(x) \/ Responds(x)
        BY <1>s, <2>1, <2>3, <2>7, <4>2 DEF HandsOut, Responds, Bought
      <4> QED
        BY <4>1, <4>2 DEF CallerMoves, StandsBy, PaysOwn, MarksFor, GivesBack, Rewrites, Closes,
                          TurnsBack
    <3>2. challenges[d].state = "PAID" /\ Kept(d)
      BY <1>i, <2>1, <2>2, <3>1 DEF BoughtIsKept, Kept
    <3>3. ~ ((TurnsBack(x) \/ Rewrites(x)) /\ d = view[x].challenge)
      <4> SUFFICES ASSUME TurnsBack(x) \/ Rewrites(x), d = view[x].challenge PROVE FALSE
        OBVIOUS
      <4>1. view[x].stage \in {"refunds", "owns"}
        BY DEF TurnsBack, Rewrites
      <4>2. Owns(x)
        BY <1>i, <4>1 DEF OwnsPaid, Owning
      <4> QED
        BY <1>n, <3>1, <4>1, <4>2 DEF Owns, Marked
    <3>4. SameGrant(d) /\ challenges'[d].state = "PAID"
      BY <1>2, <3>2, <3>3 DEF StaysOwed
    <3>5. ASSUME NEW z \in Caller, view[z].stage = "delivers", view[z].challenge = d, view[z].tx = u
          PROVE  view'[z].stage = "delivers" /\ view'[z].challenge = d /\ view'[z].tx = u
      <4>1. CASE z # x
        BY <1>o, <3>5, <4>1
      <4>2. CASE z = x
        <5>1. ~ Closes(x)
          BY <1>i, <3>2, <3>4, <3>5, <4>2 DEF Closes, Swaps
        <5> QED
          BY <3>5, <4>2, <5>1 DEF CallerMoves, StandsBy, PaysOwn, MarksFor, GivesBack, Rewrites,
             HandsOut, Responds, TurnsBack, Reaches
      <4> QED
        BY <4>1, <4>2
    <3> HIDE DEF u
    <3>6. challenges[d].accessGrant # NoTx
            \/ \E z \in Caller : /\ view[z].stage = "delivers" /\ view[z].challenge = d
                                 /\ view[z].tx = u
      BY <3>2 DEF Kept, u
    <3> QED
      BY <2>1, <3>4, <3>5, <3>6 DEF SameGrant
  <2> QED
    BY <2>5, <2>6, <2>7
<1> QED
  BY <1>1, <1>2, OwedMoves

LEMMA CallKeepsCalls ==
  ASSUME RouteTypeInv, CallsInv, NEW x \in Caller, OthersStay(x), CallerMoves(x)
  PROVE  CallsInv'
  BY PaidUpMoves, MarkedOnceMoves, BoughtOnceMoves, OwnsPaidMoves, HoldsFreshMoves,
     OwedIsMarkedMoves, BoughtIsKeptMoves, PayerMoves DEF CallsInv

-----------------------------------------------------------------------------
\* The steps of refund runs and of time, seen by the calls. A record grows old
\* in nobody's hands, and runs claim old records without a grant.

Unheld(d) ==
    \A x \in Caller : view[x].stage \in Owning \cup {"holds", "delivers"}
                         => view[x].challenge # d

Rests(d) ==
    /\ challenges'[d].txHash = challenges[d].txHash
    /\ challenges'[d].fromAddress = challenges[d].fromAddress
    /\ SameGrant(d)
    /\ challenges[d].aged => challenges'[d].aged
    /\ challenges'[d].aged => challenges[d].aged \/ Unheld(d)
    /\ \/ challenges'[d].state = challenges[d].state
       \/ /\ challenges[d].state = "PAID" /\ challenges'[d].state = "REFUND_PENDING"
          /\ challenges[d].aged /\ challenges[d].accessGrant = NoTx
       \/ /\ challenges[d].state = "REFUND_PENDING"
          /\ challenges'[d].state \in {"REFUNDED", "REFUND_FAILED"}
       \/ challenges[d].state = "REFUND_FAILED" /\ challenges'[d].state = "PAID"

LEMMA ViewStays == ASSUME UNCHANGED <<handler, routeCall>> PROVE UNCHANGED view
  BY DEF view, PlanStage, RouteStage

LEMMA RestKeepsCalls ==
  ASSUME CallsInv, UNCHANGED <<handler, routeCall, seenTx, provided, served, settled>>,
         \A d \in Challenge : Rests(d)
  PROVE  CallsInv'
<1>v. UNCHANGED view
  BY ViewStays
<1>c. \A d : Claimed(d)' <=> Claimed(d)
  BY <1>v DEF Claimed, Caller
<1>o. ASSUME NEW d \in Challenge, challenges'[d].state \in OwedStates
      PROVE  challenges[d].state \in OwedStates
  BY <1>o DEF Rests, OwedStates
<1>a. ASSUME NEW d \in Challenge, ~ challenges[d].aged, challenges[d].state \in {"PAID", "DELIVERED"}
      PROVE  challenges'[d].state = challenges[d].state
  BY <1>a DEF Rests
<1>1. PaidUp'
  BY <1>v, <1>o DEF CallsInv, PaidUp, Bought, Rests, Caller
<1>2. MarkedOnce'
  BY <1>v DEF CallsInv, MarkedOnce, Caller
<1>3. BoughtOnce'
  BY <1>v DEF CallsInv, BoughtOnce, Bought, Caller
<1>4. OwnsPaid'
  <2>1. ASSUME NEW x \in Caller, view[x].stage \in Owning
        PROVE  /\ view[x].challenge \in Challenge
               /\ challenges'[view[x].challenge].state \in {"PAID", "DELIVERED"}
               /\ ~ challenges'[view[x].challenge].aged
               /\ challenges'[view[x].challenge].txHash = view[x].tx
               /\ view[x].stage = "granted"
                    => \/ challenges'[view[x].challenge].state = "DELIVERED"
                       \/ challenges'[view[x].challenge].accessGrant # NoTx
    <3> DEFINE d == view[x].challenge
    <3>1. d \in Challenge /\ Owns(x)
      BY <2>1 DEF CallsInv, OwnsPaid
    <3>2. Rests(d) /\ ~ Unheld(d) /\ challenges'[d].state = challenges[d].state
      BY <2>1, <3>1, <1>a DEF Owns, Unheld
    <3> QED
      BY <3>1, <3>2 DEF Owns, Rests, SameGrant
  <2> QED
    BY <1>v, <2>1 DEF CallsInv, OwnsPaid, Owns, Caller
<1>5. HoldsFresh'
  <2>1. ASSUME NEW x \in Caller, NEW d \in Challenge, view[x].stage \in {"holds", "delivers"},
               challenges'[d].state \in OwedStates, challenges'[d].txHash = view[x].tx
        PROVE  \/ Claimed(d)
               \/ view[x].challenge = d /\ challenges'[d].state = "PAID" /\ ~ challenges'[d].aged
    <3>1. \/ Claimed(d)
          \/ view[x].challenge = d /\ challenges[d].state = "PAID" /\ ~ challenges[d].aged
      BY <2>1, <1>o DEF CallsInv, HoldsFresh, Rests
    <3>2. view[x].challenge = d => ~ Unheld(d)
      BY <2>1 DEF Unheld
    <3> QED
      BY <3>1, <3>2, <1>a DEF Rests
  <2> QED
    BY <1>v, <1>c, <2>1 DEF HoldsFresh, Caller
<1>6. OwedIsMarked'
  BY <1>c, <1>o DEF CallsInv, OwedIsMarked, Rests
<1>7. BoughtIsKept'
  <2>1. ASSUME NEW d \in Challenge, challenges'[d].state \in OwedStates, ~ Claimed(d),
               Bought(challenges'[d].txHash)
        PROVE  /\ challenges'[d].state = "PAID"
               /\ \/ challenges'[d].accessGrant # NoTx
                  \/ \E x \in Caller : /\ view[x].stage = "delivers" /\ view[x].challenge = d
                                       /\ view[x].tx = challenges'[d].txHash
    <3>1. challenges[d].state \in OwedStates /\ Rests(d)
      BY <2>1, <1>o
    <3>2. Kept(d)
      BY <2>1, <3>1 DEF CallsInv, BoughtIsKept, Rests
    <3>3. challenges'[d].state = "PAID"
      <4>1. ASSUME NEW x \in Caller, view[x].stage = "delivers", view[x].tx = challenges[d].txHash
            PROVE  ~ challenges[d].aged
        BY <2>1, <3>1, <4>1 DEF CallsInv, HoldsFresh
      <4> QED
        BY <3>1, <3>2, <4>1, <1>a DEF Kept, Rests
    <3> QED
      BY <3>1, <3>2, <3>3 DEF Kept, Rests, SameGrant
  <2> QED
    BY <1>v, <1>c, <2>1 DEF BoughtIsKept, Kept, Bought, Caller
<1>8. PayerIsSender'
  BY DEF CallsInv, PayerIsSender, Rests
<1> QED
  BY <1>1, <1>2, <1>3, <1>4, <1>5, <1>6, <1>7, <1>8 DEF CallsInv

-----------------------------------------------------------------------------
\* The invariant of the refund runs.

\* A step that no run makes.
LEMMA RunsKept ==
  ASSUME TypeInv, RunsInv, UNCHANGED cronVars,
         \A d \in Challenge :
            /\ challenges[d].state = "REFUND_PENDING" => challenges'[d].state = "REFUND_PENDING"
            /\ challenges[d].state = "REFUNDED" => challenges'[d].state = "REFUNDED"
            /\ challenges[d].state \in {"REFUND_PENDING", "REFUNDED"}
                 => challenges'[d].txHash = challenges[d].txHash
            /\ /\ challenges[d].state \in OwedStates \cup {"DELIVERED"}
               /\ challenges[d].aged /\ challenges[d].accessGrant = NoTx
               => /\ challenges'[d].state \in OwedStates \cup {"DELIVERED"}
                  /\ challenges'[d].aged /\ challenges'[d].accessGrant = NoTx
                  /\ challenges'[d].fromAddress = challenges[d].fromAddress,
         \A t \in Tx : seenTx[t] # NoChallenge => seenTx'[t] = seenTx[t]
  PROVE  RunsInv'
<1>s. /\ cron \in [Cron -> Run] /\ NoChallenge \notin Challenge
      /\ \A k \in Cron : /\ \A s \in cron[k].batch : s.challenge \in Challenge
                         /\ cron[k].current # NoSnapshot => cron[k].current.challenge \in Challenge
  BY StoreAssumption DEF TypeInv, CronTypeOK, Run, Snapshot
<1>c. UNCHANGED <<cron, payouts>>
  BY DEF cronVars
<1>1. RunsHold'
  BY <1>c DEF RunsInv, RunsHold, Refunding
<1>2. BatchesDue'
  <2>1. ASSUME NEW s, s.challenge \in Challenge, StillDue(s)
        PROVE  /\ challenges'[s.challenge].state \in OwedStates \cup {"DELIVERED"}
               /\ challenges'[s.challenge].aged /\ challenges'[s.challenge].accessGrant = NoTx
               /\ challenges'[s.challenge].fromAddress = s.fromAddress
    BY <2>1 DEF StillDue
  <2> QED
    BY <1>s, <1>c, <2>1 DEF RunsInv, BatchesDue, StillDue
<1>3. PayoutsDue'
  BY <1>s, <1>c DEF RunsInv, PayoutsDue, PaidBack, Refunding
<1> QED
  BY <1>1, <1>2, <1>3 DEF RunsInv

LEMMA CallKeepsRuns ==
  ASSUME RouteTypeInv, CallsInv, RunsInv, NEW x \in Caller, CallerMoves(x), UNCHANGED cronVars
  PROVE  RunsInv'
<1>s. TypeInv /\ ViewOK /\ seenTx \in [Tx -> Challenge \cup {NoChallenge}]
  BY ViewTyped DEF RouteTypeInv, TypeInv, StoreTypeOK
<1>1. \A t \in Tx : seenTx[t] # NoChallenge => seenTx'[t] = seenTx[t]
  BY <1>s, MarkMoves DEF CarriesOn, MarksFor
<1>2. ASSUME NEW d \in Challenge, challenges[d].state \in {"REFUND_PENDING", "REFUNDED", "REFUND_FAILED"}
      PROVE  SamePayment(d) /\ SameGrant(d) /\ challenges'[d].state = challenges[d].state
  <2>1. Rewrites(x) => d # view[x].challenge
    BY <1>2 DEF CallsInv, OwnsPaid, Owns, Owning, Rewrites
  <2> QED
    BY <1>2, <2>1 DEF CallerMoves, StandsBy, UnpaidMoves, PaysOwn, MarksFor, GivesBack, Rewrites,
       HandsOut, Responds, Closes, TurnsBack, Swaps, SamePayment, SameGrant
<1>3. ASSUME NEW d \in Challenge, challenges[d].state \in {"PAID", "DELIVERED"}, challenges[d].aged
      PROVE  /\ SamePayment(d) /\ SameGrant(d)
             /\ challenges'[d].state \in {"PAID", "DELIVERED"}
  <2>1. view[x].stage \in Owning => d # view[x].challenge
    BY <1>3 DEF CallsInv, OwnsPaid, Owns
  <2>2. GivesBack(x) \/ TurnsBack(x) \/ Rewrites(x) => view[x].stage \in Owning
    BY DEF GivesBack, TurnsBack, Rewrites, Owning
  <2> QED
    BY <1>3, <2>1, <2>2, PaidMoves
<1>4. ASSUME NEW d \in Challenge
      PROVE  /\ challenges[d].state = "REFUND_PENDING" => challenges'[d].state = "REFUND_PENDING"
             /\ challenges[d].state = "REFUNDED" => challenges'[d].state = "REFUNDED"
             /\ challenges[d].state \in {"REFUND_PENDING", "REFUNDED"}
                  => challenges'[d].txHash = challenges[d].txHash
             /\ /\ challenges[d].state \in OwedStates \cup {"DELIVERED"}
                /\ challenges[d].aged /\ challenges[d].accessGrant = NoTx
                => /\ challenges'[d].state \in OwedStates \cup {"DELIVERED"}
                   /\ challenges'[d].aged /\ challenges'[d].accessGrant = NoTx
                   /\ challenges'[d].fromAddress = challenges[d].fromAddress
  BY <1>2, <1>3 DEF OwedStates, SamePayment, SameGrant
<1> QED
  BY <1>s, <1>1, <1>4, RunsKept

-----------------------------------------------------------------------------
\* The steps of refund runs.

LEMMA RunRecords ==
  ASSUME TypeInv, NEW k \in Cron
  PROVE  /\ \A s \in cron[k].batch : s.challenge \in Challenge
         /\ cron[k].current # NoSnapshot => cron[k].current.challenge \in Challenge
  BY RunHolds DEF TypeInv, CronTypeOK, Run, Snapshot

LEMMA RunRests ==
  ASSUME TypeInv, RunsInv, NEW k \in Cron, CronStep(k) \/ CronLost(k)
  PROVE  \A d \in Challenge : Rests(d)
<1> SUFFICES ASSUME NEW d \in Challenge PROVE Rests(d)
  OBVIOUS
<1>1. RunMoves(k, d)
  BY RunShape
<1>2. ASSUME NEW s \in cron[k].batch, s.challenge = d
      PROVE  challenges[d].aged /\ challenges[d].accessGrant = NoTx
  BY <1>2 DEF RunsInv, BatchesDue, StillDue
<1> QED
  BY <1>1, <1>2 DEF RunMoves, Rests, SameGrant

\* What a run sends it owes: the payer is the sender of the transfer that paid
\* for the record, and has bought nothing with it and got nothing back.
LEMMA SendIsDue ==
  ASSUME TypeInv, CallsInv, RunsInv, NEW k \in Cron, Sends(k)
  PROVE  \E t \in Tx, c \in Challenge :
            /\ t = cron[k].current.fromAddress /\ Refunding(k, c)
            /\ challenges[c].state = "REFUND_PENDING" /\ challenges[c].txHash = t
            /\ seenTx[t] = c /\ payouts[t] = 0
            /\ t \in settled /\ ~ Bought(t)
<1> DEFINE s == cron[k].current
           c == s.challenge
           t == s.fromAddress
<1>1. c \in Challenge /\ Refunding(k, c)
  BY RunHolds DEF Sends, Refunding
<1>2. challenges[c].state = "REFUND_PENDING" /\ challenges[c].fromAddress = t
  BY <1>1 DEF RunsInv, RunsHold, BatchesDue, StillDue, Refunding
<1>3. challenges[c].txHash = t
  BY <1>1, <1>2 DEF CallsInv, PayerIsSender
<1>4. ~ Claimed(c)
  BY <1>2 DEF CallsInv, OwnsPaid, Owns, Owning, Claimed
<1>5. t \in Tx /\ seenTx[t] = c /\ t \in settled
  BY <1>1, <1>2, <1>3, <1>4 DEF CallsInv, OwedIsMarked, PaidUp, OwedStates
<1>6. ~ Bought(t)
  BY <1>1, <1>2, <1>3, <1>4 DEF CallsInv, BoughtIsKept, Kept, OwedStates
<1>7. payouts[t] = 0
  <2>1. payouts[t] \in Nat
    BY <1>5, CronAssumption DEF TypeInv, CronTypeOK
  <2>2. ~ (payouts[t] > 0)
    BY <1>1, <1>5 DEF RunsInv, PayoutsDue, PaidBack, Sends
  <2> QED
    BY <2>1, <2>2
<1> QED
  BY <1>1, <1>2, <1>3, <1>5, <1>6, <1>7

LEMMA RunKeepsRuns ==
  ASSUME "receipt_timeout" \notin Faults, "confirm_error" \notin Faults,
         TypeInv, CallsInv, RunsInv, NEW k \in Cron, CronStep(k) \/ CronLost(k)
  PROVE  RunsInv'
<1>s. /\ cron \in [Cron -> Run] /\ payouts \in [Tx -> 0..MaxPayouts]
      /\ challenges \in [Challenge -> ChallengeRecord]
  BY DEF TypeInv, CronTypeOK, StoreTypeOK
<1>1. /\ UNCHANGED seenTx
      /\ \A j \in Cron \ {k} : cron'[j] = cron[j]
      /\ \A d \in Challenge : RunMoves(k, d)
      /\ RunHolding(k)
  BY RunShape
<1>r. \A d \in Challenge : Rests(d)
  BY RunRests
<1>2. ASSUME NEW d \in Challenge, Refunding(k, d)'
      PROVE  \/ challenges[d].state = "PAID" /\ challenges'[d].state = "REFUND_PENDING"
             \/ Refunding(k, d) /\ cron[k].pc = "send" /\ UNCHANGED challenges
  BY <1>2, RunPays
<1>3. ASSUME NEW j \in Cron, NEW d \in Challenge, j # k, Refunding(j, d)'
      PROVE  /\ Refunding(j, d) /\ ~ Refunding(k, d) /\ ~ Refunding(k, d)'
             /\ challenges'[d].state = "REFUND_PENDING"
  <2>1. Refunding(j, d)
    BY <1>1, <1>3 DEF Refunding
  <2>2. ~ Refunding(k, d) /\ challenges[d].state = "REFUND_PENDING"
    BY <1>3, <2>1 DEF RunsInv, RunsHold
  <2>3. ~ Refunding(k, d)'
    BY <1>2, <2>2
  <2>4. challenges'[d].state = challenges[d].state
    BY <1>1, <2>2 DEF RunMoves, Refunding
  <2> QED
    BY <2>1, <2>2, <2>3, <2>4
<1>4. RunsHold'
  <2>1. ASSUME NEW j \in Cron, NEW d \in Challenge, Refunding(j, d)'
        PROVE  challenges'[d].state = "REFUND_PENDING"
    <3>1. CASE j = k
      BY <1>2, <2>1, <3>1 DEF RunsInv, RunsHold
    <3> QED
      BY <1>3, <2>1, <3>1
  <2>2. ASSUME NEW i \in Cron, NEW j \in Cron, NEW d \in Challenge,
               Refunding(i, d)', Refunding(j, d)'
        PROVE  i = j
    <3>1. CASE i = k \/ j = k
      BY <1>3, <2>2, <3>1
    <3>2. CASE i # k /\ j # k
      BY <1>3, <2>2, <3>2 DEF RunsInv, RunsHold
    <3> QED
      BY <3>1, <3>2
  <2> QED
    BY <2>1, <2>2 DEF RunsHold
<1>5. BatchesDue'
  <2>1. ASSUME NEW s, s.challenge \in Challenge, StillDue(s)
        PROVE  /\ challenges'[s.challenge].state \in OwedStates \cup {"DELIVERED"}
               /\ challenges'[s.challenge].aged /\ challenges'[s.challenge].accessGrant = NoTx
               /\ challenges'[s.challenge].fromAddress = s.fromAddress
    BY <1>r, <2>1 DEF StillDue, Rests, SameGrant, OwedStates
  <2>2. ASSUME NEW d \in PendingForRefund, NEW s,
               s.challenge = d, s.fromAddress = challenges[d].fromAddress
        PROVE  d \in Challenge /\ StillDue(s)
    BY <2>2 DEF PendingForRefund, StillDue, OwedStates, TypeInv, StoreTypeOK
  <2>3. ASSUME NEW j \in Cron, NEW s, s \in cron'[j].batch
        PROVE  s.challenge \in Challenge /\ StillDue(s)
    <3>1. CASE j # k
      BY <1>1, <2>3, <3>1, RunRecords DEF RunsInv, BatchesDue
    <3>2. CASE j = k
      <4>1. CASE s \in cron[k].batch
        BY <4>1, RunRecords DEF RunsInv, BatchesDue
      <4>2. ASSUME NEW d \in PendingForRefund,
                   s.challenge = d, s.fromAddress = challenges[d].fromAddress
            PROVE  s.challenge \in Challenge /\ StillDue(s)
        BY <2>2, <4>2
      <4> QED
        BY <1>1, <2>3, <3>2, <4>1, <4>2 DEF RunHolding
    <3> QED
      BY <3>1, <3>2
  <2>4. ASSUME NEW j \in Cron, NEW s, s = cron'[j].current, s # NoSnapshot
        PROVE  s.challenge \in Challenge /\ StillDue(s)
    <3>1. CASE s = cron[j].current
      BY <2>4, <3>1, RunRecords DEF RunsInv, BatchesDue
    <3>2. CASE s \in cron[j].batch
      BY <3>2, RunRecords DEF RunsInv, BatchesDue
    <3> QED
      BY <1>1, <2>4, <3>1, <3>2 DEF RunHolding
  <2> QED
    BY <2>1, <2>3, <2>4 DEF BatchesDue, StillDue
<1>6. ASSUME NEW t \in Tx, NEW d \in Challenge, PaidBack(t, d) PROVE PaidBack(t, d)'
  <2>1. challenges'[d].state \in {"REFUND_PENDING", "REFUNDED"}
    BY <1>1, <1>6 DEF RunMoves, PaidBack, Refunding
  <2>2. ASSUME NEW j \in Cron, Refunding(j, d)' PROVE cron'[j].pc = "confirm"
    <3>1. j # k
      BY <1>2, <1>6, <2>2 DEF PaidBack
    <3> QED
      BY <1>1, <1>3, <1>6, <2>2, <3>1 DEF PaidBack
  <2> QED
    BY <1>1, <1>6, <2>1, <2>2 DEF RunMoves, PaidBack
<1>7. PayoutsDue'
  <2>1. CASE UNCHANGED payouts
    BY <1>6, <2>1 DEF RunsInv, PayoutsDue
  <2>2. CASE Sends(k)
    <3>1. PICK t \in Tx, c \in Challenge :
             /\ t = cron[k].current.fromAddress /\ Refunding(k, c)
             /\ challenges[c].state = "REFUND_PENDING" /\ challenges[c].txHash = t
             /\ seenTx[t] = c /\ payouts[t] = 0
      BY <2>2, SendIsDue
    <3>2. /\ payouts' = [payouts EXCEPT ![t] = 1]
          /\ UNCHANGED challenges
          /\ cron'[k].pc = "confirm"
      BY <1>s, <2>2, <3>1 DEF Sends, storeVars
    <3>3. PaidBack(t, c)'
      <4>1. ASSUME NEW j \in Cron, Refunding(j, c)' PROVE cron'[j].pc = "confirm"
        BY <1>3, <3>1, <3>2, <4>1
      <4> QED
        BY <1>1, <3>1, <3>2, <4>1 DEF PaidBack
    <3>4. ASSUME NEW u \in Tx, payouts'[u] > 0
          PROVE  payouts'[u] = 1 /\ \E d \in Challenge : PaidBack(u, d)'
      <4>1. CASE u = t
        BY <1>s, <3>2, <3>3, <4>1
      <4>2. CASE u # t
        <5>1. payouts'[u] = payouts[u]
          BY <1>s, <3>2, <4>2
        <5> QED
          BY <1>6, <3>4, <5>1 DEF RunsInv, PayoutsDue
      <4> QED
        BY <4>1, <4>2
    <3> QED
      BY <3>4 DEF PayoutsDue
  <2> QED
    BY <2>1, <2>2, RunPays
<1> QED
  BY <1>4, <1>5, <1>7 DEF RunsInv

-----------------------------------------------------------------------------
\* Every step of the gateway.

LEMMA RequeueRests ==
  ASSUME TypeInv, NEW c \in Challenge, RequeueFailed(c)
  PROVE  /\ UNCHANGED seenTx
         /\ \A d \in Challenge :
               /\ Rests(d) /\ SamePayment(d)
               /\ \/ challenges'[d].state = challenges[d].state
                  \/ challenges[d].state = "REFUND_FAILED" /\ challenges'[d].state = "PAID"
<1> DEFINE old == challenges[c]
<1>1. /\ old \in ChallengeRecord /\ Transition(c, "REFUND_FAILED", "PAID", TRUE, old)
      /\ "PAID" \in ChallengeState
  BY DEF RequeueFailed, TypeInv, StoreTypeOK, ChallengeState
<1> HIDE DEF old
<1>2. challenges[c].state = "REFUND_FAILED" /\ UNCHANGED seenTx /\ Replaced(c, "PAID", old)
  BY <1>1, TransitionRecord
<1> QED
  BY <1>2 DEF Replaced, Rests, SamePayment, SameGrant, old

\* A record ages when no call holds it.
LEMMA TimeRests ==
  ASSUME "slow_handler" \notin Faults, TypeInv, TimeMoves
  PROVE  /\ UNCHANGED seenTx
         /\ \A d \in Challenge : Rests(d) /\ challenges'[d].state = challenges[d].state
<1>s. challenges \in [Challenge -> ChallengeRecord]
  BY DEF TypeInv, StoreTypeOK
<1>1. ASSUME NEW c \in Challenge, ChallengeLapses(c)
      PROVE  /\ UNCHANGED seenTx
             /\ \A d \in Challenge : Rests(d) /\ challenges'[d].state = challenges[d].state
  BY <1>1, <1>s DEF ChallengeLapses, ChallengeRecord, Rests, SameGrant
<1>2. ASSUME NEW c \in Challenge, RouteGracePeriodPasses(c)
      PROVE  /\ UNCHANGED seenTx
             /\ \A d \in Challenge : Rests(d) /\ challenges'[d].state = challenges[d].state
  <2>1. Unheld(c)
    <3>1. ASSUME NEW h \in Handler, view[<<"plan", h>>].stage \in Owning \cup {"holds", "delivers"}
          PROVE  view[<<"plan", h>>].challenge # c
      <4>1. handler[h].pc \in AfterPaid
        BY <3>1, PlanViewed DEF PlanView, PlanStage, Owning, AfterPaid
      <4> QED
        BY <1>2, <4>1, PlanViewed DEF PlanView, RouteGracePeriodPasses, Serving
    <3>2. ASSUME NEW q \in RouteCall PROVE view[<<"route", q>>].challenge # c
      BY <1>2, RouteViewed DEF RouteView, RouteGracePeriodPasses, ServingRoute
    <3> QED
      BY <3>1, <3>2 DEF Unheld, Caller
  <2>2. PaymentAges(c)
    BY <1>2 DEF RouteGracePeriodPasses
  <2>3. /\ UNCHANGED seenTx
        /\ \A d \in Challenge :
              /\ challenges'[d].state = challenges[d].state
              /\ challenges'[d].txHash = challenges[d].txHash
              /\ challenges'[d].fromAddress = challenges[d].fromAddress
              /\ challenges'[d].accessGrant = challenges[d].accessGrant
    BY <2>2, TimePasses
  <2>4. \A d \in Challenge : /\ challenges[d].aged => challenges'[d].aged
                             /\ challenges'[d].aged => challenges[d].aged \/ d = c
    BY <1>s, <2>2 DEF PaymentAges, ChallengeRecord
  <2> QED
    BY <2>1, <2>3, <2>4 DEF Rests, SameGrant
<1>3. ASSUME NEW r \in Request, RequestKeyExpires(r)
      PROVE  UNCHANGED <<challenges, seenTx>>
  BY <1>3 DEF RequestKeyExpires
<1> QED
  BY <1>1, <1>2, <1>3 DEF TimeMoves, Rests, SameGrant

SafePayments == PlanKinds /\ CallsInv /\ RunsInv

LEMMA CallKeepsSafe ==
  ASSUME RouteTypeInv, SafePayments, PlanKinds', NEW x \in Caller, OthersStay(x), CallerMoves(x),
         UNCHANGED cronVars
  PROVE  SafePayments'
  BY CallKeepsCalls, CallKeepsRuns DEF SafePayments

LEMMA RestKeepsSafe ==
  ASSUME TypeInv, SafePayments, UNCHANGED <<engineVars, routeVars, cronVars, seenTx>>,
         \A d \in Challenge :
            /\ Rests(d)
            /\ \/ challenges'[d].state = challenges[d].state
               \/ challenges[d].state = "REFUND_FAILED" /\ challenges'[d].state = "PAID"
  PROVE  SafePayments'
<1>1. UNCHANGED <<handler, routeCall, seenTx, provided, served, settled>>
  BY DEF engineVars, routeVars
<1>2. PlanKinds'
  BY <1>1 DEF SafePayments, PlanKinds
<1>3. CallsInv'
  BY <1>1, RestKeepsCalls DEF SafePayments
<1>4. ASSUME NEW d \in Challenge
      PROVE  /\ challenges[d].state = "REFUND_PENDING" => challenges'[d].state = "REFUND_PENDING"
             /\ challenges[d].state = "REFUNDED" => challenges'[d].state = "REFUNDED"
             /\ challenges[d].state \in {"REFUND_PENDING", "REFUNDED"}
                  => challenges'[d].txHash = challenges[d].txHash
             /\ /\ challenges[d].state \in OwedStates \cup {"DELIVERED"}
                /\ challenges[d].aged /\ challenges[d].accessGrant = NoTx
                => /\ challenges'[d].state \in OwedStates \cup {"DELIVERED"}
                   /\ challenges'[d].aged /\ challenges'[d].accessGrant = NoTx
                   /\ challenges'[d].fromAddress = challenges[d].fromAddress
  BY DEF Rests, SameGrant, OwedStates
<1>5. UNCHANGED cronVars /\ RunsInv
  BY DEF SafePayments
<1>6. RunsInv'
  BY <1>4, <1>5, RunsKept
<1> QED
  BY <1>2, <1>3, <1>6 DEF SafePayments

LEMMA SafeStep ==
  ASSUME Faults \subseteq {"handler_lost", "cron_lost"}, RouteFaults \subseteq {"call_lost"},
         RouteTypeInv, IdInv, SafePayments, [Next]_vars
  PROVE  SafePayments'
<1>t. TypeInv
  BY DEF RouteTypeInv
<1>f. /\ "slow_handler" \notin Faults
      /\ "mark_lost" \notin Faults /\ "payer_unknown" \notin Faults
      /\ "receipt_timeout" \notin Faults /\ "confirm_error" \notin Faults
      /\ "delivery_lost" \notin RouteFaults
  OBVIOUS
<1>1. ASSUME NEW h \in Handler, PlanMoves(h), UNCHANGED <<routeVars, cronVars>>
      PROVE  SafePayments'
  <2>1. OthersStay(<<"plan", h>>) /\ CallerMoves(<<"plan", h>>) /\ PlanKinds'
    BY <1>1, <1>t, <1>f, PlanShape DEF routeVars, SafePayments, FaultMoves
  <2>2. <<"plan", h>> \in Caller
    BY PlanViewed DEF PlanView
  <2> QED
    BY <1>1, <2>1, <2>2, CallKeepsSafe
<1>2. ASSUME NEW q \in RouteCall, RouteAction(q),
             UNCHANGED <<deployment, handler, served, cronVars>>
      PROVE  SafePayments'
  <2>1. OthersStay(<<"route", q>>) /\ CallerMoves(<<"route", q>>)
    BY <1>2, <1>f, RouteMoves DEF IdInv, FaultMoves
  <2>2. <<"route", q>> \in Caller
    BY RouteViewed DEF RouteView
  <2>3. PlanKinds'
    BY <1>2 DEF SafePayments, PlanKinds
  <2> QED
    BY <1>2, <2>1, <2>2, <2>3, CallKeepsSafe
<1>3. ASSUME NEW k \in Cron, CronStep(k) \/ CronLost(k), UNCHANGED <<engineVars, routeVars>>
      PROVE  SafePayments'
  <2>1. UNCHANGED <<handler, routeCall, seenTx, provided, served, settled>>
    BY <1>3, <1>t, RunShape DEF engineVars, routeVars
  <2>2. PlanKinds'
    BY <2>1 DEF SafePayments, PlanKinds
  <2>3. CallsInv'
    BY <1>3, <1>t, <2>1, RunRests, RestKeepsCalls DEF SafePayments
  <2>4. RunsInv'
    BY <1>3, <1>t, <1>f, RunKeepsRuns DEF SafePayments
  <2> QED
    BY <2>2, <2>3, <2>4 DEF SafePayments
<1>4. ASSUME NEW c \in Challenge, RequeueFailed(c), UNCHANGED <<engineVars, routeVars>>
      PROVE  SafePayments'
  <2>1. UNCHANGED cronVars
    BY <1>4 DEF RequeueFailed
  <2>2. /\ UNCHANGED seenTx
        /\ \A d \in Challenge :
              /\ Rests(d)
              /\ \/ challenges'[d].state = challenges[d].state
                 \/ challenges[d].state = "REFUND_FAILED" /\ challenges'[d].state = "PAID"
    BY <1>4, <1>t, RequeueRests
  <2> QED
    BY <1>4, <1>t, <2>1, <2>2, RestKeepsSafe
<1>5. ASSUME TimeMoves, UNCHANGED <<engineVars, routeVars, cronVars>> PROVE SafePayments'
  BY <1>5, <1>t, <1>f, TimeRests, RestKeepsSafe
<1>6. ASSUME UNCHANGED vars PROVE SafePayments'
  <2>1. UNCHANGED <<engineVars, routeVars, cronVars, seenTx, challenges>>
    BY <1>6 DEF vars, storeVars
  <2> QED
    BY <1>t, <2>1, RestKeepsSafe DEF Rests, SameGrant
<1> QED
  BY <1>t, <1>1, <1>2, <1>3, <1>4, <1>5, <1>6, GatewaySteps DEF CronNext

LEMMA InitSafe == Init => SafePayments
<1> SUFFICES ASSUME Init PROVE SafePayments
  OBVIOUS
<1>1. \A d \in Challenge : /\ challenges[d].state = "ABSENT"
                           /\ challenges[d].fromAddress = challenges[d].txHash
  BY DEF Init, StoreInit, AbsentRecord
<1>2. \A h \in Handler : handler[h].kind = "none" /\ PlanStage(handler[h]) = "asks"
  BY PlanStages DEF Init, EngineInit, Idle
<1>3. \A q \in RouteCall : RouteStage(routeCall[q]) = "asks"
  BY DEF Init, RouteInit, NoCall, RouteStage
<1>4. \A x \in Caller : view[x].stage = "asks"
  BY <1>2, <1>3, PlanViewed, RouteViewed DEF PlanView, RouteView, Caller
<1>5. \A t \in Tx : provided[t] = 0 /\ served[t] = {} /\ payouts[t] = 0
  BY DEF Init, EngineInit, RouteInit, CronInit
<1>6. \A k \in Cron : cron[k].batch = {} /\ cron[k].current = NoSnapshot
  BY DEF Init, CronInit, IdleRun
<1>7. PlanKinds
  BY <1>2 DEF PlanKinds
<1>8. CallsInv
  BY <1>1, <1>4, <1>5
  DEF CallsInv, PaidUp, MarkedOnce, BoughtOnce, OwnsPaid, HoldsFresh, OwedIsMarked, BoughtIsKept,
      PayerIsSender, Bought, Owning, Marked, OwedStates
<1>9. RunsInv
  BY <1>5, <1>6 DEF RunsInv, RunsHold, Refunding, BatchesDue, PayoutsDue
<1> QED
  BY <1>7, <1>8, <1>9 DEF SafePayments

LEMMA SafeCorrect ==
  ASSUME Faults \subseteq {"handler_lost", "cron_lost"}, RouteFaults \subseteq {"call_lost"}
  PROVE  Spec => []SafePayments
<1>1. RouteTypeInv /\ IdInv /\ SafePayments /\ [Next]_vars => SafePayments'
  BY SafeStep
<1> QED
  BY <1>1, InitSafe, RouteInitType, RouteTypeStep, InitIdInv, IdInvStep, PTL DEF Spec

-----------------------------------------------------------------------------
\* One part of the invariant needs none of the others, and holds under all faults.

PurchasesInv == PlanKinds /\ MarkedOnce /\ BoughtOnce

LEMMA PurchasesStay ==
  ASSUME PurchasesInv, UNCHANGED <<handler, routeCall, seenTx, served, provided>>
  PROVE  PurchasesInv'
<1>1. UNCHANGED view
  BY ViewStays
<1> QED
  BY <1>1 DEF PurchasesInv, PlanKinds, MarkedOnce, BoughtOnce, Bought, Caller

LEMMA PurchasesStep ==
  RouteTypeInv /\ IdInv /\ PurchasesInv /\ [Next]_vars => PurchasesInv'
<1> SUFFICES ASSUME RouteTypeInv, IdInv, PurchasesInv, [Next]_vars PROVE PurchasesInv'
  OBVIOUS
<1>t. TypeInv
  BY DEF RouteTypeInv
<1>1. ASSUME NEW h \in Handler, PlanMoves(h), UNCHANGED <<routeVars, cronVars>>
      PROVE  PurchasesInv'
  <2>1. /\ OthersStay(<<"plan", h>>) /\ PlanKinds' /\ <<"plan", h>> \in Caller
        /\ CallerMoves(<<"plan", h>>) \/ FaultMoves(<<"plan", h>>)
    BY <1>1, <1>t, PlanShape, PlanViewed DEF routeVars, PurchasesInv, PlanView
  <2> QED
    BY <2>1, MarkedOnceMoves, BoughtOnceMoves DEF PurchasesInv
<1>2. ASSUME NEW q \in RouteCall, RouteAction(q),
             UNCHANGED <<deployment, handler, served, cronVars>>
      PROVE  PurchasesInv'
  <2>1. /\ OthersStay(<<"route", q>>) /\ <<"route", q>> \in Caller
        /\ CallerMoves(<<"route", q>>) \/ FaultMoves(<<"route", q>>)
    BY <1>2, RouteMoves, RouteViewed DEF IdInv, RouteView
  <2>2. PlanKinds'
    BY <1>2 DEF PurchasesInv, PlanKinds
  <2> QED
    BY <2>1, <2>2, MarkedOnceMoves, BoughtOnceMoves DEF PurchasesInv
<1>3. ASSUME NEW k \in Cron, CronStep(k) \/ CronLost(k), UNCHANGED <<engineVars, routeVars>>
      PROVE  PurchasesInv'
  BY <1>3, <1>t, RunShape, PurchasesStay DEF engineVars, routeVars
<1>4. ASSUME NEW c \in Challenge, RequeueFailed(c), UNCHANGED <<engineVars, routeVars>>
      PROVE  PurchasesInv'
  BY <1>4, <1>t, RequeueRests, PurchasesStay DEF engineVars, routeVars
<1>5. ASSUME TimeMoves, UNCHANGED <<engineVars, routeVars, cronVars>> PROVE PurchasesInv'
  <2>1. UNCHANGED seenTx
    BY <1>5, <1>t, TimePasses DEF TimeMoves, RouteGracePeriodPasses, RequestKeyExpires
  <2> QED
    BY <1>5, <2>1, PurchasesStay DEF engineVars, routeVars
<1>6. ASSUME UNCHANGED vars PROVE PurchasesInv'
  BY <1>6, PurchasesStay DEF vars, storeVars, engineVars, routeVars
<1> QED
  BY <1>t, <1>1, <1>2, <1>3, <1>4, <1>5, <1>6, GatewaySteps DEF CronNext

\* Whatever fails, in whichever deployment and however its clients mix the ways to
\* pay: a transfer buys one grant or one response (markUsed, before the seller's
\* callback in submitProof and processHttpPayment and before the backend call of
\* every route handler). The faults that make a transfer be both bought with and
\* paid back, or burn it, never make it buy twice.
THEOREM PurchasesExclude == Spec => []OnePurchase
<1>1. Init => PurchasesInv
  <2> SUFFICES ASSUME Init PROVE PurchasesInv
    OBVIOUS
  <2>1. \A h \in Handler : handler[h].kind = "none" /\ PlanStage(handler[h]) = "asks"
    BY PlanStages DEF Init, EngineInit, Idle
  <2>2. \A q \in RouteCall : RouteStage(routeCall[q]) = "asks"
    BY DEF Init, RouteInit, NoCall, RouteStage
  <2>3. \A x \in Caller : view[x].stage = "asks"
    BY <2>1, <2>2, PlanViewed, RouteViewed DEF PlanView, RouteView, Caller
  <2>4. \A t \in Tx : provided[t] = 0 /\ served[t] = {}
    BY DEF Init, EngineInit, RouteInit
  <2> QED
    BY <2>1, <2>3, <2>4 DEF PurchasesInv, PlanKinds, MarkedOnce, BoughtOnce, Bought, Marked
<1>2. PurchasesInv => OnePurchase
  <2> SUFFICES ASSUME PurchasesInv, NEW t \in Tx
               PROVE  provided[t] + Cardinality(served[t]) <= 1
    BY DEF OnePurchase
  <2>1. /\ provided[t] \in {0, 1}
        /\ provided[t] > 0 => served[t] = {}
        /\ \A c, d \in served[t] : c = d
    BY DEF PurchasesInv, BoughtOnce
  <2>2. \/ served[t] = {} /\ Cardinality(served[t]) = 0
        \/ served[t] # {} /\ Cardinality(served[t]) = 1
    <3>1. CASE served[t] = {}
      BY <3>1, FS_EmptySet
    <3>2. CASE served[t] # {}
      <4>1. PICK c \in served[t] : TRUE
        BY <3>2
      <4>2. served[t] = {c}
        BY <2>1, <4>1
      <4> QED
        BY <3>2, <4>2, FS_Singleton
    <3> QED
      BY <3>1, <3>2
  <2>3. \/ provided[t] = 0 /\ Cardinality(served[t]) \in {0, 1}
        \/ provided[t] = 1 /\ Cardinality(served[t]) = 0
    BY <2>1, <2>2
  <2> QED
    BY <2>3
<1> QED
  BY <1>1, <1>2, RouteInitType, RouteTypeStep, InitIdInv, IdInvStep, PurchasesStep, PTL DEF Spec

-----------------------------------------------------------------------------
\* The steps of the gateway, seen as outcomes of transfers.

OneOutcome ==
    \A t \in Tx :
        /\ provided[t] \in {0, 1}
        /\ provided[t] > 0 => served[t] = {}
        /\ \A c, d \in served[t] : c = d
        /\ payouts[t] \in {0, 1}
        /\ payouts[t] > 0 => ~ Bought(t)
        /\ Bought(t) \/ payouts[t] > 0 => t \in settled

OutcomeOf(t) ==
    IF Bought(t) THEN "served"
    ELSE IF payouts[t] > 0 THEN "refunded"
    ELSE IF t \in settled THEN "paid"
    ELSE "unpaid"

LEMMA OutcomesExclude == TypeInv /\ SafePayments => OneOutcome
<1> SUFFICES ASSUME TypeInv, SafePayments, NEW t \in Tx
             PROVE  /\ provided[t] \in {0, 1}
                    /\ provided[t] > 0 => served[t] = {}
                    /\ \A c, d \in served[t] : c = d
                    /\ payouts[t] \in {0, 1}
                    /\ payouts[t] > 0 => ~ Bought(t)
                    /\ Bought(t) \/ payouts[t] > 0 => t \in settled
  BY DEF OneOutcome
<1>i. /\ BoughtOnce /\ BoughtIsKept /\ PaidUp /\ OwnsPaid
      /\ PayoutsDue /\ payouts[t] \in Nat
  BY CronAssumption DEF SafePayments, CallsInv, RunsInv, TypeInv, CronTypeOK
<1>1. /\ provided[t] \in {0, 1}
      /\ provided[t] > 0 => served[t] = {}
      /\ \A c, d \in served[t] : c = d
  BY <1>i DEF BoughtOnce
<1>2. ASSUME payouts[t] > 0 PROVE payouts[t] = 1 /\ ~ Bought(t) /\ t \in settled
  <2>1. PICK d \in Challenge : PaidBack(t, d)
    BY <1>2, <1>i DEF PayoutsDue
  <2>2. challenges[d].state \in {"REFUND_PENDING", "REFUNDED"} /\ challenges[d].txHash = t
    BY <2>1 DEF PaidBack
  <2>3. ~ Claimed(d)
    BY <1>i, <2>2 DEF OwnsPaid, Owns, Owning, Claimed
  <2>4. ~ Bought(t)
    BY <1>i, <2>2, <2>3 DEF BoughtIsKept, Kept, OwedStates
  <2>5. t \in settled
    BY <1>i, <2>2 DEF PaidUp, OwedStates
  <2> QED
    BY <1>2, <1>i, <2>4, <2>5 DEF PayoutsDue
<1>3. payouts[t] \in {0, 1}
  BY <1>i, <1>2
<1>4. Bought(t) => t \in settled
  BY <1>i DEF PaidUp
<1> QED
  BY <1>1, <1>2, <1>3, <1>4

LEMMA OutcomeRead == OneOutcome => Outcome = [t \in Tx |-> OutcomeOf(t)]
<1> SUFFICES ASSUME OneOutcome, NEW t \in Tx
             PROVE  /\ ~ (provided[t] + Cardinality(served[t]) + payouts[t] > 1)
                    /\ provided[t] + Cardinality(served[t]) > 0 <=> Bought(t)
  BY DEF Outcome, OutcomeOf
<1>1. /\ provided[t] \in {0, 1} /\ payouts[t] \in {0, 1}
      /\ provided[t] > 0 => served[t] = {}
      /\ payouts[t] > 0 => ~ (provided[t] > 0) /\ served[t] = {}
  BY DEF OneOutcome, Bought
<1>2. served[t] = {} \/ \E c : served[t] = {c}
  <2>1. \A c, d \in served[t] : c = d
    BY DEF OneOutcome
  <2>2. ASSUME NEW c \in served[t] PROVE served[t] = {c}
    BY <2>1, <2>2
  <2> QED
    BY <2>2
<1>3. Cardinality({}) = 0 /\ \A c : Cardinality({c}) = 1
  BY FS_EmptySet, FS_Singleton
<1>4. \/ served[t] = {} /\ Cardinality(served[t]) = 0
      \/ served[t] # {} /\ Cardinality(served[t]) = 1
  BY <1>2, <1>3
<1> QED
  BY <1>1, <1>4 DEF Bought

OutcomeMoves(t, from, to) ==
    /\ OutcomeOf(t) = from /\ OutcomeOf(t)' = to
    /\ \A u \in Tx \ {t} : OutcomeOf(u)' = OutcomeOf(u)

OutcomeGoesOn ==
    \/ \A t \in Tx : OutcomeOf(t)' = OutcomeOf(t)
    \/ \E t \in Tx : \/ OutcomeMoves(t, "unpaid", "paid")
                     \/ OutcomeMoves(t, "paid", "served")
                     \/ OutcomeMoves(t, "paid", "refunded")

LEMMA OutcomeStays ==
  ASSUME UNCHANGED <<settled, served, provided, payouts>> PROVE OutcomeGoesOn
  BY DEF OutcomeGoesOn, OutcomeOf, Bought

\* A call moves USDC, or gives its client what a transfer pays for, and it gives
\* that but once.
LEMMA CallOutcome ==
  ASSUME RouteTypeInv, SafePayments, OneOutcome, OneOutcome',
         NEW x \in Caller, CallerMoves(x), UNCHANGED cronVars
  PROVE  OutcomeGoesOn
<1>s. /\ served \in [Tx -> SUBSET Challenge] /\ provided \in [Tx -> 0..MaxProvided]
      /\ UNCHANGED payouts /\ ViewOK /\ BoughtOnce /\ PaidUp
  BY ViewTyped
  DEF RouteTypeInv, RouteTypes, TypeInv, EngineTypeOK, cronVars, SafePayments, CallsInv
<1>b. ASSUME NEW t \in Tx, t = view[x].tx, view[x].stage \in Marked \ {"delivers"},
             UNCHANGED settled,
             \A u \in Tx \ {t} : served'[u] = served[u] /\ provided'[u] = provided[u],
             provided'[t] > 0 \/ served'[t] # {}
      PROVE  OutcomeGoesOn
  <2>1. t \in settled /\ ~ Bought(t)
    BY <1>s, <1>b DEF PaidUp, BoughtOnce, Marked
  <2>2. ~ (payouts[t] > 0)
    <3>1. payouts'[t] > 0 => ~ (provided'[t] > 0 \/ served'[t] # {})
      BY <2>1 DEF OneOutcome, Bought
    <3> QED
      BY <1>s, <1>b, <2>1, <3>1
  <2>3. OutcomeOf(t) = "paid"
    BY <2>1, <2>2 DEF OutcomeOf
  <2>4. OutcomeOf(t)' = "served"
    BY <1>b DEF OutcomeOf, Bought
  <2>5. \A u \in Tx \ {t} : OutcomeOf(u)' = OutcomeOf(u)
    BY <1>s, <1>b DEF OutcomeOf, Bought
  <2> QED
    BY <2>3, <2>4, <2>5 DEF OutcomeGoesOn, OutcomeMoves
<1>1. CASE StandsBy(x)
  <2>1. UNCHANGED <<served, provided>>
    BY <1>1 DEF StandsBy
  <2>2. CASE settled' = settled
    BY <1>s, <2>1, <2>2, OutcomeStays
  <2>3. ASSUME NEW u \in Tx, settled' = settled \cup {u} PROVE OutcomeGoesOn
    <3>1. \A v \in Tx \ {u} : OutcomeOf(v)' = OutcomeOf(v)
      BY <1>s, <2>1, <2>3 DEF OutcomeOf, Bought
    <3>2. \/ OutcomeOf(u)' = OutcomeOf(u)
          \/ OutcomeOf(u) = "unpaid" /\ OutcomeOf(u)' = "paid"
      BY <1>s, <2>1, <2>3 DEF OutcomeOf, Bought
    <3>3. CASE OutcomeOf(u)' = OutcomeOf(u)
      <4>1. \A v \in Tx : OutcomeOf(v)' = OutcomeOf(v)
        BY <3>1, <3>3
      <4> QED
        BY <4>1 DEF OutcomeGoesOn
    <3> QED
      BY <3>1, <3>2, <3>3 DEF OutcomeGoesOn, OutcomeMoves
  <2> QED
    BY <1>1, <2>2, <2>3 DEF StandsBy
<1>2. CASE HandsOut(x)
  <2>1. /\ view[x].stage \in Marked \ {"delivers"} /\ UNCHANGED <<settled, provided>>
        /\ served' = [served EXCEPT ![view[x].tx] = @ \cup {view[x].challenge}]
    BY <1>2 DEF HandsOut, Marked
  <2>2. PICK t \in Tx : t = view[x].tx
    BY <1>s, <2>1 DEF ViewOK, Marked
  <2> QED
    BY <1>s, <1>b, <2>1, <2>2
<1>3. CASE Responds(x)
  <2>1. /\ view[x].stage \in Marked \ {"delivers"} /\ UNCHANGED <<settled, served>>
        /\ provided' = [provided EXCEPT ![view[x].tx] = @ + 1]
    BY <1>3 DEF Responds, Marked
  <2>2. PICK t \in Tx : t = view[x].tx
    BY <1>s, <2>1 DEF ViewOK, Marked
  <2>3. provided'[t] > 0 /\ \A u \in Tx \ {t} : provided'[u] = provided[u]
    BY <1>s, <2>1, <2>2
  <2> QED
    BY <1>b, <2>1, <2>2, <2>3
<1>4. CASE UNCHANGED <<settled, served, provided>>
  BY <1>s, <1>4, OutcomeStays
<1> QED
  BY <1>1, <1>2, <1>3, <1>4
  DEF CallerMoves, PaysOwn, MarksFor, GivesBack, Rewrites, Closes, TurnsBack

LEMMA RunOutcome ==
  ASSUME TypeInv, SafePayments, OneOutcome, OneOutcome', NEW k \in Cron, Sends(k),
         UNCHANGED <<settled, served, provided>>
  PROVE  OutcomeGoesOn
<1>1. PICK t \in Tx : /\ t = cron[k].current.fromAddress
                      /\ payouts[t] = 0 /\ t \in settled /\ ~ Bought(t)
  BY SendIsDue DEF SafePayments
<1>2. payouts'[t] = 1 /\ \A u \in Tx \ {t} : payouts'[u] = payouts[u]
  BY <1>1 DEF Sends, TypeInv, CronTypeOK
<1>3. \A u \in Tx \ {t} : OutcomeOf(u)' = OutcomeOf(u)
  BY <1>2 DEF OutcomeOf, Bought
<1>4. OutcomeOf(t) = "paid" /\ OutcomeOf(t)' = "refunded"
  BY <1>1, <1>2 DEF OutcomeOf, Bought
<1> QED
  BY <1>3, <1>4 DEF OutcomeGoesOn, OutcomeMoves

LEMMA OutcomeStep ==
  ASSUME Faults \subseteq {"handler_lost", "cron_lost"}, RouteFaults \subseteq {"call_lost"},
         RouteTypeInv, IdInv, SafePayments, OneOutcome, OneOutcome', [Next]_vars
  PROVE  OutcomeGoesOn
<1>t. TypeInv
  BY DEF RouteTypeInv
<1>f. /\ "mark_lost" \notin Faults /\ "payer_unknown" \notin Faults
      /\ "receipt_timeout" \notin Faults /\ "confirm_error" \notin Faults
      /\ "delivery_lost" \notin RouteFaults
  OBVIOUS
<1>1. ASSUME NEW h \in Handler, PlanMoves(h), UNCHANGED <<routeVars, cronVars>>
      PROVE  OutcomeGoesOn
  <2>1. CallerMoves(<<"plan", h>>) /\ <<"plan", h>> \in Caller
    BY <1>1, <1>t, <1>f, PlanShape, PlanViewed DEF routeVars, SafePayments, PlanView, FaultMoves
  <2> QED
    BY <1>1, <2>1, CallOutcome
<1>2. ASSUME NEW q \in RouteCall, RouteAction(q),
             UNCHANGED <<deployment, handler, served, cronVars>>
      PROVE  OutcomeGoesOn
  <2>1. CallerMoves(<<"route", q>>) /\ <<"route", q>> \in Caller
    BY <1>2, <1>f, RouteMoves, RouteViewed DEF IdInv, RouteView, FaultMoves
  <2> QED
    BY <1>2, <2>1, CallOutcome
<1>3. ASSUME NEW k \in Cron, CronStep(k) \/ CronLost(k), UNCHANGED <<engineVars, routeVars>>
      PROVE  OutcomeGoesOn
  <2>1. UNCHANGED <<settled, served, provided>>
    BY <1>3 DEF engineVars, routeVars
  <2>2. UNCHANGED payouts \/ Sends(k)
    BY <1>3, <1>t, <1>f, RunPays
  <2> QED
    BY <1>t, <2>1, <2>2, OutcomeStays, RunOutcome
<1>4. ASSUME \/ \E c \in Challenge : RequeueFailed(c) /\ UNCHANGED <<engineVars, routeVars>>
             \/ TimeMoves /\ UNCHANGED <<engineVars, routeVars, cronVars>>
             \/ UNCHANGED vars
      PROVE  OutcomeGoesOn
  BY <1>4, OutcomeStays DEF RequeueFailed, engineVars, routeVars, cronVars, vars
<1> QED
  BY <1>t, <1>1, <1>2, <1>3, <1>4, GatewaySteps DEF CronNext

\* The whole gateway implements PaymentPromise: in every deployment, whichever
\* of its ways to pay a client mixes and in whatever order (plans and routes,
\* the middleware, MCP and A2A), a transfer is paid before anything comes of it
\* and then buys one grant or one response or is refunded once, never two of
\* these. Calls and runs may be lost, except where a call is between PAID and
\* the claim of the hash, or between a response and DELIVERED.
THEOREM RoutesKeepPromise ==
  ASSUME Faults \subseteq {"handler_lost", "cron_lost"}, RouteFaults \subseteq {"call_lost"}
  PROVE  Spec => RouteKeepsPromise
<1> DEFINE Read == Outcome = [t \in Tx |-> OutcomeOf(t)]
           Inv == RouteTypeInv /\ IdInv /\ SafePayments /\ OneOutcome /\ Read
<1>1. Init => Promise!Init
  <2> SUFFICES ASSUME Init PROVE Outcome = [t \in Tx |-> "unpaid"]
    BY DEF Promise!Init
  <2>1. \A t \in Tx : provided[t] = 0 /\ served[t] = {} /\ payouts[t] = 0 /\ t \notin settled
    BY DEF Init, EngineInit, RouteInit, CronInit
  <2>2. Cardinality({}) = 0
    BY FS_EmptySet
  <2>3. \A t \in Tx : /\ provided[t] + Cardinality(served[t]) + payouts[t] = 0
                      /\ provided[t] + Cardinality(served[t]) = 0
    BY <2>1, <2>2
  <2> QED
    BY <2>1, <2>3 DEF Outcome
<1>2. Inv /\ Inv' /\ [Next]_vars => [Promise!Next]_Outcome
  <2> SUFFICES ASSUME Inv, Inv', [Next]_vars PROVE [Promise!Next]_Outcome
    OBVIOUS
  <2>1. /\ Outcome = [t \in Tx |-> OutcomeOf(t)]
        /\ Outcome' = [t \in Tx |-> OutcomeOf(t)']
    OBVIOUS
  <2>2. ASSUME \A t \in Tx : OutcomeOf(t)' = OutcomeOf(t) PROVE UNCHANGED Outcome
    BY <2>1, <2>2
  <2>3. ASSUME NEW t \in Tx, NEW from, NEW to, OutcomeMoves(t, from, to)
        PROVE  Promise!Settle(t, from, to)
    BY <2>1, <2>3 DEF OutcomeMoves, Promise!Settle
  <2> QED
    BY <2>2, <2>3, OutcomeStep DEF Promise!Next, OutcomeGoesOn
<1>3. RouteTypeInv /\ SafePayments => OneOutcome /\ Read
  BY OutcomesExclude, OutcomeRead DEF RouteTypeInv
<1>4. Spec => [](RouteTypeInv /\ IdInv)
  BY RouteInitType, RouteTypeStep, InitIdInv, IdInvStep, PTL DEF Spec
<1>5. Spec => []SafePayments
  BY SafeCorrect
<1> HIDE DEF Read
<1>6. Spec => []Inv
  BY <1>3, <1>4, <1>5, PTL
<1> HIDE DEF Inv
<1> QED
  BY <1>1, <1>2, <1>6, PTL DEF Spec, RouteKeepsPromise, Promise!Spec
=============================================================================

--------------------------- MODULE ChallengeEngine ---------------------------
(***************************************************************************)
(* The challenge engine (src/core/challenge-engine.ts) and the HTTP, A2A   *)
(* and MCP handlers that drive it. A member of Handler is one in-flight call; an   *)
(* action is what the code does from one await to the next, so any two     *)
(* calls interleave at every storage, chain or seller callback.            *)
(*                                                                         *)
(*   access   requestAccess, requestHttpAccess                             *)
(*   proof    submitProof                                                  *)
(*   http     preSettlementCheck, settlePayment, processHttpPayment        *)
(*   agent    settlePayment, processHttpPayment (A2A executor, MCP tool)   *)
(*   cancel   cancelChallenge                                              *)
(*                                                                         *)
(* A call that ends without having changed anything that lasts is a step   *)
(* to idle (or is not started): which error the client sees is left out.   *)
(***************************************************************************)
EXTENDS ChallengeStore

CONSTANTS Handler

VARIABLES
    handler,    \* the locals of each in-flight call
    settled,    \* transfers that moved USDC to the seller
    served      \* the challenges whose client was given a grant for a transfer

engineVars == <<handler, settled, served>>

\* The point a call has reached is named after the await it performs next.
AwaitPoint == {"idle", "create", "expire", "seen", "verify", "settle", "find",
               "pay", "mark", "rollback", "issue", "persist", "deliver", "cancel"}

Locals == [pc        : AwaitPoint,
           kind      : {"none", "access", "proof", "http", "agent", "cancel"},
           requestId : Request \cup {NoRequest},
           challenge : Challenge \cup {NoChallenge},
           tx        : Tx \cup {NoTx}]

Idle == [pc |-> "idle", kind |-> "none", requestId |-> NoRequest,
         challenge |-> NoChallenge, tx |-> NoTx]

EngineTypeOK ==
    /\ handler \in [Handler -> Locals]
    /\ settled \in SUBSET Tx
    /\ served \in [Tx -> SUBSET Challenge]

EngineInit ==
    /\ handler = [h \in Handler |-> Idle]
    /\ settled = {}
    /\ served = [t \in Tx |-> {}]

At(h, pc) == handler[h].pc = pc

Goto(h, pc) == handler' = [handler EXCEPT ![h].pc = pc]

Return(h) == handler' = [handler EXCEPT ![h] = Idle]

\* A call that has written PAID and has not finished with that record.
AfterPaid == {"mark", "rollback", "issue", "persist", "deliver"}

Serving(h, c) == handler[h].pc \in AfterPaid /\ handler[h].challenge = c

-----------------------------------------------------------------------------
\* requestAccess and requestHttpAccess.

\* The idempotency lookup. A live PENDING challenge is returned as it is and a
\* delivered one is reported; every other record is passed over.
RequestAccess(h, r) ==
    /\ At(h, "idle")
    /\ ~ (ActiveRecord(r).state = "PENDING" /\ ~ActiveRecord(r).lapsed)
    /\ ~ Redeemed(ActiveRecord(r))
    /\ handler' = [handler EXCEPT ![h] = [Idle EXCEPT !.pc = "create",
                                                      !.kind = "access",
                                                      !.requestId = r]]
    /\ UNCHANGED <<storeVars, settled, served>>

\* store.create: the last step of an access request, and what an HTTP payment
\* does when it found no PENDING record to pay.
CreateChallenge(h, c) ==
    /\ At(h, "create")
    /\ Create(c, handler[h].requestId)
    /\ \/ handler[h].kind = "access" /\ Return(h)
       \/ /\ handler[h].kind = "http"
          /\ handler' = [handler EXCEPT ![h].pc = "pay", ![h].challenge = c]
    /\ UNCHANGED <<settled, served>>

\* The bound of the model: challengeIds are random UUIDs and never run out, the
\* members of Challenge do. A call that needs one more is dropped.
NoChallengeLeft(h) ==
    /\ At(h, "create")
    /\ \A c \in Challenge : challenges[c].state # "ABSENT"
    /\ Return(h)
    /\ UNCHANGED <<storeVars, settled, served>>

-----------------------------------------------------------------------------
\* submitProof, up to the payment.

\* The client pays on its own account, before it submits a proof.
ClientTransfers(t) ==
    /\ t \notin settled
    /\ settled' = settled \cup {t}
    /\ UNCHANGED <<storeVars, handler, served>>

\* store.get and the checks on the record it returned.
SubmitProof(h, c, t) ==
    /\ At(h, "idle")
    /\ challenges[c].state = "PENDING"
    /\ handler' = [handler EXCEPT ![h] =
                     [Idle EXCEPT !.pc = IF challenges[c].lapsed THEN "expire" ELSE "seen",
                                  !.kind = "proof", !.challenge = c, !.tx = t]]
    /\ UNCHANGED <<storeVars, settled, served>>

\* The expiry found by submitProof is written back, if the record is still
\* PENDING; the call fails either way.
ExpireChallenge(h) ==
    LET c == handler[h].challenge IN
    /\ At(h, "expire")
    /\ \/ Transition(c, "PENDING", "EXPIRED", FALSE, challenges[c])
       \/ TransitionRefused(c, "PENDING")
    /\ Return(h)
    /\ UNCHANGED <<settled, served>>

\* seenTxStore.get, the first double-spend guard of both payment paths.
CheckSeenTx(h) ==
    /\ At(h, "seen")
    /\ \/ seenTx[handler[h].tx] # NoChallenge /\ Return(h)
       \/ /\ seenTx[handler[h].tx] = NoChallenge
          /\ \/ handler[h].kind = "proof" /\ Goto(h, "verify")
             \/ handler[h].kind = "http" /\ Goto(h, "find")
    /\ UNCHANGED <<storeVars, settled, served>>

\* Mutated form of VerifyProof: a transfer not seen on chain is let through.
VerifyNothing(h) ==
    /\ At(h, "verify")
    /\ Goto(h, "pay")
    /\ UNCHANGED <<storeVars, settled, served>>

\* adapter.verifyProof finds the transfer on chain; it may also reject one that
\* is there (too late, too little, RPC trouble).
VerifyProof(h) ==
    /\ At(h, "verify")
    /\ \/ handler[h].tx \in settled /\ Goto(h, "pay")
       \/ Return(h)
    /\ UNCHANGED <<storeVars, settled, served>>

-----------------------------------------------------------------------------
\* The x402 requests over HTTP, A2A and MCP, up to the payment.

\* preSettlementCheck: settle unless the request was delivered, expired or
\* cancelled. t is the transfer the client's signed authorization makes.
PreSettlementCheck(h, r, t) ==
    /\ At(h, "idle")
    /\ ~ Redeemed(ActiveRecord(r))
    /\ ActiveRecord(r).state \notin {"EXPIRED", "CANCELLED"}
    /\ handler' = [handler EXCEPT ![h] = [Idle EXCEPT !.pc = "settle", !.kind = "http",
                                                      !.requestId = r, !.tx = t]]
    /\ UNCHANGED <<storeVars, settled, served>>

\* The A2A executor and the MCP tool settle without that check. From there on
\* the call is the same processHttpPayment.
SettleUnchecked(h, r, t) ==
    /\ At(h, "idle")
    /\ handler' = [handler EXCEPT ![h] = [Idle EXCEPT !.pc = "settle", !.kind = "agent",
                                                      !.requestId = r, !.tx = t]]
    /\ UNCHANGED <<storeVars, settled, served>>

\* settlePayment. It may succeed (a repeated settle of one authorization can be
\* answered with the same hash), fail with nothing moved, or fail after the
\* transfer was made.
SettlePayment(h) ==
    /\ At(h, "settle")
    /\ \/ /\ settled' = settled \cup {handler[h].tx}
          /\ \/ handler' = [handler EXCEPT ![h].pc = "seen", ![h].kind = "http"]
             \/ Return(h)
       \/ settled' = settled /\ Return(h)
    /\ UNCHANGED <<storeVars, served>>

\* The lookup of processHttpPayment: delivered, expired and cancelled requests
\* are refused, a PENDING record is paid, anything else gets a new record.
FindActive(h) ==
    LET rec == ActiveRecord(handler[h].requestId) IN
    /\ At(h, "find")
    /\ \/ (Redeemed(rec) \/ rec.state \in {"EXPIRED", "CANCELLED"}) /\ Return(h)
       \/ /\ rec.state = "PENDING"
          /\ handler' = [handler EXCEPT ![h].pc = "pay",
                                        ![h].challenge = requestIndex[handler[h].requestId]]
       \/ /\ ~ Redeemed(rec)
          /\ rec.state \notin {"PENDING", "EXPIRED", "CANCELLED"}
          /\ Goto(h, "create")
    /\ UNCHANGED <<storeVars, settled, served>>

-----------------------------------------------------------------------------
\* From the payment to the grant: the same steps in submitProof and
\* processHttpPayment.

\* The update written with PAID. A payer that is not known is not written, so
\* an earlier one stays in the record.
Paid(rec, t, from) ==
    [rec EXCEPT !.txHash = t, !.aged = FALSE,
                !.fromAddress = IF from = NoTx THEN rec.fromAddress ELSE from]

Payers(t) == {t} \cup (IF "payer_unknown" \in Faults THEN {NoTx} ELSE {})

\* Mutated form of PayChallenge: the record read earlier is trusted and PAID is
\* written without the compare.
PayWithoutCompare(h) ==
    LET c == handler[h].challenge
        t == handler[h].tx
    IN
    /\ At(h, "pay")
    /\ Transition(c, challenges[c].state, "PAID", TRUE, Paid(challenges[c], t, t))
    /\ Goto(h, "mark")
    /\ UNCHANGED <<settled, served>>

\* PENDING -> PAID. The loser of the race reloads the record and fails.
PayChallenge(h) ==
    LET c == handler[h].challenge
        t == handler[h].tx
    IN
    /\ At(h, "pay")
    /\ \/ /\ \E from \in Payers(t) :
                Transition(c, "PENDING", "PAID", TRUE, Paid(challenges[c], t, from))
          /\ Goto(h, "mark")
       \/ TransitionRefused(c, "PENDING") /\ Return(h)
    /\ UNCHANGED <<settled, served>>

\* Mutated form of ClaimTx: the result of markUsed is not looked at.
ClaimUnchecked(h) ==
    LET c == handler[h].challenge
        t == handler[h].tx
    IN
    /\ At(h, "mark")
    /\ \/ MarkUsed(t, c)
       \/ seenTx[t] # NoChallenge /\ UNCHANGED storeVars
    /\ Goto(h, "issue")
    /\ UNCHANGED <<settled, served>>

\* markUsed, the second double-spend guard.
ClaimTx(h) ==
    LET c == handler[h].challenge
        t == handler[h].tx
    IN
    /\ At(h, "mark")
    /\ \/ MarkUsed(t, c) /\ Goto(h, "issue")
       \/ seenTx[t] # NoChallenge /\ UNCHANGED storeVars /\ Goto(h, "rollback")
    /\ UNCHANGED <<settled, served>>

\* Mutated form of RollBack: the error is returned and the record stays PAID.
NoRollBack(h) ==
    /\ At(h, "rollback")
    /\ Return(h)
    /\ UNCHANGED <<storeVars, settled, served>>

\* PAID -> PENDING after a lost claim. No field is cleared, and the result of
\* the transition is not looked at.
RollBack(h) ==
    LET c == handler[h].challenge IN
    /\ At(h, "rollback")
    /\ \/ Transition(c, "PAID", "PENDING", FALSE, challenges[c])
       \/ TransitionRefused(c, "PAID")
    /\ Return(h)
    /\ UNCHANGED <<settled, served>>

\* issueTokenWithRetry: the seller's callback yields a credential within its
\* attempts and timeouts, or the call fails and the record is left PAID.
IssueToken(h) ==
    /\ At(h, "issue")
    /\ \/ Goto(h, "persist")
       \/ Return(h)
    /\ UNCHANGED <<storeVars, settled, served>>

\* PAID -> PAID with the grant. The result is not looked at.
PersistGrant(h) ==
    LET c == handler[h].challenge IN
    /\ At(h, "persist")
    /\ \/ Transition(c, "PAID", "PAID", FALSE,
                     [challenges[c] EXCEPT !.accessGrant = handler[h].tx])
       \/ TransitionRefused(c, "PAID")
    /\ Goto(h, "deliver")
    /\ UNCHANGED <<settled, served>>

\* PAID -> DELIVERED, then the grant is returned to the client. Neither a
\* refused transition nor an error thrown by it keeps the grant back.
Deliver(h) ==
    LET c == handler[h].challenge IN
    /\ At(h, "deliver")
    /\ \/ Transition(c, "PAID", "DELIVERED", FALSE, challenges[c])
       \/ TransitionRefused(c, "PAID")
       \/ "handler_lost" \in Faults /\ UNCHANGED storeVars
    /\ served' = [served EXCEPT ![handler[h].tx] = @ \cup {c}]
    /\ Return(h)
    /\ UNCHANGED settled

-----------------------------------------------------------------------------
\* cancelChallenge.

CancelRequest(h, c) ==
    /\ At(h, "idle")
    /\ challenges[c].state = "PENDING"
    /\ handler' = [handler EXCEPT ![h] = [Idle EXCEPT !.pc = "cancel", !.kind = "cancel",
                                                      !.challenge = c]]
    /\ UNCHANGED <<storeVars, settled, served>>

CancelChallenge(h) ==
    LET c == handler[h].challenge IN
    /\ At(h, "cancel")
    /\ \/ Transition(c, "PENDING", "CANCELLED", FALSE, challenges[c])
       \/ TransitionRefused(c, "PENDING")
    /\ Return(h)
    /\ UNCHANGED <<settled, served>>

-----------------------------------------------------------------------------
\* A storage call that throws, or a process that dies, ends the call where it
\* is; what it has written stays.
HandlerLost(h) ==
    /\ ~ At(h, "idle")
    /\ IF handler[h].pc \in {"mark", "rollback"} THEN "mark_lost" \in Faults
                                                 ELSE "handler_lost" \in Faults
    /\ Return(h)
    /\ UNCHANGED <<storeVars, settled, served>>

\* The steps a call takes once it has begun, faults apart.
HandlerStep(h) ==
    \/ \E c \in Challenge : CreateChallenge(h, c)
    \/ NoChallengeLeft(h)
    \/ ExpireChallenge(h)
    \/ CheckSeenTx(h)
    \/ VerifyProof(h)
    \/ SettlePayment(h)
    \/ FindActive(h)
    \/ PayChallenge(h)
    \/ ClaimTx(h)
    \/ RollBack(h)
    \/ IssueToken(h)
    \/ PersistGrant(h)
    \/ Deliver(h)
    \/ CancelChallenge(h)

\* The calls a client may make.
ClientCall(h) ==
    \/ \E r \in Request : RequestAccess(h, r)
    \/ \E c \in Challenge, t \in Tx : SubmitProof(h, c, t)
    \/ \E r \in Request, t \in Tx : PreSettlementCheck(h, r, t) \/ SettleUnchecked(h, r, t)
    \/ \E c \in Challenge : CancelRequest(h, c)

EngineNext ==
    \/ \E h \in Handler : ClientCall(h) \/ HandlerStep(h) \/ HandlerLost(h)
    \/ \E t \in Tx : ClientTransfers(t)
=============================================================================

---------------------------- MODULE TokenIssuance ----------------------------
(***************************************************************************)
(* One call of issueTokenWithRetry (src/core/challenge-engine.ts) and the  *)
(* three things it may call: a callback of the seller in this process, the *)
(* remote issuer (src/helpers/remote.ts) and the issuer of the standalone  *)
(* server (src/helpers/docker-token-issuer.ts). ChallengeEngine takes it   *)
(* for one step that yields a credential or fails; here the attempts that  *)
(* were given up go on at the seller, as nothing stops them there.         *)
(***************************************************************************)
EXTENDS Naturals

CONSTANTS MaxAttempt    \* 1 + tokenIssueRetries

ASSUME AttemptAssumption == MaxAttempt \in Nat \ {0}

VARIABLES
    issuer,     \* what fetchResourceCredentials is
    issuing,    \* the state of the call
    attempt,    \* its current attempt
    seller,     \* what has become of each attempt at the seller
    cutOff      \* attempts whose connection broke, or was aborted

issueVars == <<issuer, issuing, attempt, seller, cutOff>>

Attempt == 1..MaxAttempt

IssueTypeOK ==
    /\ issuer \in {"callback", "remote", "docker"}
    /\ issuing \in {"idle", "calling", "pause", "token", "failed"}
    /\ attempt \in Attempt
    /\ seller \in [Attempt -> {"none", "running", "issued", "refused"}]
    /\ cutOff \in SUBSET Attempt

IssueInit ==
    /\ issuer \in {"callback", "remote", "docker"}
    /\ issuing = "idle"
    /\ attempt = 1
    /\ seller = [a \in Attempt |-> "none"]
    /\ cutOff = {}

\* The seller works on every attempt that has reached it.
SellerAnswers(a) ==
    /\ seller[a] = "running"
    /\ \E answer \in {"issued", "refused"} : seller' = [seller EXCEPT ![a] = answer]
    /\ UNCHANGED <<issuer, issuing, attempt, cutOff>>

StartAttempt ==
    /\ issuing \in {"idle", "pause"}
    /\ issuing' = "calling"
    /\ seller' = [seller EXCEPT ![attempt] = "running"]
    /\ UNCHANGED <<issuer, attempt, cutOff>>

\* The catch of an error that is not TOKEN_ISSUE_TIMEOUT.
RetryOrFail ==
    \/ attempt < MaxAttempt /\ issuing' = "pause" /\ attempt' = attempt + 1
    \/ attempt = MaxAttempt /\ issuing' = "failed" /\ UNCHANGED attempt

TokenReturned ==
    /\ issuing = "calling" /\ seller[attempt] = "issued"
    /\ issuing' = "token"
    /\ UNCHANGED <<issuer, attempt, seller, cutOff>>

\* The seller refuses (a rejected promise, a status that is no success).
SellerRefused ==
    /\ issuing = "calling" /\ seller[attempt] = "refused"
    /\ RetryOrFail
    /\ UNCHANGED <<issuer, seller, cutOff>>

\* The connection to a seller in another process breaks.
ConnectionLost ==
    /\ issuing = "calling" /\ issuer # "callback"
    /\ RetryOrFail
    /\ cutOff' = cutOff \cup {attempt}
    /\ UNCHANGED <<issuer, seller>>

\* The 10 s abort of the standalone issuer, which reaches issueTokenWithRetry as
\* an ordinary error.
DockerAbort ==
    /\ issuing = "calling" /\ issuer = "docker"
    /\ RetryOrFail
    /\ cutOff' = cutOff \cup {attempt}
    /\ UNCHANGED <<issuer, seller>>

\* Mutated form of IssueTimeout: a timeout is an error like any other.
RetryAfterTimeout ==
    /\ issuing = "calling"
    /\ RetryOrFail
    /\ UNCHANGED <<issuer, seller, cutOff>>

\* Mutated form of IssueTimeout: the callback is awaited without a race.
NoTimeout == FALSE /\ UNCHANGED issueVars

\* TOKEN_ISSUE_TIMEOUT, from the race with tokenIssueTimeoutMs or from the abort
\* of the remote issuer: never retried.
IssueTimeout ==
    /\ issuing = "calling"
    /\ issuing' = "failed"
    /\ UNCHANGED <<issuer, attempt, seller, cutOff>>

IssueStep ==
    StartAttempt \/ TokenReturned \/ SellerRefused \/ ConnectionLost \/ DockerAbort
        \/ IssueTimeout

IssueNext == IssueStep \/ \E a \in Attempt : SellerAnswers(a)

IssueSpec == IssueInit /\ [][IssueNext]_issueVars

\* The call goes on and its timer fires; the seller may be silent for ever.
IssueFairness == WF_issueVars(StartAttempt) /\ WF_issueVars(IssueTimeout)

-----------------------------------------------------------------------------
\* "retrying would risk duplicate token issuance": no attempt is started while
\* an earlier one runs on at the seller, unless its connection broke. (The
\* standalone issuer is one that aborts attempts and has them retried.)
NoAttemptBesideAnother ==
    \A a \in Attempt :
        a < attempt /\ seller[a] = "running" => a \in cutOff /\ issuer # "callback"

\* A seller that never answers does not keep the payment call waiting.
IssueEnds == issuing = "calling" ~> issuing \in {"token", "failed"}
=============================================================================

--------------------------- MODULE MCInfrastructure ---------------------------
(***************************************************************************)
(* What lies under the engine and beside it, for TLC: the parts share no   *)
(* variable, so each behaviour runs one of them and leaves the others in   *)
(* one of their initial states. The states of the run are the sum of the   *)
(* parts' states, not their product.                                       *)
(***************************************************************************)
EXTENDS Settlement, RedisKeys, PostgresRows, TokenIssuance, OAuthCache,
        StandaloneSetup, RefundSchedule, VerifyTransfer

CONSTANTS Wallet, Second    \* the members of Task

VARIABLES part      \* the part that runs

vars == <<part, settleVars, keyVars, pgVars, issueVars, oauthVars, setupVars,
          scheduleVars, verifyVars>>

Part == {"settlement", "redis", "postgres", "issuance", "oauth", "setup", "schedule",
         "proof"}

\* The kinds of two calls, with the Redis lock or the queue of one process: two
\* settlements, a refund beside a settlement with the same wallet, or beside one
\* through the facilitator.
TwoCalls ==
    <<task[Wallet].kind, task[Second].kind, redis>> \in
        {<<"wallet", "wallet", TRUE>>, <<"wallet", "refund", TRUE>>,
         <<"wallet", "refund", FALSE>>, <<"facilitator", "refund", FALSE>>}

\* The initial state of a part that does not run is chosen once and for all. A
\* container is given no settings, or all of them.
Init ==
    /\ part \in Part
    /\ SettleInit /\ TwoCalls
    /\ KeysInit /\ PgInit /\ IssueInit /\ OAuthInit /\ SetupInit /\ ScheduleInit
    /\ VerifyInit
    /\ part # "settlement" => redis /\ task[Wallet].kind = "wallet" /\ task[Second].kind = "wallet"
    /\ part # "issuance" => issuer = "callback"
    /\ given \in IF part = "setup" THEN {{}, Setting} ELSE {{}}
    /\ part # "schedule" =>
          \A i \in Instance : replica[i].every = CHOOSE every \in Interval : TRUE
    /\ part # "proof" => transaction.events = << >> /\ transaction.reverted /\ transaction.inTime

Runs(p) == part = p /\ UNCHANGED part

Next ==
    \/ /\ Runs("settlement") /\ SettleNext
       /\ UNCHANGED <<keyVars, pgVars, issueVars, oauthVars, setupVars,
                      scheduleVars, verifyVars>>
    \/ /\ Runs("redis") /\ KeysNext
       /\ UNCHANGED <<settleVars, pgVars, issueVars, oauthVars, setupVars,
                      scheduleVars, verifyVars>>
    \/ /\ Runs("postgres") /\ PgNext
       /\ UNCHANGED <<settleVars, keyVars, issueVars, oauthVars, setupVars,
                      scheduleVars, verifyVars>>
    \/ /\ Runs("issuance") /\ IssueNext
       /\ UNCHANGED <<settleVars, keyVars, pgVars, oauthVars, setupVars,
                      scheduleVars, verifyVars>>
    \/ /\ Runs("oauth") /\ OAuthNext
       /\ UNCHANGED <<settleVars, keyVars, pgVars, issueVars, setupVars,
                      scheduleVars, verifyVars>>
    \/ /\ Runs("setup") /\ SetupNext
       /\ UNCHANGED <<settleVars, keyVars, pgVars, issueVars, oauthVars,
                      scheduleVars, verifyVars>>
    \/ /\ Runs("schedule") /\ ScheduleNext
       /\ UNCHANGED <<settleVars, keyVars, pgVars, issueVars, oauthVars,
                      setupVars, verifyVars>>
    \/ /\ Runs("proof") /\ VerifyNext
       /\ UNCHANGED <<settleVars, keyVars, pgVars, issueVars, oauthVars,
                      setupVars, scheduleVars>>

\* SettleFairness, KeysFairness and IssueFairness, of the part that runs.
Fairness ==
    /\ \A t \in Task : WF_settleVars(part = "settlement" /\ task[t].left = 0 /\ TaskStep(t))
    /\ WF_settleVars(part = "settlement" /\ Tick)
    /\ \A u \in Client : WF_keyVars(part = "redis" /\ ClientStep(u))
    /\ WF_issueVars(part = "issuance" /\ StartAttempt)
    /\ WF_issueVars(part = "issuance" /\ IssueTimeout)

Spec == Init /\ [][Next]_vars /\ Fairness

InfrastructureTypeOK ==
    /\ SettleTypeOK /\ KeysTypeOK /\ PgTypeOK /\ IssueTypeOK
    /\ OAuthTypeOK /\ SetupTypeOK /\ ScheduleTypeOK /\ VerifyTypeOK
=============================================================================

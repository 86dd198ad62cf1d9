------------------------------ MODULE OAuthCache ------------------------------
(***************************************************************************)
(* oauthClientCredentialsAuth (src/helpers/auth.ts): one cached token,     *)
(* refreshed by whichever calls find it too old. Calls overlap, each with  *)
(* a token request of its own, and the answers come in any order. Time     *)
(* runs in ticks of 10 s: the buffer, and the time a token request has     *)
(* until its headers are there. Reading the body has no limit.             *)
(***************************************************************************)
EXTENDS Integers

CONSTANTS
    Caller,
    TokenLife,  \* expires_in
    LastTick    \* bound on the clock

\* A token lives longer than its request and the request it is used for.
ASSUME OAuthAssumption == TokenLife \in Nat /\ TokenLife > 2 /\ LastTick \in Nat

VARIABLES
    clock,
    cache,      \* what is cached: when the token really expires, and expiresAt
    caller      \* the locals of each call

oauthVars == <<clock, cache, caller>>

Instant == 0 .. LastTick + TokenLife

\* asked is now, read at the start of the call; expiry is when the token the
\* call has got, or is about to get, really expires.
OAuthTypeOK ==
    /\ clock \in 0..LastTick
    /\ cache \in [expiry : Instant, expiresAt : Instant]
    /\ caller \in [Caller -> [pc    : {"idle", "asking", "issued", "reading", "cached", "fresh"},
                              asked : 0..LastTick, since : 0..LastTick,
                              expiry : Instant]]

OAuthInit ==
    /\ clock = 0
    /\ cache = [expiry |-> 0, expiresAt |-> 0]
    /\ caller = [u \in Caller |-> [pc |-> "idle", asked |-> 0, since |-> 0, expiry |-> 0]]

\* The call goes on to the backend with a token from the cache, or a fresh one.
UseToken(u, origin, expiry) ==
    caller' = [caller EXCEPT ![u] = [pc |-> origin, asked |-> @.asked,
                                     since |-> clock, expiry |-> expiry]]

CachedToken(u) ==
    /\ caller[u].pc = "idle"
    /\ clock < cache.expiresAt - 1
    /\ UseToken(u, "cached", cache.expiry)
    /\ UNCHANGED <<clock, cache>>

AskToken(u) ==
    /\ caller[u].pc = "idle"
    /\ clock >= cache.expiresAt - 1
    /\ caller' = [caller EXCEPT ![u] = [pc |-> "asking", asked |-> clock,
                                        since |-> clock, expiry |-> @.expiry]]
    /\ UNCHANGED <<clock, cache>>

\* External: the authorization server issues a token.
ServerIssues(u) ==
    /\ caller[u].pc = "asking"
    /\ caller' = [caller EXCEPT ![u] = [pc |-> "issued", asked |-> @.asked,
                                        since |-> @.since, expiry |-> clock + TokenLife]]
    /\ UNCHANGED <<clock, cache>>

\* fetch() resolves, and the timer is cleared.
HeadersArrive(u) ==
    /\ caller[u].pc = "issued"
    /\ caller' = [caller EXCEPT ![u].pc = "reading"]
    /\ UNCHANGED <<clock, cache>>

\* Mutated form of TokenArrives: the life of the token is counted from its arrival.
TokenArrivesAnew(u) ==
    /\ caller[u].pc = "reading"
    /\ cache' = [expiry |-> caller[u].expiry, expiresAt |-> clock + TokenLife]
    /\ UseToken(u, "fresh", caller[u].expiry)
    /\ UNCHANGED clock

\* The body, at any later time: the cache is overwritten, also if a later answer
\* has been there, and its token is handed out without a look at its age.
TokenArrives(u) ==
    /\ caller[u].pc = "reading"
    /\ cache' = [expiry |-> caller[u].expiry, expiresAt |-> caller[u].asked + TokenLife]
    /\ UseToken(u, "fresh", caller[u].expiry)
    /\ UNCHANGED clock

\* The abort after 10 s, an error, or the end of the request the token was for.
CallerEnds(u) ==
    /\ caller[u].pc # "idle"
    /\ caller' = [caller EXCEPT ![u] = [pc |-> "idle", asked |-> 0, since |-> 0, expiry |-> 0]]
    /\ UNCHANGED <<clock, cache>>

\* A token request without headers is aborted after one tick; the backend looks at
\* a token within a tick of its being handed out.
ClockTicks ==
    /\ clock < LastTick
    /\ \A u \in Caller : caller[u].pc \notin {"idle", "reading"} => caller[u].since = clock
    /\ clock' = clock + 1
    /\ UNCHANGED <<cache, caller>>

OAuthNext ==
    \/ \E u \in Caller : CachedToken(u) \/ AskToken(u) \/ ServerIssues(u) \/ HeadersArrive(u)
                            \/ TokenArrives(u) \/ CallerEnds(u)
    \/ ClockTicks

OAuthSpec == OAuthInit /\ [][OAuthNext]_oauthVars

-----------------------------------------------------------------------------
\* A token from the cache is alive when the backend sees it, however token requests
\* overlap, wait for their answers and overwrite each other's: expiresAt is counted
\* from before the token request, and 10 s early. One that was just fetched is so
\* if the whole of its answer was there before that; nothing in the code asks.
TokenOutlivesItsUse ==
    \A u \in Caller :
        LET readInTime == caller[u].since < caller[u].asked + TokenLife - 1 IN
        caller[u].pc = "cached" \/ (caller[u].pc = "fresh" /\ readInTime)
            => clock < caller[u].expiry
=============================================================================

------------------------ MODULE InfrastructureProofs -------------------------
(***************************************************************************)
(* What lies beside the engine: issueTokenWithRetry for any number of      *)
(* attempts, the OAuth token cache for any number of overlapping calls and *)
(* any lifetime of tokens, and the standalone server with its settings     *)
(* over saves and restarts and the refund job its replicas share.          *)
(***************************************************************************)
EXTENDS MCInfrastructure, SettlementProofs, StoreProofs

-----------------------------------------------------------------------------
(* Token issuance.                                                         *)

IssueInv == IssueTypeOK /\ NoAttemptBesideAnother

LEMMA IssueInit_Inv == IssueInit => IssueInv
  BY AttemptAssumption DEF IssueInit, IssueInv, IssueTypeOK, NoAttemptBesideAnother, Attempt

\* The attempt that ends is no longer running, or its connection was cut; only
\* then does the count go up.
LEMMA RetryOrFail_Inv ==
  ASSUME IssueInv, RetryOrFail, UNCHANGED <<issuer, seller>>,
         \/ seller[attempt] = "refused" /\ UNCHANGED cutOff
         \/ issuer # "callback" /\ cutOff' = cutOff \cup {attempt}
  PROVE  IssueInv'
<1>1. attempt' \in Attempt /\ issuing' \in {"pause", "failed"} /\ attempt' \in {attempt, attempt + 1}
  BY AttemptAssumption DEF RetryOrFail, IssueInv, IssueTypeOK, Attempt
<1>2. IssueTypeOK'
  BY <1>1 DEF IssueInv, IssueTypeOK
<1>3. ASSUME NEW a \in Attempt, a < attempt', seller[a] = "running"
      PROVE  a \in cutOff' /\ issuer # "callback"
  <2>1. a < attempt \/ a = attempt
    BY <1>1, <1>3 DEF Attempt, IssueInv, IssueTypeOK
  <2> QED
    BY <1>3, <2>1 DEF IssueInv, NoAttemptBesideAnother
<1> QED
  BY <1>2, <1>3 DEF IssueInv, NoAttemptBesideAnother

LEMMA IssueNext_Inv == IssueInv /\ [IssueNext]_issueVars => IssueInv'
<1> SUFFICES ASSUME IssueInv, [IssueNext]_issueVars PROVE IssueInv'
  OBVIOUS
<1> USE DEF Attempt
<1>1. CASE StartAttempt
  BY <1>1 DEF StartAttempt, IssueInv, IssueTypeOK, NoAttemptBesideAnother
<1>2. CASE TokenReturned
  BY <1>2 DEF TokenReturned, IssueInv, IssueTypeOK, NoAttemptBesideAnother
<1>3. CASE SellerRefused
  BY <1>3, RetryOrFail_Inv DEF SellerRefused
<1>4. CASE ConnectionLost
  BY <1>4, RetryOrFail_Inv DEF ConnectionLost
<1>5. CASE DockerAbort
  BY <1>5, RetryOrFail_Inv DEF DockerAbort
<1>6. CASE IssueTimeout
  BY <1>6 DEF IssueTimeout, IssueInv, IssueTypeOK, NoAttemptBesideAnother
<1>7. ASSUME NEW a \in Attempt, SellerAnswers(a) PROVE IssueInv'
  BY <1>7 DEF SellerAnswers, IssueInv, IssueTypeOK, NoAttemptBesideAnother
<1>8. CASE UNCHANGED issueVars
  BY <1>8 DEF issueVars, IssueInv, IssueTypeOK, NoAttemptBesideAnother
<1> QED
  BY <1>1, <1>2, <1>3, <1>4, <1>5, <1>6, <1>7, <1>8 DEF IssueNext, IssueStep

\* "retrying would risk duplicate token issuance" (challenge-engine.ts:87): no
\* attempt runs beside one of the seller's that may still succeed, however many
\* retries are configured, unless the connection to the earlier one was cut.
THEOREM AttemptsExclude == IssueSpec => []NoAttemptBesideAnother
<1>1. IssueInv => NoAttemptBesideAnother
  BY DEF IssueInv
<1> QED
  BY <1>1, IssueInit_Inv, IssueNext_Inv, PTL DEF IssueSpec

-----------------------------------------------------------------------------
(* The OAuth token cache.                                                  *)

\* expiresAt is never later than the real end of the cached token.
CacheIsEarly == cache.expiresAt <= cache.expiry

\* How old a call may be, and what its token is worth.
CallerInv ==
    \A u \in Caller :
        /\ caller[u].asked <= clock
        /\ caller[u].pc \notin {"idle", "reading"} =>
              caller[u].since <= clock /\ clock <= caller[u].since + 1
        /\ caller[u].pc \in {"issued", "reading", "fresh"} =>
              caller[u].asked + TokenLife <= caller[u].expiry
        /\ caller[u].pc = "cached" => caller[u].since + 1 < caller[u].expiry

OAuthInv == OAuthTypeOK /\ CacheIsEarly /\ CallerInv

LEMMA OAuthInit_Inv == OAuthInit => OAuthInv
  BY OAuthAssumption
  DEF OAuthInit, OAuthInv, OAuthTypeOK, CacheIsEarly, CallerInv, Instant

\* What a step may leave in the locals of a call.
LocalOK(l) ==
    /\ l.asked <= clock
    /\ l.pc \notin {"idle", "reading"} => l.since <= clock /\ clock <= l.since + 1
    /\ l.pc \in {"issued", "reading", "fresh"} => l.asked + TokenLife <= l.expiry
    /\ l.pc = "cached" => l.since + 1 < l.expiry

Locals == [pc    : {"idle", "asking", "issued", "reading", "cached", "fresh"},
           asked : 0..LastTick, since : 0..LastTick, expiry : Instant]

CacheOK(c) == c \in [expiry : Instant, expiresAt : Instant] /\ c.expiresAt <= c.expiry

\* A step of u does not disturb the other calls: its locals and the cache decide.
LEMMA OneCall ==
  ASSUME OAuthInv, NEW u \in Caller, NEW l \in Locals, LocalOK(l),
         caller' = [caller EXCEPT ![u] = l], clock' = clock, CacheOK(cache')
  PROVE  OAuthInv'
<1>1. caller' \in [Caller -> Locals] /\ caller'[u] = l
      /\ \A v \in Caller \ {u} : caller'[v] = caller[v]
  BY DEF OAuthInv, OAuthTypeOK, Locals
<1>2. OAuthTypeOK' /\ CacheIsEarly'
  BY <1>1 DEF OAuthInv, OAuthTypeOK, CacheIsEarly, CacheOK, Locals
<1>3. CallerInv'
  BY <1>1 DEF OAuthInv, CallerInv, LocalOK
<1> QED
  BY <1>2, <1>3 DEF OAuthInv

\* What the invariant says of one call, field by field.
LEMMA CallFacts ==
  ASSUME OAuthInv, NEW u \in Caller
  PROVE  /\ clock \in 0..LastTick /\ clock \in Nat /\ TokenLife \in Nat /\ LastTick \in Nat
         /\ clock \in Instant /\ clock + TokenLife \in Instant
         /\ caller[u].pc \in {"idle", "asking", "issued", "reading", "cached", "fresh"}
         /\ caller[u].asked \in 0..LastTick /\ caller[u].since \in 0..LastTick
         /\ caller[u].expiry \in Instant
         /\ CacheOK(cache) /\ LocalOK(caller[u])
         /\ cache.expiry \in Instant /\ cache.expiresAt \in Instant
         /\ caller \in [Caller -> Locals] /\ caller[u] \in Locals
<1>1. /\ clock \in 0..LastTick /\ TokenLife \in Nat /\ LastTick \in Nat
      /\ caller \in [Caller -> Locals] /\ CacheOK(cache)
  BY OAuthAssumption
  DEF OAuthInv, OAuthTypeOK, CacheIsEarly, CacheOK, Locals
<1>2. caller[u] \in Locals
  BY <1>1
<1>3. clock \in Nat /\ clock \in Instant /\ clock + TokenLife \in Instant
  BY <1>1 DEF Instant
<1>4. LocalOK(caller[u])
  BY DEF OAuthInv, CallerInv, LocalOK
<1> QED
  BY <1>1, <1>2, <1>3, <1>4 DEF Locals, CacheOK

LEMMA CallStep ==
  ASSUME OAuthInv, NEW u \in Caller,
         CachedToken(u) \/ AskToken(u) \/ ServerIssues(u) \/ HeadersArrive(u)
            \/ TokenArrives(u) \/ CallerEnds(u)
  PROVE  OAuthInv'
<1>1. CASE CachedToken(u)
  <2> DEFINE l == [pc |-> "cached", asked |-> caller[u].asked, since |-> clock,
                   expiry |-> cache.expiry]
  <2>1. caller' = [caller EXCEPT ![u] = l] /\ UNCHANGED <<clock, cache>>
    BY <1>1, CallFacts DEF CachedToken, UseToken
  <2>2. l \in Locals
    BY CallFacts DEF Locals
  <2>3. LocalOK(l)
    <3>1. clock < cache.expiresAt - 1 /\ cache.expiresAt <= cache.expiry
          /\ caller[u].asked <= clock
      BY <1>1, CallFacts DEF CachedToken, CacheOK, LocalOK
    <3>2. clock + 1 < cache.expiry /\ clock <= clock + 1
      BY <3>1, CallFacts DEF Instant
    <3> QED
      BY <3>1, <3>2, CallFacts DEF LocalOK
  <2>4. CacheOK(cache')
    BY <2>1, CallFacts
  <2> HIDE DEF l
  <2> QED
    BY <2>1, <2>2, <2>3, <2>4, OneCall
<1>2. CASE AskToken(u)
  <2> DEFINE l == [pc |-> "asking", asked |-> clock, since |-> clock,
                   expiry |-> caller[u].expiry]
  <2>1. caller' = [caller EXCEPT ![u] = l] /\ UNCHANGED <<clock, cache>>
    BY <1>2, CallFacts DEF AskToken, Locals
  <2>2. l \in Locals
    BY CallFacts DEF Locals
  <2>3. LocalOK(l)
    BY CallFacts DEF LocalOK
  <2>4. CacheOK(cache')
    BY <2>1, CallFacts
  <2> HIDE DEF l
  <2> QED
    BY <2>1, <2>2, <2>3, <2>4, OneCall
<1>3. CASE ServerIssues(u)
  <2> DEFINE l == [pc |-> "issued", asked |-> caller[u].asked, since |-> caller[u].since,
                   expiry |-> clock + TokenLife]
  <2>1. caller' = [caller EXCEPT ![u] = l] /\ UNCHANGED <<clock, cache>>
    BY <1>3, CallFacts DEF ServerIssues, Locals
  <2>2. l \in Locals
    BY CallFacts DEF Locals
  <2>3. LocalOK(l)
    <3>1. /\ caller[u].asked <= clock
          /\ caller[u].since <= clock /\ clock <= caller[u].since + 1
      BY <1>3, CallFacts DEF ServerIssues, LocalOK
    <3>2. caller[u].asked + TokenLife <= clock + TokenLife
      BY <3>1, CallFacts
    <3> QED
      BY <3>1, <3>2 DEF LocalOK
  <2>4. CacheOK(cache')
    BY <2>1, CallFacts
  <2> HIDE DEF l
  <2> QED
    BY <2>1, <2>2, <2>3, <2>4, OneCall
<1>6. CASE HeadersArrive(u)
  <2> DEFINE l == [caller[u] EXCEPT !.pc = "reading"]
  <2>1. caller' = [caller EXCEPT ![u] = l] /\ UNCHANGED <<clock, cache>>
    BY <1>6, CallFacts DEF HeadersArrive, Locals
  <2>2. l \in Locals
    BY CallFacts DEF Locals
  <2>3. LocalOK(l)
    <3>1. caller[u].asked <= clock /\ caller[u].asked + TokenLife <= caller[u].expiry
      BY <1>6, CallFacts DEF HeadersArrive, LocalOK
    <3> QED
      BY <3>1, CallFacts DEF LocalOK, Locals
  <2>4. CacheOK(cache')
    BY <2>1, CallFacts
  <2> HIDE DEF l
  <2> QED
    BY <2>1, <2>2, <2>3, <2>4, OneCall
<1>4. CASE TokenArrives(u)
  <2> DEFINE l == [pc |-> "fresh", asked |-> caller[u].asked, since |-> clock,
                   expiry |-> caller[u].expiry]
  <2>1. /\ caller' = [caller EXCEPT ![u] = l] /\ clock' = clock
        /\ cache' = [expiry |-> caller[u].expiry, expiresAt |-> caller[u].asked + TokenLife]
    BY <1>4, CallFacts DEF TokenArrives, UseToken
  <2>2. l \in Locals
    BY CallFacts DEF Locals
  <2>3. /\ caller[u].asked <= clock
        /\ caller[u].asked + TokenLife <= caller[u].expiry
    BY <1>4, CallFacts DEF TokenArrives, LocalOK
  <2>4. LocalOK(l)
    BY <2>3, CallFacts DEF LocalOK
  <2>5. caller[u].asked + TokenLife \in Instant
    BY CallFacts DEF Instant
  <2>6. CacheOK(cache')
    BY <2>1, <2>3, <2>5, CallFacts DEF CacheOK
  <2> HIDE DEF l
  <2> QED
    BY <2>1, <2>2, <2>4, <2>6, OneCall
<1>5. CASE CallerEnds(u)
  <2> DEFINE l == [pc |-> "idle", asked |-> 0, since |-> 0, expiry |-> 0]
  <2>1. caller' = [caller EXCEPT ![u] = l] /\ UNCHANGED <<clock, cache>>
    BY <1>5 DEF CallerEnds
  <2>2. l \in Locals
    BY CallFacts DEF Locals, Instant
  <2>3. LocalOK(l)
    BY CallFacts DEF LocalOK
  <2>4. CacheOK(cache')
    BY <2>1, CallFacts
  <2> HIDE DEF l
  <2> QED
    BY <2>1, <2>2, <2>3, <2>4, OneCall
<1> QED
  BY <1>1, <1>2, <1>3, <1>4, <1>5, <1>6

\* Every call that is not reading is as young as the clock when it ticks.
LEMMA ClockStep == OAuthInv /\ ClockTicks => OAuthInv'
<1> SUFFICES ASSUME OAuthInv, ClockTicks PROVE OAuthInv'
  OBVIOUS
<1>1. OAuthTypeOK' /\ CacheIsEarly'
  BY OAuthAssumption DEF OAuthInv, OAuthTypeOK, CacheIsEarly, ClockTicks
<1>2. \A u \in Caller : caller[u].asked \in 0..LastTick /\ caller[u].since \in 0..LastTick
  BY DEF OAuthInv, OAuthTypeOK
<1>3. CallerInv'
  BY <1>2, OAuthAssumption DEF OAuthInv, OAuthTypeOK, CallerInv, ClockTicks
<1> QED
  BY <1>1, <1>3 DEF OAuthInv

LEMMA OAuthNext_Inv == OAuthInv /\ [OAuthNext]_oauthVars => OAuthInv'
<1>1. OAuthInv /\ UNCHANGED oauthVars => OAuthInv'
  BY DEF oauthVars, OAuthInv, OAuthTypeOK, CacheIsEarly, CallerInv
<1> QED
  BY <1>1, CallStep, ClockStep DEF OAuthNext

\* A token from the cache is alive when it is used, whatever answers come late; one
\* that was fetched is so if its answer was read in time (auth.ts:95-145).
THEOREM TokensAreFresh == OAuthSpec => []TokenOutlivesItsUse
<1>1. OAuthInv => TokenOutlivesItsUse
  <2> SUFFICES ASSUME OAuthInv, NEW u \in Caller,
                      caller[u].pc = "cached"
                         \/ (caller[u].pc = "fresh"
                                /\ caller[u].since < caller[u].asked + TokenLife - 1)
               PROVE  clock < caller[u].expiry
    BY DEF TokenOutlivesItsUse
  <2>1. /\ clock \in Int /\ caller[u].since \in Int /\ caller[u].expiry \in Int
        /\ caller[u].asked \in Int /\ TokenLife \in Int
    BY OAuthAssumption DEF OAuthInv, OAuthTypeOK, Instant
  <2>2. /\ clock <= caller[u].since + 1
        /\ caller[u].pc = "cached" => caller[u].since + 1 < caller[u].expiry
        /\ caller[u].pc = "fresh" => caller[u].asked + TokenLife <= caller[u].expiry
    BY DEF OAuthInv, CallerInv
  <2> QED
    BY <2>1, <2>2
<1> QED
  BY <1>1, OAuthInit_Inv, OAuthNext_Inv, PTL DEF OAuthSpec

-----------------------------------------------------------------------------
(* The settings of one container.                                          *)

\* A file that is being written by one request belongs to it, one that nothing has
\* disturbed to nobody.
OneWriter ==
    /\ disturbed = "no" => \A r \in Saver : request[r].pc = "idle"
    /\ Alone => \A q, r \in Saver :
                    request[q].pc # "idle" /\ request[r].pc # "idle" => q = r

\* What a request that writes alone has written is whole, before it is acknowledged
\* and after it.
FileIsWhole ==
    /\ disturbed = "no" /\ saved = "plans" => file.lines = Setting
    /\ Alone => \A r \in Saver :
                    request[r].pc = "written" => file.lines = Lines(request[r].form)

\* A shell that has sourced it since has all of it.
ShellIsFresh ==
    disturbed = "no" /\ saved = "plans" /\ file.sound
        /\ mode \in {"sourced", "setup", "serving"}
            => /\ \A s \in Setting : shell[s] = "saved"
               /\ mode = "setup" => ~ reachable

SetupInv == SetupTypeOK /\ OneWriter /\ FileIsWhole /\ ShellIsFresh

LEMMA SetupInit_Inv == SetupInit => SetupInv
<1> SUFFICES ASSUME SetupInit PROVE SetupInv
  OBVIOUS
<1>1. NewShell \in [Setting -> Sourced]
  BY DEF NewShell, Setting, Sourced
<1>2. SetupTypeOK
  BY <1>1 DEF SetupInit, SetupTypeOK, NoRequest, Form
<1> QED
  BY <1>2 DEF SetupInit, SetupInv, OneWriter, FileIsWhole, ShellIsFresh, Alone, NoRequest

\* The requests of a step that is one request's.
LEMMA RequestStep ==
  ASSUME SetupTypeOK, NEW r \in Saver, NEW new \in [pc : {"idle", "opened", "written"}, form : Form],
         request' = [request EXCEPT ![r] = new]
  PROVE  /\ request' \in [Saver -> [pc : {"idle", "opened", "written"}, form : Form]]
         /\ request'[r] = new /\ \A q \in Saver \ {r} : request'[q] = request[q]
  BY DEF SetupTypeOK

LEMMA SetupTypes == SetupTypeOK /\ [SetupNext]_setupVars => SetupTypeOK'
<1> SUFFICES ASSUME SetupTypeOK, [SetupNext]_setupVars PROVE SetupTypeOK'
  OBVIOUS
<1>t. /\ given \in SUBSET Setting /\ file \in [lines : SUBSET Setting, sound : BOOLEAN]
      /\ shell \in [Setting -> Sourced] /\ reachable \in BOOLEAN
      /\ mode \in {"down", "sourced", "setup", "serving", "setup, exits", "serving, exits"}
      /\ request \in [Saver -> [pc : {"idle", "opened", "written"}, form : Form]]
      /\ saved \in Form \cup {"none"} /\ disturbed \in {"no", "writing", "overlapped"}
  BY DEF SetupTypeOK
<1>n. /\ NewShell \in [Setting -> Sourced] /\ NoRequest \in [pc : {"idle", "opened", "written"}, form : Form]
      /\ [r \in Saver |-> NoRequest] \in [Saver -> [pc : {"idle", "opened", "written"}, form : Form]]
  BY DEF NewShell, Setting, Sourced, NoRequest, Form
<1>l. \A form \in Form : Lines(form) \in SUBSET Setting /\ Beginnings(form) \subseteq SUBSET Setting
  BY DEF Lines, Beginnings, Setting
<1>f. \A piece \in SUBSET Setting, whole \in BOOLEAN :
         /\ [lines |-> piece, sound |-> whole] \in [lines : SUBSET Setting, sound : BOOLEAN]
         /\ file.lines \cup piece \in SUBSET Setting
  BY <1>t
<1>1. CASE SourceSettings
  BY <1>1, <1>t DEF SourceSettings, SetupTypeOK
<1>2. CASE StartServer
  BY <1>2, <1>t DEF StartServer, LookUpHosts, SetupTypeOK
<1>3. CASE ExitForRestart
  BY <1>3, <1>t, <1>n DEF ExitForRestart, SetupTypeOK
<1>4. CASE ContainerRestarts
  BY <1>4, <1>t, <1>n DEF ContainerRestarts, SetupTypeOK
<1>5. ASSUME NEW r \in Saver, NEW form \in Form, OpenFile(r, form) PROVE SetupTypeOK'
  <2>1. [pc |-> "opened", form |-> form] \in [pc : {"idle", "opened", "written"}, form : Form]
    OBVIOUS
  <2>2. request' \in [Saver -> [pc : {"idle", "opened", "written"}, form : Form]]
    BY <1>5, <2>1, RequestStep DEF OpenFile
  <2> QED
    BY <1>5, <1>t, <2>2 DEF OpenFile, SetupTypeOK
<1>6. ASSUME NEW r \in Saver, WritePart(r) PROVE SetupTypeOK'
  <2>1. request[r].form \in Form
    BY <1>t
  <2>2. file' \in [lines : SUBSET Setting, sound : BOOLEAN]
    <3>1. PICK piece \in SUBSET Setting, whole \in BOOLEAN :
              \/ file' = [lines |-> piece, sound |-> whole]
              \/ file' = [lines |-> file.lines \cup piece, sound |-> FALSE]
      <4> DEFINE parts == Beginnings(request[r].form)
      <4>1. parts \subseteq SUBSET Setting
        BY <1>l, <2>1
      <4>2. \/ file' \in [lines : parts, sound : BOOLEAN]
            \/ file' \in [lines : {file.lines \cup piece : piece \in parts}, sound : {FALSE}]
        BY <1>6 DEF WritePart
      <4> HIDE DEF parts
      <4>3. CASE file' \in [lines : parts, sound : BOOLEAN]
        BY <4>1, <4>3
      <4>4. CASE file' \in [lines : {file.lines \cup piece : piece \in parts}, sound : {FALSE}]
        <5>1. PICK piece \in parts : file'.lines = file.lines \cup piece
          BY <4>4
        <5>2. file' = [lines |-> file.lines \cup piece, sound |-> FALSE] /\ piece \in SUBSET Setting
          BY <4>1, <4>4, <5>1
        <5> QED
          BY <5>2
      <4> QED
        BY <4>2, <4>3, <4>4
    <3>2. [lines |-> file.lines \cup piece, sound |-> FALSE]
             \in [lines : SUBSET Setting, sound : BOOLEAN]
      BY <1>f
    <3> QED
      BY <1>f, <3>1, <3>2
  <2> QED
    BY <1>6, <1>t, <2>2 DEF WritePart, SetupTypeOK
<1>7. ASSUME NEW r \in Saver, WriteAll(r) PROVE SetupTypeOK'
  <2>1. Lines(request[r].form) \in SUBSET Setting
    BY <1>t, <1>l
  <2>2. file' \in [lines : SUBSET Setting, sound : BOOLEAN]
    <3>1. PICK whole \in BOOLEAN :
              \/ file' = [lines |-> Lines(request[r].form), sound |-> whole]
              \/ file' = [lines |-> file.lines \cup Lines(request[r].form), sound |-> FALSE]
      BY <1>7 DEF WriteAll
    <3>2. [lines |-> file.lines \cup Lines(request[r].form), sound |-> FALSE]
             \in [lines : SUBSET Setting, sound : BOOLEAN]
      BY <1>f, <2>1
    <3> QED
      BY <1>f, <2>1, <3>1, <3>2
  <2>3. request' \in [Saver -> [pc : {"idle", "opened", "written"}, form : Form]]
    BY <1>7, <1>t DEF WriteAll
  <2> QED
    BY <1>7, <1>t, <2>2, <2>3 DEF WriteAll, SetupTypeOK
<1>8. ASSUME NEW r \in Saver, WriteFails(r) PROVE SetupTypeOK'
  <2>1. request' \in [Saver -> [pc : {"idle", "opened", "written"}, form : Form]]
    BY <1>8, <1>n, RequestStep DEF WriteFails
  <2> QED
    BY <1>8, <1>t, <2>1 DEF WriteFails, SetupTypeOK
<1>9. ASSUME NEW r \in Saver, Acknowledge(r) PROVE SetupTypeOK'
  <2>1. request' \in [Saver -> [pc : {"idle", "opened", "written"}, form : Form]]
    BY <1>9, <1>n, RequestStep DEF Acknowledge
  <2>2. shell' \in [Setting -> Sourced] /\ saved' \in Form
    BY <1>9, <1>t DEF Acknowledge, Sourced
  <2>3. mode' \in {"setup, exits", "serving, exits"} /\ disturbed' \in {"no", disturbed}
    BY <1>9 DEF Acknowledge
  <2> QED
    BY <1>9, <1>t, <2>1, <2>2, <2>3 DEF Acknowledge, SetupTypeOK
<1>10. CASE UNCHANGED setupVars
  BY <1>10, <1>t DEF setupVars, SetupTypeOK
<1> QED
  BY <1>1, <1>2, <1>3, <1>4, <1>5, <1>6, <1>7, <1>8, <1>9, <1>10 DEF SetupNext

LEMMA SetupNext_Inv == SetupInv /\ [SetupNext]_setupVars => SetupInv'
<1> SUFFICES ASSUME SetupInv, [SetupNext]_setupVars PROVE SetupInv'
  OBVIOUS
<1>t. SetupTypeOK /\ SetupTypeOK'
  BY SetupTypes DEF SetupInv
<1>f. NoRequest \in [pc : {"idle", "opened", "written"}, form : Form] /\ NoRequest.pc = "idle"
  BY DEF NoRequest, Form
<1> USE DEF SetupInv, OneWriter, FileIsWhole, ShellIsFresh, Alone
<1>1. CASE SourceSettings
  BY <1>1, <1>t DEF SourceSettings
<1>2. CASE StartServer
  <2>1. /\ mode' = IF IsConfigured(reachable') THEN "serving" ELSE "setup"
        /\ mode = "sourced" /\ reachable' \in BOOLEAN
        /\ UNCHANGED <<given, file, shell, request, saved, disturbed>>
    BY <1>2 DEF StartServer, LookUpHosts
  <2>2. (\A s \in Setting : shell[s] = "saved") => (mode' = "setup" => ~ reachable')
    BY <2>1 DEF IsConfigured, Setting
  <2> QED
    BY <1>t, <2>1, <2>2
<1>3. CASE ExitForRestart
  BY <1>3, <1>t, <1>f DEF ExitForRestart
<1>4. CASE ContainerRestarts
  BY <1>4, <1>t, <1>f DEF ContainerRestarts
<1>5. ASSUME NEW r \in Saver, NEW form \in Form, OpenFile(r, form) PROVE SetupInv'
  <2>1. /\ request'[r].pc = "opened" /\ \A q \in Saver \ {r} : request'[q] = request[q]
        /\ disturbed' = IF \A q \in Saver : request[q].pc = "idle" THEN "writing" ELSE "overlapped"
    BY <1>5, <1>t, RequestStep DEF OpenFile
  <2> QED
    BY <1>t, <2>1
<1>6. ASSUME NEW r \in Saver, WritePart(r) PROVE SetupInv'
  BY <1>6, <1>t DEF WritePart
<1>7. ASSUME NEW r \in Saver, WriteAll(r) PROVE SetupInv'
  <2>1. /\ request[r].pc = "opened" /\ disturbed' = disturbed
        /\ request'[r].form = request[r].form
        /\ \A q \in Saver \ {r} : request'[q] = request[q]
    BY <1>7, <1>t DEF WriteAll, SetupTypeOK
  <2>2. Alone => file'.lines = Lines(request[r].form)
    BY <1>7 DEF WriteAll
  <2> QED
    BY <1>t, <2>1, <2>2
<1>8. ASSUME NEW r \in Saver, WriteFails(r) PROVE SetupInv'
  <2>1. /\ request[r].pc = "opened" /\ request'[r].pc = "idle"
        /\ \A q \in Saver \ {r} : request'[q] = request[q]
        /\ UNCHANGED <<file, shell, mode, reachable, saved, disturbed>>
    BY <1>8, <1>t, <1>f, RequestStep DEF WriteFails
  <2> QED
    BY <1>t, <2>1
<1>9. ASSUME NEW r \in Saver, Acknowledge(r) PROVE SetupInv'
  <2>1. /\ request[r].pc = "written" /\ request'[r].pc = "idle"
        /\ \A q \in Saver \ {r} : request'[q] = request[q]
        /\ saved' = request[r].form /\ file' = file
        /\ disturbed' = IF Alone THEN "no" ELSE disturbed
        /\ mode' \in {"setup, exits", "serving, exits"}
    BY <1>9, <1>t, <1>f, RequestStep DEF Acknowledge
  <2>2. Lines("plans") = Setting
    BY DEF Lines, Setting
  <2> QED
    BY <1>t, <2>1, <2>2
<1>10. CASE UNCHANGED setupVars
  BY <1>10, <1>t DEF setupVars
<1> QED
  BY <1>1, <1>2, <1>3, <1>4, <1>5, <1>6, <1>7, <1>8, <1>9, <1>10 DEF SetupNext

\* Plans whose save was acknowledged are what every later server serves that finds
\* its database, until the next save opens the file, however many requests there
\* are and wherever they are cut (server.ts:57-77, 223-330; entrypoint.sh).
THEOREM PlansSurviveRestarts == SetupSpec => []SavedPlansAreServed
<1>1. SetupInv => SavedPlansAreServed
  <2> SUFFICES ASSUME SetupInv, saved = "plans", disturbed = "no", file.sound, reachable,
                      mode \in {"setup", "serving"}
               PROVE  mode = "serving" /\ shell["plans"] = "saved"
    BY DEF SavedPlansAreServed
  <2> QED
    BY DEF SetupInv, ShellIsFresh, Setting
<1> QED
  BY <1>1, SetupInit_Inv, SetupNext_Inv, PTL DEF SetupSpec

-----------------------------------------------------------------------------
(* The refund job of the replicas.                                         *)

\* Without a job in Redis a replica that is up is about to be followed by the
\* add of one that is starting.
SomeoneWillAdd ==
    jobs = {} /\ ~ unscheduled /\ (\E i \in Instance : replica[i].at = "on")
        => \E i \in Instance : replica[i].at = "listed"

ScheduleInv == ScheduleTypeOK /\ SomeoneWillAdd

LEMMA ScheduleInit_Inv == ScheduleInit => ScheduleInv
<1> SUFFICES ASSUME ScheduleInit PROVE ScheduleInv
  OBVIOUS
<1>1. /\ replica \in [Instance -> [at : {"off"}, every : Interval, listed : {{}}]]
      /\ jobs = {} /\ unscheduled = FALSE
  BY DEF ScheduleInit
<1>2. \A i \in Instance : /\ replica[i] \in [at : {"off", "listed", "on"}, every : Interval,
                                            listed : SUBSET Interval]
                         /\ replica[i].at = "off"
  BY <1>1
<1> QED
  BY <1>1, <1>2 DEF ScheduleInv, ScheduleTypeOK, SomeoneWillAdd

LEMMA ScheduleNext_Inv == ScheduleInv /\ [ScheduleNext]_scheduleVars => ScheduleInv'
<1> SUFFICES ASSUME ScheduleInv, [ScheduleNext]_scheduleVars PROVE ScheduleInv'
  OBVIOUS
<1> DEFINE Replica == [at : {"off", "listed", "on"}, every : Interval, listed : SUBSET Interval]
<1>0. replica \in [Instance -> Replica] /\ jobs \in SUBSET Interval /\ unscheduled \in BOOLEAN
  BY DEF ScheduleInv, ScheduleTypeOK
<1>1. ASSUME NEW i \in Instance, ListJobs(i) PROVE ScheduleInv'
  <2>1. ScheduleTypeOK'
    BY <1>0, <1>1 DEF ListJobs, ScheduleTypeOK
  <2>2. replica'[i].at = "listed"
    BY <1>0, <1>1 DEF ListJobs
  <2> QED
    BY <2>1, <2>2 DEF ScheduleInv, SomeoneWillAdd
<1>2. ASSUME NEW i \in Instance, RemoveJob(i) PROVE ScheduleInv'
  <2>1. ScheduleTypeOK'
    BY <1>0, <1>2 DEF RemoveJob, ScheduleTypeOK
  <2>2. replica'[i].at = "listed"
    BY <1>0, <1>2 DEF RemoveJob
  <2> QED
    BY <2>1, <2>2 DEF ScheduleInv, SomeoneWillAdd
<1>3. ASSUME NEW i \in Instance, AddJob(i) PROVE ScheduleInv'
  <2>1. replica[i].every \in Interval
    BY <1>0
  <2>2. ScheduleTypeOK'
    BY <1>0, <1>3, <2>1 DEF AddJob, ScheduleTypeOK
  <2>3. jobs' # {}
    BY <1>3 DEF AddJob
  <2> QED
    BY <2>2, <2>3 DEF ScheduleInv, SomeoneWillAdd
<1>4. ASSUME NEW i \in Instance, ReplicaEnds(i) PROVE ScheduleInv'
  <2>1. PICK every \in Interval :
            replica' = [replica EXCEPT ![i] = [at |-> "off", every |-> every, listed |-> {}]]
    BY <1>4 DEF ReplicaEnds
  <2>2. ScheduleTypeOK'
    BY <1>0, <1>4, <2>1 DEF ReplicaEnds, ScheduleTypeOK
  <2>3. replica'[i].at = "off" /\ \A k \in Instance \ {i} : replica'[k] = replica[k]
    BY <1>0, <2>1
  <2>4. SomeoneWillAdd'
    <3> SUFFICES ASSUME jobs' = {}, ~ unscheduled', NEW k \in Instance, replica'[k].at = "on"
                 PROVE  \E j \in Instance : replica'[j].at = "listed"
      BY DEF SomeoneWillAdd
    <3>1. jobs = {} /\ ~ unscheduled /\ replica[i].at # "listed"
      BY <1>0, <1>4 DEF ReplicaEnds
    <3>2. replica[k].at = "on"
      BY <2>3
    <3>3. PICK j \in Instance : replica[j].at = "listed"
      BY <3>1, <3>2 DEF ScheduleInv, SomeoneWillAdd
    <3> QED
      BY <3>1, <3>3, <2>3
  <2> QED
    BY <2>2, <2>4 DEF ScheduleInv
<1>5. CASE UNCHANGED scheduleVars
  BY <1>5 DEF scheduleVars, ScheduleInv, ScheduleTypeOK, SomeoneWillAdd
<1> QED
  BY <1>1, <1>2, <1>3, <1>4, <1>5 DEF ScheduleNext

\* The job is scheduled whenever a replica is up and none is starting or has
\* died while starting (server.ts:806-828).
THEOREM JobOutlivesReplicas == ScheduleSpec => []RefundJobIsScheduled
<1>1. ScheduleInv => RefundJobIsScheduled
  BY DEF ScheduleInv, SomeoneWillAdd, RefundJobIsScheduled
<1> QED
  BY <1>1, ScheduleInit_Inv, ScheduleNext_Inv, PTL DEF ScheduleSpec
-----------------------------------------------------------------------------
(* verifyTransfer: the loop over the logs of a receipt.                    *)
(*                                                                         *)
(* The loop, and the ledger it is compared with, are folds over sets of    *)
(* indexes. Both are shown to go through the logs one after the other,     *)
(* which is an induction over 0..n; it rests on the well-foundedness of <: *)
(* the smallest number at which a fact fails is 0 or follows one at which  *)
(* it holds.                                                               *)

\* Induction up to n, by the smallest number that is not in S.
LEMMA SetInduction ==
  ASSUME NEW n \in Nat, NEW S, 0 \in S, \A k \in 1..n : k - 1 \in S => k \in S
  PROVE  0..n \subseteq S /\ n \in S
<1> DEFINE Below == OpToRel(<, Nat)
           T == (0..n) \ S
<1> SUFFICES ASSUME T # {} PROVE FALSE
  OBVIOUS
<1>1. \E x \in T : \A y \in T : <<y, x>> \notin Below
  <2>1. IsWellFoundedOn(Below, Nat)
    BY NatLessThanWellFounded
  <2>2. T \subseteq Nat
    OBVIOUS
  <2> HIDE DEF Below, T
  <2> QED
    BY <2>1, <2>2, WFMin
<1>2. PICK x \in T : \A y \in T : <<y, x>> \notin Below
  BY <1>1
<1>3. x \in 1..n /\ x - 1 \in T
  OBVIOUS
<1>4. <<x - 1, x>> \in Below
  BY <1>3 DEF OpToRel
<1> QED
  BY <1>2, <1>3, <1>4

\* f starts at base and goes through the first m steps.
IsRun(f, m, A, base, step) ==
    /\ f \in [0..m -> A]
    /\ f[0] = base
    /\ \A k \in 1..m : f[k] = step[k][f[k - 1]]

LEMMA Recursion ==
  ASSUME NEW n \in Nat, NEW A, NEW base \in A, NEW step \in [1..n -> [A -> A]]
  PROVE  \E f : IsRun(f, n, A, base, step)
<1> DEFINE S == {m \in 0..n : \E f : IsRun(f, m, A, base, step)}
<1>1. 0 \in S
  <2> DEFINE f == [k \in 0..0 |-> base]
  <2>1. IsRun(f, 0, A, base, step)
    BY DEF IsRun
  <2> QED
    BY <2>1
<1>2. ASSUME NEW m \in 1..n, m - 1 \in S PROVE m \in S
  <2>1. PICK f : IsRun(f, m - 1, A, base, step)
    BY <1>2
  <2> DEFINE g == [k \in 0..m |-> IF k = m THEN step[m][f[m - 1]] ELSE f[k]]
  <2>2. step[m] \in [A -> A] /\ f[m - 1] \in A
    BY <1>2, <2>1 DEF IsRun
  <2>3. g \in [0..m -> A]
    BY <1>2, <2>1, <2>2 DEF IsRun
  <2>4. g[0] = base
    BY <1>2, <2>1 DEF IsRun
  <2>5. ASSUME NEW k \in 1..m PROVE g[k] = step[k][g[k - 1]]
    BY <1>2, <2>1 DEF IsRun
  <2>6. IsRun(g, m, A, base, step)
    BY <2>3, <2>4, <2>5 DEF IsRun
  <2> QED
    BY <1>2, <2>6
<1> HIDE DEF S
<1>3. 0..n \subseteq S
  BY <1>1, <1>2, SetInduction
<1> QED
  BY <1>3 DEF S

\* The sum of the values v over the part T of 1..n, one index after the other.
IsWeight(w, n, v) ==
    /\ w \in [0..n -> [SUBSET (1..n) -> Nat]]
    /\ \A T \in SUBSET (1..n) :
          /\ w[0][T] = 0
          /\ \A k \in 1..n : w[k][T] = w[k - 1][T] + (IF k \in T THEN v[k] ELSE 0)

\* There is such a sum, since it takes one step per index.
LEMMA WeightExists ==
  ASSUME NEW n \in Nat, NEW v \in [1..n -> Nat]
  PROVE  \E w : IsWeight(w, n, v)
<1> DEFINE A == [SUBSET (1..n) -> Nat]
           base == [T \in SUBSET (1..n) |-> 0]
           Add(k, w) == [T \in SUBSET (1..n) |-> w[T] + (IF k \in T THEN v[k] ELSE 0)]
           step == [k \in 1..n |-> [w \in A |-> Add(k, w)]]
<1>1. base \in A
  OBVIOUS
<1>2. ASSUME NEW k \in 1..n, NEW w \in A PROVE Add(k, w) \in A
  OBVIOUS
<1>3. step \in [1..n -> [A -> A]]
  BY <1>2
<1>4. PICK w : IsRun(w, n, A, base, step)
  <2> HIDE DEF A, base, step
  <2> QED
    BY <1>1, <1>3, Recursion
<1>5. w \in [0..n -> A]
  BY <1>4 DEF IsRun
<1>6. \A T \in SUBSET (1..n) : w[0][T] = 0
  BY <1>4 DEF IsRun
<1>7. ASSUME NEW T \in SUBSET (1..n), NEW k \in 1..n
      PROVE  w[k][T] = w[k - 1][T] + (IF k \in T THEN v[k] ELSE 0)
  <2>1. w[k - 1] \in A
    <3>1. k - 1 \in 0..n
      OBVIOUS
    <3> HIDE DEF A
    <3> QED
      BY <1>5, <3>1
  <2>2. w[k] = Add(k, w[k - 1])
    <3> HIDE DEF A, Add, base
    <3> QED
      BY <1>4, <2>1 DEF IsRun
  <2> QED
    BY <2>2
<1>8. IsWeight(w, n, v)
  BY <1>5, <1>6, <1>7 DEF IsWeight
<1> QED
  BY <1>8

\* Any element may be taken out first.
Drops(w, n, v) ==
    \A T \in SUBSET (1..n) : \A x \in T : w[n][T] = v[x] + w[n][T \ {x}]

LEMMA WeightDrop ==
  ASSUME NEW n \in Nat, NEW v \in [1..n -> Nat], NEW w, IsWeight(w, n, v)
  PROVE  Drops(w, n, v)
<1> SUFFICES ASSUME NEW T \in SUBSET (1..n), NEW x \in T
             PROVE  w[n][T] = v[x] + w[n][T \ {x}]
  BY DEF Drops
<1> DEFINE S == {k \in 0..n : w[k][T] = w[k][T \ {x}] + (IF x <= k THEN v[x] ELSE 0)}
<1>0. T \ {x} \in SUBSET (1..n)
  OBVIOUS
<1>1. 0 \in S
  BY <1>0 DEF IsWeight
<1>2. ASSUME NEW k \in 1..n, k - 1 \in S PROVE k \in S
  <2>1. /\ w[k][T] = w[k - 1][T] + (IF k \in T THEN v[k] ELSE 0)
        /\ w[k][T \ {x}] = w[k - 1][T \ {x}] + (IF k \in T \ {x} THEN v[k] ELSE 0)
    BY <1>0 DEF IsWeight
  <2>0. k - 1 \in 0..n /\ x \in 1..n
    OBVIOUS
  <2>2. /\ w[k - 1][T] \in Nat /\ w[k - 1][T \ {x}] \in Nat /\ v[x] \in Nat /\ v[k] \in Nat
    <3>1. w[k - 1] \in [SUBSET (1..n) -> Nat]
      BY <2>0 DEF IsWeight
    <3> QED
      BY <1>0, <2>0, <3>1
  <2>3. w[k - 1][T] = w[k - 1][T \ {x}] + (IF x <= k - 1 THEN v[x] ELSE 0)
    BY <1>2
  <2>4. CASE k = x
    BY <2>1, <2>2, <2>3, <2>4
  <2>5. CASE k # x
    <3>1. x <= k <=> x <= k - 1
      BY <2>5
    <3>2. k \in T <=> k \in T \ {x}
      BY <2>5
    <3> DEFINE a == w[k - 1][T]
               b == w[k - 1][T \ {x}]
               c == IF x <= k THEN v[x] ELSE 0
               d == IF k \in T THEN v[k] ELSE 0
    <3>3. a \in Nat /\ b \in Nat /\ c \in Nat /\ d \in Nat
      BY <2>2
    <3>4. a = b + c /\ w[k][T] = a + d /\ w[k][T \ {x}] = b + d
      BY <2>1, <2>3, <3>1, <3>2
    <3> HIDE DEF a, b, c, d
    <3>5. w[k][T] = w[k][T \ {x}] + c
      BY <3>3, <3>4
    <3> QED
      BY <3>5 DEF c
  <2> QED
    BY <2>4, <2>5
<1> HIDE DEF S
<1>3. n \in S
  BY <1>1, <1>2, SetInduction
<1>4. x <= n /\ x \in 1..n
  OBVIOUS
<1>5. w[n] \in [SUBSET (1..n) -> Nat]
  <2>1. n \in 0..n
    OBVIOUS
  <2> QED
    BY <2>1 DEF IsWeight
<1>6. w[n][T \ {x}] \in Nat /\ v[x] \in Nat
  BY <1>0, <1>4, <1>5
<1>7. w[n][T] = w[n][T \ {x}] + v[x]
  BY <1>3, <1>4 DEF S
<1> QED
  BY <1>6, <1>7

\* What MapThenSumSet computes with.
IsSum(g, S, v) ==
    g = [s \in SUBSET S |->
            IF s = {} THEN 0
            ELSE v[CHOOSE x \in s : TRUE] + g[s \ {CHOOSE x \in s : TRUE}]]

\* It is what MapThenSumSet computes, and MapThenSumSet computes nothing else: by
\* induction on the size of the set.
LEMMA WeightIsSum ==
  ASSUME NEW n \in Nat, NEW v \in [1..n -> Nat], NEW w, IsWeight(w, n, v),
         NEW S \in SUBSET (1..n)
  PROVE  IsSum([s \in SUBSET S |-> w[n][s]], S, v)
<1> DEFINE g == [s \in SUBSET S |-> w[n][s]]
<1>d. Drops(w, n, v)
  BY WeightDrop
<1>1. w[n][{}] = 0
  <2> DEFINE Z == {k \in 0..n : w[k][{}] = 0}
  <2>1. 0 \in Z
    BY DEF IsWeight
  <2>2. ASSUME NEW k \in 1..n, k - 1 \in Z PROVE k \in Z
    <3>1. w[k][{}] = w[k - 1][{}] + 0
      BY DEF IsWeight
    <3> QED
      BY <2>2, <3>1
  <2> HIDE DEF Z
  <2>3. n \in Z
    BY <2>1, <2>2, SetInduction
  <2> QED
    BY <2>3 DEF Z
<1>2. ASSUME NEW s \in SUBSET S, s # {}
      PROVE  g[s] = v[CHOOSE x \in s : TRUE] + g[s \ {CHOOSE x \in s : TRUE}]
  <2> DEFINE x == CHOOSE y \in s : TRUE
  <2>1. x \in s
    BY <1>2
  <2> HIDE DEF x
  <2>2. s \in SUBSET (1..n) /\ s \ {x} \in SUBSET S
    OBVIOUS
  <2>3. w[n][s] = v[x] + w[n][s \ {x}]
    BY <1>d, <2>1, <2>2 DEF Drops
  <2> QED
    BY <2>2, <2>3 DEF x
<1> HIDE DEF g
<1>3. g = [s \in SUBSET S |-> IF s = {} THEN 0
              ELSE v[CHOOSE x \in s : TRUE] + g[s \ {CHOOSE x \in s : TRUE}]]
  BY <1>1, <1>2 DEF g
<1> QED
  BY <1>3 DEF IsSum, g

LEMMA SumIsWeight ==
  ASSUME NEW n \in Nat, NEW v \in [1..n -> Nat], NEW w, IsWeight(w, n, v),
         NEW S \in SUBSET (1..n), NEW g, IsSum(g, S, v)
  PROVE  g[S] = w[n][S]
<1>0. IsFiniteSet(S) /\ Cardinality(S) \in Nat
  <2>1. IsFiniteSet(1..n)
    BY FS_Interval
  <2>2. IsFiniteSet(S)
    BY <2>1, FS_Subset
  <2> QED
    BY <2>2, FS_CardinalityType
<1> DEFINE m == Cardinality(S)
           P(k) == \A s \in SUBSET S : Cardinality(s) = k => g[s] = w[n][s]
           Z == {k \in 0..m : P(k)}
           f == [s \in SUBSET S |-> w[n][s]]
<1>d. Drops(w, n, v)
  BY WeightDrop
<1>f. IsSum(f, S, v)
  BY WeightIsSum
<1>1. P(0)
  <2> SUFFICES ASSUME NEW s \in SUBSET S, Cardinality(s) = 0 PROVE g[s] = w[n][s]
    OBVIOUS
  <2>1. s = {}
    BY <1>0, FS_Subset, FS_EmptySet
  <2> QED
    BY <1>f, <2>1 DEF IsSum
<1>2. ASSUME NEW k \in 1..m, P(k - 1) PROVE P(k)
  <2> SUFFICES ASSUME NEW s \in SUBSET S, Cardinality(s) = k PROVE g[s] = w[n][s]
    OBVIOUS
  <2>1. IsFiniteSet(s) /\ s # {}
    <3>1. IsFiniteSet(s)
      BY <1>0, FS_Subset
    <3> QED
      BY <3>1, FS_EmptySet
  <2> DEFINE x == CHOOSE y \in s : TRUE
  <2>2. x \in s
    BY <2>1
  <2>3. g[s] = v[x] + g[s \ {x}]
    BY <2>1 DEF IsSum
  <2> HIDE DEF x
  <2>4. Cardinality(s \ {x}) = k - 1 /\ s \ {x} \in SUBSET S
    BY <2>1, <2>2, FS_RemoveElement
  <2>5. g[s \ {x}] = w[n][s \ {x}]
    BY <1>2, <2>4
  <2>6. s \in SUBSET (1..n)
    OBVIOUS
  <2>7. w[n][s] = v[x] + w[n][s \ {x}]
    BY <1>d, <2>2, <2>6 DEF Drops
  <2> QED
    BY <2>3, <2>5, <2>7
<1> HIDE DEF P, m
<1>3. 0 \in Z /\ \A k \in 1..m : k - 1 \in Z => k \in Z
  BY <1>0, <1>1, <1>2 DEF m
<1> HIDE DEF Z
<1>4. m \in Z
  BY <1>0, <1>3, SetInduction DEF m
<1> QED
  BY <1>4 DEF P, Z, m

\* The CHOOSE of Max has something to choose.
LEMMA MaxFact ==
  ASSUME NEW n \in Nat, NEW s \in SUBSET (1..n), s # {}
  PROVE  Max(s) \in s /\ \A y \in s : y <= Max(s)
<1> DEFINE Z == {k \in 0..n : (\E x \in s : x <= k) => \E x \in s : x <= k /\ \A y \in s : y <= k => y <= x}
<1>1. 0 \in Z
  OBVIOUS
<1>2. ASSUME NEW k \in 1..n, k - 1 \in Z PROVE k \in Z
  <2>1. CASE k \in s
    BY <2>1
  <2>2. CASE k \notin s
    <3>1. \A y \in s : y <= k <=> y <= k - 1
      BY <2>2
    <3>2. k - 1 \in 0..n /\ ((\E x \in s : x <= k - 1)
             => \E x \in s : x <= k - 1 /\ \A y \in s : y <= k - 1 => y <= x)
      BY <1>2
    <3> QED
      BY <3>1, <3>2
  <2> QED
    BY <2>1, <2>2
<1> HIDE DEF Z
<1>3. n \in Z
  BY <1>1, <1>2, SetInduction
<1>4. \E x \in s : \A y \in s : x >= y
  <2>1. \A y \in s : y <= n
    OBVIOUS
  <2> QED
    BY <1>3, <2>1 DEF Z
<1> QED
  BY <1>4 DEF Max

\* What the loop of verifyTransfer has found after k logs, if it looks at those in T.
NothingFound == [total |-> 0, from |-> NoSender]

FoundType == [total : Nat, from : Sender \cup {NoSender}]

IsTally(r, n) ==
    /\ r \in [0..n -> [SUBSET (1..n) -> FoundType]]
    /\ \A T \in SUBSET (1..n) :
          /\ r[0][T] = NothingFound
          /\ \A k \in 1..n : r[k][T] = IF k \in T THEN AddUp(r[k - 1][T], transaction.events[k])
                                       ELSE r[k - 1][T]

\* The loop has a result, whatever the logs.
LEMMA AddUpType ==
  ASSUME NEW found \in FoundType, NEW event \in Event
  PROVE  AddUp(found, event) \in FoundType
<1>1. event.value \in Nat /\ event.from \in Sender
  BY VerifyAssumption DEF Event
<1> QED
  BY <1>1 DEF AddUp, FoundType

LEMMA TallyExists ==
  ASSUME NEW n \in Nat, transaction.events \in [1..n -> Event]
  PROVE  \E r : IsTally(r, n)
<1> DEFINE A == [SUBSET (1..n) -> FoundType]
           base == [T \in SUBSET (1..n) |-> NothingFound]
           Look(k, r) == [T \in SUBSET (1..n) |->
                             IF k \in T THEN AddUp(r[T], transaction.events[k]) ELSE r[T]]
           step == [k \in 1..n |-> [r \in A |-> Look(k, r)]]
<1>1. base \in A
  BY DEF NothingFound, FoundType
<1>2. ASSUME NEW k \in 1..n, NEW r \in A PROVE Look(k, r) \in A
  BY AddUpType
<1>3. step \in [1..n -> [A -> A]]
  BY <1>2
<1>4. PICK r : IsRun(r, n, A, base, step)
  <2> HIDE DEF A, base, step
  <2> QED
    BY <1>1, <1>3, Recursion
<1>5. r \in [0..n -> A]
  BY <1>4 DEF IsRun
<1>6. \A T \in SUBSET (1..n) : r[0][T] = NothingFound
  BY <1>4 DEF IsRun
<1>7. ASSUME NEW T \in SUBSET (1..n), NEW k \in 1..n
      PROVE  r[k][T] = IF k \in T THEN AddUp(r[k - 1][T], transaction.events[k])
                       ELSE r[k - 1][T]
  <2>1. r[k - 1] \in A
    <3>1. k - 1 \in 0..n
      OBVIOUS
    <3> HIDE DEF A
    <3> QED
      BY <1>5, <3>1
  <2>2. r[k] = Look(k, r[k - 1])
    <3> HIDE DEF A, Look, base
    <3> QED
      BY <1>4, <2>1 DEF IsRun
  <2> QED
    BY <2>2
<1>8. IsTally(r, n)
  BY <1>5, <1>6, <1>7 DEF IsTally
<1> QED
  BY <1>8

\* Of two sets only the logs looked at so far matter.
Agree(T, U, j) == \A i \in 1..j : i \in T <=> i \in U

LEMMA TallyBelow ==
  ASSUME NEW n \in Nat, NEW r, IsTally(r, n), NEW T \in SUBSET (1..n), NEW U \in SUBSET (1..n),
         NEW j \in 0..n, Agree(T, U, j)
  PROVE  r[j][T] = r[j][U]
<1> DEFINE Z == {k \in 0..j : r[k][T] = r[k][U]}
<1>1. 0 \in Z
  BY DEF IsTally
<1>2. ASSUME NEW k \in 1..j, k - 1 \in Z PROVE k \in Z
  <2>1. k \in 1..n /\ (k \in T <=> k \in U) /\ r[k - 1][T] = r[k - 1][U]
    BY <1>2 DEF Agree
  <2>2. r[k][T] = r[k][U]
    BY <2>1 DEF IsTally
  <2> QED
    BY <2>2
<1> HIDE DEF Z
<1>3. j \in Z
  BY <1>1, <1>2, SetInduction
<1> QED
  BY <1>3 DEF Z

\* Past the last log of a set nothing more is found.
LEMMA TallyAbove ==
  ASSUME NEW n \in Nat, NEW r, IsTally(r, n), NEW T \in SUBSET (1..n),
         NEW j \in 0..n, \A i \in T : i <= j
  PROVE  r[n][T] = r[j][T]
<1> DEFINE Z == {k \in 0..n : k >= j => r[k][T] = r[j][T]}
<1>1. 0 \in Z
  OBVIOUS
<1>2. ASSUME NEW k \in 1..n, k - 1 \in Z PROVE k \in Z
  <2>1. CASE k <= j
    BY <2>1
  <2>2. CASE k > j
    <3>1. r[k - 1][T] = r[j][T] /\ k \notin T
      BY <1>2, <2>2
    <3>2. r[k][T] = r[k - 1][T]
      BY <3>1 DEF IsTally
    <3> QED
      BY <3>1, <3>2
  <2> QED
    BY <2>1, <2>2
<1> HIDE DEF Z
<1>3. n \in Z
  BY <1>1, <1>2, SetInduction
<1> QED
  BY <1>3 DEF Z

\* What FoldLeft computes with: the last log of a set is looked at last.
IsFold(h, n) ==
    h = [s \in SUBSET (1..n) |->
            IF s = {} THEN NothingFound
            ELSE AddUp(h[s \ {Max(s)}], transaction.events[Max(s)])]

\* So does the tally, and it is the only function that does.
TakesLast(r, n) ==
    /\ r[n][{}] = NothingFound
    /\ \A T \in SUBSET (1..n) :
          T # {} => r[n][T] = AddUp(r[n][T \ {Max(T)}], transaction.events[Max(T)])

LEMMA TallyTakesLast ==
  ASSUME NEW n \in Nat, NEW r, IsTally(r, n)
  PROVE  TakesLast(r, n)
<1>1. r[n][{}] = NothingFound
  <2>1. 0 \in 0..n /\ {} \in SUBSET (1..n) /\ \A i \in {} : i <= 0
    OBVIOUS
  <2>2. r[n][{}] = r[0][{}]
    BY <2>1, TallyAbove
  <2> QED
    BY <2>1, <2>2 DEF IsTally
<1>2. ASSUME NEW T \in SUBSET (1..n), T # {}
      PROVE  r[n][T] = AddUp(r[n][T \ {Max(T)}], transaction.events[Max(T)])
  <2> DEFINE m == Max(T)
             U == T \ {m}
  <2>1. m \in T /\ \A y \in T : y <= m
    BY <1>2, MaxFact
  <2> HIDE DEF m
  <2>2. m \in 1..n /\ m - 1 \in 0..n /\ m \in 0..n /\ U \in SUBSET (1..n)
    BY <2>1
  <2>3. r[n][T] = r[m][T]
    BY <2>1, <2>2, TallyAbove
  <2>4. r[m][T] = AddUp(r[m - 1][T], transaction.events[m])
    BY <2>1, <2>2 DEF IsTally
  <2>5. \A i \in 1..(m - 1) : i \in T <=> i \in U
    BY <2>1, <2>2
  <2>6. r[m - 1][T] = r[m - 1][U]
    <3>1. T \in SUBSET (1..n) /\ m - 1 \in 0..n /\ U \in SUBSET (1..n) /\ Agree(T, U, m - 1)
      BY <2>2, <2>5 DEF Agree
    <3> HIDE DEF U
    <3> QED
      BY <3>1, TallyBelow
  <2>7. \A i \in U : i <= m - 1
    BY <2>1, <2>2
  <2>8. r[n][U] = r[m - 1][U]
    <3> HIDE DEF U
    <3> QED
      BY <2>2, <2>7, TallyAbove
  <2> QED
    BY <2>3, <2>4, <2>6, <2>8 DEF m
<1> QED
  BY <1>1, <1>2 DEF TakesLast

LEMMA TallyIsFold ==
  ASSUME NEW n \in Nat, NEW r, IsTally(r, n)
  PROVE  IsFold([s \in SUBSET (1..n) |-> r[n][s]], n)
<1> DEFINE h == [s \in SUBSET (1..n) |-> r[n][s]]
<1>d. TakesLast(r, n)
  BY TallyTakesLast
<1>1. ASSUME NEW s \in SUBSET (1..n), s # {}
      PROVE  h[s] = AddUp(h[s \ {Max(s)}], transaction.events[Max(s)])
  BY <1>d, <1>1 DEF TakesLast
<1>2. h[{}] = NothingFound
  BY <1>d DEF TakesLast
<1> HIDE DEF h
<1>3. h = [s \in SUBSET (1..n) |->
            IF s = {} THEN NothingFound
            ELSE AddUp(h[s \ {Max(s)}], transaction.events[Max(s)])]
  BY <1>1, <1>2 DEF h
<1> QED
  BY <1>3 DEF IsFold, h

LEMMA FoldIsTally ==
  ASSUME NEW n \in Nat, NEW r, IsTally(r, n), NEW h, IsFold(h, n)
  PROVE  h[1..n] = r[n][1..n]
<1>0. IsFiniteSet(1..n) /\ Cardinality(1..n) = n
  BY FS_Interval
<1> DEFINE S == 1..n
           P(k) == \A s \in SUBSET S : Cardinality(s) = k => h[s] = r[n][s]
           Z == {k \in 0..n : P(k)}
<1>d. TakesLast(r, n)
  BY TallyTakesLast
<1>1. P(0)
  <2> SUFFICES ASSUME NEW s \in SUBSET S, Cardinality(s) = 0 PROVE h[s] = r[n][s]
    OBVIOUS
  <2>1. s = {}
    BY <1>0, FS_Subset, FS_EmptySet
  <2> QED
    BY <1>d, <2>1 DEF IsFold, TakesLast
<1>2. ASSUME NEW k \in 1..n, P(k - 1) PROVE P(k)
  <2> SUFFICES ASSUME NEW s \in SUBSET S, Cardinality(s) = k PROVE h[s] = r[n][s]
    OBVIOUS
  <2>1. IsFiniteSet(s) /\ s # {}
    <3>1. IsFiniteSet(s)
      BY <1>0, FS_Subset
    <3> QED
      BY <3>1, FS_EmptySet
  <2> DEFINE x == Max(s)
  <2>2. x \in s
    BY <2>1, MaxFact
  <2>3. /\ h[s] = AddUp(h[s \ {x}], transaction.events[x])
        /\ r[n][s] = AddUp(r[n][s \ {x}], transaction.events[x])
    BY <1>d, <2>1 DEF IsFold, TakesLast
  <2> HIDE DEF x
  <2>4. Cardinality(s \ {x}) = k - 1 /\ s \ {x} \in SUBSET S
    BY <2>1, <2>2, FS_RemoveElement
  <2>5. h[s \ {x}] = r[n][s \ {x}]
    BY <1>2, <2>4
  <2> QED
    BY <2>3, <2>5
<1> HIDE DEF P
<1>3. 0 \in Z /\ \A k \in 1..n : k - 1 \in Z => k \in Z
  BY <1>1, <1>2
<1> HIDE DEF Z
<1>4. n \in Z
  BY <1>3, SetInduction
<1> QED
  BY <1>0, <1>4 DEF P, Z

\* The logs that pay the seller, and what each log moves.
ToSeller == {i \in DOMAIN transaction.events : transaction.events[i].kind = "toSeller"}

Value == [i \in DOMAIN transaction.events |-> transaction.events[i].value]

\* The logs of a transaction in the form the lemmas above want.
LEMMA TransactionShape ==
  ASSUME transaction \in Transaction
  PROVE  \E n \in Nat : /\ n <= MaxEvents /\ Len(transaction.events) = n
                        /\ transaction.events \in [1..n -> Event]
                        /\ DOMAIN transaction.events = 1..n
                        /\ ToSeller \in SUBSET (1..n) /\ Value \in [1..n -> Nat]
<1>1. transaction.events \in BoundedSeq(Event, MaxEvents)
  BY DEF Transaction
<1>2. PICK n \in 0..MaxEvents : transaction.events \in [1..n -> Event]
  BY <1>1 DEF BoundedSeq, SeqOf
<1>3. DOMAIN transaction.events = 1..n /\ n \in Nat /\ Len(transaction.events) = n
  BY <1>2, VerifyAssumption
<1>4. \A i \in 1..n : transaction.events[i].value \in Nat
  BY <1>2, VerifyAssumption DEF Event
<1>5. ToSeller \in SUBSET (1..n) /\ Value \in [1..n -> Nat]
  BY <1>3, <1>4 DEF ToSeller, Value
<1> QED
  BY <1>2, <1>3, <1>5, VerifyAssumption

\* Found and Received by what their folds compute.
LEMMA FoundIsFold ==
  ASSUME NEW n \in Nat, DOMAIN transaction.events = 1..n, \E h : IsFold(h, n)
  PROVE  \E h : IsFold(h, n) /\ Found = h[1..n]
  BY DEF Found, FoldLeft, MapThenFoldSet, IsFold, NothingFound

LEMMA ReceivedIsSum ==
  ASSUME \E g : IsSum(g, ToSeller, Value)
  PROVE  \E g : IsSum(g, ToSeller, Value) /\ Received = g[ToSeller]
<1> DEFINE F(g) == [s \in SUBSET ToSeller |->
                      IF s = {} THEN 0
                      ELSE transaction.events[CHOOSE x \in s : TRUE].value
                              + g[s \ {CHOOSE x \in s : TRUE}]]
<1>1. \A g : IsSum(g, ToSeller, Value) <=> g = F(g)
  <2>1. \A s \in SUBSET ToSeller :
           s # {} => (CHOOSE x \in s : TRUE) \in DOMAIN transaction.events
    BY DEF ToSeller
  <2> QED
    BY <2>1 DEF IsSum, Value
<1>2. \E g : g = F(g)
  <2> HIDE DEF F
  <2> QED
    BY <1>1
<1>3. \E g : g = F(g)
           /\ MapThenSumSet(LAMBDA i : transaction.events[i].value, ToSeller) = g[ToSeller]
  BY <1>2 DEF MapThenSumSet, MapThenFoldSet
<1>4. Received = MapThenSumSet(LAMBDA i : transaction.events[i].value, ToSeller)
  BY DEF Received, ToSeller, MapThenSumSet, MapThenFoldSet
<1> HIDE DEF F
<1> QED
  BY <1>1, <1>3, <1>4

\* What the loop knows after k logs.
KnowsAfter(k, n, r, w) ==
    LET found == r[k][1..n] IN
    /\ found.total = w[k][ToSeller]
    /\ found.total <= k * MaxValue
    /\ IF found.from = NoSender THEN \A i \in 1..k : i \notin ToSeller
       ELSE \E i \in 1..k : i \in ToSeller /\ found.from = transaction.events[i].from

LEMMA LoopCorrect ==
  ASSUME NEW n \in Nat, transaction.events \in [1..n -> Event], DOMAIN transaction.events = 1..n,
         ToSeller \in SUBSET (1..n), Value \in [1..n -> Nat],
         NEW r, IsTally(r, n), NEW w, IsWeight(w, n, Value)
  PROVE  KnowsAfter(n, n, r, w)
<1> DEFINE Z == {k \in 0..n : KnowsAfter(k, n, r, w)}
           D == 1..n
<1>1. 0 \in Z
  <2>1. r[0][D] = NothingFound /\ w[0][ToSeller] = 0
    BY DEF IsTally, IsWeight
  <2>2. 0 <= 0 * MaxValue
    BY VerifyAssumption
  <2> QED
    BY <2>1, <2>2 DEF KnowsAfter, NothingFound
<1>2. ASSUME NEW k \in 1..n, k - 1 \in Z PROVE k \in Z
  <2> DEFINE old == r[k - 1][D]
             event == transaction.events[k]
  <2>1. k - 1 \in 0..n /\ k \in D /\ KnowsAfter(k - 1, n, r, w)
    BY <1>2
  <2>2. r[k][D] = AddUp(old, event)
    BY <2>1 DEF IsTally
  <2>3. w[k][ToSeller] = w[k - 1][ToSeller] + (IF k \in ToSeller THEN event.value ELSE 0)
    BY <2>1 DEF IsWeight, Value
  <2>4. old \in FoundType
    <3>1. r[k - 1] \in [SUBSET (1..n) -> FoundType]
      BY <2>1 DEF IsTally
    <3> QED
      BY <3>1
  <2>5. event.value \in 0..MaxValue /\ event.from \in Sender /\ event.from # NoSender
        /\ MaxValue \in Nat
    BY <2>1, VerifyAssumption DEF Event
  <2>6. k \in ToSeller <=> Matches(event)
    BY <2>1 DEF ToSeller, Matches
  <2>7. /\ old.total \in Nat /\ old.total = w[k - 1][ToSeller]
        /\ old.total <= (k - 1) * MaxValue
        /\ IF old.from = NoSender THEN \A i \in 1..(k - 1) : i \notin ToSeller
           ELSE \E i \in 1..(k - 1) : i \in ToSeller /\ old.from = transaction.events[i].from
    BY <2>1, <2>4 DEF KnowsAfter, FoundType
  <2>8. k * MaxValue = (k - 1) * MaxValue + MaxValue /\ (k - 1) * MaxValue \in Nat
    BY <2>1, <2>5
  <2> HIDE DEF old
  <2>9. CASE k \in ToSeller
    <3>1. r[k][D].total = old.total + event.value
          /\ r[k][D].from = IF old.from = NoSender THEN event.from ELSE old.from
      BY <2>2, <2>6, <2>9 DEF AddUp
    <3>2. r[k][D].total = w[k][ToSeller]
      BY <3>1, <2>3, <2>7, <2>9
    <3>3. r[k][D].total <= k * MaxValue
      BY <3>1, <2>5, <2>7, <2>8
    <3>4. r[k][D].from # NoSender
          /\ \E i \in 1..k : i \in ToSeller /\ r[k][D].from = transaction.events[i].from
      BY <3>1, <2>1, <2>5, <2>7, <2>9
    <3> QED
      BY <3>2, <3>3, <3>4 DEF KnowsAfter
  <2>10. CASE k \notin ToSeller
    <3>1. r[k][D] = old
      BY <2>2, <2>6, <2>10 DEF AddUp
    <3>2. w[k][ToSeller] = w[k - 1][ToSeller]
      <4>1. w[k - 1] \in [SUBSET (1..n) -> Nat]
        BY <2>1 DEF IsWeight
      <4>2. w[k - 1][ToSeller] \in Nat
        BY <4>1
      <4> QED
        BY <2>3, <2>10, <4>2
    <3>3. old.total <= k * MaxValue
      BY <2>5, <2>7, <2>8
    <3>4. IF old.from = NoSender THEN \A i \in 1..k : i \notin ToSeller
          ELSE \E i \in 1..k : i \in ToSeller /\ old.from = transaction.events[i].from
      BY <2>7, <2>10
    <3> QED
      BY <2>7, <3>1, <3>2, <3>3, <3>4 DEF KnowsAfter
  <2> QED
    BY <2>9, <2>10
<1> HIDE DEF Z
<1>3. n \in Z
  BY <1>1, <1>2, SetInduction
<1> QED
  BY <1>3 DEF Z

\* The loop adds up what the seller received and names one who sent it.
LEMMA FoundIsRight ==
  ASSUME transaction \in Transaction
  PROVE  /\ Found \in [total : 0..MaxEvents * MaxValue, from : Sender \cup {NoSender}]
         /\ Found.total = Received
         /\ Found.total > 0 => Found.from \in Payer
<1>1. PICK n \in Nat : /\ n <= MaxEvents
                       /\ transaction.events \in [1..n -> Event]
                       /\ DOMAIN transaction.events = 1..n
                       /\ ToSeller \in SUBSET (1..n) /\ Value \in [1..n -> Nat]
  BY TransactionShape
<1>2. PICK r : IsTally(r, n)
  BY <1>1, TallyExists
<1>3. PICK w : IsWeight(w, n, Value)
  BY <1>1, WeightExists
<1>4. Found = r[n][1..n]
  <2>1. \E h : IsFold(h, n)
    BY <1>2, TallyIsFold
  <2>2. PICK h : IsFold(h, n) /\ Found = h[1..n]
    BY <1>1, <2>1, FoundIsFold
  <2> QED
    BY <1>2, <2>2, FoldIsTally
<1>5. Received = w[n][ToSeller]
  <2>1. IsSum([s \in SUBSET ToSeller |-> w[n][s]], ToSeller, Value)
    BY <1>1, <1>3, WeightIsSum
  <2>2. PICK g : IsSum(g, ToSeller, Value) /\ Received = g[ToSeller]
    BY <2>1, ReceivedIsSum
  <2> QED
    BY <1>1, <1>3, <2>2, SumIsWeight
<1>6. KnowsAfter(n, n, r, w)
  BY <1>1, <1>2, <1>3, LoopCorrect
<1>7. Found \in FoundType
  <2>1. r[n] \in [SUBSET (1..n) -> FoundType]
    <3>1. n \in 0..n
      OBVIOUS
    <3> QED
      BY <1>2, <3>1 DEF IsTally
  <2> QED
    BY <1>4, <2>1
<1>8. Found.total <= MaxEvents * MaxValue
  <2>1. Found.total <= n * MaxValue
    BY <1>4, <1>6 DEF KnowsAfter
  <2>2. n * MaxValue <= MaxEvents * MaxValue /\ n * MaxValue \in Nat /\ MaxEvents * MaxValue \in Nat
    BY <1>1, VerifyAssumption
  <2>3. Found.total \in Nat
    BY <1>7 DEF FoundType
  <2> QED
    BY <2>1, <2>2, <2>3
<1>9. Found.total = Received
  BY <1>4, <1>5, <1>6 DEF KnowsAfter
<1>10. ASSUME Found.total > 0 PROVE Found.from \in Payer
  <2>1. w[n][{}] = 0
    <3>1. IsSum([s \in SUBSET {} |-> w[n][s]], {}, Value)
      BY <1>1, <1>3, WeightIsSum
    <3> QED
      BY <3>1 DEF IsSum
  <2>2. CASE Found.from = NoSender
    <3>1. ToSeller = {}
      BY <1>1, <1>4, <1>6, <2>2 DEF KnowsAfter
    <3> QED
      BY <1>5, <1>9, <1>10, <2>1, <3>1
  <2>3. CASE Found.from # NoSender
    BY <1>4, <1>6, <2>3 DEF KnowsAfter, Payer, ToSeller
  <2> QED
    BY <2>2, <2>3
<1> QED
  BY <1>7, <1>8, <1>9, <1>10 DEF FoundType

-----------------------------------------------------------------------------
\* Where the check is tells what it has found; a transaction does not change, and
\* once it is mined it stays so.
VerifyInv ==
    /\ VerifyTypeOK
    /\ transaction \in Transaction
    /\ proof.pc \in {"block", "verified", "TX_AFTER_EXPIRY"} =>
          /\ mined /\ ~ transaction.reverted
          /\ Found.total > 0 /\ Found.total >= Required
          /\ proof.from = Found.from
    /\ proof.pc = "verified" => transaction.inTime
    /\ proof.pc = "TX_AFTER_EXPIRY" => ~ transaction.inTime
    /\ proof.pc = "TX_REVERTED" => transaction.reverted
    /\ proof.pc = "WRONG_RECIPIENT" => Found.total = 0
    /\ proof.pc = "AMOUNT_INSUFFICIENT" => Found.total < Required

LEMMA VerifyInit_Inv == VerifyInit => VerifyInv
<1> SUFFICES ASSUME VerifyInit PROVE VerifyInv
  OBVIOUS
<1>1. transaction \in Transaction
  BY DEF VerifyInit
<1>2. MaxEvents * MaxValue \in Nat
  BY VerifyAssumption
<1>3. VerifyTypeOK
  <2> DEFINE m == MaxEvents * MaxValue
  <2>1. 0 \in 0..m
    BY <1>2
  <2> HIDE DEF m
  <2>2. NoProof \in [pc    : {"idle", "receipt", "block", "verified", "threw"} \cup ErrorCode,
                    total : 0..m, from  : Sender \cup {NoSender}]
    BY <2>1 DEF NoProof
  <2> QED
    BY <2>2 DEF VerifyInit, VerifyTypeOK, m
<1> QED
  BY <1>1, <1>3 DEF VerifyInit, VerifyInv, NoProof

LEMMA VerifyNext_Inv == VerifyInv /\ [VerifyNext]_verifyVars => VerifyInv'
<1> SUFFICES ASSUME VerifyInv, [VerifyNext]_verifyVars PROVE VerifyInv'
  OBVIOUS
<1>0. transaction' = transaction
  BY DEF VerifyNext, AskForProof, ReadReceipt, ReadBlock, TransactionMined, verifyVars
<1>1. Found' = Found
  BY <1>0 DEF Found, FoldLeft, MapThenFoldSet, AddUp, Matches
<1>2. /\ Found \in [total : 0..MaxEvents * MaxValue, from : Sender \cup {NoSender}]
      /\ transaction \in Transaction
  BY FoundIsRight DEF VerifyInv
<1>t. /\ proof \in [pc    : {"idle", "receipt", "block", "verified", "threw"} \cup ErrorCode,
                    total : 0..MaxEvents * MaxValue, from  : Sender \cup {NoSender}]
      /\ mined \in BOOLEAN
  BY DEF VerifyInv, VerifyTypeOK
<1>3. CASE AskForProof
  <2>1. MaxEvents * MaxValue \in Nat
    BY VerifyAssumption
  <2> QED
    BY <1>0, <1>2, <1>3, <1>t, <2>1 DEF AskForProof, NoProof, VerifyInv, VerifyTypeOK, ErrorCode
<1>4. CASE ReadReceipt
  <2>1. CASE Conclude("RPC_ERROR") \/ Conclude("TX_NOT_FOUND")
    BY <1>0, <1>2, <1>4, <1>t, <2>1 DEF ReadReceipt, Conclude, VerifyInv, VerifyTypeOK, ErrorCode
  <2>2. CASE mined /\ proof' = [pc |-> ReceiptVerdict, total |-> Found.total, from |-> Found.from]
    <3>1. /\ ReceiptVerdict \in {"TX_REVERTED", "WRONG_RECIPIENT", "AMOUNT_INSUFFICIENT", "block"}
          /\ ReceiptVerdict = "TX_REVERTED" => transaction.reverted
          /\ ReceiptVerdict = "WRONG_RECIPIENT" => Found.total = 0
          /\ ReceiptVerdict = "AMOUNT_INSUFFICIENT" => Found.total < Required
          /\ ReceiptVerdict = "block" => /\ ~ transaction.reverted
                                         /\ Found.total > 0 /\ Found.total >= Required
      BY <1>2, VerifyAssumption DEF ReceiptVerdict
    <3>2. /\ proof'.pc = ReceiptVerdict /\ proof'.from = Found.from /\ mined' = mined /\ mined
      BY <1>4, <2>2 DEF ReadReceipt
    <3>3. VerifyTypeOK'
      BY <1>2, <1>t, <2>2, <3>1, <3>2 DEF VerifyTypeOK, ErrorCode
    <3> QED
      BY <1>0, <1>1, <1>2, <3>1, <3>2, <3>3 DEF VerifyInv
  <2> QED
    BY <1>4, <2>1, <2>2 DEF ReadReceipt
<1>5. CASE ReadBlock
  <2>1. /\ proof.pc = "block" /\ mined' = mined
        /\ proof'.pc \in {"verified", "TX_AFTER_EXPIRY", "threw"}
        /\ proof'.pc = "verified" => transaction.inTime
        /\ proof'.pc = "TX_AFTER_EXPIRY" => ~ transaction.inTime
        /\ proof' = [proof EXCEPT !.pc = proof'.pc]
    BY <1>5, <1>t DEF ReadBlock, Conclude
  <2>2. VerifyTypeOK' /\ proof'.from = proof.from
    BY <1>t, <2>1 DEF VerifyTypeOK, ErrorCode
  <2> QED
    BY <1>0, <1>1, <2>1, <2>2 DEF VerifyInv
<1>6. CASE TransactionMined
  BY <1>0, <1>1, <1>6 DEF TransactionMined, VerifyInv, VerifyTypeOK
<1>7. CASE UNCHANGED verifyVars
  BY <1>0, <1>1, <1>7 DEF verifyVars, VerifyInv, VerifyTypeOK
<1> QED
  BY <1>3, <1>4, <1>5, <1>6, <1>7 DEF VerifyNext

\* verifyTransfer accepts a proof only if the transaction succeeded in time and
\* its transfers to the seller add up to the price, with one of their senders as
\* the payer, and calls none that did so reverted, late, misdirected or too small,
\* whatever the price and the logs (adapter/verify-transfer.ts).
THEOREM VerdictCorrect == VerifySpec => []VerdictIsRight
<1>1. VerifyInv => VerdictIsRight
  <2> SUFFICES ASSUME VerifyInv PROVE VerdictIsRight
    OBVIOUS
  <2>1. /\ Found.total = Received
        /\ Found.total > 0 => Found.from \in Payer
        /\ Found.total \in Nat /\ Required \in Nat
    BY FoundIsRight, VerifyAssumption DEF VerifyInv
  <2> QED
    BY <2>1 DEF VerifyInv, VerdictIsRight, Pays
<1> QED
  BY <1>1, VerifyInit_Inv, VerifyNext_Inv, PTL DEF VerifySpec

-----------------------------------------------------------------------------
(* All the parts together: a step of one leaves the others alone.          *)

PartsInv ==
    /\ IInv
    /\ KeysTypeInv
    /\ PgTypeOK
    /\ IssueInv
    /\ OAuthInv
    /\ SetupInv
    /\ ScheduleInv
    /\ VerifyInv

LEMMA PartsInit_Inv == Init => PartsInv
  BY InitHolds, KeysTypeInit, PgTypeInit, IssueInit_Inv, OAuthInit_Inv, SetupInit_Inv,
     ScheduleInit_Inv, VerifyInit_Inv
  DEF Init, PartsInv

\* Each part takes a step of its own or none.
LEMMA PartSteps ==
  ASSUME [Next]_vars
  PROVE  /\ [SettleNext]_settleVars
         /\ [KeysNext]_keyVars
         /\ [PgNext]_pgVars
         /\ [IssueNext]_issueVars
         /\ [OAuthNext]_oauthVars
         /\ [SetupNext]_setupVars
         /\ [ScheduleNext]_scheduleVars
         /\ [VerifyNext]_verifyVars
<1>1. CASE UNCHANGED vars
  BY <1>1 DEF vars
<1>2. CASE Next
  BY <1>2 DEF Next
<1> QED
  BY <1>1, <1>2

LEMMA PartsNext_Inv == PartsInv /\ [Next]_vars => PartsInv'
  BY PartSteps, StepHolds, KeysTypeStep, PgTypeStep, IssueNext_Inv, OAuthNext_Inv,
     SetupNext_Inv, ScheduleNext_Inv, VerifyNext_Inv
  DEF PartsInv

\* Every part keeps to its types, whichever runs and with whatever constants.
THEOREM InfrastructureTypeCorrect == Spec => []InfrastructureTypeOK
<1>1. PartsInv => InfrastructureTypeOK
  BY DEF PartsInv, InfrastructureTypeOK, IInv, KeysTypeInv, IssueInv, OAuthInv, SetupInv,
         ScheduleInv, VerifyInv
<1> QED
  BY <1>1, PartsInit_Inv, PartsNext_Inv, PTL DEF Spec
=============================================================================

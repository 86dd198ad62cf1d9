---------------------------- MODULE StandaloneSetup ----------------------------
(***************************************************************************)
(* One container of the standalone server: docker/server.ts, which serves  *)
(* the setup API and, if it finds itself configured, the gateway; and the  *)
(* loop of docker/entrypoint.sh, which sources the saved settings and      *)
(* starts the server again after exit code 42. The shell of that loop      *)
(* lives as long as the container and exports all that it ever sourced.    *)
(*                                                                         *)
(* Of the settings those are kept that a gateway with plans needs:         *)
(* KEY0_WALLET_ADDRESS, PLANS_B64 and ISSUE_TOKEN_API. Whether the         *)
(* container was given them by its environment is a choice.                *)
(***************************************************************************)
CONSTANT Saver      \* requests to POST /api/setup that may be open at a time

VARIABLES
    given,      \* the settings in the container's own environment
    file,       \* .env.runtime: its lines, and whether sourcing them yields their values
    shell,      \* what the shell of the entrypoint exports
    mode,       \* what the server does
    reachable,  \* whether the lookups of Redis (and Postgres) succeeded at its start
    request,    \* each request to save a form
    saved,      \* history: the form whose save was last acknowledged
    disturbed   \* history: what has become of the file since then

setupVars == <<given, file, shell, mode, reachable, request, saved, disturbed>>

Setting == {"wallet", "plans", "issuer"}

\* A form with plans and the issuer they need, or with routes alone.
Form == {"plans", "routes"}

\* A value was read from the file after the last acknowledged save, or before it,
\* or is garbled.
Sourced == {"none", "saved", "old", "bad"}

SetupTypeOK ==
    /\ given \in SUBSET Setting
    /\ file \in [lines : SUBSET Setting, sound : BOOLEAN]
    /\ shell \in [Setting -> Sourced]
    /\ mode \in {"down", "sourced", "setup", "serving", "setup, exits", "serving, exits"}
    /\ reachable \in BOOLEAN
    /\ request \in [Saver -> [pc : {"idle", "opened", "written"}, form : Form]]
    /\ saved \in Form \cup {"none"}
    /\ disturbed \in {"no", "writing", "overlapped"}

NoRequest == [pc |-> "idle", form |-> "routes"]

NewShell == [s \in Setting |-> IF s \in given THEN "old" ELSE "none"]

SetupInit ==
    /\ given \in SUBSET Setting
    /\ file = [lines |-> {}, sound |-> TRUE] /\ shell = NewShell
    /\ mode = "down" /\ reachable = FALSE
    /\ request = [r \in Saver |-> NoRequest]
    /\ saved = "none" /\ disturbed = "no"

Up == mode \notin {"down", "sourced"}

Exits == mode \in {"setup, exits", "serving, exits"}

-----------------------------------------------------------------------------
\* The loop sources the file into its own shell: nothing is unset. Of a file with
\* an unfinished line, or a value that is no word of the shell, some lines may
\* set nothing, or something else. (It may also end the shell: ContainerRestarts.)
SourceSettings ==
    /\ mode = "down"
    /\ shell' \in {new \in [Setting -> Sourced] :
            \A s \in Setting :
                \/ s \in file.lines /\ new[s] = "saved"
                \/ s \in file.lines /\ new[s] \in {shell[s], "bad"} /\ ~ file.sound
                \/ s \notin file.lines /\ new[s] = shell[s]}
    /\ mode' = "sourced"
    /\ UNCHANGED <<given, file, reachable, request, saved, disturbed>>

\* The plans of a form have no mode and are subscription plans, as is the default
\* plan of a server without any: the issuer is needed in every case, also for a
\* gateway of routes alone. (Only the environment can name per-request plans,
\* which are left out here.)
IsConfigured(storage) == shell["wallet"] # "none" /\ shell["issuer"] # "none" /\ storage

\* isHostReachable, of each host, once: a name that does not resolve in 3 s is a
\* host that is not there.
LookUpHosts == reachable' \in BOOLEAN

\* A server that starts before its database stays in setup mode; one that cannot
\* parse its plans ends, and the container with it.
StartServer ==
    /\ mode = "sourced"
    /\ LookUpHosts
    /\ IsConfigured(reachable') => shell["plans"] # "bad"
    /\ mode' = IF IsConfigured(reachable') THEN "serving" ELSE "setup"
    /\ UNCHANGED <<given, file, shell, request, saved, disturbed>>

-----------------------------------------------------------------------------
\* The lines of the new file; the old file is not read.
Lines(form) == {"wallet"} \cup (IF form = "plans" THEN {"plans", "issuer"} ELSE {})

\* Their order in the file.
Beginnings(form) == {Lines(form) \ cut : cut \in {{}, {"issuer"}, {"plans", "issuer"}, Setting}}

Alone == disturbed = "writing"

\* POST /api/setup, served in both modes and until the process exits. writeFile
\* truncates the file, writes and closes it, each in a thread of its own.
OpenFile(r, form) ==
    /\ Up /\ request[r].pc = "idle"
    /\ request' = [request EXCEPT ![r] = [pc |-> "opened", form |-> form]]
    /\ file' = [lines |-> {}, sound |-> TRUE]
    /\ disturbed' = IF \A q \in Saver : request[q].pc = "idle" THEN "writing" ELSE "overlapped"
    /\ UNCHANGED <<given, shell, mode, reachable, saved>>

\* A part of it, which may end within a line. Two writers each begin at the
\* beginning: what the other has written shows behind the shorter of them.
WritePart(r) ==
    /\ request[r].pc = "opened"
    /\ file' \in IF Alone THEN [lines : Beginnings(request[r].form), sound : BOOLEAN]
                 ELSE [lines : {file.lines \cup piece : piece \in Beginnings(request[r].form)},
                       sound : {FALSE}]
    /\ UNCHANGED <<given, shell, mode, reachable, request, saved, disturbed>>

\* All of it. Values go into the file as they came, in quotes only if they have a
\* space: with & ; $ or a quote in one of them the file is not sound.
WriteAll(r) ==
    /\ request[r].pc = "opened"
    /\ \E whole \in BOOLEAN :
          \/ file' = [lines |-> Lines(request[r].form), sound |-> whole]
          \/ ~ Alone /\ file' = [lines |-> file.lines \cup Lines(request[r].form), sound |-> FALSE]
    /\ request' = [request EXCEPT ![r].pc = "written"]
    /\ UNCHANGED <<given, shell, mode, reachable, saved, disturbed>>

\* writeFile throws: 500, and the file stays as it is.
WriteFails(r) ==
    /\ request[r].pc = "opened"
    /\ request' = [request EXCEPT ![r] = NoRequest]
    /\ UNCHANGED <<given, file, shell, mode, reachable, saved, disturbed>>

\* Mutated form of Acknowledge: writeFile is not awaited.
AcknowledgeUnwritten(r) ==
    /\ request[r].pc = "opened"
    /\ request' = [request EXCEPT ![r] = NoRequest]
    /\ saved' = request[r].form
    /\ disturbed' = IF Alone THEN "no" ELSE disturbed
    /\ mode' = IF mode \in {"setup", "setup, exits"} THEN "setup, exits" ELSE "serving, exits"
    /\ shell' = [s \in Setting |-> IF shell[s] = "saved" THEN "old" ELSE shell[s]]
    /\ UNCHANGED <<given, file, reachable>>

\* The answer, and the timer of 500 ms. What the shell has is no longer what was
\* saved last.
Acknowledge(r) ==
    /\ request[r].pc = "written"
    /\ request' = [request EXCEPT ![r] = NoRequest]
    /\ saved' = request[r].form
    /\ disturbed' = IF Alone THEN "no" ELSE disturbed
    /\ mode' = IF mode \in {"setup", "setup, exits"} THEN "setup, exits" ELSE "serving, exits"
    /\ shell' = [s \in Setting |-> IF shell[s] = "saved" THEN "old" ELSE shell[s]]
    /\ UNCHANGED <<given, file, reachable>>

\* Exit code 42, whatever is in flight: the timer of the first save does not wait
\* for the requests that came after it.
ExitForRestart ==
    /\ Exits
    /\ mode' = "down"
    /\ request' = [r \in Saver |-> NoRequest]
    /\ UNCHANGED <<given, file, shell, reachable, saved, disturbed>>

\* Any other end of the server, or of the loop while it sources the file or
\* sleeps, ends the shell and the container; the volume with the file stays.
ContainerRestarts ==
    /\ mode' = "down"
    /\ shell' = NewShell
    /\ request' = [r \in Saver |-> NoRequest]
    /\ UNCHANGED <<given, file, reachable, saved, disturbed>>

SetupNext ==
    \/ SourceSettings \/ StartServer \/ ExitForRestart \/ ContainerRestarts
    \/ \E r \in Saver :
          \/ \E form \in Form : OpenFile(r, form)
          \/ WritePart(r) \/ WriteAll(r) \/ WriteFails(r) \/ Acknowledge(r)

SetupSpec == SetupInit /\ [][SetupNext]_setupVars

-----------------------------------------------------------------------------
\* Plans whose save was acknowledged are what every later server serves that finds
\* its database, whatever was saved or half written before, whatever the shell had
\* sourced and wherever the container died: until the next save opens the file.
\* (Not so if saves overlapped, if a value is no plain word, or for a form with
\* routes alone.)
SavedPlansAreServed ==
    saved = "plans" /\ disturbed = "no" /\ file.sound /\ reachable
        /\ mode \in {"setup", "serving"}
            => mode = "serving" /\ shell["plans"] = "saved"
=============================================================================

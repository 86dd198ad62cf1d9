---------------------------- MODULE RefundSchedule ----------------------------
(***************************************************************************)
(* How the replicas of the standalone server share one refund timer        *)
(* (docker/server.ts): a repeatable job of BullMQ in Redis, which every    *)
(* replica removes and adds again when it starts. Each command is a step;  *)
(* replicas start, stop and die at any time, old ones with another         *)
(* REFUND_INTERVAL_MS.                                                     *)
(***************************************************************************)
CONSTANTS Instance, Interval

VARIABLES
    replica,    \* where each replica is, with its interval and the jobs it has listed
    jobs,       \* the repeatable jobs in Redis, which are named by their interval
    unscheduled \* replicas that died between the listing and the add, and since
                \* then no replica has added its job

scheduleVars == <<replica, jobs, unscheduled>>

ScheduleTypeOK ==
    /\ replica \in [Instance -> [at     : {"off", "listed", "on"},
                                 every  : Interval,
                                 listed : SUBSET Interval]]
    /\ jobs \in SUBSET Interval
    /\ unscheduled \in BOOLEAN

ScheduleInit ==
    /\ replica \in [Instance -> [at : {"off"}, every : Interval, listed : {{}}]]
    /\ jobs = {}
    /\ unscheduled = FALSE

\* getRepeatableJobs.
ListJobs(i) ==
    /\ replica[i].at = "off"
    /\ replica' = [replica EXCEPT ![i].at = "listed", ![i].listed = jobs]
    /\ UNCHANGED <<jobs, unscheduled>>

\* removeRepeatableByKey of a job that was listed, also if another replica has
\* added it anew.
RemoveJob(i) ==
    /\ replica[i].at = "listed"
    /\ \E job \in replica[i].listed :
          /\ replica' = [replica EXCEPT ![i].listed = @ \ {job}]
          /\ jobs' = jobs \ {job}
    /\ UNCHANGED unscheduled

\* Mutated form of AddJob: the job is added in front of the removals.
AddFirst(i) ==
    /\ replica[i].at = "listed"
    /\ replica' = [replica EXCEPT ![i].at = "on"]
    /\ jobs' = (jobs \cup {replica[i].every}) \ replica[i].listed
    /\ unscheduled' = FALSE

AddJob(i) ==
    /\ replica[i].at = "listed" /\ replica[i].listed = {}
    /\ replica' = [replica EXCEPT ![i].at = "on"]
    /\ jobs' = jobs \cup {replica[i].every}
    /\ unscheduled' = FALSE

\* A replica stops, dies or restarts, with its interval or another. The job stays
\* in Redis.
ReplicaEnds(i) ==
    /\ replica[i].at # "off"
    /\ \E every \in Interval :
          replica' = [replica EXCEPT ![i] = [at |-> "off", every |-> every, listed |-> {}]]
    /\ unscheduled' = (unscheduled \/ replica[i].at = "listed")
    /\ UNCHANGED jobs

ScheduleNext ==
    \E i \in Instance : ListJobs(i) \/ RemoveJob(i) \/ AddJob(i) \/ ReplicaEnds(i)

ScheduleSpec == ScheduleInit /\ [][ScheduleNext]_scheduleVars

-----------------------------------------------------------------------------
\* Replicas that start at the same time remove each other's jobs, but when a
\* replica is up and none is starting the refund job is scheduled - unless one
\* died while it was starting, in which case the next one to start repairs it.
RefundJobIsScheduled ==
    /\ \E i \in Instance : replica[i].at = "on"
    /\ \A i \in Instance : replica[i].at # "listed"
    /\ ~ unscheduled
    => jobs # {}
=============================================================================

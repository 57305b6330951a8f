----------------------------- MODULE SelfStatus -----------------------------
(***************************************************************************)
(* The self-assessment of infra/self_healing.py: SelfHealingSupervisor     *)
(* measures every subsystem, repairs what it found broken, measures the    *)
(* repaired ones again and reports; the report is cached for two seconds.  *)
(* Three kinds of caller share the one supervisor object, each suspended   *)
(* at every await of its pass: pollers of GET /v1/self/status, operators   *)
(* of POST /v1/self/heal, and self_healing_loop, which must outlive every  *)
(* exception.  Beside them a request that meets ORA-00942 schedules the    *)
(* schema repair of storage/db.py, at most one at a time.  The database    *)
(* may refuse, hang or lose its tables at any moment; an answer that comes *)
(* too late because a forecast fit saturates the processor is a hang too.  *)
(*                                                                         *)
(* A create_all is two statements apart: it lists the tables that exist    *)
(* and then creates the others, and fails on one that exists by then.      *)
(***************************************************************************)
EXTENDS Naturals, FiniteSets

CONSTANTS
    Pollers,        \* callers of GET /v1/self/status
    Operators,      \* callers of POST /v1/self/heal
    TheLoop,        \* the background task self_healing_loop
    NoReport,
    Budget,         \* STATUS_MEASUREMENT_BUDGET_SECONDS
    CacheTime,      \* STATUS_CACHE_SECONDS
    EvidenceFinds,  \* what check_integrity may conclude from a readable table
    OutboundFinds,  \* what the emitter's delivery counters may say
    SchedulerRuns,  \* SCHEDULER_ENABLED, and the scheduler runs in this process
    MaxFaults,      \* bound: changes of the database's or the disk's condition
    MaxPolls        \* bound: calls of the pollers and of the operators

StatusCallers == Pollers \cup Operators \cup {TheLoop}

ASSUME BudgetsArePositive == Budget \in Nat \ {0} /\ CacheTime \in Nat \ {0}
ASSUME RepairIsNoCaller == "repair" \notin StatusCallers

VARIABLES
    database,        \* "up", "refuses" or "hangs"
    tables,          \* the schema is complete
    disk,            \* the object store directory can be created
    storageCircuit,  \* the one tracked peer's breaker
    pass,            \* caller -> its pass through status()
    seen,            \* caller -> what was so at some moment since its pass began
    lastReport,      \* _status_cache: how long it may be served, what it tells, what was so
    answer,          \* what this step answered, if it did: to whom, its report, what was so
    repair,          \* _repair_task: "none", "create", "verify"
    listed,          \* who holds a list of tables read while some were missing
    faults, polls

surroundings == <<database, tables, disk, storageCircuit>>
bounds == <<faults, polls>>
statusSteps == <<surroundings, pass, lastReport, answer, repair, listed, bounds>>
statusVars == <<statusSteps, seen>>

Resting == [at |-> "idle", left |-> 0,
            found |-> [database |-> "unknown", schema |-> "unknown",
                       evidence |-> "unknown", scheduler |-> "unknown", peers |-> "unknown",
                       outbound |-> "unknown", surface |-> "unknown"],
            did |-> {}]

StatusInit ==
    /\ database \in {"up", "refuses"} /\ tables \in BOOLEAN /\ disk = TRUE
    /\ storageCircuit \in {"half_open", "cooled"}
    /\ pass = [c \in StatusCallers |-> Resting]
    /\ seen = [c \in StatusCallers |-> {}]
    /\ lastReport = NoReport /\ answer = NoReport
    /\ repair = "none" /\ listed = {} /\ faults = 0 /\ polls = 0

\* What a report may tell that is well, and what of it is so.
Claims == {"up", "complete"}
TrueNow == {f \in Claims : IF f = "up" THEN database = "up" ELSE tables}

StepIs(c, step) == pass[c].at = step
InTime(c) == pass[c].left > 0
Forced(c) == c \notin Pollers

(***************************************************************************)
(* status(): answered from the cache unless forced, else a measurement.    *)
(* The loop sleeps its interval and then calls with force=True.            *)
(***************************************************************************)
(* The mutant: force=True is answered from the cache as well.              *)
MutantForcedMayBeCached(c) == lastReport # NoReport /\ lastReport.left > 0

MayAnswerFromCache(c) == ~Forced(c) /\ lastReport # NoReport /\ lastReport.left > 0

Call(c) ==
    /\ StepIs(c, "idle")
    /\ c # TheLoop => polls < MaxPolls
    /\ polls' = IF c = TheLoop THEN polls ELSE polls + 1
    /\ IF MayAnswerFromCache(c)
       THEN /\ answer' = [to |-> c, told |-> lastReport.told,
                           since |-> IF Forced(c) THEN TrueNow ELSE lastReport.since]
            /\ UNCHANGED pass
       ELSE /\ pass' = [pass EXCEPT ![c] = [Resting EXCEPT !.at = "database", !.left = Budget]]
            /\ answer' = NoReport
    /\ UNCHANGED <<surroundings, lastReport, repair, listed, faults>>

(***************************************************************************)
(* run_timed: nothing is started once the budget is spent, and a check     *)
(* that does not finish inside it is reported as unknown.                  *)
(***************************************************************************)
Next3 == [database |-> "schema", schema |-> "evidence", evidence |-> "memory"]

CheckDatabase == IF database = "up" THEN {"ok"} ELSE {"down"}
CheckTables ==
    IF database # "up" THEN {"unknown"} ELSE IF tables THEN {"ok"} ELSE {"down"}
CheckIntegrity ==
    IF database = "up" /\ tables THEN EvidenceFinds ELSE {"unknown"}

Finds(step) ==
    CASE step = "database" -> CheckDatabase
      [] step = "schema"   -> CheckTables
      [] step = "evidence" -> CheckIntegrity

RunTimed(c) ==
    \E step \in DOMAIN Next3 :
        /\ StepIs(c, step)
        /\ \/ InTime(c) /\ database # "hangs"
              /\ \E s \in Finds(step) :
                    pass' = [pass EXCEPT ![c].at = Next3[step], ![c].found[step] = s]
           \/ ~InTime(c) /\ pass' = [pass EXCEPT ![c].at = Next3[step]]
        /\ answer' = NoReport /\ UNCHANGED <<surroundings, lastReport, repair, listed, bounds>>

(***************************************************************************)
(* The checks that read memory, then heal(): the directories when the      *)
(* database was found down, create_all when tables were found missing, and *)
(* a reset of every breaker whose cooldown is over.                        *)
(***************************************************************************)
CheckPeers ==
    CASE storageCircuit = "closed"    -> "ok"
      [] storageCircuit = "half_open" -> "degraded"
      [] OTHER                        -> "down"

CheckScheduler == IF SchedulerRuns THEN "ok" ELSE "unconfigured"
CheckOutboundDelivery(c) == IF InTime(c) THEN OutboundFinds ELSE {"unknown"}
CheckAgentLoop(c) == IF InTime(c) THEN "ok" ELSE "unknown"  \* every required route is mounted

CheckMemory(c) ==
    /\ StepIs(c, "memory")
    /\ \E outbound \in CheckOutboundDelivery(c) :
       LET found == [pass[c].found EXCEPT !.scheduler = CheckScheduler, !.peers = CheckPeers,
                                          !.outbound = outbound, !.surface = CheckAgentLoop(c)] IN
       \/ /\ found.database = "down" /\ ~disk          \* mkdir raises: so does status()
          /\ pass' = [pass EXCEPT ![c] = Resting]
       \/ /\ found.database = "down" => disk
          /\ pass' = [pass EXCEPT ![c].found = found, ![c].left = 0,
                                  ![c].did = IF found.database = "down" THEN {"directories"} ELSE {},
                                  ![c].at = IF found.schema = "down" THEN "list" ELSE "reset"]
    /\ answer' = NoReport /\ UNCHANGED <<surroundings, lastReport, repair, listed, bounds>>

ListTables(who) == listed' = IF tables THEN listed \ {who} ELSE listed \cup {who}

HealLists(c) ==
    /\ StepIs(c, "list") /\ database # "hangs"
    /\ IF database = "up"
       THEN ListTables(c) /\ pass' = [pass EXCEPT ![c].at = "create"]
       ELSE pass' = [pass EXCEPT ![c].at = "reset"] /\ UNCHANGED listed
    /\ answer' = NoReport /\ UNCHANGED <<surroundings, lastReport, repair, bounds>>

CreateSucceeds(who) == database = "up" /\ (who \in listed => ~tables)

(* The mutant: the tables are created in a transaction never committed.    *)
MutantHealUncommitted(c) ==
    /\ StepIs(c, "create") /\ database # "hangs"
    /\ listed' = listed \ {c}
    /\ pass' = [pass EXCEPT ![c].at = "reset",
                            ![c].did = IF CreateSucceeds(c) THEN @ \cup {"tables"} ELSE @]
    /\ answer' = NoReport /\ UNCHANGED <<surroundings, lastReport, repair, bounds>>

HealCreates(c) ==
    /\ StepIs(c, "create") /\ database # "hangs"
    /\ tables' = IF CreateSucceeds(c) THEN (tables \/ c \in listed) ELSE tables
    /\ listed' = listed \ {c}
    /\ pass' = [pass EXCEPT ![c].at = "reset",
                            ![c].did = IF CreateSucceeds(c) THEN @ \cup {"tables"} ELSE @]
    /\ answer' = NoReport /\ UNCHANGED <<database, disk, storageCircuit, lastReport, repair, bounds>>

ResetPeers(c) ==
    /\ StepIs(c, "reset")
    /\ storageCircuit' = IF storageCircuit = "cooled" THEN "closed" ELSE storageCircuit
    /\ pass' = [pass EXCEPT ![c].did = IF storageCircuit = "cooled" THEN @ \cup {"reset"} ELSE @,
                            ![c].at = "recheck"]
    /\ answer' = NoReport /\ UNCHANGED <<database, tables, disk, lastReport, repair, listed, bounds>>

(***************************************************************************)
(* What was repaired is measured again, outside any budget.                *)
(***************************************************************************)
Recheck(c) ==
    /\ StepIs(c, "recheck")
    /\ pass[c].did \cap {"directories", "tables"} # {} => database # "hangs"
    /\ \E d \in CheckDatabase, s \in CheckTables :
        pass' = [pass EXCEPT
            ![c].found.database = IF "directories" \in pass[c].did THEN d ELSE @,
            ![c].found.schema   = IF "tables" \in pass[c].did THEN s ELSE @,
            ![c].at = "report"]
    /\ answer' = NoReport /\ UNCHANGED <<surroundings, lastReport, repair, listed, bounds>>

\* What the report tells that is well: found so, or repaired and not measured since.
Reported(c) ==
    {f \in Claims : IF f = "up" THEN pass[c].found.database = "ok"
                    ELSE pass[c].found.schema = "ok" \/ "tables" \in pass[c].did}

AnswerPoll(c) ==
    /\ StepIs(c, "report")
    /\ lastReport' = [left |-> CacheTime, told |-> Reported(c), since |-> seen[c]]
    /\ answer' = [to |-> c, told |-> Reported(c), since |-> seen[c]]
    /\ pass' = [pass EXCEPT ![c] = Resting]
    /\ UNCHANGED <<surroundings, repair, listed, bounds>>

(***************************************************************************)
(* schedule_schema_repair, called for a request that met a missing table,  *)
(* and the ensure_schema task it starts.                                   *)
(***************************************************************************)
ScheduleSchemaRepair ==
    /\ database = "up" /\ ~tables /\ repair = "none"
    /\ repair' = "create" /\ ListTables("repair")
    /\ answer' = NoReport /\ UNCHANGED <<surroundings, pass, lastReport, bounds>>

EnsureSchema ==
    /\ repair # "none" /\ database # "hangs"
    /\ IF repair = "create"
       THEN /\ tables' = IF CreateSucceeds("repair") THEN TRUE ELSE tables
            /\ listed' = listed \ {"repair"} /\ repair' = "verify"
       ELSE repair' = "none" /\ UNCHANGED <<tables, listed>>
    /\ answer' = NoReport /\ UNCHANGED <<database, disk, storageCircuit, pass, lastReport, bounds>>

(***************************************************************************)
(* The surroundings: time, the database, the disk and the peer.            *)
(***************************************************************************)
StatusTick ==
    /\ \A c \in StatusCallers : pass[c].at \in DOMAIN Next3 => InTime(c) /\ database = "hangs"
    /\ pass' = [c \in StatusCallers |-> [pass[c] EXCEPT !.left = IF @ > 0 THEN @ - 1 ELSE 0]]
    /\ lastReport' = IF lastReport = NoReport THEN NoReport
                     ELSE [lastReport EXCEPT !.left = IF @ > 0 THEN @ - 1 ELSE 0]
    /\ answer' = NoReport /\ UNCHANGED <<surroundings, repair, listed, bounds>>

Fault ==
    /\ faults < MaxFaults /\ faults' = faults + 1
    /\ \/ /\ database' \in {"up", "refuses", "hangs"} \ {database}
          /\ UNCHANGED <<tables, disk, storageCircuit>>
       \/ tables /\ tables' = FALSE /\ UNCHANGED <<database, disk, storageCircuit>>
       \/ disk /\ disk' = FALSE /\ UNCHANGED <<database, tables, storageCircuit>>
       \/ storageCircuit = "closed" /\ storageCircuit' = "open" /\ UNCHANGED <<database, tables, disk>>
    /\ answer' = NoReport /\ UNCHANGED <<pass, lastReport, repair, listed, polls>>

PassStep(c) ==
    \/ RunTimed(c) \/ CheckMemory(c) \/ HealLists(c) \/ HealCreates(c)
    \/ ResetPeers(c) \/ Recheck(c) \/ AnswerPoll(c)

\* What is so in the next state is seen by every pass under way then.
Witness == seen' = [c \in StatusCallers |-> IF pass'[c].at = "idle" THEN {}
                                            ELSE seen[c] \cup TrueNow']

StatusNext ==
    /\ \/ \E c \in StatusCallers : Call(c) \/ PassStep(c)
       \/ ScheduleSchemaRepair \/ EnsureSchema \/ StatusTick \/ Fault
    /\ Witness

(***************************************************************************)
(* The loop never ends: each sleep is over at some point, an await of a    *)
(* database that answers resumes, and timers fire.                         *)
(***************************************************************************)
StatusFairness ==
    /\ WF_statusSteps(Call(TheLoop)) /\ WF_statusSteps(PassStep(TheLoop))
    /\ WF_statusSteps(StatusTick)

StatusSpec == StatusInit /\ [][StatusNext]_statusVars /\ StatusFairness

-----------------------------------------------------------------------------
(* Nobody is told of a repair that was not: an operator or the loop is     *)
(* told that the database answers, that the schema is complete or that its *)
(* tables were created only if that was so at some moment since it asked,  *)
(* whatever other passes and repairs create, fail or cache meanwhile; a    *)
(* poller only if it was so since the pass that filled the cache began     *)
(* (status(), B19: a dropped table stayed missing while the response       *)
(* reported an applied repair).                                            *)
RepairsAreReal == answer # NoReport => answer.told \subseteq answer.since

(* The background loop repairs an incomplete schema: once the database     *)
(* stays reachable, tables that are missing come back, however many passes *)
(* failed before and whoever else was creating them (self_healing_loop).   *)
SchemaIsRepaired == <>[](database = "up") => []<>tables
=============================================================================

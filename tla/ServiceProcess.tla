--------------------------- MODULE ServiceProcess ---------------------------
(***************************************************************************)
(* The life of one server process: lifespan() of api/app.py.  It verifies  *)
(* the schema, opens the emitter's HTTP client, starts the scheduler on    *)
(* one shared session and the background tasks (the healing loop, the      *)
(* Memora worker and, outside production and only when asked for, a demo   *)
(* seed of an empty database), serves, and releases all of it in order.    *)
(* The process may crash anywhere and start again on the same database.    *)
(*                                                                         *)
(* Whatever is closed opens again when somebody uses it: the emitter makes *)
(* another client, a fit another pool, the session and the engine connect  *)
(* anew; nobody would close that.  The scheduler library cancels the       *)
(* coroutine of a running job and waits for none; what the fit of such a   *)
(* job costs is waited for without a limit, with the pool.                 *)
(***************************************************************************)
EXTENDS Naturals, FiniteSets

CONSTANTS
    RecurringJobs,  \* the recurring jobs of the scheduler
    SeedSize,       \* forecasts the demo seed commits one by one
    MaxStarts,      \* bound: starts of the process
    MaxRuns         \* bound: job runs

ASSUME SomeSeed == SeedSize \in Nat \ {0} /\ "seed" \notin RecurringJobs

Tasks == {"heal", "memora", "seed"}

VARIABLES
    lifespan,   \* where lifespan() stands
    jobState,   \* job -> "off", "running", "emitting" or "cut": cancelled and unwinding
    fits,       \* whose fit is queued or running in the worker processes of the pool
    signals,    \* broadcasts to FRIDAY and Stratex in flight, _in_flight_tasks
    task,       \* background task -> "off", "running" or "cut"
    seeding,    \* how far the seed task of this process is: 0 before its count
    opened,     \* what is open: the "client", the "session", the "pool", the "database"
    forecasts,  \* forecasts in the database
    boots, runs

processVars == <<lifespan, jobState, fits, signals, task, seeding, opened, forecasts, boots, runs>>

ProcessInit ==
    /\ lifespan = "down" /\ jobState = [j \in RecurringJobs |-> "off"] /\ fits = {} /\ signals = 0
    /\ task = [t \in Tasks |-> "off"] /\ seeding = 0 /\ opened = {}
    /\ forecasts \in {0, 1} /\ boots = 0 /\ runs = 0

(***************************************************************************)
(* Startup.  A schema that cannot be verified is logged, not refused.      *)
(***************************************************************************)
Start ==
    /\ lifespan = "down" /\ boots < MaxStarts /\ boots' = boots + 1
    /\ lifespan' = "booting" /\ opened' = {"database"}
    /\ UNCHANGED <<jobState, fits, signals, task, seeding, forecasts, runs>>

StartWorkers ==
    /\ lifespan = "booting" /\ lifespan' = "serving"
    /\ opened' = opened \cup {"client", "session"}
    /\ \E chosen \in SUBSET Tasks :          \* which of them the settings ask for
        task' = [t \in Tasks |-> IF t \in chosen THEN "running" ELSE "off"]
    /\ seeding' = 0
    /\ UNCHANGED <<jobState, fits, signals, forecasts, boots, runs>>

(***************************************************************************)
(* The recurring jobs.  None commits the shared session: what a job stores *)
(* is gone when that is closed.                                            *)
(***************************************************************************)
RunJob(j) ==
    /\ lifespan = "serving" /\ jobState[j] = "off" /\ runs < MaxRuns /\ runs' = runs + 1
    /\ jobState' = [jobState EXCEPT ![j] = "running"]
    /\ UNCHANGED <<lifespan, fits, signals, task, seeding, opened, forecasts, boots>>

Awake(j) == jobState[j] = "running" /\ j \notin fits

(* The pool is opened by the first fit.                                    *)
JobFits(j) ==
    /\ Awake(j) /\ fits' = fits \cup {j} /\ opened' = opened \cup {"pool"}
    /\ UNCHANGED <<lifespan, jobState, signals, task, seeding, forecasts, boots, runs>>

(* It ends, fails or, still queued, is cancelled with the pool; the job    *)
(* may have been cut, and run again, in the meantime.                      *)
FitEnds(w) ==
    /\ w \in fits /\ fits' = fits \ {w}
    /\ UNCHANGED <<lifespan, jobState, signals, task, seeding, opened, forecasts, boots, runs>>

(* The forecast and its event are flushed; the event is emitted at once.   *)
JobStores(j) ==
    /\ Awake(j)
    /\ \/ opened' = opened \cup {"session", "database"} /\ UNCHANGED jobState
       \/ opened' = opened \cup {"session", "database", "client"}
          /\ jobState' = [jobState EXCEPT ![j] = "emitting"]
    /\ UNCHANGED <<lifespan, fits, signals, task, seeding, forecasts, boots, runs>>

JobEmitted(j) ==
    /\ jobState[j] = "emitting" /\ jobState' = [jobState EXCEPT ![j] = "running"]
    /\ UNCHANGED <<lifespan, fits, signals, task, seeding, opened, forecasts, boots, runs>>

(* A broadcast is a task with a client of its own.                         *)
JobTells(j) ==
    /\ Awake(j) /\ signals = 0 /\ signals' = 1
    /\ UNCHANGED <<lifespan, jobState, fits, task, seeding, opened, forecasts, boots, runs>>

SignalEnds ==
    /\ signals > 0 /\ signals' = signals - 1
    /\ UNCHANGED <<lifespan, jobState, fits, task, seeding, opened, forecasts, boots, runs>>

JobEnds(j) ==
    /\ Awake(j) \/ jobState[j] = "cut"
    /\ jobState' = [jobState EXCEPT ![j] = "off"]
    /\ UNCHANGED <<lifespan, fits, signals, task, seeding, opened, forecasts, boots, runs>>

(***************************************************************************)
(* The background tasks.  _bg_seed counts the forecasts first and seeds an *)
(* empty database only; each forecast of the seed is committed by itself.  *)
(***************************************************************************)
TaskWorks(t) ==
    /\ task[t] = "running" /\ t # "seed" /\ opened' = opened \cup {"database"}
    /\ UNCHANGED <<lifespan, jobState, fits, signals, task, seeding, forecasts, boots, runs>>

SeedCounts ==
    /\ task["seed"] = "running" /\ seeding = 0 /\ opened' = opened \cup {"database"}
    /\ IF forecasts = 0 THEN seeding' = 1 /\ UNCHANGED task
       ELSE task' = [task EXCEPT !["seed"] = "off"] /\ UNCHANGED seeding
    /\ UNCHANGED <<lifespan, jobState, fits, signals, forecasts, boots, runs>>

SeedFits ==
    /\ task["seed"] = "running" /\ seeding > 0 /\ "seed" \notin fits
    /\ fits' = fits \cup {"seed"} /\ opened' = opened \cup {"pool"}
    /\ UNCHANGED <<lifespan, jobState, signals, task, seeding, forecasts, boots, runs>>

SeedStores ==
    /\ task["seed"] = "running" /\ seeding > 0 /\ "seed" \notin fits
    /\ forecasts' = (IF forecasts < SeedSize THEN forecasts + 1 ELSE forecasts)
    /\ opened' = opened \cup {"database"}
    /\ seeding' = IF seeding = SeedSize THEN 0 ELSE seeding + 1
    /\ task' = [task EXCEPT !["seed"] = IF seeding = SeedSize THEN "off" ELSE @]
    /\ UNCHANGED <<lifespan, jobState, fits, signals, boots, runs>>

(* The mutant: a loop that takes CancelledError for one more failed pass.  *)
MutantLoopSwallowsCancel(t) ==
    /\ task[t] = "cut" /\ task' = [task EXCEPT ![t] = IF t = "heal" THEN "running" ELSE "off"]
    /\ UNCHANGED <<lifespan, jobState, fits, signals, seeding, opened, forecasts, boots, runs>>

(* A cancelled task ends: the loops re-raise CancelledError, and what the  *)
(* seed had not committed is rolled back.                                  *)
TaskEnds(t) ==
    /\ task[t] = "cut" /\ task' = [task EXCEPT ![t] = "off"]
    /\ UNCHANGED <<lifespan, jobState, fits, signals, seeding, opened, forecasts, boots, runs>>

(***************************************************************************)
(* Shutdown, in the order of lifespan().  Nothing catches a failure of the *)
(* close of the session, on which a job may still unwind: what comes after *)
(* it is then skipped and the process ends.                                *)
(***************************************************************************)
(* The mutant: no further run is started, and those under way go on.       *)
MutantStopLetsJobsRun ==
    /\ lifespan = "serving" /\ lifespan' = "draining"
    /\ UNCHANGED <<jobState, fits, signals, task, seeding, opened, forecasts, boots, runs>>

StopScheduler ==
    /\ lifespan = "serving" /\ lifespan' = "draining"
    /\ jobState' = [j \in RecurringJobs |-> IF jobState[j] = "off" THEN "off" ELSE "cut"]
    /\ UNCHANGED <<fits, signals, task, seeding, opened, forecasts, boots, runs>>

Vanish ==
    /\ lifespan' = "down" /\ opened' = {} /\ fits' = {} /\ signals' = 0 /\ seeding' = 0
    /\ jobState' = [j \in RecurringJobs |-> "off"] /\ task' = [t \in Tasks |-> "off"]
    /\ UNCHANGED <<forecasts, boots, runs>>

CloseSession ==
    /\ lifespan = "draining" /\ signals = 0
    /\ \/ lifespan' = "cancelling" /\ opened' = opened \ {"session"}
          /\ UNCHANGED <<jobState, fits, signals, task, seeding, forecasts, boots, runs>>
       \/ Vanish

CancelTasks ==
    /\ lifespan = "cancelling" /\ lifespan' = "gathering"
    /\ task' = [t \in Tasks |-> IF task[t] = "running" THEN "cut" ELSE task[t]]
    /\ UNCHANGED <<jobState, fits, signals, seeding, opened, forecasts, boots, runs>>

AllGathered == \A t \in Tasks : task[t] = "off"

(* The handler around it has nothing to catch: no pool, broken or not,     *)
(* raises when it is shut down.                                            *)
ClosePool ==
    /\ lifespan = "gathering" /\ AllGathered
    /\ lifespan' = "pooling" /\ opened' = opened \ {"pool"}
    /\ UNCHANGED <<jobState, fits, signals, task, seeding, forecasts, boots, runs>>

(* pool.shutdown(wait=True) has returned.                                  *)
CloseClient ==
    /\ lifespan = "pooling" /\ fits = {}
    /\ lifespan' = "closing" /\ opened' = opened \ {"client"}
    /\ UNCHANGED <<jobState, fits, signals, task, seeding, forecasts, boots, runs>>

DisposeEngine ==
    /\ lifespan = "closing" /\ lifespan' = "exiting" /\ opened' = opened \ {"database"}
    /\ UNCHANGED <<jobState, fits, signals, task, seeding, forecasts, boots, runs>>

Exit == lifespan = "exiting" /\ Vanish
ProcessDies == lifespan \notin {"down", "exiting"} /\ boots < MaxStarts /\ Vanish

StopStep == CloseSession \/ CancelTasks \/ ClosePool \/ CloseClient \/ DisposeEngine \/ Exit

ProcessNext ==
    \/ Start \/ StartWorkers \/ SeedCounts \/ SeedFits \/ SeedStores \/ SignalEnds
    \/ \E j \in RecurringJobs :
         RunJob(j) \/ JobFits(j) \/ JobStores(j) \/ JobEmitted(j) \/ JobTells(j) \/ JobEnds(j)
    \/ \E w \in fits : FitEnds(w)
    \/ \E t \in Tasks : TaskWorks(t) \/ TaskEnds(t)
    \/ StopScheduler \/ StopStep \/ ProcessDies

(* Each await of the shutdown and of a cancelled task resumes; broadcasts  *)
(* are bounded by their timeouts, and a fit, which nothing bounds, ends.   *)
ProcessFairness ==
    /\ WF_processVars(StopStep) /\ WF_processVars(SignalEnds)
    /\ \A t \in Tasks : WF_processVars(TaskEnds(t))
    /\ \A w \in RecurringJobs \cup {"seed"} : WF_processVars(FitEnds(w))

ProcessSpec == ProcessInit /\ [][ProcessNext]_processVars /\ ProcessFairness

-----------------------------------------------------------------------------
(* What the shutdown has closed is not opened again by anybody it has not  *)
(* ended, and stays without users but for a job that unwinds: no broadcast *)
(* outlives the session's close, no background task the pool's, no fit the *)
(* client's, and the process leaves nothing open (after the yield of       *)
(* lifespan()).                                                            *)
ClosedStaysClosed ==
    /\ lifespan \in {"cancelling", "gathering", "pooling", "closing", "exiting"} =>
        "session" \notin opened /\ signals = 0
    /\ lifespan \in {"pooling", "closing", "exiting"} => "pool" \notin opened /\ AllGathered
    /\ lifespan \in {"closing", "exiting"} => "client" \notin opened /\ fits = {}
    /\ lifespan = "exiting" => opened = {}

(* A shutdown ends: no job, fit, broadcast or background task, wherever    *)
(* the request to stop met it, keeps the process from exiting.             *)
StopsCompletely == lifespan = "draining" ~> lifespan = "down"
=============================================================================

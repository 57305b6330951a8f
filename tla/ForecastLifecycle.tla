-------------------------- MODULE ForecastLifecycle --------------------------
(***************************************************************************)
(* The forecast lifecycle as the API process drives it: request handlers,  *)
(* each with a session of its own (futuris/api/routers/forecasts.py,       *)
(* futuris/api/routers/friday.py, futuris/api/deps.py), beside the         *)
(* unattended scheduler, whose jobs share one session for the life of the  *)
(* process (futuris/infra/scheduler.py, the lifespan of                    *)
(* futuris/api/app.py).                                                    *)
(*                                                                         *)
(* A handler awaits every statement, so statements of different sessions   *)
(* interleave: an action is the code between two awaits whose effects      *)
(* another session can observe.                                            *)
(***************************************************************************)
EXTENDS ForecastStore

CONSTANTS
  Requests,          (* the sessions of HTTP requests                     *)
  Scheduler,         (* the session all scheduled jobs share              *)
  SchedulerEnabled,  (* settings.SCHEDULER_ENABLED                        *)
  NoForecast         (* the target of a request that has not arrived      *)

ASSUME LifecycleAssumption ==
  /\ Requests \subseteq Sessions
  /\ Scheduler \in Sessions \ Requests
  /\ SchedulerEnabled \in BOOLEAN
  /\ NoForecast \notin Forecasts

VARIABLES
  req,       (* the requests in flight and answered                       *)
  sched      (* the calibration sweep and the state of its session        *)

vars == <<table, work, holder, req, sched>>

(* POST /forecasts, /friday/forecast and /predictions/predict;              *)
(* .../invalidate and .../cancel; .../resolve-manual and .../resolution.    *)
Creations == {"create", "delegate", "predict"}
Transitions == {"invalidate", "cancel"}
Resolutions == {"resolve_manual", "friday_resolution"}
Kinds == Creations \cup Transitions \cup Resolutions

\* FRIDAY's handlers and generate_universe_forecast commit before they return.
\* The others leave the commit to the teardown of get_db_session, which runs when
\* the response has left.
CommitFirst == {"delegate", "predict", "cancel", "friday_resolution"}

Phases == {"idle", "read", "readOutcome", "write", "flush", "respond", "commit", "reply", "done"}
InFlight == Phases \ {"idle", "done"}

(* 2xx, 404, 409, 5xx, and a connection that broke with the process.        *)
Answers == {"none", "ok", "not_found", "conflict", "error", "lost"}

NoRequest == [phase |-> "idle", kind |-> "create", fc |-> NoForecast, answer |-> "none"]

RequestStates == {NoRequest} \cup [phase: Phases \ {"idle"}, kind: Kinds, fc: Forecasts,
                                   answer: Answers]

FreshScheduler == [phase |-> "idle", todo |-> {}, broken |-> FALSE]

SchedulerStates == [phase: {"idle", "resolving", "flush"}, todo: SUBSET Forecasts,
                    broken: BOOLEAN]

Init ==
  /\ StoreInit
  /\ req = [r \in Requests |-> NoRequest]
  /\ sched = FreshScheduler

-----------------------------------------------------------------------------
(* Requests.                                                                *)

Goto(r, phase) == req' = [req EXCEPT ![r].phase = phase]

Answer(r, answer) == req' = [req EXCEPT ![r].phase = "done", ![r].answer = answer]

At(r, phase) == req[r].phase = phase

\* Everything is flushed: the commit and the answer are left.
Written(kind) == IF kind \in CommitFirst THEN "commit" ELSE "respond"

\* A request on an existing forecast; the path parameter may name no forecast.
Arrive(r) ==
  /\ At(r, "idle")
  /\ \E k \in Kinds \ Creations, f \in Forecasts :
       req' = [req EXCEPT ![r] = [phase |-> "read", kind |-> k, fc |-> f, answer |-> "none"]]
  /\ UNCHANGED <<storeVars, sched>>

\* A universe target without telemetry gets a forecast that says it has no numbers.
BirthStatuses == {"active", "insufficient_data"}
Births(kind) == IF kind = "predict" THEN BirthStatuses ELSE {"active"}

\* The pipeline has run, and the row and its event are flushed.
Create(r) ==
  /\ At(r, "idle")
  /\ \E k \in Creations : \E st \in Births(k), f \in Forecasts :
       /\ CreateRow(r, f, st)
       /\ req' = [req EXCEPT ![r] = [phase |-> Written(k), kind |-> k, fc |-> f,
                                     answer |-> "none"]]
  /\ UNCHANGED sched

\* Every handler on an existing forecast reads it first and answers 404 when
\* there is none; a resolution also refuses a forecast that is not live.
ReadForecast(r) ==
  /\ At(r, "read")
  /\ LET seen == Sees(r, req[r].fc).status IN
       CASE seen = "absent" -> Answer(r, "not_found")
         [] seen # "absent" /\ req[r].kind \in Resolutions /\ seen \notin Live ->
              Answer(r, "conflict")
         [] seen # "absent" /\ req[r].kind \in Resolutions /\ seen \in Live ->
              Goto(r, "readOutcome")
         [] OTHER -> Goto(r, "write")
  /\ UNCHANGED <<storeVars, sched>>

ReadOutcome(r) ==
  /\ At(r, "readOutcome")
  /\ IF Sees(r, req[r].fc).outcome # NoSession THEN Answer(r, "conflict") ELSE Goto(r, "write")
  /\ UNCHANGED <<storeVars, sched>>

NewStatus(kind) == IF kind = "invalidate" THEN "invalidated" ELSE "cancelled"

MutantTransitionNoWait(r) ==
  LET f == req[r].fc
      st == NewStatus(req[r].kind)
  IN /\ At(r, "write") /\ req[r].kind \in Transitions
     /\ IF RowFree(r, f) /\ TransitionMatches(r, f)
        THEN UpdateStatus(r, f, st, {st}) /\ Goto(r, Written(req[r].kind))
        ELSE UNCHANGED storeVars /\ Answer(r, "conflict")
     /\ UNCHANGED sched

\* invalidate_forecast and cancel_forecast: the conditional UPDATE, then the
\* events and the audit entry under the same row lock.
Transition(r) ==
  LET f == req[r].fc
      st == NewStatus(req[r].kind)
  IN /\ At(r, "write") /\ req[r].kind \in Transitions
     /\ RowFree(r, f)
     /\ IF TransitionMatches(r, f)
        THEN UpdateStatus(r, f, st, {st}) /\ Goto(r, Written(req[r].kind))
        ELSE UNCHANGED storeVars /\ Answer(r, "conflict")
     /\ UNCHANGED sched

\* resolve_manual and resolve_forecast, from the UPDATE of record_outcome on.
ResolveUpdate(r) ==
  /\ At(r, "write") /\ req[r].kind \in Resolutions
  /\ MarkResolved(r, req[r].fc)
  /\ Goto(r, "flush")
  /\ UNCHANGED sched

MutantFlushKeepsTransaction(r) ==
  LET f == req[r].fc IN
  /\ At(r, "flush")
  /\ IF OutcomeClashes(r, f)
     THEN UNCHANGED storeVars /\ Answer(r, "conflict")
     ELSE InsertOutcome(r, f, {"updated"}) /\ Goto(r, Written(req[r].kind))
  /\ UNCHANGED sched

\* A second outcome row fails the flush: the session is rolled back and the
\* IntegrityError handler answers 409.  Otherwise update_status and the second
\* event follow under the same row lock.
ResolveFlush(r) ==
  LET f == req[r].fc IN
  /\ At(r, "flush")
  /\ IF OutcomeClashes(r, f)
     THEN Rollback({r}) /\ Answer(r, "conflict")
     ELSE InsertOutcome(r, f, {"updated"}) /\ Goto(r, Written(req[r].kind))
  /\ UNCHANGED sched

\* The response of a handler that leaves the commit to the teardown.
Respond(r) ==
  /\ At(r, "respond")
  /\ req' = [req EXCEPT ![r].phase = "commit", ![r].answer = "ok"]
  /\ UNCHANGED <<storeVars, sched>>

AfterCommit(r) == IF req[r].answer = "ok" THEN "done" ELSE "reply"

MutantSwallowedCommit(r) ==
  /\ At(r, "commit")
  /\ Commit(r) \/ Rollback({r})
  /\ Goto(r, AfterCommit(r))
  /\ UNCHANGED sched

\* The commit, in the handler (FRIDAY) or in the teardown of get_db_session.
CommitRequest(r) ==
  /\ At(r, "commit")
  /\ Commit(r)
  /\ Goto(r, AfterCommit(r))
  /\ UNCHANGED sched

Reply(r) ==
  /\ At(r, "reply")
  /\ Answer(r, "ok")
  /\ UNCHANGED <<storeVars, sched>>

\* An answer that has left is not taken back.
Unless(r, answer) == IF req[r].answer = "ok" THEN "ok" ELSE answer

\* A storage error in any statement or in the commit: safe_rollback, then 5xx
\* unless the response has left already.  A commit whose acknowledgement is lost has
\* taken effect, and leaves the rollback nothing to undo.  Only /predict has a
\* statement left after its commit: the audit entry.
Fail(r) ==
  /\ req[r].phase \in InFlight
  /\ At(r, "reply") => req[r].kind = "predict"
  /\ Rollback({r}) \/ (At(r, "commit") /\ Commit(r))
  /\ Answer(r, Unless(r, "error"))
  /\ UNCHANGED sched

RequestStep(r) ==
  \/ ReadForecast(r) \/ ReadOutcome(r) \/ Transition(r) \/ ResolveUpdate(r)
  \/ ResolveFlush(r) \/ Respond(r) \/ CommitRequest(r) \/ Reply(r)

-----------------------------------------------------------------------------
(* The scheduler.  No job commits, and no job rolls back: a failed flush    *)
(* leaves the shared session refusing every later statement.                *)

SchedulerReady == SchedulerEnabled /\ ~sched.broken

\* The clock is not a variable: any of the forecasts without an answer may have
\* passed its horizon when they are listed.
Unresolved(s) == {f \in Forecasts : Sees(s, f).status = "active"}

\* calibration_sweep_job lists the active forecasts past their horizon.
CalibrationList ==
  /\ SchedulerReady /\ sched.phase = "idle"
  /\ \E overdue \in (SUBSET Unresolved(Scheduler)) \ {{}} :
       sched' = [sched EXCEPT !.phase = "resolving", !.todo = overdue]
  /\ UNCHANGED <<storeVars, req>>

\* resolve_forecast raises for this forecast: logged, and the loop goes on.
CalibrationSkip(f) ==
  /\ sched.phase = "resolving" /\ f \in sched.todo
  /\ sched' = [sched EXCEPT !.todo = @ \ {f}]
  /\ UNCHANGED <<storeVars, req>>

CalibrationUpdate(f) ==
  /\ sched.phase = "resolving" /\ f \in sched.todo
  /\ MarkResolved(Scheduler, f)
  /\ sched' = [sched EXCEPT !.phase = "flush"]
  /\ UNCHANGED req

\* The forecast whose UPDATE was sent and whose outcome is not inserted yet.
Unflushed(f) ==
  /\ holder[f] = Scheduler /\ f \in sched.todo
  /\ work[f].status = "resolved"

CalibrationFlush(f) ==
  /\ sched.phase = "flush" /\ Unflushed(f)
  /\ IF OutcomeClashes(Scheduler, f)
     THEN /\ Rollback({Scheduler})
          /\ sched' = [phase |-> "idle", todo |-> {}, broken |-> TRUE]
     ELSE /\ InsertOutcome(Scheduler, f, {})
          /\ sched' = [sched EXCEPT !.phase = "resolving", !.todo = @ \ {f}]
  /\ UNCHANGED req

CalibrationEnd ==
  /\ sched.phase = "resolving" /\ sched.todo = {}
  /\ sched' = [sched EXCEPT !.phase = "idle"]
  /\ UNCHANGED <<storeVars, req>>

\* forecast_refresh_job: a new active forecast in the shared session.
Refresh(f) ==
  /\ SchedulerReady /\ sched.phase # "flush"
  /\ CreateRow(Scheduler, f, "active")
  /\ UNCHANGED <<req, sched>>

\* backtest_nightly_job: a historical forecast created and resolved at once.
Backtest(f) ==
  /\ SchedulerReady /\ sched.phase # "flush"
  /\ Unused(f)
  /\ Write(Scheduler, f, [status |-> "resolved", outcome |-> Scheduler,
                          log |-> Events(Scheduler, {"created", "outcome_recorded"})])
  /\ UNCHANGED <<req, sched>>

SchedulerStep ==
  \/ CalibrationList \/ CalibrationEnd
  \/ \E f \in Forecasts : CalibrationSkip(f) \/ CalibrationUpdate(f) \/ CalibrationFlush(f)
  \/ \E f \in Forecasts : Refresh(f) \/ Backtest(f)

-----------------------------------------------------------------------------
(* The environment.                                                         *)

\* The process stops, in order or by a crash: every session ends with a
\* rollback, the requests in flight lose their connection, and the next
\* process starts with a fresh scheduler session.
Restart ==
  /\ Rollback(Requests \cup {Scheduler})
  /\ req' = [r \in Requests |-> IF req[r].phase \in InFlight
                                THEN [req[r] EXCEPT !.phase = "done", !.answer = Unless(r, "lost")]
                                ELSE req[r]]
  /\ sched' = FreshScheduler

Next ==
  \/ \E r \in Requests : Arrive(r) \/ Create(r) \/ RequestStep(r) \/ Fail(r)
  \/ SchedulerStep
  \/ Restart

\* The event loop runs every coroutine that can run, the database grants a free
\* row, and APScheduler fires its interval jobs; clients, errors and crashes
\* promise nothing.
Fairness ==
  /\ \A r \in Requests : WF_vars(RequestStep(r))
  /\ WF_vars(CalibrationList)
  /\ WF_vars(CalibrationEnd)
  /\ \A f \in Forecasts : WF_vars(CalibrationUpdate(f)) /\ WF_vars(CalibrationFlush(f))

Spec == Init /\ [][Next]_vars

FairSpec == Spec /\ Fairness

-----------------------------------------------------------------------------
(* Properties.                                                              *)

TypeOK ==
  /\ StoreTypeOK
  /\ req \in [Requests -> RequestStates]
  /\ sched \in SchedulerStates

\* A forecast is resolved exactly when it has an outcome row, whatever requests
\* and scheduled jobs race for it ("the outcome row and the forecast status then
\* disagreed", repositories.py:338).
ResolvedIffOutcome ==
  \A f \in Forecasts : (table[f].status = "resolved") <=> (table[f].outcome # NoSession)

\* Outcomes are immutable: once committed, an outcome row is neither replaced
\* nor removed ("outcomes are immutable", forecasts.py:572).
OutcomeWriteOnce ==
  [][\A f \in Forecasts : table[f].outcome # NoSession => table'[f].outcome = table[f].outcome]_vars

\* The event a successful request of each kind has written.
Effect(kind) ==
  CASE kind \in Creations -> "created"
    [] kind \in Transitions -> NewStatus(kind)
    [] kind \in Resolutions -> "outcome_recorded"

Recorded(r) ==
  /\ <<Effect(req[r].kind), r>> \in table[req[r].fc].log
  /\ req[r].kind \in Resolutions => table[req[r].fc].outcome = r

\* A success FRIDAY has seen is in the committed tables and stays there, and a
\* resolution that succeeded is the one whose outcome the forecast keeps.
SuccessIsDurable ==
  \A r \in Requests : req[r].answer = "ok" /\ req[r].kind \in CommitFirst => Recorded(r)

\* What a request of each kind leaves in the log of its forecast.
Traces(kind) ==
  CASE kind \in Creations -> {"created"}
    [] kind \in Transitions -> {"updated", NewStatus(kind)}
    [] kind \in Resolutions -> {"updated", "outcome_recorded"}

HasNothing(r, record) == record.outcome # r /\ record.log \cap (EventKinds \X {r}) = {}

HasEverything(r, kind, record) ==
  /\ record.log \cap (EventKinds \X {r}) = Events(r, Traces(kind))
  /\ (record.outcome = r) <=> kind \in Resolutions

\* A request is all or nothing, whatever it was told.  Once it is over it holds no row
\* and either has left nothing anywhere or has written the whole of its kind, events
\* and outcome, to its own forecast and nothing else; after 404 and 409 it is nothing.
\* A 5xx and a broken connection leave FRIDAY either of the two: the commit may have
\* taken effect before its acknowledgement was lost.
RequestsAreAtomic ==
  \A r \in Requests : req[r].phase = "done" =>
    /\ \A f \in Forecasts : holder[f] # r
    /\ \A f \in Forecasts :
         \/ HasNothing(r, table[f])
         \/ f = req[r].fc /\ HasEverything(r, req[r].kind, table[f])
    /\ req[r].answer \in {"not_found", "conflict"} =>
         \A f \in Forecasts : HasNothing(r, table[f])

\* 409 is final: a request is told "conflict" only about a forecast that has left
\* the live statuses for good, so that retrying it is pointless.
ConflictIsFinal ==
  \A r \in Requests : req[r].answer = "conflict" =>
    table[req[r].fc].status \notin Live \cup {"absent"}

\* Why the tables stay consistent: a row without a holder shows what is committed,
\* a row in work never drops a committed outcome or event, and each request holds
\* exactly the row it has written, in a shape that is safe to commit.
RowInv(f) ==
  /\ holder[f] \in Requests \cup {Scheduler, NoSession}
  /\ holder[f] = NoSession => work[f] = table[f]
  /\ table[f].outcome # NoSession => work[f].outcome = table[f].outcome
  /\ table[f].log \subseteq work[f].log
  /\ (table[f].status = "resolved") <=> (table[f].outcome # NoSession)

Holding == {"flush", "respond", "commit"}

Holds(r) ==
  /\ \A f \in Forecasts : holder[f] = r => req[r].fc = f /\ req[r].phase \in Holding
  /\ req[r].phase \in Holding => holder[req[r].fc] = r

\* What a resolution has seen of its forecast stays true while it waits.
Answerable(f) == table[f].status \notin {"absent", "insufficient_data"}

ResolutionInv(r) ==
  req[r].phase \in {"readOutcome", "write", "flush"} /\ req[r].kind \in Resolutions
    => Answerable(req[r].fc)

FlushInv(r) ==
  req[r].phase = "flush" =>
    /\ req[r].kind \in Resolutions
    /\ work[req[r].fc].status = "resolved"
    /\ work[req[r].fc].outcome = table[req[r].fc].outcome

CommitInv(r) ==
  LET before == table[req[r].fc]
      after == work[req[r].fc]
  IN req[r].phase \in {"respond", "commit"} =>
       /\ <<Effect(req[r].kind), r>> \in after.log
       /\ req[r].kind \in Creations =>
            before = NoRecord /\ after.status \in BirthStatuses /\ after.outcome = NoSession
       /\ req[r].kind \in Transitions =>
            /\ before.status \in Live
            /\ after.status \in Withdrawn
            /\ after.outcome = before.outcome
       /\ req[r].kind \in Resolutions =>
            /\ Answerable(req[r].fc)
            /\ before.outcome = NoSession
            /\ after.status = "resolved"
            /\ after.outcome = r

RespondInv(r) == At(r, "respond") => req[r].kind \notin CommitFirst

SuccessInv(r) ==
  /\ req[r].answer = "ok" =>
       At(r, "done") \/ (At(r, "commit") /\ req[r].kind \notin CommitFirst)
  /\ At(r, "reply") \/ (req[r].answer = "ok" /\ req[r].kind \in CommitFirst) => Recorded(r)

RequestInv(r) ==
  /\ Holds(r) /\ ResolutionInv(r) /\ FlushInv(r)
  /\ CommitInv(r) /\ RespondInv(r) /\ SuccessInv(r)

Consistency ==
  /\ TypeOK
  /\ \A f \in Forecasts : RowInv(f)
  /\ \A r \in Requests : RequestInv(r)

\* The committed tables keep the promise: every commit is one birth, one
\* withdrawal of a live forecast or one first outcome.
Promise == INSTANCE ForecastPromise
  WITH status <- [f \in Forecasts |-> table[f].status],
       outcome <- [f \in Forecasts |-> table[f].outcome]

KeepsPromise == Promise!PromiseSpec

\* A withdrawn forecast never gets an outcome: "Resolving an invalidated or
\* cancelled forecast would manufacture an outcome for a prediction the platform
\* had already withdrawn" (forecasts.py:554-556).
WithdrawnStaysWithdrawn ==
  [][\A f \in Forecasts : table[f].status \in Withdrawn => table'[f].status = table[f].status]_vars

\* Every request in flight is answered.
RequestsAnswered ==
  \A r \in Requests : req[r].phase \in InFlight ~> req[r].phase = "done"

\* What the calibration sweep resolves becomes visible: once it has written the
\* outcome of a forecast past its horizon, the outcome is eventually committed
\* ("Resolve expired forecasts against observations", scheduler.py:288).
SweepResolutionLasts ==
  \A f \in Forecasts :
    (table[f].status = "active" /\ holder[f] = Scheduler /\ work[f].outcome = Scheduler)
      ~> table[f].outcome # NoSession
=============================================================================

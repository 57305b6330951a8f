---------------------------- MODULE ForecastSweep ----------------------------
(***************************************************************************)
(* LifecycleManager.run_lifecycle_sweep (futuris/core/lifecycle.py) run    *)
(* once, by `futuris demo` (DemoSeeder.run, which commits) or by           *)
(* `futuris sweep` (which does not), in a session of its own beside the    *)
(* running API.  The sweep lists the active forecasts once and then works  *)
(* through the list; every row it writes stays locked until it ends.       *)
(***************************************************************************)
EXTENDS ForecastLifecycle

CONSTANTS
  Sweeper,           (* the session of the sweep                          *)
  SweepCommits,      (* does the caller commit after the sweep?           *)
  AssumptionBroken,  (* forecasts with a capacity event in their window   *)
  Seeded,            (* active forecasts in the database,                 *)
  Earlier            (* and the session that created them                 *)

ASSUME SweepAssumption ==
  /\ Sweeper \in Sessions \ (Requests \cup {Scheduler})
  /\ SweepCommits \in BOOLEAN
  /\ AssumptionBroken \subseteq Forecasts
  /\ Seeded \subseteq Forecasts
  /\ Earlier \in Sessions \ (Requests \cup {Scheduler, Sweeper})

VARIABLE sweep

sweepVars == <<vars, sweep>>

NoSweep == [phase |-> "idle", listed |-> {}, todo |-> {}]

\* "aborted": an exception left the sweep, or its process died.
SweepStates == [phase: {"idle", "sweeping", "flush", "finished", "aborted"},
                listed: SUBSET Forecasts, todo: SUBSET Forecasts]

SeededRecord == [NoRecord EXCEPT !.status = "active", !.log = Events(Earlier, {"created"})]

SweepInit ==
  /\ table = [f \in Forecasts |-> IF f \in Seeded THEN SeededRecord ELSE NoRecord]
  /\ work = table
  /\ holder = [f \in Forecasts |-> NoSession]
  /\ req = [r \in Requests |-> NoRequest]
  /\ sched = FreshScheduler
  /\ sweep = NoSweep

Sweeping(f) == sweep.phase = "sweeping" /\ f \in sweep.todo

SweepDone(f) == sweep' = [sweep EXCEPT !.todo = @ \ {f}]

\* list_by_status(ACTIVE): the forecasts the sweep will change.  An active
\* forecast that is neither broken nor past its horizon is passed over.
SweepList ==
  /\ sweep.phase = "idle"
  /\ \E overdue \in SUBSET Forecasts :
       LET listed == Unresolved(Sweeper) \cap (overdue \cup AssumptionBroken) IN
       sweep' = [phase |-> "sweeping", listed |-> listed, todo |-> listed]
  /\ UNCHANGED storeVars

\* invalidate_forecast: update_status without a condition on the old status.
SweepInvalidate(f) ==
  /\ Sweeping(f) /\ f \in AssumptionBroken
  /\ UpdateStatus(Sweeper, f, "invalidated", {"invalidated"})
  /\ SweepDone(f)

\* The observations resolve the forecast: record_outcome's UPDATE, whatever
\* the status is by now.
SweepResolve(f) ==
  /\ Sweeping(f) /\ f \notin AssumptionBroken
  /\ MarkResolved(Sweeper, f)
  /\ sweep' = [sweep EXCEPT !.phase = "flush"]

MutantFlushCommitsRest(f) ==
  /\ sweep.phase = "flush" /\ f \in sweep.todo
  /\ holder[f] = Sweeper /\ work[f].status = "resolved"
  /\ IF OutcomeClashes(Sweeper, f)
     THEN Commit(Sweeper) /\ sweep' = [sweep EXCEPT !.phase = "aborted"]
     ELSE /\ InsertOutcome(Sweeper, f, {})
          /\ sweep' = [sweep EXCEPT !.phase = "sweeping", !.todo = @ \ {f}]

MutantFlushRetries(f) ==
  /\ sweep.phase = "flush" /\ f \in sweep.todo
  /\ holder[f] = Sweeper /\ work[f].status = "resolved"
  /\ ~OutcomeClashes(Sweeper, f)
  /\ InsertOutcome(Sweeper, f, {})
  /\ sweep' = [sweep EXCEPT !.phase = "sweeping", !.todo = @ \ {f}]

\* A clash on the outcome row is caught, but the handler's own update_status
\* then meets the session in need of a rollback and ends the sweep.
SweepFlush(f) ==
  /\ sweep.phase = "flush" /\ f \in sweep.todo
  /\ holder[f] = Sweeper /\ work[f].status = "resolved"
  /\ IF OutcomeClashes(Sweeper, f)
     THEN Rollback({Sweeper}) /\ sweep' = [sweep EXCEPT !.phase = "aborted"]
     ELSE /\ InsertOutcome(Sweeper, f, {})
          /\ sweep' = [sweep EXCEPT !.phase = "sweeping", !.todo = @ \ {f}]

\* resolve_forecast raised (no observations for the horizon): expired, with the
\* reason in the log.
SweepExpire(f) ==
  /\ Sweeping(f) /\ f \notin AssumptionBroken
  /\ UpdateStatus(Sweeper, f, "expired", {"resolution_failed"})
  /\ SweepDone(f)

\* The caller commits or closes the session.
SweepFinish ==
  /\ sweep.phase = "sweeping" /\ sweep.todo = {}
  /\ IF SweepCommits THEN Commit(Sweeper) ELSE Rollback({Sweeper})
  /\ sweep' = [sweep EXCEPT !.phase = "finished"]

\* Another storage error, or the process of the sweep ends.
SweepAbort ==
  /\ sweep.phase \in {"sweeping", "flush"}
  /\ Rollback({Sweeper})
  /\ sweep' = [sweep EXCEPT !.phase = "aborted"]

SweepWork ==
  \/ SweepFinish
  \/ \E f \in Forecasts : SweepInvalidate(f) \/ SweepResolve(f) \/ SweepFlush(f) \/ SweepExpire(f)

SweepStep == (SweepList \/ SweepWork \/ SweepAbort) /\ UNCHANGED <<req, sched>>

SweepNext == (Next /\ UNCHANGED sweep) \/ SweepStep

SweepSpec == SweepInit /\ [][SweepNext]_sweepVars

FairSweepSpec ==
  /\ SweepSpec
  /\ \A r \in Requests : WF_sweepVars(RequestStep(r) /\ UNCHANGED sweep)
  /\ WF_sweepVars(SweepWork /\ UNCHANGED <<req, sched>>)

-----------------------------------------------------------------------------
(* Properties.                                                              *)

SweepTypeOK == TypeOK /\ sweep \in SweepStates

\* The sweep is all or nothing: what it listed is committed together or, when one
\* forecast makes it fail, not at all.
SweepAllOrNothing ==
  \/ \A f \in Forecasts : table[f].log \cap (EventKinds \X {Sweeper}) = {}
  \/ \A f \in sweep.listed : table[f].log \cap (EventKinds \X {Sweeper}) # {}

\* A sweep that fails, crashes or is overtaken does no half of its work, and even one
\* that overwrites a status leaves every committed outcome row as it was: the unique
\* index, not the status, protects it.
SweepIsHarmless ==
  [][/\ SweepAllOrNothing'
     /\ \A f \in Forecasts :
          table[f].outcome # NoSession => table'[f].outcome = table[f].outcome]_sweepVars

\* The sweep cannot block itself or be blocked for ever by requests: it ends.
SweepEnds == sweep.phase \in {"sweeping", "flush"} ~> sweep.phase \in {"finished", "aborted"}

\* Together: sweep and requests wait for each other's rows, and all of them end.
NobodyBlocks == SweepEnds /\ RequestsAnswered
=============================================================================

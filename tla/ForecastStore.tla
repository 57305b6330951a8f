---------------------------- MODULE ForecastStore ----------------------------
(***************************************************************************)
(* The part of the relational store that holds forecasts: the tables       *)
(* forecasts, outcomes and forecast_events (futuris/storage/models.py) and *)
(* the statements of futuris/storage/repositories.py that change them.     *)
(*                                                                         *)
(* The database runs at READ COMMITTED (the engine sets no isolation       *)
(* level), an UPDATE or INSERT holds its row until the session commits or  *)
(* rolls back, and outcomes.forecast_id is UNIQUE.  A row is therefore     *)
(* written by one session at a time, and what that session has not yet     *)
(* committed can be kept beside the committed row.                         *)
(***************************************************************************)
EXTENDS FiniteSets

CONSTANTS
  Forecasts,     (* forecast ids (uuid4, never reused)                    *)
  Sessions,      (* database sessions                                     *)
  NoSession      (* no session holds the row / no outcome row exists      *)

ASSUME StoreAssumption == NoSession \notin Sessions

Live == {"active", "draft"}
Withdrawn == {"invalidated", "cancelled"}
Statuses == {"absent", "insufficient_data", "resolved", "expired"} \cup Live \cup Withdrawn

EventKinds == {"created", "updated", "invalidated", "cancelled", "outcome_recorded",
               "resolution_failed"}

(***************************************************************************)
(* A forecast as its three tables show it: its status ("absent" when there *)
(* is no row), the session that wrote its outcome row, and the events of   *)
(* its append-only log, each with the session that wrote it.               *)
(***************************************************************************)
ForecastRecords == [status: Statuses, outcome: Sessions \cup {NoSession},
                    log: SUBSET (EventKinds \X Sessions)]

NoRecord == [status |-> "absent", outcome |-> NoSession, log |-> {}]

VARIABLES
  table,         (* table[f]: the committed record                        *)
  work,          (* work[f]: the record as the holder of f's row sees it  *)
  holder         (* holder[f]: the session that holds f's row             *)

storeVars == <<table, work, holder>>

StoreTypeOK ==
  /\ table \in [Forecasts -> ForecastRecords]
  /\ work \in [Forecasts -> ForecastRecords]
  /\ holder \in [Forecasts -> Sessions \cup {NoSession}]

StoreInit ==
  /\ table = [f \in Forecasts |-> NoRecord]
  /\ work = table
  /\ holder = [f \in Forecasts |-> NoSession]

-----------------------------------------------------------------------------
(* Reading and writing one row.                                            *)

Sees(s, f) == IF holder[f] = s THEN work[f] ELSE table[f]

\* An UPDATE waits until no other session holds the row.
RowFree(s, f) == holder[f] \in {s, NoSession}

\* A fresh uuid4 names no row, committed or not.
Unused(f) == table[f] = NoRecord /\ holder[f] = NoSession

Write(s, f, record) ==
  /\ holder' = [holder EXCEPT ![f] = s]
  /\ work' = [work EXCEPT ![f] = record]
  /\ UNCHANGED table

Commit(s) ==
  /\ table' = [f \in Forecasts |-> IF holder[f] = s THEN work[f] ELSE table[f]]
  /\ holder' = [f \in Forecasts |-> IF holder[f] = s THEN NoSession ELSE holder[f]]
  /\ UNCHANGED work

Rollback(S) ==
  /\ work' = [f \in Forecasts |-> IF holder[f] \in S THEN table[f] ELSE work[f]]
  /\ holder' = [f \in Forecasts |-> IF holder[f] \in S THEN NoSession ELSE holder[f]]
  /\ UNCHANGED table

Events(s, kinds) == kinds \X {s}

-----------------------------------------------------------------------------
(* The repository statements, each under the row lock it takes.            *)

\* ForecastRepository.create: the row and its forecast_created event.
CreateRow(s, f, st) ==
  /\ Unused(f)
  /\ Write(s, f, [NoRecord EXCEPT !.status = st, !.log = Events(s, {"created"})])

\* ForecastRepository.update_status: UPDATE without a condition on the old
\* status, and a forecast_updated event; "extra" are the events the caller appends.
UpdateStatus(s, f, st, extra) ==
  /\ RowFree(s, f)
  /\ Write(s, f, [Sees(s, f) EXCEPT !.status = st,
                                  !.log = @ \cup Events(s, {"updated"} \cup extra)])

\* ForecastRepository.transition_status: the condition is part of the UPDATE,
\* so the row is re-read once the lock is free.  No row matched: no lock is kept.
MutantAnyStatusMatches(s, f) == Sees(s, f).status # "absent"
TransitionMatches(s, f) == Sees(s, f).status \in Live

\* OutcomeRepository.record_outcome, first statement: the unconditional UPDATE.
MarkResolved(s, f) ==
  /\ RowFree(s, f)
  /\ Write(s, f, [Sees(s, f) EXCEPT !.status = "resolved"])

\* ... and its flush, which inserts the outcome row and the event.  The unique
\* index refuses a second outcome row.
OutcomeClashes(s, f) == Sees(s, f).outcome # NoSession

InsertOutcome(s, f, extra) ==
  /\ ~OutcomeClashes(s, f)
  /\ Write(s, f, [Sees(s, f) EXCEPT !.outcome = s,
                                  !.log = @ \cup Events(s, {"outcome_recorded"} \cup extra)])
=============================================================================

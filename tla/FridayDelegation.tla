--------------------------- MODULE FridayDelegation ---------------------------
(***************************************************************************)
(* Delegation of a forecast by FRIDAY under an idempotency key             *)
(* (delegate_forecast in futuris/api/routers/friday.py): look the key up,  *)
(* run the pipeline, insert, commit, answer.  FRIDAY retries while earlier *)
(* attempts are in flight, and may reuse a key for another payload.        *)
(*                                                                         *)
(* A forecast is known by the request that made it (its id is a fresh      *)
(* uuid4), so that its key and payload are those of that request.          *)
(***************************************************************************)
EXTENDS FiniteSets

CONSTANTS
  Requests,     (* one attempt each; a retry is another request            *)
  Keys,         (* effective idempotency keys                              *)
  Payloads,     (* target and horizon                                      *)
  None

ASSUME DelegationAssumption == None \notin Requests

VARIABLES
  phase,        (* the statement each request awaits                       *)
  key, payload, (* what it asks                                            *)
  stored,       (* the committed forecasts                                 *)
  verdict, told (* the answer, and the forecast it carries                 *)

delegationVars == <<phase, key, payload, stored, verdict, told>>

\* In "commit" the row of the request is inserted and not committed.
Phases == {"idle", "lookup", "insert", "lost", "failed", "commit", "reply", "done"}
Verdicts == {"none", "ok", "conflict", "blocked", "error", "gone"}

DelegationInit ==
  /\ phase = [r \in Requests |-> "idle"]
  /\ key \in [Requests -> Keys]
  /\ payload \in [Requests -> Payloads]
  /\ stored = {}
  /\ verdict = [r \in Requests |-> "none"]
  /\ told = [r \in Requests |-> None]

Proceed(r, p) == phase' = [phase EXCEPT ![r] = p] /\ UNCHANGED <<key, payload, verdict, told>>

\* The handler ends: with a forecast for "ok", without one otherwise.
Tell(r, v, f) ==
  /\ phase' = [phase EXCEPT ![r] = "done"]
  /\ verdict' = [verdict EXCEPT ![r] = v]
  /\ told' = [told EXCEPT ![r] = f]
  /\ UNCHANGED <<key, payload>>

SameKey(r, f) == key[f] = key[r]
SameQuestion(r, f) == SameKey(r, f) /\ payload[f] = payload[r]

-----------------------------------------------------------------------------
(* The handler.                                                             *)

\* The client sends.
Arrive(r) == phase[r] = "idle" /\ Proceed(r, "lookup") /\ UNCHANGED stored

\* get_by_idempotency_key: a replay, a conflict, or a new forecast, unless the
\* telemetry of the request is stale or short.
Lookup(r) ==
  /\ phase[r] = "lookup"
  /\ UNCHANGED stored
  /\ \/ \E f \in stored : SameQuestion(r, f) /\ Tell(r, "ok", f)
     \/ \E f \in stored : SameKey(r, f) /\ ~SameQuestion(r, f) /\ Tell(r, "conflict", None)
     \/ /\ \A f \in stored : ~SameKey(r, f)
        /\ Proceed(r, "insert") \/ Tell(r, "blocked", None)

\* The index entry of an uncommitted row with this key makes an INSERT wait.
KeyFree(r) == \A s \in Requests : phase[s] = "commit" => ~SameKey(r, s)

\* ForecastRepository.create against the unique index on idempotency_key.
Insert(r) ==
  /\ phase[r] = "insert" /\ KeyFree(r)
  /\ Proceed(r, IF \E f \in stored : SameKey(r, f) THEN "lost" ELSE "commit")
  /\ UNCHANGED stored

\* Any other storage error there, after which the key is looked for, too.
InsertFails(r) == phase[r] = "insert" /\ Proceed(r, "failed") /\ UNCHANGED stored

\* The error of the INSERT, raised again: 409 for the index, 503 for the rest.
Raise(r) == Tell(r, IF phase[r] = "lost" THEN "conflict" ELSE "error", None)

MutantPollUnchecked(r) ==
  /\ phase[r] \in {"lost", "failed"}
  /\ \/ \E f \in stored : SameKey(r, f) /\ Tell(r, "ok", f)
     \/ (\A f \in stored : ~SameKey(r, f)) /\ Tell(r, "ok", None)
  /\ UNCHANGED stored

MutantPollForever(r) ==
  /\ phase[r] \in {"lost", "failed"}
  /\ \E f \in stored : SameKey(r, f) /\ IF SameQuestion(r, f) THEN Tell(r, "ok", f) ELSE Raise(r)
  /\ UNCHANGED stored

\* Twenty reads for the winner: its replay, or the error when it asks something
\* else, has not committed, or the reads fail.
Poll(r) ==
  /\ phase[r] \in {"lost", "failed"}
  /\ \/ \E f \in stored : SameQuestion(r, f) /\ Tell(r, "ok", f)
     \/ Raise(r)
  /\ UNCHANGED stored

\* The lookup or the pipeline fails, or the audit entry or the commit, without effect.
HandlerFails(r) ==
  phase[r] \in {"lookup", "commit"} /\ Tell(r, "error", None) /\ UNCHANGED stored

Commit(r) == phase[r] = "commit" /\ stored' = stored \cup {r} /\ Proceed(r, "reply")

\* The commit takes effect and the connection breaks.  Its repetition meets a
\* transaction that is no longer usable.
CommitUnknown(r) == phase[r] = "commit" /\ stored' = stored \cup {r} /\ Tell(r, "error", None)

Reply(r) == phase[r] = "reply" /\ Tell(r, "ok", r) /\ UNCHANGED stored

\* The process ends: open transactions roll back, clients lose their connection.
Crash ==
  /\ phase' = [r \in Requests |-> IF phase[r] = "idle" THEN "idle" ELSE "done"]
  /\ verdict' = [r \in Requests |-> IF phase[r] \in {"idle", "done"} THEN verdict[r] ELSE "gone"]
  /\ UNCHANGED <<key, payload, stored, told>>

Handle(r) == Lookup(r) \/ Insert(r) \/ Poll(r) \/ Commit(r) \/ Reply(r)

Trouble(r) == InsertFails(r) \/ HandlerFails(r) \/ CommitUnknown(r)

DelegationNext == (\E r \in Requests : Arrive(r) \/ Handle(r) \/ Trouble(r)) \/ Crash

DelegationSpec == DelegationInit /\ [][DelegationNext]_delegationVars

\* The event loop and the database go on with what is ready; nobody has to send,
\* and nothing has to fail.
DelegationFairness == \A r \in Requests : WF_delegationVars(Handle(r))

FairDelegationSpec == DelegationSpec /\ DelegationFairness

-----------------------------------------------------------------------------
(* Properties.                                                              *)

DelegationTypeOK ==
  /\ phase \in [Requests -> Phases]
  /\ key \in [Requests -> Keys]
  /\ payload \in [Requests -> Payloads]
  /\ stored \subseteq Requests
  /\ verdict \in [Requests -> Verdicts]
  /\ told \in [Requests -> Requests \cup {None}]
  /\ \A r \in Requests : verdict[r] = "ok" <=> told[r] # None

\* "The retry storm produces exactly one forecast" (friday.py:521), through lost
\* races, failed inserts, commits of unknown outcome and crashes.
OneForecastPerKey == \A f, g \in stored : SameKey(f, g) => f = g

\* "... and N identical responses": whoever is told a forecast is told the stored one
\* of its key, for what it asked.
RepliesAreTheForecast ==
  \A r \in Requests : verdict[r] = "ok" => told[r] \in stored /\ SameQuestion(r, told[r])

\* A conflict is told only when the key is taken, so that a retry cannot succeed in
\* making another forecast.
ConflictMeansTaken ==
  \A r \in Requests : verdict[r] = "conflict" => \E f \in stored : SameKey(r, f)

\* Every attempt is answered, whoever it waits for.
IsAnswered(r) == phase[r] = "lookup" ~> phase[r] = "done"

\* Why it holds: the row of a request is inserted only while none of its key is
\* stored, who lost a race lost it to a stored row, and a request is told nothing
\* before it ends; at most one row of a key is inserted and not committed.
RequestSound(r) ==
  /\ phase[r] = "commit" => \A f \in stored : ~SameKey(r, f)
  /\ phase[r] = "reply" => r \in stored
  /\ phase[r] = "lost" => \E f \in stored : SameKey(r, f)
  /\ phase[r] # "done" => verdict[r] = "none"

OneOpenRow ==
  \A r, s \in Requests : phase[r] = "commit" /\ phase[s] = "commit" /\ SameKey(r, s) => r = s

DelegationInv ==
  /\ DelegationTypeOK
  /\ OneForecastPerKey
  /\ RepliesAreTheForecast
  /\ ConflictMeansTaken
  /\ \A r \in Requests : RequestSound(r)
  /\ OneOpenRow

\* Together: whatever happens to an attempt, sending it again does no harm.
RetriesAreSafe == OneForecastPerKey /\ RepliesAreTheForecast /\ ConflictMeansTaken
=============================================================================

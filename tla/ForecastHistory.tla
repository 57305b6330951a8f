--------------------------- MODULE ForecastHistory ---------------------------
(***************************************************************************)
(* What the append-only log says of a forecast's past, and how a client    *)
(* pages through the present: ForecastRepository.point_in_time_query and   *)
(* list_filtered, OutcomeRepository.record_outcome, LifecycleManager, and  *)
(* the listing route (futuris/api/routers/forecasts.py).                   *)
(*                                                                         *)
(* Every write of a status leaves events stamped with the writer's own     *)
(* clock.  An UPDATE is stamped before it waits for its row, an outcome    *)
(* after; both become visible at the commit, in whatever order the         *)
(* sessions commit.  The columns keep whole seconds, so stamps may tie, and *)
(* no query breaks the ties: a reader gets one of several answers.         *)
(***************************************************************************)
EXTENDS Integers, FiniteSets

CONSTANTS
  Forecasts,     (* forecast ids                                          *)
  Sessions,      (* database sessions: requests and scheduler jobs        *)
  TargetOf,      (* TargetOf[f]: the target of a forecast                 *)
  AsOf,          (* AsOf[f]: the as_of its creator gave it, to the second *)
  CreatedLimit,  (* how many creations the replay looks at (200)          *)
  PageLimit,     (* rows per page                                         *)
  Births,        (* statuses forecasts are created with                   *)
  Filters,       (* the filters clients page with: [target, status] with  *)
  Unset,         (* Unset where the query parameter is absent             *)
  NoForecast,
  SecondOf,      (* SecondOf[i]: the second the i-th stamp is taken in    *)
  MaxStamp       (* bound: stamps taken                                   *)

ASSUME HistoryAssumption ==
  /\ CreatedLimit \in Nat \ {0} /\ PageLimit \in Nat \ {0}
  /\ AsOf \in [Forecasts -> Nat] /\ MaxStamp \in Nat
  /\ SecondOf \in [0 .. MaxStamp -> Nat]
  /\ \A i, j \in 0 .. MaxStamp : i <= j => SecondOf[i] <= SecondOf[j]
  /\ NoForecast \notin Forecasts /\ Births \cap {"absent", "none"} = {}

VARIABLES
  row,        (* row[f]: committed status, "absent" without a row         *)
  log,        (* committed events                                         *)
  tx,         (* tx[s]: what a session is doing and has not committed     *)
  clock,      (* the last stamp                                           *)
  overlapped, (* forecasts two sessions have written at the same time     *)
  pager       (* one client paging through the listing                    *)

historyVars == <<row, log, tx, clock, overlapped, pager>>

Live == {"active", "draft"}
Targets == {TargetOf[f] : f \in Forecasts}
Idle == [phase |-> "idle", on |-> NoForecast, to |-> "absent", from |-> {}, stamp |-> 0,
         kind |-> "none", events |-> {}]
NotPaging == [filter |-> [target |-> Unset, status |-> Unset], offset |-> 0, start |-> {},
              seen |-> {}, left |-> FALSE, phase |-> "idle"]

HistoryInit ==
  /\ row = [f \in Forecasts |-> "absent"] /\ log = {} /\ clock = 0 /\ overlapped = {}
  /\ tx = [s \in Sessions |-> Idle] /\ pager = NotPaging

Event(f, kind, status, at) == [of |-> f, kind |-> kind, status |-> status, at |-> at]

-----------------------------------------------------------------------------
(* The replay.  The status of an event is what the replay makes of it: the *)
(* payload's for a creation, its new_status for forecast_updated, and the  *)
(* one its type stands for otherwise; "none" for events it passes over.    *)

MutantKnownByAnyTime(e, t) == e.kind # "created" \/ e.at <= t
KnownBy(e, t) == e.at <= t

Creations(events, t) == {e \in events : e.kind = "created" /\ KnownBy(e, t)}

Newest(events) == {e \in events : \A d \in events : d.at <= e.at}
Later(events, at) == {d \in events : d.at > at}

\* The statuses a replay may end with: the creation comes first, then every change in the order of
\* the seconds, those of one second in any order.
Told(events) ==
  LET changes == {e \in events : e.kind # "created"} IN
  {e.status : e \in Newest(IF changes = {} THEN events ELSE changes)}

\* The first creation of the target among the first 200, ORDER BY emitted_at DESC, may be any of its
\* newest ones, and none when creations of other targets, at least as new, fill the 200.
Matching(own, created) ==
  {e \in Newest(own) : Cardinality(Later(created, e.at)) < CreatedLimit}
Missed(own, created) ==
  \A e \in Newest(own) :
    Cardinality({d \in created \ own : d.at >= e.at}) >= CreatedLimit

\* point_in_time_query: the forecast and the status it had, or nothing; what it may answer.
Replay(events, target, t) ==
  LET created == Creations(events, t)
      own == {e \in created : TargetOf[e.of] = target}
      after(match) == {e \in events : /\ e.of = match.of /\ KnownBy(e, t)
                                      /\ e.at >= match.at /\ e.status # "none"}
  IN UNION {{<<match.of, status>> : status \in Told(after(match))} : match \in Matching(own, created)}
     \cup (IF Missed(own, created) THEN {<<>>} ELSE {})

-----------------------------------------------------------------------------
(* Writers.                                                                *)

Writing(f) == {s \in Sessions : tx[s].on = f}
Overlap(s, f) == overlapped' = overlapped \cup {g \in {f} : Writing(g) \ {s} # {}}
RowFree(s, f) == \A r \in Writing(f) \ {s} : tx[r].phase # "written"

\* create: the row and its forecast_created event, one stamp for both.
CreateForecast(s, f, status) ==
  /\ tx[s] = Idle /\ row[f] = "absent" /\ Writing(f) = {} /\ clock < MaxStamp
  /\ clock' = clock + 1
  /\ tx' = [tx EXCEPT ![s] = [Idle EXCEPT !.phase = "written", !.on = f, !.to = status,
             !.stamp = SecondOf[clock'], !.kind = "created",
             !.events = {Event(f, "created", status, SecondOf[clock'])}]]
  /\ UNCHANGED <<row, log, overlapped, pager>>

(***************************************************************************)
(* The status writers: the two routes' conditional transition_status, and  *)
(* the sweep's unconditional update_status (an assumption that broke, a    *)
(* resolution that failed).  "note" is the event the caller appends after. *)
(***************************************************************************)
Withdrawals ==
  {[to |-> "invalidated", from |-> Live, note |-> "invalidated"],
   [to |-> "cancelled", from |-> Live, note |-> "cancelled"],
   [to |-> "invalidated", from |-> {}, note |-> "invalidated"],
   [to |-> "expired", from |-> {}, note |-> "resolution_failed"]}

StampUpdate(s, f, w) ==
  /\ tx[s] = Idle /\ row[f] # "absent" /\ clock < MaxStamp
  /\ clock' = clock + 1 /\ Overlap(s, f)
  /\ tx' = [tx EXCEPT ![s] = [Idle EXCEPT !.phase = "stamped", !.on = f, !.to = w.to,
             !.from = w.from, !.stamp = SecondOf[clock'], !.kind = w.note]]
  /\ UNCHANGED <<row, log, pager>>

\* A conditional UPDATE that matches no row writes nothing.
Refused(s) == tx[s].from # {} /\ row[tx[s].on] \notin tx[s].from

\* The mutant: the event is appended before rowcount is looked at.
MutantRefusalIsLogged(s) ==
  LET f == tx[s].on IN
  /\ tx[s].phase = "stamped" /\ RowFree(s, f)
  /\ tx' = [tx EXCEPT ![s] = [@ EXCEPT !.phase = "written",
              !.to = IF Refused(s) THEN row[f] ELSE @,
              !.events = {Event(f, "updated", tx[s].to, tx[s].stamp)}]]
  /\ UNCHANGED <<row, log, clock, overlapped, pager>>

WriteUpdate(s) ==
  LET f == tx[s].on IN
  /\ tx[s].phase = "stamped" /\ RowFree(s, f) /\ clock < MaxStamp
  /\ clock' = clock + 1
  /\ tx' = [tx EXCEPT ![s] =
              IF Refused(s) THEN Idle
              ELSE [@ EXCEPT !.phase = "written",
                     !.events = {Event(f, "updated", tx[s].to, tx[s].stamp),
                                 Event(f, tx[s].kind,
                                       IF tx[s].kind = "resolution_failed" THEN "none"
                                       ELSE tx[s].to, SecondOf[clock'])}]]
  /\ UNCHANGED <<row, log, overlapped, pager>>

(***************************************************************************)
(* record_outcome marks the row resolved under its lock and then stamps    *)
(* its event; LifecycleManager and the manual route append a second one.   *)
(* The unique index refuses a second outcome.                              *)
(***************************************************************************)
HasOutcome(f) == \E e \in log : e.of = f /\ e.kind = "outcome_recorded"

RecordOutcome(s, f) ==
  /\ tx[s] = Idle /\ row[f] # "absent" /\ RowFree(s, f) /\ ~HasOutcome(f)
  /\ clock + 1 < MaxStamp /\ clock' = clock + 2 /\ Overlap(s, f)
  /\ tx' = [tx EXCEPT ![s] = [Idle EXCEPT !.phase = "written", !.on = f, !.to = "resolved",
             !.stamp = SecondOf[clock + 1], !.kind = "outcome_recorded",
             !.events = {Event(f, "outcome_recorded", "resolved", SecondOf[at]) :
                           at \in {clock + 1, clock + 2}}]]
  /\ UNCHANGED <<row, log, pager>>

\* Which forecasts a filter lists.  An explicit status wins over the target;
\* with neither, the active ones.
EffectiveStatus(filter) ==
  IF filter.status # Unset THEN filter.status
  ELSE IF filter.target # Unset THEN Unset ELSE "active"
Listed(rows, filter) ==
  {f \in Forecasts :
     /\ rows[f] # "absent"
     /\ EffectiveStatus(filter) \in {Unset, rows[f]}
     /\ filter.status = Unset => filter.target \in {Unset, TargetOf[f]}}

CommitTx(s) ==
  /\ tx[s].phase = "written"
  /\ row' = [row EXCEPT ![tx[s].on] = tx[s].to]
  /\ log' = log \cup tx[s].events
  /\ tx' = [tx EXCEPT ![s] = Idle]
  /\ LET leaves == ~ (Listed(row, pager.filter) \subseteq Listed(row', pager.filter)) IN
     pager' = [pager EXCEPT !.left = @ \/ (leaves /\ pager.phase = "reading")]
  /\ UNCHANGED <<clock, overlapped>>

RollbackTx(s) ==
  /\ tx[s] # Idle /\ tx' = [tx EXCEPT ![s] = Idle]
  /\ UNCHANGED <<row, log, clock, overlapped, pager>>

-----------------------------------------------------------------------------
(* A client reads page after page, newest as_of first, until one is short. *)
(* Forecasts of one as_of come in any order, another one in every query.   *)

OpenListing(filter) ==
  /\ pager.phase = "idle"
  /\ pager' = [NotPaging EXCEPT !.filter = filter, !.start = Listed(row, filter),
                                !.phase = "reading"]
  /\ UNCHANGED <<row, log, tx, clock, overlapped>>

Orders(listed) ==
  LET places == 1 .. Cardinality(listed) IN
  {order \in [places -> listed] :
     /\ \A f \in listed : \E i \in places : order[i] = f
     /\ \A i, j \in places : i < j => order[i] # order[j] /\ AsOf[order[i]] >= AsOf[order[j]]}
Page(order, offset) == {order[i] : i \in (offset + 1 .. offset + PageLimit) \cap DOMAIN order}

ReadPage ==
  /\ pager.phase = "reading"
  /\ \E order \in Orders(Listed(row, pager.filter)) :
       LET page == Page(order, pager.offset) IN
       pager' = [pager EXCEPT !.seen = @ \cup page, !.offset = @ + PageLimit,
                   !.phase = IF Cardinality(page) < PageLimit THEN "read" ELSE @]
  /\ UNCHANGED <<row, log, tx, clock, overlapped>>

HistoryNext ==
  \/ \E s \in Sessions, f \in Forecasts :
       \/ \E status \in Births : CreateForecast(s, f, status)
       \/ \E w \in Withdrawals : StampUpdate(s, f, w)
       \/ RecordOutcome(s, f)
  \/ \E s \in Sessions : WriteUpdate(s) \/ CommitTx(s) \/ RollbackTx(s)
  \/ \E filter \in Filters : OpenListing(filter)
  \/ ReadPage

HistorySpec == HistoryInit /\ [][HistoryNext]_historyVars

-----------------------------------------------------------------------------
(* A second is settled once it is over and every session that took a      *)
(* stamp in it has finished.  It stays settled, and what a replay up to it *)
(* may answer never changes: no event that is stamped or committed later   *)
(* leaks into it (repositories.py:368; a back-dated stamp, or a filter     *)
(* missing on one of the two queries, would).                              *)
SettledUpTo(t) == t < SecondOf[clock] /\ \A s \in Sessions : tx[s] # Idle => t < tx[s].stamp
PastIsFixed ==
  [][\A t \in 0 .. SecondOf[clock] : SettledUpTo(t) =>
       /\ SettledUpTo(t)'
       /\ log' # log => \A target \in Targets : Replay(log', target, t) = Replay(log, target, t)
    ]_historyVars

(* As long as no two sessions wrote a forecast at the same time, the log   *)
(* and the row agree about it: whatever sequence of transitions,           *)
(* refusals, outcomes and rollbacks it went through, the status of the row *)
(* is one its replay may end with, and the only one unless changes to      *)
(* different statuses fell into its last second.                           *)
LogTellsTheStatus ==
  \A f \in Forecasts :
    row[f] # "absent" /\ f \notin overlapped /\ Writing(f) = {} =>
      row[f] \in Told({e \in log : e.of = f /\ e.status # "none"})

(* A client that pages to the end while forecasts are created meets every  *)
(* forecast that was listed when it began, if no other one has its as_of:  *)
(* an insertion only moves rows to later pages.  (Rows that leave the      *)
(* listing between two pages do make it skip one; pager.left excludes      *)
(* those runs.  Forecasts that share an as_of may be skipped.)             *)
PagesSkipNothing ==
  pager.phase = "read" /\ ~pager.left =>
    \A f \in pager.start : (\A g \in Forecasts : AsOf[g] = AsOf[f] => g = f) => f \in pager.seen

(* A reader of the history can go back to it: what it was told of the past, *)
(* at an instant or page by page, stays so.                                *)
PastIsStable == PastIsFixed /\ []PagesSkipNothing
=============================================================================

---------------------------- MODULE WebhookDelivery ----------------------------
(***************************************************************************)
(* EventEmitter of futuris/infra/events.py: every domain event is posted   *)
(* to the subscribed webhooks, concurrently, with bounded retries, and     *)
(* counted.  An action is the code between two awaits of the event loop.   *)
(***************************************************************************)
EXTENDS Naturals, FiniteSets

CONSTANTS
  Hooks,        (* webhook endpoints                                       *)
  MaxAttempts,  (* max_attempts                                            *)
  MaxEvents     (* bound of the instance                                   *)

ASSUME DeliveryAssumption ==
  IsFiniteSet(Hooks) /\ {MaxAttempts, MaxEvents} \subseteq Nat \ {0}

VARIABLES
  emitted,      (* events so far; an event is its number                   *)
  hooks,        (* emitter.subscriptions                                   *)
  sending,      (* per hook and event: the state of its _deliver           *)
  tries,        (* posts made so far by that delivery                      *)
  tally         (* _delivery_stats                                         *)

deliveryVars == <<emitted, hooks, sending, tries, tally>>

Events == 1 .. MaxEvents
InFlight == {"posting", "backoff"}
Sendings == InFlight \cup {"none", "delivered", "failed", "rejected", "cancelled"}

DeliveryInit ==
  /\ emitted = 0 /\ hooks = {}
  /\ sending = [h \in Hooks |-> [e \in Events |-> "none"]]
  /\ tries = [h \in Hooks |-> [e \in Events |-> 0]]
  /\ tally = [attempted |-> 0, delivered |-> 0, failed |-> 0, rejected |-> 0]

\* create_webhook: the subscription is live from here on, though the audit entry of
\* the same request may still fail and the client be told an error.
AddHook(h) ==
  h \notin hooks /\ hooks' = hooks \cup {h} /\ UNCHANGED <<emitted, sending, tries, tally>>

\* delete_webhook: deliveries under way go on.
DropHook(h) ==
  h \in hooks /\ hooks' = hooks \ {h} /\ UNCHANGED <<emitted, sending, tries, tally>>

\* emit: every subscription of the moment gets a delivery.  A destination that is no
\* longer public is rejected before any attempt.
Emit ==
  /\ emitted < MaxEvents
  /\ emitted' = emitted + 1
  /\ \E unsafe \in SUBSET hooks :
       LET safe == hooks \ unsafe IN
       /\ sending' = [h \in Hooks |-> [sending[h] EXCEPT ![emitted + 1] =
                        CASE h \in safe -> "posting" [] h \in unsafe -> "rejected" [] OTHER -> @]]
       /\ tally' = [tally EXCEPT !.attempted = @ + Cardinality(safe),
                                 !.rejected = @ + Cardinality(unsafe)]
  /\ UNCHANGED <<hooks, tries>>

SettleDelivery(h, e, result) ==
  /\ sending' = [sending EXCEPT ![h][e] = result]
  /\ tally' = [tally EXCEPT ![result] = @ + 1]

Posted(h, e) ==
  /\ sending[h][e] = "posting"
  /\ tries' = [tries EXCEPT ![h][e] = @ + 1]
  /\ UNCHANGED <<emitted, hooks>>

PostSucceeds(h, e) == Posted(h, e) /\ SettleDelivery(h, e, "delivered")

\* A 4xx other than 429 ends the delivery.
PostRefused(h, e) == Posted(h, e) /\ SettleDelivery(h, e, "failed")

\* Timeout, transport error, 429 or 5xx: back off, or give up after the last attempt.
PostFails(h, e) ==
  /\ Posted(h, e)
  /\ IF tries[h][e] + 1 < MaxAttempts
     THEN sending' = [sending EXCEPT ![h][e] = "backoff"] /\ UNCHANGED tally
     ELSE SettleDelivery(h, e, "failed")

MutantRepostCounted(h, e) ==
  /\ sending[h][e] = "backoff"
  /\ sending' = [sending EXCEPT ![h][e] = "posting"]
  /\ tally' = [tally EXCEPT !.attempted = @ + 1]
  /\ UNCHANGED <<emitted, hooks, tries>>

Repost(h, e) ==
  /\ sending[h][e] = "backoff"
  /\ sending' = [sending EXCEPT ![h][e] = "posting"]
  /\ UNCHANGED <<emitted, hooks, tries, tally>>

\* The task that awaits emit is cancelled, and gather cancels its deliveries; nothing
\* in _deliver catches or counts that.
CancelEmit(e) ==
  /\ \E h \in Hooks : sending[h][e] \in InFlight
  /\ sending' = [h \in Hooks |-> [sending[h] EXCEPT ![e] = IF @ \in InFlight THEN "cancelled" ELSE @]]
  /\ UNCHANGED <<emitted, hooks, tries, tally>>

Post(h, e) == PostSucceeds(h, e) \/ PostRefused(h, e) \/ PostFails(h, e)

DeliveryNext ==
  \/ Emit
  \/ \E h \in Hooks : AddHook(h) \/ DropHook(h)
  \/ \E h \in Hooks, e \in Events : Post(h, e) \/ Repost(h, e)
  \/ \E e \in Events : CancelEmit(e)

DeliverySpec == DeliveryInit /\ [][DeliveryNext]_deliveryVars

-----------------------------------------------------------------------------
(* Properties.                                                              *)

DeliveriesIn(states) == {he \in Hooks \X Events : sending[he[1]][he[2]] \in states}

\* The counters from which check_outbound_delivery judges the health of webhooks are
\* exact: an attempt counts once however often it is retried, and reappears in one
\* other counter unless it is under way or its emitter was cancelled.
DeliveryStatsExact ==
  /\ tally.attempted = tally.delivered + tally.failed
                       + Cardinality(DeliveriesIn(InFlight \cup {"cancelled"}))
  /\ \A s \in {"delivered", "failed", "rejected"} : tally[s] = Cardinality(DeliveriesIn({s}))
=============================================================================

------------------------------ MODULE GuardedCalls ------------------------------
(***************************************************************************)
(* The guards of futuris/upgrade around a model call: an idempotency key,  *)
(* a budget reservation, a bounded and cancellable agent loop, and a       *)
(* router over providers with circuits.  A client (external) takes them in *)
(* this order; every await may let another client run.                     *)
(***************************************************************************)
EXTENDS Integers, FiniteSets, FiniteSetsExt

CONSTANTS
  AgentClients,
  CallKeys, Payloads,
  Providers,      (* 1 .. n in the router's order                          *)
  MaxIterations,  (* of AgentRuntime                                       *)
  Threshold,      (* failure_threshold of a circuit                        *)
  Estimate,       (* what a call reserves                                  *)
  BudgetLimit,    (* of the budget                                         *)
  NoPayload

ASSUME GuardAssumption ==
  /\ {MaxIterations, Threshold} \subseteq Nat \ {0} /\ Estimate \in Nat \ {0} /\ BudgetLimit \in Nat
  /\ Providers \subseteq Nat \ {0} /\ \A p \in Providers : 1 .. p \subseteq Providers
  /\ NoPayload \notin Payloads /\ IsFiniteSet(AgentClients)

VARIABLES
  guard,        (* per client: the call                                    *)
  records,      (* IdempotencyStore: the payload answered under each key   *)
  ledger,       (* BudgetLedger                                            *)
  circuit,      (* per provider: consecutive failures, cooling down        *)
  cancelled     (* clients whose token is cancelled                        *)

guardVars == <<guard, records, ledger, circuit, cancelled>>

Ended == {"replayed", "conflict", "denied", "overspent", "cancelled", "failed", "ok"}

GuardInit ==
  /\ \E key \in [AgentClients -> CallKeys], payload \in [AgentClients -> Payloads] :
       guard = [q \in AgentClients |-> [phase |-> "begin", key |-> key[q], payload |-> payload[q],
                 iteration |-> 0, at |-> 1, holds |-> 0, used |-> 0, machine |-> "created"]]
  /\ records = [k \in CallKeys |-> NoPayload]
  /\ ledger = [reserved |-> 0, spent |-> 0]
  /\ circuit = [p \in Providers |-> [fails |-> 0, cooling |-> FALSE]]
  /\ cancelled = {}

Go(q, p) == guard' = [guard EXCEPT ![q].phase = p]

\* begin: a known key replays or conflicts; an unknown one is not reserved.
Begin(q) ==
  /\ guard[q].phase = "begin"
  /\ Go(q, CASE records[guard[q].key] = NoPayload -> "reserve"
             [] records[guard[q].key] = guard[q].payload -> "replayed"
             [] OTHER -> "conflict")
  /\ UNCHANGED <<records, ledger, circuit, cancelled>>

MutantReserveSpentOnly(q) ==
  /\ guard[q].phase = "reserve"
  /\ IF BudgetLimit - ledger.spent < Estimate THEN Go(q, "denied") /\ UNCHANGED ledger
     ELSE /\ guard' = [guard EXCEPT ![q].phase = "iterate", ![q].holds = Estimate]
          /\ ledger' = [ledger EXCEPT !.reserved = @ + Estimate]
  /\ UNCHANGED <<records, circuit, cancelled>>

\* reserve: what is available is the limit without reservations and spending.
Reserve(q) ==
  /\ guard[q].phase = "reserve"
  /\ IF BudgetLimit - ledger.reserved - ledger.spent < Estimate
     THEN Go(q, "denied") /\ UNCHANGED ledger
     ELSE /\ guard' = [guard EXCEPT ![q].phase = "iterate", ![q].holds = Estimate]
          /\ ledger' = [ledger EXCEPT !.reserved = @ + Estimate]
  /\ UNCHANGED <<records, circuit, cancelled>>

Cancel(q) ==
  /\ guard[q].phase \notin Ended /\ q \notin cancelled
  /\ cancelled' = cancelled \cup {q}
  /\ UNCHANGED <<guard, records, ledger, circuit>>

Finish(q, state) == guard' = [guard EXCEPT ![q].phase = "settle", ![q].machine = state]

\* The head of the agent loop: cancelled, exhausted, or another iteration.
Iterate(q) ==
  /\ guard[q].phase = "iterate"
  /\ \/ q \in cancelled /\ Finish(q, "cancelled")
     \/ q \notin cancelled /\ guard[q].iteration = MaxIterations /\ Finish(q, "failed")
     \/ /\ q \notin cancelled /\ guard[q].iteration < MaxIterations
        /\ guard' = [guard EXCEPT ![q].phase = "route", ![q].iteration = @ + 1, ![q].at = 1,
                                  ![q].machine = "running"]
  /\ UNCHANGED <<records, ledger, circuit, cancelled>>

\* before_call: a provider that is cooling down raises, through the router and the loop.
BeforeCall(q) ==
  /\ guard[q].phase = "route"
  /\ IF circuit[guard[q].at].cooling THEN Finish(q, "failed") ELSE Go(q, "call")
  /\ UNCHANGED <<records, ledger, circuit, cancelled>>

Provider(q) == guard[q].at

\* The provider answers: the loop has its value.
CallSucceeds(q) ==
  /\ guard[q].phase = "call" /\ q \notin cancelled
  /\ circuit' = [circuit EXCEPT ![Provider(q)] = [fails |-> 0, cooling |-> FALSE]]
  /\ Finish(q, "succeeded")
  /\ UNCHANGED <<records, ledger, cancelled>>

\* Failures are counted up to the threshold, which is all that matters.
RecordFailure(p) ==
  circuit' = [circuit EXCEPT ![p] = [fails |-> Min({@.fails + 1, Threshold}),
                                     cooling |-> @.cooling \/ @.fails + 1 >= Threshold]]

\* The router's failed result is a value like any other: the loop that is handed it has
\* succeeded.  Only work that answers None for it (the client's choice) is repeated.
HandFailureOver(q) == Finish(q, "succeeded") \/ Go(q, "iterate")

\* A timeout or a transient error: the router tries the next provider, and returns the
\* last failure.
CallFails(q) ==
  /\ guard[q].phase = "call" /\ q \notin cancelled
  /\ RecordFailure(Provider(q))
  /\ IF Provider(q) + 1 \in Providers
     THEN guard' = [guard EXCEPT ![q].phase = "route", ![q].at = @ + 1]
     ELSE HandFailureOver(q)
  /\ UNCHANGED <<records, ledger, cancelled>>

\* An authentication error or an invalid request: no other provider is tried.
CallRefused(q) ==
  /\ guard[q].phase = "call" /\ q \notin cancelled
  /\ RecordFailure(Provider(q))
  /\ HandFailureOver(q)
  /\ UNCHANGED <<records, ledger, cancelled>>

\* await_or_cancel stops the call and waits for it before the loop is told.
CallCancelled(q) ==
  /\ guard[q].phase = "call" /\ q \in cancelled
  /\ Finish(q, "cancelled")
  /\ UNCHANGED <<records, ledger, circuit, cancelled>>

CooldownEnds(p) ==
  /\ circuit[p].cooling
  /\ circuit' = [circuit EXCEPT ![p].cooling = FALSE]
  /\ UNCHANGED <<guard, records, ledger, cancelled>>

\* settle moves the ledger first and complains afterwards.
Settle(q) ==
  /\ guard[q].phase = "settle"
  /\ \E actual \in IF guard[q].machine = "succeeded" THEN {0, 1, Estimate, Estimate + 1} ELSE {0} :
       /\ ledger' = [reserved |-> ledger.reserved - guard[q].holds, spent |-> ledger.spent + actual]
       /\ guard' = [guard EXCEPT ![q].holds = 0, ![q].used = actual,
                      ![q].phase = CASE ledger'.spent > BudgetLimit -> "overspent"
                                     [] guard[q].machine = "succeeded" -> "commit"
                                     [] OTHER -> guard[q].machine]
  /\ UNCHANGED <<records, circuit, cancelled>>

\* commit overwrites what another first attempt has recorded.
CommitRecord(q) ==
  /\ guard[q].phase = "commit" /\ Go(q, "ok")
  /\ records' = [records EXCEPT ![guard[q].key] = guard[q].payload]
  /\ UNCHANGED <<ledger, circuit, cancelled>>

GuardStep(q) ==
  \/ Begin(q) \/ Reserve(q) \/ Iterate(q) \/ BeforeCall(q)
  \/ CallSucceeds(q) \/ CallFails(q) \/ CallRefused(q) \/ CallCancelled(q)
  \/ Settle(q) \/ CommitRecord(q)

GuardNext ==
  \/ \E q \in AgentClients : GuardStep(q) \/ Cancel(q)
  \/ \E p \in Providers : CooldownEnds(p)

GuardSpec == GuardInit /\ [][GuardNext]_guardVars

-----------------------------------------------------------------------------
(* Properties.                                                              *)

\* One pair for every unit of a client's amount: their number is the sum of the amounts.
Units(amount) == {u \in AgentClients \X (1 .. Estimate + 1) : u[2] <= amount[u[1]]}

\* The ledger is the sum of what the calls under way hold and the ended ones used, and
\* while no call has used more than it reserved, the limit holds, whatever calls overlap,
\* fail or are cancelled (BudgetManager, "Concurrency-safe").
BudgetHolds ==
  /\ ledger.reserved = Cardinality(Units([q \in AgentClients |-> guard[q].holds]))
  /\ ledger.spent = Cardinality(Units([q \in AgentClients |-> guard[q].used]))
  /\ (\A q \in AgentClients : guard[q].used <= Estimate)
       => ledger.reserved + ledger.spent <= BudgetLimit
=============================================================================

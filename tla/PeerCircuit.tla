----------------------------- MODULE PeerCircuit -----------------------------
(***************************************************************************)
(* The circuit breaker of one peer (futuris/infra/resilience.py), the calls *)
(* that go through it (futuris/ecosystem/adapters.py and signals.py,       *)
(* futuris/connectors/vyralx.py), and the two ways it is forced closed: the *)
(* self-healing pass (futuris/infra/self_healing.py) and the operator      *)
(* (futuris/api/routers/self_status.py).                                   *)
(*                                                                         *)
(* Everything runs in one event loop: a call asks the breaker, awaits the  *)
(* peer, and records the result, and other calls run while it waits.       *)
(***************************************************************************)
EXTENDS Naturals

CONSTANTS
  Calls,        (* slots for calls in flight to the peer                   *)
  Threshold,    (* failure_threshold                                       *)
  Resets,       (* do the supervisor and the operator force it closed?     *)
  Slow          (* may a call outlast recovery_timeout?                    *)

ASSUME CircuitAssumption ==
  /\ Threshold \in Nat \ {0}
  /\ Resets \in BOOLEAN
  /\ Slow \in BOOLEAN

(* half_open_max_calls: no caller changes the default.                     *)
MaxProbes == 1

VARIABLES
  state,        (* CircuitState                                             *)
  failures,     (* consecutive_failures, counted up to Threshold            *)
  probes,       (* _half_open_calls                                         *)
  cooled,       (* OPEN, and recovery_timeout has passed since opened_at    *)
  recovered,    (* total_recoveries > 0                                     *)
  call,         (* the calls in flight                                      *)
  trust         (* history: has the peer answered since the circuit opened? *)

breaker == <<state, failures, probes, cooled, recovered>>
circuitVars == <<breaker, call, trust>>

(* "reset" is a circuit that was forced closed before the peer answered.   *)
TrustLevels == {"answered", "isolated", "reset"}

(* A call is a trial when it was let through to a peer that has not        *)
(* answered yet, and the probe when it half-opened the circuit.            *)
NoCall == [sent |-> FALSE, trial |-> FALSE, probe |-> FALSE]

CircuitInit ==
  /\ state = "closed"
  /\ failures = 0
  /\ probes = 0
  /\ cooled = FALSE
  /\ recovered = FALSE
  /\ call = [c \in Calls |-> NoCall]
  /\ trust = "answered"

-----------------------------------------------------------------------------
(* The breaker.                                                             *)

Send(c, probe) ==
  call' = [call EXCEPT ![c] = [sent |-> TRUE, trial |-> trust # "answered", probe |-> probe]]

MutantAdmitWithoutLimit(c) ==
  /\ ~call[c].sent
  /\ \/ state = "closed" /\ Send(c, FALSE) /\ UNCHANGED <<state, probes, cooled>>
     \/ state = "half_open"
        /\ probes' = probes + 1
        /\ Send(c, FALSE) /\ UNCHANGED <<state, cooled>>
     \/ state = "open" /\ cooled
        /\ state' = "half_open" /\ probes' = 1 /\ cooled' = FALSE
        /\ Send(c, TRUE)
  /\ UNCHANGED <<failures, recovered, trust>>

\* allow_request lets the call through.  A refused call changes a counter only.
Admit(c) ==
  /\ ~call[c].sent
  /\ \/ state = "closed" /\ Send(c, FALSE) /\ UNCHANGED <<state, probes, cooled>>
     \/ state = "half_open" /\ probes < MaxProbes
        /\ probes' = probes + 1
        /\ Send(c, FALSE) /\ UNCHANGED <<state, cooled>>
     \/ state = "open" /\ cooled
        /\ state' = "half_open" /\ probes' = 1 /\ cooled' = FALSE
        /\ Send(c, TRUE)
  /\ UNCHANGED <<failures, recovered, trust>>

Return(c) == call' = [call EXCEPT ![c] = NoCall]

\* record_success, whatever the state and whenever the call was sent.
RecordSuccess ==
  /\ state' = "closed"
  /\ failures' = 0
  /\ probes' = 0
  /\ cooled' = FALSE
  /\ recovered' = (recovered \/ state # "closed")
  /\ trust' = "answered"

\* The circuit opens: what is in flight was not sent to an isolated peer.
Open(c) ==
  /\ state' = "open" /\ probes' = 0 /\ cooled' = FALSE
  /\ trust' = "isolated"
  /\ call' = [d \in Calls |-> IF d = c THEN NoCall
                              ELSE IF state = "closed" THEN [call[d] EXCEPT !.trial = FALSE]
                              ELSE call[d]]

\* record_failure.  In OPEN the streak is already at the threshold, so that a
\* late failure starts the cooldown again.
Opens == state = "half_open" \/ failures + 1 >= Threshold

RecordFailure(c) ==
  /\ failures' = IF failures < Threshold THEN failures + 1 ELSE failures
  /\ IF Opens THEN Open(c) ELSE Return(c) /\ UNCHANGED <<state, probes, cooled, trust>>
  /\ UNCHANGED recovered

\* reset: closed, without an answer from the peer.
Reset ==
  /\ state' = "closed"
  /\ failures' = 0
  /\ probes' = 0
  /\ cooled' = FALSE
  /\ trust' = IF trust = "isolated" THEN "reset" ELSE trust
  /\ UNCHANGED <<recovered, call>>

-----------------------------------------------------------------------------
(* The calls.                                                               *)

MutantAnswerUnrecorded(c) ==
  /\ call[c].sent
  /\ Return(c)
  /\ RecordSuccess \/ UNCHANGED <<breaker, trust>>

\* The peer answers, below 500 for a health check or a signal, 200 for vyralx.
Succeed(c) ==
  /\ call[c].sent
  /\ Return(c)
  /\ RecordSuccess

\* A 5xx (for vyralx anything but 200), a timeout or a broken connection.
Fail(c) ==
  /\ call[c].sent
  /\ RecordFailure(c)

\* vyralx records the success of a 200 before it parses the body; a body that is
\* not JSON then records a failure, too.
SucceedThenFail(c) ==
  /\ call[c].sent
  /\ recovered' = (recovered \/ state # "closed")
  /\ failures' = 1
  /\ probes' = 0
  /\ cooled' = FALSE
  /\ IF Threshold = 1
     THEN /\ state' = "open" /\ trust' = "isolated"
          /\ call' = [d \in Calls |-> IF d = c THEN NoCall ELSE [call[d] EXCEPT !.trial = FALSE]]
     ELSE state' = "closed" /\ trust' = "answered" /\ Return(c)

Answered(c) == Succeed(c) \/ Fail(c) \/ SucceedThenFail(c)

-----------------------------------------------------------------------------
(* Time and resets.                                                         *)

\* recovery_timeout (30 s) passes.  The callers' timeouts are 1.5 to 10 s, so
\* that a call sent before the circuit opened has ended by then unless the peer
\* trickles its response (Slow).
Cool ==
  /\ state = "open" /\ ~cooled
  /\ Slow \/ \A c \in Calls : ~call[c].sent
  /\ cooled' = TRUE
  /\ UNCHANGED <<state, failures, probes, recovered, call, trust>>

\* SelfHealingSupervisor.heal, from its loop, a status poll or POST /self/heal.
Heal ==
  /\ Resets
  /\ state = "open" /\ cooled /\ recovered
  /\ Reset

\* POST /self/peers/{peer}/reset.
OperatorReset == Resets /\ Reset

CircuitNext ==
  \/ \E c \in Calls : Admit(c) \/ Answered(c)
  \/ Cool \/ Heal \/ OperatorReset

CircuitSpec == CircuitInit /\ [][CircuitNext]_circuitVars

\* Every call has a timeout, so that its result is recorded.
CircuitFairness == \A c \in Calls : WF_circuitVars(Answered(c))

FairCircuitSpec == CircuitSpec /\ CircuitFairness

-----------------------------------------------------------------------------
(* Properties.                                                              *)

CircuitTypeOK ==
  /\ state \in {"closed", "open", "half_open"}
  /\ failures \in 0 .. Threshold
  /\ probes \in 0 .. MaxProbes
  /\ cooled \in BOOLEAN /\ recovered \in BOOLEAN
  /\ call \in [Calls -> [sent: BOOLEAN, trial: BOOLEAN, probe: BOOLEAN]]
  /\ trust \in TrustLevels

\* allow_request refuses every call of a half-open circuit, and heal looks at
\* open ones only.  So a circuit is half open only while the call that half-opened
\* it is in flight: were a probe's result lost, the peer would stay cut off.
HalfOpenIsProbed == state = "half_open" => \E c \in Calls : call[c].sent /\ call[c].probe

\* "Then a single probe is allowed through" (resilience.py:10): from the moment the
\* circuit opens until the peer answers, one call at a time is sent, however many
\* old calls fail meanwhile, unless somebody forces the circuit closed.
SingleProbe ==
  trust = "isolated" =>
    \A c, d \in Calls : call[c].sent /\ call[c].trial /\ call[d].sent /\ call[d].trial => c = d

\* Why it holds: a half-open circuit has its slot taken, an open one that has cooled
\* has no old call in flight, and opening is the end of every earlier trial.
CircuitInv ==
  /\ CircuitTypeOK
  /\ HalfOpenIsProbed
  /\ state = "half_open" => probes = MaxProbes
  /\ cooled => state = "open"
  /\ trust = "isolated" => state # "closed"
  /\ ~Slow => /\ state = "half_open" =>
                   \A c, d \in Calls : call[c].sent /\ call[d].sent => c = d
              /\ cooled => \A c \in Calls : ~call[c].sent
              /\ state = "open" => \A c \in Calls : call[c].sent => ~call[c].trial

\* A half-open circuit decides: it closes or opens again.
ProbeDecides == state = "half_open" ~> state # "half_open"

\* Together: an unrecorded probe cuts no peer off, and an isolated peer is tried gently.
ProbesAreSound == HalfOpenIsProbed /\ SingleProbe
=============================================================================

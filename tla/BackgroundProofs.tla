-------------------------- MODULE BackgroundProofs --------------------------
(*****************************************************************************)
(* What the components that work behind the requests, and with the peers,   *)
(* promise, for any number of calls, requests, events, deliveries and jobs: *)
(* the half-open circuit to a peer is never left without its probe, and     *)
(* probes go out one at a time; a request FRIDAY delegates makes one forecast*)
(* per idempotency key; the event feed, the advisories, the life of the     *)
(* process; and the durable jobs, which lose no update and mark no event that*)
(* was not sent.  They share no state; each has its own invariant.          *)
(*****************************************************************************)
EXTENDS PeerCircuit, FridayDelegation, MemoraFeed, MarketAdvisory, ServiceProcess, DurableJobs,
        FiniteSetTheorems, SequenceTheorems, NumberLemmas, TLAPS

-----------------------------------------------------------------------------
(* The circuit to a peer.                                                   *)

\* A call that returns or is sent changes its own slot only.
LEMMA CallTypes ==
  ASSUME CircuitTypeOK, NEW c \in Calls
  PROVE  /\ call[c] \in [sent: BOOLEAN, trial: BOOLEAN, probe: BOOLEAN]
         /\ NoCall \in [sent: BOOLEAN, trial: BOOLEAN, probe: BOOLEAN]
         /\ [call[c] EXCEPT !.trial = FALSE] \in [sent: BOOLEAN, trial: BOOLEAN, probe: BOOLEAN]
BY DEF CircuitTypeOK, NoCall

\* Nothing or one is a number of probes and of failures.
LEMMA SmallNumbers == {0, 1} \subseteq 0 .. Threshold /\ {0, 1} \subseteq 0 .. MaxProbes
BY CircuitAssumption DEF MaxProbes

\* A closed circuit is well typed when its calls and its memory of a recovery are.
LEMMA ClosedTypes ==
  ASSUME state' = "closed", failures' \in {0, 1}, probes' = 0, cooled' = FALSE,
         recovered' \in BOOLEAN, trust' \in TrustLevels,
         call' \in [Calls -> [sent: BOOLEAN, trial: BOOLEAN, probe: BOOLEAN]]
  PROVE  CircuitTypeOK'
<1>1. failures' \in 0 .. Threshold /\ probes' \in 0 .. MaxProbes
  BY SmallNumbers
<1> QED
  BY <1>1 DEF CircuitTypeOK

\* A call that returns leaves the calls well typed.
LEMMA ReturnTypes ==
  ASSUME CircuitTypeOK, NEW c \in Calls, Return(c)
  PROVE  call' \in [Calls -> [sent: BOOLEAN, trial: BOOLEAN, probe: BOOLEAN]]
BY CallTypes DEF Return, CircuitTypeOK

\* The calls after a failure that opened the circuit.
LEMMA OpenCalls ==
  ASSUME CircuitTypeOK, NEW c \in Calls, Open(c)
  PROVE  /\ call' \in [Calls -> [sent: BOOLEAN, trial: BOOLEAN, probe: BOOLEAN]]
         /\ ~call'[c].sent
         /\ \A d \in Calls \ {c} : /\ call'[d].sent = call[d].sent
                                   /\ call'[d].trial = TRUE => state # "closed" /\ call[d].trial
BY CallTypes DEF Open, CircuitTypeOK, NoCall

\* CircuitInv holds initially.
LEMMA InvInit == CircuitInit => CircuitInv
<1> SUFFICES ASSUME CircuitInit
             PROVE  CircuitInv
  OBVIOUS
<1>1. failures \in 0 .. Threshold
  BY CircuitAssumption DEF CircuitInit
<1>2. probes \in 0 .. MaxProbes
  BY DEF CircuitInit, MaxProbes
<1>3. call \in [Calls -> [sent: BOOLEAN, trial: BOOLEAN, probe: BOOLEAN]]
  BY DEF CircuitInit, NoCall
<1>4. CircuitTypeOK
  BY <1>1, <1>2, <1>3 DEF CircuitInit, CircuitTypeOK, TrustLevels
<1> QED
  BY <1>4 DEF CircuitInit, CircuitInv, HalfOpenIsProbed, NoCall

\* allow_request: the circuit is half-opened by its probe, and a half-open circuit
\* admits nobody else.
LEMMA InvAdmit ==
  ASSUME CircuitInv, NEW c \in Calls, Admit(c)
  PROVE  CircuitInv'
<1>0. CircuitTypeOK
  BY DEF CircuitInv
<1>1. CASE state = "closed"
  <2>1. /\ Send(c, FALSE) /\ UNCHANGED <<state, probes, cooled, failures, recovered, trust>>
    BY <1>1 DEF Admit
  <2>2. CircuitTypeOK'
    BY <2>1, <1>0 DEF Send, CircuitTypeOK, TrustLevels
  <2> QED
    BY <2>1, <2>2, <1>1 DEF CircuitInv, HalfOpenIsProbed
<1>2. CASE state = "half_open"
  BY <1>2 DEF Admit, CircuitInv, MaxProbes
<1>3. CASE state = "open"
  <2>1. /\ cooled /\ state' = "half_open" /\ probes' = 1 /\ cooled' = FALSE
        /\ Send(c, TRUE) /\ UNCHANGED <<failures, recovered, trust>>
    BY <1>3 DEF Admit
  <2>2. CircuitTypeOK'
    <3>1. probes' \in 0 .. MaxProbes
      BY <2>1, SmallNumbers
    <3>2. call' \in [Calls -> [sent: BOOLEAN, trial: BOOLEAN, probe: BOOLEAN]]
      BY <2>1, <1>0 DEF Send, CircuitTypeOK
    <3> QED
      BY <2>1, <3>1, <3>2, <1>0 DEF CircuitTypeOK
  <2>3. /\ call'[c].sent /\ call'[c].probe
        /\ \A d \in Calls \ {c} : call'[d] = call[d]
    BY <2>1, <1>0 DEF Send, CircuitTypeOK
  <2>4. ~Slow => \A d \in Calls : ~call[d].sent
    BY <2>1 DEF CircuitInv
  <2> QED
    BY <2>1, <2>2, <2>3, <2>4 DEF CircuitInv, HalfOpenIsProbed, MaxProbes
<1> QED
  BY <1>0, <1>1, <1>2, <1>3 DEF CircuitTypeOK

\* A recorded success or a reset closes the circuit, whatever it finds.
LEMMA InvClose ==
  ASSUME CircuitInv, CircuitTypeOK', state' = "closed", cooled' = FALSE,
         trust' # "isolated"
  PROVE  CircuitInv'
BY DEF CircuitInv, HalfOpenIsProbed

\* record_failure, as the last step of a call.
LEMMA InvFail ==
  ASSUME CircuitInv, NEW c \in Calls, Fail(c)
  PROVE  CircuitInv'
<1>0. CircuitTypeOK /\ RecordFailure(c) /\ Threshold \in Nat \ {0}
  BY CircuitAssumption DEF CircuitInv, Fail
<1>1. failures' \in 0 .. Threshold /\ recovered' = recovered
  BY <1>0 DEF RecordFailure, CircuitTypeOK
<1>2. CASE Opens
  <2>1. Open(c)
    BY <1>0, <1>2 DEF RecordFailure
  <2>2. CircuitTypeOK'
    <3>1. probes' \in 0 .. MaxProbes
      BY <2>1, SmallNumbers DEF Open
    <3>2. state' \in {"open"} /\ cooled' = FALSE /\ trust' \in TrustLevels
      BY <2>1 DEF Open, TrustLevels
    <3> QED
      BY <1>0, <1>1, <2>1, <3>1, <3>2, OpenCalls DEF CircuitTypeOK
  <2>3. ~Slow => \A d \in Calls : call'[d].sent => ~call'[d].trial
    <3> SUFFICES ASSUME ~Slow, NEW d \in Calls, call'[d].sent, call'[d].trial
                 PROVE  FALSE
      BY <2>2 DEF CircuitTypeOK
    <3>1. d # c /\ call[d].sent /\ call[d].trial /\ state # "closed"
      BY <2>1, <2>2, <1>0, OpenCalls DEF CircuitTypeOK
    <3>2. state # "half_open"
      BY <3>1 DEF CircuitInv, Fail
    <3> QED
      BY <3>1, <3>2, <1>0 DEF CircuitInv, CircuitTypeOK
  <2> QED
    BY <2>1, <2>2, <2>3 DEF CircuitInv, HalfOpenIsProbed, Open
<1>3. CASE ~Opens
  <2>1. /\ state # "half_open" /\ Return(c)
        /\ UNCHANGED <<state, probes, cooled, trust>>
    BY <1>0, <1>3 DEF RecordFailure, Opens
  <2>2. CircuitTypeOK'
    BY <1>0, <1>1, <2>1, CallTypes DEF Return, CircuitTypeOK
  <2>3. \A d \in Calls : call'[d].sent => call'[d] = call[d]
    BY <1>0, <2>1 DEF Return, CircuitTypeOK, NoCall
  <2> QED
    BY <2>1, <2>2, <2>3 DEF CircuitInv, HalfOpenIsProbed
<1> QED
  BY <1>2, <1>3

\* A success followed by a failure of the same call: closed, unless one failure is
\* enough to open the circuit.
LEMMA InvSucceedThenFail ==
  ASSUME CircuitInv, NEW c \in Calls, SucceedThenFail(c)
  PROVE  CircuitInv'
<1>0. CircuitTypeOK /\ Threshold \in Nat \ {0}
  BY CircuitAssumption DEF CircuitInv
<1>1. CASE Threshold = 1
  <2>1. /\ state' = "open" /\ trust' = "isolated" /\ cooled' = FALSE
        /\ call' = [d \in Calls |-> IF d = c THEN NoCall ELSE [call[d] EXCEPT !.trial = FALSE]]
    BY <1>1 DEF SucceedThenFail
  <2>2. CircuitTypeOK'
    <3>1. probes' \in 0 .. MaxProbes /\ failures' \in 0 .. Threshold
      BY SmallNumbers DEF SucceedThenFail
    <3>2. recovered' \in BOOLEAN
      BY DEF SucceedThenFail
    <3>3. call' \in [Calls -> [sent: BOOLEAN, trial: BOOLEAN, probe: BOOLEAN]]
      BY <2>1, <1>0, CallTypes DEF CircuitTypeOK
    <3> QED
      BY <2>1, <3>1, <3>2, <3>3 DEF CircuitTypeOK, TrustLevels
  <2>3. \A d \in Calls : call'[d].sent => ~call'[d].trial
    BY <2>1, <1>0 DEF NoCall, CircuitTypeOK
  <2> QED
    BY <2>1, <2>2, <2>3 DEF CircuitInv, HalfOpenIsProbed
<1>2. CASE Threshold # 1
  <2>1. /\ state' = "closed" /\ trust' = "answered" /\ cooled' = FALSE /\ Return(c)
    BY <1>2 DEF SucceedThenFail
  <2>2. recovered' \in BOOLEAN
    BY DEF SucceedThenFail
  <2>3. failures' \in {0, 1} /\ probes' = 0 /\ trust' \in TrustLevels
    BY <2>1 DEF SucceedThenFail, TrustLevels
  <2>4. CircuitTypeOK'
    BY <2>1, <2>2, <2>3, <1>0, ReturnTypes, ClosedTypes
  <2> QED
    BY <2>1, <2>4, InvClose
<1> QED
  BY <1>1, <1>2

\* CircuitInv is inductive.
LEMMA InvNext == CircuitInv /\ [CircuitNext]_circuitVars => CircuitInv'
<1> SUFFICES ASSUME CircuitInv, [CircuitNext]_circuitVars
             PROVE  CircuitInv'
  OBVIOUS
<1>0. CircuitTypeOK /\ Threshold \in Nat \ {0}
  BY CircuitAssumption DEF CircuitInv
<1>1. ASSUME NEW c \in Calls, Admit(c)
      PROVE  CircuitInv'
  BY <1>1, InvAdmit
<1>2. ASSUME NEW c \in Calls, Succeed(c)
      PROVE  CircuitInv'
  <2>0. recovered' \in BOOLEAN
    BY <1>2 DEF Succeed, RecordSuccess
  <2>1. CircuitTypeOK'
    BY <1>2, <2>0, <1>0, ReturnTypes, ClosedTypes DEF Succeed, RecordSuccess, TrustLevels
  <2> QED
    BY <1>2, <2>1, InvClose DEF Succeed, RecordSuccess
<1>3. ASSUME NEW c \in Calls, Fail(c)
      PROVE  CircuitInv'
  BY <1>3, InvFail
<1>4. ASSUME NEW c \in Calls, SucceedThenFail(c)
      PROVE  CircuitInv'
  BY <1>4, InvSucceedThenFail
<1>5. CASE Cool
  BY <1>5 DEF Cool, CircuitInv, CircuitTypeOK, HalfOpenIsProbed
<1>6. CASE Heal \/ OperatorReset
  <2>1. Reset
    BY <1>6 DEF Heal, OperatorReset
  <2>2. CircuitTypeOK'
    <3>1. recovered' \in BOOLEAN /\ trust' \in TrustLevels
          /\ call' \in [Calls -> [sent: BOOLEAN, trial: BOOLEAN, probe: BOOLEAN]]
      BY <2>1, <1>0 DEF Reset, CircuitTypeOK, TrustLevels
    <3> QED
      BY <2>1, <3>1, ClosedTypes DEF Reset
  <2> QED
    BY <2>1, <2>2, InvClose, <1>0 DEF Reset
<1>7. CASE UNCHANGED circuitVars
  BY <1>7 DEF circuitVars, breaker, CircuitInv, CircuitTypeOK, HalfOpenIsProbed
<1> QED
  BY <1>1, <1>2, <1>3, <1>4, <1>5, <1>6, <1>7 DEF CircuitNext, Answered

\* The inductive invariant of the breaker, its callers and its resets.
THEOREM CircuitStaysSound == CircuitSpec => []CircuitInv
BY InvInit, InvNext, PTL DEF CircuitSpec

\* Every variable of the breaker keeps its type: the streak stays at or below the
\* threshold and at most one half-open slot is taken.
THEOREM CircuitTypeCorrect == CircuitSpec => []CircuitTypeOK
<1>1. CircuitInv => CircuitTypeOK
  BY DEF CircuitInv
<1> QED
  BY <1>1, CircuitStaysSound, PTL

\* A half-open circuit is never left without the call that half-opened it, even
\* when calls outlast the cooldown and resets come at any time.
THEOREM HalfOpenNeverAbandoned == CircuitSpec => []HalfOpenIsProbed
<1>1. CircuitInv => HalfOpenIsProbed
  BY DEF CircuitInv
<1> QED
  BY <1>1, CircuitStaysSound, PTL

\* While no call outlasts the cooldown, an isolated peer gets one call at a time.
THEOREM ProbesGoAlone ==
  ASSUME ~Slow
  PROVE  CircuitSpec => []SingleProbe
<1>1. CircuitInv => SingleProbe
  BY DEF CircuitInv, CircuitTypeOK, SingleProbe
<1> QED
  BY <1>1, CircuitStaysSound, PTL

\* Both, when no call outlasts the cooldown.
THEOREM ProbesSound ==
  ASSUME ~Slow
  PROVE  CircuitSpec => []ProbesAreSound
<1>1. HalfOpenIsProbed /\ SingleProbe => ProbesAreSound
  BY DEF ProbesAreSound
<1> QED
  BY <1>1, HalfOpenNeverAbandoned, ProbesGoAlone, PTL

-----------------------------------------------------------------------------
(* The requests FRIDAY delegates.                                           *)

\* A request that goes on without an answer changes its phase only.
LEMMA ProceedTypes ==
  ASSUME DelegationTypeOK, stored' \subseteq Requests,
         NEW r \in Requests, NEW p \in Phases, Proceed(r, p)
  PROVE  DelegationTypeOK'
BY DEF DelegationTypeOK, Proceed

\* A request that is answered carries a forecast exactly when it is told "ok".
LEMMA TellTypes ==
  ASSUME DelegationTypeOK, stored' \subseteq Requests,
         NEW r \in Requests, NEW v \in Verdicts, NEW f \in Requests \cup {None},
         v = "ok" <=> f # None, Tell(r, v, f)
  PROVE  DelegationTypeOK'
<1>1. /\ phase' \in [Requests -> Phases]
      /\ key' \in [Requests -> Keys] /\ payload' \in [Requests -> Payloads]
      /\ verdict' \in [Requests -> Verdicts]
      /\ told' \in [Requests -> Requests \cup {None}]
  BY DEF DelegationTypeOK, Tell, Phases
<1>2. \A s \in Requests : verdict'[s] = "ok" <=> told'[s] # None
  BY DEF DelegationTypeOK, Tell
<1> QED
  BY <1>1, <1>2 DEF DelegationTypeOK

LEMMA DelegationInitSound ==
  ASSUME DelegationInit
  PROVE  DelegationInv
<1>1. DelegationTypeOK
  BY DEF DelegationInit, DelegationTypeOK, Phases, Verdicts
<1> QED
  BY <1>1 DEF DelegationInit, DelegationInv, OneForecastPerKey, RepliesAreTheForecast,
              ConflictMeansTaken, RequestSound, OneOpenRow

\* An answer that the stored forecasts justify.
LEMMA AnswerSound ==
  ASSUME DelegationInv, UNCHANGED stored,
         NEW r \in Requests, NEW v \in Verdicts, NEW f \in Requests \cup {None},
         v = "ok" <=> f # None, Tell(r, v, f),
         v = "ok" => f \in stored /\ SameQuestion(r, f),
         v = "conflict" => \E g \in stored : SameKey(r, g)
  PROVE  DelegationInv'
<1>1. DelegationTypeOK'
  BY TellTypes DEF DelegationInv, DelegationTypeOK
<1>2. /\ phase'[r] = "done" /\ verdict'[r] = v /\ told'[r] = f
      /\ UNCHANGED <<key, payload>>
      /\ \A s \in Requests : s # r =>
           phase'[s] = phase[s] /\ verdict'[s] = verdict[s] /\ told'[s] = told[s]
  BY DEF Tell, DelegationInv, DelegationTypeOK
<1>3. OneForecastPerKey'
  BY <1>2 DEF DelegationInv, OneForecastPerKey, SameKey
<1>4. RepliesAreTheForecast'
  BY <1>2 DEF DelegationInv, RepliesAreTheForecast, SameQuestion, SameKey
<1>5. ConflictMeansTaken'
  BY <1>2 DEF DelegationInv, ConflictMeansTaken, SameKey
<1>6. \A s \in Requests : RequestSound(s)'
  BY <1>2 DEF DelegationInv, RequestSound, SameKey
<1>7. OneOpenRow'
  BY <1>2 DEF DelegationInv, OneOpenRow, SameKey
<1> QED
  BY <1>1, <1>3, <1>4, <1>5, <1>6, <1>7 DEF DelegationInv

\* What a request does before its row is inserted, and after it is committed.
LEMMA ReadingSound ==
  ASSUME DelegationInv, NEW r \in Requests,
         Arrive(r) \/ Lookup(r) \/ InsertFails(r) \/ Poll(r) \/ Reply(r) \/ HandlerFails(r)
  PROVE  DelegationInv'
<1>1. UNCHANGED <<stored, key, payload>>
  BY DEF Arrive, Lookup, InsertFails, Poll, Reply, HandlerFails, Proceed, Tell, Raise
<1>2. \/ \E p \in {"lookup", "insert", "failed"} : Proceed(r, p)
      \/ \E v \in {"blocked", "error"} : Tell(r, v, None)
      \/ Tell(r, "conflict", None) /\ \E f \in stored : SameKey(r, f)
      \/ \E f \in stored : Tell(r, "ok", f) /\ SameQuestion(r, f)
  <2>1. CASE Arrive(r) \/ InsertFails(r) \/ HandlerFails(r)
    BY <2>1 DEF Arrive, InsertFails, HandlerFails
  <2>2. CASE Lookup(r)
    BY <2>2 DEF Lookup
  <2>3. CASE Poll(r)
    BY <2>3 DEF Poll, Raise, DelegationInv, RequestSound
  <2>4. CASE Reply(r)
    BY <2>4 DEF Reply, DelegationInv, RequestSound, SameQuestion, SameKey
  <2> QED
    BY <2>1, <2>2, <2>3, <2>4
<1>2a. phase[r] # "done"
  BY DEF Arrive, Lookup, InsertFails, Poll, Reply, HandlerFails
<1>3. CASE \E p \in {"lookup", "insert", "failed"} : Proceed(r, p)
  <2>1. PICK p \in {"lookup", "insert", "failed"} : Proceed(r, p)
    BY <1>3
  <2>2. DelegationTypeOK'
    BY <1>1, <2>1, ProceedTypes DEF DelegationInv, DelegationTypeOK, Phases
  <2>3. /\ phase'[r] = p
        /\ \A s \in Requests : s # r => phase'[s] = phase[s]
        /\ UNCHANGED <<verdict, told>>
    BY <2>1 DEF Proceed, DelegationInv, DelegationTypeOK
  <2>4. OneForecastPerKey' /\ RepliesAreTheForecast' /\ ConflictMeansTaken'
    BY <1>1, <2>3 DEF DelegationInv, OneForecastPerKey, RepliesAreTheForecast,
       ConflictMeansTaken, SameQuestion, SameKey
  <2>5. phase[r] # "done"
    BY <1>2a
  <2>6. \A s \in Requests : RequestSound(s)'
    BY <1>1, <2>3, <2>5 DEF DelegationInv, RequestSound, SameKey
  <2>7. OneOpenRow'
    BY <1>1, <2>3 DEF DelegationInv, OneOpenRow, SameKey
  <2> QED
    BY <2>2, <2>4, <2>6, <2>7 DEF DelegationInv
<1>4. CASE \/ \E v \in {"blocked", "error"} : Tell(r, v, None)
           \/ Tell(r, "conflict", None) /\ \E f \in stored : SameKey(r, f)
  BY <1>1, <1>4, AnswerSound DEF Verdicts
<1>5. CASE \E f \in stored : Tell(r, "ok", f) /\ SameQuestion(r, f)
  <2>1. PICK f \in stored : Tell(r, "ok", f) /\ SameQuestion(r, f)
    BY <1>5
  <2>2. f \in Requests /\ f # None
    BY DelegationAssumption DEF DelegationInv, DelegationTypeOK
  <2> QED
    BY <1>1, <2>1, <2>2, AnswerSound DEF Verdicts
<1> QED
  BY <1>2, <1>3, <1>4, <1>5

\* An INSERT waits for uncommitted rows of its key and loses to committed ones.
LEMMA InsertSound ==
  ASSUME DelegationInv, NEW r \in Requests, Insert(r)
  PROVE  DelegationInv'
<1>1. PICK p \in {"lost", "commit"} :
        /\ Proceed(r, p)
        /\ p = "lost" => \E f \in stored : SameKey(r, f)
        /\ p = "commit" => \A f \in stored : ~SameKey(r, f)
  BY DEF Insert
<1>2. stored' = stored /\ KeyFree(r)
  BY DEF Insert
<1>3. DelegationTypeOK'
  BY <1>1, <1>2, ProceedTypes DEF DelegationInv, DelegationTypeOK, Phases
<1>4. /\ phase'[r] = p /\ phase[r] # "done"
      /\ \A s \in Requests : s # r => phase'[s] = phase[s]
      /\ UNCHANGED <<key, payload, verdict, told>>
  BY <1>1 DEF Insert, Proceed, DelegationInv, DelegationTypeOK
<1>5. OneForecastPerKey' /\ RepliesAreTheForecast' /\ ConflictMeansTaken'
  BY <1>2, <1>4 DEF DelegationInv, OneForecastPerKey, RepliesAreTheForecast,
     ConflictMeansTaken, SameQuestion, SameKey
<1>6. \A s \in Requests : RequestSound(s)'
  <2>1. RequestSound(r)'
    BY <1>1, <1>2, <1>4 DEF Insert, DelegationInv, RequestSound, SameKey
  <2>2. ASSUME NEW s \in Requests, s # r
        PROVE  RequestSound(s)'
    BY <1>2, <1>4, <2>2 DEF DelegationInv, RequestSound, SameKey
  <2> QED
    BY <2>1, <2>2
<1>7. OneOpenRow'
  BY <1>2, <1>4 DEF DelegationInv, OneOpenRow, KeyFree, SameKey
<1> QED
  BY <1>3, <1>5, <1>6, <1>7 DEF DelegationInv

\* A commit stores the first row of its key, whatever the client learns of it.
LEMMA CommitSound ==
  ASSUME DelegationInv, NEW r \in Requests, Commit(r) \/ CommitUnknown(r)
  PROVE  DelegationInv'
<1>1. phase[r] = "commit" /\ stored' = stored \cup {r} /\ UNCHANGED <<key, payload>>
  BY DEF Commit, CommitUnknown, Proceed, Tell
<1>2. DelegationTypeOK'
  <2>1. CASE Commit(r)
    BY <1>1, <2>1, ProceedTypes DEF Commit, DelegationInv, DelegationTypeOK, Phases
  <2>2. CASE CommitUnknown(r)
    BY <1>1, <2>2, TellTypes DEF CommitUnknown, DelegationInv, DelegationTypeOK, Verdicts
  <2> QED
    BY <2>1, <2>2
<1>3. OneForecastPerKey'
  BY <1>1 DEF DelegationInv, RequestSound, DelegationTypeOK, OneForecastPerKey, SameKey
<1>4. \A s \in Requests : s # r =>
        phase'[s] = phase[s] /\ verdict'[s] = verdict[s] /\ told'[s] = told[s]
  BY DEF Commit, CommitUnknown, Proceed, Tell, DelegationInv, DelegationTypeOK
<1>5. /\ phase'[r] \in {"reply", "done"}
      /\ \/ verdict'[r] = verdict[r] /\ told'[r] = told[r]
         \/ verdict'[r] = "error"
  BY DEF Commit, CommitUnknown, Proceed, Tell, DelegationInv, DelegationTypeOK
<1>5a. phase'[r] # "done" => verdict'[r] = "none"
  BY DEF Commit, CommitUnknown, Proceed, Tell, DelegationInv, DelegationTypeOK, RequestSound
<1>6. RepliesAreTheForecast' /\ ConflictMeansTaken'
  BY <1>1, <1>4, <1>5 DEF DelegationInv, RepliesAreTheForecast, ConflictMeansTaken,
     SameQuestion, SameKey
<1>7. \A s \in Requests : RequestSound(s)'
  <2>1. RequestSound(r)'
    BY <1>1, <1>5, <1>5a DEF DelegationInv, RequestSound, SameKey
  <2>2. ASSUME NEW s \in Requests, s # r
        PROVE  RequestSound(s)'
    <3>1. phase[s] = "commit" => ~SameKey(s, r)
      BY <1>1, <2>2 DEF DelegationInv, OneOpenRow
    <3> QED
      BY <1>1, <1>4, <2>2, <3>1 DEF DelegationInv, RequestSound, SameKey
  <2> QED
    BY <2>1, <2>2
<1>8. OneOpenRow'
  BY <1>1, <1>4, <1>5 DEF DelegationInv, OneOpenRow, SameKey
<1> QED
  BY <1>2, <1>3, <1>6, <1>7, <1>8 DEF DelegationInv

\* A crash answers nobody and keeps what is stored.
LEMMA CrashSound ==
  ASSUME DelegationInv, Crash
  PROVE  DelegationInv'
<1>1. /\ UNCHANGED <<key, payload, stored, told>>
      /\ \A r \in Requests : phase'[r] \in {"idle", "done"}
      /\ \A r \in Requests : verdict'[r] \in {verdict[r], "gone"}
  BY DEF Crash
<1>2. phase' \in [Requests -> Phases] /\ verdict' \in [Requests -> Verdicts]
  BY DEF Crash, DelegationInv, DelegationTypeOK, Phases, Verdicts
<1>3. \A r \in Requests : verdict'[r] = "ok" <=> told'[r] # None
  <2> SUFFICES ASSUME NEW r \in Requests
               PROVE  verdict'[r] = "ok" <=> told'[r] # None
    OBVIOUS
  <2>1. verdict[r] = "ok" <=> verdict'[r] = "ok"
    BY DEF Crash, DelegationInv, RequestSound
  <2> QED
    BY <1>1, <2>1 DEF DelegationInv, DelegationTypeOK
<1>4. DelegationTypeOK'
  BY <1>1, <1>2, <1>3 DEF DelegationInv, DelegationTypeOK
<1>5. OneForecastPerKey' /\ RepliesAreTheForecast' /\ ConflictMeansTaken'
  BY <1>1 DEF DelegationInv, OneForecastPerKey, RepliesAreTheForecast, ConflictMeansTaken,
     SameQuestion, SameKey
<1>6. \A r \in Requests : RequestSound(r)'
  <2> SUFFICES ASSUME NEW r \in Requests PROVE RequestSound(r)'
    OBVIOUS
  <2>1. phase'[r] # "done" => phase[r] = "idle" /\ verdict'[r] = verdict[r]
    BY DEF Crash
  <2> QED
    BY <1>1, <2>1 DEF DelegationInv, RequestSound
<1>7. OneOpenRow'
  BY <1>1 DEF OneOpenRow
<1> QED
  BY <1>4, <1>5, <1>6, <1>7 DEF DelegationInv

LEMMA DelegationNextSound ==
  ASSUME DelegationInv, [DelegationNext]_delegationVars
  PROVE  DelegationInv'
<1>1. CASE UNCHANGED delegationVars
  BY <1>1 DEF DelegationInv, DelegationTypeOK, OneForecastPerKey, RepliesAreTheForecast,
     ConflictMeansTaken, RequestSound, OneOpenRow, SameQuestion, SameKey, delegationVars
<1>2. ASSUME NEW r \in Requests, Arrive(r) \/ Handle(r) \/ Trouble(r)
      PROVE  DelegationInv'
  BY <1>2, ReadingSound, InsertSound, CommitSound DEF Handle, Trouble
<1> QED
  BY <1>1, <1>2, CrashSound DEF DelegationNext

-----------------------------------------------------------------------------
\* Requests, rows and replies stay as DelegationInv describes them.
THEOREM DelegationStaysSound == DelegationSpec => []DelegationInv
<1>1. DelegationInit => DelegationInv
  BY DelegationInitSound
<1>2. DelegationInv /\ [DelegationNext]_delegationVars => DelegationInv'
  BY DelegationNextSound
<1> QED
  BY <1>1, <1>2, PTL DEF DelegationSpec

\* A retry storm makes one forecast.
THEOREM OneForecast == DelegationSpec => []OneForecastPerKey
<1>1. DelegationInv => OneForecastPerKey
  BY DEF DelegationInv
<1> QED
  BY <1>1, DelegationStaysSound, PTL

\* Every forecast a client is told is the stored one of its key.
THEOREM RepliesSound == DelegationSpec => []RepliesAreTheForecast
<1>1. DelegationInv => RepliesAreTheForecast
  BY DEF DelegationInv
<1> QED
  BY <1>1, DelegationStaysSound, PTL

\* A conflict is told about taken keys only.
THEOREM ConflictsSound == DelegationSpec => []ConflictMeansTaken
<1>1. DelegationInv => ConflictMeansTaken
  BY DEF DelegationInv
<1> QED
  BY <1>1, DelegationStaysSound, PTL

\* All three: a retry is safe however the attempts before it ended.
THEOREM RetriesSafe == DelegationSpec => []RetriesAreSafe
<1>1. OneForecastPerKey /\ RepliesAreTheForecast /\ ConflictMeansTaken => RetriesAreSafe
  BY DEF RetriesAreSafe
<1> QED
  BY <1>1, OneForecast, RepliesSound, ConflictsSound, PTL

-----------------------------------------------------------------------------
(* The event feed.                                                          *)

\* Where the worker is in its batch: at the event behind the cursor.
PlaceInv ==
  /\ acked \in 0 .. Len(Feed)
  /\ step \in {"sleep", "look", "remember", "commit", "ack"}
  /\ step # "sleep" => at = acked + 1 /\ at <= last /\ last \in 1 .. Len(Feed)

\* What is already durable of the event the worker is at: Memora before the inbox,
\* both before the acknowledgement.
HandledInv ==
  /\ inbox \subseteq memories
  /\ step \in {"remember", "commit"} => Feed[at] = "notice"
  /\ step = "commit" => at \in memories
  /\ step = "ack" => Feed[at] # "malformed" /\ (Feed[at] = "notice" => at \in inbox)

FeedInv == PlaceInv /\ HandledInv /\ AckedIsDurable

\* The length of the feed is a number.
LEMMA FeedLength == Len(Feed) \in Nat
BY FeedAssumption

\* The worker starts behind an empty cursor.
LEMMA FeedInvInit == FeedInit => FeedInv
BY FeedLength DEF FeedInit, FeedInv, PlaceInv, HandledInv, AckedIsDurable

\* The steps after which the event at the cursor is acknowledged.
LEMMA AcknowledgedIsDurable ==
  ASSUME FeedInv, step = "ack", acked' = at, UNCHANGED <<memories, inbox>>
  PROVE  /\ acked' \in 0 .. Len(Feed)
         /\ AckedIsDurable'
<1>1. at = acked + 1 /\ acked \in Nat /\ at \in 1 .. Len(Feed)
  BY FeedLength DEF FeedInv, PlaceInv
<1>2. \A e \in 1 .. at : e \in 1 .. acked \/ e = at
  BY <1>1
<1>3. Feed[at] # "malformed" /\ (Feed[at] = "notice" => at \in memories \cap inbox)
  BY DEF FeedInv, HandledInv
<1> QED
  BY <1>1, <1>2, <1>3 DEF FeedInv, AckedIsDurable

\* Every step keeps the invariant.
LEMMA FeedInvStep == FeedInv /\ [FeedNext]_feedVars => FeedInv'
<1> SUFFICES ASSUME FeedInv, [FeedNext]_feedVars
             PROVE  FeedInv'
  OBVIOUS
<1>0. Len(Feed) \in Nat
  BY FeedLength
<1>1. CASE PollFeed
  <2>1. PlaceInv'
    BY <1>0, <1>1, FeedAssumption DEF PollFeed, FeedInv, PlaceInv
  <2> QED
    BY <1>1, <2>1 DEF PollFeed, FeedInv, HandledInv, AckedIsDurable
<1>2. CASE GiveUp
  BY <1>2 DEF GiveUp, FeedInv, PlaceInv, HandledInv, AckedIsDurable
<1>3. CASE LookAtEvent
  BY <1>3 DEF LookAtEvent, FeedInv, PlaceInv, HandledInv, AckedIsDurable
<1>4. CASE Remember
  BY <1>4 DEF Remember, FeedInv, PlaceInv, HandledInv, AckedIsDurable
<1>5. CASE CommitNotice
  BY <1>5 DEF CommitNotice, FeedInv, PlaceInv, HandledInv, AckedIsDurable
<1>6. CASE Acknowledge
  <2>1. acked' \in 0 .. Len(Feed) /\ AckedIsDurable'
    BY <1>6, AcknowledgedIsDurable DEF Acknowledge
  <2>2. PlaceInv'
    BY <1>0, <1>6, <2>1 DEF Acknowledge, FeedInv, PlaceInv
  <2>3. HandledInv'
    BY <1>6 DEF Acknowledge, FeedInv, HandledInv
  <2> QED
    BY <2>1, <2>2, <2>3 DEF FeedInv
<1>7. CASE AcknowledgeUnknown
  <2>1. acked' \in 0 .. Len(Feed) /\ AckedIsDurable'
    BY <1>7, AcknowledgedIsDurable DEF AcknowledgeUnknown
  <2> QED
    BY <1>7, <2>1 DEF AcknowledgeUnknown, FeedInv, PlaceInv, HandledInv
<1>8. CASE UNCHANGED feedVars
  BY <1>8 DEF feedVars, FeedInv, PlaceInv, HandledInv, AckedIsDurable
<1> QED
  BY <1>1, <1>2, <1>3, <1>4, <1>5, <1>6, <1>7, <1>8 DEF FeedNext

\* "acknowledging only after durable handling": whatever calls fail, answers get lost
\* and processes end, an acknowledged notice is in Memora and in the inbox.
THEOREM AckedDurable == FeedSpec => []AckedIsDurable
<1>1. FeedInv => AckedIsDurable
  BY DEF FeedInv
<1> QED
  BY <1>1, FeedInvInit, FeedInvStep, PTL DEF FeedSpec

-----------------------------------------------------------------------------
(* The advisories.                                                          *)

\* A delivery under way has named a run and what it says.
HandlingInv ==
  /\ handling \in [Deliveries -> [phase: {"off", "remember", "look", "insert", "mark", "answered"},
                                  run: Runs \cup {Nothing}, finding: Findings \cup {Nothing},
                                  answer: Answers]]
  /\ \A d \in Deliveries :
       handling[d].phase # "off" => Run(d) \in Runs /\ handling[d].finding \in Findings

\* A notice that has a status says something.
NoticeInv ==
  /\ notice \in [Runs -> [finding: Findings \cup {Nothing}, status: Statuses]]
  /\ starts \in [Runs -> Nat]
  /\ \A r \in Runs : notice[r].finding = Nothing => notice[r] = NoNotice /\ starts[r] = 0

\* Only what has a notice is processed.
MakingInv ==
  /\ making \in [Makers -> Makings]
  /\ \A r \in Runs : making[r] # "idle" => notice[r].finding # Nothing

\* At most one delivery processes a run, and before that nobody has.
MarkInv ==
  /\ \A d \in Deliveries : handling[d].phase = "mark" => SameFinding(d) /\ starts[Run(d)] = 0
  /\ \A d, e \in Deliveries :
       handling[d].phase = "mark" /\ handling[e].phase = "mark" /\ Run(d) = Run(e) => d = e

\* An answer is told at the end, and tells the truth about the notice.
AnswerInv ==
  \A d \in Deliveries :
    /\ handling[d].answer # "none" => handling[d].phase = "answered"
    /\ handling[d].answer \in {"stored", "already_received"} => SameFinding(d)
    /\ handling[d].answer = "conflict" => notice[Run(d)] # NoNotice /\ ~SameFinding(d)

AdvisoryInv ==
  /\ HandlingInv /\ NoticeInv /\ MakingInv /\ MarkInv /\ AnswerInv
  /\ \A r \in Runs : starts[r] <= 1

\* Before the first delivery there is nothing to tell.
LEMMA AdvisoryInvInit == AdvisoryInit => AdvisoryInv
BY AdvisoryAssumption
DEF AdvisoryInit, AdvisoryInv, HandlingInv, NoticeInv, MakingInv, MarkInv, AnswerInv, NoNotice,
    Statuses, Answers, Makings, Makers

\* A step of one delivery that writes no notice, and what it may answer.
LEMMA DeliveryMoves ==
  ASSUME AdvisoryInv, NEW d \in Deliveries, handling[d].phase \notin {"off", "answered"},
         UNCHANGED <<notice, making, starts>>,
         \/ Stage(d, "look") \/ Stage(d, "insert")
         \/ AnswerKnown(d) /\ notice[Run(d)] # NoNotice
         \/ \E a \in {"unavailable", "error"} : Answer(d, a)
  PROVE  AdvisoryInv'
<1>0. handling[d] \in [phase: {"off", "remember", "look", "insert", "mark", "answered"},
                      run: Runs \cup {Nothing}, finding: Findings \cup {Nothing}, answer: Answers]
  BY DEF AdvisoryInv, HandlingInv
<1>1. /\ handling'[d].run = handling[d].run /\ handling'[d].finding = handling[d].finding
      /\ \/ handling'[d].phase \in {"look", "insert"} /\ handling'[d].answer = handling[d].answer
         \/ /\ handling'[d].phase = "answered"
            /\ \/ handling'[d].answer \in {"unavailable", "error"}
               \/ handling'[d].answer = "already_received" /\ SameFinding(d)
               \/ handling'[d].answer = "conflict" /\ ~SameFinding(d) /\ notice[Run(d)] # NoNotice
      /\ \A e \in Deliveries \ {d} : handling'[e] = handling[e]
  BY <1>0 DEF AdvisoryInv, HandlingInv, Stage, AnswerKnown, Answer
<1>2. HandlingInv'
  <2>1. handling' \in [Deliveries -> [phase: {"off", "remember", "look", "insert", "mark", "answered"},
                                     run: Runs \cup {Nothing}, finding: Findings \cup {Nothing},
                                     answer: Answers]]
    BY <1>0 DEF AdvisoryInv, HandlingInv, Stage, AnswerKnown, Answer, Answers
  <2> QED
    BY <1>1, <2>1 DEF AdvisoryInv, HandlingInv, Run
<1>3. NoticeInv' /\ MakingInv'
  BY DEF AdvisoryInv, NoticeInv, MakingInv
<1>4. MarkInv'
  BY <1>1 DEF AdvisoryInv, MarkInv, Run, SameFinding
<1>5. AnswerInv'
  BY <1>1 DEF AdvisoryInv, AnswerInv, Run, SameFinding
<1> QED
  BY <1>2, <1>3, <1>4, <1>5 DEF AdvisoryInv

\* The first notice of a run.
LEMMA NoticeStored ==
  ASSUME AdvisoryInv, NEW d \in Deliveries, handling[d].phase = "insert",
         notice[Run(d)] = NoNotice, UNCHANGED <<making, starts>>,
         notice' = [notice EXCEPT ![Run(d)] = [finding |-> handling[d].finding,
                                               status |-> "received"]],
         Stage(d, "mark") \/ Answer(d, "unavailable")
  PROVE  AdvisoryInv'
<1>f. PICK r \in Runs : r = Run(d) /\ handling[d].finding \in Findings /\ Nothing \notin Findings
  BY AdvisoryAssumption DEF AdvisoryInv, HandlingInv
<1>1. /\ notice'[r] = [finding |-> handling[d].finding, status |-> "received"]
      /\ \A q \in Runs \ {r} : notice'[q] = notice[q]
  BY <1>f DEF AdvisoryInv, NoticeInv
<1>2. /\ handling'[d].run = r /\ handling'[d].finding = handling[d].finding
      /\ handling'[d].phase \in {"mark", "answered"}
      /\ handling'[d].answer \in {"none", "unavailable"}
      /\ handling'[d].phase = "mark" => handling'[d].answer = "none"
      /\ \A e \in Deliveries \ {d} : handling'[e] = handling[e]
  BY <1>f DEF AdvisoryInv, HandlingInv, AnswerInv, Stage, Answer, Run
<1>3. HandlingInv' /\ NoticeInv' /\ MakingInv'
  <2>1. HandlingInv'
    BY DEF AdvisoryInv, HandlingInv, Stage, Answer, Run, Answers
  <2>2. NoticeInv'
    BY <1>f, <1>1 DEF AdvisoryInv, NoticeInv, Statuses
  <2>3. MakingInv'
    BY <1>f, <1>1 DEF AdvisoryInv, MakingInv
  <2> QED
    BY <2>1, <2>2, <2>3
<1>4. \A e \in Deliveries \ {d} : Run(e) = r => handling[e].phase # "mark"
                               /\ handling[e].answer \notin {"stored", "already_received", "conflict"}
  BY <1>f, AdvisoryAssumption DEF AdvisoryInv, HandlingInv, MarkInv, AnswerInv, SameFinding, NoNotice
<1>5. MarkInv'
  BY <1>f, <1>1, <1>2, <1>4 DEF AdvisoryInv, HandlingInv, NoticeInv, MarkInv, SameFinding, Run, NoNotice
<1>6. AnswerInv'
  BY <1>f, <1>1, <1>2, <1>4 DEF AdvisoryInv, HandlingInv, AnswerInv, SameFinding, Run
<1> QED
  BY <1>3, <1>5, <1>6 DEF AdvisoryInv

\* A change of a notice's status leaves what it says alone.
LEMMA StatusMoves ==
  ASSUME AdvisoryInv, NEW r \in Runs, NEW status \in Statuses, notice[r].finding # Nothing,
         notice' = notice \/ notice' = [notice EXCEPT ![r].status = status]
  PROVE  /\ \A q \in Runs : notice'[q].finding = notice[q].finding
         /\ \A q \in Runs : notice'[q] # NoNotice <=> notice[q] # NoNotice
         /\ notice' \in [Runs -> [finding: Findings \cup {Nothing}, status: Statuses]]
         /\ \A q \in Runs : notice'[q].finding = Nothing => notice'[q] = NoNotice
BY DEF AdvisoryInv, NoticeInv, NoNotice

\* Steps of a background forecast.
LEMMA MakerMoves ==
  ASSUME AdvisoryInv, NEW m \in Makers, NEW p \in Makings, making[m] # "idle" \/ m \in Queries,
         Move(m, p), UNCHANGED <<handling, starts>>,
         \/ notice' = notice
         \/ m \in Runs /\ \E s \in Statuses : notice' = [notice EXCEPT ![m].status = s]
  PROVE  AdvisoryInv'
<1>1. /\ \A q \in Runs : notice'[q].finding = notice[q].finding
      /\ \A q \in Runs : notice'[q] # NoNotice <=> notice[q] # NoNotice
      /\ notice' \in [Runs -> [finding: Findings \cup {Nothing}, status: Statuses]]
      /\ \A q \in Runs : notice'[q].finding = Nothing => notice'[q] = NoNotice
  <2>1. CASE notice' = notice
    BY <2>1 DEF AdvisoryInv, NoticeInv
  <2>2. CASE m \in Runs /\ \E s \in Statuses : notice' = [notice EXCEPT ![m].status = s]
    <3>1. notice[m].finding # Nothing
      BY <2>2, AdvisoryAssumption DEF AdvisoryInv, MakingInv
    <3> QED
      BY <2>2, <3>1, StatusMoves
  <2> QED
    BY <2>1, <2>2
<1>2. MakingInv'
  BY <1>1, AdvisoryAssumption DEF AdvisoryInv, MakingInv, Move, Makers
<1>3. HandlingInv' /\ NoticeInv'
  BY <1>1 DEF AdvisoryInv, HandlingInv, NoticeInv, Run
<1>4. MarkInv' /\ AnswerInv'
  BY <1>1 DEF AdvisoryInv, HandlingInv, MarkInv, AnswerInv, SameFinding, Run
<1> QED
  BY <1>2, <1>3, <1>4 DEF AdvisoryInv

\* The notice is queued or not, and its delivery answered: a run begins once.
LEMMA NoticeMarked ==
  ASSUME AdvisoryInv, NEW d \in Deliveries, MarkNotice(d)
  PROVE  AdvisoryInv'
<1>f. PICK r \in Runs : r = Run(d)
  BY DEF AdvisoryInv, HandlingInv, MarkNotice
<1>0. /\ handling[d].phase = "mark" /\ starts[r] = 0 /\ SameFinding(d)
      /\ notice[r].finding # Nothing
  BY <1>f, AdvisoryAssumption DEF AdvisoryInv, HandlingInv, MarkInv, MarkNotice, SameFinding
<1>1. /\ \A q \in Runs : notice'[q].finding = notice[q].finding
      /\ \A q \in Runs : notice'[q] # NoNotice <=> notice[q] # NoNotice
      /\ notice' \in [Runs -> [finding: Findings \cup {Nothing}, status: Statuses]]
      /\ \A q \in Runs : notice'[q].finding = Nothing => notice'[q] = NoNotice
  <2>1. "queued" \in Statuses /\ "unsupported" \in Statuses
    BY DEF Statuses
  <2> QED
    BY <2>1, <1>f, <1>0, StatusMoves DEF MarkNotice
<1>2. /\ starts' \in [Runs -> Nat] /\ starts'[r] \in {0, 1}
      /\ \A q \in Runs \ {r} : starts'[q] = starts[q]
  BY <1>f, <1>0 DEF AdvisoryInv, NoticeInv, MarkNotice
<1>3. /\ handling'[d].run = r /\ handling'[d].finding = handling[d].finding
      /\ handling'[d].phase = "answered" /\ handling'[d].answer = "stored"
      /\ \A e \in Deliveries \ {d} : handling'[e] = handling[e]
  BY <1>f DEF AdvisoryInv, HandlingInv, MarkNotice, Answer, Run
<1>4. HandlingInv'
  BY DEF AdvisoryInv, HandlingInv, MarkNotice, Answer, Run, Answers
<1>5. NoticeInv'
  BY <1>0, <1>1, <1>2 DEF AdvisoryInv, NoticeInv
<1>6. MakingInv'
  <2>1. making' \in [Makers -> Makings]
    BY DEF AdvisoryInv, MakingInv, MarkNotice, Makings
  <2>2. \A q \in Runs \ {r} : making'[q] = making[q]
    BY <1>f DEF AdvisoryInv, MakingInv, MarkNotice, Makers
  <2> QED
    BY <2>1, <2>2, <1>0, <1>1 DEF AdvisoryInv, MakingInv
<1>7. \A e \in Deliveries \ {d} : handling[e].phase = "mark" => Run(e) # r
  BY <1>f, <1>0 DEF AdvisoryInv, MarkInv
<1>8. MarkInv'
  <2>1. \A e \in Deliveries : handling'[e].phase = "mark" =>
          /\ handling[e].phase = "mark" /\ handling'[e] = handling[e]
          /\ Run(e)' = Run(e) /\ Run(e) \in Runs \ {r}
    BY <1>3, <1>7 DEF AdvisoryInv, HandlingInv, Run
  <2>2. \A e \in Deliveries : handling'[e].phase = "mark" => SameFinding(e)'
    BY <1>1, <2>1 DEF AdvisoryInv, MarkInv, SameFinding
  <2>3. \A e \in Deliveries : handling'[e].phase = "mark" => starts'[Run(e)'] = 0
    BY <1>2, <2>1 DEF AdvisoryInv, MarkInv
  <2> QED
    BY <2>1, <2>2, <2>3 DEF AdvisoryInv, MarkInv
<1>9. AnswerInv'
  BY <1>f, <1>0, <1>1, <1>3 DEF AdvisoryInv, HandlingInv, AnswerInv, SameFinding, Run
<1> QED
  BY <1>2, <1>4, <1>5, <1>6, <1>8, <1>9 DEF AdvisoryInv

\* Every step keeps the invariant.
LEMMA AdvisoryInvStep == AdvisoryInv /\ [AdvisoryNext]_advisoryVars => AdvisoryInv'
<1> SUFFICES ASSUME AdvisoryInv, [AdvisoryNext]_advisoryVars
             PROVE  AdvisoryInv'
  OBVIOUS
<1>1. ASSUME NEW d \in Deliveries, DeliverNotice(d)
      PROVE  AdvisoryInv'
  <2>1. PICK r \in Runs, f \in Findings :
          handling' = [handling EXCEPT ![d] = [phase |-> "remember", run |-> r, finding |-> f,
                                               answer |-> "none"]]
    BY <1>1 DEF DeliverNotice
  <2>2. HandlingInv' /\ NoticeInv' /\ MakingInv'
    BY <1>1, <2>1 DEF DeliverNotice, AdvisoryInv, HandlingInv, NoticeInv, MakingInv, Run, Answers
  <2>3. MarkInv' /\ AnswerInv'
    BY <1>1, <2>1 DEF DeliverNotice, AdvisoryInv, HandlingInv, MarkInv, AnswerInv, SameFinding, Run
  <2> QED
    BY <1>1, <2>2, <2>3 DEF DeliverNotice, AdvisoryInv
<1>2. ASSUME NEW d \in Deliveries, RememberRun(d) \/ LookForNotice(d) \/ StoreFails(d)
      PROVE  AdvisoryInv'
  BY <1>2, DeliveryMoves DEF RememberRun, LookForNotice, StoreFails
<1>3. ASSUME NEW d \in Deliveries, InsertNotice(d) \/ InsertUnknown(d)
      PROVE  AdvisoryInv'
  BY <1>3, DeliveryMoves, NoticeStored DEF InsertNotice, InsertUnknown
<1>4. ASSUME NEW d \in Deliveries, MarkNotice(d) \/ MarkFails(d)
      PROVE  AdvisoryInv'
  BY <1>4, DeliveryMoves, NoticeMarked DEF MarkFails
<1>5. ASSUME NEW q \in Queries, Ask(q)
      PROVE  AdvisoryInv'
  <2>1. q \in Makers /\ "context" \in Makings
    BY DEF Makers, Makings
  <2> QED
    BY <1>5, <2>1, MakerMoves DEF Ask
<1>6. ASSUME NEW m \in Makers, Make(m)
      PROVE  AdvisoryInv'
  <2>1. making[m] # "idle" /\ UNCHANGED <<handling, starts>>
    BY <1>6 DEF Make, Gather, WriteForecast, PublishForecast, Notify, TeardownCommits, ReportNotice
  <2>2. \E p \in Makings : Move(m, p)
    BY <1>6 DEF Make, Gather, WriteForecast, PublishForecast, Notify, TeardownCommits,
                ReportNotice, Makings
  <2>3. \/ notice' = notice
        \/ m \in Runs /\ \E s \in Statuses : notice' = [notice EXCEPT ![m].status = s]
    BY <1>6 DEF Make, Gather, WriteForecast, PublishForecast, Notify, TeardownCommits,
                ReportNotice, Statuses
  <2> QED
    BY <2>1, <2>2, <2>3, MakerMoves
<1>7. CASE AdvisoryCrash
  <2>1. \A d \in Deliveries : /\ handling'[d].run = handling[d].run
                              /\ handling'[d].finding = handling[d].finding
                              /\ handling'[d].answer = handling[d].answer
                              /\ handling'[d].phase = IF handling[d].phase = "off" THEN "off"
                                                      ELSE "answered"
    BY <1>7 DEF AdvisoryCrash, AdvisoryInv, HandlingInv
  <2>2. HandlingInv' /\ NoticeInv' /\ MakingInv'
    <3>1. HandlingInv'
      BY <1>7 DEF AdvisoryCrash, AdvisoryInv, HandlingInv, Run
    <3>2. MakingInv'
      BY <1>7 DEF AdvisoryCrash, AdvisoryInv, MakingInv, Makings, Makers
    <3> QED
      BY <3>1, <3>2, <1>7 DEF AdvisoryCrash, AdvisoryInv, NoticeInv
  <2>3. MarkInv' /\ AnswerInv'
    BY <1>7, <2>1 DEF AdvisoryCrash, AdvisoryInv, MarkInv, AnswerInv, SameFinding, Run
  <2> QED
    BY <1>7, <2>2, <2>3 DEF AdvisoryCrash, AdvisoryInv
<1>8. CASE UNCHANGED advisoryVars
  BY <1>8 DEF advisoryVars, AdvisoryInv, HandlingInv, NoticeInv, MakingInv, MarkInv, AnswerInv,
              SameFinding, Run
<1> QED
  BY <1>1, <1>2, <1>3, <1>4, <1>5, <1>6, <1>7, <1>8 DEF AdvisoryNext, HandleDelivery

\* Whatever deliveries of a run race, repeat, fail or die with the process, an answer
\* tells the truth about the stored notice, and a run is recalibrated at most once.
THEOREM RepeatsRecognised == AdvisorySpec => []RepeatsAreRecognised
<1>1. AdvisoryInv => RepeatsAreRecognised
  BY DEF AdvisoryInv, AnswerInv, RepeatsAreRecognised
<1> QED
  BY <1>1, AdvisoryInvInit, AdvisoryInvStep, PTL DEF AdvisorySpec

-----------------------------------------------------------------------------
(* The life of the process.                                                 *)

Lifespans == {"down", "booting", "serving", "draining", "cancelling", "gathering", "pooling",
              "closing", "exiting"}

\* What each stage of a shutdown may rely on: the jobs are cut before the broadcasts they started
\* are waited for, and the tasks are cut before they are gathered.
StageInv ==
    /\ lifespan \in Lifespans
    /\ lifespan # "serving" => \A j \in RecurringJobs : jobState[j] \in {"off", "cut"}
    /\ lifespan \in {"cancelling", "gathering", "pooling", "closing", "exiting"} => signals = 0
    /\ lifespan \in {"gathering", "pooling", "closing", "exiting"} => \A t \in Tasks : task[t] # "running"
    /\ lifespan \in {"pooling", "closing", "exiting"} => AllGathered
    /\ lifespan \in {"closing", "exiting"} => fits = {}

\* What is closed by then.
ShutInv ==
    /\ opened \subseteq {"client", "session", "pool", "database"}
    /\ lifespan \in {"cancelling", "gathering", "pooling", "closing", "exiting"} => "session" \notin opened
    /\ lifespan \in {"pooling", "closing", "exiting"} => "pool" \notin opened
    /\ lifespan \in {"closing", "exiting"} => "client" \notin opened
    /\ lifespan = "exiting" => "database" \notin opened

\* Nothing runs in a process that has not started its workers.
AsleepInv ==
    lifespan \in {"down", "booting"} => signals = 0 /\ fits = {} /\ AllGathered

ProcessInv ==
    /\ StageInv /\ ShutInv /\ AsleepInv
    /\ jobState \in [RecurringJobs -> {"off", "running", "emitting", "cut"}]
    /\ task \in [Tasks -> {"off", "running", "cut"}]

\* A process that has not started holds nothing open.
LEMMA ProcessInvInit == ProcessInit => ProcessInv
BY DEF ProcessInit, ProcessInv, StageInv, ShutInv, AsleepInv, Lifespans, AllGathered

\* Every step keeps the invariant.
LEMMA ProcessInvStep == ProcessInv /\ [ProcessNext]_processVars => ProcessInv'
<1> SUFFICES ASSUME ProcessInv, [ProcessNext]_processVars
             PROVE  ProcessInv'
  OBVIOUS
<1> USE DEF ProcessInv, StageInv, ShutInv, AsleepInv, Lifespans, AllGathered
<1>1. CASE Start
  BY <1>1 DEF Start
<1>2. CASE StartWorkers
  BY <1>2 DEF StartWorkers
<1>3. CASE SeedCounts \/ SeedFits \/ SeedStores
  BY <1>3 DEF SeedCounts, SeedFits, SeedStores, Tasks
<1>4. CASE SignalEnds
  BY <1>4 DEF SignalEnds
<1>5. ASSUME NEW j \in RecurringJobs, RunJob(j) \/ JobFits(j) \/ JobTells(j)
      PROVE  ProcessInv'
  BY <1>5 DEF RunJob, JobFits, JobTells, Awake
<1>6. ASSUME NEW j \in RecurringJobs, JobStores(j)
      PROVE  ProcessInv'
  BY <1>6 DEF JobStores, Awake
<1>7. ASSUME NEW j \in RecurringJobs, JobEmitted(j) \/ JobEnds(j)
      PROVE  ProcessInv'
  BY <1>7 DEF JobEmitted, JobEnds, Awake
<1>8. ASSUME NEW w \in fits, FitEnds(w)
      PROVE  ProcessInv'
  BY <1>8 DEF FitEnds
<1>9. ASSUME NEW t \in Tasks, TaskWorks(t) \/ TaskEnds(t)
      PROVE  ProcessInv'
  BY <1>9 DEF TaskWorks, TaskEnds
<1>10. CASE StopScheduler
  BY <1>10 DEF StopScheduler
<1>11. CASE CloseSession
  BY <1>11 DEF CloseSession, Vanish
<1>12. CASE CancelTasks
  BY <1>12 DEF CancelTasks
<1>13. CASE ClosePool \/ CloseClient
  BY <1>13 DEF ClosePool, CloseClient
<1>14. CASE DisposeEngine
  BY <1>14 DEF DisposeEngine
<1>15. CASE Exit \/ ProcessDies
  BY <1>15 DEF Exit, ProcessDies, Vanish
<1>16. CASE UNCHANGED processVars
  BY <1>16 DEF processVars
<1> QED
  BY <1>1, <1>2, <1>3, <1>4, <1>5, <1>6, <1>7, <1>8, <1>9, <1>10, <1>11, <1>12, <1>13, <1>14,
     <1>15, <1>16
  DEF ProcessNext, StopStep

\* What the shutdown has closed is neither opened again nor left with a user, wherever the
\* request to stop met the jobs, their fits and broadcasts and the tasks (lifespan).
THEOREM ClosedHolds == ProcessSpec => []ClosedStaysClosed
<1>1. ProcessInv => ClosedStaysClosed
  BY DEF ProcessInv, StageInv, ShutInv, ClosedStaysClosed
<1> QED
  BY <1>1, ProcessInvInit, ProcessInvStep, PTL DEF ProcessSpec

-----------------------------------------------------------------------------
(* Durable jobs.                                                            *)

\* How many calls there are, and so versions.
JobCount == Cardinality(JobCalls)
\* Where a call can be.
CallPhases == {"off", "skipped", "load", "move", "save", "checkpoint", "publish", "release", "over"}
\* The phases of a call that has written the row.
Wrote == {"checkpoint", "publish", "release", "over"}
\* The record of a call.
CallType == [phase : CallPhases, read : Nat, stamp : Nat]
\* The rows of the outbox.
OutboxRows == [event : Versions, delivered : BOOLEAN]

\* The types of the state.
JobTypes ==
  /\ jobCall \in [JobCalls -> CallType] /\ machine.version \in Nat
  /\ author \in [Versions -> JobCalls \cup {Nobody}]
  /\ outbox \in Seq(OutboxRows) /\ sent \in [Versions -> Nat] /\ unmarked \in [Versions -> Nat]

\* The rows not marked.
Unsent(out) == {i \in DOMAIN out : ~out[i].delivered}

\* A drain under way holds rows that are not marked, one at least.
DrainType(d, out) ==
  \/ d = Idle
  \/ d.phase \in {"send", "mark"} /\ d.rows \subseteq Unsent(out) /\ d.rows # {}

\* Row i has been accepted and is about to be marked.
InHand(d, i) == d.phase = "mark" /\ i = Min(d.rows)

\* The versions up to the row's are written, each by a call of its own.
RowsOf(n, who) ==
  /\ n \in 0 .. JobCount
  /\ \A v \in Versions : who[v] # Nobody <=> v <= n
  /\ \A v, w \in 1 .. n : who[v] = who[w] => v = w

\* Who wrote a version is past its write, and no call has read a version that is not there.
CallsOf(n, who, placed) ==
  /\ \A v \in 1 .. n : placed[who[v]].phase \in Wrote
  /\ \A c \in JobCalls : /\ placed[c].read <= n
                         /\ placed[c].phase \in {"checkpoint", "publish"} => placed[c].read + 1 <= n

\* Every row has an event of its own, which only a row makes known.
RowsDiffer(out, s) ==
  /\ \A i, k \in DOMAIN out : out[i].event = out[k].event => i = k
  /\ \A v \in Versions : s[v] > 0 => \E i \in DOMAIN out : out[i].event = v

\* What is marked, or about to be, has been accepted, at most once more than it was left unmarked;
\* any other row as often as it was left.
SentOnes(d, out, s, u) ==
  \A i \in DOMAIN out :
    IF out[i].delivered \/ InHand(d, i)
    THEN s[out[i].event] > 0 /\ s[out[i].event] <= u[out[i].event] + 1
    ELSE s[out[i].event] <= u[out[i].event]

\* The outbox, the drain under way and what has been sent.
OutboxSound(d, out, s, u) == DrainType(d, out) /\ RowsDiffer(out, s) /\ SentOnes(d, out, s, u)

\* The inductive invariant of the jobs.
JobsInv ==
  /\ JobTypes /\ RowsOf(job, author) /\ CallsOf(job, author, jobCall) /\ OutboxSound(drain, outbox, sent, unmarked)

\* What is assumed of the constants of the jobs.
LEMMA JobConstants ==
  /\ IsFiniteSet(JobCalls) /\ Nobody \notin JobCalls /\ JobCount \in Nat /\ Versions = 1 .. JobCount
  /\ DrainLimit \in Nat \ {0}
BY JobsAssumption, FS_CardinalityType DEF JobCount, Versions

\* An empty store satisfies the invariant.
LEMMA JobsInitial == JobsInit => JobsInv
<1> SUFFICES ASSUME JobsInit PROVE JobsInv
  OBVIOUS
<1>1. JobTypes
  BY DEF JobsInit, JobTypes, CallType, CallPhases
<1>2. RowsOf(job, author)
  BY JobConstants DEF JobsInit, RowsOf
<1>3. CallsOf(job, author, jobCall)
  BY DEF JobsInit, CallsOf
<1>4. OutboxSound(drain, outbox, sent, unmarked)
  <2>1. drain = Idle /\ outbox = << >> /\ \A v \in Versions : sent[v] = 0
    BY DEF JobsInit
  <2> QED
    BY <2>1 DEF OutboxSound, DrainType, RowsDiffer, SentOnes
<1> QED
  BY <1>1, <1>2, <1>3, <1>4 DEF JobsInv

\* A call moves on; none of the tables changes.
LEMMA CallMoves ==
  ASSUME JobsInv, NEW c \in JobCalls, NEW r \in CallType, jobCall' = [jobCall EXCEPT ![c] = r],
         UNCHANGED <<job, author, outbox, sent, unmarked, drain>>, machine.version' \in Nat,
         r.read <= job, r.phase \in {"checkpoint", "publish"} => r.read + 1 <= job,
         jobCall[c].phase \in Wrote => r.phase \in Wrote
  PROVE  JobsInv'
<1>1. JobTypes /\ RowsOf(job, author) /\ CallsOf(job, author, jobCall) /\ OutboxSound(drain, outbox, sent, unmarked)
  BY DEF JobsInv
<1>2. jobCall' \in [JobCalls -> CallType] /\ \A d \in JobCalls : jobCall'[d] = IF d = c THEN r ELSE jobCall[d]
  BY <1>1 DEF JobTypes
<1>3. JobTypes'
  BY <1>1, <1>2 DEF JobTypes
<1>4. \A v \in 1 .. job : author[v] \in JobCalls
  BY <1>1, JobConstants DEF JobTypes, RowsOf
<1>5. CallsOf(job, author, jobCall')
  <2>1. \A v \in 1 .. job : jobCall'[author[v]].phase \in Wrote
    BY <1>1, <1>2, <1>4 DEF CallsOf
  <2>2. \A d \in JobCalls : /\ jobCall'[d].read <= job
                            /\ jobCall'[d].phase \in {"checkpoint", "publish"} => jobCall'[d].read + 1 <= job
    BY <1>1, <1>2 DEF CallsOf
  <2> QED
    BY <2>1, <2>2 DEF CallsOf
<1>6. RowsOf(job, author)' /\ OutboxSound(drain, outbox, sent, unmarked)'
  BY <1>1 DEF RowsOf, OutboxSound, DrainType, RowsDiffer, SentOnes, Unsent, InHand
<1>7. CallsOf(job, author, jobCall)'
  BY <1>5 DEF CallsOf
<1> QED
  BY <1>3, <1>6, <1>7 DEF JobsInv

\* What a call becomes when only its phase changes.
LEMMA CallAt ==
  ASSUME JobsInv, NEW c \in JobCalls, NEW p \in CallPhases, At(c, p)
  PROVE  \E r \in CallType : /\ jobCall' = [jobCall EXCEPT ![c] = r]
                             /\ r.phase = p /\ r.read = jobCall[c].read /\ r.read <= job
<1>1. jobCall \in [JobCalls -> CallType] /\ jobCall[c].read <= job
  BY DEF JobsInv, JobTypes, CallsOf
<1> DEFINE r == [jobCall[c] EXCEPT !.phase = p]
<1>2. r \in CallType /\ r.phase = p /\ r.read = jobCall[c].read
  BY <1>1 DEF CallType
<1>3. jobCall' = [jobCall EXCEPT ![c] = r]
  BY DEF At
<1> QED
  BY <1>1, <1>2, <1>3

\* The state machine keeps its version.
LEMMA SameVersion ==
  ASSUME JobsInv, UNCHANGED machine
  PROVE  machine.version' \in Nat
BY DEF JobsInv, JobTypes

\* A call moves to p without a write.
LEMMA MovesTo ==
  ASSUME JobsInv, NEW c \in JobCalls, NEW p \in CallPhases \ {"checkpoint", "publish"}, At(c, p),
         UNCHANGED <<job, author, outbox, sent, unmarked, drain>>, machine.version' \in Nat,
         jobCall[c].phase \in Wrote => p \in Wrote
  PROVE  JobsInv'
<1>1. PICK r \in CallType : /\ jobCall' = [jobCall EXCEPT ![c] = r]
                            /\ r.phase = p /\ r.read = jobCall[c].read /\ r.read <= job
  BY CallAt
<1> QED
  BY <1>1, CallMoves

\* get_job and snapshot.
LEMMA LoadStep ==
  ASSUME JobsInv, NEW c \in JobCalls, Load(c)
  PROVE  JobsInv'
<1> DEFINE r == [phase |-> "move", read |-> job, stamp |-> machine.version]
<1>1. job \in Nat /\ machine.version \in Nat
  BY JobConstants DEF JobsInv, JobTypes, RowsOf
<1>2. r \in CallType /\ r.read <= job /\ r.phase = "move"
  BY <1>1 DEF CallType, CallPhases
<1>3. jobCall' = [jobCall EXCEPT ![c] = r] /\ UNCHANGED <<job, author, outbox, sent, unmarked, drain, machine>>
  BY DEF Load, Store
<1>4. jobCall[c].phase = "load"
  BY DEF Load
<1>5. machine.version' \in Nat
  BY <1>3, SameVersion
<1> HIDE DEF r
<1> QED
  BY <1>2, <1>3, <1>4, <1>5, CallMoves DEF Wrote

\* transition, whether the version of the snapshot still holds or not.
LEMMA TransitionStep ==
  ASSUME JobsInv, NEW c \in JobCalls, Transition(c)
  PROVE  JobsInv'
<1>1. UNCHANGED <<job, author, outbox, sent, unmarked, drain>> /\ jobCall[c].phase = "move"
  BY DEF Transition, Store
<1>2. machine.version \in Nat
  BY DEF JobsInv, JobTypes
<1>3. CASE \E s \in Allowed[machine.state] : machine' = [state |-> s, version |-> machine.version + 1] /\ At(c, "save")
  <2>1. machine.version' = machine.version + 1 /\ At(c, "save")
    BY <1>3
  <2> QED
    BY <1>1, <1>2, <2>1, MovesTo DEF CallPhases, Wrote
<1>4. CASE UNCHANGED machine /\ At(c, "release")
  BY <1>1, <1>2, <1>4, MovesTo DEF CallPhases, Wrote
<1> QED
  BY <1>3, <1>4 DEF Transition

\* One call, one version: while a call has written none there is room for one more.
LEMMA RoomForOne ==
  ASSUME JobTypes, NEW n, RowsOf(n, author), NEW c \in JobCalls, \A v \in 1 .. n : author[v] # c
  PROVE  n + 1 <= JobCount
<1> DEFINE others == JobCalls \ {c}
           f == [v \in 1 .. n |-> author[v]]
<1>1. n \in Nat /\ n <= JobCount
  BY JobConstants DEF RowsOf
<1>2. \A v \in 1 .. n : v \in Versions /\ author[v] \in others
  BY <1>1, JobConstants DEF JobTypes, RowsOf
<1>3. f \in [1 .. n -> others] /\ \A v, w \in 1 .. n : f[v] = f[w] => v = w
  BY <1>2 DEF RowsOf
<1>4. IsFiniteSet(others) /\ Cardinality(others) = JobCount - 1
  BY JobConstants, FS_RemoveElement DEF JobCount
<1> HIDE DEF f, others
<1>5. f \in Injection(1 .. n, others)
  BY <1>3 DEF Injection, IsInjective
<1>6. Cardinality(1 .. n) <= Cardinality(others)
  BY <1>4, <1>5, FS_Injection
<1>7. Cardinality(1 .. n) = n
  BY <1>1, FS_Interval
<1> QED
  BY <1>1, <1>4, <1>6, <1>7, JobConstants

\* upsert_job: the row it updates is at the version the call has read, so what it writes is the
\* version behind the last, which nobody has written.
LEMMA UpsertStep ==
  ASSUME JobsInv, NEW c \in JobCalls, UpsertJob(c)
  PROVE  JobsInv' /\ \A v \in Versions : author[v] # Nobody => author'[v] = author[v]
<1>1. JobTypes /\ RowsOf(job, author) /\ CallsOf(job, author, jobCall) /\ OutboxSound(drain, outbox, sent, unmarked)
  BY DEF JobsInv
<1>2. jobCall[c].phase = "save" /\ UNCHANGED <<outbox, sent, unmarked, drain, machine>>
  BY DEF UpsertJob
<1>3. machine.version' \in Nat
  BY <1>2, SameVersion
<1>4. CASE UNCHANGED <<job, author>> /\ At(c, "release")
  BY <1>2, <1>3, <1>4, MovesTo DEF CallPhases, Wrote
<1>5. CASE /\ job \in {0, jobCall[c].read} /\ job' = jobCall[c].read + 1
           /\ author' = [author EXCEPT ![job'] = c] /\ At(c, "checkpoint")
  <2>1. PICK n \in Nat : n = job /\ n <= JobCount
    BY <1>1, JobConstants DEF RowsOf
  <2>2. jobCall[c].read \in Nat /\ jobCall[c].read <= n
    BY <1>1, <2>1 DEF JobTypes, CallType, CallsOf
  <2>3. job' = n + 1 /\ jobCall[c].read = n
    BY <1>5, <2>1, <2>2
  <2>4. \A v \in 1 .. n : author[v] # c
    BY <1>1, <1>2, <2>1 DEF CallsOf, Wrote
  <2>5. n + 1 <= JobCount
    BY <1>1, <2>1, <2>4, RoomForOne
  <2>6. n + 1 \in Versions
    BY <2>1, <2>5, JobConstants
  <2>7. author' \in [Versions -> JobCalls \cup {Nobody}] /\ \A v \in Versions : author'[v] = IF v = n + 1 THEN c ELSE author[v]
    BY <1>1, <1>5, <2>3, <2>6 DEF JobTypes
  <2>8. RowsOf(n + 1, author')
    <3>1. \A v \in Versions : v \in Nat /\ (v <= n + 1 <=> v <= n \/ v = n + 1)
      BY <2>1, JobConstants
    <3>2. \A v \in Versions : author'[v] # Nobody <=> v <= n + 1
      <4> TAKE v \in Versions
      <4>1. author[v] # Nobody <=> v <= n
        BY <1>1, <2>1 DEF RowsOf
      <4> QED
        BY <2>7, <3>1, <4>1, JobConstants
    <3>3. ASSUME NEW v \in 1 .. n + 1, NEW w \in 1 .. n + 1, author'[v] = author'[w] PROVE v = w
      <4>1. v \in Versions /\ w \in Versions
        BY <2>1, <2>5, JobConstants
      <4>2. CASE v = n + 1 /\ w # n + 1
        <5>1. w \in 1 .. n
          BY <2>1, <4>2
        <5> QED
          BY <2>4, <2>7, <3>3, <4>1, <4>2, <5>1
      <4>3. CASE w = n + 1 /\ v # n + 1
        <5>1. v \in 1 .. n
          BY <2>1, <4>3
        <5> QED
          BY <2>4, <2>7, <3>3, <4>1, <4>3, <5>1
      <4>4. CASE v # n + 1 /\ w # n + 1
        <5>1. v \in 1 .. n /\ w \in 1 .. n
          BY <2>1, <4>4
        <5> QED
          BY <1>1, <2>1, <2>7, <3>3, <4>1, <4>4, <5>1 DEF RowsOf
      <4> QED
        BY <4>2, <4>3, <4>4
    <3> QED
      BY <2>1, <2>5, <3>2, <3>3, JobConstants DEF RowsOf
  <2>9. PICK r \in CallType : /\ jobCall' = [jobCall EXCEPT ![c] = r]
                              /\ r.phase = "checkpoint" /\ r.read = n
    <3>1. "checkpoint" \in CallPhases /\ At(c, "checkpoint")
      BY <1>5 DEF CallPhases
    <3>2. \E r \in CallType : /\ jobCall' = [jobCall EXCEPT ![c] = r]
                              /\ r.phase = "checkpoint" /\ r.read = jobCall[c].read /\ r.read <= job
      BY <3>1, CallAt
    <3> QED
      BY <2>3, <3>2
  <2>10. jobCall' \in [JobCalls -> CallType] /\ \A d \in JobCalls : jobCall'[d] = IF d = c THEN r ELSE jobCall[d]
    BY <1>1, <2>9 DEF JobTypes
  <2>11. CallsOf(n + 1, author', jobCall')
    <3>1. \A v \in 1 .. n + 1 : jobCall'[author'[v]].phase \in Wrote
      <4> TAKE v \in 1 .. n + 1
      <4>1. v \in Versions
        BY <2>1, <2>5, JobConstants
      <4>2. CASE v = n + 1
        BY <2>7, <2>9, <2>10, <4>1, <4>2 DEF Wrote
      <4>3. CASE v # n + 1
        <5>1. v \in 1 .. n
          BY <2>1, <4>3
        <5>2. author'[v] = author[v] /\ author[v] # c /\ author[v] # Nobody
          BY <1>1, <2>1, <2>4, <2>7, <4>1, <4>3, <5>1 DEF RowsOf
        <5>3. author[v] \in JobCalls
          BY <1>1, <4>1, <5>2 DEF JobTypes
        <5>4. jobCall[author[v]].phase \in Wrote
          BY <1>1, <2>1, <5>1 DEF CallsOf
        <5> QED
          BY <2>10, <5>2, <5>3, <5>4
      <4> QED
        BY <4>2, <4>3
    <3>2. ASSUME NEW d \in JobCalls
          PROVE  /\ jobCall'[d].read <= n + 1
                 /\ jobCall'[d].phase \in {"checkpoint", "publish"} => jobCall'[d].read + 1 <= n + 1
      <4>1. jobCall[d].read \in Nat /\ jobCall[d].read <= n
        BY <1>1, <2>1 DEF JobTypes, CallType, CallsOf
      <4> QED
        BY <1>1, <2>1, <2>9, <2>10, <4>1 DEF CallsOf
    <3> QED
      BY <3>1, <3>2 DEF CallsOf
  <2>12. JobTypes'
    BY <1>1, <1>2, <1>3, <2>7, <2>10 DEF JobTypes
  <2>13. RowsOf(job, author)' /\ CallsOf(job, author, jobCall)' /\ OutboxSound(drain, outbox, sent, unmarked)'
    BY <1>1, <1>2, <2>3, <2>8, <2>11 DEF RowsOf, CallsOf, OutboxSound, DrainType, RowsDiffer, SentOnes, Unsent, InHand
  <2>14. \A v \in Versions : author[v] # Nobody => author'[v] = author[v]
    <3> TAKE v \in Versions
    <3>1. author[v] # Nobody => v # n + 1
      BY <1>1, <2>1, JobConstants DEF RowsOf
    <3> QED
      BY <2>7, <3>1
  <2> QED
    BY <2>12, <2>13, <2>14 DEF JobsInv
<1> QED
  BY <1>4, <1>5 DEF UpsertJob

\* save, whether the checkpoint is new or refused.
LEMMA CheckpointStep ==
  ASSUME JobsInv, NEW c \in JobCalls, SaveCheckpoint(c)
  PROVE  JobsInv'
<1>1. jobCall[c].phase = "checkpoint" /\ UNCHANGED <<job, author, outbox, sent, unmarked, drain, machine>>
  BY DEF SaveCheckpoint
<1>2. PICK p \in {"release", "publish"} : At(c, p)
  BY DEF SaveCheckpoint
<1>3. PICK r \in CallType : /\ jobCall' = [jobCall EXCEPT ![c] = r]
                            /\ r.phase = p /\ r.read = jobCall[c].read /\ r.read <= job
  <2>1. p \in CallPhases
    BY DEF CallPhases
  <2> QED
    BY <1>2, <2>1, CallAt
<1>4. jobCall[c].read + 1 <= job
  BY <1>1 DEF JobsInv, CallsOf
<1>5. machine.version' \in Nat
  BY <1>1, SameVersion
<1> QED
  BY <1>1, <1>3, <1>4, <1>5, CallMoves DEF Wrote

\* A call moves on and the outbox changes.
LEMMA PublishMoves ==
  ASSUME JobsInv, NEW c \in JobCalls, jobCall[c].phase = "publish", At(c, "release"),
         UNCHANGED <<job, author, sent, unmarked, drain, machine>>,
         NEW out \in Seq(OutboxRows), outbox' = out, OutboxSound(drain, out, sent, unmarked)
  PROVE  JobsInv'
<1>1. JobTypes /\ RowsOf(job, author) /\ CallsOf(job, author, jobCall)
  BY DEF JobsInv
<1>2. PICK r \in CallType : /\ jobCall' = [jobCall EXCEPT ![c] = r]
                            /\ r.phase = "release" /\ r.read = jobCall[c].read /\ r.read <= job
  <2>1. "release" \in CallPhases
    BY DEF CallPhases
  <2> QED
    BY <2>1, CallAt
<1>3. machine.version' \in Nat
  BY SameVersion
<1>4. jobCall' \in [JobCalls -> CallType] /\ \A d \in JobCalls : jobCall'[d] = IF d = c THEN r ELSE jobCall[d]
  BY <1>1, <1>2 DEF JobTypes
<1>5. JobTypes'
  BY <1>1, <1>3, <1>4 DEF JobTypes
<1>6. CallsOf(job, author, jobCall')
  <2>1. \A v \in 1 .. job : author[v] \in JobCalls
    BY <1>1, JobConstants DEF JobTypes, RowsOf
  <2>2. \A v \in 1 .. job : jobCall'[author[v]].phase \in Wrote
    BY <1>1, <1>2, <1>4, <2>1 DEF CallsOf, Wrote
  <2>3. \A d \in JobCalls : /\ jobCall'[d].read <= job
                            /\ jobCall'[d].phase \in {"checkpoint", "publish"} => jobCall'[d].read + 1 <= job
    BY <1>1, <1>2, <1>4 DEF CallsOf
  <2> QED
    BY <2>2, <2>3 DEF CallsOf
<1>7. RowsOf(job, author)' /\ CallsOf(job, author, jobCall)'
  BY <1>1, <1>6 DEF RowsOf, CallsOf
<1>8. OutboxSound(drain, outbox, sent, unmarked)'
  BY DEF OutboxSound, DrainType, RowsDiffer, SentOnes, Unsent, InHand
<1> QED
  BY <1>5, <1>7, <1>8 DEF JobsInv

\* publish adds a row that is not delivered, of an event that has no row yet.
LEMMA PublishStep ==
  ASSUME JobsInv, NEW c \in JobCalls, Publish(c)
  PROVE  JobsInv'
<1>1. JobTypes /\ RowsOf(job, author) /\ CallsOf(job, author, jobCall) /\ OutboxSound(drain, outbox, sent, unmarked)
  BY DEF JobsInv
<1>2. jobCall[c].phase = "publish" /\ UNCHANGED <<job, author, sent, unmarked, drain, machine>> /\ At(c, "release")
  BY DEF Publish
<1>3. outbox \in Seq(OutboxRows) /\ sent \in [Versions -> Nat] /\ unmarked \in [Versions -> Nat]
  BY <1>1 DEF JobTypes
<1>4. PICK e \in Versions : e = jobCall[c].read + 1
  <2>1. jobCall[c].read \in Nat /\ jobCall[c].read + 1 <= job /\ job \in Nat /\ job <= JobCount
    BY <1>1, <1>2, JobConstants DEF JobTypes, CallType, CallsOf, RowsOf
  <2>2. jobCall[c].read + 1 \in Versions
    BY <2>1, JobConstants
  <2> QED
    BY <2>2
<1>5. CASE e \in Published
  <2>1. outbox' = outbox
    BY <1>4, <1>5 DEF Publish
  <2> QED
    BY <1>1, <1>2, <1>3, <2>1, PublishMoves
<1>6. CASE e \notin Published
  <2> DEFINE row == [event |-> e, delivered |-> FALSE]
  <2>1. row \in OutboxRows /\ row.event = e /\ ~row.delivered
    BY DEF OutboxRows
  <2>2. outbox' = Append(outbox, row)
    BY <1>4, <1>6 DEF Publish
  <2> HIDE DEF row
  <2>3. PICK n \in Nat : n = Len(outbox) /\ DOMAIN outbox = 1 .. n
    BY <1>3
  <2>4. PICK out \in Seq(OutboxRows) : /\ out = outbox' /\ DOMAIN out = 1 .. n + 1
                                       /\ out[n + 1] = row /\ \A i \in 1 .. n : out[i] = outbox[i]
    <3>1. Append(outbox, row) \in Seq(OutboxRows) /\ DOMAIN Append(outbox, row) = 1 .. n + 1
      BY <1>3, <2>1, <2>3
    <3>2. Append(outbox, row)[n + 1] = row /\ \A i \in 1 .. n : Append(outbox, row)[i] = outbox[i]
      BY <1>3, <2>1, <2>3
    <3> QED
      BY <2>2, <3>1, <3>2
  <2>5. \A i \in 1 .. n + 1 : i \in 1 .. n \/ i = n + 1
    OBVIOUS
  <2>6. 1 .. n \subseteq 1 .. n + 1 /\ n + 1 \in 1 .. n + 1 /\ n + 1 \notin 1 .. n
    OBVIOUS
  <2>7. \A i \in 1 .. n : outbox[i].event # e
    BY <1>6, <2>3 DEF Published
  <2>8. DrainType(drain, out)
    <3>1. DrainType(drain, outbox)
      BY <1>1 DEF OutboxSound
    <3>2. Unsent(outbox) \subseteq Unsent(out)
      BY <2>3, <2>4, <2>6 DEF Unsent
    <3> QED
      BY <3>1, <3>2, Zenon DEF DrainType
  <2>9. RowsDiffer(out, sent)
    <3>1. RowsDiffer(outbox, sent)
      BY <1>1 DEF OutboxSound
    <3>2. \A i, k \in 1 .. n + 1 : out[i].event = out[k].event => i = k
      BY <2>1, <2>3, <2>4, <2>5, <2>7, <3>1 DEF RowsDiffer
    <3>3. ASSUME NEW v \in Versions, sent[v] > 0 PROVE \E i \in 1 .. n + 1 : out[i].event = v
      BY <2>3, <2>4, <2>6, <3>1, <3>3 DEF RowsDiffer
    <3> QED
      BY <2>4, <3>2, <3>3 DEF RowsDiffer
  <2>10. SentOnes(drain, out, sent, unmarked)
    <3>1. SentOnes(drain, outbox, sent, unmarked) /\ RowsDiffer(outbox, sent) /\ DrainType(drain, outbox)
      BY <1>1 DEF OutboxSound
    <3>2. sent[e] = 0
      BY <1>3, <2>3, <2>7, <3>1 DEF RowsDiffer
    <3>3. ~InHand(drain, n + 1)
      <4>1. SUFFICES ASSUME drain.phase = "mark" PROVE Min(drain.rows) # n + 1
        BY DEF InHand
      <4>2. drain.rows \subseteq 1 .. n /\ drain.rows # {}
        BY <2>3, <3>1, <4>1 DEF DrainType, Unsent, Idle
      <4>3. \E m \in drain.rows : \A k \in drain.rows : m <= k
        BY <4>2, LeastOf
      <4>4. Min(drain.rows) \in drain.rows
        BY <4>3 DEF Min
      <4> QED
        BY <2>6, <4>2, <4>4
    <3>4. ASSUME NEW i \in 1 .. n + 1
          PROVE IF out[i].delivered \/ InHand(drain, i)
                THEN sent[out[i].event] > 0 /\ sent[out[i].event] <= unmarked[out[i].event] + 1
                ELSE sent[out[i].event] <= unmarked[out[i].event]
      <4>1. CASE i = n + 1
        <5>1. ~out[i].delivered /\ out[i].event = e /\ ~InHand(drain, i)
          BY <2>1, <2>4, <3>3, <4>1
        <5>2. unmarked[e] \in Nat
          BY <1>3
        <5>3. sent[e] <= unmarked[e]
          BY <3>2, <5>2
        <5> QED
          BY <5>1, <5>3
      <4>2. CASE i \in 1 .. n
        <5>1. out[i] = outbox[i]
          BY <2>4, <4>2
        <5> QED
          BY <2>3, <3>1, <4>2, <5>1 DEF SentOnes
      <4> QED
        BY <2>5, <4>1, <4>2
    <3> QED
      BY <2>4, <3>4 DEF SentOnes
  <2>11. OutboxSound(drain, out, sent, unmarked)
    BY <2>8, <2>9, <2>10 DEF OutboxSound
  <2> QED
    BY <1>1, <1>2, <2>4, <2>11, PublishMoves
<1> QED
  BY <1>5, <1>6

\* Leases, their release and interruptions leave the tables alone.
LEMMA OtherCallSteps ==
  ASSUME JobsInv, NEW c \in JobCalls, RunOnce(c) \/ Release(c) \/ Interrupt(c)
  PROVE  JobsInv'
<1>1. CASE RunOnce(c)
  <2>1. UNCHANGED <<job, author, outbox, sent, unmarked, drain, machine>> /\ jobCall[c].phase = "off"
    BY <1>1 DEF RunOnce, Store
  <2>2. PICK p \in {"skipped", "load"} : At(c, p)
    BY <1>1 DEF RunOnce
  <2>3. p \in CallPhases \ {"checkpoint", "publish"}
    BY DEF CallPhases
  <2> QED
    BY <2>1, <2>2, <2>3, MovesTo, SameVersion DEF Wrote
<1>2. CASE Release(c)
  <2>1. UNCHANGED <<job, author, outbox, sent, unmarked, drain, machine>> /\ At(c, "over")
    BY <1>2 DEF Release, Store
  <2> QED
    BY <2>1, MovesTo, SameVersion DEF Wrote, CallPhases
<1>3. CASE Interrupt(c)
  <2>1. UNCHANGED <<job, author, outbox, sent, unmarked, drain, machine>> /\ At(c, "release")
    BY <1>3 DEF Interrupt, Store
  <2> QED
    BY <2>1, MovesTo, SameVersion DEF Wrote, CallPhases
<1> QED
  BY <1>1, <1>2, <1>3

-----------------------------------------------------------------------------
\* A step of the outbox.
LEMMA DrainMoves ==
  ASSUME JobsInv, UNCHANGED <<job, author, jobCall, machine>>,
         NEW d, NEW out \in Seq(OutboxRows), NEW s \in [Versions -> Nat], NEW u \in [Versions -> Nat],
         drain' = d, outbox' = out, sent' = s, unmarked' = u, OutboxSound(d, out, s, u)
  PROVE  JobsInv'
<1>1. JobTypes /\ RowsOf(job, author) /\ CallsOf(job, author, jobCall)
  BY DEF JobsInv
<1>2. machine.version' \in Nat
  BY SameVersion
<1>3. JobTypes'
  BY <1>1, <1>2 DEF JobTypes
<1>4. RowsOf(job, author)' /\ CallsOf(job, author, jobCall)'
  BY <1>1 DEF RowsOf, CallsOf
<1>5. OutboxSound(drain, outbox, sent, unmarked)'
  BY DEF OutboxSound, DrainType, RowsDiffer, SentOnes, Unsent, InHand
<1> QED
  BY <1>3, <1>4, <1>5 DEF JobsInv

\* The least of some rows of the outbox is one of them.
LEMMA LeastRow ==
  ASSUME NEW R, R \subseteq Nat, R # {}
  PROVE  Min(R) \in R /\ \A k \in R : Min(R) <= k
<1>1. \E m \in R : \A k \in R : m <= k
  BY LeastOf
<1> QED
  BY <1>1 DEF Min

\* A drain begins with one row at least, however small the limit.
LEMMA BeginStep ==
  ASSUME JobsInv, BeginDrain
  PROVE  JobsInv'
<1>1. JobTypes /\ OutboxSound(drain, outbox, sent, unmarked)
  BY DEF JobsInv
<1>2. drain = Idle /\ Pending # {} /\ UNCHANGED <<job, author, jobCall, machine, outbox, sent, unmarked>>
  BY DEF BeginDrain, Store
<1>3. outbox \in Seq(OutboxRows) /\ sent \in [Versions -> Nat] /\ unmarked \in [Versions -> Nat]
  BY <1>1 DEF JobTypes
<1>4. Pending = Unsent(outbox)
  BY DEF Pending, Unsent
<1>5. Pending \subseteq Nat
  BY <1>3 DEF Pending
<1> DEFINE chosen == {i \in Pending : Cardinality({k \in Pending : k < i}) < DrainLimit}
           d == [phase |-> "send", rows |-> chosen]
<1>6. chosen # {}
  <2>1. PICK i \in Pending : \A k \in Pending : i <= k
    BY <1>2, <1>5, LeastRow
  <2>2. \A k \in Pending : ~(k < i)
    BY <1>5, <2>1
  <2>3. {k \in Pending : k < i} = {}
    BY <2>2
  <2>4. Cardinality({k \in Pending : k < i}) = 0
    BY <2>3, FS_EmptySet
  <2>5. 0 < DrainLimit
    BY JobConstants
  <2> QED
    BY <2>1, <2>4, <2>5
<1>7. chosen \subseteq Unsent(outbox)
  BY <1>4
<1>8. drain' = d
  BY DEF BeginDrain
<1>9. d.phase = "send" /\ d.rows = chosen /\ Idle.phase = "idle"
  BY DEF Idle
<1> HIDE DEF d, chosen
<1>10. DrainType(d, outbox)
  BY <1>6, <1>7, <1>9 DEF DrainType
<1>11. \A i : ~InHand(d, i) /\ ~InHand(drain, i)
  BY <1>2, <1>9 DEF InHand
<1>12. OutboxSound(d, outbox, sent, unmarked)
  BY <1>1, <1>10, <1>11 DEF OutboxSound, SentOnes
<1> QED
  BY <1>2, <1>3, <1>8, <1>12, DrainMoves

\* The row in hand and the rest of a drain.
LEMMA DrainedRows ==
  ASSUME JobTypes, DrainType(drain, outbox), drain # Idle
  PROVE  /\ Drained.phase # "mark" /\ Sending \in Unsent(outbox) /\ Event \in Versions
         /\ \A out : Unsent(outbox) \ {Sending} \subseteq Unsent(out) => DrainType(Drained, out)
<1>1. drain.rows \subseteq Unsent(outbox) /\ drain.rows # {} /\ outbox \in Seq(OutboxRows)
  BY DEF DrainType, JobTypes
<1>2. drain.rows \subseteq Nat
  BY <1>1 DEF Unsent
<1>3. Sending \in drain.rows
  BY <1>1, <1>2, LeastRow DEF Sending
<1>4. Event \in Versions
  <2>1. Sending \in DOMAIN outbox
    BY <1>1, <1>3 DEF Unsent
  <2>2. outbox[Sending] \in OutboxRows
    BY <1>1, <2>1
  <2> QED
    BY <2>2 DEF Event, OutboxRows
<1>5. PICK left : left = drain.rows \ {Sending}
  OBVIOUS
<1>6. Drained = IF left = {} THEN Idle ELSE [phase |-> "send", rows |-> left]
  BY <1>5 DEF Drained
<1>7. Drained.phase # "mark"
  BY <1>6 DEF Idle
<1>8. ASSUME NEW out, Unsent(outbox) \ {Sending} \subseteq Unsent(out) PROVE DrainType(Drained, out)
  <2>1. left \subseteq Unsent(out)
    BY <1>1, <1>5, <1>8
  <2>2. CASE left = {}
    BY <1>6, <2>2 DEF DrainType
  <2>3. CASE left # {}
    BY <1>6, <2>1, <2>3 DEF DrainType
  <2> QED
    BY <2>2, <2>3
<1> QED
  BY <1>1, <1>3, <1>4, <1>7, <1>8

\* The sender accepts the first row, or raises.
LEMMA SendStep ==
  ASSUME JobsInv, SendEvent
  PROVE  JobsInv'
<1>1. JobTypes /\ OutboxSound(drain, outbox, sent, unmarked)
  BY DEF JobsInv
<1>2. drain.phase = "send" /\ UNCHANGED <<job, author, jobCall, machine, outbox, unmarked>>
  BY DEF SendEvent
<1>3. drain # Idle /\ DrainType(drain, outbox) /\ RowsDiffer(outbox, sent) /\ SentOnes(drain, outbox, sent, unmarked)
  BY <1>1, <1>2 DEF Idle, OutboxSound
<1>4. /\ Drained.phase # "mark" /\ Sending \in Unsent(outbox) /\ Event \in Versions
      /\ DrainType(Drained, outbox)
  BY <1>1, <1>3, DrainedRows
<1>5. outbox \in Seq(OutboxRows) /\ sent \in [Versions -> Nat] /\ unmarked \in [Versions -> Nat]
  BY <1>1 DEF JobTypes
<1>6. CASE drain' = Drained /\ UNCHANGED sent
  <2>1. \A i : ~InHand(Drained, i) /\ ~InHand(drain, i)
    BY <1>2, <1>4 DEF InHand
  <2>2. OutboxSound(Drained, outbox, sent, unmarked)
    BY <1>3, <1>4, <2>1 DEF OutboxSound, SentOnes
  <2> QED
    BY <1>2, <1>5, <1>6, <2>2, DrainMoves
<1>7. CASE drain' = [drain EXCEPT !.phase = "mark"] /\ sent' = [sent EXCEPT ![Event] = @ + 1]
  <2> DEFINE d == [drain EXCEPT !.phase = "mark"]
             s == [sent EXCEPT ![Event] = @ + 1]
  <2>1. s \in [Versions -> Nat] /\ \A v \in Versions : s[v] = IF v = Event THEN sent[v] + 1 ELSE sent[v]
    BY <1>4, <1>5
  <2>2. d.phase = "mark" /\ d.rows = drain.rows
    BY <1>2, <1>3 DEF DrainType
  <2>3. drain' = d /\ sent' = s
    BY <1>7
  <2> HIDE DEF d, s
  <2>4. DrainType(d, outbox)
    BY <1>3, <2>2 DEF DrainType
  <2>5. \A i : (InHand(d, i) <=> i = Sending) /\ ~InHand(drain, i)
    BY <1>2, <2>2 DEF InHand, Sending
  <2>6. Sending \in DOMAIN outbox /\ ~outbox[Sending].delivered /\ outbox[Sending].event = Event
    BY <1>4 DEF Unsent, Event
  <2>7. \A i \in DOMAIN outbox : outbox[i].event \in Versions
    <3> TAKE i \in DOMAIN outbox
    <3>1. outbox[i] \in OutboxRows
      BY <1>5
    <3> QED
      BY <3>1 DEF OutboxRows
  <2>8. \A i \in DOMAIN outbox : outbox[i].event = Event <=> i = Sending
    BY <1>3, <2>6 DEF RowsDiffer
  <2>9. RowsDiffer(outbox, s)
    BY <1>3, <1>4, <2>1, <2>6 DEF RowsDiffer
  <2>10. ASSUME NEW i \in DOMAIN outbox
         PROVE IF outbox[i].delivered \/ InHand(d, i)
               THEN s[outbox[i].event] > 0 /\ s[outbox[i].event] <= unmarked[outbox[i].event] + 1
               ELSE s[outbox[i].event] <= unmarked[outbox[i].event]
    <3>1. PICK v \in Versions : v = outbox[i].event
      BY <2>7
    <3>2. sent[v] \in Nat /\ unmarked[v] \in Nat
      BY <1>5
    <3>3. IF outbox[i].delivered THEN sent[v] > 0 /\ sent[v] <= unmarked[v] + 1 ELSE sent[v] <= unmarked[v]
      BY <1>3, <2>5, <3>1 DEF SentOnes
    <3>4. CASE i = Sending
      <4>1. s[v] = sent[v] + 1 /\ sent[v] <= unmarked[v]
        BY <2>1, <2>6, <3>1, <3>3, <3>4
      <4>2. s[v] > 0 /\ s[v] <= unmarked[v] + 1
        BY <3>2, <4>1
      <4> QED
        BY <2>5, <3>1, <3>4, <4>2
    <3>5. CASE i # Sending
      <4>1. s[v] = sent[v] /\ ~InHand(d, i)
        BY <2>1, <2>5, <2>8, <3>1, <3>5
      <4> QED
        BY <3>1, <3>3, <4>1
    <3> QED
      BY <3>4, <3>5
  <2>11. OutboxSound(d, outbox, s, unmarked)
    BY <2>4, <2>9, <2>10 DEF OutboxSound, SentOnes
  <2> QED
    BY <1>2, <1>5, <2>1, <2>3, <2>11, DrainMoves
<1> QED
  BY <1>6, <1>7 DEF SendEvent

\* The row that was sent is marked.
LEMMA MarkStep ==
  ASSUME JobsInv, Mark
  PROVE  JobsInv'
<1>1. JobTypes /\ OutboxSound(drain, outbox, sent, unmarked)
  BY DEF JobsInv
<1>2. /\ drain.phase = "mark" /\ drain' = Drained /\ UNCHANGED <<job, author, jobCall, machine, sent, unmarked>>
      /\ outbox' = [outbox EXCEPT ![Sending].delivered = TRUE]
  BY DEF Mark
<1>3. drain # Idle /\ DrainType(drain, outbox) /\ RowsDiffer(outbox, sent) /\ SentOnes(drain, outbox, sent, unmarked)
  BY <1>1, <1>2 DEF Idle, OutboxSound
<1>4. /\ Drained.phase # "mark" /\ Sending \in Unsent(outbox) /\ Event \in Versions
      /\ \A out : Unsent(outbox) \ {Sending} \subseteq Unsent(out) => DrainType(Drained, out)
  BY <1>1, <1>3, DrainedRows
<1>5. outbox \in Seq(OutboxRows) /\ sent \in [Versions -> Nat] /\ unmarked \in [Versions -> Nat]
  BY <1>1 DEF JobTypes
<1>6. Sending \in DOMAIN outbox
  BY <1>4 DEF Unsent
<1>7. PICK row \in OutboxRows : row = outbox[Sending]
  <2>1. outbox[Sending] \in OutboxRows
    BY <1>5, <1>6
  <2> QED
    BY <2>1
<1>8. PICK new \in OutboxRows : new = [row EXCEPT !.delivered = TRUE] /\ new.delivered /\ new.event = row.event
  <2>1. [row EXCEPT !.delivered = TRUE] \in OutboxRows
    BY DEF OutboxRows
  <2>2. [row EXCEPT !.delivered = TRUE].delivered /\ [row EXCEPT !.delivered = TRUE].event = row.event
    BY DEF OutboxRows
  <2> QED
    BY <2>1, <2>2
<1>9. PICK out \in Seq(OutboxRows) : /\ out = outbox' /\ DOMAIN out = DOMAIN outbox
                                     /\ \A i \in DOMAIN outbox : out[i] = IF i = Sending THEN new ELSE outbox[i]
  <2>1. outbox' = [outbox EXCEPT ![Sending] = new]
    BY <1>2, <1>7, <1>8
  <2>2. [outbox EXCEPT ![Sending] = new] \in Seq(OutboxRows)
    BY <1>5, <1>6
  <2>3. /\ DOMAIN [outbox EXCEPT ![Sending] = new] = DOMAIN outbox
        /\ \A i \in DOMAIN outbox : [outbox EXCEPT ![Sending] = new][i] = IF i = Sending THEN new ELSE outbox[i]
    OBVIOUS
  <2> QED
    BY <2>1, <2>2, <2>3
<1>10. \A i \in DOMAIN outbox : out[i].event = outbox[i].event
  BY <1>7, <1>8, <1>9
<1>11. \A i \in DOMAIN outbox : out[i].delivered <=> outbox[i].delivered \/ InHand(drain, i)
  <2>1. \A i : InHand(drain, i) <=> i = Sending
    BY <1>2 DEF InHand, Sending
  <2> QED
    BY <1>7, <1>8, <1>9, <2>1
<1>12. \A i : ~InHand(Drained, i)
  BY <1>4 DEF InHand
<1>13. Unsent(outbox) \ {Sending} \subseteq Unsent(out)
  BY <1>9 DEF Unsent
<1>14. DrainType(Drained, out)
  BY <1>4, <1>13
<1>15. RowsDiffer(out, sent)
  BY <1>3, <1>9, <1>10 DEF RowsDiffer
<1>16. SentOnes(Drained, out, sent, unmarked)
  BY <1>3, <1>9, <1>10, <1>11, <1>12, Zenon DEF SentOnes
<1>17. OutboxSound(Drained, out, sent, unmarked)
  BY <1>14, <1>15, <1>16 DEF OutboxSound
<1> QED
  BY <1>2, <1>5, <1>9, <1>17, DrainMoves

\* A drain that is cut leaves what it had sent unmarked.
LEMMA CutSound ==
  ASSUME JobsInv, LeaveUnmarked
  PROVE  unmarked' \in [Versions -> Nat] /\ OutboxSound(Idle, outbox, sent, unmarked')
<1>1. /\ JobTypes /\ DrainType(drain, outbox) /\ RowsDiffer(outbox, sent)
      /\ SentOnes(drain, outbox, sent, unmarked)
  BY DEF JobsInv, OutboxSound
<1>2. outbox \in Seq(OutboxRows) /\ sent \in [Versions -> Nat] /\ unmarked \in [Versions -> Nat]
  BY <1>1 DEF JobTypes
<1>3. \A i : ~InHand(Idle, i)
  BY DEF InHand, Idle
<1>4. DrainType(Idle, outbox)
  BY DEF DrainType
<1>5. CASE drain.phase # "mark"
  <2>1. unmarked' = unmarked /\ \A i : ~InHand(drain, i)
    BY <1>5 DEF LeaveUnmarked, InHand
  <2>2. SentOnes(Idle, outbox, sent, unmarked)
    BY <1>1, <1>3, <2>1 DEF SentOnes
  <2> QED
    BY <1>1, <1>2, <1>4, <2>1, <2>2 DEF OutboxSound
<1>6. CASE drain.phase = "mark"
  <2>1. drain # Idle
    BY <1>6 DEF Idle
  <2>2. Sending \in Unsent(outbox) /\ Event \in Versions
    BY <1>1, <2>1, DrainedRows
  <2>3. unmarked' = [unmarked EXCEPT ![Event] = @ + 1]
    BY <1>6 DEF LeaveUnmarked
  <2>4. PICK u \in [Versions -> Nat] :
          u = unmarked' /\ \A v \in Versions : u[v] = IF v = Event THEN unmarked[v] + 1 ELSE unmarked[v]
    <3>1. [unmarked EXCEPT ![Event] = @ + 1] \in [Versions -> Nat]
      BY <1>2, <2>2
    <3>2. \A v \in Versions : [unmarked EXCEPT ![Event] = @ + 1][v] = IF v = Event THEN unmarked[v] + 1 ELSE unmarked[v]
      BY <1>2, <2>2
    <3> QED
      BY <2>3, <3>1, <3>2
  <2>5. \A i : InHand(drain, i) <=> i = Sending
    BY <1>6 DEF InHand, Sending
  <2>6. Sending \in DOMAIN outbox /\ ~outbox[Sending].delivered /\ outbox[Sending].event = Event
    BY <2>2 DEF Unsent, Event
  <2>7. \A i \in DOMAIN outbox : outbox[i].event = Event <=> i = Sending
    BY <1>1, <2>6 DEF RowsDiffer
  <2>8. ASSUME NEW i \in DOMAIN outbox
        PROVE IF outbox[i].delivered \/ InHand(Idle, i)
              THEN sent[outbox[i].event] > 0 /\ sent[outbox[i].event] <= u[outbox[i].event] + 1
              ELSE sent[outbox[i].event] <= u[outbox[i].event]
    <3>1. PICK v \in Versions : v = outbox[i].event
      <4>1. outbox[i] \in OutboxRows
        BY <1>2
      <4> QED
        BY <4>1 DEF OutboxRows
    <3>2. sent[v] \in Nat /\ unmarked[v] \in Nat
      BY <1>2
    <3>3. CASE i = Sending
      <4>1. sent[v] <= unmarked[v] + 1
        BY <1>1, <2>5, <3>1, <3>3 DEF SentOnes
      <4>2. u[v] = unmarked[v] + 1
        BY <2>4, <2>6, <3>1, <3>3
      <4>3. sent[v] <= u[v]
        BY <4>1, <4>2
      <4> QED
        BY <1>3, <2>6, <3>1, <3>3, <4>3
    <3>4. CASE i # Sending
      <4>1. u[v] = unmarked[v] /\ ~InHand(drain, i)
        BY <2>4, <2>5, <2>7, <3>1, <3>4
      <4>2. IF outbox[i].delivered THEN sent[v] > 0 /\ sent[v] <= unmarked[v] + 1 ELSE sent[v] <= unmarked[v]
        BY <1>1, <3>1, <4>1 DEF SentOnes
      <4> QED
        BY <1>3, <3>1, <4>1, <4>2
    <3> QED
      BY <3>3, <3>4
  <2>9. OutboxSound(Idle, outbox, sent, u)
    BY <1>1, <1>4, <2>8 DEF OutboxSound, SentOnes
  <2> QED
    BY <2>4, <2>9
<1> QED
  BY <1>5, <1>6

\* The drain is cut.
LEMMA CutStep ==
  ASSUME JobsInv, CutDrain
  PROVE  JobsInv'
<1>1. UNCHANGED <<job, author, jobCall, machine, outbox, sent>> /\ drain' = Idle /\ LeaveUnmarked
  BY DEF CutDrain
<1>2. PICK u \in [Versions -> Nat] : u = unmarked' /\ OutboxSound(Idle, outbox, sent, u)
  BY <1>1, CutSound
<1>3. outbox \in Seq(OutboxRows) /\ sent \in [Versions -> Nat]
  BY DEF JobsInv, JobTypes
<1> QED
  BY <1>1, <1>2, <1>3, DrainMoves

\* A crash forgets the calls and the drain, not the tables.
LEMMA CrashStep ==
  ASSUME JobsInv, JobsCrash
  PROVE  JobsInv'
<1>1. JobTypes /\ RowsOf(job, author) /\ CallsOf(job, author, jobCall) /\ OutboxSound(drain, outbox, sent, unmarked)
  BY DEF JobsInv
<1>2. /\ drain' = Idle /\ machine' = [state |-> "created", version |-> 0] /\ UNCHANGED <<job, author, outbox, sent>>
      /\ LeaveUnmarked
      /\ jobCall' = [c \in JobCalls |-> IF jobCall[c].phase = "off" THEN jobCall[c]
                                       ELSE [jobCall[c] EXCEPT !.phase = "over"]]
  BY DEF JobsCrash
<1>3. ASSUME NEW c \in JobCalls
      PROVE  /\ jobCall'[c] \in CallType /\ jobCall'[c].read = jobCall[c].read
             /\ jobCall'[c].phase \in {"off", "over"} /\ (jobCall[c].phase # "off" => jobCall'[c].phase = "over")
  <2>1. PICK r \in CallType : r = jobCall[c]
    BY <1>1 DEF JobTypes
  <2>2. jobCall'[c] = IF r.phase = "off" THEN r ELSE [r EXCEPT !.phase = "over"]
    BY <1>2, <2>1
  <2>3. /\ [r EXCEPT !.phase = "over"] \in CallType /\ [r EXCEPT !.phase = "over"].phase = "over"
        /\ [r EXCEPT !.phase = "over"].read = r.read
    BY DEF CallType, CallPhases
  <2> QED
    BY <2>1, <2>2, <2>3
<1>4. jobCall' \in [JobCalls -> CallType]
  <2>1. DOMAIN jobCall' = JobCalls /\ jobCall' = [c \in JobCalls |-> jobCall'[c]]
    BY <1>2
  <2> QED
    BY <1>3, <2>1
<1>5. machine.version' \in Nat
  BY <1>2
<1>6. PICK u \in [Versions -> Nat] : u = unmarked' /\ OutboxSound(Idle, outbox, sent, u)
  BY <1>2, CutSound
<1>7. JobTypes'
  BY <1>1, <1>2, <1>4, <1>5, <1>6 DEF JobTypes
<1>8. CallsOf(job, author, jobCall')
  <2>1. \A v \in 1 .. job : author[v] \in JobCalls
    BY <1>1, JobConstants DEF JobTypes, RowsOf
  <2>2. \A v \in 1 .. job : jobCall'[author[v]].phase \in Wrote
    BY <1>1, <1>3, <2>1 DEF CallsOf, Wrote
  <2>3. \A d \in JobCalls : /\ jobCall'[d].read <= job
                            /\ jobCall'[d].phase \in {"checkpoint", "publish"} => jobCall'[d].read + 1 <= job
    BY <1>1, <1>3 DEF CallsOf
  <2> QED
    BY <2>2, <2>3 DEF CallsOf
<1>9. OutboxSound(drain', outbox', sent', unmarked')
  BY <1>2, <1>6
<1>10. OutboxSound(drain, outbox, sent, unmarked)'
  BY <1>9 DEF OutboxSound, DrainType, RowsDiffer, SentOnes, Unsent, InHand
<1>11. RowsOf(job, author)' /\ CallsOf(job, author, jobCall)'
  BY <1>1, <1>2, <1>8 DEF RowsOf, CallsOf
<1> QED
  BY <1>7, <1>10, <1>11 DEF JobsInv

\* Every step keeps the invariant and overwrites nothing.
LEMMA JobsStep == JobsInv /\ [JobsNext]_jobsVars => JobsInv' /\ NothingOverwritten
<1> SUFFICES ASSUME JobsInv, [JobsNext]_jobsVars PROVE JobsInv' /\ NothingOverwritten
  OBVIOUS
<1>1. ASSUME NEW c \in JobCalls, UpsertJob(c) PROVE JobsInv' /\ NothingOverwritten
  BY <1>1, UpsertStep DEF NothingOverwritten
<1>2. ASSUME NEW c \in JobCalls,
             \/ RunOnce(c) \/ Release(c) \/ Interrupt(c) \/ Load(c) \/ Transition(c)
             \/ SaveCheckpoint(c) \/ Publish(c)
      PROVE  JobsInv' /\ NothingOverwritten
  <2>1. JobsInv'
    BY <1>2, OtherCallSteps, LoadStep, TransitionStep, CheckpointStep, PublishStep
  <2>2. author' = author
    BY <1>2 DEF RunOnce, Release, Interrupt, Load, Transition, SaveCheckpoint, Publish, Store
  <2> QED
    BY <2>1, <2>2 DEF NothingOverwritten
<1>3. CASE LeaseExpires \/ UNCHANGED jobsVars
  <2>1. UNCHANGED <<job, author, jobCall, machine, outbox, sent, unmarked, drain>>
    BY <1>3 DEF LeaseExpires, Store, jobsVars
  <2>2. JobsInv'
    <3>1. JobTypes' /\ RowsOf(job, author)' /\ CallsOf(job, author, jobCall)'
      BY <2>1 DEF JobsInv, JobTypes, RowsOf, CallsOf
    <3>2. OutboxSound(drain, outbox, sent, unmarked)'
      BY <2>1 DEF JobsInv, OutboxSound, DrainType, RowsDiffer, SentOnes, Unsent, InHand
    <3> QED
      BY <3>1, <3>2 DEF JobsInv
  <2> QED
    BY <2>1, <2>2 DEF NothingOverwritten
<1>4. CASE DrainStep
  <2>1. JobsInv'
    BY <1>4, BeginStep, SendStep, MarkStep, CutStep DEF DrainStep
  <2>2. author' = author
    BY <1>4 DEF DrainStep, BeginDrain, SendEvent, Mark, CutDrain, Store
  <2> QED
    BY <2>1, <2>2 DEF NothingOverwritten
<1>5. CASE JobsCrash
  <2>1. author' = author
    BY <1>5 DEF JobsCrash
  <2> QED
    BY <1>5, <2>1, CrashStep DEF NothingOverwritten
<1> QED
  BY <1>1, <1>2, <1>3, <1>4, <1>5 DEF JobsNext, JobStep

\* What the invariant says of the outbox.
LEMMA OutboxInvSays == JobsInv => OutboxIsExact
<1> SUFFICES ASSUME JobsInv PROVE OutboxIsExact
  OBVIOUS
<1>1. RowsDiffer(outbox, sent) /\ SentOnes(drain, outbox, sent, unmarked)
  BY DEF JobsInv, OutboxSound
<1>2. sent \in [Versions -> Nat] /\ unmarked \in [Versions -> Nat]
  BY DEF JobsInv, JobTypes
<1>3. \A i \in DOMAIN outbox : outbox[i].delivered => sent[outbox[i].event] > 0
  BY <1>1 DEF SentOnes
<1>4. ASSUME NEW v \in Versions PROVE sent[v] <= unmarked[v] + 1 /\ (sent[v] > 0 => v \in Published)
  <2>1. sent[v] \in Nat /\ unmarked[v] \in Nat
    BY <1>2
  <2>2. CASE sent[v] = 0
    BY <2>1, <2>2
  <2>3. CASE sent[v] > 0
    <3>1. PICK i \in DOMAIN outbox : outbox[i].event = v
      BY <1>1, <2>3 DEF RowsDiffer
    <3>2. sent[v] <= unmarked[v] + 1
      BY <1>1, <2>1, <3>1 DEF SentOnes
    <3> QED
      BY <3>1, <3>2 DEF Published
  <2> QED
    BY <2>1, <2>2, <2>3
<1> QED
  BY <1>3, <1>4 DEF OutboxIsExact

\* For any number of calls, owners, crashes, drains and limits, even when leases expire, calls
\* overlap and senders raise: no version of the row is overwritten by a call that had not read
\* its predecessor (upsert_job), an event is marked only after it was accepted, and accepted
\* again only as often as the mark was lost (publish, drain).
THEOREM JobsDurable == JobsSpec => JobsAreDurable
<1>1. JobsSpec => []JobsInv
  BY JobsInitial, JobsStep, PTL DEF JobsSpec
<1>2. JobsInv' => OutboxIsExact'
  BY OutboxInvSays, PTL
<1>3. JobsInv /\ [JobsNext]_jobsVars => [NothingOverwritten /\ OutboxIsExact']_jobsVars
  BY <1>2, JobsStep
<1> QED
  BY <1>1, <1>3, PTL DEF JobsSpec, JobsAreDurable
=============================================================================

----------------------------- MODULE ServingProofs ----------------------------
(***************************************************************************)
(* What components beside the request handlers promise, for every number of *)
(* callers, versions, webhooks, pairs and sessions: the circuit breaker, the*)
(* model registry, the event emitter, the report of health, the budget of   *)
(* guarded calls, the history of forecasts and the ingest jobs.  They share *)
(* no state; each has its own invariant.                                    *)
(***************************************************************************)
EXTENDS AsyncBreaker, ModelPromotion, WebhookDelivery, SelfStatus, GuardedCalls,
        ForecastHistory, TelemetryIngest,
        FiniteSetTheorems, NumberLemmas, TLAPS

-----------------------------------------------------------------------------
(* The circuit breaker.                                                     *)

\* A half-open breaker counts no success that came before it half-opened.
TrialsInv ==
    /\ consecutive_successes \in Nat /\ proven \in Nat
    /\ state = "HALF_OPEN" => consecutive_successes <= proven

\* A new breaker counts nothing.
LEMMA TrialsInit == BreakerInit => TrialsInv
BY DEF BreakerInit, TrialsInv

\* What a step may do with the counted trials: keep them, start over when it
\* half-opens, or count one success of a half-open breaker.
LEMMA TrialSteps ==
    ASSUME [BreakerNext]_breakerVars
    PROVE  \/ /\ UNCHANGED <<consecutive_successes, proven>>
              /\ state' = state \/ state' = "OPEN"
           \/ consecutive_successes' = 0 /\ proven' = 0 /\ state' = "HALF_OPEN"
           \/ /\ state = "HALF_OPEN" /\ proven' = proven + 1
              /\ \/ /\ consecutive_successes + 1 >= HalfOpenSuccessThreshold
                    /\ consecutive_successes' = 0 /\ state' = "CLOSED"
                 \/ consecutive_successes' = consecutive_successes + 1 /\ state' = state
<1>1. CASE RecoveryElapses
  BY <1>1 DEF RecoveryElapses
<1>2. ASSUME NEW c \in Callers, Enter(c)
      PROVE  \/ UNCHANGED <<state, consecutive_successes, proven>>
             \/ consecutive_successes' = 0 /\ proven' = 0 /\ state' = "HALF_OPEN"
  BY <1>2 DEF Enter, HalfOpens
<1>3. ASSUME NEW c \in Callers,
             ShortFallbackEnds(c) \/ FuncReturns(c) \/ FuncRaises(c) \/ Retry(c)
      PROVE  UNCHANGED <<state, consecutive_successes, proven>>
  BY <1>3 DEF ShortFallbackEnds, FuncReturns, FuncRaises, Retry
<1>4. ASSUME NEW c \in Callers, OnFailure(c)
      PROVE  /\ UNCHANGED <<consecutive_successes, proven>>
             /\ state' = state \/ state' = "OPEN"
  BY <1>4 DEF OnFailure
<1>5. ASSUME NEW c \in Callers, OnSuccess(c)
      PROVE  \/ UNCHANGED <<state, consecutive_successes, proven>>
             \/ /\ state = "HALF_OPEN" /\ proven' = proven + 1
                /\ \/ /\ consecutive_successes + 1 >= HalfOpenSuccessThreshold
                      /\ consecutive_successes' = 0 /\ state' = "CLOSED"
                   \/ consecutive_successes' = consecutive_successes + 1 /\ state' = state
  BY <1>5 DEF OnSuccess
<1>6. CASE UNCHANGED breakerVars
  BY <1>6 DEF breakerVars
<1> QED
  BY <1>1, <1>2, <1>3, <1>4, <1>5, <1>6 DEF BreakerNext, Advance

\* Every step keeps the count below the proof, and closes only at the threshold.
LEMMA TrialsStep ==
    ASSUME TrialsInv, [BreakerNext]_breakerVars
    PROVE  /\ TrialsInv'
           /\ state = "HALF_OPEN" /\ state' = "CLOSED" => proven' >= HalfOpenSuccessThreshold
BY TrialSteps, ThresholdsArePositive DEF TrialsInv

\* The breaker closes only on as many successes as its threshold asks for, all counted
\* since it last half-opened, whatever calls of earlier states end in between.
THEOREM ClosesProven == BreakerSpec => ClosesOnlyWhenProven
<1>1. TrialsInv /\ [BreakerNext]_breakerVars => TrialsInv'
  BY TrialsStep
<1>2. TrialsInv /\ [BreakerNext]_breakerVars =>
        [state = "HALF_OPEN" /\ state' = "CLOSED" =>
           proven' >= HalfOpenSuccessThreshold]_breakerVars
  BY TrialsStep
<1> QED
  BY <1>1, <1>2, TrialsInit, PTL DEF BreakerSpec, ClosesOnlyWhenProven

-----------------------------------------------------------------------------
(* The model registry.                                                      *)

\* A call of promote.
Phases == {"off", "compare", "demote", "waiting", "commit", "refused", "promoted"}
PromoteCalls == [phase : Phases, version : Versions \cup {NoVersion},
                 covers : SUBSET Versions, demoted : SUBSET Versions]

\* An UPDATE under way covers its candidate and every active model it did not miss, and once it
\* has its rows it has demoted the active ones among them.
CallInv(c) ==
  /\ c.phase \in {"compare", "demote"} => c.version \in Versions
  /\ c.phase \in {"waiting", "commit"} => c.version \in c.covers /\ active \ unseen \subseteq c.covers
  /\ c.phase = "commit" => active \cap c.covers \subseteq c.demoted

\* Two sessions hold no row together.
ApartFrom(c, d) == c.phase = "commit" /\ d.phase = "commit" => c.covers \cap d.covers = {}

PromotionInv ==
  /\ promotion \in [Promoters -> PromoteCalls] /\ registered \subseteq Versions
  /\ active \subseteq registered
  /\ \A p \in Promoters : CallInv(promotion[p])
  /\ \A p, q \in Promoters : p # q => ApartFrom(promotion[p], promotion[q])
  /\ OneActiveModel

\* The empty registry has no active model.
LEMMA PromotionInvInit == PromotionInit => PromotionInv
<1> SUFFICES ASSUME PromotionInit PROVE PromotionInv
  OBVIOUS
<1>1. NoCallYet \in PromoteCalls /\ NoCallYet.phase \notin {"compare", "demote", "waiting", "commit"}
  BY DEF NoCallYet, PromoteCalls, Phases
<1>2. \A p \in Promoters : promotion[p] = NoCallYet
  BY DEF PromotionInit
<1>3. promotion \in [Promoters -> PromoteCalls]
  BY <1>1 DEF PromotionInit
<1>4. \A p \in Promoters : CallInv(promotion[p])
  BY <1>1, <1>2 DEF CallInv
<1>5. \A p, q \in Promoters : ApartFrom(promotion[p], promotion[q])
  BY <1>1, <1>2 DEF ApartFrom
<1>6. registered \subseteq Versions /\ active \subseteq registered /\ OneActiveModel
  BY DEF PromotionInit, OneActiveModel
<1> QED
  BY <1>3, <1>4, <1>5, <1>6, Zenon DEF PromotionInv

\* A call moves on, and no model becomes active by it.
LEMMA CallMoves ==
  ASSUME PromotionInv, NEW p \in Promoters, NEW c \in PromoteCalls,
         promotion' = [promotion EXCEPT ![p] = c], CallInv(c),
         \A q \in Promoters \ {p} : ApartFrom(c, promotion[q]),
         UNCHANGED <<registered, active, unseen>>
  PROVE  PromotionInv'
<1>1. \A q \in Promoters : promotion'[q] = IF q = p THEN c ELSE promotion[q]
  BY DEF PromotionInv
<1>2. promotion' \in [Promoters -> PromoteCalls]
  BY DEF PromotionInv
<1>3. \A q \in Promoters : CallInv(promotion'[q])
  BY <1>1 DEF PromotionInv
<1>4. \A q \in Promoters : CallInv(promotion[q])'
  BY <1>3 DEF CallInv
<1>5. ASSUME NEW q \in Promoters, NEW r \in Promoters, q # r
      PROVE  ApartFrom(promotion'[q], promotion'[r])
  <2>1. ApartFrom(promotion[q], promotion[r])
    BY <1>5 DEF PromotionInv
  <2>2. CASE q = p
    BY <1>1, <1>5, <2>2
  <2>3. CASE r = p
    <3>1. ApartFrom(c, promotion[q])
      BY <1>5, <2>3
    <3> QED
      BY <1>1, <1>5, <2>3, <3>1 DEF ApartFrom
  <2>4. CASE q # p /\ r # p
    BY <1>1, <2>1, <2>4
  <2> QED
    BY <2>2, <2>3, <2>4
<1>6. /\ registered' \subseteq Versions /\ active' \subseteq registered'
      /\ OneActiveModel'
  BY DEF PromotionInv, OneActiveModel
<1>7. \A q, r \in Promoters : q # r => ApartFrom(promotion[q], promotion[r])'
  BY <1>5 DEF ApartFrom
<1> QED
  BY <1>2, <1>4, <1>6, <1>7, Zenon DEF PromotionInv

\* The call is over, or has not begun its UPDATE.
LEMMA CallMovesOutside ==
  ASSUME PromotionInv, NEW p \in Promoters, NEW c \in PromoteCalls,
         promotion' = [promotion EXCEPT ![p] = c], c.phase \notin {"waiting", "commit"},
         c.phase \in {"compare", "demote"} => c.version \in Versions,
         UNCHANGED <<registered, active, unseen>>
  PROVE  PromotionInv'
<1>1. CallInv(c)
  BY DEF CallInv
<1>2. \A q \in Promoters \ {p} : ApartFrom(c, promotion[q])
  BY DEF ApartFrom
<1> QED
  BY <1>1, <1>2, CallMoves

\* A call that has ended holds nothing.
LEMMA CallIsOver ==
  ASSUME PromotionInv, NEW p \in Promoters, NEW how \in {"refused", "promoted"}, CallOver(p, how),
         UNCHANGED <<registered, active, unseen>>
  PROVE  PromotionInv'
<1>1. PICK c : c = [NoCallYet EXCEPT !.phase = how]
  OBVIOUS
<1>2. c \in PromoteCalls /\ c.phase \notin {"compare", "demote", "waiting", "commit"}
  BY <1>1 DEF NoCallYet, PromoteCalls, Phases
<1>3. promotion' = [promotion EXCEPT ![p] = c]
  BY <1>1 DEF CallOver
<1>4. c.phase \notin {"waiting", "commit"} /\ (c.phase \in {"compare", "demote"} => c.version \in Versions)
  BY <1>2
<1>5. c \in PromoteCalls
  BY <1>2
<1> QED
  BY <1>3, <1>4, <1>5, CallMovesOutside

\* The call's record with another phase.
LEMMA PhaseMoves ==
  ASSUME PromotionInv, NEW p \in Promoters, NEW how \in Phases, MoveOn(p, how)
  PROVE  \E c \in PromoteCalls : /\ promotion' = [promotion EXCEPT ![p] = c]
                                 /\ c.phase = how /\ c.version = promotion[p].version
                                 /\ c.covers = promotion[p].covers /\ c.demoted = promotion[p].demoted
<1>1. promotion[p] \in PromoteCalls
  BY DEF PromotionInv
<1>2. PICK c : c = [promotion[p] EXCEPT !.phase = how]
  OBVIOUS
<1>3. /\ c \in PromoteCalls /\ c.phase = how /\ c.version = promotion[p].version
      /\ c.covers = promotion[p].covers /\ c.demoted = promotion[p].demoted
  BY <1>1, <1>2 DEF PromoteCalls, Phases
<1>4. promotion' = [promotion EXCEPT ![p] = c]
  BY <1>2 DEF MoveOn
<1> QED
  BY <1>3, <1>4

\* What a commit adds: the rows it has demoted hold every active model it did not miss, and no
\* other session holds the candidate's row.
LEMMA CommitKeepsOne ==
  ASSUME PromotionInv, NEW p \in Promoters, CommitPromotion(p)
  PROVE  PromotionInv'
<1>1. PICK c \in PromoteCalls : c = promotion[p]
  BY DEF PromotionInv
<1>2. c.phase = "commit" /\ CallInv(c)
  BY <1>1 DEF CommitPromotion, PromotionInv
<1>3. PICK v : v = c.version
  OBVIOUS
<1>4. /\ v \in c.covers /\ v \in Versions /\ active \ unseen \subseteq c.covers
      /\ active \cap c.covers \subseteq c.demoted
  BY <1>2, <1>3 DEF CallInv, PromoteCalls
<1>5. /\ registered' = registered \cup {v} /\ active' = (active \ c.demoted) \cup {v}
      /\ unseen' = (unseen \ c.demoted)
                   \cup {w \in {v} : \E q \in Promoters \ {p} : Misses(q, w)}
  BY <1>1, <1>3 DEF CommitPromotion, Candidate
<1>6. active' \ unseen' \subseteq {v}
  BY <1>4, <1>5
<1>7. PICK over : over = [NoCallYet EXCEPT !.phase = "promoted"]
  OBVIOUS
<1>8. over \in PromoteCalls /\ over.phase \notin {"compare", "demote", "waiting", "commit"}
  BY <1>7 DEF NoCallYet, PromoteCalls, Phases
<1>9. promotion' = [promotion EXCEPT ![p] = over]
  BY <1>7 DEF CommitPromotion, CallOver
<1>10. \A q \in Promoters : promotion'[q] = IF q = p THEN over ELSE promotion[q]
  BY <1>9 DEF PromotionInv
<1>11. promotion' \in [Promoters -> PromoteCalls]
  BY <1>8, <1>9 DEF PromotionInv
<1>12. ASSUME NEW q \in Promoters
       PROVE  CallInv(promotion[q])'
  <2>1. CASE q = p
    <3>1. promotion'[q] = over
      BY <1>10, <2>1
    <3> QED
      BY <1>8, <3>1 DEF CallInv
  <2>2. CASE q # p
    <3>1. PICK d \in PromoteCalls : d = promotion[q] /\ d = promotion'[q]
      BY <1>10, <2>2 DEF PromotionInv
    <3>2. CallInv(d) /\ ApartFrom(c, d)
      BY <1>1, <2>2, <3>1 DEF PromotionInv
    <3>3. ASSUME d.phase \in {"waiting", "commit"}
          PROVE  d.version \in d.covers /\ active' \ unseen' \subseteq d.covers
      <4>1. d.version \in d.covers
        BY <3>2, <3>3 DEF CallInv
      <4>2. CASE v \in d.covers
        BY <1>6, <4>1, <4>2
      <4>3. CASE v \notin d.covers
        <5>1. Misses(q, v)
          BY <3>1, <3>3, <4>3 DEF Misses
        <5>2. v \in unseen'
          BY <1>5, <2>2, <5>1
        <5> QED
          BY <1>6, <4>1, <5>2
      <4> QED
        BY <4>2, <4>3
    <3>4. ASSUME d.phase = "commit"
          PROVE  active' \cap d.covers \subseteq d.demoted
      <4>1. active \cap d.covers \subseteq d.demoted
        BY <3>2, <3>4 DEF CallInv
      <4>2. v \notin d.covers
        BY <1>2, <1>4, <3>2, <3>4 DEF ApartFrom
      <4> QED
        BY <1>5, <4>1, <4>2
    <3>5. d.phase \in {"compare", "demote"} => d.version \in Versions
      BY <3>2 DEF CallInv
    <3> QED
      BY <3>1, <3>3, <3>4, <3>5 DEF CallInv
  <2> QED
    BY <2>1, <2>2
<1>13. ASSUME NEW q \in Promoters, NEW r \in Promoters, q # r
       PROVE  ApartFrom(promotion'[q], promotion'[r])
  <2>1. ApartFrom(promotion[q], promotion[r])
    BY <1>13 DEF PromotionInv
  <2> QED
    BY <1>8, <1>10, <2>1 DEF ApartFrom
<1>14. registered' \subseteq Versions /\ active' \subseteq registered'
  BY <1>4, <1>5 DEF PromotionInv
<1>15. OneActiveModel'
  BY <1>6 DEF OneActiveModel
<1>16. \A q, r \in Promoters : q # r => ApartFrom(promotion[q], promotion[r])'
  BY <1>13 DEF ApartFrom
<1> QED
  BY <1>11, <1>12, <1>14, <1>15, <1>16, Zenon DEF PromotionInv

\* An UPDATE begins: it covers every row there is, so every active model.
LEMMA DemotionBegins ==
  ASSUME PromotionInv, NEW p \in Promoters, BeginDemotion(p)
  PROVE  PromotionInv'
<1>1. PICK old \in PromoteCalls : old = promotion[p]
  BY DEF PromotionInv
<1>2. old.version \in Versions
  BY <1>1 DEF BeginDemotion, PromotionInv, CallInv
<1>3. PICK c : c = [old EXCEPT !.phase = "waiting", !.covers = registered \cup {old.version}]
  OBVIOUS
<1>4. registered \cup {old.version} \in SUBSET Versions
  BY <1>2 DEF PromotionInv
<1>5. c \in PromoteCalls /\ c.phase = "waiting" /\ c.version = old.version
      /\ c.covers = registered \cup {old.version}
  BY <1>3, <1>4 DEF PromoteCalls, Phases
<1>6. promotion' = [promotion EXCEPT ![p] = c]
  BY <1>1, <1>3 DEF BeginDemotion, Candidate
<1>7. CallInv(c)
  BY <1>5 DEF CallInv, PromotionInv
<1>8. \A q \in Promoters \ {p} : ApartFrom(c, promotion[q])
  BY <1>5 DEF ApartFrom
<1>9. UNCHANGED <<registered, active, unseen>>
  BY DEF BeginDemotion
<1>10. c \in PromoteCalls
  BY <1>5
<1> QED
  BY <1>6, <1>7, <1>8, <1>9, <1>10, CallMoves

\* It gets its rows, and demotes the active ones among them.
LEMMA DemotionHolds ==
  ASSUME PromotionInv, NEW p \in Promoters, Demote(p)
  PROVE  PromotionInv'
<1>1. PICK old \in PromoteCalls : old = promotion[p]
  BY DEF PromotionInv
<1>2. old.phase = "waiting" /\ CallInv(old)
  BY <1>1 DEF Demote, PromotionInv
<1>3. PICK c : c = [old EXCEPT !.phase = "commit", !.demoted = active \cap old.covers]
  OBVIOUS
<1>4. active \cap old.covers \in SUBSET Versions
  BY DEF PromotionInv
<1>5. c \in PromoteCalls /\ c.phase = "commit" /\ c.version = old.version
      /\ c.covers = old.covers /\ c.demoted = active \cap old.covers
  BY <1>3, <1>4 DEF PromoteCalls, Phases
<1>6. promotion' = [promotion EXCEPT ![p] = c]
  BY <1>1, <1>3 DEF Demote
<1>7. CallInv(c)
  BY <1>2, <1>5 DEF CallInv
<1>8. \A q \in Promoters \ {p} : ApartFrom(c, promotion[q])
  BY <1>1, <1>5 DEF ApartFrom, Demote, RowsFree
<1>9. UNCHANGED <<registered, active, unseen>>
  BY DEF Demote
<1>10. c \in PromoteCalls
  BY <1>5
<1> QED
  BY <1>6, <1>7, <1>8, <1>9, <1>10, CallMoves

\* Every step keeps the invariant.
LEMMA PromotionInvStep == PromotionInv /\ [PromotionNext]_promotionVars => PromotionInv'
<1> SUFFICES ASSUME PromotionInv, [PromotionNext]_promotionVars
             PROVE  PromotionInv'
  OBVIOUS
<1>1. ASSUME NEW v \in Versions, RegisterModel(v) \/ SaveRun(v) \/ RunAges(v)
      PROVE  PromotionInv'
  <2>1. /\ promotion' = promotion /\ active' = active /\ unseen' = unseen
        /\ registered \subseteq registered' /\ registered' \subseteq registered \cup {v}
    BY <1>1 DEF RegisterModel, SaveRun, RunAges
  <2>2. \A p \in Promoters : CallInv(promotion[p])'
    BY <2>1 DEF PromotionInv, CallInv
  <2>3. \A p, q \in Promoters : p # q => ApartFrom(promotion[p], promotion[q])'
    BY <2>1 DEF PromotionInv, ApartFrom
  <2>4. /\ promotion' \in [Promoters -> PromoteCalls] /\ registered' \subseteq Versions
        /\ active' \subseteq registered' /\ OneActiveModel'
    BY <2>1 DEF PromotionInv, OneActiveModel
  <2> QED
    BY <2>2, <2>3, <2>4, Zenon DEF PromotionInv
<1>2. ASSUME NEW p \in Promoters, CheckCandidate(p)
      PROVE  PromotionInv'
  <2>1. PICK v \in Versions :
          \/ promotion' = [promotion EXCEPT ![p].phase = "compare", ![p].version = v]
          \/ CallOver(p, "refused")
    BY <1>2 DEF CheckCandidate
  <2>2. UNCHANGED <<registered, active, unseen>>
    BY <1>2 DEF CheckCandidate
  <2>3. CASE CallOver(p, "refused")
    BY <2>2, <2>3, CallIsOver
  <2>4. CASE promotion' = [promotion EXCEPT ![p].phase = "compare", ![p].version = v]
    <3>1. PICK c : c = [promotion[p] EXCEPT !.phase = "compare", !.version = v]
      OBVIOUS
    <3>2. promotion[p] \in PromoteCalls
      BY DEF PromotionInv
    <3>3. c \in PromoteCalls /\ c.phase = "compare" /\ c.version = v
      BY <3>1, <3>2 DEF PromoteCalls, Phases
    <3>4. promotion' = [promotion EXCEPT ![p] = c]
      BY <2>4, <3>1
    <3>5. c.phase \notin {"waiting", "commit"}
          /\ (c.phase \in {"compare", "demote"} => c.version \in Versions)
      BY <3>3
    <3>6. c \in PromoteCalls
      BY <3>3
    <3> QED
      BY <2>2, <3>4, <3>5, <3>6, CallMovesOutside
  <2> QED
    BY <2>1, <2>3, <2>4
<1>3. ASSUME NEW p \in Promoters, Compare(p)
      PROVE  PromotionInv'
  <2>1. UNCHANGED <<registered, active, unseen>>
    BY <1>3 DEF Compare
  <2>2. CASE CallOver(p, "refused")
    BY <2>1, <2>2, CallIsOver
  <2>3. CASE MoveOn(p, "demote")
    <3>1. PICK c \in PromoteCalls : /\ promotion' = [promotion EXCEPT ![p] = c]
                                    /\ c.phase = "demote" /\ c.version = promotion[p].version
      BY <2>3, PhaseMoves DEF Phases
    <3>2. c.version \in Versions
      BY <1>3, <3>1 DEF Compare, PromotionInv, CallInv
    <3>3. c.phase \notin {"waiting", "commit"}
          /\ (c.phase \in {"compare", "demote"} => c.version \in Versions)
      BY <3>1, <3>2
    <3> QED
      BY <2>1, <3>1, <3>3, CallMovesOutside
  <2> QED
    BY <1>3, <2>2, <2>3 DEF Compare
<1>4. ASSUME NEW p \in Promoters, BeginDemotion(p) \/ Demote(p) \/ CommitPromotion(p)
      PROVE  PromotionInv'
  BY <1>4, DemotionBegins, DemotionHolds, CommitKeepsOne
<1>5. ASSUME NEW p \in Promoters, PromotionFails(p)
      PROVE  PromotionInv'
  <2>1. CallOver(p, "refused") /\ UNCHANGED <<registered, active, unseen>>
    BY <1>5 DEF PromotionFails
  <2> QED
    BY <2>1, CallIsOver
<1>6. CASE UNCHANGED promotionVars
  <2>1. /\ promotion' = promotion /\ active' = active /\ unseen' = unseen
        /\ registered' = registered
    BY <1>6 DEF promotionVars
  <2>2. \A p \in Promoters : CallInv(promotion[p])'
    BY <2>1 DEF PromotionInv, CallInv
  <2>3. \A p, q \in Promoters : p # q => ApartFrom(promotion[p], promotion[q])'
    BY <2>1 DEF PromotionInv, ApartFrom
  <2>4. /\ promotion' \in [Promoters -> PromoteCalls] /\ registered' \subseteq Versions
        /\ active' \subseteq registered' /\ OneActiveModel'
    BY <2>1 DEF PromotionInv, OneActiveModel
  <2> QED
    BY <2>2, <2>3, <2>4, Zenon DEF PromotionInv
<1> QED
  BY <1>1, <1>2, <1>3, <1>4, <1>5, <1>6 DEF PromotionNext

\* However promotions overlap and fail, one version of the family is active, but for those whose
\* rows an UPDATE under way could not see when it began.
THEOREM ActiveModel == PromotionSpec => []OneActiveModel
<1>1. PromotionInv => OneActiveModel
  BY DEF PromotionInv
<1> QED
  BY <1>1, PromotionInvInit, PromotionInvStep, PTL DEF PromotionSpec

-----------------------------------------------------------------------------
(* The event emitter.                                                       *)

DeliveryTypeOK ==
  /\ emitted \in Nat
  /\ hooks \subseteq Hooks
  /\ sending \in [Hooks -> [Events -> Sendings]]
  /\ tally \in [attempted: Nat, delivered: Nat, failed: Nat, rejected: Nat]

\* No delivery of an event before it is emitted.
NotYet == \A h \in Hooks, e \in Events : e > emitted => sending[h][e] = "none"

DeliveryInv == DeliveryTypeOK /\ NotYet /\ DeliveryStatsExact

\* There are finitely many deliveries.
LEMMA FinitelyMany == \A states : IsFiniteSet(DeliveriesIn(states))
<1>1. IsFiniteSet(Hooks \X Events)
  <2>1. IsFiniteSet(Events)
    <3>1. 1 \in Int /\ MaxEvents \in Int
      BY DeliveryAssumption
    <3> QED
      BY <3>1, FS_Interval DEF Events
  <2>2. IsFiniteSet(Hooks)
    BY DeliveryAssumption
  <2> QED
    BY <2>1, <2>2, FS_Product
<1>2. \A states : DeliveriesIn(states) \in SUBSET (Hooks \X Events)
  BY DEF DeliveriesIn
<1> QED
  BY <1>1, <1>2, FS_Subset

\* An event has as many deliveries as hooks.
LEMMA OnePerHook ==
  ASSUME NEW H \in SUBSET Hooks, NEW e
  PROVE  IsFiniteSet(H \X {e}) /\ Cardinality(H \X {e}) = Cardinality(H)
<1>1. IsFiniteSet(H)
  BY DeliveryAssumption, FS_Subset
<1> DEFINE pair == [h \in H |-> <<h, e>>]
<1>2. pair \in Bijection(H, H \X {e})
  BY DEF Bijection, Injection, Surjection, IsInjective
<1> QED
  BY <1>1, <1>2, FS_Bijection DEF ExistsBijection

\* Before the first event the counters are zero, and so are the deliveries.
LEMMA DeliveryInvInit == DeliveryInit => DeliveryInv
<1> SUFFICES ASSUME DeliveryInit
             PROVE  DeliveryInv
  OBVIOUS
<1>1. DeliveryTypeOK /\ NotYet
  BY DEF DeliveryInit, DeliveryTypeOK, NotYet, Sendings, InFlight
<1>2. \A states : "none" \notin states => DeliveriesIn(states) = {}
  BY DEF DeliveryInit, DeliveriesIn
<1>3. Cardinality({}) = 0
  BY FS_EmptySet
<1>4. /\ DeliveriesIn(InFlight \cup {"cancelled"}) = {}
      /\ DeliveriesIn({"delivered"}) = {} /\ DeliveriesIn({"failed"}) = {}
      /\ DeliveriesIn({"rejected"}) = {}
  BY <1>2 DEF InFlight
<1>5. DeliveryStatsExact
  <2>1. /\ tally.attempted = 0 /\ tally.delivered = 0 /\ tally.failed = 0
        /\ tally["delivered"] = 0 /\ tally["failed"] = 0 /\ tally["rejected"] = 0
    BY DEF DeliveryInit
  <2>2. /\ Cardinality(DeliveriesIn(InFlight \cup {"cancelled"})) = 0
        /\ \A s \in {"delivered", "failed", "rejected"} : Cardinality(DeliveriesIn({s})) = 0
    BY <1>3, <1>4
  <2> QED
    BY <2>1, <2>2 DEF DeliveryStatsExact
<1> QED
  BY <1>1, <1>5 DEF DeliveryInv

\* A delivery under way settles: one less is pending, one more has its result.
LEMMA SettlingIsCounted ==
  ASSUME DeliveryInv, NEW h \in Hooks, NEW e \in Events, NEW result \in {"delivered", "failed"},
         sending[h][e] \in InFlight, SettleDelivery(h, e, result), UNCHANGED <<emitted, hooks>>
  PROVE  DeliveryInv'
<1>0. DeliveryTypeOK /\ NotYet /\ DeliveryStatsExact
  BY DEF DeliveryInv
<1>1. /\ sending'[h][e] = result
      /\ \A g \in Hooks, d \in Events : <<g, d>> # <<h, e>> => sending'[g][d] = sending[g][d]
  BY <1>0 DEF SettleDelivery, DeliveryTypeOK
<1>2. sending' \in [Hooks -> [Events -> Sendings]]
  BY <1>0 DEF SettleDelivery, DeliveryTypeOK, Sendings
<1>3. /\ tally' \in [attempted: Nat, delivered: Nat, failed: Nat, rejected: Nat]
      /\ tally'.attempted = tally.attempted /\ tally'.rejected = tally.rejected
      /\ tally'.delivered = IF result = "delivered" THEN tally.delivered + 1 ELSE tally.delivered
      /\ tally'.failed = IF result = "failed" THEN tally.failed + 1 ELSE tally.failed
  BY <1>0 DEF SettleDelivery, DeliveryTypeOK
<1>4. NotYet'
  BY <1>0, <1>1 DEF NotYet, InFlight
<1>5. /\ DeliveriesIn(InFlight \cup {"cancelled"})' = DeliveriesIn(InFlight \cup {"cancelled"}) \ {<<h, e>>}
      /\ <<h, e>> \in DeliveriesIn(InFlight \cup {"cancelled"})
  BY <1>1 DEF DeliveriesIn, InFlight
<1>6. \A s \in {"delivered", "failed", "rejected"} :
        /\ <<h, e>> \notin DeliveriesIn({s})
        /\ DeliveriesIn({s})' = IF s = result THEN DeliveriesIn({s}) \cup {<<h, e>>}
                                ELSE DeliveriesIn({s})
  BY <1>1 DEF DeliveriesIn, InFlight
<1>7. Cardinality(DeliveriesIn(InFlight \cup {"cancelled"}))' =
        Cardinality(DeliveriesIn(InFlight \cup {"cancelled"})) - 1
  BY <1>5, FinitelyMany, FS_RemoveElement
<1>8. \A s \in {"delivered", "failed", "rejected"} :
        Cardinality(DeliveriesIn({s}))' =
          IF s = result THEN Cardinality(DeliveriesIn({s})) + 1 ELSE Cardinality(DeliveriesIn({s}))
  BY <1>6, FinitelyMany, FS_AddElement
<1>9. /\ Cardinality(DeliveriesIn(InFlight \cup {"cancelled"})) \in Nat
      /\ \A s : Cardinality(DeliveriesIn({s})) \in Nat
  BY FinitelyMany, FS_CardinalityType
<1>10. DeliveryStatsExact'
  <2>1. \A s \in {"delivered", "failed", "rejected"} : tally'[s] = Cardinality(DeliveriesIn({s}))'
    BY <1>0, <1>3, <1>8 DEF DeliveryStatsExact
  <2>2. tally'.attempted = tally'.delivered + tally'.failed
                           + Cardinality(DeliveriesIn(InFlight \cup {"cancelled"}))'
    BY <1>0, <1>3, <1>7, <1>9 DEF DeliveryStatsExact, DeliveryTypeOK
  <2> QED
    BY <2>1, <2>2 DEF DeliveryStatsExact
<1> QED
  BY <1>0, <1>2, <1>3, <1>4, <1>10 DEF DeliveryInv, DeliveryTypeOK

\* Sets that share no element count one after the other.
LEMMA AddedToCount ==
  ASSUME NEW A, IsFiniteSet(A), NEW B, IsFiniteSet(B), A \cap B = {}
  PROVE  Cardinality(A \cup B) = Cardinality(A) + Cardinality(B)
<1>1. Cardinality(A \cup B) = Cardinality(A) + Cardinality(B) - Cardinality(A \cap B)
  BY FS_Union
<1>2. Cardinality(A \cap B) = 0
  BY FS_EmptySet
<1>3. Cardinality(A) \in Nat /\ Cardinality(B) \in Nat
  BY FS_CardinalityType
<1> QED
  BY <1>1, <1>2, <1>3

\* An emitted event adds one pending delivery per safe hook, and one rejected delivery
\* per unsafe hook.
LEMMA EmittingIsCounted ==
  ASSUME DeliveryInv, Emit
  PROVE  DeliveryInv'
<1> DEFINE number == emitted + 1
<1>0. DeliveryTypeOK /\ NotYet /\ DeliveryStatsExact
  BY DEF DeliveryInv
<1>1. PICK unsafe \in SUBSET hooks :
        /\ sending' = [h \in Hooks |-> [sending[h] EXCEPT ![number] =
                         CASE h \in hooks \ unsafe -> "posting" [] h \in unsafe -> "rejected" [] OTHER -> @]]
        /\ tally' = [tally EXCEPT !.attempted = @ + Cardinality(hooks \ unsafe),
                                  !.rejected = @ + Cardinality(unsafe)]
  BY DEF Emit
<1> DEFINE safe == hooks \ unsafe
<1>2. number \in Events /\ emitted' = number /\ UNCHANGED <<hooks, tries>>
  BY <1>0, DeliveryAssumption DEF Emit, Events, DeliveryTypeOK
<1>3. safe \in SUBSET Hooks /\ unsafe \in SUBSET Hooks /\ safe \cap unsafe = {}
  BY <1>0 DEF DeliveryTypeOK
<1>4. \A h \in Hooks : sending[h][number] = "none"
  BY <1>0, <1>2 DEF NotYet, DeliveryTypeOK
<1>5. \A h \in Hooks : \A e \in Events : e # number => sending'[h][e] = sending[h][e]
  BY <1>0, <1>1, <1>2 DEF DeliveryTypeOK
<1>6. \A h \in Hooks :
        /\ h \in safe => sending'[h][number] = "posting"
        /\ h \in unsafe => sending'[h][number] = "rejected"
        /\ h \notin safe \cup unsafe => sending'[h][number] = "none"
  BY <1>0, <1>1, <1>2, <1>3, <1>4 DEF DeliveryTypeOK
<1>7. /\ Cardinality(safe) \in Nat /\ Cardinality(unsafe) \in Nat
      /\ IsFiniteSet(safe \X {number}) /\ Cardinality(safe \X {number}) = Cardinality(safe)
      /\ IsFiniteSet(unsafe \X {number}) /\ Cardinality(unsafe \X {number}) = Cardinality(unsafe)
  <2>1. IsFiniteSet(safe) /\ IsFiniteSet(unsafe)
    BY <1>3, DeliveryAssumption, FS_Subset
  <2> QED
    BY <2>1, <1>3, OnePerHook, FS_CardinalityType
<1>8. sending' \in [Hooks -> [Events -> Sendings]]
  BY <1>0, <1>1 DEF DeliveryTypeOK, Sendings, InFlight
<1>9. /\ tally' \in [attempted: Nat, delivered: Nat, failed: Nat, rejected: Nat]
      /\ tally'.attempted = tally.attempted + Cardinality(safe)
      /\ tally'.rejected = tally.rejected + Cardinality(unsafe)
      /\ tally'.delivered = tally.delivered /\ tally'.failed = tally.failed
  <2>1. tally \in [attempted: Nat, delivered: Nat, failed: Nat, rejected: Nat]
    BY <1>0 DEF DeliveryTypeOK
  <2>2. tally' = [attempted |-> tally.attempted + Cardinality(safe), delivered |-> tally.delivered,
                  failed |-> tally.failed, rejected |-> tally.rejected + Cardinality(unsafe)]
    BY <1>1, <2>1
  <2>3. tally.attempted + Cardinality(safe) \in Nat /\ tally.rejected + Cardinality(unsafe) \in Nat
    BY <1>7, <2>1
  <2> QED
    BY <2>1, <2>2, <2>3
<1>10. NotYet'
  BY <1>0, <1>2, <1>5 DEF NotYet, DeliveryTypeOK, Events
<1>11. DeliveriesIn(InFlight \cup {"cancelled"})' =
         DeliveriesIn(InFlight \cup {"cancelled"}) \cup (safe \X {number})
  <2>1. ASSUME NEW h \in Hooks, NEW e \in Events
        PROVE  sending'[h][e] \in InFlight \cup {"cancelled"} <=>
                 sending[h][e] \in InFlight \cup {"cancelled"} \/ (h \in safe /\ e = number)
    BY <1>3, <1>4, <1>5, <1>6 DEF InFlight
  <2> QED
    BY <2>1, <1>2, <1>3 DEF DeliveriesIn
<1>12. DeliveriesIn({"rejected"})' = DeliveriesIn({"rejected"}) \cup (unsafe \X {number})
  <2>1. ASSUME NEW h \in Hooks, NEW e \in Events
        PROVE  sending'[h][e] \in {"rejected"} <=> sending[h][e] \in {"rejected"} \/ (h \in unsafe /\ e = number)
    BY <1>3, <1>4, <1>5, <1>6
  <2> QED
    BY <2>1, <1>2, <1>3 DEF DeliveriesIn
<1>13. \A s \in {"delivered", "failed"} : DeliveriesIn({s})' = DeliveriesIn({s})
  <2>1. ASSUME NEW h \in Hooks, NEW e \in Events, NEW s \in {"delivered", "failed"}
        PROVE  sending'[h][e] = s <=> sending[h][e] = s
    BY <1>3, <1>4, <1>5, <1>6
  <2> QED
    BY <2>1 DEF DeliveriesIn
<1>14. \A he \in Hooks \X {number} : /\ he \notin DeliveriesIn(InFlight \cup {"cancelled"})
                                  /\ he \notin DeliveriesIn({"rejected"})
  BY <1>4 DEF DeliveriesIn, InFlight
<1>15. Cardinality(DeliveriesIn(InFlight \cup {"cancelled"}))' =
        Cardinality(DeliveriesIn(InFlight \cup {"cancelled"})) + Cardinality(safe)
  <2>1. DeliveriesIn(InFlight \cup {"cancelled"}) \cap (safe \X {number}) = {}
    BY <1>3, <1>14
  <2>2. IsFiniteSet(DeliveriesIn(InFlight \cup {"cancelled"}))
    BY FinitelyMany
  <2>3. Cardinality(DeliveriesIn(InFlight \cup {"cancelled"}) \cup (safe \X {number})) =
          Cardinality(DeliveriesIn(InFlight \cup {"cancelled"})) + Cardinality(safe \X {number})
    <3>1. IsFiniteSet(safe \X {number})
      BY <1>7
    <3> QED
      BY <2>1, <2>2, <3>1, AddedToCount
  <2> QED
    BY <1>7, <1>11, <2>3
<1>16. Cardinality(DeliveriesIn({"rejected"}))' =
        Cardinality(DeliveriesIn({"rejected"})) + Cardinality(unsafe)
  <2>1. DeliveriesIn({"rejected"}) \cap (unsafe \X {number}) = {}
    BY <1>3, <1>14
  <2>2. IsFiniteSet(DeliveriesIn({"rejected"}))
    BY FinitelyMany
  <2>3. Cardinality(DeliveriesIn({"rejected"}) \cup (unsafe \X {number})) =
          Cardinality(DeliveriesIn({"rejected"})) + Cardinality(unsafe \X {number})
    <3>1. IsFiniteSet(unsafe \X {number})
      BY <1>7
    <3> QED
      BY <2>1, <2>2, <3>1, AddedToCount
  <2> QED
    BY <1>7, <1>12, <2>3
<1>17. Cardinality(DeliveriesIn(InFlight \cup {"cancelled"})) \in Nat
  BY FinitelyMany, FS_CardinalityType
<1>18. DeliveryStatsExact'
  <2>1. \A s \in {"delivered", "failed", "rejected"} : tally'[s] = Cardinality(DeliveriesIn({s}))'
    BY <1>0, <1>9, <1>13, <1>16 DEF DeliveryStatsExact
  <2>2. tally'.attempted = tally'.delivered + tally'.failed
                           + Cardinality(DeliveriesIn(InFlight \cup {"cancelled"}))'
    BY <1>0, <1>7, <1>9, <1>15, <1>17 DEF DeliveryStatsExact, DeliveryTypeOK
  <2> QED
    BY <2>1, <2>2 DEF DeliveryStatsExact
<1>19. DeliveryTypeOK'
  BY <1>0, <1>2, <1>8, <1>9 DEF DeliveryTypeOK
<1> QED
  BY <1>10, <1>18, <1>19 DEF DeliveryInv

\* A step that keeps every delivery among the pending ones, or where it was, keeps the counters exact.
LEMMA PendingIsCounted ==
  ASSUME DeliveryInv, UNCHANGED <<emitted, tally>>, hooks' \subseteq Hooks,
         sending' \in [Hooks -> [Events -> Sendings]],
         \A h \in Hooks, e \in Events :
           \/ sending'[h][e] = sending[h][e]
           \/ {sending[h][e], sending'[h][e]} \subseteq InFlight \cup {"cancelled"}
  PROVE  DeliveryInv'
<1>1. DeliveriesIn(InFlight \cup {"cancelled"})' = DeliveriesIn(InFlight \cup {"cancelled"})
  BY DEF DeliveriesIn
<1>2. \A s \in {"delivered", "failed", "rejected"} : DeliveriesIn({s})' = DeliveriesIn({s})
  BY DEF DeliveriesIn, InFlight
<1>3. DeliveryStatsExact'
  BY <1>1, <1>2 DEF DeliveryInv, DeliveryStatsExact
<1>4. NotYet'
  BY DEF DeliveryInv, NotYet, InFlight
<1> QED
  BY <1>3, <1>4 DEF DeliveryInv, DeliveryTypeOK

\* Every step of the emitter keeps the counters exact.
LEMMA DeliveryInvStep == DeliveryInv /\ [DeliveryNext]_deliveryVars => DeliveryInv'
<1> SUFFICES ASSUME DeliveryInv, [DeliveryNext]_deliveryVars
             PROVE  DeliveryInv'
  OBVIOUS
<1>0. DeliveryTypeOK
  BY DEF DeliveryInv
<1>1. CASE Emit
  BY <1>1, EmittingIsCounted
<1>2. ASSUME NEW h \in Hooks, AddHook(h) \/ DropHook(h)
      PROVE  DeliveryInv'
  BY <1>0, <1>2, PendingIsCounted DEF AddHook, DropHook, DeliveryTypeOK
<1>3. ASSUME NEW h \in Hooks, NEW e \in Events, Post(h, e)
      PROVE  DeliveryInv'
  <2>1. /\ sending[h][e] \in InFlight /\ UNCHANGED <<emitted, hooks>>
        /\ \/ \E result \in {"delivered", "failed"} : SettleDelivery(h, e, result)
           \/ sending' = [sending EXCEPT ![h][e] = "backoff"] /\ UNCHANGED tally
    BY <1>3 DEF Post, PostSucceeds, PostRefused, PostFails, Posted, InFlight
  <2>2. CASE sending' = [sending EXCEPT ![h][e] = "backoff"] /\ UNCHANGED tally
    <3>1. sending' \in [Hooks -> [Events -> Sendings]]
      BY <1>0, <2>2 DEF DeliveryTypeOK, Sendings, InFlight
    <3>2. \A g \in Hooks, d \in Events :
            \/ sending'[g][d] = sending[g][d]
            \/ {sending[g][d], sending'[g][d]} \subseteq InFlight \cup {"cancelled"}
      BY <1>0, <2>1, <2>2 DEF DeliveryTypeOK, InFlight
    <3> QED
      BY <1>0, <2>1, <2>2, <3>1, <3>2, PendingIsCounted DEF DeliveryTypeOK
  <2> QED
    BY <2>1, <2>2, SettlingIsCounted
<1>4. ASSUME NEW h \in Hooks, NEW e \in Events, Repost(h, e)
      PROVE  DeliveryInv'
  <2>1. sending' \in [Hooks -> [Events -> Sendings]]
    BY <1>0, <1>4 DEF Repost, DeliveryTypeOK, Sendings, InFlight
  <2>2. \A g \in Hooks, d \in Events :
          \/ sending'[g][d] = sending[g][d]
          \/ {sending[g][d], sending'[g][d]} \subseteq InFlight \cup {"cancelled"}
    BY <1>0, <1>4 DEF Repost, DeliveryTypeOK, InFlight
  <2> QED
    BY <1>0, <1>4, <2>1, <2>2, PendingIsCounted DEF Repost, DeliveryTypeOK
<1>5. ASSUME NEW e \in Events, CancelEmit(e)
      PROVE  DeliveryInv'
  <2>1. sending' \in [Hooks -> [Events -> Sendings]]
    BY <1>0, <1>5 DEF CancelEmit, DeliveryTypeOK, Sendings
  <2>2. \A g \in Hooks, d \in Events :
          \/ sending'[g][d] = sending[g][d]
          \/ {sending[g][d], sending'[g][d]} \subseteq InFlight \cup {"cancelled"}
    BY <1>0, <1>5 DEF CancelEmit, DeliveryTypeOK, InFlight
  <2> QED
    BY <1>0, <1>5, <2>1, <2>2, PendingIsCounted DEF CancelEmit, DeliveryTypeOK
<1>6. CASE UNCHANGED deliveryVars
  BY <1>0, <1>6, PendingIsCounted DEF deliveryVars, DeliveryTypeOK
<1> QED
  BY <1>1, <1>2, <1>3, <1>4, <1>5, <1>6 DEF DeliveryNext

\* Whatever is retried, refused, cancelled or subscribed while deliveries are under way,
\* the health check reads exact counters.
THEOREM DeliveryStats == DeliverySpec => []DeliveryStatsExact
<1>1. DeliveryInv => DeliveryStatsExact
  BY DEF DeliveryInv
<1> QED
  BY <1>1, DeliveryInvInit, DeliveryInvStep, PTL DEF DeliverySpec

-----------------------------------------------------------------------------
(* The report of health.                                                    *)

Subsystems == {"database", "schema", "evidence", "scheduler", "peers", "outbound", "surface"}
Findings == {"unknown", "ok", "degraded", "down", "unconfigured"} \cup EvidenceFinds \cup OutboundFinds
PassSteps == {"idle", "database", "schema", "evidence", "memory", "list", "create", "reset",
              "recheck", "report"}

FoundType == [database : Findings, schema : Findings, evidence : Findings, scheduler : Findings,
              peers : Findings, outbound : Findings, surface : Findings]
PassType == [at : PassSteps, left : Nat, found : FoundType,
             did : SUBSET {"directories", "tables", "reset"}]
ReportType == [left : Nat, told : SUBSET Claims, since : SUBSET Claims]

\* A pass has seen what it would report, and so has one that lists no missing table to create.
PassSound(q, saw, holds) ==
  /\ q.at = "idle" => saw = {}
  /\ q.found.database = "ok" => "up" \in saw
  /\ q.found.schema = "ok" \/ "tables" \in q.did => "complete" \in saw
  /\ q.at = "create" /\ ~holds => "complete" \in saw

ReportSound == lastReport # NoReport => lastReport \in ReportType /\ lastReport.told \subseteq lastReport.since

HealthInv ==
  /\ pass \in [StatusCallers -> PassType]
  /\ seen \in [StatusCallers -> SUBSET Claims]
  /\ \A c \in StatusCallers : PassSound(pass[c], seen[c], c \in listed)
  /\ ReportSound
  /\ RepairsAreReal

\* Nobody has asked yet.
LEMMA RestingSound == Resting \in PassType /\ PassSound(Resting, {}, FALSE)
<1>1. PICK r : r = [database |-> "unknown", schema |-> "unknown",
                    evidence |-> "unknown", scheduler |-> "unknown", peers |-> "unknown",
                    outbound |-> "unknown", surface |-> "unknown"]
  OBVIOUS
<1>2. r \in FoundType /\ r.database = "unknown" /\ r.schema = "unknown"
  BY <1>1 DEF FoundType, Findings
<1>3. Resting = [at |-> "idle", left |-> 0, found |-> r, did |-> {}]
  BY <1>1 DEF Resting
<1>4. Resting \in PassType
  BY <1>2, <1>3 DEF PassType, PassSteps
<1>5. PassSound(Resting, {}, FALSE)
  BY <1>2, <1>3 DEF PassSound
<1> QED
  BY <1>4, <1>5

\* At the start nobody has asked.
LEMMA HealthInit == StatusInit => HealthInv
<1> SUFFICES ASSUME StatusInit PROVE HealthInv
  OBVIOUS
<1>1. \A c \in StatusCallers : pass[c] = Resting /\ seen[c] = {} /\ c \notin listed
  BY DEF StatusInit
<1>2. pass \in [StatusCallers -> PassType] /\ seen \in [StatusCallers -> SUBSET Claims]
  BY RestingSound DEF StatusInit
<1>3. \A c \in StatusCallers : PassSound(pass[c], seen[c], c \in listed)
  BY <1>1, RestingSound DEF PassSound
<1>4. ReportSound /\ RepairsAreReal
  BY DEF StatusInit, ReportSound, RepairsAreReal
<1> QED
  BY <1>2, <1>3, <1>4, Zenon DEF HealthInv

\* What a pass has seen after a step, and that it keeps what it saw.
LEMMA PassSees ==
  ASSUME HealthInv, Witness, NEW c \in StatusCallers
  PROVE  /\ seen' \in [StatusCallers -> SUBSET Claims]
         /\ seen'[c] = IF pass'[c].at = "idle" THEN {} ELSE seen[c] \cup TrueNow'
<1>1. TrueNow' \subseteq Claims
  BY DEF TrueNow
<1> QED
  BY <1>1 DEF HealthInv, Witness

\* A pass that rests in this step stays sound: it only sees more.
LEMMA OthersStaySound ==
  ASSUME HealthInv, Witness, NEW d \in StatusCallers, NEW q \in PassType, pass'[d] = q,
         q.at = pass[d].at, q.found = pass[d].found, q.did = pass[d].did,
         d \in listed => d \in listed'
  PROVE  PassSound(pass[d], seen[d], d \in listed)'
<1>1. PassSound(pass[d], seen[d], d \in listed)
  BY DEF HealthInv
<1>2. seen'[d] = IF q.at = "idle" THEN {} ELSE seen[d] \cup TrueNow'
  BY PassSees
<1>3. q.at = "idle" => seen[d] = {}
  BY <1>1 DEF PassSound
<1>4. PassSound(q, seen'[d], d \in listed')
  BY <1>1, <1>2, <1>3 DEF PassSound
<1> QED
  BY <1>4 DEF PassSound

\* A caller's pass goes on, and what it has found by then it has seen.
LEMMA PassGoesOn ==
  ASSUME HealthInv, Witness, NEW c \in StatusCallers, NEW q \in PassType,
         pass' = [pass EXCEPT ![c] = q],
         \A d \in StatusCallers \ {c} : d \in listed => d \in listed',
         PassSound(q, IF q.at = "idle" THEN {} ELSE seen[c] \cup TrueNow', c \in listed'),
         ReportSound', RepairsAreReal'
  PROVE  HealthInv'
<1>1. \A d \in StatusCallers : pass'[d] = IF d = c THEN q ELSE pass[d]
  BY DEF HealthInv
<1>2. pass' \in [StatusCallers -> PassType]
  BY DEF HealthInv
<1>3. ASSUME NEW d \in StatusCallers
      PROVE  PassSound(pass[d], seen[d], d \in listed)'
  <2>1. CASE d = c
    <3>1. pass'[d] = q /\ seen'[d] = IF q.at = "idle" THEN {} ELSE seen[c] \cup TrueNow'
      BY <1>1, <2>1, PassSees
    <3>2. PassSound(pass'[d], seen'[d], d \in listed')
      BY <2>1, <3>1
    <3> QED
      BY <3>2 DEF PassSound
  <2>2. CASE d # c
    <3>1. pass'[d] = pass[d] /\ pass[d] \in PassType
      BY <1>1, <2>2 DEF HealthInv
    <3>2. d \in listed => d \in listed'
      BY <2>2
    <3> QED
      BY <3>1, <3>2, OthersStaySound
  <2> QED
    BY <2>1, <2>2
<1>4. seen' \in [StatusCallers -> SUBSET Claims]
  BY PassSees
<1> QED
  BY <1>2, <1>3, <1>4, Zenon DEF HealthInv

\* The steps of a pass that answer nobody.
LEMMA PassWorks ==
  ASSUME HealthInv, Witness, NEW c \in StatusCallers, NEW q \in PassType,
         pass' = [pass EXCEPT ![c] = q],
         \A d \in StatusCallers \ {c} : d \in listed => d \in listed',
         PassSound(q, IF q.at = "idle" THEN {} ELSE seen[c] \cup TrueNow', c \in listed'),
         lastReport' = lastReport, answer' = NoReport
  PROVE  HealthInv'
<1>1. ReportSound' /\ RepairsAreReal'
  BY DEF HealthInv, ReportSound, RepairsAreReal
<1> QED
  BY <1>1, PassGoesOn

\* A check that finishes in time finds what is so; one that does not leaves unknown.
LEMMA TimedKeeps ==
  ASSUME HealthInv, Witness, NEW c \in StatusCallers, RunTimed(c)
  PROVE  HealthInv'
<1>1. PICK p \in PassType : p = pass[c]
  BY DEF HealthInv
<1>2. PassSound(p, seen[c], c \in listed) /\ p.found \in FoundType
  BY <1>1 DEF HealthInv, PassType
<1>3. UNCHANGED <<surroundings, lastReport, listed>> /\ answer' = NoReport
  BY DEF RunTimed
<1>4. TrueNow' = TrueNow
  BY <1>3 DEF TrueNow, surroundings
<1>5. PICK step \in DOMAIN Next3 :
        /\ p.at = step
        /\ \/ \E s \in Finds(step) : pass' = [pass EXCEPT ![c].at = Next3[step], ![c].found[step] = s]
           \/ pass' = [pass EXCEPT ![c].at = Next3[step]]
  BY <1>1 DEF RunTimed, StepIs
<1>6. /\ step \in {"database", "schema", "evidence"}
      /\ Next3[step] \in {"schema", "evidence", "memory"}
  BY <1>5 DEF Next3
<1>7. CASE pass' = [pass EXCEPT ![c].at = Next3[step]]
  <2>1. PICK q : q = [p EXCEPT !.at = Next3[step]]
    OBVIOUS
  <2>2. /\ q \in PassType /\ q.at = Next3[step] /\ q.found = p.found /\ q.did = p.did
    BY <1>6, <2>1 DEF PassType, PassSteps
  <2>3. pass' = [pass EXCEPT ![c] = q]
    BY <1>1, <1>7, <2>1
  <2>4. PassSound(q, IF q.at = "idle" THEN {} ELSE seen[c] \cup TrueNow', c \in listed')
    BY <1>2, <1>3, <1>6, <2>2 DEF PassSound
  <2> QED
    BY <1>3, <2>2, <2>3, <2>4, PassWorks
<1>8. ASSUME NEW s \in Finds(step),
             pass' = [pass EXCEPT ![c].at = Next3[step], ![c].found[step] = s]
      PROVE  HealthInv'
  <2>1. s \in Findings
    BY <1>6 DEF Finds, CheckDatabase, CheckTables, CheckIntegrity, Findings
  <2>2. PICK r : r = [p.found EXCEPT ![step] = s]
    OBVIOUS
  <2>3. /\ r \in FoundType
        /\ r.database = IF step = "database" THEN s ELSE p.found.database
        /\ r.schema = IF step = "schema" THEN s ELSE p.found.schema
    BY <1>2, <1>6, <2>1, <2>2 DEF FoundType
  <2>4. PICK q : q = [p EXCEPT !.at = Next3[step], !.found = r]
    OBVIOUS
  <2>5. /\ q \in PassType /\ q.at = Next3[step] /\ q.found = r /\ q.did = p.did
    BY <1>6, <2>3, <2>4 DEF PassType, PassSteps
  <2>6. pass' = [pass EXCEPT ![c] = q]
    BY <1>1, <1>8, <2>2, <2>4
  <2>7. step = "database" /\ s = "ok" => "up" \in TrueNow
    BY <1>8 DEF Finds, CheckDatabase, TrueNow, Claims
  <2>8. step = "schema" /\ s = "ok" => "complete" \in TrueNow
    BY <1>8 DEF Finds, CheckTables, TrueNow, Claims
  <2>9. PassSound(q, IF q.at = "idle" THEN {} ELSE seen[c] \cup TrueNow', c \in listed')
    BY <1>2, <1>3, <1>4, <1>6, <2>3, <2>5, <2>7, <2>8 DEF PassSound
  <2> QED
    BY <1>3, <2>5, <2>6, <2>9, PassWorks
<1> QED
  BY <1>5, <1>7, <1>8

\* The checks of memory find nothing of what is claimed.
LEMMA MemoryKeeps ==
  ASSUME HealthInv, Witness, NEW c \in StatusCallers, CheckMemory(c)
  PROVE  HealthInv'
<1>1. PICK p \in PassType : p = pass[c]
  BY DEF HealthInv
<1>2. PassSound(p, seen[c], c \in listed) /\ p.found \in FoundType
  BY <1>1 DEF HealthInv, PassType
<1>3. UNCHANGED <<surroundings, lastReport, listed>> /\ answer' = NoReport
  BY DEF CheckMemory
<1>4. CASE pass' = [pass EXCEPT ![c] = Resting]
  <2>1. PassSound(Resting, {}, c \in listed') /\ Resting.at = "idle"
    BY RestingSound DEF PassSound, Resting
  <2> QED
    BY <1>3, <1>4, <2>1, RestingSound, PassWorks
<1>5. ASSUME NEW outbound \in CheckOutboundDelivery(c), NEW found, NEW did, NEW at,
             found = [p.found EXCEPT !.scheduler = CheckScheduler, !.peers = CheckPeers,
                                     !.outbound = outbound, !.surface = CheckAgentLoop(c)],
             did \in {{"directories"}, {}}, at \in {"list", "reset"},
             pass' = [pass EXCEPT ![c].found = found, ![c].left = 0, ![c].did = did, ![c].at = at]
      PROVE  HealthInv'
  <2>1. /\ CheckScheduler \in Findings /\ CheckPeers \in Findings
        /\ outbound \in Findings /\ CheckAgentLoop(c) \in Findings
    BY <1>5 DEF CheckScheduler, CheckPeers, CheckOutboundDelivery, CheckAgentLoop, Findings
  <2>2. /\ found \in FoundType
        /\ found.database = p.found.database /\ found.schema = p.found.schema
    BY <1>2, <1>5, <2>1 DEF FoundType
  <2>3. PICK q : q = [p EXCEPT !.found = found, !.left = 0, !.did = did, !.at = at]
    OBVIOUS
  <2>4. /\ q \in PassType /\ q.at = at /\ q.found = found /\ q.did = did
    BY <1>5, <2>2, <2>3 DEF PassType, PassSteps
  <2>5. pass' = [pass EXCEPT ![c] = q]
    BY <1>1, <1>5, <2>3
  <2>6. PassSound(q, IF q.at = "idle" THEN {} ELSE seen[c] \cup TrueNow', c \in listed')
    BY <1>2, <1>5, <2>2, <2>4 DEF PassSound
  <2> QED
    BY <1>3, <2>4, <2>5, <2>6, PassWorks
<1>6. \/ pass' = [pass EXCEPT ![c] = Resting]
      \/ \E outbound \in CheckOutboundDelivery(c), did \in {{"directories"}, {}}, at \in {"list", "reset"} :
           pass' = [pass EXCEPT
             ![c].found = [p.found EXCEPT !.scheduler = CheckScheduler, !.peers = CheckPeers,
                                          !.outbound = outbound, !.surface = CheckAgentLoop(c)],
             ![c].left = 0, ![c].did = did, ![c].at = at]
  BY <1>1, Zenon DEF CheckMemory
<1> QED
  BY <1>4, <1>5, <1>6

\* A create_all that lists no missing table has seen the schema complete.
LEMMA ListKeeps ==
  ASSUME HealthInv, Witness, NEW c \in StatusCallers, HealLists(c)
  PROVE  HealthInv'
<1>1. PICK p \in PassType : p = pass[c]
  BY DEF HealthInv
<1>2. PassSound(p, seen[c], c \in listed)
  BY <1>1 DEF HealthInv
<1>3. UNCHANGED <<surroundings, lastReport>> /\ answer' = NoReport
  BY DEF HealLists
<1>4. PICK at \in {"create", "reset"} :
        /\ pass' = [pass EXCEPT ![c].at = at]
        /\ at = "create" => ListTables(c)
        /\ at = "reset" => listed' = listed
  BY DEF HealLists
<1>5. PICK q : q = [p EXCEPT !.at = at]
  OBVIOUS
<1>6. /\ q \in PassType /\ q.at = at /\ q.found = p.found /\ q.did = p.did
  BY <1>5 DEF PassType, PassSteps
<1>7. pass' = [pass EXCEPT ![c] = q]
  BY <1>1, <1>4, <1>5
<1>8. \A d \in StatusCallers \ {c} : d \in listed => d \in listed'
  BY <1>4 DEF ListTables
<1>9. at = "create" /\ c \notin listed' => "complete" \in TrueNow'
  BY <1>3, <1>4 DEF ListTables, TrueNow, Claims, surroundings
<1>10. PassSound(q, IF q.at = "idle" THEN {} ELSE seen[c] \cup TrueNow', c \in listed')
  BY <1>2, <1>6, <1>9 DEF PassSound
<1> QED
  BY <1>3, <1>6, <1>7, <1>8, <1>10, PassWorks

\* A create_all that succeeds made the schema complete, or had seen it so.
LEMMA CreateKeeps ==
  ASSUME HealthInv, Witness, NEW c \in StatusCallers, HealCreates(c)
  PROVE  HealthInv'
<1>1. PICK p \in PassType : p = pass[c]
  BY DEF HealthInv
<1>2. PassSound(p, seen[c], c \in listed) /\ p.at = "create"
  BY <1>1 DEF HealthInv, HealCreates, StepIs
<1>3. lastReport' = lastReport /\ answer' = NoReport /\ listed' = listed \ {c}
  BY DEF HealCreates
<1>4. PICK did : /\ did = (IF CreateSucceeds(c) THEN p.did \cup {"tables"} ELSE p.did)
  OBVIOUS
<1>5. PICK q : q = [p EXCEPT !.at = "reset", !.did = did]
  OBVIOUS
<1>6. did \in SUBSET {"directories", "tables", "reset"}
  BY <1>4 DEF PassType
<1>7. /\ q \in PassType /\ q.at = "reset" /\ q.found = p.found /\ q.did = did
  BY <1>5, <1>6 DEF PassType, PassSteps
<1>8. pass' = [pass EXCEPT ![c] = q]
  BY <1>1, <1>4, <1>5 DEF HealCreates
<1>9. CreateSucceeds(c) => "complete" \in seen[c] \cup TrueNow'
  <2>1. CASE c \notin listed
    BY <1>2, <2>1 DEF PassSound
  <2>2. CASE c \in listed
    BY <2>2 DEF HealCreates, TrueNow, Claims
  <2> QED
    BY <2>1, <2>2
<1>10. PassSound(q, IF q.at = "idle" THEN {} ELSE seen[c] \cup TrueNow', c \in listed')
  BY <1>2, <1>4, <1>7, <1>9 DEF PassSound
<1> QED
  BY <1>3, <1>7, <1>8, <1>10, PassWorks

\* A reset of the circuits claims nothing of the database.
LEMMA ResetKeeps ==
  ASSUME HealthInv, Witness, NEW c \in StatusCallers, ResetPeers(c)
  PROVE  HealthInv'
<1>1. PICK p \in PassType : p = pass[c]
  BY DEF HealthInv
<1>2. PassSound(p, seen[c], c \in listed)
  BY <1>1 DEF HealthInv
<1>3. lastReport' = lastReport /\ answer' = NoReport /\ listed' = listed
  BY DEF ResetPeers
<1>4. PICK did : did = (IF storageCircuit = "cooled" THEN p.did \cup {"reset"} ELSE p.did)
  OBVIOUS
<1>5. PICK q : q = [p EXCEPT !.did = did, !.at = "recheck"]
  OBVIOUS
<1>6. did \in SUBSET {"directories", "tables", "reset"} /\ ("tables" \in did => "tables" \in p.did)
  BY <1>4 DEF PassType
<1>7. /\ q \in PassType /\ q.at = "recheck" /\ q.found = p.found /\ q.did = did
  BY <1>5, <1>6 DEF PassType, PassSteps
<1>8. pass' = [pass EXCEPT ![c] = q]
  BY <1>1, <1>4, <1>5 DEF ResetPeers
<1>9. PassSound(q, IF q.at = "idle" THEN {} ELSE seen[c] \cup TrueNow', c \in listed')
  BY <1>2, <1>6, <1>7 DEF PassSound
<1> QED
  BY <1>3, <1>7, <1>8, <1>9, PassWorks

\* What was repaired is measured again.
LEMMA RecheckKeeps ==
  ASSUME HealthInv, Witness, NEW c \in StatusCallers, Recheck(c)
  PROVE  HealthInv'
<1>1. PICK p \in PassType : p = pass[c]
  BY DEF HealthInv
<1>2. PassSound(p, seen[c], c \in listed) /\ p.found \in FoundType
  BY <1>1 DEF HealthInv, PassType
<1>3. UNCHANGED <<surroundings, lastReport, listed>> /\ answer' = NoReport
  BY DEF Recheck
<1>4. PICK d \in CheckDatabase, s \in CheckTables :
        pass' = [pass EXCEPT
            ![c].found.database = IF "directories" \in pass[c].did THEN d ELSE @,
            ![c].found.schema   = IF "tables" \in pass[c].did THEN s ELSE @,
            ![c].at = "report"]
  BY DEF Recheck
<1>5. PICK r : r = [p.found EXCEPT
            !.database = IF "directories" \in p.did THEN d ELSE @,
            !.schema = IF "tables" \in p.did THEN s ELSE @]
  OBVIOUS
<1>6. d \in Findings /\ s \in Findings
  BY DEF CheckDatabase, CheckTables, Findings
<1>7. /\ r \in FoundType
      /\ r.database = IF "directories" \in p.did THEN d ELSE p.found.database
      /\ r.schema = IF "tables" \in p.did THEN s ELSE p.found.schema
  BY <1>2, <1>5, <1>6 DEF FoundType
<1>8. PICK q : q = [p EXCEPT !.found = r, !.at = "report"]
  OBVIOUS
<1>9. /\ q \in PassType /\ q.at = "report" /\ q.found = r /\ q.did = p.did
  BY <1>7, <1>8 DEF PassType, PassSteps
<1>10. pass' = [pass EXCEPT ![c] = q]
  BY <1>1, <1>4, <1>5, <1>8
<1>11. TrueNow' = TrueNow
  BY <1>3 DEF TrueNow, surroundings
<1>12. d = "ok" => "up" \in TrueNow
  BY DEF CheckDatabase, TrueNow, Claims
<1>13. s = "ok" => "complete" \in TrueNow
  BY DEF CheckTables, TrueNow, Claims
<1>14. PassSound(q, IF q.at = "idle" THEN {} ELSE seen[c] \cup TrueNow', c \in listed')
  BY <1>2, <1>7, <1>9, <1>11, <1>12, <1>13 DEF PassSound
<1> QED
  BY <1>3, <1>9, <1>10, <1>14, PassWorks

\* The answer tells what the pass has seen.
LEMMA AnswerKeeps ==
  ASSUME HealthInv, Witness, NEW c \in StatusCallers, AnswerPoll(c)
  PROVE  HealthInv'
<1>1. PassSound(pass[c], seen[c], c \in listed) /\ seen[c] \in SUBSET Claims
  BY DEF HealthInv
<1>2. Reported(c) \subseteq seen[c] /\ Reported(c) \subseteq Claims
  BY <1>1 DEF Reported, PassSound, Claims
<1>3. PICK told, since : told = Reported(c) /\ since = seen[c]
  OBVIOUS
<1>4. lastReport' = [left |-> CacheTime, told |-> told, since |-> since]
  BY <1>3 DEF AnswerPoll
<1>5. ReportSound'
  BY <1>1, <1>2, <1>3, <1>4, BudgetsArePositive DEF ReportSound, ReportType
<1>6. answer' = [to |-> c, told |-> told, since |-> since]
  BY <1>3 DEF AnswerPoll
<1>7. RepairsAreReal'
  BY <1>2, <1>3, <1>6 DEF RepairsAreReal
<1>8. pass' = [pass EXCEPT ![c] = Resting] /\ listed' = listed
  BY DEF AnswerPoll
<1>9. PassSound(Resting, {}, c \in listed') /\ Resting.at = "idle"
  BY RestingSound DEF PassSound, Resting
<1> QED
  BY <1>5, <1>7, <1>8, <1>9, RestingSound, PassGoesOn

\* Only a poller is answered from the cache.
LEMMA CallKeeps ==
  ASSUME HealthInv, Witness, NEW c \in StatusCallers, Call(c)
  PROVE  HealthInv'
<1>1. /\ UNCHANGED <<surroundings, lastReport, listed>>
      /\ pass[c].at = "idle"
  BY DEF Call, StepIs
<1>2. PICK p \in PassType : p = pass[c]
  BY DEF HealthInv
<1>3. PassSound(p, seen[c], c \in listed)
  BY <1>2 DEF HealthInv
<1>4. CASE MayAnswerFromCache(c)
  <2>1. /\ lastReport # NoReport /\ ~Forced(c) /\ pass' = pass
        /\ answer' = [to |-> c, told |-> lastReport.told,
                      since |-> IF Forced(c) THEN TrueNow ELSE lastReport.since]
    BY <1>4 DEF MayAnswerFromCache, Call
  <2>2. answer' = [to |-> c, told |-> lastReport.told, since |-> lastReport.since]
    BY <2>1
  <2>3. RepairsAreReal'
    BY <2>1, <2>2 DEF RepairsAreReal, HealthInv, ReportSound
  <2>4. pass' = [pass EXCEPT ![c] = p]
    BY <1>2, <2>1 DEF HealthInv
  <2>5. PassSound(p, IF p.at = "idle" THEN {} ELSE seen[c] \cup TrueNow', c \in listed')
    BY <1>1, <1>2, <1>3 DEF PassSound
  <2>6. ReportSound'
    BY <1>1 DEF HealthInv, ReportSound
  <2> QED
    BY <1>1, <2>3, <2>4, <2>5, <2>6, PassGoesOn
<1>5. CASE ~MayAnswerFromCache(c)
  <2>1. /\ pass' = [pass EXCEPT ![c] = [Resting EXCEPT !.at = "database", !.left = Budget]]
        /\ answer' = NoReport
    BY <1>5 DEF Call
  <2>2. PICK q : q = [Resting EXCEPT !.at = "database", !.left = Budget]
    OBVIOUS
  <2>3. /\ q \in PassType /\ q.at = "database" /\ q.found = Resting.found /\ q.did = Resting.did
    BY <2>2, RestingSound, BudgetsArePositive DEF PassType, PassSteps
  <2>4. PassSound(q, IF q.at = "idle" THEN {} ELSE seen[c] \cup TrueNow', c \in listed')
    BY <2>3, RestingSound DEF PassSound
  <2> QED
    BY <1>1, <2>1, <2>2, <2>3, <2>4, PassWorks
<1> QED
  BY <1>4, <1>5

\* A step of the surroundings, of the repair task or of the clock: no pass moves.
LEMMA NobodyMoves ==
  ASSUME HealthInv, Witness, answer' = NoReport, ReportSound',
         \A d \in StatusCallers : d \in listed => d \in listed',
         \A d \in StatusCallers : \E q \in PassType :
           pass'[d] = q /\ q.at = pass[d].at /\ q.found = pass[d].found /\ q.did = pass[d].did,
         pass' \in [StatusCallers -> PassType]
  PROVE  HealthInv'
<1>1. \A d \in StatusCallers : PassSound(pass[d], seen[d], d \in listed)'
  BY OthersStaySound
<1>2. RepairsAreReal'
  BY DEF RepairsAreReal
<1>3. seen' \in [StatusCallers -> SUBSET Claims]
  <2>1. TrueNow' \subseteq Claims
    BY DEF TrueNow
  <2> QED
    BY <2>1 DEF Witness, HealthInv
<1> QED
  BY <1>1, <1>2, <1>3, Zenon DEF HealthInv

\* A tick only shortens what is left.
LEMMA TickKeeps ==
  ASSUME HealthInv, Witness, StatusTick
  PROVE  HealthInv'
<1>1. answer' = NoReport /\ listed' = listed
  BY DEF StatusTick
<1>2. pass' = [c \in StatusCallers |-> [pass[c] EXCEPT !.left = IF @ > 0 THEN @ - 1 ELSE 0]]
  BY DEF StatusTick
<1>3. ASSUME NEW d \in StatusCallers
      PROVE  /\ pass'[d] \in PassType
             /\ pass'[d].at = pass[d].at /\ pass'[d].found = pass[d].found /\ pass'[d].did = pass[d].did
  <2>1. PICK p \in PassType : p = pass[d]
    BY DEF HealthInv
  <2>2. PICK n \in Nat : n = IF p.left > 0 THEN p.left - 1 ELSE 0
    BY DEF PassType
  <2>3. pass'[d] = [p EXCEPT !.left = n]
    BY <1>2, <2>1, <2>2
  <2> QED
    BY <2>1, <2>3 DEF PassType
<1>4. pass' \in [StatusCallers -> PassType]
  BY <1>2, <1>3
<1>5. ReportSound'
  <2>1. CASE lastReport = NoReport
    BY <2>1 DEF StatusTick, ReportSound
  <2>2. CASE lastReport # NoReport
    <3>1. PICK l \in ReportType : l = lastReport /\ l.told \subseteq l.since
      BY <2>2 DEF HealthInv, ReportSound
    <3>2. PICK n \in Nat : n = IF l.left > 0 THEN l.left - 1 ELSE 0
      BY DEF ReportType
    <3>3. lastReport' = [l EXCEPT !.left = n]
      BY <2>2, <3>1, <3>2 DEF StatusTick
    <3> QED
      BY <3>1, <3>3 DEF ReportSound, ReportType
  <2> QED
    BY <2>1, <2>2
<1> QED
  BY <1>1, <1>3, <1>4, <1>5, NobodyMoves

\* The repair task and the surroundings touch no caller's list.
LEMMA SurroundingsKeep ==
  ASSUME HealthInv, Witness, ScheduleSchemaRepair \/ EnsureSchema \/ Fault
  PROVE  HealthInv'
<1>1. answer' = NoReport /\ pass' = pass /\ lastReport' = lastReport
  BY DEF ScheduleSchemaRepair, EnsureSchema, Fault
<1>2. \A d \in StatusCallers : d \in listed => d \in listed'
  BY RepairIsNoCaller DEF ScheduleSchemaRepair, EnsureSchema, Fault, ListTables
<1>3. ReportSound'
  BY <1>1 DEF HealthInv, ReportSound
<1>4. pass' \in [StatusCallers -> PassType]
  BY <1>1 DEF HealthInv
<1>5. \A d \in StatusCallers : \E q \in PassType :
         pass'[d] = q /\ q.at = pass[d].at /\ q.found = pass[d].found /\ q.did = pass[d].did
  BY <1>1 DEF HealthInv
<1> QED
  BY <1>1, <1>2, <1>3, <1>4, <1>5, NobodyMoves

\* Every step keeps the invariant.
LEMMA HealthStep == HealthInv /\ [StatusNext]_statusVars => HealthInv'
<1> SUFFICES ASSUME HealthInv, [StatusNext]_statusVars
             PROVE  HealthInv'
  OBVIOUS
<1>1. CASE StatusNext
  <2>1. Witness
    BY <1>1 DEF StatusNext
  <2>2. CASE ScheduleSchemaRepair \/ EnsureSchema \/ StatusTick \/ Fault
    BY <2>1, <2>2, SurroundingsKeep, TickKeeps
  <2>3. CASE \E c \in StatusCallers : Call(c) \/ PassStep(c)
    <3>1. PICK c \in StatusCallers : Call(c) \/ PassStep(c)
      BY <2>3
    <3>2. CASE Call(c)
      BY <2>1, <3>2, CallKeeps
    <3>3. CASE RunTimed(c) \/ CheckMemory(c) \/ HealLists(c)
      BY <2>1, <3>3, TimedKeeps, MemoryKeeps, ListKeeps
    <3>4. CASE HealCreates(c) \/ ResetPeers(c) \/ Recheck(c) \/ AnswerPoll(c)
      BY <2>1, <3>4, CreateKeeps, ResetKeeps, RecheckKeeps, AnswerKeeps
    <3> QED
      BY <3>1, <3>2, <3>3, <3>4 DEF PassStep
  <2> QED
    BY <1>1, <2>2, <2>3 DEF StatusNext
<1>2. CASE UNCHANGED statusVars
  <2>1. /\ pass' = pass /\ seen' = seen /\ listed' = listed
        /\ lastReport' = lastReport /\ answer' = answer
    BY <1>2 DEF statusVars, statusSteps
  <2>2. \A c \in StatusCallers : PassSound(pass[c], seen[c], c \in listed)'
    BY <2>1 DEF HealthInv, PassSound
  <2>3. ReportSound' /\ RepairsAreReal'
    BY <2>1 DEF HealthInv, ReportSound, RepairsAreReal
  <2>4. pass' \in [StatusCallers -> PassType] /\ seen' \in [StatusCallers -> SUBSET Claims]
    BY <2>1 DEF HealthInv
  <2> QED
    BY <2>2, <2>3, <2>4, Zenon DEF HealthInv
<1> QED
  BY <1>1, <1>2

\* Whatever passes overlap and whatever breaks under them, a report tells of a repair or of
\* health only what was so after the asker's call, or after the pass that was cached began.
THEOREM RepairsReal == StatusSpec => []RepairsAreReal
<1>1. HealthInv => RepairsAreReal
  BY DEF HealthInv
<1> QED
  BY <1>1, HealthInit, HealthStep, PTL DEF StatusSpec

-----------------------------------------------------------------------------
(* The budget of guarded calls.                                             *)

\* An amount of the budget per client: what a call may hold or have spent.
Amounts == [AgentClients -> 0 .. Estimate + 1]

\* The constants of the guarded calls.
LEMMA EstimateIsNatural == Estimate \in Nat \ {0} /\ BudgetLimit \in Nat /\ IsFiniteSet(AgentClients)
BY GuardAssumption

\* The units of all clients can be counted.
LEMMA UnitsFinite ==
  ASSUME NEW f
  PROVE  IsFiniteSet(Units(f)) /\ Cardinality(Units(f)) \in Nat
<1>1. IsFiniteSet(1 .. Estimate + 1)
  BY EstimateIsNatural, FS_Interval
<1>2. IsFiniteSet(AgentClients \X (1 .. Estimate + 1))
  BY <1>1, EstimateIsNatural, FS_Product
<1>3. Units(f) \in SUBSET (AgentClients \X (1 .. Estimate + 1))
  BY DEF Units
<1> QED
  BY <1>2, <1>3, FS_Subset, FS_CardinalityType

\* A client holds as many units as its amount says.
LEMMA UnitsOfOne ==
  ASSUME NEW q \in AgentClients, NEW n \in 0 .. Estimate + 1
  PROVE  IsFiniteSet({q} \X (1 .. n)) /\ Cardinality({q} \X (1 .. n)) = n
<1>1. IsFiniteSet(1 .. n) /\ Cardinality(1 .. n) = n
  <2>1. n \in Int /\ 1 \in Int /\ n \in Nat
    BY EstimateIsNatural
  <2>2. IsFiniteSet(1 .. n) /\ Cardinality(1 .. n) = IF 1 > n THEN 0 ELSE n - 1 + 1
    BY <2>1, FS_Interval
  <2> QED
    BY <2>1, <2>2
<1>2. IsFiniteSet({q}) /\ Cardinality({q}) = 1
  BY FS_Singleton
<1>3. IsFiniteSet({q} \X (1 .. n)) /\ Cardinality({q} \X (1 .. n)) = Cardinality({q}) * Cardinality(1 .. n)
  BY <1>1, <1>2, FS_Product
<1> QED
  BY <1>1, <1>2, <1>3

\* The sum over the clients is one client and the others.
LEMMA UnitsOfTheOthers ==
  ASSUME NEW f \in Amounts, NEW q \in AgentClients
  PROVE  Cardinality(Units(f)) = Cardinality({u \in Units(f) : u[1] # q}) + f[q]
<1> DEFINE rest == {u \in Units(f) : u[1] # q}
           own == {q} \X (1 .. f[q])
<1>1. f[q] \in 0 .. Estimate + 1
  BY DEF Amounts
<1>2. IsFiniteSet(own) /\ Cardinality(own) = f[q]
  BY <1>1, UnitsOfOne
<1>3. IsFiniteSet(rest)
  BY UnitsFinite, FS_Subset
<1>4. Units(f) = rest \cup own
  BY <1>1, EstimateIsNatural DEF Units
<1>5. rest \cap own = {}
  OBVIOUS
<1>6. Cardinality(rest \cup own) = Cardinality(rest) + Cardinality(own) - Cardinality(rest \cap own)
  BY <1>2, <1>3, FS_Union
<1>7. Cardinality({}) = 0 /\ Cardinality(rest) \in Nat
  BY <1>3, FS_EmptySet, FS_CardinalityType
<1>8. f[q] \in Nat
  BY <1>1, EstimateIsNatural
<1> HIDE DEF rest, own
<1>9. Cardinality(Units(f)) = Cardinality(rest) + f[q]
  <2>1. Cardinality(rest \cap own) = 0
    BY <1>5, <1>7
  <2>2. Cardinality(Units(f)) = Cardinality(rest \cup own)
    BY <1>4
  <2> QED
    BY <1>2, <1>6, <1>7, <1>8, <2>1, <2>2
<1> QED
  BY <1>9 DEF rest

\* When one amount changes, the sum changes by as much.
LEMMA UnitsChanged ==
  ASSUME NEW f \in Amounts, NEW g \in Amounts, NEW q \in AgentClients,
         \A p \in AgentClients \ {q} : g[p] = f[p]
  PROVE  Cardinality(Units(g)) = Cardinality(Units(f)) - f[q] + g[q]
<1>1. f[q] \in 0 .. Estimate + 1 /\ g[q] \in 0 .. Estimate + 1
  BY DEF Amounts
<1>2. {u \in Units(g) : u[1] # q} = {u \in Units(f) : u[1] # q}
  BY DEF Units
<1>3. Cardinality(Units(g)) = Cardinality({u \in Units(f) : u[1] # q}) + g[q]
  BY <1>2, UnitsOfTheOthers
<1>4. Cardinality(Units(f)) = Cardinality({u \in Units(f) : u[1] # q}) + f[q]
  BY UnitsOfTheOthers
<1>5. Cardinality({u \in Units(f) : u[1] # q}) \in Nat
  BY UnitsFinite, FS_Subset, FS_CardinalityType
<1>6. f[q] \in Nat /\ g[q] \in Nat
  BY <1>1, EstimateIsNatural
<1> QED
  BY <1>3, <1>4, <1>5, <1>6

\* Nothing held, nothing summed.
LEMMA NoUnits ==
  ASSUME NEW f \in Amounts, \A q \in AgentClients : f[q] = 0
  PROVE  Cardinality(Units(f)) = 0
<1>1. Units(f) = {}
  BY DEF Units
<1> QED
  BY <1>1, FS_EmptySet

\* The phases between the reservation and its settlement.
UnderWay == {"iterate", "route", "call", "settle"}
\* The types of a call.
CallRecords ==
  [phase : {"begin", "reserve", "commit"} \cup UnderWay \cup Ended, key : CallKeys, payload : Payloads,
   iteration : Nat, at : Nat, holds : {0, Estimate}, used : 0 .. Estimate + 1,
   machine : {"created", "running", "cancelled", "failed", "succeeded"}]

\* What the calls hold, and what they have spent.
Held == [q \in AgentClients |-> guard[q].holds]
Used == [q \in AgentClients |-> guard[q].used]

\* The type invariant.
GuardTypeOK ==
  /\ guard \in [AgentClients -> CallRecords]
  /\ ledger \in [reserved : Nat, spent : Nat]

\* The inductive invariant: the ledger is the sum over the calls, each of which holds its estimate
\* exactly while it is under way.
GuardInv ==
  /\ GuardTypeOK
  /\ \A q \in AgentClients :
       /\ guard[q].holds = IF guard[q].phase \in UnderWay THEN Estimate ELSE 0
       /\ guard[q].phase \in {"begin", "reserve"} \cup UnderWay => guard[q].used = 0
       /\ guard[q].phase = "settle" => guard[q].machine \in {"cancelled", "failed", "succeeded"}
  /\ ledger.reserved = Cardinality(Units(Held)) /\ ledger.spent = Cardinality(Units(Used))
  /\ (\A q \in AgentClients : guard[q].used <= Estimate) => ledger.reserved + ledger.spent <= BudgetLimit

\* Before the first call nothing is held or spent.
LEMMA GuardInitial == GuardInit => GuardInv
<1> SUFFICES ASSUME GuardInit PROVE GuardInv
  OBVIOUS
<1>1. PICK key \in [AgentClients -> CallKeys], payload \in [AgentClients -> Payloads] :
        guard = [q \in AgentClients |-> [phase |-> "begin", key |-> key[q], payload |-> payload[q],
                 iteration |-> 0, at |-> 1, holds |-> 0, used |-> 0, machine |-> "created"]]
  BY DEF GuardInit
<1>2. guard \in [AgentClients -> CallRecords]
  BY <1>1, EstimateIsNatural DEF CallRecords
<1>3. ledger = [reserved |-> 0, spent |-> 0]
  BY DEF GuardInit
<1>4. Held \in Amounts /\ Used \in Amounts /\ \A q \in AgentClients : Held[q] = 0 /\ Used[q] = 0
  BY <1>1, EstimateIsNatural DEF Held, Used, Amounts
<1>5. Cardinality(Units(Held)) = 0 /\ Cardinality(Units(Used)) = 0
  BY <1>4, NoUnits
<1>6. \A q \in AgentClients : guard[q].phase = "begin" /\ guard[q].holds = 0 /\ guard[q].used = 0
  BY <1>1
<1> QED
  BY <1>2, <1>3, <1>5, <1>6, EstimateIsNatural DEF GuardInv, GuardTypeOK, UnderWay

\* A step that moves no budget
LEMMA SameBudget ==
  ASSUME GuardInv, NEW q \in AgentClients, NEW new \in CallRecords, guard' = [guard EXCEPT ![q] = new],
         ledger' = ledger, new.holds = guard[q].holds, new.used = guard[q].used,
         new.phase \in UnderWay <=> guard[q].phase \in UnderWay,
         new.phase \in {"begin", "reserve"} => guard[q].phase \in {"begin", "reserve"},
         new.phase = "settle" => new.machine \in {"cancelled", "failed", "succeeded"}
  PROVE  GuardInv'
<1>1. guard' \in [AgentClients -> CallRecords]
  BY DEF GuardInv, GuardTypeOK
<1>2. \A p \in AgentClients : guard'[p] = IF p = q THEN new ELSE guard[p]
  BY DEF GuardInv, GuardTypeOK
<1>3. Held' = Held /\ Used' = Used
  BY <1>2 DEF Held, Used
<1>4. \A p \in AgentClients :
       /\ guard'[p].holds = IF guard'[p].phase \in UnderWay THEN Estimate ELSE 0
       /\ guard'[p].phase \in {"begin", "reserve"} \cup UnderWay => guard'[p].used = 0
       /\ guard'[p].phase = "settle" => guard'[p].machine \in {"cancelled", "failed", "succeeded"}
  BY <1>2 DEF GuardInv
<1>5. (\A p \in AgentClients : guard'[p].used <= Estimate) => \A p \in AgentClients : guard[p].used <= Estimate
  BY <1>2
<1> QED
  BY <1>1, <1>3, <1>4, <1>5 DEF GuardInv, GuardTypeOK

\* The holdings are amounts.
LEMMA AmountsOfClients ==
  ASSUME GuardTypeOK
  PROVE  Held \in Amounts /\ Used \in Amounts
BY EstimateIsNatural DEF GuardTypeOK, CallRecords, Held, Used, Amounts

\* Every step of one guarded call keeps the invariant.
LEMMA GuardStepKeeps == ASSUME GuardInv, NEW q \in AgentClients, GuardStep(q) PROVE GuardInv'
<1> USE EstimateIsNatural
<1>0. guard \in [AgentClients -> CallRecords] /\ ledger \in [reserved : Nat, spent : Nat] /\ guard[q] \in CallRecords
  BY DEF GuardInv, GuardTypeOK
<1>1. CASE Begin(q)
  <2> DEFINE p == CASE records[guard[q].key] = NoPayload -> "reserve"
                    [] records[guard[q].key] = guard[q].payload -> "replayed"
                    [] OTHER -> "conflict"
  <2>0. p \in {"reserve", "replayed", "conflict"}
    OBVIOUS
  <2>1. guard' = [guard EXCEPT ![q].phase = p]
    BY <1>1 DEF Begin, Go
  <2> HIDE DEF p
  <2> DEFINE new == [guard[q] EXCEPT !.phase = p]
  <2>2. new \in CallRecords /\ new.phase = p /\ new.holds = guard[q].holds /\ new.used = guard[q].used
    BY <1>0, <2>0 DEF CallRecords, Ended
  <2>3. guard' = [guard EXCEPT ![q] = new] /\ ledger' = ledger /\ guard[q].phase = "begin"
    BY <1>1, <2>1 DEF Begin
  <2> HIDE DEF new
  <2> QED
    BY <2>0, <2>2, <2>3, SameBudget DEF UnderWay
<1>2. CASE Reserve(q) /\ BudgetLimit - ledger.reserved - ledger.spent < Estimate
  <2> DEFINE new == [guard[q] EXCEPT !.phase = "denied"]
  <2>2. new \in CallRecords /\ new.phase = "denied" /\ new.holds = guard[q].holds /\ new.used = guard[q].used
    BY <1>0 DEF CallRecords, Ended
  <2>3. guard' = [guard EXCEPT ![q] = new] /\ ledger' = ledger /\ guard[q].phase = "reserve"
    BY <1>2 DEF Reserve, Go
  <2> HIDE DEF new
  <2> QED
    BY <2>2, <2>3, SameBudget DEF UnderWay
<1>3. CASE Reserve(q) /\ ~(BudgetLimit - ledger.reserved - ledger.spent < Estimate)
  <2> DEFINE new == [guard[q] EXCEPT !.phase = "iterate", !.holds = Estimate]
  <2>1. new \in CallRecords /\ new.phase = "iterate" /\ new.holds = Estimate /\ new.used = guard[q].used
    BY <1>0 DEF CallRecords, UnderWay
  <2>2. guard' = [guard EXCEPT ![q] = new] /\ guard[q].phase = "reserve"
    BY <1>3 DEF Reserve
  <2>3. ledger' = [ledger EXCEPT !.reserved = @ + Estimate]
    BY <1>3 DEF Reserve
  <2>4. ledger' \in [reserved : Nat, spent : Nat] /\ ledger'.reserved = ledger.reserved + Estimate /\ ledger'.spent = ledger.spent
    BY <1>0, <2>3
  <2> HIDE DEF new
  <2>5. guard[q].holds = 0 /\ guard[q].used = 0
    BY <2>2 DEF GuardInv, UnderWay
  <2>6. \A p \in AgentClients : guard'[p] = IF p = q THEN new ELSE guard[p]
    BY <1>0, <2>2
  <2>7. /\ Held' \in Amounts /\ Held'[q] = Estimate /\ Used' = Used
        /\ \A p \in AgentClients \ {q} : Held'[p] = Held[p]
    BY <1>0, <2>1, <2>6 DEF Held, Used, Amounts, CallRecords
  <2>8. Cardinality(Units(Held')) = Cardinality(Units(Held)) + Estimate
    <3>1. Held \in Amounts /\ Held[q] = 0
      BY <2>5, AmountsOfClients DEF GuardInv, Held
    <3>2. Cardinality(Units(Held')) = Cardinality(Units(Held)) - Held[q] + Held'[q]
      BY <2>7, <3>1, UnitsChanged
    <3> QED
      BY <2>7, <3>1, <3>2, UnitsFinite
  <2>9. guard' \in [AgentClients -> CallRecords]
    BY <1>0, <2>1, <2>2
  <2>10. ledger'.reserved + ledger'.spent <= BudgetLimit
    BY <1>0, <1>3, <2>4
  <2>11. \A p \in AgentClients :
       /\ guard'[p].holds = IF guard'[p].phase \in UnderWay THEN Estimate ELSE 0
       /\ guard'[p].phase \in {"begin", "reserve"} \cup UnderWay => guard'[p].used = 0
       /\ guard'[p].phase = "settle" => guard'[p].machine \in {"cancelled", "failed", "succeeded"}
    BY <2>1, <2>5, <2>6 DEF GuardInv, UnderWay
  <2>12. ledger'.reserved = Cardinality(Units(Held')) /\ ledger'.spent = Cardinality(Units(Used'))
    BY <2>4, <2>7, <2>8 DEF GuardInv
  <2> QED
    BY <2>4, <2>9, <2>10, <2>11, <2>12 DEF GuardInv, GuardTypeOK
<1>4. ASSUME NEW new \in CallRecords, guard' = [guard EXCEPT ![q] = new], ledger' = ledger,
             new.holds = guard[q].holds, new.used = guard[q].used,
             new.phase \in UnderWay, guard[q].phase \in UnderWay,
             new.phase = "settle" => new.machine \in {"cancelled", "failed", "succeeded"}
      PROVE  GuardInv'
  BY <1>4, SameBudget DEF UnderWay
<1>5. CASE Iterate(q)
  <2>1. guard[q].phase = "iterate" /\ ledger' = ledger
    BY <1>5 DEF Iterate
  <2>2. CASE \E s \in {"cancelled", "failed"} : Finish(q, s)
    <3>1. PICK s \in {"cancelled", "failed"} : Finish(q, s)
      BY <2>2
    <3> DEFINE new == [guard[q] EXCEPT !.phase = "settle", !.machine = s]
    <3>2. new \in CallRecords /\ new.phase = "settle" /\ new.machine \in {"cancelled", "failed", "succeeded"} /\ new.holds = guard[q].holds /\ new.used = guard[q].used
      BY <1>0 DEF CallRecords, UnderWay
    <3>3. guard' = [guard EXCEPT ![q] = new]
      BY <3>1 DEF Finish
    <3> HIDE DEF new
    <3> QED
      BY <1>4, <2>1, <3>2, <3>3 DEF UnderWay
  <2>3. CASE guard' = [guard EXCEPT ![q].phase = "route", ![q].iteration = @ + 1, ![q].at = 1, ![q].machine = "running"]
    <3> DEFINE new == [guard[q] EXCEPT !.phase = "route", !.iteration = @ + 1, !.at = 1, !.machine = "running"]
    <3>1. guard[q].iteration + 1 \in Nat
      BY <1>0 DEF CallRecords
    <3>2. new \in CallRecords /\ new.phase = "route" /\ new.holds = guard[q].holds /\ new.used = guard[q].used
      BY <1>0, <3>1 DEF CallRecords, UnderWay
    <3>3. guard' = [guard EXCEPT ![q] = new]
      BY <2>3
    <3> HIDE DEF new
    <3> QED
      BY <1>4, <2>1, <3>2, <3>3 DEF UnderWay
  <2> QED
    BY <1>5, <2>2, <2>3 DEF Iterate
<1>6. CASE BeforeCall(q)
  <2>1. guard[q].phase = "route" /\ ledger' = ledger
    BY <1>6 DEF BeforeCall
  <2>2. CASE Finish(q, "failed")
    <3> DEFINE new == [guard[q] EXCEPT !.phase = "settle", !.machine = "failed"]
    <3>2. new \in CallRecords /\ new.phase = "settle" /\ new.machine \in {"cancelled", "failed", "succeeded"} /\ new.holds = guard[q].holds /\ new.used = guard[q].used
      BY <1>0 DEF CallRecords, UnderWay
    <3>3. guard' = [guard EXCEPT ![q] = new]
      BY <2>2 DEF Finish
    <3> HIDE DEF new
    <3> QED
      BY <1>4, <2>1, <3>2, <3>3 DEF UnderWay
  <2>3. CASE Go(q, "call")
    <3> DEFINE new == [guard[q] EXCEPT !.phase = "call"]
    <3>2. new \in CallRecords /\ new.phase = "call" /\ new.holds = guard[q].holds /\ new.used = guard[q].used
      BY <1>0 DEF CallRecords, UnderWay
    <3>3. guard' = [guard EXCEPT ![q] = new]
      BY <2>3 DEF Go
    <3> HIDE DEF new
    <3> QED
      BY <1>4, <2>1, <3>2, <3>3 DEF UnderWay
  <2> QED
    BY <1>6, <2>2, <2>3 DEF BeforeCall
<1>7. CASE CallSucceeds(q) \/ CallCancelled(q)
  <2>1. guard[q].phase = "call" /\ ledger' = ledger
    BY <1>7 DEF CallSucceeds, CallCancelled
  <2>2. PICK s \in {"succeeded", "cancelled"} : Finish(q, s)
    BY <1>7 DEF CallSucceeds, CallCancelled
  <2> DEFINE new == [guard[q] EXCEPT !.phase = "settle", !.machine = s]
  <2>3. new \in CallRecords /\ new.phase = "settle" /\ new.machine \in {"cancelled", "failed", "succeeded"} /\ new.holds = guard[q].holds /\ new.used = guard[q].used
    BY <1>0 DEF CallRecords, UnderWay
  <2>4. guard' = [guard EXCEPT ![q] = new]
    BY <2>2 DEF Finish
  <2> HIDE DEF new
  <2> QED
    BY <1>4, <2>1, <2>3, <2>4 DEF UnderWay
<1>h. ASSUME guard[q].phase = "call", ledger' = ledger, HandFailureOver(q)
      PROVE  GuardInv'
  <2>1. CASE Finish(q, "succeeded")
    <3> DEFINE new == [guard[q] EXCEPT !.phase = "settle", !.machine = "succeeded"]
    <3>1. new \in CallRecords /\ new.phase = "settle" /\ new.machine \in {"cancelled", "failed", "succeeded"} /\ new.holds = guard[q].holds /\ new.used = guard[q].used
      BY <1>0 DEF CallRecords, UnderWay
    <3>2. guard' = [guard EXCEPT ![q] = new]
      BY <2>1 DEF Finish
    <3> HIDE DEF new
    <3> QED
      BY <1>4, <1>h, <3>1, <3>2 DEF UnderWay
  <2>2. CASE Go(q, "iterate")
    <3> DEFINE new == [guard[q] EXCEPT !.phase = "iterate"]
    <3>1. new \in CallRecords /\ new.phase = "iterate" /\ new.holds = guard[q].holds /\ new.used = guard[q].used
      BY <1>0 DEF CallRecords, UnderWay
    <3>2. guard' = [guard EXCEPT ![q] = new]
      BY <2>2 DEF Go
    <3> HIDE DEF new
    <3> QED
      BY <1>4, <1>h, <3>1, <3>2 DEF UnderWay
  <2> QED
    BY <1>h, <2>1, <2>2 DEF HandFailureOver
<1>8. CASE CallFails(q)
  <2>1. guard[q].phase = "call" /\ ledger' = ledger
    BY <1>8 DEF CallFails
  <2>2. CASE guard' = [guard EXCEPT ![q].phase = "route", ![q].at = @ + 1]
    <3> DEFINE new == [guard[q] EXCEPT !.phase = "route", !.at = @ + 1]
    <3>1. guard[q].at + 1 \in Nat
      BY <1>0 DEF CallRecords
    <3>2. new \in CallRecords /\ new.phase = "route" /\ new.holds = guard[q].holds /\ new.used = guard[q].used
      BY <1>0, <3>1 DEF CallRecords, UnderWay
    <3>3. guard' = [guard EXCEPT ![q] = new]
      BY <2>2
    <3> HIDE DEF new
    <3> QED
      BY <1>4, <2>1, <3>2, <3>3 DEF UnderWay
  <2>3. CASE HandFailureOver(q)
    BY <1>h, <2>1, <2>3
  <2> QED
    BY <1>8, <2>2, <2>3 DEF CallFails
<1>9. CASE CallRefused(q)
  BY <1>9, <1>h DEF CallRefused
<1>10. CASE Settle(q)
  <2>1. PICK actual \in IF guard[q].machine = "succeeded" THEN {0, 1, Estimate, Estimate + 1} ELSE {0} :
       /\ ledger' = [reserved |-> ledger.reserved - guard[q].holds, spent |-> ledger.spent + actual]
       /\ guard' = [guard EXCEPT ![q].holds = 0, ![q].used = actual,
                      ![q].phase = CASE ledger'.spent > BudgetLimit -> "overspent"
                                     [] guard[q].machine = "succeeded" -> "commit"
                                     [] OTHER -> guard[q].machine]
    BY <1>10 DEF Settle
  <2>2. actual \in 0 .. Estimate + 1
    BY <2>1
  <2>3. guard[q].phase = "settle" /\ guard[q].holds = Estimate /\ guard[q].used = 0
    BY <1>10 DEF Settle, GuardInv, UnderWay
  <2> DEFINE p == CASE ledger'.spent > BudgetLimit -> "overspent"
                    [] guard[q].machine = "succeeded" -> "commit"
                    [] OTHER -> guard[q].machine
             new == [guard[q] EXCEPT !.holds = 0, !.used = actual, !.phase = p]
  <2>4. guard' = [guard EXCEPT ![q] = new]
    <3>1. guard' = [guard EXCEPT ![q].holds = 0, ![q].used = actual, ![q].phase = p]
      BY <2>1
    <3> HIDE DEF p
    <3> QED
      BY <3>1
  <2>5. p \in {"overspent", "commit", "cancelled", "failed"}
    BY <1>10 DEF Settle, GuardInv
  <2> HIDE DEF p
  <2>6. new \in CallRecords /\ new.holds = 0 /\ new.used = actual /\ new.phase = p
    BY <1>0, <2>2, <2>5 DEF CallRecords, Ended
  <2> HIDE DEF new
  <2>7. \A r \in AgentClients : guard'[r] = IF r = q THEN new ELSE guard[r]
    BY <1>0, <2>4
  <2>8. /\ Held' \in Amounts /\ Held'[q] = 0 /\ Used' \in Amounts /\ Used'[q] = actual
        /\ \A r \in AgentClients \ {q} : Held'[r] = Held[r] /\ Used'[r] = Used[r]
    BY <1>0, <2>2, <2>6, <2>7 DEF Held, Used, Amounts, CallRecords
  <2>9. Held \in Amounts /\ Used \in Amounts /\ Held[q] = Estimate /\ Used[q] = 0
    BY <2>3, AmountsOfClients DEF GuardInv, Held, Used
  <2>10. Cardinality(Units(Held')) = Cardinality(Units(Held)) - Held[q] + Held'[q]
    BY <2>8, <2>9, UnitsChanged
  <2>11. Cardinality(Units(Used')) = Cardinality(Units(Used)) - Used[q] + Used'[q]
    BY <2>8, <2>9, UnitsChanged
  <2>12. /\ ledger'.reserved = ledger.reserved - Estimate /\ ledger'.spent = ledger.spent + actual
         /\ DOMAIN ledger' = {"reserved", "spent"} /\ ledger' = [reserved |-> ledger'.reserved, spent |-> ledger'.spent]
    BY <2>1, <2>3
  <2>13. /\ ledger.reserved = Cardinality(Units(Held)) /\ ledger.spent = Cardinality(Units(Used))
         /\ ledger.reserved \in Nat /\ ledger.spent \in Nat
    BY <1>0 DEF GuardInv
  <2>14. ledger'.reserved = Cardinality(Units(Held')) /\ ledger'.spent = Cardinality(Units(Used'))
    BY <2>2, <2>8, <2>9, <2>10, <2>11, <2>12, <2>13
  <2>15. ledger' \in [reserved : Nat, spent : Nat]
    BY <2>12, <2>14, UnitsFinite
  <2>16. guard' \in [AgentClients -> CallRecords]
    BY <1>0, <2>4, <2>6
  <2>17. \A r \in AgentClients :
       /\ guard'[r].holds = IF guard'[r].phase \in UnderWay THEN Estimate ELSE 0
       /\ guard'[r].phase \in {"begin", "reserve"} \cup UnderWay => guard'[r].used = 0
       /\ guard'[r].phase = "settle" => guard'[r].machine \in {"cancelled", "failed", "succeeded"}
    BY <2>5, <2>6, <2>7 DEF GuardInv, UnderWay
  <2>18. (\A r \in AgentClients : guard'[r].used <= Estimate) => ledger'.reserved + ledger'.spent <= BudgetLimit
    <3> SUFFICES ASSUME \A r \in AgentClients : guard'[r].used <= Estimate
                 PROVE  ledger'.reserved + ledger'.spent <= BudgetLimit
      OBVIOUS
    <3>1. \A r \in AgentClients : guard[r].used <= Estimate
      BY <2>3, <2>7
    <3>2. ledger.reserved + ledger.spent <= BudgetLimit
      BY <3>1 DEF GuardInv
    <3>3. actual <= Estimate
      BY <2>6, <2>7
    <3> QED
      BY <2>2, <2>12, <2>13, <3>2, <3>3
  <2> QED
    BY <2>14, <2>15, <2>16, <2>17, <2>18 DEF GuardInv, GuardTypeOK
<1>11. CASE CommitRecord(q)
  <2> DEFINE new == [guard[q] EXCEPT !.phase = "ok"]
  <2>1. guard[q].phase = "commit" /\ ledger' = ledger
    BY <1>11 DEF CommitRecord
  <2>2. new \in CallRecords /\ new.phase = "ok" /\ new.holds = guard[q].holds /\ new.used = guard[q].used
    BY <1>0 DEF CallRecords, Ended
  <2>3. guard' = [guard EXCEPT ![q] = new]
    BY <1>11 DEF CommitRecord, Go
  <2> HIDE DEF new
  <2> QED
    BY <2>1, <2>2, <2>3, SameBudget DEF UnderWay
<1> QED
  BY <1>1, <1>2, <1>3, <1>5, <1>6, <1>7, <1>8, <1>9, <1>10, <1>11 DEF GuardStep

\* Every step of the calls and of time keeps the invariant.
LEMMA GuardKept == GuardInv /\ [GuardNext]_guardVars => GuardInv'
<1> SUFFICES ASSUME GuardInv, [GuardNext]_guardVars PROVE GuardInv'
  OBVIOUS
<1>1. ASSUME NEW q \in AgentClients, GuardStep(q)
      PROVE  GuardInv'
  BY <1>1, GuardStepKeeps
<1>2. CASE UNCHANGED <<guard, ledger>>
  BY <1>2 DEF GuardInv, GuardTypeOK, Held, Used
<1>3. ASSUME NEW q \in AgentClients, Cancel(q)
      PROVE  GuardInv'
  BY <1>2, <1>3 DEF Cancel
<1>4. ASSUME NEW p \in Providers, CooldownEnds(p)
      PROVE  GuardInv'
  BY <1>2, <1>4 DEF CooldownEnds
<1>5. CASE UNCHANGED guardVars
  BY <1>2, <1>5 DEF guardVars
<1> QED
  BY <1>1, <1>3, <1>4, <1>5 DEF GuardNext

\* The invariant contains what the runs check.
LEMMA GuardInvIsEnough == GuardInv => BudgetHolds
BY DEF GuardInv, BudgetHolds, Held, Used

\* For every number of clients and every limit: what is reserved is what calls under way hold, no
\* reservation outlives its call, and spending stays within the limit unless a call costs more
\* than it was estimated at.
THEOREM BudgetKept == GuardSpec => []BudgetHolds
BY GuardInitial, GuardKept, GuardInvIsEnough, PTL DEF GuardSpec

-----------------------------------------------------------------------------
(* Rows, log and pages.                                                     *)

\* The constants of the history.
LEMMA HistoryConstants ==
  /\ PageLimit \in Nat \ {0} /\ AsOf \in [Forecasts -> Nat]
  /\ NoForecast \notin Forecasts /\ "none" \notin Births /\ "absent" \notin Births
BY HistoryAssumption

\* Time runs forward.
LEMMA SecondsPass ==
  ASSUME NEW i \in 0 .. MaxStamp, NEW j \in 0 .. MaxStamp, i <= j
  PROVE  SecondOf[i] \in Nat /\ SecondOf[j] \in Nat /\ SecondOf[i] <= SecondOf[j]
BY HistoryAssumption

(* What a session holds that is not committed yet.                          *)
Uncommitted(t, present) ==
  \/ t = Idle
  \/ /\ t.on \in Forecasts /\ t.stamp \in Nat /\ t.stamp <= present
     /\ t.to \notin {"none", "absent"}
     /\ t.phase \in {"stamped", "written"} /\ (t.phase = "stamped" => t.kind # "created")
     /\ t.phase = "written" =>
          /\ \A e \in t.events : /\ e.of = t.on /\ e.at \in Nat /\ t.stamp <= e.at /\ e.at <= present
                                 /\ e.status \in {t.to, "none"}
                                 /\ e.kind = "created" <=> t.kind = "created"
          /\ \E e \in t.events : /\ e.status # "none"
                                 /\ \A d \in t.events : d.status # "none" => d.at <= e.at

\* The events of f that bear a status.
StatusEvents(events, f) == {e \in events : e.of = f /\ e.status # "none"}

(* The writers of f follow one another, each stamps no earlier than what it *)
(* finds, and whoever creates f finds nothing.                              *)
OneByOne(events, txs, status, f) ==
  /\ \A s, r \in Sessions : txs[s].on = f /\ txs[r].on = f => s = r
  /\ \A s \in Sessions : txs[s].on = f => /\ \A e \in events : e.of = f => e.at <= txs[s].stamp
                                          /\ txs[s].kind = "created" => status = "absent"
  /\ status = "absent" => \A e \in events : e.of # f

\* The type invariant: no event and no stamp lies in the future.
HistoryTypeOK ==
  /\ clock \in 0 .. MaxStamp
  /\ DOMAIN row = Forecasts /\ DOMAIN tx = Sessions
  /\ \A s \in Sessions : Uncommitted(tx[s], SecondOf[clock])
  /\ \A e \in log : e.at \in Nat /\ e.at <= SecondOf[clock]

\* A forecast whose writers never overlapped has one writer at a time, and its log tells its status.
LogInv ==
  \A f \in Forecasts \ overlapped :
    /\ OneByOne(log, tx, row[f], f)
    /\ row[f] # "absent" => row[f] \in Told(StatusEvents(log, f))

\* The inductive invariant of rows and log.
HistoryInv == HistoryTypeOK /\ LogInv

\* Where nothing but creations is, the newest one tells the status.
LEMMA CreationTells ==
  ASSUME NEW S, NEW e \in S, \A d \in S : d.at <= e.at /\ d.kind = "created"
  PROVE  e.status \in Told(S)
<1>1. {d \in S : d.kind # "created"} = {}
  OBVIOUS
<1>2. e \in Newest(S)
  BY DEF Newest
<1> QED
  BY <1>1, <1>2 DEF Told

\* The newest change tells the status.
LEMMA NewestTells ==
  ASSUME NEW S, NEW e \in S, e.kind # "created", \A d \in S : d.at <= e.at
  PROVE  e.status \in Told(S)
<1> DEFINE changes == {d \in S : d.kind # "created"}
<1>1. e \in changes /\ changes # {}
  OBVIOUS
<1>2. e \in Newest(changes)
  BY <1>1 DEF Newest
<1>3. Told(S) = {d.status : d \in Newest(changes)}
  BY <1>1 DEF Told
<1> HIDE DEF changes
<1> QED
  BY <1>2, <1>3

\* An empty log satisfies the invariant.
LEMMA HistoryInitial == HistoryInit => HistoryInv
<1> SUFFICES ASSUME HistoryInit PROVE HistoryInv
  OBVIOUS
<1>1. HistoryTypeOK
  BY HistoryAssumption DEF HistoryInit, HistoryTypeOK, Uncommitted
<1>2. \A s \in Sessions : tx[s].on \notin Forecasts
  BY HistoryConstants DEF HistoryInit, Idle
<1>3. LogInv
  BY <1>2 DEF HistoryInit, LogInv, OneByOne
<1> QED
  BY <1>1, <1>3 DEF HistoryInv

(* A session begins to write, writes on, or gives up.                       *)
Moves(s, new) ==
  /\ DOMAIN tx' = Sessions /\ \A r \in Sessions : tx'[r] = IF r = s THEN new ELSE tx[r]
  /\ clock' \in 0 .. MaxStamp /\ clock <= clock' /\ Uncommitted(new, SecondOf[clock'])
  /\ UNCHANGED <<row, log>> /\ overlapped \subseteq overlapped'
  /\ \/ new = Idle
     \/ new.on = tx[s].on /\ new.stamp = tx[s].stamp /\ new.kind = tx[s].kind
     \/ /\ new.stamp >= SecondOf[clock] /\ (new.kind = "created" => row[new.on] = "absent")
        /\ new.on \notin overlapped' => \A r \in Sessions \ {s} : tx[r].on # new.on

\* A step of a session that commits nothing keeps the invariant.
LEMMA SessionStep ==
  ASSUME HistoryInv, NEW s \in Sessions, NEW new, Moves(s, new)
  PROVE  HistoryInv'
<1> USE DEF Moves
<1>1. /\ clock \in 0 .. MaxStamp /\ DOMAIN row = Forecasts /\ DOMAIN tx = Sessions
      /\ \A r \in Sessions : Uncommitted(tx[r], SecondOf[clock])
      /\ \A e \in log : e.at \in Nat /\ e.at <= SecondOf[clock]
  BY DEF HistoryInv, HistoryTypeOK
<1>2. DOMAIN tx' = Sessions /\ \A r \in Sessions : tx'[r] = IF r = s THEN new ELSE tx[r]
  BY <1>1
<1>0. PICK present \in Nat, then \in Nat : present = SecondOf[clock] /\ then = SecondOf[clock'] /\ present <= then
  BY <1>1, SecondsPass
<1>3. ASSUME NEW r \in Sessions
      PROVE  Uncommitted(tx'[r], then)
  <2>1. CASE r = s
    BY <1>0, <1>2, <2>1
  <2>2. CASE r # s
    <3>0. PICK t : t = tx[r] /\ t = tx'[r]
      BY <1>2, <2>2
    <3>2. Uncommitted(t, present)
      BY <1>0, <1>1, <3>0
    <3>3. Uncommitted(t, then)
      <4>1. \A n \in Nat : n <= present => n <= then
        BY <1>0
      <4> QED
        BY <3>2, <4>1 DEF Uncommitted
    <3> QED
      BY <3>0, <3>3
  <2> QED
    BY <2>1, <2>2
<1>4. \A e \in log : e.at \in Nat /\ e.at <= then
  BY <1>0, <1>1
<1>5. HistoryTypeOK'
  BY <1>0, <1>1, <1>2, <1>3, <1>4 DEF HistoryTypeOK
<1>6. ASSUME NEW f \in Forecasts \ overlapped'
      PROVE  OneByOne(log, tx', row[f], f) /\ (row[f] # "absent" => row[f] \in Told(StatusEvents(log, f)))
  <2>1. OneByOne(log, tx, row[f], f) /\ (row[f] # "absent" => row[f] \in Told(StatusEvents(log, f)))
    BY DEF HistoryInv, LogInv
  <2>2. CASE new.on # f
    BY <1>2, <2>1, <2>2 DEF OneByOne
  <2>3. CASE new.on = f /\ new.on = tx[s].on /\ new.stamp = tx[s].stamp /\ new.kind = tx[s].kind
    BY <1>2, <2>1, <2>3 DEF OneByOne
  <2>4. CASE /\ new.on = f /\ new.stamp >= SecondOf[clock] /\ (new.kind = "created" => row[new.on] = "absent")
             /\ \A r \in Sessions \ {s} : tx[r].on # f
    <3>1. new.stamp \in Nat
      BY <1>2, <1>3, <2>4, HistoryConstants DEF Uncommitted, Idle
    <3>2. \A e \in log : e.at <= new.stamp
      BY <1>0, <1>1, <2>4, <3>1
    <3> QED
      BY <1>2, <2>1, <2>4, <3>2 DEF OneByOne
  <2> QED
    BY <2>2, <2>3, <2>4, HistoryConstants DEF Idle
<1>7. LogInv'
  BY <1>6 DEF LogInv, OneByOne, StatusEvents, Told, Newest
<1> QED
  BY <1>5, <1>7 DEF HistoryInv

\* A commit keeps the invariant: its events are the newest ones of their forecast.
LEMMA CommitStep ==
  ASSUME HistoryInv, NEW s \in Sessions, CommitTx(s)
  PROVE  HistoryInv'
<1>1. /\ clock \in 0 .. MaxStamp /\ DOMAIN row = Forecasts /\ DOMAIN tx = Sessions
      /\ \A r \in Sessions : Uncommitted(tx[r], SecondOf[clock])
      /\ \A e \in log : e.at \in Nat /\ e.at <= SecondOf[clock]
  BY DEF HistoryInv, HistoryTypeOK
<1>2. PICK t : t = tx[s]
  OBVIOUS
<1>3. /\ t.phase = "written" /\ row' = [row EXCEPT ![t.on] = t.to] /\ log' = log \cup t.events
      /\ tx' = [tx EXCEPT ![s] = Idle] /\ clock' = clock /\ overlapped' = overlapped
  BY <1>2 DEF CommitTx
<1>4. /\ t.on \in Forecasts /\ t.to \notin {"none", "absent"} /\ t.stamp \in Nat
      /\ \A e \in t.events : /\ e.of = t.on /\ e.at \in Nat /\ t.stamp <= e.at /\ e.at <= SecondOf[clock]
                             /\ e.status \in {t.to, "none"} /\ (e.kind = "created" <=> t.kind = "created")
      /\ \E e \in t.events : /\ e.status # "none"
                             /\ \A d \in t.events : d.status # "none" => d.at <= e.at
  <2>1. Uncommitted(t, SecondOf[clock]) /\ t # Idle
    BY <1>1, <1>2, <1>3 DEF Idle
  <2> QED
    BY <1>3, <2>1 DEF Uncommitted
<1>5. /\ DOMAIN row' = Forecasts /\ DOMAIN tx' = Sessions
      /\ \A f \in Forecasts : row'[f] = IF f = t.on THEN t.to ELSE row[f]
      /\ \A r \in Sessions : tx'[r] = IF r = s THEN Idle ELSE tx[r]
  BY <1>1, <1>3, <1>4
<1>6. HistoryTypeOK'
  <2>1. \A r \in Sessions : Uncommitted(tx'[r], SecondOf[clock])
    BY <1>1, <1>5 DEF Uncommitted
  <2>2. \A e \in log' : e.at \in Nat /\ e.at <= SecondOf[clock]
    BY <1>1, <1>3, <1>4
  <2>3. \A r \in Sessions : Uncommitted(tx'[r], SecondOf[clock'])
    BY <1>3, <2>1
  <2> QED
    BY <1>1, <1>3, <1>5, <2>2, <2>3 DEF HistoryTypeOK
<1>7. ASSUME NEW f \in Forecasts \ overlapped
      PROVE  OneByOne(log', tx', row'[f], f) /\ (row'[f] # "absent" => row'[f] \in Told(StatusEvents(log', f)))
  <2>1. OneByOne(log, tx, row[f], f) /\ (row[f] # "absent" => row[f] \in Told(StatusEvents(log, f)))
    BY DEF HistoryInv, LogInv
  <2>2. Idle.on # f
    BY HistoryConstants DEF Idle
  <2>3. CASE f # t.on
    <3>1. \A e \in log' : e.of = f => e \in log
      BY <1>3, <1>4, <2>3
    <3>2. StatusEvents(log', f) = StatusEvents(log, f)
      BY <1>3, <3>1 DEF StatusEvents
    <3>3. OneByOne(log', tx', row'[f], f)
      BY <1>5, <2>1, <2>2, <2>3, <3>1 DEF OneByOne
    <3> QED
      BY <1>5, <2>1, <2>3, <3>2, <3>3
  <2>4. CASE f = t.on
    <3>1. \A r \in Sessions : tx'[r].on # f
      BY <1>2, <1>5, <2>1, <2>2, <2>4 DEF OneByOne
    <3>0. row'[f] = t.to /\ row'[f] # "absent"
      BY <1>4, <1>5, <2>4
    <3>2. OneByOne(log', tx', row'[f], f)
      BY <3>0, <3>1 DEF OneByOne
    <3>3. /\ \A e \in StatusEvents(log, f) : e.at \in Nat /\ e.at <= t.stamp
          /\ t.kind = "created" => StatusEvents(log, f) = {}
      BY <1>1, <1>2, <2>1, <2>4 DEF OneByOne, StatusEvents
    <3>4. \A e \in StatusEvents(log', f) : e \in StatusEvents(log, f) \/ (e \in t.events /\ e.status = t.to)
      BY <1>3, <1>4 DEF StatusEvents
    <3>5. PICK e \in t.events : e.status # "none" /\ \A d \in t.events : d.status # "none" => d.at <= e.at
      BY <1>4
    <3>6. e \in StatusEvents(log', f) /\ e.at \in Nat /\ t.stamp <= e.at /\ e.status = t.to
      BY <1>3, <1>4, <2>4, <3>5 DEF StatusEvents
    <3>7. \A d \in StatusEvents(log', f) : d.at <= e.at
      <4> TAKE d \in StatusEvents(log', f)
      <4>1. CASE d \in StatusEvents(log, f)
        BY <1>4, <3>3, <3>6, <4>1
      <4>2. CASE d \in t.events /\ d.status = t.to
        BY <1>4, <3>5, <4>2
      <4> QED
        BY <3>4, <4>1, <4>2
    <3>8. e.status \in Told(StatusEvents(log', f))
      <4>1. CASE t.kind = "created"
        <5>1. \A d \in StatusEvents(log', f) : d.kind = "created"
          BY <1>4, <3>3, <3>4, <4>1
        <5> QED
          BY <3>6, <3>7, <5>1, CreationTells
      <4>2. CASE t.kind # "created"
        <5>1. e.kind # "created"
          BY <1>4, <4>2
        <5> QED
          BY <3>6, <3>7, <5>1, NewestTells
      <4> QED
        BY <4>1, <4>2
    <3> QED
      BY <3>0, <3>2, <3>6, <3>8
  <2> QED
    BY <2>3, <2>4
<1>8. LogInv'
  BY <1>3, <1>7 DEF LogInv, OneByOne, StatusEvents, Told, Newest
<1> QED
  BY <1>6, <1>8 DEF HistoryInv

\* A session rolls back.
GivesUp(s) ==
  /\ clock' \in 0 .. MaxStamp /\ clock <= clock' /\ tx' = [tx EXCEPT ![s] = Idle]
  /\ UNCHANGED <<row, log, overlapped>>

\* A step of writers or readers commits, moves one session, or leaves rows, log and sessions alone.
LEMMA WritersMove ==
  ASSUME HistoryInv, [HistoryNext]_historyVars
  PROVE  \/ \E s \in Sessions : CommitTx(s)
         \/ \E s \in Sessions : \E new : Moves(s, new)
         \/ UNCHANGED <<row, log, tx, clock, overlapped>>
<1>0. /\ clock \in 0 .. MaxStamp /\ DOMAIN row = Forecasts /\ DOMAIN tx = Sessions /\ MaxStamp \in Nat
      /\ \A s \in Sessions : Uncommitted(tx[s], SecondOf[clock])
  BY HistoryAssumption DEF HistoryInv, HistoryTypeOK
<1>A. ASSUME NEW i \in Nat, clock + i <= MaxStamp
      PROVE  clock + i \in 0 .. MaxStamp /\ SecondOf[clock + i] \in Nat /\ SecondOf[clock] <= SecondOf[clock + i]
  <2>1. clock + i \in 0 .. MaxStamp /\ clock <= clock + i
    BY <1>0, <1>A
  <2> QED
    BY <1>0, <2>1, SecondsPass
<1>1. ASSUME NEW s \in Sessions, NEW f \in Forecasts, NEW status \in Births, CreateForecast(s, f, status)
      PROVE  \E new : Moves(s, new)
  <2>0. PICK now \in Nat : now = SecondOf[clock + 1] /\ SecondOf[clock] <= now /\ clock + 1 \in 0 .. MaxStamp
    BY <1>0, <1>1, <1>A DEF CreateForecast
  <2> DEFINE new == [Idle EXCEPT !.phase = "written", !.on = f, !.to = status, !.stamp = now, !.kind = "created",
                        !.events = {Event(f, "created", status, now)}]
  <2>1. /\ tx' = [tx EXCEPT ![s] = new] /\ clock' = clock + 1 /\ UNCHANGED <<row, log, overlapped>>
        /\ \A r \in Sessions : tx[r].on # f
        /\ row[f] = "absent"
    BY <1>1, <2>0 DEF CreateForecast, Writing
  <2>2. new.on = f /\ new.stamp = now /\ new.kind = "created"
    BY DEF Idle
  <2>3. Uncommitted(new, now)
    <3>1. /\ new.events = {Event(f, "created", status, now)}
          /\ new.phase = "written" /\ new.to = status /\ status \notin {"none", "absent"}
      BY HistoryConstants DEF Idle
    <3> DEFINE one == Event(f, "created", status, now)
    <3>4. one.of = f /\ one.at = now /\ one.status = status /\ one.kind = "created"
      BY DEF Event
    <3> HIDE DEF one
    <3>2. \A e \in new.events : e.of = f /\ e.at = now /\ e.status = status /\ e.kind = "created"
      BY <3>1, <3>4 DEF one
    <3>3. \E e \in new.events : e.at = now /\ e.status = status
      BY <3>1, <3>4 DEF one
    <3> HIDE DEF new
    <3> QED
      BY <1>0, <2>2, <3>1, <3>2, <3>3 DEF Uncommitted
  <2> HIDE DEF new
  <2>9. Moves(s, new)
    BY <1>0, <2>0, <2>1, <2>2, <2>3 DEF Moves
  <2> QED
    BY <2>9
<1>2. ASSUME NEW s \in Sessions, NEW f \in Forecasts, NEW w \in Withdrawals, StampUpdate(s, f, w)
      PROVE  \E new : Moves(s, new)
  <2>0. PICK now \in Nat : now = SecondOf[clock + 1] /\ SecondOf[clock] <= now /\ clock + 1 \in 0 .. MaxStamp
    BY <1>0, <1>2, <1>A DEF StampUpdate
  <2> DEFINE new == [Idle EXCEPT !.phase = "stamped", !.on = f, !.to = w.to,
                        !.from = w.from, !.stamp = now, !.kind = w.note]
  <2>1. /\ tx' = [tx EXCEPT ![s] = new] /\ clock' = clock + 1 /\ UNCHANGED <<row, log>>
        /\ overlapped' = overlapped \cup {g \in {f} : Writing(g) \ {s} # {}}
    BY <1>2, <2>0 DEF StampUpdate, Overlap
  <2>2. new.on = f /\ new.stamp = now /\ new.kind # "created"
    BY DEF Idle, Withdrawals
  <2>3. Uncommitted(new, now)
    BY <1>0 DEF Uncommitted, Idle, Withdrawals
  <2>4. f \notin overlapped' => \A r \in Sessions \ {s} : tx[r].on # f
    BY <2>1 DEF Writing
  <2> HIDE DEF new
  <2>9. Moves(s, new)
    BY <1>0, <2>0, <2>1, <2>2, <2>3, <2>4 DEF Moves
  <2> QED
    BY <2>9
<1>3. ASSUME NEW s \in Sessions, NEW f \in Forecasts, RecordOutcome(s, f)
      PROVE  \E new : Moves(s, new)
  <2>8. clock + 1 \in 0 .. MaxStamp /\ clock + 2 \in 0 .. MaxStamp /\ clock + 1 <= clock + 2
    BY <1>0, <1>3 DEF RecordOutcome
  <2>0. PICK now \in Nat, then \in Nat :
          /\ now = SecondOf[clock + 1] /\ then = SecondOf[clock + 2]
          /\ SecondOf[clock] <= now /\ now <= then
    BY <1>0, <1>A, <2>8, SecondsPass
  <2> DEFINE new == [Idle EXCEPT !.phase = "written", !.on = f, !.to = "resolved",
             !.stamp = now, !.kind = "outcome_recorded",
             !.events = {Event(f, "outcome_recorded", "resolved", SecondOf[at]) : at \in {clock + 1, clock + 2}}]
  <2>1. /\ tx' = [tx EXCEPT ![s] = new] /\ clock' = clock + 2 /\ UNCHANGED <<row, log>>
        /\ overlapped' = overlapped \cup {g \in {f} : Writing(g) \ {s} # {}}
    BY <1>3, <2>0 DEF RecordOutcome, Overlap
  <2>2. new.on = f /\ new.stamp = now /\ new.kind = "outcome_recorded"
    BY DEF Idle
  <2>3. Uncommitted(new, then)
    <3> DEFINE one == Event(f, "outcome_recorded", "resolved", now)
               two == Event(f, "outcome_recorded", "resolved", then)
    <3>1. /\ new.events = {one, two}
          /\ new.phase = "written" /\ new.to = "resolved"
      <4>1. {Event(f, "outcome_recorded", "resolved", SecondOf[at]) : at \in {clock + 1, clock + 2}} = {one, two}
        BY <2>0
      <4> HIDE DEF one, two
      <4> QED
        BY <4>1 DEF Idle
    <3>2. /\ one.of = f /\ one.at = now /\ one.status = "resolved" /\ one.kind = "outcome_recorded"
          /\ two.of = f /\ two.at = then /\ two.status = "resolved" /\ two.kind = "outcome_recorded"
      BY DEF Event
    <3> HIDE DEF new, one, two
    <3>3. \A e \in new.events : /\ e.of = f /\ e.at \in Nat /\ now <= e.at /\ e.at <= then /\ e.status = "resolved"
                                /\ e.kind = "outcome_recorded"
      BY <2>0, <3>1, <3>2
    <3>4. \E e \in new.events : e.at = then /\ e.status = "resolved"
      BY <3>1, <3>2
    <3> QED
      BY <1>0, <2>0, <2>2, <3>1, <3>3, <3>4 DEF Uncommitted
  <2>4. f \notin overlapped' => \A r \in Sessions \ {s} : tx[r].on # f
    BY <2>1 DEF Writing
  <2> HIDE DEF new
  <2>9. Moves(s, new)
    BY <1>0, <2>0, <2>1, <2>2, <2>3, <2>4, <2>8 DEF Moves
  <2> QED
    BY <2>9
<1>4. ASSUME NEW s \in Sessions, GivesUp(s)
      PROVE  \E new : Moves(s, new)
  <2>1. Uncommitted(Idle, SecondOf[clock'])
    BY DEF Uncommitted
  <2>2. Moves(s, Idle)
    BY <1>0, <1>4, <2>1 DEF Moves, GivesUp
  <2> QED
    BY <2>2
<1>5. ASSUME NEW s \in Sessions, WriteUpdate(s)
      PROVE  \E new : Moves(s, new)
  <2>1. clock' = clock + 1 /\ UNCHANGED <<row, log, overlapped>>
    BY <1>5 DEF WriteUpdate
  <2>0. PICK now \in Nat : now = SecondOf[clock + 1] /\ SecondOf[clock] <= now /\ clock + 1 \in 0 .. MaxStamp
    BY <1>0, <1>5, <1>A DEF WriteUpdate
  <2>2. CASE Refused(s)
    <3>1. GivesUp(s)
      BY <1>0, <1>5, <2>0, <2>1, <2>2 DEF WriteUpdate, GivesUp
    <3> QED
      BY <1>4, <3>1
  <2>3. CASE ~Refused(s)
    <3>0. PICK t : t = tx[s]
      OBVIOUS
    <3>1. /\ t.phase = "stamped" /\ t.on \in Forecasts /\ t.stamp \in Nat /\ t.stamp <= SecondOf[clock]
          /\ t.to \notin {"none", "absent"} /\ t.kind # "created"
      <4>1. Uncommitted(t, SecondOf[clock]) /\ t # Idle
        BY <1>0, <1>5, <3>0 DEF WriteUpdate, Idle
      <4> QED
        BY <1>5, <3>0, <4>1 DEF Uncommitted, WriteUpdate
    <3>10. t.stamp <= now
      <4>1. SecondOf[clock] \in Nat
        BY <1>0, SecondsPass
      <4> QED
        BY <2>0, <3>1, <4>1
    <3>2. PICK note \in {"none", t.to} : note = IF t.kind = "resolution_failed" THEN "none" ELSE t.to
      OBVIOUS
    <3> DEFINE one == Event(t.on, "updated", t.to, t.stamp)
               two == Event(t.on, t.kind, note, now)
               new == [t EXCEPT !.phase = "written", !.events = {one, two}]
    <3>3. tx' = [tx EXCEPT ![s] = new]
      BY <1>5, <2>0, <2>1, <2>3, <3>0, <3>2 DEF WriteUpdate
    <3>4. /\ one.of = t.on /\ one.at = t.stamp /\ one.status = t.to /\ one.kind = "updated"
          /\ two.of = t.on /\ two.at = now /\ two.status = note /\ two.kind = t.kind
      BY DEF Event
    <3> HIDE DEF one, two
    <3>5. /\ new.phase = "written" /\ new.events = {one, two} /\ new.on = t.on
          /\ new.stamp = t.stamp /\ new.to = t.to /\ new.kind = t.kind
      OBVIOUS
    <3> HIDE DEF new
    <3>6. /\ \A e \in new.events : /\ e.of = t.on /\ e.at \in Nat /\ t.stamp <= e.at /\ e.at <= now
                                   /\ e.status \in {t.to, "none"} /\ e.kind # "created"
      BY <3>1, <3>2, <3>4, <3>5, <3>10
    <3>7. \E e \in new.events : e.status # "none" /\ \A d \in new.events : d.status # "none" => d.at <= e.at
      <4>1. CASE note = "none"
        BY <3>1, <3>4, <3>5, <4>1
      <4>2. CASE note = t.to
        BY <3>1, <3>4, <3>5, <3>10, <4>2
      <4> QED
        BY <3>2, <4>1, <4>2
    <3>8. Uncommitted(new, now)
      BY <3>1, <3>5, <3>6, <3>7, <3>10 DEF Uncommitted
    <3>9. Moves(s, new)
      BY <1>0, <2>0, <2>1, <3>0, <3>3, <3>5, <3>8 DEF Moves
    <3> QED
      BY <3>9
  <2> QED
    BY <2>2, <2>3
<1>6. ASSUME NEW s \in Sessions, RollbackTx(s)
      PROVE  \E new : Moves(s, new)
  <2>1. GivesUp(s)
    BY <1>0, <1>6 DEF RollbackTx, GivesUp
  <2> QED
    BY <1>4, <2>1
<1>8. ASSUME NEW filter \in Filters, OpenListing(filter)
      PROVE  UNCHANGED <<row, log, tx, clock, overlapped>>
  BY <1>8 DEF OpenListing
<1>9. CASE ReadPage
  BY <1>9 DEF ReadPage
<1>10. CASE UNCHANGED historyVars
  BY <1>10 DEF historyVars
<1> QED
  BY <1>1, <1>2, <1>3, <1>5, <1>6, <1>8, <1>9, <1>10 DEF HistoryNext

\* Every step of writers and readers keeps the invariant.
LEMMA HistoryStep == HistoryInv /\ [HistoryNext]_historyVars => HistoryInv'
<1> SUFFICES ASSUME HistoryInv, [HistoryNext]_historyVars PROVE HistoryInv'
  OBVIOUS
<1>1. ASSUME UNCHANGED <<row, log, tx, clock, overlapped>>
      PROVE  HistoryInv'
  BY <1>1 DEF HistoryInv, HistoryTypeOK, LogInv, OneByOne, Told, Newest, StatusEvents, Uncommitted
<1> QED
  BY <1>1, WritersMove, SessionStep, CommitStep

\* The invariant contains what the run checks.
LEMMA HistoryInvTellsTheStatus == HistoryInv => LogTellsTheStatus
BY DEF HistoryInv, LogInv, LogTellsTheStatus, StatusEvents

\* For any number of forecasts and sessions: while the writers of a forecast follow one another, the
\* status of its row is one the replay of its log may end with.
THEOREM LogAgreesWithTheRow == HistorySpec => []LogTellsTheStatus
BY HistoryInitial, HistoryStep, HistoryInvTellsTheStatus, PTL DEF HistorySpec

\* Events later than instant t.
StampedAfter(events, t) == \A e \in events : e.at \in Nat /\ t < e.at

\* A replay up to t does not see events stamped later.
LEMMA LaterEventsAreNotSeen ==
  ASSUME NEW events, NEW more, NEW t \in Nat, NEW target,
         StampedAfter(more, t)
  PROVE  Replay(events \cup more, target, t) = Replay(events, target, t)
<1>1. \A e \in more : ~KnownBy(e, t)
  BY DEF KnownBy, StampedAfter
<1>2. Creations(events \cup more, t) = Creations(events, t)
  BY <1>1 DEF Creations
<1> DEFINE created == Creations(events, t)
           own == {e \in created : TargetOf[e.of] = target}
           after(S, match) == {e \in S : /\ e.of = match.of /\ KnownBy(e, t)
                                         /\ e.at >= match.at /\ e.status # "none"}
           told(S, match) == {<<match.of, status>> : status \in Told(after(S, match))}
           unless == IF Missed(own, created) THEN {<<>>} ELSE {}
           answers(S) == UNION {told(S, match) : match \in Matching(own, created)} \cup unless
<1>3. \A match : after(events \cup more, match) = after(events, match)
  BY <1>1
<1>5. Replay(events, target, t) = answers(events)
  BY DEF Replay
<1>6. Replay(events \cup more, target, t) = answers(events \cup more)
  BY <1>2 DEF Replay
<1>7. \A match : told(events \cup more, match) = told(events, match)
  <2> HIDE DEF after
  <2> QED
    BY <1>3
<1>8. answers(events \cup more) = answers(events)
  <2> HIDE DEF told, created, own, unless
  <2> QED
    BY <1>7
<1> HIDE DEF answers
<1> QED
  BY <1>5, <1>6, <1>8

\* A commit changes no replay of an instant that no open transaction was stamped before.
LEMMA CommitsAreLate ==
  ASSUME HistoryInv, NEW s \in Sessions, CommitTx(s), NEW target, NEW t \in Nat, SettledUpTo(t)
  PROVE  Replay(log', target, t) = Replay(log, target, t)
<1>2. Uncommitted(tx[s], SecondOf[clock]) /\ tx[s].phase = "written" /\ log' = log \cup tx[s].events
  BY DEF HistoryInv, HistoryTypeOK, CommitTx
<1>3. tx[s] # Idle
  BY <1>2 DEF Idle
<1>4. tx[s].stamp \in Nat /\ \A e \in tx[s].events : e.at \in Nat /\ tx[s].stamp <= e.at
  BY <1>2, <1>3 DEF Uncommitted
<1>5. t < tx[s].stamp
  BY <1>3 DEF SettledUpTo
<1>6. StampedAfter(tx[s].events, t)
  BY <1>4, <1>5 DEF StampedAfter
<1>7. Replay(log \cup tx[s].events, target, t) = Replay(log, target, t)
  BY <1>6, LaterEventsAreNotSeen
<1> QED
  BY <1>2, <1>7

\* A settled second stays settled: whoever writes later is stamped later.
LEMMA StaysSettled ==
  ASSUME HistoryInv, [HistoryNext]_historyVars, NEW t \in Nat, SettledUpTo(t)
  PROVE  SettledUpTo(t)'
<1>1. /\ clock \in 0 .. MaxStamp /\ DOMAIN tx = Sessions /\ SecondOf[clock] \in Nat
      /\ t < SecondOf[clock] /\ \A s \in Sessions : tx[s] # Idle => t < tx[s].stamp
  BY SecondsPass DEF HistoryInv, HistoryTypeOK, SettledUpTo
<1>2. CASE UNCHANGED <<row, log, tx, clock, overlapped>>
  BY <1>1, <1>2 DEF SettledUpTo
<1>3. ASSUME NEW s \in Sessions, CommitTx(s)
      PROVE  SettledUpTo(t)'
  <2>1. clock' = clock /\ tx' = [tx EXCEPT ![s] = Idle]
    BY <1>3 DEF CommitTx
  <2> QED
    BY <1>1, <2>1 DEF SettledUpTo
<1>4. ASSUME NEW s \in Sessions, NEW new, Moves(s, new)
      PROVE  SettledUpTo(t)'
  <2>1. /\ \A r \in Sessions : tx'[r] = IF r = s THEN new ELSE tx[r]
        /\ clock' \in 0 .. MaxStamp /\ clock <= clock' /\ Uncommitted(new, SecondOf[clock'])
    BY <1>4 DEF Moves
  <2>2. SecondOf[clock'] \in Nat /\ SecondOf[clock] <= SecondOf[clock']
    BY <1>1, <2>1, SecondsPass
  <2>3. t < SecondOf[clock']
    BY <1>1, <2>2
  <2>4. ASSUME new # Idle
        PROVE  t < new.stamp
    <3>1. new.stamp \in Nat /\ new.on \in Forecasts
      BY <2>1, <2>4 DEF Uncommitted
    <3>2. CASE new.on = tx[s].on /\ new.stamp = tx[s].stamp
      BY <1>1, <3>1, <3>2, HistoryConstants DEF Idle
    <3>3. CASE new.stamp >= SecondOf[clock]
      BY <1>1, <3>1, <3>3
    <3> QED
      BY <1>4, <2>4, <3>2, <3>3 DEF Moves
  <2> QED
    BY <1>1, <2>1, <2>3, <2>4 DEF SettledUpTo
<1> QED
  BY <1>2, <1>3, <1>4, WritersMove

\* What one step may do to a settled second.
KeepsPast ==
  \A t \in 0 .. SecondOf[clock] : SettledUpTo(t) =>
    /\ SettledUpTo(t)'
    /\ log' # log => \A target \in Targets : Replay(log', target, t) = Replay(log, target, t)

LEMMA PastStep ==
  ASSUME HistoryInv, [HistoryNext]_historyVars
  PROVE  KeepsPast
<1> SUFFICES ASSUME NEW t \in 0 .. SecondOf[clock], SettledUpTo(t)
             PROVE  /\ SettledUpTo(t)'
                    /\ log' # log => \A target \in Targets : Replay(log', target, t) = Replay(log, target, t)
  BY DEF KeepsPast
<1>1. t \in Nat
  OBVIOUS
<1>2. SettledUpTo(t)'
  BY <1>1, StaysSettled
<1>3. ASSUME log' # log
      PROVE  \E s \in Sessions : CommitTx(s)
  BY <1>3, WritersMove DEF Moves
<1> QED
  BY <1>1, <1>2, <1>3, CommitsAreLate

\* A settled second stays settled, and a replay of the log up to it gives the same answers ever after.
THEOREM PastStaysFixed == HistorySpec => PastIsFixed
<1>1. HistoryInv /\ [HistoryNext]_historyVars =>
        [\A t \in 0 .. SecondOf[clock] : SettledUpTo(t) =>
           /\ SettledUpTo(t)'
           /\ log' # log => \A target \in Targets : Replay(log', target, t) = Replay(log, target, t)
        ]_historyVars
  BY PastStep DEF KeepsPast
<1> QED
  BY <1>1, HistoryInitial, HistoryStep, PTL DEF HistorySpec, PastIsFixed

\* The forecasts of S listed before f, whatever the order, and how many they are.
Above(f, S) == {g \in S : AsOf[g] > AsOf[f]}
Position(f, S) == Cardinality(Above(f, S))

\* No other forecast has the as_of of f.
Alone(f) == \A g \in Forecasts : AsOf[g] = AsOf[f] => g = f

\* Forecasts of a finite listing have a place.
LEMMA PositionsCount ==
  ASSUME NEW S \in SUBSET Forecasts, IsFiniteSet(S), NEW f
  PROVE  Position(f, S) \in Nat /\ IsFiniteSet(Above(f, S))
<1>1. Above(f, S) \subseteq S
  BY DEF Above
<1>2. IsFiniteSet(Above(f, S))
  BY <1>1, FS_Subset
<1> QED
  BY <1>2, FS_CardinalityType DEF Position

\* More forecasts never move one to an earlier place.
LEMMA PositionsGrow ==
  ASSUME NEW S \in SUBSET Forecasts, NEW T \in SUBSET Forecasts, S \subseteq T, IsFiniteSet(T), NEW f
  PROVE  Position(f, S) \in Nat /\ Position(f, T) \in Nat /\ Position(f, S) <= Position(f, T)
<1>1. IsFiniteSet(S)
  BY FS_Subset
<1>2. Above(f, S) \subseteq Above(f, T)
  BY DEF Above
<1>3. IsFiniteSet(Above(f, T)) /\ Position(f, T) \in Nat
  BY PositionsCount
<1>4. Position(f, S) \in Nat
  BY <1>1, PositionsCount
<1>5. Cardinality(Above(f, S)) <= Cardinality(Above(f, T))
  BY <1>2, <1>3, FS_Subset
<1> QED
  BY <1>3, <1>4, <1>5 DEF Position

(* A forecast alone with its as_of has the same place in every order.       *)
LEMMA PlaceOfTheAlone ==
  ASSUME NEW S \in SUBSET Forecasts, IsFiniteSet(S), NEW order \in Orders(S), NEW f \in S, Alone(f)
  PROVE  \E i \in 1 .. Cardinality(S) : order[i] = f /\ Position(f, S) = i - 1
<1>1. PICK n \in Nat : n = Cardinality(S)
  BY FS_CardinalityType
<1>2. /\ order \in [1 .. n -> S]
      /\ \A g \in S : \E i \in 1 .. n : order[i] = g
      /\ \A i, j \in 1 .. n : i < j => order[i] # order[j] /\ AsOf[order[i]] >= AsOf[order[j]]
  BY <1>1 DEF Orders
<1>3. PICK i \in 1 .. n : order[i] = f
  BY <1>2
<1>4. \A g \in S : AsOf[g] \in Nat
  BY HistoryConstants
<1> DEFINE before == [j \in 1 .. (i - 1) |-> order[j]]
<1>5. ASSUME NEW j \in 1 .. (i - 1)
      PROVE  before[j] = order[j] /\ order[j] \in Above(f, S) /\ j \in 1 .. n
  <2>1. j \in 1 .. n /\ j < i /\ order[j] \in S
    BY <1>2
  <2>2. order[j] # f /\ AsOf[order[j]] >= AsOf[f]
    BY <1>2, <1>3, <2>1
  <2>3. AsOf[order[j]] # AsOf[f]
    BY <2>1, <2>2 DEF Alone
  <2>4. AsOf[order[j]] > AsOf[f]
    BY <1>4, <2>1, <2>2, <2>3
  <2> QED
    BY <2>1, <2>4 DEF Above
<1>6. ASSUME NEW g \in Above(f, S)
      PROVE  \E j \in 1 .. (i - 1) : before[j] = g
  <2>1. g \in S /\ AsOf[g] > AsOf[f]
    BY DEF Above
  <2>2. PICK j \in 1 .. n : order[j] = g
    BY <1>2, <2>1
  <2>3. AsOf[g] \in Nat /\ AsOf[f] \in Nat
    BY <1>4, <2>1
  <2>4. ~(i < j) /\ i # j
    BY <1>2, <1>3, <2>1, <2>2, <2>3
  <2>5. j \in 1 .. (i - 1)
    BY <2>4
  <2> QED
    BY <2>2, <2>5
<1>7. \A j, k \in 1 .. (i - 1) : before[j] = before[k] => j = k
  <2> TAKE j, k \in 1 .. (i - 1)
  <2>1. j \in 1 .. n /\ k \in 1 .. n /\ before[j] = order[j] /\ before[k] = order[k]
    BY <1>5
  <2>2. j < k \/ k < j \/ j = k
    OBVIOUS
  <2> QED
    BY <1>2, <2>1, <2>2
<1>8. before \in Bijection(1 .. (i - 1), Above(f, S))
  <2>1. before \in [1 .. (i - 1) -> Above(f, S)]
    BY <1>5
  <2> HIDE DEF before
  <2> QED
    BY <1>6, <1>7, <2>1 DEF Bijection, Injection, Surjection, IsInjective
<1>9. i - 1 \in Nat /\ ExistsBijection(1 .. (i - 1), Above(f, S))
  <2> HIDE DEF before
  <2> QED
    BY <1>8 DEF ExistsBijection
<1>10. Cardinality(Above(f, S)) = i - 1
  BY <1>9, FS_CountingElements
<1> QED
  BY <1>1, <1>3, <1>10 DEF Position

(* A page with room left over is the last one.                              *)
LEMMA ShortPageIsLast ==
  ASSUME NEW S \in SUBSET Forecasts, IsFiniteSet(S), NEW order \in Orders(S), NEW offset \in Nat,
         Cardinality(Page(order, offset)) < PageLimit
  PROVE  Cardinality(S) < offset + PageLimit
<1> SUFFICES ASSUME ~(Cardinality(S) < offset + PageLimit) PROVE FALSE
  OBVIOUS
<1>1. PICK l \in Nat, n \in Nat : l = PageLimit /\ l > 0 /\ n = Cardinality(S) /\ offset + l <= n
  BY HistoryConstants, FS_CardinalityType
<1>2. /\ order \in [1 .. n -> S]
      /\ \A i, j \in 1 .. n : i < j => order[i] # order[j]
  BY <1>1 DEF Orders
<1> DEFINE places == [i \in 1 .. l |-> order[offset + i]]
<1>3. ASSUME NEW i \in 1 .. l
      PROVE  /\ offset + i \in 1 .. n /\ offset + i \in Nat /\ places[i] = order[offset + i]
             /\ places[i] \in Page(order, offset)
  <2>1. offset + i \in 1 .. n /\ offset + i \in offset + 1 .. offset + l
    BY <1>1
  <2>2. offset + i \in (offset + 1 .. offset + PageLimit) \cap DOMAIN order
    BY <1>1, <1>2, <2>1
  <2> QED
    BY <2>1, <2>2 DEF Page
<1>4. \A i, j \in 1 .. l : places[i] = places[j] => i = j
  <2> TAKE i, j \in 1 .. l
  <2>1. /\ offset + i \in 1 .. n /\ offset + j \in 1 .. n
        /\ places[i] = order[offset + i] /\ places[j] = order[offset + j]
    BY <1>3
  <2>2. i = j \/ offset + i < offset + j \/ offset + j < offset + i
    OBVIOUS
  <2> QED
    BY <1>2, <2>1, <2>2
<1>5. places \in Injection(1 .. l, Page(order, offset))
  <2>1. places \in [1 .. l -> Page(order, offset)]
    BY <1>3
  <2> HIDE DEF places
  <2> QED
    BY <1>4, <2>1 DEF Injection, IsInjective
<1>6. IsFiniteSet(Page(order, offset)) /\ Cardinality(Page(order, offset)) \in Nat
  <2>1. Page(order, offset) \subseteq S
    BY <1>2 DEF Page
  <2> QED
    BY <2>1, FS_Subset, FS_CardinalityType
<1>7. Cardinality(1 .. l) <= Cardinality(Page(order, offset))
  <2> HIDE DEF places
  <2> QED
    BY <1>5, <1>6, FS_Injection
<1>8. Cardinality(1 .. l) = l
  <2>1. 1 \in Int /\ l \in Int /\ ~(1 > l) /\ l - 1 + 1 = l
    BY <1>1
  <2>2. Cardinality(1 .. l) = IF 1 > l THEN 0 ELSE l - 1 + 1
    BY <2>1, FS_Interval
  <2> QED
    BY <2>1, <2>2
<1> QED
  BY <1>1, <1>6, <1>7, <1>8

\* What a page of one order shows of a forecast alone with its as_of.
LEMMA PageShowsTheAlone ==
  ASSUME NEW S \in SUBSET Forecasts, IsFiniteSet(S), NEW order \in Orders(S), NEW offset \in Nat,
         NEW f \in S, Alone(f)
  PROVE  /\ Position(f, S) \in Nat
         /\ Position(f, S) >= offset /\ Position(f, S) < offset + PageLimit => f \in Page(order, offset)
         /\ Cardinality(Page(order, offset)) < PageLimit => Position(f, S) < offset + PageLimit
<1>1. PICK n \in Nat : n = Cardinality(S)
  BY FS_CardinalityType
<1>2. PICK i \in 1 .. n : order[i] = f /\ Position(f, S) = i - 1
  BY <1>1, PlaceOfTheAlone
<1>3. order \in [1 .. n -> S] /\ PageLimit \in Nat
  BY <1>1, HistoryConstants DEF Orders
<1>4. ASSUME Position(f, S) >= offset, Position(f, S) < offset + PageLimit
      PROVE  f \in Page(order, offset)
  <2>1. i \in offset + 1 .. offset + PageLimit /\ i \in DOMAIN order
    BY <1>2, <1>3, <1>4
  <2> QED
    BY <1>2, <2>1 DEF Page
<1>5. ASSUME Cardinality(Page(order, offset)) < PageLimit
      PROVE  Position(f, S) < offset + PageLimit
  <2>1. n < offset + PageLimit
    BY <1>1, <1>5, ShortPageIsLast
  <2> QED
    BY <1>2, <1>3, <2>1
<1> QED
  BY <1>2, <1>4, <1>5

\* The types of a client that reads pages.
Pagers == [filter : Filters \cup {NotPaging.filter}, offset : Nat, start : SUBSET Forecasts,
           seen : SUBSET Forecasts, left : BOOLEAN, phase : {"idle", "reading", "read"}]

\* The forecasts a store has rows of.
Present(rows) == {f \in Forecasts : rows[f] # "absent"}

(* What a client that reads on has met, or will meet on a later page.       *)
Ahead(p, rows) ==
  /\ p.start \subseteq Listed(rows, p.filter)
  /\ \A f \in p.start : Alone(f) => f \in p.seen \/ Position(f, Listed(rows, p.filter)) >= p.offset

\* The inductive invariant of a client that reads pages while rows come in.
PageInv ==
  /\ DOMAIN row = Forecasts /\ IsFiniteSet(Present(row)) /\ pager \in Pagers
  /\ pager.phase = "reading" /\ ~pager.left => Ahead(pager, row)
  /\ PagesSkipNothing

\* A listing holds finitely many forecasts.
LEMMA ListedArePresent ==
  ASSUME NEW rows, IsFiniteSet(Present(rows)), NEW filter
  PROVE  Listed(rows, filter) \subseteq Forecasts /\ IsFiniteSet(Listed(rows, filter))
<1>1. Listed(rows, filter) \subseteq Present(rows)
  BY DEF Listed, Present
<1> QED
  BY <1>1, FS_Subset DEF Present

\* A client that reads nothing satisfies the invariant.
LEMMA PageInitial == HistoryInit => PageInv
<1> SUFFICES ASSUME HistoryInit PROVE PageInv
  OBVIOUS
<1>1. Present(row) = {}
  BY DEF HistoryInit, Present
<1>2. pager \in Pagers /\ pager.phase = "idle"
  BY DEF HistoryInit, Pagers, NotPaging
<1> QED
  BY <1>1, <1>2, FS_EmptySet DEF PageInv, HistoryInit, PagesSkipNothing

\* A commit between two pages moves nothing a client has still to read to a page it has read.
LEMMA PageCommit ==
  ASSUME PageInv, NEW s \in Sessions, CommitTx(s), tx[s].on \in Forecasts
  PROVE  PageInv'
<1>1. DOMAIN row = Forecasts /\ IsFiniteSet(Present(row)) /\ pager \in Pagers
  BY DEF PageInv
<1>2. PICK f \in Forecasts : f = tx[s].on
  OBVIOUS
<1>3. PICK left \in BOOLEAN :
        /\ left = ~(Listed(row, pager.filter) \subseteq Listed(row', pager.filter))
        /\ pager' = [pager EXCEPT !.left = @ \/ (left /\ pager.phase = "reading")]
  BY DEF CommitTx
<1>4. /\ DOMAIN row' = Forecasts /\ IsFiniteSet(Present(row'))
  <2>1. DOMAIN row' = Forecasts
    BY <1>1 DEF CommitTx
  <2>2. Present(row') \subseteq Present(row) \cup {f}
    BY <1>1, <1>2 DEF CommitTx, Present
  <2>3. IsFiniteSet(Present(row) \cup {f})
    BY <1>1, FS_AddElement
  <2> QED
    BY <2>1, <2>2, <2>3, FS_Subset
<1>5. PICK gone \in BOOLEAN : gone = (pager.left \/ (left /\ pager.phase = "reading"))
  OBVIOUS
<1>6. /\ pager' \in Pagers /\ pager'.left = gone /\ pager'.filter = pager.filter /\ pager'.offset = pager.offset
      /\ pager'.start = pager.start /\ pager'.seen = pager.seen /\ pager'.phase = pager.phase
  <2>1. pager' = [pager EXCEPT !.left = gone]
    BY <1>3, <1>5
  <2> QED
    BY <1>1, <2>1 DEF Pagers
<1>7. ASSUME pager.phase = "reading", ~gone
      PROVE  Ahead(pager', row')
  <2>1. ~pager.left /\ Listed(row, pager.filter) \subseteq Listed(row', pager.filter)
    BY <1>3, <1>5, <1>7
  <2>2. Ahead(pager, row)
    BY <1>7, <2>1 DEF PageInv
  <2> DEFINE S == Listed(row, pager.filter)
             T == Listed(row', pager.filter)
  <2>3. S \subseteq Forecasts /\ T \subseteq Forecasts /\ IsFiniteSet(T) /\ S \subseteq T
    BY <1>1, <1>4, <2>1, ListedArePresent
  <2>4. /\ pager.start \subseteq S
        /\ \A g \in pager.start : Alone(g) => g \in pager.seen \/ Position(g, S) >= pager.offset
    BY <2>2 DEF Ahead
  <2>5. pager.offset \in Nat
    BY <1>1 DEF Pagers
  <2> HIDE DEF S, T
  <2>6. \A g \in pager.start : Alone(g) => g \in pager.seen \/ Position(g, T) >= pager.offset
    <3> TAKE g \in pager.start
    <3> HAVE Alone(g)
    <3>1. Position(g, S) \in Nat /\ Position(g, T) \in Nat /\ Position(g, S) <= Position(g, T)
      BY <2>3, PositionsGrow
    <3> QED
      BY <2>4, <2>5, <3>1
  <2> QED
    BY <1>6, <2>3, <2>4, <2>6 DEF Ahead, T
<1>8. PagesSkipNothing'
  <2>1. pager.phase = "read" /\ ~gone => \A g \in pager.start : Alone(g) => g \in pager.seen
    BY <1>5 DEF PageInv, PagesSkipNothing, Alone
  <2> QED
    BY <1>6, <2>1 DEF PagesSkipNothing, Alone
<1>9. pager'.phase = "reading" /\ ~pager'.left => Ahead(pager', row')
  BY <1>6, <1>7
<1>10. (pager.phase = "reading" /\ ~pager.left => Ahead(pager, row))'
  BY <1>9 DEF Ahead, Listed, Position, Above, Alone, EffectiveStatus
<1> QED
  BY <1>4, <1>6, <1>8, <1>10 DEF PageInv, Present

\* Reading one page keeps the invariant.
LEMMA PageRead ==
  ASSUME PageInv, ReadPage
  PROVE  PageInv'
<1>1. /\ DOMAIN row = Forecasts /\ IsFiniteSet(Present(row)) /\ pager \in Pagers /\ pager.offset \in Nat
      /\ pager.phase = "reading" /\ row' = row
  BY DEF PageInv, ReadPage, Pagers
<1> DEFINE S == Listed(row, pager.filter)
<1>2. S \subseteq Forecasts /\ IsFiniteSet(S)
  BY <1>1, ListedArePresent
<1>0. PICK order \in Orders(S) :
        pager' = [pager EXCEPT !.seen = @ \cup Page(order, pager.offset), !.offset = @ + PageLimit,
                    !.phase = IF Cardinality(Page(order, pager.offset)) < PageLimit THEN "read" ELSE @]
  BY DEF ReadPage
<1>8. ~pager.left =>
        /\ pager.start \subseteq S
        /\ \A f \in pager.start : Alone(f) => f \in pager.seen \/ Position(f, S) >= pager.offset
  BY <1>1 DEF PageInv, Ahead
<1> HIDE DEF S
<1> DEFINE page == Page(order, pager.offset)
<1>3. PICK phase \in {"reading", "read"} : phase = IF Cardinality(page) < PageLimit THEN "read" ELSE "reading"
  OBVIOUS
<1>4. pager' = [pager EXCEPT !.seen = @ \cup page, !.offset = @ + PageLimit, !.phase = phase]
  BY <1>0, <1>1, <1>3
<1>5. page \subseteq Forecasts
  BY <1>2 DEF Page, Orders
<1>7. \A f \in S : Alone(f) =>
        /\ Position(f, S) \in Nat
        /\ Position(f, S) >= pager.offset /\ Position(f, S) < pager.offset + PageLimit => f \in page
        /\ Cardinality(page) < PageLimit => Position(f, S) < pager.offset + PageLimit
  BY <1>1, <1>2, PageShowsTheAlone
<1> HIDE DEF page
<1>9. /\ pager' \in Pagers /\ pager'.left = pager.left /\ pager'.filter = pager.filter
      /\ pager'.offset = pager.offset + PageLimit /\ pager'.start = pager.start
      /\ pager'.seen = pager.seen \cup page /\ pager'.phase = phase
  <2>1. pager.offset + PageLimit \in Nat
    BY <1>1, HistoryConstants
  <2> QED
    BY <1>1, <1>4, <1>5, <2>1 DEF Pagers
<1>10. ASSUME ~pager.left, NEW f \in pager.start, Alone(f)
       PROVE  /\ f \in pager.seen \cup page \/ Position(f, S) >= pager.offset + PageLimit
              /\ phase = "read" => f \in pager.seen \cup page
  <2>1. f \in S /\ (f \in pager.seen \/ Position(f, S) >= pager.offset) /\ Position(f, S) \in Nat
    BY <1>7, <1>8, <1>10
  <2>2. Position(f, S) < pager.offset + PageLimit \/ Position(f, S) >= pager.offset + PageLimit
    BY <1>1, <2>1, HistoryConstants
  <2>3. phase = "read" => Position(f, S) < pager.offset + PageLimit
    BY <1>3, <1>7, <1>10, <2>1
  <2> QED
    BY <1>7, <1>10, <2>1, <2>2, <2>3
<1>11. PagesSkipNothing'
  BY <1>9, <1>10 DEF PagesSkipNothing, Alone
<1>12. phase = "reading" /\ ~pager.left => Ahead(pager', row')
  BY <1>1, <1>8, <1>9, <1>10 DEF Ahead, S
<1>13. (pager.phase = "reading" /\ ~pager.left => Ahead(pager, row))'
  BY <1>9, <1>12 DEF Ahead, Listed, Position, Above, Alone, EffectiveStatus
<1> QED
  BY <1>1, <1>9, <1>11, <1>13 DEF PageInv, Present

\* Every step keeps the invariant of the pages.
LEMMA PageStep == HistoryInv /\ PageInv /\ [HistoryNext]_historyVars => PageInv'
<1> SUFFICES ASSUME HistoryInv, PageInv, [HistoryNext]_historyVars PROVE PageInv'
  OBVIOUS
<1>1. ASSUME UNCHANGED <<row, pager>>
      PROVE  PageInv'
  BY <1>1 DEF PageInv, Present, Ahead, PagesSkipNothing, Listed, Position, Above, Alone, EffectiveStatus
<1>2. ASSUME NEW s \in Sessions, NEW f \in Forecasts,
             (\E status \in Births : CreateForecast(s, f, status)) \/
             (\E w \in Withdrawals : StampUpdate(s, f, w)) \/ RecordOutcome(s, f)
      PROVE  PageInv'
  BY <1>1, <1>2 DEF CreateForecast, StampUpdate, RecordOutcome
<1>3. ASSUME NEW s \in Sessions, WriteUpdate(s) \/ RollbackTx(s)
      PROVE  PageInv'
  BY <1>1, <1>3 DEF WriteUpdate, RollbackTx
<1>4. ASSUME NEW s \in Sessions, CommitTx(s)
      PROVE  PageInv'
  <2>1. tx[s].phase = "written" /\ Uncommitted(tx[s], SecondOf[clock])
    BY <1>4 DEF CommitTx, HistoryInv, HistoryTypeOK
  <2>2. tx[s].on \in Forecasts
    BY <2>1 DEF Uncommitted, Idle
  <2> QED
    BY <1>4, <2>2, PageCommit
<1>5. ASSUME NEW filter \in Filters, OpenListing(filter)
      PROVE  PageInv'
  <2>1. pager' = [NotPaging EXCEPT !.filter = filter, !.start = Listed(row, filter), !.phase = "reading"] /\ row' = row
    BY <1>5 DEF OpenListing
  <2>2. DOMAIN row = Forecasts /\ IsFiniteSet(Present(row))
    BY DEF PageInv
  <2>3. Listed(row, filter) \subseteq Forecasts /\ IsFiniteSet(Listed(row, filter))
    BY <2>2, ListedArePresent
  <2>4. /\ pager' \in Pagers /\ pager'.filter = filter /\ pager'.offset = 0 /\ pager'.phase = "reading"
        /\ pager'.start = Listed(row, filter)
    BY <2>1, <2>3 DEF Pagers, NotPaging
  <2>5. \A f \in pager'.start : Position(f, Listed(row, filter)) >= 0
    BY <2>3, PositionsCount
  <2>6. Ahead(pager', row')
    BY <2>1, <2>4, <2>5 DEF Ahead
  <2>7. (pager.phase = "reading" /\ ~pager.left => Ahead(pager, row))'
    BY <2>6 DEF Ahead, Listed, Position, Above, Alone, EffectiveStatus
  <2> QED
    BY <2>1, <2>2, <2>4, <2>7 DEF PageInv, Present, PagesSkipNothing
<1>6. CASE ReadPage
  BY <1>6, PageRead
<1>7. CASE UNCHANGED historyVars
  BY <1>1, <1>7 DEF historyVars
<1> QED
  BY <1>2, <1>3, <1>4, <1>5, <1>6, <1>7 DEF HistoryNext

\* For any number of forecasts, sessions and any page size: a client that reads page after page misses
\* no forecast listed all along that shares its as_of with no other, and settled replays stay.
THEOREM PastHolds == HistorySpec => PastIsStable
<1>1. PageInv => PagesSkipNothing
  BY DEF PageInv
<1> QED
  BY <1>1, PastStaysFixed, HistoryInitial, HistoryStep, PageInitial, PageStep, PTL DEF HistorySpec, PastIsStable

-----------------------------------------------------------------------------
(* Whom the scheduler's jobs serve.                                        *)

\* No element occurs twice in s.
Once(s) == \A i, k \in DOMAIN s : s[i] = s[k] => i = k

\* p has the fields of a job's record.
IsJob(p) ==
  p = [step |-> p.step, listed |-> p.listed, at |-> p.at, hand |-> p.hand, served |-> p.served]

\* A job p that walks over the list s has served the positions before its own, but for the one in hand.
PassInv(p, s) ==
  /\ IsJob(p) /\ p.at \in Nat \ {0} /\ p.at - 1 <= Len(s)
  /\ p.step = "walking" => p.served = {s[i] : i \in 1 .. p.at - 1}
  /\ p.step = "serving" => /\ p.at > 1 /\ p.hand = s[p.at - 1]
                           /\ p.served = {s[i] : i \in 1 .. p.at - 2}

\* The inductive invariant of the jobs: what a pass has behind it are the positions before its own.
IngestInv ==
  /\ subscriptions \in Seq(Pairs) /\ Once(subscriptions)
  /\ job = [j \in Jobs |-> job[j]]
  /\ \A j \in Jobs : PassInv(job[j], subscriptions)

\* Adding new elements, each once, repeats nothing.
LEMMA NewOnesAppended ==
  ASSUME NEW s \in Seq(Pairs), Once(s), NEW new \in Seq(Pairs), Once(new),
         \A i \in DOMAIN s, k \in DOMAIN new : s[i] # new[k]
  PROVE  s \o new \in Seq(Pairs) /\ Once(s \o new)
<1>1. PICK n \in Nat : n = Len(s) /\ DOMAIN s = 1 .. n
  OBVIOUS
<1>2. PICK m \in Nat : m = Len(new) /\ DOMAIN new = 1 .. m
  OBVIOUS
<1>3. PICK t : t = s \o new
  OBVIOUS
<1>4. /\ t \in Seq(Pairs) /\ DOMAIN t = 1 .. n + m
      /\ \A i \in 1 .. n + m : t[i] = IF i <= n THEN s[i] ELSE new[i - n]
  BY <1>1, <1>2, <1>3
<1>5. ASSUME NEW i \in 1 .. n + m, NEW k \in 1 .. n + m, t[i] = t[k] PROVE i = k
  <2>1. CASE i <= n /\ k <= n
    BY <1>1, <1>4, <1>5, <2>1 DEF Once
  <2>2. CASE i > n /\ k > n
    <3>1. i - n \in 1 .. m /\ k - n \in 1 .. m /\ new[i - n] = new[k - n]
      BY <1>4, <1>5, <2>2
    <3>2. i - n = k - n
      BY <1>2, <3>1 DEF Once
    <3> QED
      BY <3>2
  <2>3. CASE i <= n /\ k > n
    <3>1. k - n \in 1 .. m /\ s[i] = new[k - n]
      BY <1>4, <1>5, <2>3
    <3> QED
      BY <1>1, <1>2, <2>3, <3>1
  <2>4. CASE i > n /\ k <= n
    <3>1. i - n \in 1 .. m /\ s[k] = new[i - n]
      BY <1>4, <1>5, <2>4
    <3> QED
      BY <1>1, <1>2, <2>4, <3>1
  <2> QED
    BY <2>1, <2>2, <2>3, <2>4
<1> QED
  BY <1>3, <1>4, <1>5 DEF Once

\* A sorted list of a set repeats nothing.
LEMMA SortedOnce ==
  ASSUME NEW found \in SUBSET Pairs, NEW new \in Sorted(found)
  PROVE  new \in Seq(found) /\ Once(new)
<1>1. IsFiniteSet(found)
  BY FS_Subset, IngestAssumption
<1>2. PICK n \in Nat : n = Cardinality(found)
  BY <1>1, FS_CardinalityType
<1>3. new \in [1 .. n -> found] /\ \A i, k \in 1 .. n : i < k => new[i] < new[k]
  BY <1>2 DEF Sorted
<1>4. ASSUME NEW i \in 1 .. n, NEW k \in 1 .. n, new[i] = new[k] PROVE i = k
  <2>1. new[i] \in Nat /\ new[k] \in Nat
    BY <1>3, IngestAssumption
  <2>2. ~(i < k) /\ ~(k < i)
    BY <1>3, <1>4, <2>1
  <2> QED
    BY <2>2
<1> QED
  BY <1>3, <1>4 DEF Once

\* A job subscribes only to pairs it does not know.
LEMMA DiscoveredOnce ==
  ASSUME IngestInv, NEW j \in Jobs, NEW trading \in SUBSET Pairs, Discovered(j, trading)
  PROVE  \E new \in Seq(Pairs) : /\ subscriptions' = subscriptions \o new
                                 /\ subscriptions' \in Seq(Pairs) /\ Once(subscriptions')
<1> DEFINE found == (trading \cup Defaults) \ Subscribed
<1>1. PICK new \in Sorted(found) : subscriptions' = subscriptions \o new
  BY DEF Discovered, Known
<1>2. found \in SUBSET Pairs /\ \A i \in DOMAIN subscriptions : subscriptions[i] \notin found
  BY IngestAssumption DEF Subscribed
<1> HIDE DEF found
<1>3. new \in Seq(found) /\ Once(new)
  BY <1>2, SortedOnce
<1>4. new \in Seq(Pairs) /\ \A k \in DOMAIN new : new[k] \in found
  BY <1>2, <1>3
<1>5. Once(subscriptions) /\ subscriptions \in Seq(Pairs)
  BY DEF IngestInv
<1>6. \A i \in DOMAIN subscriptions, k \in DOMAIN new : subscriptions[i] # new[k]
  BY <1>2, <1>4
<1>7. subscriptions \o new \in Seq(Pairs) /\ Once(subscriptions \o new)
  BY <1>3, <1>4, <1>5, <1>6, NewOnesAppended
<1> QED
  BY <1>1, <1>4, <1>7

\* A list that grows at its end leaves what a pass has behind it where it was.
LEMMA PassOutlivesGrowth ==
  ASSUME NEW s \in Seq(Pairs), NEW new \in Seq(Pairs), NEW p, PassInv(p, s)
  PROVE  PassInv(p, s \o new)
<1>1. PICK n \in Nat : n = Len(s)
  OBVIOUS
<1>2. PICK m \in Nat : m = Len(new)
  OBVIOUS
<1>3. PICK t : t = s \o new
  OBVIOUS
<1>4. Len(t) = n + m /\ \A i \in 1 .. n : t[i] = s[i]
  BY <1>1, <1>2, <1>3
<1>5. PICK k \in Nat : k = p.at
  BY DEF PassInv
<1>6. k > 0 /\ k - 1 <= n
  BY <1>1, <1>5 DEF PassInv
<1>7. k - 1 <= n + m
  BY <1>6
<1>8. \A i \in 1 .. k - 1 : i \in 1 .. n
  BY <1>6
<1>9. {t[i] : i \in 1 .. k - 1} = {s[i] : i \in 1 .. k - 1}
  BY <1>4, <1>8
<1>10. {t[i] : i \in 1 .. k - 2} = {s[i] : i \in 1 .. k - 2}
  <2>1. \A i \in 1 .. k - 2 : i \in 1 .. n
    BY <1>6
  <2> QED
    BY <1>4, <2>1
<1>11. CASE p.step = "serving"
  <2>1. k > 1 /\ p.hand = s[k - 1] /\ p.served = {s[i] : i \in 1 .. k - 2}
    BY <1>5, <1>11 DEF PassInv
  <2>2. t[k - 1] = s[k - 1]
    BY <1>4, <1>6, <2>1
  <2>3. p.at \in Nat \ {0} /\ p.at - 1 <= Len(t) /\ p.step # "walking"
    BY <1>4, <1>5, <1>6, <1>7, <1>11
  <2> QED
    BY <1>3, <1>5, <1>10, <2>1, <2>2, <2>3 DEF PassInv
<1>12. CASE p.step # "serving"
  <2>1. p.at \in Nat \ {0} /\ p.at - 1 <= Len(t)
    BY <1>4, <1>5, <1>6, <1>7
  <2>2. p.step = "walking" => p.served = {s[i] : i \in 1 .. k - 1}
    BY <1>5 DEF PassInv
  <2> QED
    BY <1>3, <1>5, <1>9, <1>12, <2>1, <2>2 DEF PassInv
<1> QED
  BY <1>11, <1>12

\* A job at rest, discovering, fetching or about to take its first element satisfies its part.
LEMMA FreshPass ==
  ASSUME NEW s \in Seq(Pairs), NEW p, IsJob(p),
         p.step # "serving", p.at = 1, p.served = {}
  PROVE  PassInv(p, s)
<1>1. Len(s) \in Nat
  OBVIOUS
<1>2. {s[i] : i \in 1 .. 1 - 1} = {}
  OBVIOUS
<1> QED
  BY <1>1, <1>2 DEF PassInv

\* Before the first job the invariant holds.
LEMMA IngestInitial == IngestInit => IngestInv
<1> SUFFICES ASSUME IngestInit PROVE IngestInv
  OBVIOUS
<1>1. subscriptions \in Seq(Pairs) /\ Once(subscriptions)
  BY IngestAssumption DEF IngestInit, Once
<1>2. ASSUME NEW j \in Jobs PROVE PassInv(job[j], subscriptions)
  <2>1. job[j] = Dormant
    BY DEF IngestInit
  <2>2. IsJob(job[j]) /\ job[j].step # "serving" /\ job[j].at = 1 /\ job[j].served = {}
    BY <2>1 DEF Dormant, IsJob
  <2> QED
    BY <1>1, <2>2, FreshPass
<1> QED
  BY <1>1, <1>2 DEF IngestInv, IngestInit

\* A step that gives one job a record that satisfies its part, the list unchanged, keeps the invariant.
LEMMA OneJobMoves ==
  ASSUME IngestInv, NEW j \in Jobs, NEW p, job' = [job EXCEPT ![j] = p],
         subscriptions' = subscriptions, PassInv(p, subscriptions)
  PROVE  IngestInv'
<1>1. job' = [i \in Jobs |-> IF i = j THEN p ELSE job[i]]
  BY DEF IngestInv
<1>2. ASSUME NEW i \in Jobs PROVE PassInv(job'[i], subscriptions)
  <2>1. job'[i] = p \/ job'[i] = job[i]
    BY <1>1
  <2> QED
    BY <2>1 DEF IngestInv
<1>3. job' = [i \in Jobs |-> job'[i]]
  BY <1>1
<1> QED
  BY <1>2, <1>3 DEF IngestInv

\* Taking the next element, or ending at the end of the list as it is then.
LEMMA TakingKeeps ==
  ASSUME IngestInv, NEW j \in Jobs, TakeNext(j)
  PROVE  IngestInv'
<1>1. PICK p : p = job[j]
  OBVIOUS
<1>2. PassInv(p, subscriptions) /\ subscriptions \in Seq(Pairs) /\ p.step = "walking"
  BY <1>1 DEF IngestInv, TakeNext
<1>3. PICK n \in Nat : n = Len(subscriptions)
  BY <1>2
<1>4. PICK k \in Nat \ {0} : k = p.at
  BY <1>2 DEF PassInv
<1>5. subscriptions' = subscriptions
  BY DEF TakeNext
<1>6. CASE k > n
  <2>1. job' = [job EXCEPT ![j] = Dormant]
    BY <1>1, <1>3, <1>4, <1>6 DEF TakeNext
  <2>2. IsJob(Dormant) /\ Dormant.step # "serving" /\ Dormant.at = 1 /\ Dormant.served = {}
    BY DEF Dormant, IsJob
  <2>3. PassInv(Dormant, subscriptions)
    BY <1>2, <2>2, FreshPass
  <2> QED
    BY <1>5, <2>1, <2>3, OneJobMoves
<1>7. CASE ~(k > n)
  <2>1. PICK q : q = [p EXCEPT !.step = "serving", !.hand = subscriptions[p.at], !.at = p.at + 1]
    OBVIOUS
  <2>2. job' = [job EXCEPT ![j] = q]
    BY <1>1, <1>3, <1>4, <1>7, <2>1 DEF TakeNext
  <2>3. IsJob(p)
    BY <1>2 DEF PassInv
  <2>4. IsJob(q) /\ q.step = "serving" /\ q.hand = subscriptions[k] /\ q.at = k + 1 /\ q.served = p.served
    BY <1>4, <2>1, <2>3 DEF IsJob
  <2>5. p.served = {subscriptions[i] : i \in 1 .. k - 1}
    BY <1>2, <1>4 DEF PassInv
  <2>6. k + 1 \in Nat \ {0} /\ k + 1 > 1 /\ (k + 1) - 1 = k /\ (k + 1) - 2 = k - 1 /\ k <= n
    BY <1>7
  <2>7. PassInv(q, subscriptions)
    BY <1>3, <2>4, <2>5, <2>6 DEF PassInv
  <2> QED
    BY <1>5, <2>2, <2>7, OneJobMoves
<1> QED
  BY <1>6, <1>7

\* What was in hand joins what was served.
LEMMA ServingKeeps ==
  ASSUME IngestInv, NEW j \in Jobs, Serve(j)
  PROVE  IngestInv'
<1>1. PICK p : p = job[j]
  OBVIOUS
<1>2. PassInv(p, subscriptions) /\ subscriptions \in Seq(Pairs) /\ p.step = "serving"
  BY <1>1 DEF IngestInv, Serve
<1>3. IsJob(p) /\ p.at \in Nat \ {0}
  BY <1>2 DEF PassInv
<1>4. PICK q : q = [p EXCEPT !.step = "walking", !.served = p.served \cup {p.hand}]
  OBVIOUS
<1>5. job' = [job EXCEPT ![j] = q] /\ subscriptions' = subscriptions
  BY <1>1, <1>4 DEF Serve
<1>6. IsJob(q) /\ q.step = "walking" /\ q.at = p.at /\ q.served = p.served \cup {p.hand}
  BY <1>3, <1>4 DEF IsJob
<1>7. PICK k \in Nat \ {0} : k = p.at
  BY <1>3
<1>8. /\ k > 1 /\ p.hand = subscriptions[k - 1] /\ k - 1 <= Len(subscriptions)
      /\ p.served = {subscriptions[i] : i \in 1 .. k - 2}
  BY <1>2, <1>7 DEF PassInv
<1>9. \A i \in Nat : i \in 1 .. k - 1 <=> i \in 1 .. k - 2 \/ i = k - 1
  BY <1>7, <1>8
<1>10. {subscriptions[i] : i \in 1 .. k - 1} = p.served \cup {p.hand}
  <2>1. \A i \in 1 .. k - 1 : i \in 1 .. k - 2 \/ i = k - 1
    BY <1>9
  <2>2. \A i \in 1 .. k - 2 : i \in 1 .. k - 1
    BY <1>9
  <2>3. k - 1 \in 1 .. k - 1
    BY <1>7, <1>8
  <2> QED
    BY <1>8, <2>1, <2>2, <2>3
<1>11. PassInv(q, subscriptions)
  BY <1>6, <1>7, <1>8, <1>10 DEF PassInv
<1> QED
  BY <1>5, <1>11, OneJobMoves

\* A job that rests, starts or has synchronised the list has its part, whatever it did before.
LEMMA FreshJobMoves ==
  ASSUME IngestInv, NEW j \in Jobs, NEW p, job' = [job EXCEPT ![j] = p],
         subscriptions' = subscriptions, IsJob(p), p.step # "serving", p.at = 1, p.served = {}
  PROVE  IngestInv'
<1>1. subscriptions \in Seq(Pairs)
  BY DEF IngestInv
<1>2. PassInv(p, subscriptions)
  BY <1>1, FreshPass
<1> QED
  BY <1>2, OneJobMoves

\* The record of a job that has synchronised the list.
LEMMA SyncedIsFresh ==
  ASSUME NEW j
  PROVE  IsJob(Synced(j)) /\ Synced(j).step # "serving" /\ Synced(j).at = 1 /\ Synced(j).served = {}
BY DEF Synced, Dormant, IsJob

\* Every step of the jobs keeps the invariant.
LEMMA IngestKept == IngestInv /\ [IngestNext]_ingestVars => IngestInv'
<1> SUFFICES ASSUME IngestInv, [IngestNext]_ingestVars PROVE IngestInv'
  OBVIOUS
<1>1. IsJob(Dormant) /\ Dormant.step # "serving" /\ Dormant.at = 1 /\ Dormant.served = {}
  BY DEF Dormant, IsJob
<1>2. ASSUME NEW j \in Jobs, StartJob(j) PROVE IngestInv'
  <2>1. PICK p : p = [Dormant EXCEPT !.step = "discovering", !.listed = Subscribed]
    OBVIOUS
  <2>2. job' = [job EXCEPT ![j] = p] /\ subscriptions' = subscriptions
    BY <1>2, <2>1 DEF StartJob
  <2>3. IsJob(p) /\ p.step # "serving" /\ p.at = 1 /\ p.served = {}
    BY <2>1 DEF Dormant, IsJob
  <2> QED
    BY <2>2, <2>3, FreshJobMoves
<1>3. ASSUME NEW j \in Jobs, NEW trading \in SUBSET Pairs, Discovered(j, trading) PROVE IngestInv'
  <2>1. PICK new \in Seq(Pairs) : /\ subscriptions' = subscriptions \o new
                                  /\ subscriptions' \in Seq(Pairs) /\ Once(subscriptions')
    BY <1>3, DiscoveredOnce
  <2>2. job' = [job EXCEPT ![j] = Synced(j)]
    BY <1>3 DEF Discovered
  <2>3. job' = [i \in Jobs |-> IF i = j THEN Synced(j) ELSE job[i]]
    BY <2>2 DEF IngestInv
  <2>4. ASSUME NEW i \in Jobs PROVE PassInv(job'[i], subscriptions')
    <3>1. CASE job'[i] = Synced(j)
      <4>1. IsJob(Synced(j)) /\ Synced(j).step # "serving" /\ Synced(j).at = 1 /\ Synced(j).served = {}
        BY SyncedIsFresh
      <4>2. PassInv(Synced(j), subscriptions')
        BY <2>1, <4>1, FreshPass
      <4> QED
        BY <3>1, <4>2
    <3>2. CASE job'[i] = job[i]
      <4>1. PassInv(job[i], subscriptions) /\ subscriptions \in Seq(Pairs)
        BY DEF IngestInv
      <4>2. PassInv(job[i], subscriptions \o new)
        BY <4>1, PassOutlivesGrowth
      <4> QED
        BY <2>1, <3>2, <4>2
    <3>3. job'[i] = Synced(j) \/ job'[i] = job[i]
      BY <2>3
    <3> QED
      BY <3>1, <3>2, <3>3
  <2>5. job' = [i \in Jobs |-> job'[i]]
    BY <2>3
  <2> QED
    BY <2>1, <2>4, <2>5 DEF IngestInv
<1>4. ASSUME NEW j \in Jobs, SyncFails(j) PROVE IngestInv'
  <2>1. job' = [job EXCEPT ![j] = Synced(j)] /\ subscriptions' = subscriptions
    BY <1>4 DEF SyncFails
  <2>2. IsJob(Synced(j)) /\ Synced(j).step # "serving" /\ Synced(j).at = 1 /\ Synced(j).served = {}
    BY SyncedIsFresh
  <2> QED
    BY <2>1, <2>2, FreshJobMoves
<1>5. ASSUME NEW j \in Jobs, TakeNext(j) PROVE IngestInv'
  BY <1>5, TakingKeeps
<1>6. ASSUME NEW j \in Jobs, Serve(j) PROVE IngestInv'
  BY <1>6, ServingKeeps
<1>7. ASSUME NEW j \in Jobs, PassBreaks(j) \/ FlushFails(j) PROVE IngestInv'
  <2>1. job' = [job EXCEPT ![j] = Dormant] /\ subscriptions' = subscriptions
    BY <1>7 DEF PassBreaks, FlushFails
  <2> QED
    BY <1>1, <2>1, FreshJobMoves
<1>8. CASE IngestFetched
  <2>1. job' = [job EXCEPT ![IngestJob] = Dormant] /\ subscriptions' = subscriptions
    BY <1>8 DEF IngestFetched
  <2> QED
    BY <1>1, <2>1, FreshJobMoves DEF Jobs
<1>9. CASE StartBacktest
  <2>1. PICK p : p = [Dormant EXCEPT !.step = "walking"]
    OBVIOUS
  <2>2. job' = [job EXCEPT ![BacktestJob] = p] /\ subscriptions' = subscriptions
    BY <1>9, <2>1 DEF StartBacktest
  <2>3. IsJob(p) /\ p.step # "serving" /\ p.at = 1 /\ p.served = {}
    BY <2>1 DEF Dormant, IsJob
  <2> QED
    BY <2>2, <2>3, FreshJobMoves DEF Jobs
<1>10. CASE UNCHANGED ingestVars
  BY <1>10 DEF ingestVars, IngestInv
<1> QED
  BY <1>2, <1>3, <1>4, <1>5, <1>6, <1>7, <1>8, <1>9, <1>10 DEF IngestNext

\* The positions before and after a pass's own make up the list, and share nothing.
LEMMA ListIsSplit ==
  ASSUME NEW s \in Seq(Pairs), Once(s), NEW k \in Nat \ {0}, k - 1 <= Len(s)
  PROVE  /\ {s[i] : i \in 1 .. k - 1} \cup {s[i] : i \in k .. Len(s)} = {s[i] : i \in DOMAIN s}
         /\ {s[i] : i \in 1 .. k - 1} \cap {s[i] : i \in k .. Len(s)} = {}
<1>1. PICK n \in Nat : n = Len(s) /\ DOMAIN s = 1 .. n
  OBVIOUS
<1>2. k - 1 <= n
  BY <1>1
<1>3. \A i \in 1 .. n : i \in 1 .. k - 1 \/ i \in k .. n
  BY <1>1
<1>4. \A i \in 1 .. k - 1 : i \in 1 .. n
  BY <1>1, <1>2
<1>5. \A i \in k .. n : i \in 1 .. n
  BY <1>1
<1>6. \A i \in 1 .. k - 1, l \in k .. n : i # l
  BY <1>1
<1> QED
  BY <1>1, <1>3, <1>4, <1>5, <1>6 DEF Once

\* What the pass of a job looks like, said of the list as it is now.
LEMMA PassIsWhole ==
  ASSUME IngestInv, NEW j \in Jobs, job[j].step \in {"walking", "serving"}
  PROVE  /\ Behind(j) \cup StillAhead(j) = Subscribed
         /\ Behind(j) \cap StillAhead(j) = {}
         /\ job[j].step = "serving" => job[j].hand \notin job[j].served
<1>1. PICK p : p = job[j]
  OBVIOUS
<1>2. PICK s : s = subscriptions
  OBVIOUS
<1>3. s \in Seq(Pairs) /\ Once(s) /\ PassInv(p, s)
  BY <1>1, <1>2 DEF IngestInv
<1>4. PICK k \in Nat \ {0} : k = p.at
  BY <1>3 DEF PassInv
<1>5. k - 1 <= Len(s)
  BY <1>3, <1>4 DEF PassInv
<1>6. PICK n \in Nat : n = Len(s) /\ DOMAIN s = 1 .. n
  BY <1>3
<1>7. Behind(j) = {s[i] : i \in 1 .. k - 1} /\ (p.step = "serving" => p.hand \notin p.served)
  <2>1. CASE p.step = "walking"
    BY <1>1, <1>3, <1>4, <2>1 DEF PassInv, Behind
  <2>2. CASE p.step = "serving"
    <3>1. k > 1 /\ p.hand = s[k - 1] /\ p.served = {s[i] : i \in 1 .. k - 2}
      BY <1>3, <1>4, <2>2 DEF PassInv
    <3>2. Behind(j) = p.served \cup {p.hand}
      BY <1>1, <2>2 DEF Behind
    <3>3. \A i \in 1 .. k - 1 : i \in 1 .. k - 2 \/ i = k - 1
      BY <3>1
    <3>4. \A i \in 1 .. k - 2 : i \in 1 .. k - 1 /\ i # k - 1 /\ i \in 1 .. n
      BY <1>5, <1>6, <3>1
    <3>5. k - 1 \in 1 .. k - 1 /\ k - 1 \in 1 .. n
      BY <1>5, <1>6, <3>1
    <3>6. {s[i] : i \in 1 .. k - 1} = p.served \cup {p.hand}
      BY <3>1, <3>3, <3>4, <3>5
    <3>7. p.hand \notin p.served
      BY <1>3, <1>6, <3>1, <3>4, <3>5 DEF Once
    <3> QED
      BY <3>2, <3>6, <3>7
  <2> QED
    BY <1>1, <2>1, <2>2
<1>8. /\ {s[i] : i \in 1 .. k - 1} \cup {s[i] : i \in k .. Len(s)} = {s[i] : i \in DOMAIN s}
      /\ {s[i] : i \in 1 .. k - 1} \cap {s[i] : i \in k .. Len(s)} = {}
  BY <1>3, <1>5, ListIsSplit
<1>9. StillAhead(j) = {s[i] : i \in k .. Len(s)} /\ Subscribed = {s[i] : i \in DOMAIN s}
  BY <1>1, <1>2, <1>4 DEF StillAhead, Subscribed
<1> QED
  BY <1>1, <1>7, <1>8, <1>9

\* For any pairs and any list to start from: however discoveries overlap with the passes over the
\* list, no pair is subscribed twice and a pass has every subscribed pair behind it or ahead of it,
\* never both and never neither.
THEOREM PassesServe == IngestSpec => []PassesServeEachOnce
<1>1. IngestInit => IngestInv
  BY IngestInitial
<1>2. IngestInv /\ [IngestNext]_ingestVars => IngestInv'
  BY IngestKept
<1>3. ASSUME IngestInv PROVE PassesServeEachOnce
  <2>1. \A i, k \in DOMAIN subscriptions : subscriptions[i] = subscriptions[k] => i = k
    BY <1>3 DEF IngestInv, Once
  <2>2. ASSUME NEW j \in Jobs, job[j].step \in {"walking", "serving"}
        PROVE  /\ Behind(j) \cup StillAhead(j) = Subscribed
               /\ Behind(j) \cap StillAhead(j) = {}
               /\ job[j].step = "serving" => job[j].hand \notin job[j].served
    BY <1>3, <2>2, PassIsWhole
  <2> QED
    BY <2>1, <2>2 DEF PassesServeEachOnce
<1> QED
  BY <1>1, <1>2, <1>3, PTL DEF IngestSpec
=============================================================================

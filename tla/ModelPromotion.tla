----------------------------- MODULE ModelPromotion -----------------------------
(***************************************************************************)
(* The model registry of futuris/storage/repositories.py: versions of one  *)
(* family are registered, evaluated and promoted, by sessions that read,   *)
(* write and commit at different times.  The demoting UPDATE covers the    *)
(* rows its session could see when it began, and waits for those that      *)
(* another session has locked (READ COMMITTED).                            *)
(***************************************************************************)
EXTENDS Naturals, FiniteSets

CONSTANTS
  Versions,     (* model versions of the family                            *)
  Scores,       (* benchmark_scores of each: its metrics, or NoScores      *)
  Promoters,    (* sessions that call promote                              *)
  NoVersion, NoScores,
  Missing       (* a metric that the scores do not hold                    *)

Metrics == {"mae", "ece"}

ASSUME PromotionAssumption ==
  /\ Scores \in [Versions -> [Metrics -> Nat \cup {Missing}] \cup {NoScores}]
  /\ NoVersion \notin Versions

VARIABLES
  registered,   (* committed rows                                          *)
  active,       (* the committed rows that say is_active                   *)
  stale,        (* versions whose latest evaluation run is too old         *)
  promotion,    (* per call: phase, version, the rows its UPDATE covers    *)
                (* and those it has demoted                                *)
  unseen        (* active versions that an UPDATE under way did not see    *)

promotionVars == <<registered, active, stale, promotion, unseen>>

NoCallYet == [phase |-> "off", version |-> NoVersion, covers |-> {}, demoted |-> {}]

PromotionInit ==
  /\ registered = {} /\ active = {} /\ unseen = {} /\ stale = {}
  /\ promotion = [p \in Promoters |-> NoCallYet]

\* A session may register the version it promotes in the same transaction: the row is then
\* committed with the promotion, and nobody else inserts it before.
FirstSeen(v) == \A q \in Promoters : promotion[q].version # v

RegisterModel(v) ==
  /\ v \notin registered /\ FirstSeen(v)
  /\ registered' = registered \cup {v}
  /\ UNCHANGED <<active, stale, promotion, unseen>>

\* A run is saved, and is too old after 30 days; a version that was never run passes.
SaveRun(v) ==
  /\ v \in stale /\ stale' = stale \ {v}
  /\ UNCHANGED <<registered, active, promotion, unseen>>
RunAges(v) ==
  /\ v \in registered \ stale /\ stale' = stale \cup {v}
  /\ UNCHANGED <<registered, active, promotion, unseen>>

MoveOn(p, phase) == promotion' = [promotion EXCEPT ![p].phase = phase]
CallOver(p, phase) == promotion' = [promotion EXCEPT ![p] = [NoCallYet EXCEPT !.phase = phase]]
Candidate(p) == promotion[p].version

\* The row, whether it holds scores, and the age of the latest run if there is one.
CheckCandidate(p) ==
  /\ promotion[p].phase = "off"
  /\ \E v \in Versions :
       /\ v \in registered \/ FirstSeen(v)
       /\ IF Scores[v] # NoScores /\ v \notin stale
          THEN promotion' = [promotion EXCEPT ![p].phase = "compare", ![p].version = v]
          ELSE CallOver(p, "refused")
  /\ UNCHANGED <<registered, active, stale, unseen>>

\* A candidate without the metric counts as infinitely bad, an active model without it (or
\* with 0) as nothing to compare with.
WorseOn(metric, v, w) ==
  /\ Scores[w][metric] \notin {Missing, 0}
  /\ Scores[v][metric] = Missing \/ Scores[v][metric] > Scores[w][metric]
Worse(v, w) == \E metric \in Metrics : WorseOn(metric, v, w)

\* current_active, and the gate.
Compare(p) ==
  /\ promotion[p].phase = "compare"
  /\ IF \E w \in active \ {Candidate(p)} : Worse(Candidate(p), w)
     THEN CallOver(p, "refused") ELSE MoveOn(p, "demote")
  /\ UNCHANGED <<registered, active, stale, unseen>>

\* UPDATE of the family begins: the rows that are committed by then, and the session's own.
BeginDemotion(p) ==
  /\ promotion[p].phase = "demote"
  /\ promotion' = [promotion EXCEPT ![p].phase = "waiting",
                                    ![p].covers = registered \cup {Candidate(p)}]
  /\ UNCHANGED <<registered, active, stale, unseen>>

\* The mutant: the rows are read and written back without a lock.
MutantRowsFree(p) == TRUE

\* It has its rows when no other session holds one of them any more.
RowsFree(p) ==
  \A q \in Promoters \ {p} :
    promotion[q].phase = "commit" => promotion[q].covers \cap promotion[p].covers = {}

\* Of the rows it covers the UPDATE demotes those that are active when it gets them,
\* whoever promoted them in the meantime.
Demote(p) ==
  /\ promotion[p].phase = "waiting" /\ RowsFree(p)
  /\ promotion' = [promotion EXCEPT ![p].phase = "commit",
                                    ![p].demoted = active \cap promotion[p].covers]
  /\ UNCHANGED <<registered, active, stale, unseen>>

\* An UPDATE that began before the candidate's row was committed does not see it.
Misses(q, v) == promotion[q].phase \in {"waiting", "commit"} /\ v \notin promotion[q].covers

CommitPromotion(p) ==
  /\ promotion[p].phase = "commit"
  /\ registered' = registered \cup {Candidate(p)}
  /\ active' = (active \ promotion[p].demoted) \cup {Candidate(p)}
  /\ unseen' = (unseen \ promotion[p].demoted)
                \cup {v \in {Candidate(p)} : \E q \in Promoters \ {p} : Misses(q, v)}
  /\ CallOver(p, "promoted")
  /\ UNCHANGED stale

\* The session fails, is the victim of a deadlock, or its process ends: a rollback.
PromotionFails(p) ==
  /\ promotion[p].phase \in {"compare", "demote", "waiting", "commit"}
  /\ CallOver(p, "refused")
  /\ UNCHANGED <<registered, active, stale, unseen>>

PromotionNext ==
  \/ \E v \in Versions : RegisterModel(v) \/ SaveRun(v) \/ RunAges(v)
  \/ \E p \in Promoters : \/ CheckCandidate(p) \/ Compare(p) \/ BeginDemotion(p) \/ Demote(p)
                          \/ CommitPromotion(p) \/ PromotionFails(p)

PromotionSpec == PromotionInit /\ [][PromotionNext]_promotionVars

-----------------------------------------------------------------------------
(* Properties.                                                             *)

(* However promotions overlap, the family has one active model, but for    *)
(* those that were registered and promoted in one transaction while the    *)
(* UPDATE of another promotion was already under way: that one does not    *)
(* see the row and leaves it active beside its own                         *)
(* (ModelRepository.promote, "Deactivate existing active models").         *)
OneActiveModel ==
  \A v, w \in active \ unseen : v = w
=============================================================================

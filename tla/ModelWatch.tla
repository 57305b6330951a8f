----------------------------- MODULE ModelWatch -----------------------------
(***************************************************************************)
(* The two in-process services that watch the models: the drift detector   *)
(* (predict/prediction_drift_detector.py) compares a model's last errors   *)
(* with its older ones, and the ensemble selector                          *)
(* (predict/ensemble_model_selector.py) weighs registered models by their  *)
(* score.  Neither awaits anything, so every handler is one step; neither  *)
(* ever forgets.                                                           *)
(*                                                                         *)
(* An error is an integer, ErrorUnit of which make 1.0.  Of a model's      *)
(* metrics only the score matters, an integer too.                         *)
(***************************************************************************)
EXTENDS Integers, Sequences, FiniteSets

CONSTANTS
  Models,        (* names                                                 *)
  Watched,       (* those the drift detector is told of                   *)
  Errors,        (* |predicted - actual|, in 1/ErrorUnit                  *)
  ErrorUnit,
  Recent,        (* how many samples count as recent (5)                  *)
  Scores,        (* scores of registered models, in 1/ErrorUnit           *)
  Lists,         (* lists of names ensembles are asked for                *)
  Unregistered,  (* score of a model that is not registered               *)
  MaxSamples     (* bound: samples per model                              *)

ASSUME WatchAssumption ==
  /\ Recent \in Nat \ {0} /\ ErrorUnit \in Nat \ {0} /\ Errors \subseteq Nat
  /\ Scores \subseteq Int /\ Unregistered \notin Scores
  /\ IsFiniteSet(Models) /\ Watched \subseteq Models /\ Lists \subseteq Seq(Models)

VARIABLES
  samples,       (* samples[m]: the errors recorded, oldest first         *)
  alerted,       (* alerted[m]: how many samples m had at its alerts      *)
  score,         (* score[m]: of the registered models                    *)
  ensemble       (* the last composition: its list, the scores it was     *)
                 (* made from, and its weights                            *)

watchVars == <<samples, alerted, score, ensemble>>

NoEnsemble == [names |-> <<>>, scores |-> [m \in Models |-> Unregistered], weights |-> {}]

WatchInit ==
  /\ samples = [m \in Watched |-> <<>>] /\ alerted = [m \in Watched |-> {}]
  /\ score = [m \in Models |-> Unregistered] /\ ensemble = NoEnsemble

SumOf(s) == LET f[i \in 0 .. Len(s)] == IF i = 0 THEN 0 ELSE f[i - 1] + s[i] IN f[Len(s)]
AtLeast(n, low) == IF n < low THEN low ELSE n

-----------------------------------------------------------------------------
(* The drift detector.                                                     *)

Latest(s) == SubSeq(s, Len(s) - Recent + 1, Len(s))
Older(s) == SubSeq(s, 1, Len(s) - Recent)
Comparable(s) == Len(s) > Recent

Exceeds(s) ==
  10 * (SumOf(Latest(s)) * Len(Older(s)) - SumOf(Older(s)) * Recent)
    > 3 * AtLeast(SumOf(Older(s)) * Recent, ErrorUnit * Recent * Len(Older(s)))

RecordPrediction(m, error) ==
  /\ Len(samples[m]) < MaxSamples
  /\ samples' = [samples EXCEPT ![m] = Append(@, error)]
  /\ alerted' = [alerted EXCEPT ![m] = @ \cup
       {n \in {Len(samples'[m])} : Comparable(samples'[m]) /\ Exceeds(samples'[m])}]
  /\ UNCHANGED <<score, ensemble>>

-----------------------------------------------------------------------------
(* The ensemble selector.                                                  *)

\* register_model replaces what was there; update_metrics needs a registered
\* model: either way the score is a new one.
RegisterModel(m, s) ==
  /\ score' = [score EXCEPT ![m] = s]
  /\ UNCHANGED <<samples, alerted, ensemble>>

Registered(m) == score[m] # Unregistered
ScoreSum(names) == SumOf([i \in DOMAIN names |-> score[names[i]]])

\* create_ensemble scores the registered names of the list and pairs them with
\* the first names of the list (zip): the weight of m is share.top/share.bottom.
Share(s, total) == [top |-> s, bottom |-> AtLeast(total, ErrorUnit)]

Known(names) ==
  LET known[i \in 0 .. Len(names)] ==
        IF i = 0 THEN <<>>
        ELSE IF Registered(names[i]) THEN Append(known[i - 1], names[i]) ELSE known[i - 1] IN
  known[Len(names)]

\* The mutant divides by the number of names.
MutantPaired(names) ==
  LET known == Known(names) IN
  {[model |-> names[i], share |-> [top |-> score[known[i]], bottom |-> Len(names)]] :
     i \in DOMAIN known}
Paired(names) ==
  LET known == Known(names) IN
  {[model |-> names[i], share |-> Share(score[known[i]], ScoreSum(known))] : i \in DOMAIN known}

CreateEnsemble(names) ==
  /\ ensemble' = [names |-> names, scores |-> score, weights |-> Paired(names)]
  /\ UNCHANGED <<samples, alerted, score>>

\* select_models: the best n registered models, by their own score.
Best(n) ==
  {T \in SUBSET {m \in Models : Registered(m)} :
     /\ \A m \in T, k \in Models \ T : Registered(k) => score[k] <= score[m]
     /\ Cardinality(T) <= n
     /\ Cardinality(T) < n => \A k \in Models \ T : ~Registered(k)}

SelectModels(n) ==
  /\ \E T \in Best(n) : \E names \in [1 .. Cardinality(T) -> T] :
       /\ \A i, k \in DOMAIN names : names[i] = names[k] => i = k
       /\ ensemble' = [names |-> names, scores |-> score, weights |-> Paired(names)]
  /\ UNCHANGED <<samples, alerted, score>>

WatchNext ==
  \/ \E m \in Watched, error \in Errors : RecordPrediction(m, error)
  \/ \E m \in Models, s \in Scores : RegisterModel(m, s)
  \/ \E names \in Lists : CreateEnsemble(names)
  \/ \E n \in {1, 2} : SelectModels(n)

WatchSpec == WatchInit /\ [][WatchNext]_watchVars

-----------------------------------------------------------------------------
(* An alert means that the model got worse, and a model that got worse by  *)
(* a third or more on every recent sample, with errors of 1.0 or more, is  *)
(* alerted (prediction_drift_detector.py:77).  The proviso is what         *)
(* max(1, older_error) costs: errors of probabilities are below 1.0, and   *)
(* a threefold increase of those may pass unnoticed.                       *)
DegradationIsSeen ==
  \A m \in Watched : \A n \in Recent + 1 .. Len(samples[m]) :
    LET recent == n - Recent + 1 .. n
        older == 1 .. n - Recent
        worse(a, b) == samples[m][a] * 10 > 13 * samples[m][b]
    IN /\ n \in alerted[m] => \E a \in recent, b \in older : samples[m][a] > samples[m][b]
       /\ (\A a \in recent, b \in older : worse(a, b)) /\ (\A b \in older : samples[m][b] >= ErrorUnit)
            => n \in alerted[m]

(* The weights of an ensemble are each model's own share of the scores, if *)
(* no unregistered name stands before a registered one in the list         *)
(* (ensemble_model_selector.py:111).  With one, zip() pairs the scores     *)
(* with the wrong names.                                                   *)
UnknownLast(e) ==
  \A i, k \in DOMAIN e.names :
    i < k /\ e.scores[e.names[k]] # Unregistered => e.scores[e.names[i]] # Unregistered
WeightsAreShares ==
  UnknownLast(ensemble) =>
    \A w \in ensemble.weights :
      /\ w.share.top = ensemble.scores[w.model]
      /\ w.share.bottom >= SumOf([i \in DOMAIN ensemble.names |->
           IF ensemble.scores[ensemble.names[i]] = Unregistered THEN 0
           ELSE ensemble.scores[ensemble.names[i]]])

(* Models are watched and weighted by what they did.                       *)
WatchIsSound == DegradationIsSeen /\ WeightsAreShares
=============================================================================

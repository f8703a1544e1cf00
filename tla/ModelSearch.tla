---------------------------- MODULE ModelSearch ----------------------------
(***************************************************************************)
(* Model search and ensemble builder: OptimizedDDoSAnalysis.              *)
(* train_best_model (src/model_optimized.py, lines 421-591).              *)
(*                                                                         *)
(* The catalogue of candidate learners depends on the number of training  *)
(* rows.  Each candidate's grid search either raises (caught, the loop    *)
(* goes on) or yields a held-out weighted F1.  The learners themselves    *)
(* are black boxes: a held-out F1 is a level drawn from the small ordered *)
(* set Scores (0 = no correct prediction).  After the loop a soft-voting  *)
(* ensemble of the top three results is built when at least three         *)
(* candidates succeeded; its predict() is outside the try block.          *)
(***************************************************************************)
EXTENDS Naturals, Sequences, FiniteSets

CONSTANTS
    TrainSizes,   \* the values X_train.shape[0] may take
    Scores,       \* held-out weighted-F1 levels, 0 the lowest
    NoModel       \* the value None of best_model

ASSUME TrainSizesAssumption == TrainSizes \subseteq Nat /\ TrainSizes # {}
ASSUME ScoresAssumption == Scores \subseteq Nat /\ 0 \in Scores

VARIABLES
    models,           \* the candidate names, in the dict's insertion order
    i,                \* index of the next candidate the for loop trains
    results,          \* the results dict, as a sequence in insertion order
    best_score,       \* local best_score
    best_model,       \* local best_model / best_model_name (one learner)
    self_best_model,  \* the attribute self.best_model
    phase             \* "search", then "done" or "raised"

vars == <<models, i, results, best_score, best_model, self_best_model, phase>>

(***************************************************************************)
(* The catalogue (lines 430-504): four learners always, a neural network  *)
(* above 10000 training rows, an SVM below 50000.                         *)
(***************************************************************************)
NNMinRows  == 10000
SVMMaxRows == 50000
Ensemble   == "Ensemble"
SVM        == "Optimized SVM"

Catalogue(n) ==
    <<"Optimized Random Forest", "XGBoost", "Gradient Boosting", "Extra Trees">>
    \o (IF n > NNMinRows THEN <<"Neural Network">> ELSE << >>)
    \o (IF n < SVMMaxRows THEN <<SVM>> ELSE << >>)

Learners == {"Optimized Random Forest", "XGBoost", "Gradient Boosting",
             "Extra Trees", "Neural Network", SVM}

Result == [name : Learners \cup {Ensemble}, f1 : Scores]

(***************************************************************************)
(* SVC is built without probability=True (line 498), so it has no        *)
(* predict_proba; every other learner of the catalogue has one.           *)
(***************************************************************************)
HasPredictProba(name) == name # SVM

(***************************************************************************)
(* sorted(results.items(), key=test_f1, reverse=True)[:3] (line 561).     *)
(* Python's sort is stable also with reverse=True, so of equal F1 the     *)
(* earlier result ranks first; k is in the top three when fewer than     *)
(* three results rank before it.                                          *)
(***************************************************************************)
RanksBefore(s, j, k) == s[j].f1 > s[k].f1 \/ (s[j].f1 = s[k].f1 /\ j < k)

TopModels(s) ==
    {k \in 1..Len(s) : Cardinality({j \in 1..Len(s) : RanksBefore(s, j, k)}) < 3}

(* Mutant: "if f1 >= best_score", a later equal F1 wins the tie.           *)
RecordTiesReplace(name, f1) ==
    /\ results' = Append(results, [name |-> name, f1 |-> f1])
    /\ IF f1 >= best_score
         THEN best_score' = f1 /\ best_model' = name
         ELSE UNCHANGED <<best_score, best_model>>

(***************************************************************************)
(* Storing a result and "if f1 > best_score" (lines 539-551, 577-588).    *)
(***************************************************************************)
Record(name, f1) ==
    /\ results' = Append(results, [name |-> name, f1 |-> f1])
    /\ IF f1 > best_score
         THEN best_score' = f1 /\ best_model' = name
         ELSE UNCHANGED <<best_score, best_model>>

Init ==
    /\ \E n \in TrainSizes : models = Catalogue(n)
    /\ i = 1
    /\ results = << >>
    /\ best_score = 0
    /\ best_model = NoModel
    /\ self_best_model = NoModel
    /\ phase = "search"

(* One iteration of the for loop whose grid search and evaluation succeed. *)
TrainSucceeds ==
    /\ phase = "search"
    /\ i <= Len(models)
    /\ \E f1 \in Scores : Record(models[i], f1)
    /\ i' = i + 1
    /\ UNCHANGED <<models, self_best_model, phase>>

(* Mutant: the loop bound dropped, the for loop runs one step too far.     *)
TrainFailsPastEnd ==
    /\ phase = "search"
    /\ i' = i + 1
    /\ UNCHANGED <<models, results, best_score, best_model, self_best_model, phase>>

(* One iteration whose grid search, fit or evaluation raises (line 553).   *)
TrainFails ==
    /\ phase = "search"
    /\ i <= Len(models)
    /\ i' = i + 1
    /\ UNCHANGED <<models, results, best_score, best_model, self_best_model, phase>>

(* Fewer than three results: no ensemble, self.best_model = best_model.    *)
SkipEnsemble ==
    /\ phase = "search"
    /\ i > Len(models)
    /\ Len(results) < 3
    /\ self_best_model' = best_model
    /\ phase' = "done"
    /\ UNCHANGED <<models, i, results, best_score, best_model>>

(* Mutant: self.best_model assigned before the ensemble is compared.      *)
BuildEnsembleSelfFirst ==
    /\ phase = "search"
    /\ i > Len(models)
    /\ Len(results) >= 3
    /\ \A k \in TopModels(results) : HasPredictProba(results[k].name)
    /\ \E f1 \in Scores :
         /\ Record(Ensemble, f1)
         /\ self_best_model' = best_model
    /\ phase' = "done"
    /\ UNCHANGED <<models, i>>

(* The soft-voting ensemble of the top three fits and is evaluated.        *)
BuildEnsemble ==
    /\ phase = "search"
    /\ i > Len(models)
    /\ Len(results) >= 3
    /\ \A k \in TopModels(results) : HasPredictProba(results[k].name)
    /\ \E f1 \in Scores :
         /\ Record(Ensemble, f1)
         /\ self_best_model' = IF f1 > best_score THEN Ensemble ELSE best_model
    /\ phase' = "done"
    /\ UNCHANGED <<models, i>>

(***************************************************************************)
(* Soft voting calls predict_proba of every member (line 569); a member   *)
(* without one raises AttributeError, which no try block catches, so      *)
(* train_best_model raises and self.best_model is never assigned.         *)
(***************************************************************************)
EnsembleRaises ==
    /\ phase = "search"
    /\ i > Len(models)
    /\ Len(results) >= 3
    /\ \E k \in TopModels(results) : ~HasPredictProba(results[k].name)
    /\ phase' = "raised"
    /\ UNCHANGED <<models, i, results, best_score, best_model, self_best_model>>

Next ==
    \/ TrainSucceeds
    \/ TrainFails
    \/ SkipEnsemble
    \/ BuildEnsemble
    \/ EnsembleRaises

Spec == Init /\ [][Next]_vars

-----------------------------------------------------------------------------
(* Every variable ranges over the values the code can give it.             *)
TypeOK ==
    /\ models \in Seq(Learners)
    /\ i \in 1..(Len(models) + 1)
    /\ results \in Seq(Result)
    /\ best_score \in Scores
    /\ best_model \in Learners \cup {Ensemble, NoModel}
    /\ self_best_model \in Learners \cup {Ensemble, NoModel}
    /\ phase \in {"search", "done", "raised"}

(***************************************************************************)
(* Selection rule of the search (lines 550-551 and 587-588): best_score   *)
(* bounds every recorded F1; when it is positive it is the F1 of a        *)
(* recorded result named best_model that no earlier result reaches (the   *)
(* first evaluated wins ties, the ensemble only wins strictly); when it is *)
(* 0 nothing has been selected.                                            *)
(***************************************************************************)
SelectionCorrect ==
    /\ \A j \in 1..Len(results) : results[j].f1 <= best_score
    /\ best_score = 0 => best_model = NoModel
    /\ best_score > 0 =>
         \E k \in 1..Len(results) :
            /\ results[k].name = best_model
            /\ results[k].f1 = best_score
            /\ \A j \in 1..(k - 1) : results[j].f1 < best_score

(***************************************************************************)
(* A step never lowers best_score, and changes the selected learner only  *)
(* for a strictly higher F1: a later learner with an equal F1, or an      *)
(* ensemble no better than the best single learner, never displaces it.   *)
(***************************************************************************)
BestOnlyImproves ==
    [][/\ best_score' >= best_score
       /\ best_model' # best_model => best_score' > best_score]_vars

(***************************************************************************)
(* Spec 4.6 and 7: a failing learner is recorded as failed and the run    *)
(* goes on; per-candidate failures never abort the search.                *)
(***************************************************************************)
SearchNeverRaises == phase # "raised"

(***************************************************************************)
(* The refinement mapping onto the abstract selection spec: the results   *)
(* dict is the list of evaluated entries, best_model the selection,       *)
(* self.best_model what is handed out, and the loop's phase the outcome.  *)
(***************************************************************************)
Sel == INSTANCE SelectionSpec WITH
         Entry     <- Result,
         evaluated <- results,
         selected  <- best_model,
         chosen    <- self_best_model,
         outcome   <- IF phase = "search" THEN "running" ELSE phase

(***************************************************************************)
(* train_best_model implements the selection spec: every loop iteration   *)
(* is an evaluation or a stutter, its incremental "f1 > best_score"       *)
(* keeps best_model equal to the first best result, and self.best_model   *)
(* is assigned the selection including the ensemble's own result.         *)
(***************************************************************************)
SelectionSpecRefined == Sel!Spec

=============================================================================

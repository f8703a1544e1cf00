----------------------------- MODULE Pipeline -----------------------------
(***************************************************************************)
(* The driver of src/model_optimized.py (the __main__ block, lines        *)
(* 649-719): load, preprocess, scale, select, train, save and report, in  *)
(* that order, with the early exit when no dataset loads.  The training   *)
(* stage is the ModelSearch specification itself, instantiated on the     *)
(* same variables; the other stages are abstracted to their outcomes      *)
(* (return or raise), whose reachability the Ingestion and Preprocess     *)
(* runs show.  No stage catches an exception of a later one: a raise ends *)
(* the process.                                                           *)
(***************************************************************************)
EXTENDS Naturals, Sequences

CONSTANTS TrainSizes, Scores, NoModel

(* The same sizes and F1 levels as ModelSearch's: row counts and levels.   *)
ASSUME PipelineSizesAssumption == TrainSizes \subseteq Nat /\ TrainSizes # {}
ASSUME PipelineScoresAssumption == Scores \subseteq Nat /\ 0 \in Scores

VARIABLES
    models, i, results, best_score, best_model, self_best_model, phase,
    stage,     \* the statement of main being run, "end" or "crashed"
    saved,     \* save_model_and_scaler wrote a bundle in this run
    reported   \* what the run printed last: "none", "failed" or "success"

MS == INSTANCE ModelSearch

msvars == <<models, i, results, best_score, best_model, self_best_model, phase>>
pvars  == <<stage, saved, reported>>
vars   == <<msvars, pvars>>

Init ==
    /\ MS!Init
    /\ stage = "load"
    /\ saved = FALSE
    /\ reported = "none"

(* load_all_datasets returns None: "Failed to load datasets" (719-720).   *)
LoadNone ==
    /\ stage = "load"
    /\ stage' = "end"
    /\ reported' = "failed"
    /\ UNCHANGED <<msvars, saved>>

LoadReturns ==
    /\ stage = "load"
    /\ stage' = "preprocess"
    /\ UNCHANGED <<msvars, saved, reported>>

(* preprocess_unified_data, scale_features and feature_selection return,   *)
(* each into the next (lines 661-670).                                     *)
StageReturns ==
    /\ \/ stage = "preprocess" /\ stage' = "scale"
       \/ stage = "scale"      /\ stage' = "select"
       \/ stage = "select"     /\ stage' = "train"
    /\ UNCHANGED <<msvars, saved, reported>>

(* One of them raises (the split, no column left, NaN at selection).       *)
StageRaises ==
    /\ stage \in {"preprocess", "scale", "select"}
    /\ stage' = "crashed"
    /\ UNCHANGED <<msvars, saved, reported>>

(* A step of train_best_model (lines 673-675).                             *)
Train ==
    /\ stage = "train"
    /\ MS!Next
    /\ UNCHANGED pvars

TrainReturns ==
    /\ stage = "train"
    /\ phase = "done"
    /\ stage' = "save"
    /\ UNCHANGED <<msvars, saved, reported>>

TrainRaises ==
    /\ stage = "train"
    /\ phase = "raised"
    /\ stage' = "crashed"
    /\ UNCHANGED <<msvars, saved, reported>>

(***************************************************************************)
(* save_model_and_scaler (lines 593-614, called at 678): it writes only   *)
(* "if self.best_model and self.scaler"; the scaler is always set here,   *)
(* so the bundle is written exactly when the search selected a model.     *)
(***************************************************************************)
Save ==
    /\ stage = "save"
    /\ saved' = (self_best_model # NoModel)
    /\ stage' = "report"
    /\ UNCHANGED <<msvars, reported>>

(* The final results and "Optimized model saved successfully!" (680-717). *)
Report ==
    /\ stage = "report"
    /\ reported' = "success"
    /\ stage' = "end"
    /\ UNCHANGED <<msvars, saved>>

Next ==
    \/ LoadNone \/ LoadReturns \/ StageReturns \/ StageRaises
    \/ Train \/ TrainReturns \/ TrainRaises \/ Save \/ Report

Spec == Init /\ [][Next]_vars

-----------------------------------------------------------------------------
(***************************************************************************)
(* Spec 7: a run that produces no artifact is surfaced as a failure, not  *)
(* a silent empty result: main reports success only when this run saved   *)
(* a bundle.                                                              *)
(***************************************************************************)
ReportedSuccessMeansSaved == reported = "success" => saved


(***************************************************************************)
(* Spec 4.6 and 4.7: the bundle save_model_and_scaler writes at line 678  *)
(* holds the winner of the whole search: a result of positive F1 that no  *)
(* result beats and no earlier result reaches, the ensemble included.     *)
(***************************************************************************)
SavedModelIsBest ==
    saved =>
       /\ phase = "done"
       /\ \E k \in 1..Len(results) :
             /\ results[k].name = self_best_model
             /\ results[k].f1 > 0
             /\ \A j \in 1..Len(results) : results[j].f1 <= results[k].f1
             /\ \A j \in 1..(k - 1) : results[j].f1 < results[k].f1

=============================================================================

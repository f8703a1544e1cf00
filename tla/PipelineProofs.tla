--------------------------- MODULE PipelineProofs ---------------------------
(***************************************************************************)
(* Proofs about the __main__ driver, for every set of training sizes and  *)
(* of F1 levels: the bundle that save_model_and_scaler writes is the      *)
(* winner of the whole model search.  The search's own invariant is taken *)
(* from ModelSearchProofs, instantiated on the driver's variables.        *)
(***************************************************************************)
EXTENDS Pipeline, TLAPS

MSP == INSTANCE ModelSearchProofs

(***************************************************************************)
(* The strengthening of SavedModelIsBest:                                 *)
(*  - the search's own inductive invariant (types, selection rule);       *)
(*  - a finished search has handed out its selection as self.best_model;  *)
(*  - main reaches the save only after the search returned;               *)
(*  - once a bundle is saved, main is past the save and it held a model.  *)
(***************************************************************************)
DoneSelf == phase = "done" => self_best_model = best_model

SaveAfterSearch == stage = "save" => phase = "done"

SavedFinal ==
    saved => /\ stage \in {"report", "end"}
             /\ phase = "done"
             /\ self_best_model # NoModel

PInv == MSP!IInv /\ DoneSelf /\ SaveAfterSearch /\ SavedFinal

(* The search's assumptions on its constants are the driver's.           *)
LEMMA SearchAssumptions == MSP!TrainSizesAssumption /\ MSP!ScoresAssumption
BY PipelineSizesAssumption, PipelineScoresAssumption
   DEF MSP!TrainSizesAssumption, MSP!ScoresAssumption

(* A training step of main is a step of train_best_model.                  *)
LEMMA TrainIsSearchStep == MS!Next => MSP!Next
BY DEF MS!Next, MSP!Next, MS!TrainSucceeds, MSP!TrainSucceeds,
       MS!TrainFails, MSP!TrainFails, MS!SkipEnsemble, MSP!SkipEnsemble,
       MS!BuildEnsemble, MSP!BuildEnsemble, MS!EnsembleRaises, MSP!EnsembleRaises,
       MS!Record, MSP!Record, MS!TopModels, MSP!TopModels,
       MS!RanksBefore, MSP!RanksBefore, MS!HasPredictProba, MSP!HasPredictProba,
       MS!SVM, MSP!SVM, MS!Ensemble, MSP!Ensemble, MS!Cardinality, MSP!Cardinality

(* main starts where train_best_model starts.                              *)
LEMMA InitIsSearchInit == MS!Init => MSP!Init
<1>1. \A n \in TrainSizes : MS!Catalogue(n) = MSP!Catalogue(n)
  BY DEF MS!Catalogue, MSP!Catalogue, MS!NNMinRows, MSP!NNMinRows,
         MS!SVMMaxRows, MSP!SVMMaxRows, MS!SVM, MSP!SVM
<1>. QED
  BY <1>1, Zenon DEF MS!Init, MSP!Init

(***************************************************************************)
(* A search step that ends the search hands out best_model (the ensemble  *)
(* when it won strictly, line 588, and best_model at once otherwise); no  *)
(* step leaves "done".                                                     *)
(***************************************************************************)
LEMMA SearchStepKeepsDoneSelf ==
    ASSUME DoneSelf, MS!Next
    PROVE  DoneSelf'
<1>1. CASE MS!TrainSucceeds \/ MS!TrainFails \/ MS!EnsembleRaises
  BY <1>1 DEF MS!TrainSucceeds, MS!TrainFails, MS!EnsembleRaises, DoneSelf
<1>2. CASE MS!SkipEnsemble
  BY <1>2 DEF MS!SkipEnsemble, DoneSelf
<1>3. CASE MS!BuildEnsemble
  <2>1. PICK f1 \in Scores :
           /\ MS!Record(MS!Ensemble, f1)
           /\ self_best_model' = IF f1 > best_score THEN MS!Ensemble ELSE best_model
    BY <1>3 DEF MS!BuildEnsemble
  <2>. QED
    BY <2>1 DEF MS!Record, DoneSelf
<1>. QED
  BY <1>1, <1>2, <1>3 DEF MS!Next

(* Every step of main, or stutter, keeps PInv.                             *)
LEMMA PInvStep == PInv /\ [Next]_vars => PInv'
<1>. SUFFICES ASSUME PInv, [Next]_vars PROVE PInv'
  OBVIOUS
<1>a. MSP!IInv /\ DoneSelf /\ SaveAfterSearch /\ SavedFinal
  BY DEF PInv
<1>1. CASE Train
  <2>1. MSP!Next
    BY <1>1, TrainIsSearchStep DEF Train
  <2>2. MSP!IInv'
    BY <1>a, <2>1, SearchAssumptions, MSP!SelectionStep
  <2>3. DoneSelf'
    BY <1>1, <1>a, SearchStepKeepsDoneSelf DEF Train
  <2>4. ~saved /\ stage' = "train" /\ saved' = saved
    BY <1>1, <1>a DEF Train, SavedFinal, pvars
  <2>. QED
    BY <2>2, <2>3, <2>4 DEF PInv, SaveAfterSearch, SavedFinal
<1>2. CASE LoadNone \/ LoadReturns \/ StageReturns \/ StageRaises \/ TrainReturns
            \/ TrainRaises \/ Save \/ Report \/ UNCHANGED vars
  <2>0. UNCHANGED msvars
    BY <1>2 DEF LoadNone, LoadReturns, StageReturns, StageRaises, TrainReturns,
                TrainRaises, Save, Report, vars
  <2>1. MSP!IInv'
    BY <2>0, <1>a, SearchAssumptions, MSP!SelectionStep DEF msvars, MSP!vars
  <2>2. DoneSelf'
    BY <2>0, <1>a DEF msvars, DoneSelf
  <2>3. SaveAfterSearch' /\ SavedFinal'
    <3>1. CASE LoadNone \/ LoadReturns \/ StageReturns \/ StageRaises
      BY <2>0, <1>a, <3>1 DEF LoadNone, LoadReturns, StageReturns, StageRaises,
                            msvars, SaveAfterSearch, SavedFinal
    <3>2. CASE TrainReturns \/ TrainRaises
      BY <2>0, <1>a, <3>2 DEF TrainReturns, TrainRaises, msvars, SaveAfterSearch, SavedFinal
    <3>3. CASE Save
      BY <2>0, <1>a, <3>3 DEF Save, msvars, SaveAfterSearch, SavedFinal
    <3>4. CASE Report
      BY <2>0, <1>a, <3>4 DEF Report, msvars, SaveAfterSearch, SavedFinal
    <3>5. CASE UNCHANGED vars
      BY <2>0, <1>a, <3>5 DEF vars, pvars, msvars, SaveAfterSearch, SavedFinal
    <3>. QED
      BY <1>2, <3>1, <3>2, <3>3, <3>4, <3>5
  <2>. QED
    BY <2>1, <2>2, <2>3 DEF PInv
<1>. QED
  BY <1>1, <1>2 DEF Next

(***************************************************************************)
(* A saved bundle, by the selection rule: the model handed out is         *)
(* best_model, which is not None, so best_score is positive and names the *)
(* first result of the highest F1.                                        *)
(***************************************************************************)
LEMMA PInvSavedBest == PInv => SavedModelIsBest
<1>. SUFFICES ASSUME PInv, saved PROVE SavedModelIsBest
  BY DEF SavedModelIsBest
<1>1. phase = "done" /\ self_best_model = best_model /\ best_model # NoModel
  BY DEF PInv, SavedFinal, DoneSelf
<1>2. best_score \in Nat
  BY PipelineScoresAssumption DEF PInv, MSP!IInv, MSP!TypeOK
<1>3. best_score > 0
  BY <1>1, <1>2 DEF PInv, MSP!IInv, MSP!SelectionCorrect
<1>4. PICK k \in 1..Len(results) :
         /\ results[k].name = best_model
         /\ results[k].f1 = best_score
         /\ \A j \in 1..(k - 1) : results[j].f1 < best_score
  BY <1>3 DEF PInv, MSP!IInv, MSP!SelectionCorrect
<1>5. \A j \in 1..Len(results) : results[j].f1 <= best_score
  BY DEF PInv, MSP!IInv, MSP!SelectionCorrect
<1>. QED
  BY <1>1, <1>3, <1>4, <1>5 DEF SavedModelIsBest

(***************************************************************************)
(* SavedModelIsBest for every set of training sizes and F1 levels: the    *)
(* bundle written at line 678 holds a result of positive F1 that no result *)
(* beats and no earlier result reaches, the ensemble included.            *)
(***************************************************************************)
THEOREM SavedBest == Spec => []SavedModelIsBest
<1>1. Init => PInv
  <2>. SUFFICES ASSUME Init PROVE PInv
    OBVIOUS
  <2>1. MSP!IInv
    BY InitIsSearchInit, SearchAssumptions, MSP!InitIInv DEF Init
  <2>. QED
    BY <2>1 DEF Init, MS!Init, PInv, DoneSelf, SaveAfterSearch, SavedFinal
<1>. QED
  BY <1>1, PInvStep, PInvSavedBest, PTL DEF Spec

=============================================================================

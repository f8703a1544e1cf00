------------------------- MODULE ModelSearchProofs -------------------------
(***************************************************************************)
(* Proofs about ModelSearch, for every set of training sizes and every    *)
(* set of F1 levels: the type invariant, the selection rule of            *)
(* train_best_model as an invariant, and that a step never displaces the  *)
(* selected learner without a strictly higher F1.                         *)
(***************************************************************************)
EXTENDS ModelSearch, SequenceTheorems, TLAPS

USE TrainSizesAssumption, ScoresAssumption

(* Whatever the training size, the catalogue is a list of learner names.   *)
LEMMA CatalogueType ==
    ASSUME NEW n \in Nat
    PROVE  Catalogue(n) \in Seq(Learners)
<1>1. <<"Optimized Random Forest", "XGBoost", "Gradient Boosting", "Extra Trees">>
        \in Seq(Learners)
  BY DEF Learners
<1>2. (IF n > NNMinRows THEN <<"Neural Network">> ELSE << >>) \in Seq(Learners)
  <2>1. <<"Neural Network">> \in Seq(Learners)
    BY DEF Learners
  <2>2. << >> \in Seq(Learners)
    OBVIOUS
  <2>. QED
    BY <2>1, <2>2
<1>3. (IF n < SVMMaxRows THEN <<SVM>> ELSE << >>) \in Seq(Learners)
  <2>1. <<SVM>> \in Seq(Learners)
    BY DEF Learners
  <2>2. << >> \in Seq(Learners)
    OBVIOUS
  <2>. QED
    BY <2>1, <2>2
<1>. QED
  BY <1>1, <1>2, <1>3, ConcatProperties DEF Catalogue

-----------------------------------------------------------------------------
(* Every step, or stutter, keeps the types.                                *)
LEMMA TypeStep == TypeOK /\ [Next]_vars => TypeOK'
<1>. SUFFICES ASSUME TypeOK, [Next]_vars PROVE TypeOK'
  OBVIOUS
<1>. USE DEF TypeOK, Result
<1>1. CASE TrainSucceeds
  <2>1. PICK f1 \in Scores : Record(models[i], f1)
    BY <1>1 DEF TrainSucceeds
  <2>2. models[i] \in Learners
    BY <1>1 DEF TrainSucceeds
  <2>3. [name |-> models[i], f1 |-> f1] \in Result
    BY <2>2 DEF Result
  <2>. QED
    BY <1>1, <2>1, <2>2, <2>3, AppendProperties DEF TrainSucceeds, Record
<1>2. CASE TrainFails
  BY <1>2 DEF TrainFails
<1>3. CASE SkipEnsemble
  BY <1>3 DEF SkipEnsemble
<1>4. CASE BuildEnsemble
  <2>1. PICK f1 \in Scores :
           /\ Record(Ensemble, f1)
           /\ self_best_model' = IF f1 > best_score THEN Ensemble ELSE best_model
    BY <1>4 DEF BuildEnsemble
  <2>2. [name |-> Ensemble, f1 |-> f1] \in Result
    BY DEF Result
  <2>. QED
    BY <1>4, <2>1, <2>2, AppendProperties DEF BuildEnsemble, Record
<1>5. CASE EnsembleRaises
  BY <1>5 DEF EnsembleRaises
<1>6. CASE UNCHANGED vars
  BY <1>6 DEF vars
<1>. QED
  BY <1>1, <1>2, <1>3, <1>4, <1>5, <1>6 DEF Next

(* The type invariant.                                                     *)
THEOREM TypeCorrect == Spec => []TypeOK
<1>1. Init => TypeOK
  BY CatalogueType DEF Init, TypeOK
<1>. QED
  BY <1>1, TypeStep, PTL DEF Spec

-----------------------------------------------------------------------------
(***************************************************************************)
(* SelectionCorrect is inductive once the types are known: recording a    *)
(* result either raises best_score above every earlier F1 (the new result *)
(* becomes the first best) or leaves the first best where it was.         *)
(***************************************************************************)
IInv == TypeOK /\ SelectionCorrect

(* Recording one result, by a learner or by the ensemble, keeps IInv's     *)
(* SelectionCorrect part.                                                  *)
LEMMA RecordKeepsSelection ==
    ASSUME TypeOK, SelectionCorrect,
           NEW name, NEW f1 \in Scores,
           Record(name, f1)
    PROVE  SelectionCorrect'
<1>. USE DEF TypeOK, Result
<1>0. /\ best_score \in Nat /\ f1 \in Nat
      /\ \A j \in 1..Len(results) : results[j].f1 \in Nat
  <2>1. SUFFICES ASSUME NEW j \in 1..Len(results) PROVE results[j].f1 \in Nat
    OBVIOUS
  <2>2. results[j] \in Result
    BY ElementOfSeq
  <2>. QED
    BY <2>2
<1>1. results' = Append(results, [name |-> name, f1 |-> f1])
  BY DEF Record
<1>2. Len(results') = Len(results) + 1
  BY <1>1, AppendProperties
<1>3. \A j \in 1..Len(results) : results'[j] = results[j]
  BY <1>1, AppendProperties
<1>4. results'[Len(results) + 1] = [name |-> name, f1 |-> f1]
  BY <1>1, AppendProperties
<1>5. CASE f1 > best_score
  <2>1. best_score' = f1 /\ best_model' = name
    BY <1>5 DEF Record
  <2>2. \A j \in 1..Len(results') : results'[j].f1 <= best_score'
    <3>1. SUFFICES ASSUME NEW j \in 1..Len(results')
                   PROVE  results'[j].f1 <= best_score'
      OBVIOUS
    <3>2. CASE j \in 1..Len(results)
      <4>1. results[j].f1 <= best_score
        BY <3>2 DEF SelectionCorrect
      <4>. QED
        BY <1>0, <1>3, <1>5, <2>1, <3>2, <4>1
    <3>3. CASE j = Len(results) + 1
      BY <1>0, <1>4, <2>1, <3>3
    <3>. QED
      BY <1>2, <3>2, <3>3
  <2>3. best_score' > 0
    BY <1>5, <2>1
  <2>4. \E k \in 1..Len(results') :
            /\ results'[k].name = best_model'
            /\ results'[k].f1 = best_score'
            /\ \A j \in 1..(k - 1) : results'[j].f1 < best_score'
    <3>1. Len(results) + 1 \in 1..Len(results')
      BY <1>2
    <3>2. \A j \in 1..(Len(results) + 1 - 1) : results'[j].f1 < best_score'
      BY <1>0, <1>3, <1>5, <2>1 DEF SelectionCorrect
    <3>. QED
      BY <3>1, <3>2, <1>4, <2>1
  <2>. QED
    BY <2>2, <2>3, <2>4 DEF SelectionCorrect
<1>6. CASE ~(f1 > best_score)
  <2>1. best_score' = best_score /\ best_model' = best_model
    BY <1>6 DEF Record
  <2>2. \A j \in 1..Len(results') : results'[j].f1 <= best_score'
    BY <1>0, <1>2, <1>3, <1>4, <1>6, <2>1 DEF SelectionCorrect
  <2>3. best_score' = 0 => best_model' = NoModel
    BY <2>1 DEF SelectionCorrect
  <2>4. best_score' > 0 =>
          \E k \in 1..Len(results') :
            /\ results'[k].name = best_model'
            /\ results'[k].f1 = best_score'
            /\ \A j \in 1..(k - 1) : results'[j].f1 < best_score'
    <3>. SUFFICES ASSUME best_score > 0
                  PROVE  \E k \in 1..Len(results') :
                            /\ results'[k].name = best_model'
                            /\ results'[k].f1 = best_score'
                            /\ \A j \in 1..(k - 1) : results'[j].f1 < best_score'
      BY <2>1
    <3>1. PICK k \in 1..Len(results) :
             /\ results[k].name = best_model
             /\ results[k].f1 = best_score
             /\ \A j \in 1..(k - 1) : results[j].f1 < best_score
      BY DEF SelectionCorrect
    <3>2. k \in 1..Len(results')
      BY <1>2
    <3>3. \A j \in 1..k : results'[j] = results[j]
      BY <1>3
    <3>4. /\ results'[k].name = best_model'
          /\ results'[k].f1 = best_score'
          /\ \A j \in 1..(k - 1) : results'[j].f1 < best_score'
      BY <3>1, <3>3, <2>1
    <3>. QED
      BY <3>2, <3>4
  <2>. QED
    BY <2>2, <2>3, <2>4 DEF SelectionCorrect
<1>. QED
  BY <1>5, <1>6

(* The search starts with no result and nothing selected.                  *)
LEMMA InitIInv == Init => IInv
BY CatalogueType DEF Init, IInv, TypeOK, SelectionCorrect

(* Every step of the search, or stutter, keeps IInv.                       *)
LEMMA SelectionStep == IInv /\ [Next]_vars => IInv'
<1>. SUFFICES ASSUME IInv, [Next]_vars PROVE IInv'
  OBVIOUS
<1>0. TypeOK'
  BY TypeStep DEF IInv
<1>. SUFFICES SelectionCorrect'
  BY <1>0 DEF IInv
<1>1. CASE TrainSucceeds
  <2>1. PICK f1 \in Scores : Record(models[i], f1)
    BY <1>1 DEF TrainSucceeds
  <2>. QED
    BY <2>1, RecordKeepsSelection DEF IInv
<1>2. CASE BuildEnsemble
  <2>1. PICK f1 \in Scores : Record(Ensemble, f1)
    BY <1>2 DEF BuildEnsemble
  <2>. QED
    BY <2>1, RecordKeepsSelection DEF IInv
<1>3. CASE TrainFails \/ SkipEnsemble \/ EnsembleRaises \/ UNCHANGED vars
  BY <1>3 DEF TrainFails, SkipEnsemble, EnsembleRaises, vars, IInv, SelectionCorrect
<1>. QED
  BY <1>1, <1>2, <1>3 DEF Next

(***************************************************************************)
(* SelectionCorrect for every set of training sizes and F1 levels: the    *)
(* incremental "f1 > best_score" of lines 550-551 and 587-588 keeps      *)
(* best_model the first result of the highest F1.                        *)
(***************************************************************************)
THEOREM SelectionCorrectness == Spec => []SelectionCorrect
<1>1. Init => IInv
  BY InitIInv
<1>2. IInv /\ [Next]_vars => IInv'
  BY SelectionStep
<1>. QED
  BY <1>1, <1>2, PTL DEF Spec, IInv

-----------------------------------------------------------------------------
(* Recording a result never lowers best_score, and moves best_model only   *)
(* with a strictly higher score.                                           *)
LEMMA RecordOnlyImproves ==
    ASSUME TypeOK, NEW name, NEW f1 \in Scores, Record(name, f1)
    PROVE  /\ best_score' >= best_score
           /\ best_model' # best_model => best_score' > best_score
<1>1. best_score \in Nat /\ f1 \in Nat
  BY DEF TypeOK
<1>2. CASE f1 > best_score
  BY <1>1, <1>2 DEF Record
<1>3. CASE ~(f1 > best_score)
  BY <1>1, <1>3 DEF Record
<1>. QED
  BY <1>2, <1>3

(***************************************************************************)
(* The action property BestOnlyImproves: no step of train_best_model      *)
(* lowers best_score or hands the selection to a learner, or to the       *)
(* ensemble, that does not beat it.                                       *)
(***************************************************************************)
THEOREM BestOnlyImprovesHolds == Spec => BestOnlyImproves
<1>. DEFINE Improves == /\ best_score' >= best_score
                        /\ best_model' # best_model => best_score' > best_score
<1>1. TypeOK /\ [Next]_vars => [Improves]_vars
  <2>. SUFFICES ASSUME TypeOK, [Next]_vars PROVE [Improves]_vars
    OBVIOUS
  <2>1. CASE TrainSucceeds
    <3>1. PICK f1 \in Scores : Record(models[i], f1)
      BY <2>1 DEF TrainSucceeds
    <3>. QED
      BY <3>1, RecordOnlyImproves
  <2>2. CASE BuildEnsemble
    <3>1. PICK f1 \in Scores : Record(Ensemble, f1)
      BY <2>2 DEF BuildEnsemble
    <3>. QED
      BY <3>1, RecordOnlyImproves
  <2>3. CASE TrainFails \/ SkipEnsemble \/ EnsembleRaises \/ UNCHANGED vars
    BY <2>3, ScoresAssumption DEF TrainFails, SkipEnsemble, EnsembleRaises, vars, TypeOK
  <2>. QED
    BY <2>1, <2>2, <2>3 DEF Next
<1>. QED
  BY <1>1, TypeCorrect, PTL DEF BestOnlyImproves, Spec

-----------------------------------------------------------------------------
(***************************************************************************)
(* Refinement.  The incremental selection of the loop and the abstract    *)
(* rule agree: under SelectionCorrect, best_model is the first best       *)
(* result, or NoModel when every F1 is 0.                                  *)
(***************************************************************************)
(* SelectionCorrect, over given values rather than the current state, so  *)
(* that the lemma below applies to the state after a step as well.        *)
FirstBestSelected(r, bs, bm) ==
    /\ \A j \in 1..Len(r) : r[j].f1 <= bs
    /\ bs = 0 => bm = NoModel
    /\ bs > 0 =>
         \E k \in 1..Len(r) :
            /\ r[k].name = bm
            /\ r[k].f1 = bs
            /\ \A j \in 1..(k - 1) : r[j].f1 < bs

(* Under the selection invariant the selected learner is Best of the      *)
(* results: the first entry of highest F1, or NoModel when every F1 is 0.  *)
LEMMA BestModelIsBest ==
    ASSUME NEW r \in Seq(Result), NEW bs \in Scores, NEW bm,
           FirstBestSelected(r, bs, bm)
    PROVE  bm = Sel!Best(r)
<1>0. \A j \in 1..Len(r) : r[j].f1 \in Nat
  <2>1. SUFFICES ASSUME NEW j \in 1..Len(r) PROVE r[j].f1 \in Nat
    OBVIOUS
  <2>2. r[j] \in Result
    BY ElementOfSeq
  <2>. QED
    BY <2>2 DEF Result
<1>1. CASE bs = 0
  <2>1. \A j \in 1..Len(r) : r[j].f1 = 0
    BY <1>0, <1>1 DEF FirstBestSelected
  <2>. QED
    BY <1>1, <2>1 DEF FirstBestSelected, Sel!Best
<1>2. CASE bs # 0
  <2>0. bs > 0
    BY <1>2
  <2>1. PICK k \in 1..Len(r) :
           /\ r[k].name = bm
           /\ r[k].f1 = bs
           /\ \A j \in 1..(k - 1) : r[j].f1 < bs
    BY <2>0 DEF FirstBestSelected
  <2>2. Sel!IsFirstBest(r, k)
    BY <2>1 DEF FirstBestSelected, Sel!IsFirstBest
  <2>3. ASSUME NEW k2 \in 1..Len(r), Sel!IsFirstBest(r, k2)
        PROVE  k2 = k
    <3>1. r[k2].f1 = r[k].f1
      BY <1>0, <2>2, <2>3 DEF Sel!IsFirstBest
    <3>2. ~(k2 < k)
      <4>1. k2 < k => r[k2].f1 < r[k].f1
        BY <2>2 DEF Sel!IsFirstBest
      <4>. QED
        BY <1>0, <3>1, <4>1
    <3>3. ~(k < k2)
      <4>1. k < k2 => r[k].f1 < r[k2].f1
        BY <2>3 DEF Sel!IsFirstBest
      <4>. QED
        BY <1>0, <3>1, <4>1
    <3>. QED
      BY <3>2, <3>3
  <2>4. (CHOOSE k2 \in 1..Len(r) : Sel!IsFirstBest(r, k2)) = k
    BY <2>2, <2>3
  <2>5. ~\A j \in 1..Len(r) : r[j].f1 = 0
    BY <2>0, <2>1
  <2>6. Sel!Best(r)
          = r[CHOOSE k2 \in 1..Len(r) : Sel!IsFirstBest(r, k2)].name
    BY <2>5 DEF Sel!Best
  <2>. QED
    BY <2>1, <2>4, <2>6
<1>. QED
  BY <1>1, <1>2

(* Every step of train_best_model is a step of the abstract search or      *)
(* leaves the mapped state unchanged.                                      *)
LEMMA RefinementStep ==
    ASSUME IInv, IInv', [Next]_vars
    PROVE  [Sel!Next]_Sel!avars
<1>1. CASE TrainSucceeds
  <2>1. PICK f1 \in Scores : Record(models[i], f1)
    BY <1>1 DEF TrainSucceeds
  <2>2. [name |-> models[i], f1 |-> f1] \in Result
    <3>1. models[i] \in Learners
      BY <1>1, ElementOfSeq DEF TrainSucceeds, IInv, TypeOK
    <3>. QED
      BY <3>1 DEF Result
  <2>3. results' = Append(results, [name |-> models[i], f1 |-> f1])
    BY <2>1 DEF Record
  <2>4. best_model' = Sel!Best(results')
    <3>1. results' \in Seq(Result) /\ best_score' \in Scores
      BY DEF IInv, TypeOK
    <3>2. FirstBestSelected(results', best_score', best_model')
      BY DEF IInv, SelectionCorrect, FirstBestSelected
    <3>. QED
      BY <3>1, <3>2, BestModelIsBest
  <2>5. UNCHANGED <<self_best_model, phase>> /\ phase = "search"
    BY <1>1 DEF TrainSucceeds
  <2>. QED
    BY <2>2, <2>3, <2>4, <2>5 DEF Sel!Next, Sel!Evaluate
<1>2. CASE SkipEnsemble
  <2>1. best_model = Sel!Best(results)
    <3>1. results \in Seq(Result) /\ best_score \in Scores
      BY DEF IInv, TypeOK
    <3>2. FirstBestSelected(results, best_score, best_model)
      BY DEF IInv, SelectionCorrect, FirstBestSelected
    <3>. QED
      BY <3>1, <3>2, BestModelIsBest
  <2>2. /\ results' = results /\ best_model' = best_model
        /\ self_best_model' = best_model
        /\ phase = "search" /\ phase' = "done"
    BY <1>2 DEF SkipEnsemble
  <2>. QED
    BY <2>1, <2>2 DEF Sel!Next, Sel!Conclude
<1>3. CASE BuildEnsemble
  <2>1. PICK f1 \in Scores :
           /\ Record(Ensemble, f1)
           /\ self_best_model' = IF f1 > best_score THEN Ensemble ELSE best_model
    BY <1>3 DEF BuildEnsemble
  <2>2. [name |-> Ensemble, f1 |-> f1] \in Result
    BY DEF Result
  <2>3. results' = Append(results, [name |-> Ensemble, f1 |-> f1])
    BY <2>1 DEF Record
  <2>4. self_best_model' = best_model'
    BY <2>1 DEF Record
  <2>5. best_model' = Sel!Best(results')
    <3>1. results' \in Seq(Result) /\ best_score' \in Scores
      BY DEF IInv, TypeOK
    <3>2. FirstBestSelected(results', best_score', best_model')
      BY DEF IInv, SelectionCorrect, FirstBestSelected
    <3>. QED
      BY <3>1, <3>2, BestModelIsBest
  <2>6. phase = "search" /\ phase' = "done"
    BY <1>3 DEF BuildEnsemble
  <2>. QED
    BY <2>2, <2>3, <2>4, <2>5, <2>6 DEF Sel!Next, Sel!Conclude
<1>4. CASE EnsembleRaises
  BY <1>4 DEF EnsembleRaises, Sel!Next, Sel!Abort
<1>5. CASE TrainFails \/ UNCHANGED vars
  BY <1>5 DEF TrainFails, vars, Sel!avars
<1>. QED
  BY <1>1, <1>2, <1>3, <1>4, <1>5 DEF Next

(***************************************************************************)
(* SelectionSpecRefined: train_best_model implements the abstract         *)
(* selection spec under the refinement mapping Sel, for every catalogue    *)
(* and every set of F1 levels.                                            *)
(***************************************************************************)
THEOREM Refinement == Spec => SelectionSpecRefined
<1>1. Init => Sel!Init
  BY DEF Init, Sel!Init
<1>2. Spec => []IInv
  BY TypeCorrect, SelectionCorrectness, PTL DEF IInv
<1>. QED
  BY <1>1, <1>2, RefinementStep, PTL DEF Spec, SelectionSpecRefined, Sel!Spec

=============================================================================

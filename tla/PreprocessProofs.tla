-------------------------- MODULE PreprocessProofs --------------------------
(***************************************************************************)
(* Proofs about preprocess_unified_data, scale_features and               *)
(* feature_selection, for every set of columns, roles, engineered         *)
(* columns, label tokens and row counts: the types, the feature list that *)
(* follows X, the constant columns that are dropped from it and the       *)
(* labels that are fixed points of label_mapping.                         *)
(***************************************************************************)
EXTENDS Preprocess, TLAPS

(***************************************************************************)
(* The strengthening of the four invariants of the pre_clean run:         *)
(*  - outside "raised" no exception was recorded;                         *)
(*  - SelectKBest's mask is empty until the last step;                    *)
(*  - every row carries its raw token until line 299 has run, and its     *)
(*    standardised token from then on;                                    *)
(*  - a column that was constant after step 3 stays constant until the    *)
(*    drop of lines 339-344 if it is still a column of the frame, and is  *)
(*    out of the feature list after it.                                   *)
(***************************************************************************)
RunningNoRaise == pc # "raised" => raised_in = "none"

NothingSelected == pc # "done" => selected = {}

LabelsRaw == pc \in {"prepare", "labels"} \/ raised_in = "engineer"

LabelState == ylabel = [t \in RawTokens |-> IF LabelsRaw THEN t ELSE Standardize(t)]

ConstantsPending ==
    pc \in {"labels", "encode", "impute", "constants"} =>
        \A c \in constant0 \cap cols : ZeroVariance(col[c])

ConstantsGone ==
    pc \in {"clip", "split", "scale", "select", "done"} =>
        constant0 \cap feature_columns = {}

IInv == /\ TypeOK
        /\ RunningNoRaise
        /\ NothingSelected
        /\ LabelState
        /\ FeatureColumnsMatchX
        /\ ConstantsPending
        /\ ConstantsGone

-----------------------------------------------------------------------------
(* The labels label_mapping produces.                                      *)
StdValues == {"BENIGN", "DNS", "NTP", "HTTP", "LDAP", "MSSQL", "NetBIOS", "Portmap",
              "RECURSIVE_GET", "SLOWLORIS", "SLOW_POST", "SYN", "UDP", "UDPLag"}

(***************************************************************************)
(* Line 299 is idempotent: no value of label_mapping is a key that maps   *)
(* elsewhere, so a standardised label standardises to itself.             *)
(***************************************************************************)
LEMMA StandardizeIdempotent == \A t : Standardize(Standardize(t)) = Standardize(t)
<1>1. \A t \in DOMAIN LabelMapping : LabelMapping[t] \in StdValues
  BY DEF LabelMapping, StdValues
<1>2. \A v \in StdValues : Standardize(v) = v
  BY DEF Standardize, LabelMapping, StdValues
<1>. QED
  BY <1>1, <1>2 DEF Standardize

(* The row count depends on ycount alone, which no step changes.           *)
LEMMA RowsUnchanged == ycount' = ycount => Rows' = Rows
BY DEF Rows, RowsOf

(* Imputation (lines 330-337) leaves a column of finite values as it is.  *)
LEMMA ImputedOfFinite == Imputed({"fin"}) = {{"fin"}}
BY DEF Imputed, FillNa, ReplaceInf, MedianKinds

(* Imputation yields kinds of value.                                       *)
LEMMA ImputedType ==
    ASSUME NEW v \in SUBSET Kinds
    PROVE  Imputed(v) \subseteq SUBSET Kinds
BY DEF Imputed, FillNa, ReplaceInf, MedianKinds, Kinds

(* An engineered column is a column.                                       *)
LEMMA EngineeredType ==
    ASSUME col \in [Cols -> Column], NEW d \in Derived
    PROVE  Engineered(d) \subseteq Column
BY BaseAssumption DEF Engineered, Spreads, Column, Kinds, Cols

-----------------------------------------------------------------------------
(* load_all_datasets' frame satisfies the invariant.                       *)
LEMMA InitIInv == Init => IInv
<1>. SUFFICES ASSUME Init PROVE IInv
  OBVIOUS
<1>1. cols \subseteq Cols /\ col \in [Cols -> Column]
  <2>1. PICK present \in SUBSET {c \in Base : Role[c] # "drop"} :
           /\ cols = present \cup {c \in Base : Role[c] = "drop"}
           /\ \E p \in [cols -> ColumnStates(Rows)] :
                col = [c \in Cols |-> IF c \in cols THEN p[c] ELSE Blank]
    BY DEF Init
  <2>2. cols \subseteq Cols
    BY <2>1 DEF Cols
  <2>3. PICK p \in [cols -> ColumnStates(Rows)] :
           col = [c \in Cols |-> IF c \in cols THEN p[c] ELSE Blank]
    BY <2>1
  <2>4. \A c \in cols : p[c] \in Column
    BY DEF ColumnStates
  <2>5. Blank \in Column
    BY DEF Blank, Column, Kinds
  <2>. QED
    BY <2>2, <2>3, <2>4, <2>5
<1>2. leaked \in BOOLEAN
  BY Zenon DEF Init
<1>3. ylabel \in [RawTokens -> Labels]
  BY DEF Init, Labels
<1>4. ycount \in [RawTokens -> Nat]
  BY CountsAssumption DEF Init
<1>5. TypeOK
  BY <1>1, <1>2, <1>3, <1>4, Zenon DEF Init, TypeOK
<1>. QED
  BY <1>5 DEF Init, IInv, RunningNoRaise, NothingSelected, LabelState, LabelsRaw,
              FeatureColumnsMatchX, HasX, ConstantsPending, ConstantsGone

(***************************************************************************)
(* Every step of the run, or stutter, keeps IInv.  No step changes the   *)
(* row counts, so the row count a step reads is the one the next reads.   *)
(***************************************************************************)
LEMMA IInvStep == IInv /\ [Next]_vars => IInv'
<1>. SUFFICES ASSUME IInv, [Next]_vars PROVE IInv'
  OBVIOUS
<1>0. /\ TypeOK /\ RunningNoRaise /\ NothingSelected /\ LabelState
      /\ FeatureColumnsMatchX /\ ConstantsPending /\ ConstantsGone
  BY DEF IInv
<1>r. Rows' = Rows
  <2>1. ycount' = ycount
    BY DEF Next, vars, EngineerRaises, Prepare, MapLabels, Encode, Impute,
           DropConstant, Clip, SplitStratified, SplitFallback, SplitRaises,
           Scale, ScaleRaises, Select, SelectRaises
  <2>. QED
    BY <2>1, RowsUnchanged
<1>1. CASE EngineerRaises
  BY <1>0, <1>1 DEF EngineerRaises, IInv, TypeOK, RunningNoRaise, NothingSelected,
     LabelState, LabelsRaw, FeatureColumnsMatchX, HasX, ConstantsPending, ConstantsGone
<1>2. CASE Prepare
  <2>1. PICK e \in [Made -> UNION {Engineered(d) : d \in Made}] :
           /\ \A d \in Made : e[d] \in Engineered(d)
           /\ col' = [c \in Cols |-> IF c \in Made THEN e[c] ELSE col[c]]
    BY <1>2 DEF Prepare
  <2>2. col' \in [Cols -> Column]
    <3>1. \A d \in Made : e[d] \in Column
      BY <1>0, <2>1, EngineeredType DEF TypeOK, Made
    <3>. QED
      BY <1>0, <2>1, <3>1 DEF TypeOK, Made, Cols
  <2>3. cols' \subseteq Cols /\ constant0' \subseteq cols'
    BY <1>0, <1>2 DEF Prepare, TypeOK, Made, Cols
  <2>4. TypeOK'
    BY <1>0, <1>2, <2>2, <2>3 DEF Prepare, TypeOK, NothingSelected
  <2>5. ConstantsPending'
    BY <1>2, <1>r DEF Prepare, ConstantsPending, ZeroVariance
  <2>. QED
    BY <1>0, <1>2, <2>4, <2>5 DEF Prepare, IInv, RunningNoRaise, NothingSelected,
       LabelState, LabelsRaw, FeatureColumnsMatchX, HasX, ConstantsGone
<1>3. CASE MapLabels
  <2>1. raised_in = "none" /\ ylabel = [t \in RawTokens |-> t]
    BY <1>0, <1>3 DEF MapLabels, RunningNoRaise, LabelState, LabelsRaw
  <2>2. LabelState'
    BY <1>3, <2>1 DEF MapLabels, LabelState, LabelsRaw
  <2>3. TypeOK'
    BY <1>0, <1>3, <2>2 DEF MapLabels, TypeOK, LabelState, LabelsRaw, Labels
  <2>4. ConstantsPending'
    BY <1>0, <1>3, <1>r DEF MapLabels, ConstantsPending, ZeroVariance
  <2>. QED
    BY <1>0, <1>3, <2>2, <2>3, <2>4 DEF MapLabels, IInv, RunningNoRaise,
       NothingSelected, FeatureColumnsMatchX, HasX, ConstantsGone
<1>4. CASE Encode
  <2>. DEFINE enc == {c \in cols : col[c].dtype = "obj" /\ RoleOf(c) # "ip"}
              xc  == {c \in cols : col[c].dtype = "num"} \cup enc
  <2>1. /\ col' = [c \in Cols |-> IF c \in enc THEN [col[c] EXCEPT !.dtype = "num"]
                                              ELSE col[c]]
        /\ cols' = xc /\ feature_columns' = xc
    BY <1>4 DEF Encode
  <2>2. \A c \in Cols : col'[c].vals = col[c].vals /\ col'[c].spread = col[c].spread
    BY <1>0, <2>1 DEF TypeOK, Column
  <2>3. TypeOK'
    BY <1>0, <1>4, <2>1 DEF Encode, TypeOK, Column, NothingSelected
  <2>4. ConstantsPending'
    BY <1>0, <1>4, <1>r, <2>1, <2>2 DEF Encode, ConstantsPending, ZeroVariance, TypeOK
  <2>. QED
    BY <1>0, <1>4, <2>1, <2>3, <2>4 DEF Encode, IInv, RunningNoRaise,
       NothingSelected, LabelState, LabelsRaw, FeatureColumnsMatchX, HasX, ConstantsGone
<1>5. CASE Impute
  <2>1. PICK v \in [cols -> UNION {Imputed(col[c].vals) : c \in cols}] :
           /\ \A c \in cols : v[c] \in Imputed(col[c].vals)
           /\ col' = [c \in Cols |-> IF c \in cols THEN [col[c] EXCEPT !.vals = v[c]]
                                                  ELSE col[c]]
    BY <1>5 DEF Impute
  <2>2. \A c \in cols : v[c] \in SUBSET Kinds
    BY <1>0, <2>1, ImputedType DEF TypeOK, Column
  <2>3. TypeOK'
    <3>1. col' \in [Cols -> Column]
      BY <1>0, <2>1, <2>2 DEF TypeOK, Column
    <3>2. leaked' \in BOOLEAN
      BY <1>5, Zenon DEF Impute
    <3>. QED
      BY <1>0, <1>5, <3>1, <3>2 DEF Impute, TypeOK
  <2>4. ConstantsPending'
    <3>1. \A c \in constant0 \cap cols : v[c] = {"fin"}
      BY <1>0, <1>5, <2>1, ImputedOfFinite DEF Impute, ConstantsPending, ZeroVariance
    <3>2. \A c \in constant0 \cap cols :
             col'[c].vals = {"fin"} /\ col'[c].spread = col[c].spread
      BY <1>0, <2>1, <3>1 DEF TypeOK, Column
    <3>. QED
      BY <1>0, <1>5, <1>r, <3>2 DEF Impute, ConstantsPending, ZeroVariance
  <2>. QED
    BY <1>0, <1>5, <2>3, <2>4 DEF Impute, IInv, RunningNoRaise,
       NothingSelected, LabelState, LabelsRaw, FeatureColumnsMatchX, HasX, ConstantsGone
<1>6. CASE DropConstant
  <2>1. feature_columns = cols /\ constant0 \cap cols \subseteq ZeroVarianceColumns
    BY <1>0, <1>6 DEF DropConstant, FeatureColumnsMatchX, HasX, ConstantsPending,
       ZeroVarianceColumns
  <2>2. cols' \subseteq cols /\ feature_columns' = cols'
    BY <1>6, <2>1 DEF DropConstant
  <2>3. ConstantsGone'
    BY <1>6, <2>1, <2>2 DEF DropConstant, ConstantsGone, ZeroVarianceColumns
  <2>4. TypeOK'
    BY <1>0, <1>6, <2>2 DEF DropConstant, TypeOK, NothingSelected
  <2>. QED
    BY <1>0, <1>6, <2>2, <2>3, <2>4 DEF DropConstant, IInv, RunningNoRaise,
       NothingSelected, LabelState, LabelsRaw, FeatureColumnsMatchX, HasX,
       ConstantsPending
<1>7. CASE Clip
  <2>1. TypeOK'
    BY <1>0, <1>7 DEF Clip, TypeOK, Column
  <2>. QED
    BY <1>0, <1>7, <2>1 DEF Clip, IInv, RunningNoRaise, NothingSelected, LabelState,
       LabelsRaw, FeatureColumnsMatchX, HasX, ConstantsPending, ConstantsGone
<1>8. CASE SplitStratified \/ SplitFallback \/ Scale
  <2>1. leaked' \in BOOLEAN
    BY <1>0, <1>8, Zenon DEF SplitStratified, SplitFallback, Scale, TypeOK
  <2>. QED
    BY <1>0, <1>8, <2>1 DEF SplitStratified, SplitFallback, Scale, IInv, TypeOK,
       RunningNoRaise, NothingSelected, LabelState, LabelsRaw, FeatureColumnsMatchX,
       HasX, ConstantsPending, ConstantsGone
<1>9. CASE SplitRaises \/ ScaleRaises \/ SelectRaises
  BY <1>0, <1>9 DEF SplitRaises, ScaleRaises, SelectRaises, IInv, TypeOK,
     RunningNoRaise, NothingSelected, LabelState, LabelsRaw, FeatureColumnsMatchX,
     HasX, ConstantsPending, ConstantsGone
<1>10. CASE Select
  BY <1>0, <1>10 DEF Select, IInv, TypeOK, RunningNoRaise, NothingSelected,
     LabelState, LabelsRaw, FeatureColumnsMatchX, HasX, ConstantsPending, ConstantsGone
<1>11. CASE UNCHANGED vars
  <2>1. leaked' \in BOOLEAN
    BY <1>0, <1>11, Zenon DEF vars, TypeOK
  <2>. QED
    BY <1>0, <1>11, <1>r, <2>1 DEF vars, IInv, TypeOK, RunningNoRaise, NothingSelected,
       LabelState, LabelsRaw, FeatureColumnsMatchX, HasX, ConstantsPending,
       ConstantsGone, ZeroVariance
<1>. QED
  BY <1>1, <1>2, <1>3, <1>4, <1>5, <1>6, <1>7, <1>8, <1>9, <1>10, <1>11 DEF Next

(* The run's state satisfies IInv in every reachable state.               *)
LEMMA IInvHolds == Spec => []IInv
BY InitIInv, IInvStep, PTL DEF Spec

(***************************************************************************)
(* TypeOK for every set of columns, label tokens and row counts: the      *)
(* frame's columns, their kinds, the labels of line 299 and the feature   *)
(* list keep their ranges through the whole of preprocessing.             *)
(***************************************************************************)
THEOREM TypeCorrect == Spec => []TypeOK
BY IInvHolds, PTL DEF IInv

(***************************************************************************)
(* FeatureColumnsMatchX for every instance: from step 6 on,               *)
(* self.feature_columns names exactly X's columns, because the constant   *)
(* drop of lines 339-344 refreshes it in the same step.                   *)
(***************************************************************************)
THEOREM FeatureListFollowsX == Spec => []FeatureColumnsMatchX
BY IInvHolds, PTL DEF IInv

(***************************************************************************)
(* ConstantsDropped for every instance: a column whose values were all    *)
(* equal after step 3 stays so through encoding and imputation, so the    *)
(* drop of line 342 removes it from the list the split, the scaler and    *)
(* SelectKBest see.                                                       *)
(***************************************************************************)
THEOREM ConstantsDroppedHolds == Spec => []ConstantsDropped
<1>1. IInv => ConstantsDropped
  BY DEF IInv, ConstantsGone, ConstantsDropped
<1>. QED
  BY <1>1, IInvHolds, PTL

(***************************************************************************)
(* LabelsIdempotent for every set of label tokens: once line 299 has run, *)
(* every class of y is a fixed point of label_mapping, since every row    *)
(* carries a standardised token and standardising is idempotent.          *)
(***************************************************************************)
THEOREM LabelsIdempotentHolds == Spec => []LabelsIdempotent
<1>1. IInv => LabelsIdempotent
  <2>. SUFFICES ASSUME IInv, pc \notin {"prepare", "labels"}, raised_in # "engineer",
                       NEW l \in Classes
                PROVE  Standardize(l) = l
    BY DEF LabelsIdempotent
  <2>1. PICK t \in RawTokens : l = ylabel[t]
    BY DEF Classes
  <2>2. ylabel[t] = Standardize(t)
    BY DEF IInv, LabelState, LabelsRaw
  <2>. QED
    BY <2>1, <2>2, StandardizeIdempotent
<1>. QED
  BY <1>1, IInvHolds, PTL

=============================================================================

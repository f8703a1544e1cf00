---------------------------- MODULE Preprocess ----------------------------
(***************************************************************************)
(* From the combined frame to the selected training matrix:               *)
(* preprocess_unified_data (src/model_optimized.py, lines 247-372) with   *)
(* create_engineered_features (139-182), then scale_features (374-392)    *)
(* and feature_selection (394-419) as main calls them.                    *)
(*                                                                         *)
(* A column is abstracted to its dtype, the kinds of value its rows hold  *)
(* (finite, NaN, +-inf) and whether its finite values are all equal       *)
(* ("one") or not ("many").  The label column is abstracted to the number *)
(* of rows of each raw label token and the label those rows carry; no     *)
(* step drops rows.  The statistics (median, quantiles, std)              *)
(* are modelled by what they make of these kinds, with a nondeterministic *)
(* choice where the kinds alone do not decide the outcome.                *)
(***************************************************************************)
EXTENDS Naturals, FiniteSets, TLC

CONSTANTS
    Base,       \* the columns of the combined frame other than 'label'
    Role,       \* [Base -> {"feature", "ip", "port", "drop"}]
    Derived,    \* the columns create_engineered_features may add
    Inputs,     \* [Derived -> SUBSET Base]: the columns one is computed from
    Indicator,  \* the engineered columns that are ==/isin tests, not arithmetic
    RawTokens,  \* the upper-cased label tokens load_all_datasets produces
    Counts,     \* the numbers of rows one token may have
    K,          \* the k of feature_selection (main passes 50)
    NoList      \* the value None of self.feature_columns

ASSUME BaseAssumption ==
    /\ Base \cap Derived = {}
    /\ Role \in [Base -> {"feature", "ip", "port", "drop"}]
    /\ Inputs \in [Derived -> (SUBSET Base) \ {{}}]
    /\ Indicator \subseteq Derived
ASSUME CountsAssumption == Counts \subseteq Nat /\ K \in Nat \ {0}

VARIABLES
    pc,              \* the next step of the run, "done" or "raised"
    raised_in,       \* where an uncaught exception left the run
    cols,            \* the columns of df, and from step 6 on those of X
    col,             \* [dtype, vals, spread] of every column
    ycount,          \* rows per raw label token, as loaded
    ylabel,          \* the value df['label'] holds on the rows of each token
    feature_columns, \* self.feature_columns
    constant0,       \* history: the columns whose values were all equal
    leaked,          \* history: X_train was cleaned with statistics of test rows
    selected         \* the columns SelectKBest keeps

vars == <<pc, raised_in, cols, col, ycount, ylabel, feature_columns, constant0,
          leaked, selected>>

Cols  == Base \cup Derived
Kinds == {"fin", "nan", "inf"}
Column == [dtype : {"num", "obj"}, vals : SUBSET Kinds, spread : {"one", "many"}]
Blank == [dtype |-> "num", vals |-> {}, spread |-> "one"]
RoleOf(c) == IF c \in Base THEN Role[c] ELSE "feature"

(***************************************************************************)
(* label_mapping and .map(label_mapping).fillna(original) (lines         *)
(* 275-299): the dict is a function on its keys (a record, as every key   *)
(* is an identifier); unmapped tokens pass through.                       *)
(***************************************************************************)
(* Mutant: a table value that is itself a key ('DDOS' -> 'FLOOD').        *)
LabelMappingChained ==
    [BENIGN |-> "BENIGN", NORMAL |-> "BENIGN", DNS |-> "DNS", NTP |-> "NTP",
     HTTP |-> "HTTP", LDAP |-> "LDAP", MSSQL |-> "MSSQL", NETBIOS |-> "NetBIOS",
     NETBIOS_NAME_SERVICE |-> "NetBIOS", PORTMAP |-> "Portmap",
     RECURSIVE_GET |-> "RECURSIVE_GET", SLOWLORIS |-> "SLOWLORIS",
     SLOW_POST |-> "SLOW_POST", SYN |-> "SYN", UDP |-> "UDP", UDPLAG |-> "UDPLag",
     DDOS |-> "FLOOD", ATTACK |-> "UDP", FLOOD |-> "UDP"]

LabelMapping ==
    [BENIGN |-> "BENIGN", NORMAL |-> "BENIGN", DNS |-> "DNS", NTP |-> "NTP",
     HTTP |-> "HTTP", LDAP |-> "LDAP", MSSQL |-> "MSSQL", NETBIOS |-> "NetBIOS",
     NETBIOS_NAME_SERVICE |-> "NetBIOS", PORTMAP |-> "Portmap",
     RECURSIVE_GET |-> "RECURSIVE_GET", SLOWLORIS |-> "SLOWLORIS",
     SLOW_POST |-> "SLOW_POST", SYN |-> "SYN", UDP |-> "UDP", UDPLAG |-> "UDPLag",
     DDOS |-> "UDP", ATTACK |-> "UDP", FLOOD |-> "UDP"]

Standardize(t) == IF t \in DOMAIN LabelMapping THEN LabelMapping[t] ELSE t

Labels == RawTokens \cup {Standardize(t) : t \in RawTokens}

(* The rows of the tokens in T; the frame's row count, y.shape[0].        *)
RowsOf[T \in SUBSET RawTokens] ==
    IF T = {} THEN 0
    ELSE LET t == CHOOSE r \in T : TRUE IN ycount[t] + RowsOf[T \ {t}]

Rows == RowsOf[RawTokens]

(***************************************************************************)
(* The columns a frame of n rows can hold: a numeric column has n > 0     *)
(* rows of at most n kinds, two distinct finite values need two finite    *)
(* rows besides one of each other kind; an object column holds strings.   *)
(***************************************************************************)
Spreads(v, n) == IF "fin" \in v /\ n >= Cardinality(v) + 1
                   THEN {"one", "many"} ELSE {"one"}

ColumnStates(n) ==
    {r \in Column :
        /\ r.spread \in Spreads(r.vals, n)
        /\ IF r.dtype = "obj"
             THEN r.vals = IF n = 0 THEN {} ELSE {"fin"}
             ELSE Cardinality(r.vals) <= n /\ (n > 0 => r.vals # {})}

(* Values all equal, over at least two rows: X.std() == 0 (ddof 1).       *)
ZeroVariance(r) == r.vals = {"fin"} /\ r.spread = "one" /\ Rows >= 2

(***************************************************************************)
(* The engineered column d (lines 143-180): an ==/isin test holds 0/1     *)
(* values; a ratio or product carries the NaN and inf of its inputs, and  *)
(* inf/inf or inf*0 may turn an inf into NaN.                             *)
(***************************************************************************)
Engineered(d) ==
    IF d \in Indicator
      THEN {[dtype |-> "num", vals |-> IF Rows = 0 THEN {} ELSE {"fin"}, spread |-> s] :
              s \in Spreads({"fin"}, Rows)}
      ELSE LET u == UNION {col[c].vals : c \in Inputs[d]}
               vs == IF "inf" \in u
                       THEN {u, u \cup {"nan"}, (u \ {"inf"}) \cup {"nan"}}
                       ELSE {u}
           IN  UNION {{[dtype |-> "num", vals |-> v, spread |-> s] :
                         s \in IF \A c \in Inputs[d] : col[c].spread = "one"
                                 THEN {"one"} ELSE Spreads(v, Rows)} : v \in vs}

(***************************************************************************)
(* X.median() skips NaN; of finite and infinite values the median can be  *)
(* either, and of +inf and -inf it is NaN (lines 332, 337).               *)
(***************************************************************************)
MedianKinds(v) ==
    CASE v \cap {"fin", "inf"} = {} -> {"nan"}
      [] "inf" \notin v             -> {"fin"}
      [] "fin" \notin v             -> {"inf", "nan"}
      [] OTHER                      -> {"fin", "inf", "nan"}

FillNa(v, m) == IF "nan" \in v THEN (v \ {"nan"}) \cup {m} ELSE v

ReplaceInf(v) == IF "inf" \in v THEN (v \ {"inf"}) \cup {"nan"} ELSE v

(* fillna(median); replace inf by NaN; fillna(median) (lines 332-337).    *)
Imputed(v) ==
    UNION {{FillNa(w, m2) : m2 \in MedianKinds(w)} :
             w \in {ReplaceInf(FillNa(v, m1)) : m1 \in MedianKinds(v)}}

(* train_test_split(test_size=0.2): ceil(0.2 n) test rows.                *)
NTest  == (Rows + 4) \div 5
NTrain == Rows - NTest
Classes == {ylabel[t] : t \in {r \in RawTokens : ycount[r] > 0}}
ClassRows(l) == RowsOf[{t \in RawTokens : ylabel[t] = l}]

(***************************************************************************)
(* The stratified split raises ValueError when the train split would be  *)
(* empty, a class has fewer than 2 rows, or either split has fewer rows   *)
(* than there are classes.                                                *)
(***************************************************************************)
StratifyFeasible ==
    /\ NTrain >= 1
    /\ \A l \in Classes : ClassRows(l) >= 2
    /\ NTrain >= Cardinality(Classes)
    /\ NTest >= Cardinality(Classes)

MinOfTwo(a, b) == IF a <= b THEN a ELSE b

-----------------------------------------------------------------------------
(***************************************************************************)
(* The combined frame load_all_datasets returns: every label token with   *)
(* a row count, every present column a column of that many rows, and the *)
(* source_file column ingestion adds (role "drop") always present.        *)
(***************************************************************************)
Init ==
    /\ ycount \in [RawTokens -> Counts]
    /\ ylabel = [t \in RawTokens |-> t]
    /\ \E present \in SUBSET {c \in Base : Role[c] # "drop"} :
         /\ cols = present \cup {c \in Base : Role[c] = "drop"}
         /\ \E p \in [cols -> ColumnStates(Rows)] :
              /\ \A c \in cols : Role[c] = "drop" => p[c].dtype = "obj"
              /\ col = [c \in Cols |-> IF c \in cols THEN p[c] ELSE Blank]
    /\ pc = "prepare"
    /\ raised_in = "none"
    /\ feature_columns = NoList
    /\ constant0 = {}
    /\ leaked = FALSE
    /\ selected = {}

(* The engineered columns whose input columns are all present.            *)
Made == {d \in Derived : Inputs[d] \subseteq cols}

(* Arithmetic on an object input (a str divided or added to) raises       *)
(* TypeError out of create_engineered_features (lines 144-155).           *)
EngineerRaises ==
    /\ pc = "prepare"
    /\ \E d \in Made \ Indicator : \E c \in Inputs[d] : col[c].dtype = "obj"
    /\ pc' = "raised"
    /\ raised_in' = "engineer"
    /\ UNCHANGED <<cols, col, ycount, ylabel, feature_columns, constant0, leaked, selected>>

(***************************************************************************)
(* Steps 1-3 (lines 251-272): the identifiers are copied aside, the       *)
(* engineered columns added, source_file, timestamp and Unnamed columns   *)
(* dropped.  The label column is always present here, since ingestion     *)
(* keeps only files that have one, so the early return of line 272 is not *)
(* reached from main.                                                     *)
(***************************************************************************)
Prepare ==
    /\ pc = "prepare"
    /\ \A d \in Made \ Indicator : \A c \in Inputs[d] : col[c].dtype = "num"
    /\ \E e \in [Made -> UNION {Engineered(d) : d \in Made}] :
         /\ \A d \in Made : e[d] \in Engineered(d)
         /\ col' = [c \in Cols |-> IF c \in Made THEN e[c] ELSE col[c]]
    /\ cols' = (cols \cup Made) \ {c \in Base : Role[c] = "drop"}
    /\ constant0' = {c \in cols' : ZeroVariance(col'[c])}
    /\ pc' = "labels"
    /\ UNCHANGED <<raised_in, ycount, ylabel, feature_columns, leaked, selected>>

(* Mutant: .map(label_mapping) without .fillna: unmapped tokens are NaN. *)
MapLabelsNoFillna ==
    /\ pc = "labels"
    /\ ylabel' = [t \in RawTokens |->
                    IF ylabel[t] \in DOMAIN LabelMapping THEN LabelMapping[ylabel[t]]
                    ELSE "nan"]
    /\ pc' = "encode"
    /\ UNCHANGED <<raised_in, cols, col, ycount, feature_columns, constant0, leaked,
                   selected>>

(* Step 4 (lines 275-299): every row's label is standardised in place, so *)
(* the rows of tokens mapped to one label form one class.                 *)
MapLabels ==
    /\ pc = "labels"
    /\ ylabel' = [t \in RawTokens |-> Standardize(ylabel[t])]
    /\ pc' = "encode"
    /\ UNCHANGED <<raised_in, cols, col, ycount, feature_columns, constant0, leaked,
                   selected>>

(***************************************************************************)
(* Steps 5-6 (lines 302-325): object columns other than src_ip/dst_ip are *)
(* label-encoded (distinct strings, "nan" included, get distinct codes);  *)
(* X keeps the numeric columns and feature_columns lists them.            *)
(***************************************************************************)
Encode ==
    /\ pc = "encode"
    /\ LET enc == {c \in cols : col[c].dtype = "obj" /\ RoleOf(c) # "ip"}
           xc  == {c \in cols : col[c].dtype = "num"} \cup enc
       IN  /\ col' = [c \in Cols |-> IF c \in enc THEN [col[c] EXCEPT !.dtype = "num"]
                                                  ELSE col[c]]
           /\ cols' = xc
           /\ feature_columns' = xc
    /\ pc' = "impute"
    /\ UNCHANGED <<raised_in, ycount, ylabel, constant0, leaked, selected>>

(* Step 7, missing and infinite values (lines 330-337), with medians over *)
(* all rows, test rows included.                                          *)
Impute ==
    /\ pc = "impute"
    /\ \E v \in [cols -> UNION {Imputed(col[c].vals) : c \in cols}] :
         /\ \A c \in cols : v[c] \in Imputed(col[c].vals)
         /\ col' = [c \in Cols |-> IF c \in cols THEN [col[c] EXCEPT !.vals = v[c]]
                                                ELSE col[c]]
    /\ leaked' = TRUE
    /\ pc' = "constants"
    /\ UNCHANGED <<raised_in, cols, ycount, ylabel, feature_columns, constant0, selected>>

(* The zero-variance columns of X; NaN std (all NaN, one row) is not 0.   *)
ZeroVarianceColumns == {c \in cols : ZeroVariance(col[c])}

(* Mutant: the list is not refreshed after the drop.                      *)
DropConstantKeepsList ==
    /\ pc = "constants"
    /\ cols' = cols \ ZeroVarianceColumns
    /\ pc' = "clip"
    /\ UNCHANGED <<raised_in, col, ycount, ylabel, feature_columns, constant0, leaked, selected>>

(* Mutant: "if len(constant_features) > 1".                               *)
DropConstantNeedsTwo ==
    /\ pc = "constants"
    /\ IF Cardinality(ZeroVarianceColumns) > 1
         THEN /\ cols' = cols \ ZeroVarianceColumns
              /\ feature_columns' = cols \ ZeroVarianceColumns
         ELSE UNCHANGED <<cols, feature_columns>>
    /\ pc' = "clip"
    /\ UNCHANGED <<raised_in, col, ycount, ylabel, constant0, leaked, selected>>

(* Constant features are dropped and the list refreshed (lines 339-344).  *)
DropConstant ==
    /\ pc = "constants"
    /\ IF ZeroVarianceColumns # {}
         THEN /\ cols' = cols \ ZeroVarianceColumns
              /\ feature_columns' = cols \ ZeroVarianceColumns
         ELSE UNCHANGED <<cols, feature_columns>>
    /\ pc' = "clip"
    /\ UNCHANGED <<raised_in, col, ycount, ylabel, constant0, leaked, selected>>

(***************************************************************************)
(* Outlier clipping to [Q1 - 3 IQR, Q3 + 3 IQR] over all rows (lines      *)
(* 347-354): kinds are unchanged (NaN bounds clip nothing), and when the  *)
(* IQR is 0 a column of several values can collapse to one.               *)
(***************************************************************************)
Clip ==
    /\ pc = "clip"
    /\ \E collapse \in SUBSET {c \in cols : col[c].spread = "many"} :
         col' = [c \in Cols |-> IF c \in collapse THEN [col[c] EXCEPT !.spread = "one"]
                                                  ELSE col[c]]
    /\ pc' = "split"
    /\ UNCHANGED <<raised_in, cols, ycount, ylabel, feature_columns, constant0, leaked, selected>>

(* train_test_split(..., stratify=y) succeeds (lines 357-361).            *)
SplitStratified ==
    /\ pc = "split"
    /\ StratifyFeasible
    /\ pc' = "scale"
    /\ leaked' = (leaked /\ NTest > 0)
    /\ UNCHANGED <<raised_in, cols, col, ycount, ylabel, feature_columns, constant0, selected>>

(* It raises ValueError and the unstratified split succeeds (362-366).    *)
SplitFallback ==
    /\ pc = "split"
    /\ ~StratifyFeasible
    /\ NTrain >= 1
    /\ pc' = "scale"
    /\ leaked' = (leaked /\ NTest > 0)
    /\ UNCHANGED <<raised_in, cols, col, ycount, ylabel, feature_columns, constant0, selected>>

(* Both raise (empty train split), the second out of the except clause.   *)
SplitRaises ==
    /\ pc = "split"
    /\ NTrain = 0
    /\ pc' = "raised"
    /\ raised_in' = "split"
    /\ UNCHANGED <<cols, col, ycount, ylabel, feature_columns, constant0, leaked, selected>>

(* RobustScaler fit on X_train and applied to X_test (lines 374-392); it  *)
(* skips NaN, so only a matrix without columns makes it raise.            *)
Scale ==
    /\ pc = "scale"
    /\ cols # {}
    /\ pc' = "select"
    /\ UNCHANGED <<raised_in, cols, col, ycount, ylabel, feature_columns, constant0, leaked, selected>>

ScaleRaises ==
    /\ pc = "scale"
    /\ cols = {}
    /\ pc' = "raised"
    /\ raised_in' = "scale"
    /\ UNCHANGED <<cols, col, ycount, ylabel, feature_columns, constant0, leaked, selected>>

(***************************************************************************)
(* SelectKBest(mutual_info_classif, k=min(k, ncols)) (lines 394-419):     *)
(* its input validation rejects NaN; otherwise it keeps k columns, which  *)
(* get_support() names by position in self.feature_columns.               *)
(***************************************************************************)
Select ==
    /\ pc = "select"
    /\ \A c \in cols : "nan" \notin col[c].vals
    /\ \E s \in SUBSET cols :
         /\ Cardinality(s) = MinOfTwo(K, Cardinality(cols))
         /\ selected' = s
    /\ pc' = "done"
    /\ UNCHANGED <<raised_in, cols, col, ycount, ylabel, feature_columns, constant0, leaked>>

SelectRaises ==
    /\ pc = "select"
    /\ \E c \in cols : "nan" \in col[c].vals
    /\ pc' = "raised"
    /\ raised_in' = "select"
    /\ UNCHANGED <<cols, col, ycount, ylabel, feature_columns, constant0, leaked, selected>>

Next ==
    \/ EngineerRaises \/ Prepare \/ MapLabels \/ Encode \/ Impute
    \/ DropConstant \/ Clip
    \/ SplitStratified \/ SplitFallback \/ SplitRaises
    \/ Scale \/ ScaleRaises \/ Select \/ SelectRaises

Spec == Init /\ [][Next]_vars

-----------------------------------------------------------------------------
(* Every variable ranges over the values the code can give it.             *)
TypeOK ==
    /\ pc \in {"prepare", "labels", "encode", "impute", "constants", "clip",
               "split", "scale", "select", "done", "raised"}
    /\ raised_in \in {"none", "engineer", "split", "scale", "select"}
    /\ cols \subseteq Cols
    /\ col \in [Cols -> Column]
    /\ ycount \in [RawTokens -> Nat]
    /\ ylabel \in [RawTokens -> Labels]
    /\ feature_columns \in (SUBSET Cols) \cup {NoList}
    /\ constant0 \subseteq Cols
    /\ leaked \in BOOLEAN
    /\ selected \subseteq cols

(* The steps after X is built, up to and including feature selection.     *)
HasX == pc \in {"impute", "constants", "clip", "split", "scale", "select", "done"}
           \/ (pc = "raised" /\ raised_in \in {"split", "scale", "select"})

(***************************************************************************)
(* self.feature_columns names exactly the columns of X from step 6 on:    *)
(* get_support() of the selector (line 413), the metadata of the saved    *)
(* bundle and inference all index X's columns through this list, so a     *)
(* drop of X's columns (constant features) must refresh it.               *)
(***************************************************************************)
FeatureColumnsMatchX == HasX => feature_columns = cols

(***************************************************************************)
(* Spec scenario D: a column whose values were all equal (over at least   *)
(* two rows) is not in the feature list once cleaning is over, whether    *)
(* it was numeric, an encoded string column or an engineered column.      *)
(***************************************************************************)
ConstantsDropped ==
    pc \in {"split", "scale", "select", "done"} => constant0 \cap feature_columns = {}

(***************************************************************************)
(* Spec 4.3 and 8: standardising is idempotent, so every label the        *)
(* training run keeps is a fixed point of the label mapping.              *)
(***************************************************************************)
LabelsIdempotent ==
    pc \notin {"prepare", "labels"} /\ raised_in # "engineer" =>
        \A l \in Classes : Standardize(l) = l

(***************************************************************************)
(* Spec 3, FeatureMatrix: after cleaning every value is finite.           *)
(***************************************************************************)
FeatureMatrixFinite ==
    pc \in {"split", "scale", "select", "done"} =>
        \A c \in cols : col[c].vals \subseteq {"fin"}

(***************************************************************************)
(* Spec 3, SideTable: the network identifiers (addresses, ports,          *)
(* protocol) are kept aside and never fed into the feature matrix.        *)
(***************************************************************************)
IdentifiersNotFeatures ==
    HasX => \A c \in feature_columns : RoleOf(c) \notin {"ip", "port"}

(***************************************************************************)
(* Spec 4.5 and scenario C: when stratification is infeasible the split   *)
(* falls back to an unstratified one and does not raise.                  *)
(***************************************************************************)
SplitNeverRaises == raised_in # "split"

(***************************************************************************)
(* Spec 4.4 (c) and (f): the imputation medians and the clipping bounds   *)
(* are computed on the training split only.                               *)
(***************************************************************************)
FitOnTrainOnly == pc \in {"scale", "select", "done"} => ~leaked

(***************************************************************************)
(* Spec 4.5: the selection mask is recorded in the canonical feature      *)
(* list, so the persisted list names the model's input columns.           *)
(***************************************************************************)
SelectionRecorded == pc = "done" => feature_columns = selected

=============================================================================

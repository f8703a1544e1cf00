----------------------------- MODULE Ingestion -----------------------------
(***************************************************************************)
(* Dataset ingestion: OptimizedDDoSAnalysis.load_all_datasets             *)
(* (src/model_optimized.py, lines 184-245).                               *)
(*                                                                         *)
(* The CSV files are processed one at a time in directory order.  A file  *)
(* is abstracted to whether read_csv succeeds, its raw header (raw names  *)
(* of Normalizer) and the number of rows carrying each raw label string.  *)
(* A raw label string is a record [raw, up]: up is what                   *)
(* .astype(str).str.strip().str.upper() makes of it (line 215), so two    *)
(* spellings of one label fall into one class.                            *)
(***************************************************************************)
EXTENDS Naturals, Sequences, FiniteSets, Functions, Normalizer

CONSTANTS
    FileShapes,  \* the CSV files the directory may hold
    NFiles,      \* number of CSV files in the directory
    Cap,         \* max_samples_per_file
    NoData       \* the None that load_all_datasets returns

ASSUME NFilesAssumption == NFiles \in Nat
ASSUME CapAssumption == Cap \in Nat \ {0}

VARIABLES
    files,       \* the CSV files, in os.listdir order
    i,           \* index of the next file the for loop processes
    frames,      \* all_dataframes: [src, labels] per appended frame
    combined     \* result of pd.concat, as class counts; NoData if None

vars == <<files, i, frames, combined>>

(***************************************************************************)
(* The label column after normalisation and the search of lines 203-212. *)
(* Only "target" of the alternatives can still be present: the names were *)
(* lower-cased, and class/attack already became "label".  rename() gives  *)
(* every column of the name the new name, so duplicates survive.          *)
(***************************************************************************)
ColumnsNamed(header, n) == {c \in header : NormalizeName(c) = n}

LabelColumns(header) ==
    IF ColumnsNamed(header, "label") # {}
      THEN ColumnsNamed(header, "label")
      ELSE ColumnsNamed(header, "target")

(* Rows per class after strip().upper() (line 215).                        *)
UpperCounts(f) ==
    [t \in {r.up : r \in DOMAIN f.labels} |->
        SumFunctionOnSet(f.labels, {r \in DOMAIN f.labels : r.up = t})]

Rows(counts) == SumFunction(counts)

MinOf(a, b) == IF a < b THEN a ELSE b

(* Mutants: samples_per_class rounded up, and empty classes kept as       *)
(* zero-row groups.                                                        *)
SampleRoundUp(counts) ==
    IF Rows(counts) > Cap
      THEN LET n == Cardinality(DOMAIN counts)
               spc == (Cap + n - 1) \div n
           IN  [t \in {u \in DOMAIN counts : MinOf(counts[u], spc) > 0} |->
                    MinOf(counts[t], spc)]
      ELSE counts

SampleKeepsEmptyClasses(counts) ==
    IF Rows(counts) > Cap
      THEN LET spc == Cap \div Cardinality(DOMAIN counts)
           IN  [t \in DOMAIN counts |-> MinOf(counts[t], spc)]
      ELSE counts

(***************************************************************************)
(* Balanced sampling (lines 219-225): above the cap, each class keeps     *)
(* min(len(x), max_samples_per_file // nunique) rows; a class left with   *)
(* none vanishes from the frame.                                          *)
(***************************************************************************)
Sample(counts) ==
    IF Rows(counts) > Cap
      THEN LET spc == Cap \div Cardinality(DOMAIN counts)
           IN  [t \in {u \in DOMAIN counts : MinOf(counts[u], spc) > 0} |->
                    MinOf(counts[t], spc)]
      ELSE counts

Init ==
    /\ files \in [1..NFiles -> FileShapes]
    /\ i = 1
    /\ frames = << >>
    /\ combined = NoData

Loading == i <= Len(files)

(* pd.read_csv raises: the except clause logs and continues (line 231).    *)
SkipUnreadable ==
    /\ Loading
    /\ ~files[i].parses
    /\ i' = i + 1
    /\ UNCHANGED <<files, frames, combined>>

(* No label column and no alternative: "skipping..." (lines 210-212).      *)
SkipNoLabel ==
    /\ Loading
    /\ files[i].parses
    /\ LabelColumns(files[i].header) = {}
    /\ i' = i + 1
    /\ UNCHANGED <<files, frames, combined>>

(***************************************************************************)
(* Two columns named "label": df[target_column] is a DataFrame, which has *)
(* no .str, so line 215 raises AttributeError; the except clause skips    *)
(* the file.                                                               *)
(***************************************************************************)
SkipDuplicateLabel ==
    /\ Loading
    /\ files[i].parses
    /\ Cardinality(LabelColumns(files[i].header)) >= 2
    /\ i' = i + 1
    /\ UNCHANGED <<files, frames, combined>>

(* One label column: upper-case, sample, tag source_file, append.          *)
LoadFile ==
    /\ Loading
    /\ files[i].parses
    /\ Cardinality(LabelColumns(files[i].header)) = 1
    /\ frames' = Append(frames, [src |-> i, labels |-> Sample(UpperCounts(files[i]))])
    /\ i' = i + 1
    /\ UNCHANGED <<files, combined>>

(* Rows of class t in frame k.                                              *)
Count(k, t) == IF t \in DOMAIN frames[k].labels THEN frames[k].labels[t] ELSE 0

(* After the loop: None if nothing was appended, else pd.concat.            *)
Concat ==
    /\ ~Loading
    /\ combined = NoData
    /\ frames # << >>
    /\ combined' =
         [t \in UNION {DOMAIN frames[k].labels : k \in 1..Len(frames)} |->
             SumFunction([k \in 1..Len(frames) |-> Count(k, t)])]
    /\ UNCHANGED <<files, i, frames>>

Next ==
    \/ SkipUnreadable
    \/ SkipNoLabel
    \/ SkipDuplicateLabel
    \/ LoadFile
    \/ Concat

Spec == Init /\ [][Next]_vars

Finished == ~Loading /\ (frames = << >> \/ combined # NoData)

-----------------------------------------------------------------------------
(* Every variable ranges over the values the code can give it.             *)
TypeOK ==
    /\ files \in [1..NFiles -> FileShapes]
    /\ i \in 1..(NFiles + 1)
    /\ \A k \in 1..Len(frames) :
         /\ frames[k].src \in 1..NFiles
         /\ frames[k].labels \in [DOMAIN frames[k].labels -> Nat \ {0}]
    /\ combined = NoData \/ combined \in [DOMAIN combined -> Nat \ {0}]

(***************************************************************************)
(* Spec 6, per-file sample cap: no appended frame holds more rows than    *)
(* max_samples_per_file, however its labels were spelled and split.       *)
(***************************************************************************)
CapRespected ==
    \A k \in 1..Len(frames) : Rows(frames[k].labels) <= Cap

(***************************************************************************)
(* Spec 6 and 7 (SourceSkipped): a file is left out only when it does not *)
(* parse or has no resolvable label column.  Once the loop is over, every *)
(* readable file with a label column has contributed a frame.             *)
(***************************************************************************)
LabelledFilesLoaded ==
    Finished =>
      \A k \in 1..NFiles :
         files[k].parses /\ LabelColumns(files[k].header) # {} =>
            \E j \in 1..Len(frames) : frames[j].src = k

(***************************************************************************)
(* Spec 6, balanced per-class subsampling: every class of a file that was *)
(* loaded still has rows in the combined dataset.                         *)
(***************************************************************************)
EveryClassSurvives ==
    combined # NoData =>
      \A j \in 1..Len(frames) :
         \A t \in DOMAIN UpperCounts(files[frames[j].src]) :
            t \in DOMAIN combined

(***************************************************************************)
(* Spec Scenario A, schema alignment: two loaded files whose headers name *)
(* one feature, as the keys of column_mappings say (a key, the raw header *)
(* in the file, and its value name one feature), end up with one column  *)
(* after normalize_column_names, so that pd.concat aligns them.           *)
(***************************************************************************)
Feature(c) ==
    IF c.raw \in DOMAIN ColumnMappings THEN ColumnMappings[c.raw] ELSE c.raw

SchemaAligned ==
    \A j, k \in 1..Len(frames) :
       \A c1 \in files[frames[j].src].header, c2 \in files[frames[k].src].header :
          Feature(c1) = Feature(c2) => NormalizeName(c1) = NormalizeName(c2)

=============================================================================

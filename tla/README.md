# Verification models of the DDoS analysis pipeline

These are TLA+ models of `src/model_optimized.py` (class `OptimizedDDoSAnalysis` and its
`__main__` driver) and of `src/hulk.py`. TLC model-checks them on small
instances, and TLAPS proves the main safety properties for every value of the
constants. `spec.md` is the design the code is compared with.

## The system

`OptimizedDDoSAnalysis` is a batch pipeline. The `__main__` block (lines
649-720) runs its stages one after the other:

| Part (spec section) | Code | State it changes |
|---|---|---|
| Schema Normalizer (4.1) | `column_mappings` 46-112, `normalize_column_names` 114-137 | column names of one frame |
| Dataset Ingestion (6) | `load_all_datasets` 184-245 | `all_dataframes`, then the combined frame or `None` |
| Feature Engineer (4.2) | `create_engineered_features` 139-182 | derived columns |
| Label Standardizer (4.3) | `label_mapping` in `preprocess_unified_data` 275-299 | label values |
| Dataset Cleaner (4.4) | 251-354 | columns dropped or encoded, NaN filled, constants dropped, clipping; `self.feature_columns` |
| Split / Scale / Select (4.5) | 357-419 | the train/test split (stratified, with a fallback), `self.scaler`, `self.feature_selector` |
| Model Search & Ensemble (4.6) | `train_best_model` 421-591 | `results`, `best_score`, `best_model`, `self.best_model` |
| Artifact Store (4.7) | `save_model_and_scaler` 593-614, `load_model_and_scaler` 616-633 | three files on disk; the analyzer's fields |
| Inference (4.7) | `predict_with_confidence` 635-646 | none |
| Pipeline driver | `__main__` 649-720 | which stage runs; what is printed |
| HULK load generator | `src/hulk.py` | a global counter and a stop flag shared by 500 threads |

How the stages interact:
- Each stage hands a frame, or matrices, to the next one. An exception in any
  stage ends the process, because `__main__` catches nothing.
- Ingestion calls the Normalizer on each file.
- `self.feature_columns`, written during cleaning, is what the selection reads
  (line 414) and what the saved metadata records.
- The search's `self.best_model`, the scaler and the metadata meet in the
  Artifact Store. A later process loads that bundle back.

HULK is a separate program. In it, 500 worker threads and one monitor thread
share the globals `request_counter`, `flag` and `safe`.

## Modules

| Module | Models | Kind |
|---|---|---|
| `Normalizer` | `column_mappings`, `normalize_column_names` | pure operators |
| `Ingestion` | `load_all_datasets` | state machine; EXTENDS `Normalizer` |
| `Preprocess` | `preprocess_unified_data` with `create_engineered_features`, `scale_features`, `feature_selection` | state machine |
| `ModelSearch` | `train_best_model` | state machine |
| `SelectionSpec` | what the model search promises (spec 4.6) | abstract specification |
| `ArtifactStore` | save and load, with a crash and a concurrent loader | state machine of two processes |
| `BundleStoreSpec` | what the artifact store promises (spec 5 and 8) | abstract specification |
| `Pipeline` | the `__main__` driver, with `ModelSearch` as its training stage | composition (INSTANCE on shared variables) |
| `Hulk` | `src/hulk.py`: workers and monitor | state machine of N+1 threads |
| `ModelSearchProofs`, `ArtifactStoreProofs`, `PreprocessProofs`, `PipelineProofs`, `HulkProofs` | theorems | TLAPS |
| `MCModelSearch`, `MCArtifactStore`, `MCIngestion`, `MCPreprocess`, `MCPipeline`, `MCHulk` | TLC instances | definitions for the .cfg files |

### Normalizer
A raw column name is a record with three fields:
- `raw`: the header as it stands in the file;
- `norm`: what `strip().replace(' ','_').lower()` makes of it (line 117);
- `words`: which of the substrings that the pattern rules test for occur in it.

`NormalizeName` follows the lookup order of lines 119-135:
1. `column_mappings` on `norm`;
2. the four source/destination ip/port substring rules;
3. the exact names class/attack/type;
4. otherwise `norm` itself.

`ColumnMappings` keeps the whole lower-case block (102-111), the two
lower-case keys of 91-92, and one representative of each kind of capitalised
key. The capitalised keys can never match, because the lookup key has already
been lower-cased.

### Ingestion
State:
- `files`: each file is whether it parses, its raw header, and its row count
  per raw label string;
- `i`: the loop index;
- `frames`: `all_dataframes`, as a source index plus a class count per frame;
- `combined`: the concat result, or `NoData` for `None`.

There is one action for each way a loop iteration ends:

| Action | Lines | What ends the iteration |
|---|---|---|
| `SkipUnreadable` | 198, 231 | `read_csv` raises |
| `SkipNoLabel` | 210-212 | no label column |
| `SkipDuplicateLabel` | 215, 231 | two columns become `label`, so `.str` raises |
| `LoadFile` | 215-228 | the file is loaded |

`Concat` (235-238) ends the function. `LoadFile` does three things, in order:
1. It upper-cases the labels (`UpperCounts`).
2. It samples as lines 219-225 do (`Sample`): `samples_per_class = cap // nunique`, and empty groups vanish.
3. It appends the frame.

### Preprocess
A column is abstracted to three things:
- its dtype;
- the kinds of value its rows hold (`"fin"`, `"nan"`, `"inf"`);
- whether its finite values are all equal (`spread`: `"one"` or `"many"`).

The label column is abstracted to two functions on the raw label tokens:
- `ycount`: the rows of each token, fixed at load time (no step drops rows);
- `ylabel`: the value `df['label']` holds on those rows.

`RowsOf[T]` sums the rows of a set of tokens. It is a recursive function
rather than `SumFunction`, so the prover can read the module. `Rows` is the
frame's row count, and `ClassRows(l)` counts the rows whose label is `l`.
`label_mapping` is a record literal: every key of the Python dict is an
identifier.

The statistics are modelled by what they make of these kinds:
- A median skips NaN. Of finite and infinite values it may be either. Of no
  finite and no infinite value it is NaN (`MedianKinds`).
- `std() == 0` holds only for one finite value over at least two rows
  (`ZeroVariance`).
- A clip with an IQR of 0 may collapse a column to one value.

The state:
- `pc`: the step;
- `cols` and `col`: the columns of df, and from step 6 on those of X;
- `ycount` and `ylabel`;
- `feature_columns`;
- `selected`: SelectKBest's mask;
- two history variables: `constant0` (the columns that were constant after
  step 3) and `leaked` (X_train was cleaned with statistics of the test rows).

| Action | Lines | Effect |
|---|---|---|
| `EngineerRaises` | 144-156 | a string input to a ratio raises TypeError |
| `Prepare` | 251-272 with 139-182 | engineered columns added; source_file, timestamp, Unnamed dropped |
| `MapLabels` | 275-299 | `.map(label_mapping).fillna(original)` rewrites every row's label; tokens mapped together form one class |
| `Encode` | 302-325 | object columns other than src_ip/dst_ip are label-encoded; X and `feature_columns` |
| `Impute` | 330-337 | fillna(median), inf to NaN, fillna(median) |
| `DropConstant` | 339-344 | zero-variance columns dropped, and the list refreshed only if there were any |
| `Clip` | 347-354 | IQR clipping |
| `SplitStratified`, `SplitFallback`, `SplitRaises` | 357-366 | the stratified split succeeds; it raises and the plain split succeeds; both raise |
| `Scale`, `ScaleRaises` | 374-392 | RobustScaler; it raises on a matrix with no column |
| `Select`, `SelectRaises` | 394-419 | SelectKBest with `k = min(K, ncols)`; it raises on NaN |

`StratifyFeasible` is sklearn's condition for the stratified split. It needs
all of:
- a non-empty train split;
- at least 2 rows in every class;
- at least as many rows as classes, in each split.

The test split has `ceil(0.2 n)` rows.

### ModelSearch and SelectionSpec
ModelSearch's state:
- `models`: the catalogue, which depends on the size;
- `i`;
- `results`: in insertion order;
- `best_score`, `best_model`, `self_best_model`;
- `phase`: search, done or raised.

| Action | Lines | Effect |
|---|---|---|
| `TrainSucceeds` | 512-551 | records an F1, with the selection of 550-551 (`Record`) |
| `TrainFails` | 553-556 | the exception is caught |
| `SkipEnsemble` | 558 | fewer than 3 results |
| `BuildEnsemble` | 558-590 | records the ensemble; `self.best_model` is assigned |
| `EnsembleRaises` | 569 | the uncaught `ensemble.predict` raises, because a top-three member (the SVC of line 498) has no `predict_proba` |

`SelectionSpec` states what the search promises, with no loop index, running
score or catalogue. Its variables are `evaluated` entries, the current
`selected` (`Best`: the first entry of highest F1, or nothing while every F1
is 0), and the `chosen` model. It has three actions:
- `Evaluate`;
- `Conclude`, which evaluates at most one last entry (the ensemble);
- `Abort`.

`ModelSearch!Sel` is the refinement mapping:
- `results` maps to `evaluated`;
- `best_model` maps to `selected`;
- `self_best_model` maps to `chosen`;
- the phase maps to the outcome.

### ArtifactStore
There are two processes:
- a trainer, which saves once per training run (a generation);
- a loader.

State:
- `disk`: for each unit, the generation that wrote it, or `Absent` or `Torn`;
- `spc`, `opened`: the trainer is in the k-th `joblib.dump`, whose file is
  truncated and not yet complete;
- `lpc`: the loader is about to run the k-th `joblib.load`;
- `mem`: the analyzer's fields, by unit;
- `loaded`: the last return value of the load;
- the history variables `saved_gen`, `load_base` and `mem_before`, which only
  properties read.

| Action | Lines | Effect |
|---|---|---|
| `SaveBegins` | 595-596 | a save with a model begins |
| `SaveWithoutModel` | 595, 614 | `best_model` is `None`, so save returns without writing |
| `DumpOpens`, `DumpCompletes` | 596-607 | the two halves of each dump |
| `TrainerCrashes` | | the trainer dies at any point of a save |
| `LoadBegins`, `LoadUnit`, `LoadFails` | 616-633 | the load, one unit at a time |

`BundleStoreSpec` is the store that spec 5 and 8 describe, with no files and
no dump order. It has four actions:
- `Train`: a run ends;
- `Store`: the latest run's bundle replaces the stored one in one step;
- `LoadOk`: a load takes every part of the stored bundle;
- `LoadFails`: with nothing stored, a load fails and keeps the fields.

`ArtifactStore` instantiates it as `Bundle`:
- `runs` is `gen`;
- `stored` is `saved_gen`;
- `held` is `mem`, or `mem_before` while a load runs, so a load takes
  effect at its return;
- `result` is `loaded`.

`BundleStoreRefined == Bundle!Spec` holds only when no crash interrupts a
save and no load overlaps one. With a crash, a load can return a mixed
bundle, which is the counterexample of art_crash_roundtrip.

### Pipeline
`Pipeline` instantiates `ModelSearch` on its own variables, and adds three
of its own:
- `stage`: the statement of `__main__` being run;
- `saved`;
- `reported`: what was printed last.

The actions:
- `LoadNone` and `LoadReturns`: the `None` test of line 659.
- `StageReturns` and `StageRaises`: preprocess, scale and select (661-670).
- `Train`: a step of the search (673-675).
- `TrainReturns` and `TrainRaises`.
- `Save` (678): it writes only if a model was selected.
- `Report` (680-717).

The other stages are reduced to "returns or raises". The Ingestion and
Preprocess runs show that each outcome is reachable.

### Hulk
State:
- `counter`, `flag`, `safe`: the three globals;
- per worker, `pc` and `tmp` (the value of `request_counter` it read);
- the monitor's `mpc`, and `announced`;
- `acks`: a history of the first `urlopen` calls that got a response.

A request is reduced to its outcome: a response, an HTTPError or a URLError.

| Action | Lines | Effect |
|---|---|---|
| `Check` | 86 | `while flag < 2` |
| `SendOk` | 70-79 | a response: on to `inc_counter` |
| `SendError` | 72-75, 88 | `set_flag(1)`, code 500; in safe mode, on to `set_flag(2)` |
| `SendUnreachable` | 76-77 | `sys.exit()`: SystemExit is not an `Exception`, so the thread ends |
| `IncRead`, `IncWrite` | 19 | `request_counter += 1` as a read and a write |
| `Resend` | 80 | the second `urlopen`, outside the try: if it raises, the thread ends |
| `Stop` | 89 | `set_flag(2)` |
| `MonitorExit` | 97-102 | the monitor leaves at a non-zero flag and announces only a flag of 2 |

## Runs

Between them, the passing runs fire every action and every disjunct of each
`Next`. TLC's `-coverage` output shows it.

| Run | cfg | Result | What it shows |
|---|---|---|---|
| ms_selection | MCModelSearch.cfg | pass (22k states) | `SelectionCorrect` (`best_score` bounds all results, and `best_model` is the first result reaching it); `SelectionSpecRefined` (the search implements `SelectionSpec`) |
| ms_ensemble_raises | MCModelSearchRaises.cfg | violation of `SearchNeverRaises` | with the SVM in the top three, the whole search aborts |
| art_roundtrip | MCArtifactRoundTrip.cfg | pass (245) | with no crash and no overlap, a successful load returns the last completed save; `BundleStoreRefined`: the store implements the atomic `BundleStoreSpec` |
| art_crash_order | MCArtifactCrashOrder.cfg | pass (2.5k) | after crashes, a loaded bundle is ordered model ≥ scaler ≥ metadata; `NoRollback`: a reload moves a field only to a newer run, and a failed load clears none |
| art_crash_roundtrip | MCArtifactCrashRoundTrip.cfg | violation of `RoundTrip` | a crash after the model dump is loaded as a mixed bundle |
| ing_cap | MCIngestion.cfg | pass | every appended frame respects the cap |
| ing_schema | MCIngestionSchema.cfg | violation of `SchemaAligned` | spec Scenario A: `Flow Packets/s` and `flow_pkts_s` become two columns |
| pre_clean | MCPreprocess.cfg | pass (131k) | `FeatureColumnsMatchX`, `ConstantsDropped`, `LabelsIdempotent` |
| pipe_saved | MCPipeline.cfg | pass (21k) | `SavedModelIsBest`: the saved bundle holds the winner of the whole search, ensemble included |
| pipe_report | MCPipelineReport.cfg | violation of `ReportedSuccessMeansSaved` | success is printed when nothing was saved |
| hulk_counter | MCHulk.cfg | pass (2.6k) | `CounterNeverAhead`, and `SafeStopReached` under fairness |
| hulk_lost_update | MCHulkCounter.cfg | violation of `CounterCountsRequests` | two interleaved increments lose one |


`PROJECT.json` records a finding for each violation. Each property of a
passing run is broken by a mutant of the code. The mutants are listed there
and defined in the modules, just before what they replace.

### Further counterexamples
TLC finds each property below violated under its cfg. These are not part of
the twelve runs above, which hold the project's main questions. Each
property is defined, with its comment, in its module, and the cfg reproduces
the trace (`tlc -config <cfg> <MC module>`).

| Property | cfg | What the trace shows |
|---|---|---|
| `LoadedBundleConsistent` | MCArtifactConcurrent.cfg | there is no atomic bundle swap (spec 5) |
| `LoadAllOrNothing` | MCArtifactPartialLoad.cfg | a failed load leaves `self.best_model` replaced |
| `LabelledFilesLoaded` | MCIngestionSkips.cfg | a file with two label columns is silently skipped |
| `EveryClassSurvives` | MCIngestionClasses.cfg | more classes than the cap empties a file |
| `FeatureMatrixFinite` | MCPreprocessFeatureMatrixFinite.cfg | an all-NaN or all-inf column survives cleaning |
| `IdentifiersNotFeatures` | MCPreprocessIdentifiersNotFeatures.cfg | the protocol and ports stay in X |
| `SplitNeverRaises` | MCPreprocessSplitNeverRaises.cfg | the fallback split raises too, on one row |
| `FitOnTrainOnly` | MCPreprocessFitOnTrainOnly.cfg | the medians and clip bounds see the test rows |
| `SelectionRecorded` | MCPreprocessSelectionRecorded.cfg | the selection mask never reaches `feature_columns` |
| `StopIsFinal` | MCHulkStopFinal.cfg | `set_flag(1)` lowers a stop flag of 2 |
| `StopAnnounced` | MCHulkAnnounce.cfg | the monitor leaves at flag 1 and never prints "Attack Finished" |

### Bounds, and why they are enough
- **ModelSearch.** There are three training sizes, one per catalogue (SVM
  without NN, both, NN without SVM), and three F1 levels. These give ties,
  strict wins and an all-zero run. Each of the six candidates may fail, so
  every count of results occurs on both sides of the ensemble threshold.
- **ArtifactStore.** Three generations are enough for a crash to leave units
  of two older generations behind a newer model.
- **Ingestion.** There are two files drawn from seven shapes, and a cap of 3.
  The shapes are:
  - two spellings of a class;
  - two label columns;
  - a label reached through `target` (with `Flow Packets/s`);
  - four one-row classes;
  - a snake-case `flow_pkts_s` header;
  - no label;
  - unparseable.

  Together they reach every exit of the loop body, both sampling branches, and
  the Scenario A pair.
- **Preprocess.** The frame has:
  - a flow column;
  - the protocol, an identifier;
  - `source_file`;
  - an engineered ratio of the flow column;
  - an engineered `is_tcp` test.

  Each column may hold any admissible kind set. There are three label tokens:
  DDOS and FLOOD merge into UDP, and BOT passes through. Each has 0 to 2 rows.
  This reaches a feasible stratified split, the fallback, a one-row frame and
  a zero-row frame. `K = 1` is below the column count, as `k = 50` is below
  the real data's roughly 80 columns.
- **Pipeline.** It has two training sizes (with and without the SVM) and
  F1 levels 0 to 2. With these, a search can select nothing, a single model,
  or an ensemble that strictly beats the best single model.
- **Hulk.** Two workers stand for 500. Every race in the code is between two
  threads. At most three requests are answered, enough for two increments to
  overlap after a first one.

### Fairness
- `ModelSearch` and `Pipeline` state no liveness property. `__main__` and
  `train_best_model` are one sequential thread: a finite `for` loop, an
  `if`, and straight-line calls. That they end holds for any code of this
  shape, so it would say nothing about this code.
- `Hulk!FairSpec` assumes weak fairness per worker and for the monitor,
  because the interpreter keeps scheduling every live thread.
  `SafeStopReached` needs only the fairness of the worker that met the
  error.
- The liveness runs use no symmetry.
- Deadlock checking is off in the runs whose functions return (ModelSearch,
  Ingestion, Preprocess, Pipeline), and in Hulk, where every thread may end:
  their final states really are the end of the run. The ArtifactStore runs
  check deadlock.

## Proofs (TLAPS)

### `ModelSearchProofs`
It assumes `TrainSizes ⊆ Nat`, nonempty, and `Scores ⊆ Nat` with
`0 ∈ Scores`. This is weaker than the code's real-valued F1 only in that
the scores are naturals.
- `TypeCorrect`: `Spec => []TypeOK`.
- `SelectionCorrectness`: `Spec => []SelectionCorrect`.
  - The inductive invariant is `IInv == TypeOK /\ SelectionCorrect`, since
    the step needs the element types.
  - Its two halves, `InitIInv` and `SelectionStep`, are lemmas of their own,
    which `PipelineProofs` reuses.
  - Lemma `RecordKeepsSelection` does the work. A recorded F1 either rises
    strictly above every earlier one, so the new result is the first best,
    or it keeps the previous first best.
- `BestOnlyImprovesHolds`: the action property that no step lowers
  `best_score` or changes `best_model` without a strictly higher F1.
- `Refinement`: `Spec => SelectionSpecRefined`.
  - The initial state maps to `Sel!Init`.
  - `RefinementStep` maps each action:
    - `TrainSucceeds` to `Evaluate`;
    - `SkipEnsemble` and `BuildEnsemble` to `Conclude`;
    - `EnsembleRaises` to `Abort`;
    - `TrainFails` to a stutter.
  - It rests on `BestModelIsBest`: under `SelectionCorrect`, stated over given
    values (`FirstBestSelected`) so that it also applies to the primed state,
    `best_model` is `Sel!Best(results)`.
  - `Best`'s CHOOSE is pinned down by showing that the first best index is
    unique.

### `ArtifactStoreProofs`
It assumes `MaxGen \in Nat \ {0}`.
- `TypeCorrect`: the inductive invariant adds `SavingHasGen`.
- `SaveOrderVisibleHolds`: under `~ConcurrentLoad`,
  `Spec => []SaveOrderVisible`.
  - The inductive invariant `OrderInv` has five conjuncts:
    - `DiskBelowGen`;
    - `DumpedHoldGen`;
    - `DiskOrdered`;
    - `LoadExcludesSave`;
    - `LoadedMatchDisk`.
  - The dump of unit k keeps the disk ordered. A crash only stops the save.
    A load that completes copies an ordered disk.
- `RoundTripHolds`: with no crash and no overlapping load,
  `Spec => []RoundTrip`.
  - The inductive invariant is `TripInv`. Besides `TInv` and `RoundTrip`, it has:
    - `SaveProgress`: what each file holds at each point of a save;
    - `IdleClosed`;
    - `LoadSeesLastSave`;
    - `LoadedFromBase`: the fields loaded so far hold the last saved run.
  - Without crashes a save that begins always completes, so the files
    between saves all hold `saved_gen`.
- `NoRollbackHolds`: `Spec => NoRollback`, the action property, for every
  value of `CrashPossible` and `ConcurrentLoad`.
  - The inductive invariant is `MonoInv`. It adds three bounds to `TInv`:
    - `DiskBelowGen`;
    - `FieldsBelowGen`;
    - `FieldsNoNewerThanFiles`: a field is no newer than its file while
      that file is complete.
  - A dump writes the newest generation. A load copies a complete file.
    Lemma `MonoAdvance` turns the bound into the step property: a field
    that changes takes a strictly newer run.
- `BundleStoreRefinement`: with no crash and no overlapping load,
  `Spec => BundleStoreRefined`, i.e. `ArtifactStore` implements
  `BundleStoreSpec`.
  - The invariant `RefInv` is `TripInv` with two more conjuncts:
    - `SavedNotAhead`: `saved_gen <= gen`, and `saved_gen < gen` while a
      save runs, so the return of a save is an abstract `Store`;
    - `UntouchedSinceLoad`: the fields a running load has not reached are
      still those of `mem_before`.
  - Lemma `RefMapStep` maps every step:
    - a run's start is `Train`;
    - the third `DumpCompletes` is `Store`;
    - the third `LoadUnit` is `LoadOk`, by `RoundTrip` and `SaveProgress`;
    - `LoadFails` is the abstract `LoadFails`. Without crashes a load can
      only fail on the first file, and only when nothing was ever saved, so
      by `UntouchedSinceLoad` the fields are those of `mem_before`.
    - Every other step is a stutter.

### `PreprocessProofs`
It uses the module's assumptions `BaseAssumption` and `CountsAssumption`.
There are four theorems, all from one inductive invariant `IInv`:
- `TypeCorrect`;
- `FeatureListFollowsX`;
- `ConstantsDroppedHolds`;
- `LabelsIdempotentHolds`.

`IInv` adds these conjuncts:
- `RunningNoRaise`;
- `NothingSelected`: SelectKBest's mask stays empty until the last step, so
  it stays inside the shrinking column set;
- `LabelState`: each row carries its raw token until line 299, and its
  standardised token from then on;
- `ConstantsPending`: a column constant after step 3 stays constant through
  encoding and imputation;
- `ConstantsGone`: such a column is out of the list after the drop.

The lemmas:
- `StandardizeIdempotent`: no value of `label_mapping` is a key that maps
  elsewhere;
- `ImputedOfFinite`: imputation leaves a finite column alone;
- `RowsUnchanged`: no step changes the row count;
- the type lemmas for `Imputed` and `Engineered`.

### `PipelineProofs`
`Pipeline` assumes:
- `PipelineSizesAssumption`;
- `PipelineScoresAssumption`.

These are the same as ModelSearch's; lemma `SearchAssumptions` carries them
over to the instance.
- `SavedBest`: `Spec => []SavedModelIsBest`.
  - The module instantiates `ModelSearchProofs` and reuses its invariant
    `IInv` and its lemmas `InitIInv` and `SelectionStep`.
    `TrainIsSearchStep` shows that a `Train` step of `__main__` is a step
    of the search.
  - It adds three conjuncts:
    - `DoneSelf`: a finished search has handed out `best_model`;
    - `SaveAfterSearch`;
    - `SavedFinal`: a save happens after the search, with a model.
  - By `SelectionCorrect`, a saved model is the first result with the highest F1.

### `HulkProofs`
It assumes `IsFiniteSet(Workers)` and `MaxReq \in Nat`.
- `TypeCorrect`: `Spec => []TypeOK`.
- `CounterSafety`: `Spec => []CounterNeverAhead`, for every number of
  workers.
  - `counter <= acks` is not inductive: a worker between its read and its
    write holds a copy that it will write back plus one.
  - Let `Pending` be the workers inside `inc_counter`. The inductive
    invariant `IInv` adds two bounds:
    - `counter + |Pending| <= acks`;
    - every copy held at the write step, plus `|Pending|`, is at most `acks`.
  - `SendOk` adds one answer and one pending worker. `IncRead` copies a
    counter that is within the bound. `IncWrite` removes the writer from
    `Pending` as it writes its copy plus one.
  - The cardinality steps cite `FS_AddElement`, `FS_RemoveElement` and
    `FS_Subset`.

## Only model checked

- **Liveness.** `SafeStopReached` needs fairness and ENABLED, which the
  prover does not handle.
- **Ingestion.** `CapRespected` is about sums of row counts over the
  classes of a frame, which `SumFunction` computes with a RECURSIVE fold.
  Its `TypeOK` needs the same sums, which must stay positive. A module that
  EXTENDS `Ingestion` reaches that fold through `Functions`, so it can hold
  no theorem.
  Proving it would need induction over the frame's data, which the
  installed provers cannot instantiate. It is checked on the instance above.
- **The violations.**

## Not modelled, and why

- **Inference** (`predict_with_confidence`, 635-646): it changes no state and
  is a pure call into the learner.
- **The other method branches** of `scale_features` and `feature_selection`
  (minmax, standard, f_classif, rfe, none): `__main__` never takes them.
- **The full table of engineered features.** The instance has one ratio and
  one indicator column. The other derivations of lines 144-179 differ only
  in their inputs, so the Feature Engineer is partly modelled.
- **In HULK**:
  - the command-line parsing and the URL and header building (lines 29-69,
    105-120), which no control flow depends on;
  - the header lists, which grow on every request and are never read for
    control. This is listed as a hazard.
- **Learner internals** and the numeric values of F1, which are levels here.
- **Logging and printing**, except the success report and the monitor's final
  message, which properties are about.

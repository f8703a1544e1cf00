--------------------------- MODULE ArtifactStore ---------------------------
(***************************************************************************)
(* Artifact store: save_model_and_scaler and load_model_and_scaler of     *)
(* OptimizedDDoSAnalysis (src/model_optimized.py, lines 593-633).         *)
(*                                                                         *)
(* A training process saves the bundle as three files, one joblib.dump   *)
(* after the other: <name>.pkl, <name>_scaler.pkl, <name>_metadata.pkl.    *)
(* joblib.dump opens its file for writing (truncating it) before it       *)
(* pickles, so a file can be seen, or left by a crash, half written.      *)
(* An inference process loads the three files one after the other into    *)
(* the fields of its own analyzer.  Every training run is a new           *)
(* generation; a file's content is abstracted to the generation that      *)
(* wrote it.                                                               *)
(***************************************************************************)
EXTENDS Naturals, Sequences

CONSTANTS
    MaxGen,          \* number of training runs in a behaviour
    CrashPossible,   \* may the training process die in the middle of a save
    ConcurrentLoad,  \* may a load overlap a save (a live inference process)
    None,            \* the constructor's value of the analyzer's fields
    Absent,          \* content of a file that does not exist
    Torn             \* content of a file truncated or partly written

ASSUME MaxGenAssumption == MaxGen \in Nat \ {0}
ASSUME FlagsAssumption == CrashPossible \in BOOLEAN /\ ConcurrentLoad \in BOOLEAN
ASSUME SentinelAssumption ==
    /\ None \notin Nat /\ Absent \notin Nat /\ Torn \notin Nat
    /\ Absent # Torn

Gens == 1..MaxGen

(* Mutant: the scaler dumped (and loaded) before the model.               *)
SaveOrderScalerFirst == <<"scaler", "model", "metadata">>

(* The order of the three joblib.dump calls and of the three joblib.load calls. *)
SaveOrder == <<"model", "scaler", "metadata">>
Units == {"model", "scaler", "metadata"}

VARIABLES
    disk,        \* file of each unit: a generation, Absent or Torn
    gen,         \* generation of the latest training run
    spc,         \* 0: trainer not saving; k: in the k-th joblib.dump
    opened,      \* the k-th file is open and truncated, not yet complete
    lpc,         \* 0: loader idle; k: about to run the k-th joblib.load
    mem,         \* the loader's fields, by the unit they came from
    loaded,      \* value returned by the last load: "never", "ok", "failed"
    saved_gen,   \* history: generation of the last save that returned
    load_base,   \* history: saved_gen when the current load began
    mem_before   \* history: mem when the current load began

vars == <<disk, gen, spc, opened, lpc, mem, loaded, saved_gen, load_base, mem_before>>

Init ==
    /\ disk = [u \in Units |-> Absent]
    /\ gen = 0
    /\ spc = 0
    /\ opened = FALSE
    /\ lpc = 0
    /\ mem = [u \in Units |-> None]
    /\ loaded = "never"
    /\ saved_gen = 0
    /\ load_base = 0
    /\ mem_before = [u \in Units |-> None]

(* A new training run may begin once the previous one has ended; unless  *)
(* loads may overlap saves, not while a load is running.                 *)
TrainerMayStart ==
    /\ spc = 0
    /\ gen < MaxGen
    /\ ConcurrentLoad \/ lpc = 0

(* "if self.best_model and self.scaler": the run has a model; first dump. *)
SaveBegins ==
    /\ TrainerMayStart
    /\ gen' = gen + 1
    /\ spc' = 1
    /\ UNCHANGED <<disk, opened, lpc, mem, loaded, saved_gen, load_base, mem_before>>

(* The run ended with best_model None: save returns (None, None, None).   *)
SaveWithoutModel ==
    /\ TrainerMayStart
    /\ gen' = gen + 1
    /\ UNCHANGED <<disk, spc, opened, lpc, mem, loaded, saved_gen, load_base, mem_before>>

(* joblib.dump opens the spc-th file for writing, truncating it.          *)
DumpOpens ==
    /\ spc \in 1..3
    /\ ~opened
    /\ disk' = [disk EXCEPT ![SaveOrder[spc]] = Torn]
    /\ opened' = TRUE
    /\ UNCHANGED <<gen, spc, lpc, mem, loaded, saved_gen, load_base, mem_before>>

(* Mutant: the counter of dumps never wraps back to idle.                  *)
DumpCompletesNoWrap ==
    /\ spc \in 1..3
    /\ opened
    /\ disk' = [disk EXCEPT ![SaveOrder[spc]] = gen]
    /\ opened' = FALSE
    /\ spc' = spc + 1
    /\ saved_gen' = IF spc = 3 THEN gen ELSE saved_gen
    /\ UNCHANGED <<gen, lpc, mem, loaded, load_base, mem_before>>

(* joblib.dump completes the file; after the third, save returns.          *)
DumpCompletes ==
    /\ spc \in 1..3
    /\ opened
    /\ disk' = [disk EXCEPT ![SaveOrder[spc]] = gen]
    /\ opened' = FALSE
    /\ spc' = IF spc = 3 THEN 0 ELSE spc + 1
    /\ saved_gen' = IF spc = 3 THEN gen ELSE saved_gen
    /\ UNCHANGED <<gen, lpc, mem, loaded, load_base, mem_before>>

(* The training process dies; the files stay as they are on disk.          *)
TrainerCrashes ==
    /\ CrashPossible
    /\ spc # 0
    /\ spc' = 0
    /\ opened' = FALSE
    /\ UNCHANGED <<disk, gen, lpc, mem, loaded, saved_gen, load_base, mem_before>>

(* load_model_and_scaler is called.                                        *)
LoadBegins ==
    /\ lpc = 0
    /\ ConcurrentLoad \/ spc = 0
    /\ lpc' = 1
    /\ load_base' = saved_gen
    /\ mem_before' = mem
    /\ UNCHANGED <<disk, gen, spc, opened, mem, loaded, saved_gen>>

(* Mutant: the metadata is loaded but its fields are not reassigned.       *)
LoadUnitKeepsOldMetadata ==
    /\ lpc \in 1..3
    /\ disk[SaveOrder[lpc]] \in Gens
    /\ mem' = IF lpc = 3 THEN mem
              ELSE [mem EXCEPT ![SaveOrder[lpc]] = disk[SaveOrder[lpc]]]
    /\ lpc' = IF lpc = 3 THEN 0 ELSE lpc + 1
    /\ loaded' = IF lpc = 3 THEN "ok" ELSE loaded
    /\ UNCHANGED <<disk, gen, spc, opened, saved_gen, load_base, mem_before>>

(***************************************************************************)
(* joblib.load of the lpc-th file succeeds and its field is assigned at  *)
(* once (self.best_model, self.scaler, then the metadata fields); after   *)
(* the third the function returns True.                                   *)
(***************************************************************************)
LoadUnit ==
    /\ lpc \in 1..3
    /\ disk[SaveOrder[lpc]] \in Gens
    /\ mem' = [mem EXCEPT ![SaveOrder[lpc]] = disk[SaveOrder[lpc]]]
    /\ lpc' = IF lpc = 3 THEN 0 ELSE lpc + 1
    /\ loaded' = IF lpc = 3 THEN "ok" ELSE loaded
    /\ UNCHANGED <<disk, gen, spc, opened, saved_gen, load_base, mem_before>>

(* Mutant: the except branch clears the fields before returning False.   *)
LoadFailsClearsFields ==
    /\ lpc \in 1..3
    /\ disk[SaveOrder[lpc]] \notin Gens
    /\ lpc' = 0
    /\ loaded' = "failed"
    /\ mem' = [u \in Units |-> None]
    /\ UNCHANGED <<disk, gen, spc, opened, saved_gen, load_base, mem_before>>

(* joblib.load raises on a missing or truncated file: return False, with  *)
(* the fields assigned so far left as they are.                            *)
LoadFails ==
    /\ lpc \in 1..3
    /\ disk[SaveOrder[lpc]] \notin Gens
    /\ lpc' = 0
    /\ loaded' = "failed"
    /\ UNCHANGED <<disk, gen, spc, opened, mem, saved_gen, load_base, mem_before>>

Next ==
    \/ SaveBegins
    \/ SaveWithoutModel
    \/ DumpOpens
    \/ DumpCompletes
    \/ TrainerCrashes
    \/ LoadBegins
    \/ LoadUnit
    \/ LoadFails

Spec == Init /\ [][Next]_vars

-----------------------------------------------------------------------------
(* Every variable ranges over the values the code can give it.             *)
TypeOK ==
    /\ disk \in [Units -> Gens \cup {Absent, Torn}]
    /\ gen \in 0..MaxGen
    /\ spc \in 0..3
    /\ opened \in BOOLEAN
    /\ lpc \in 0..3
    /\ mem \in [Units -> Gens \cup {None}]
    /\ loaded \in {"never", "ok", "failed"}
    /\ saved_gen \in 0..MaxGen
    /\ load_base \in 0..MaxGen
    /\ mem_before \in [Units -> Gens \cup {None}]

LoadReturnedTrue == lpc = 0 /\ loaded = "ok"
LoadReturnedFalse == lpc = 0 /\ loaded = "failed"

(***************************************************************************)
(* Spec 8, round trip: a load that begins after a save has returned, with *)
(* no save running meanwhile, and returns True hands back exactly the     *)
(* model, scaler and metadata that save wrote.  (Stated for runs in which *)
(* loads do not overlap saves.)                                           *)
(***************************************************************************)
RoundTrip ==
    LoadReturnedTrue => \A u \in Units : mem[u] = load_base

(***************************************************************************)
(* Spec 5: a reader sees either the previous complete bundle or the next  *)
(* one, never a mix: after a successful load the model, the scaler and    *)
(* the metadata come from the same training run.                          *)
(***************************************************************************)
LoadedBundleConsistent ==
    LoadReturnedTrue => mem["model"] = mem["scaler"] /\ mem["scaler"] = mem["metadata"]

(***************************************************************************)
(* Spec 4.7: a partial bundle is rejected, never silently accepted: a     *)
(* load that returns False leaves the analyzer's fields as they were.     *)
(***************************************************************************)
LoadAllOrNothing ==
    LoadReturnedFalse => mem = mem_before

(***************************************************************************)
(* What a crash can leave behind: when loads never overlap saves, a       *)
(* successful load returns a model no older than its scaler and a scaler  *)
(* no older than its metadata, because the dumps run model, scaler,       *)
(* metadata.  A mixed bundle pairs a newer model with older feature       *)
(* columns, never the reverse.                                            *)
(***************************************************************************)
SaveOrderVisible ==
    LoadReturnedTrue => mem["model"] >= mem["scaler"] /\ mem["scaler"] >= mem["metadata"]

(***************************************************************************)
(* An analyzer that reloads never goes back: each of its fields that a    *)
(* load reassigns (lines 619-627) takes a strictly newer training run's  *)
(* object, and a failed load (631-633) loses none, whatever crashes and   *)
(* overlapping saves left on disk.                                        *)
(***************************************************************************)
FieldsOnlyAdvance ==
    \A u \in Units :
       mem'[u] # mem[u] => (mem'[u] \in Gens /\ (mem[u] \in Gens => mem'[u] > mem[u]))

NoRollback == [][FieldsOnlyAdvance]_vars

(***************************************************************************)
(* Spec 5 and 8 as a refinement: the store implements BundleStoreSpec.     *)
(* The stored run is the last save that returned, and the analyzer holds  *)
(* its fields, taken as they were when the running load began: a load's   *)
(* effect is its return (line 629 or 632).  Stated for runs in which no   *)
(* crash interrupts a save and no load overlaps one.                      *)
(***************************************************************************)
Bundle == INSTANCE BundleStoreSpec WITH
    runs <- gen,
    stored <- saved_gen,
    held <- IF lpc = 0 THEN mem ELSE mem_before,
    result <- loaded

BundleStoreRefined == Bundle!Spec

=============================================================================

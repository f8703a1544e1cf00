------------------------ MODULE ArtifactStoreProofs ------------------------
(***************************************************************************)
(* Proofs about ArtifactStore for every number of training runs: the type *)
(* invariant, and that when loads never overlap saves (a batch process    *)
(* reloading the bundle), a successful load returns a model no older than *)
(* its scaler and a scaler no older than its metadata, whatever crashes   *)
(* interrupted the saves.                                                  *)
(***************************************************************************)
EXTENDS ArtifactStore, TLAPS

USE MaxGenAssumption

(* A dump is only in progress for a run that has a generation.            *)
SavingHasGen == spc # 0 => gen \in Gens

TInv == TypeOK /\ SavingHasGen

(* The three dumps and the three loads are of distinct units.              *)
LEMMA SaveOrderUnits ==
    /\ \A p \in 1..3 : SaveOrder[p] \in Units
    /\ \A p, q \in 1..3 : p # q => SaveOrder[p] # SaveOrder[q]
    /\ SaveOrder[1] = "model" /\ SaveOrder[2] = "scaler" /\ SaveOrder[3] = "metadata"
BY DEF SaveOrder, Units

(* Every step, or stutter, keeps the types.                                *)
LEMMA TInvStep == TInv /\ [Next]_vars => TInv'
<1>. SUFFICES ASSUME TInv, [Next]_vars PROVE TInv'
  OBVIOUS
<1>. USE SaveOrderUnits DEF TInv, TypeOK, SavingHasGen
<1>1. CASE SaveBegins
  BY <1>1 DEF SaveBegins, TrainerMayStart, Gens
<1>2. CASE SaveWithoutModel
  BY <1>2 DEF SaveWithoutModel, TrainerMayStart
<1>3. CASE DumpOpens
  BY <1>3 DEF DumpOpens
<1>4. CASE DumpCompletes
  <2>1. opened' \in BOOLEAN
    BY <1>4, Zenon DEF DumpCompletes
  <2>. QED
    BY <1>4, <2>1 DEF DumpCompletes
<1>5. CASE TrainerCrashes
  <2>1. opened' \in BOOLEAN
    BY <1>5, Zenon DEF TrainerCrashes
  <2>. QED
    BY <1>5, <2>1 DEF TrainerCrashes
<1>6. CASE LoadBegins
  BY <1>6 DEF LoadBegins
<1>7. CASE LoadUnit
  BY <1>7 DEF LoadUnit
<1>8. CASE LoadFails
  BY <1>8 DEF LoadFails
<1>9. CASE UNCHANGED vars
  BY <1>9 DEF vars
<1>. QED
  BY <1>1, <1>2, <1>3, <1>4, <1>5, <1>6, <1>7, <1>8, <1>9 DEF Next

(* The initial state of __init__ satisfies the type invariant.           *)
LEMMA TypeCorrectInit == Init => TInv
<1>. SUFFICES ASSUME Init PROVE TInv
  OBVIOUS
<1>1. disk \in [Units -> Gens \cup {Absent, Torn}]
  BY DEF Init
<1>2. mem \in [Units -> Gens \cup {None}] /\ mem_before \in [Units -> Gens \cup {None}]
  BY DEF Init
<1>3. /\ gen \in 0..MaxGen /\ spc = 0 /\ lpc \in 0..3
      /\ saved_gen \in 0..MaxGen /\ load_base \in 0..MaxGen
  BY DEF Init
<1>4. opened \in BOOLEAN
  BY DEF Init
<1>5. loaded \in {"never", "ok", "failed"}
  BY DEF Init
<1>. QED
  BY <1>1, <1>2, <1>3, <1>4, <1>5 DEF TInv, TypeOK, SavingHasGen

(* The type invariant of the trainer and the loader.                       *)
THEOREM TypeCorrect == Spec => []TypeOK
<1>1. Init => TInv
  BY TypeCorrectInit
<1>2. TInv => TypeOK
  BY DEF TInv
<1>. QED
  BY <1>1, <1>2, TInvStep, PTL DEF Spec

-----------------------------------------------------------------------------
(***************************************************************************)
(* The strengthening of SaveOrderVisible.                                 *)
(*  - every generation on disk is at most the latest run's;               *)
(*  - the files the current save has already dumped hold its generation;  *)
(*  - the complete files on disk are ordered as the dumps are;            *)
(*  - a load runs only while no save does;                                 *)
(*  - the fields the current load has assigned equal the files on disk.   *)
(***************************************************************************)
DiskBelowGen == \A u \in Units : disk[u] \in Gens => disk[u] <= gen

DumpedHoldGen == \A p \in 1..3 : p < spc => disk[SaveOrder[p]] = gen

DiskOrdered ==
    \A p, q \in 1..3 :
       p < q /\ disk[SaveOrder[p]] \in Gens /\ disk[SaveOrder[q]] \in Gens
         => disk[SaveOrder[p]] >= disk[SaveOrder[q]]

LoadExcludesSave == lpc # 0 => spc = 0

LoadedMatchDisk ==
    \A p \in 1..3 : p < lpc =>
       /\ disk[SaveOrder[p]] \in Gens
       /\ mem[SaveOrder[p]] = disk[SaveOrder[p]]

OrderInv ==
    /\ TInv
    /\ DiskBelowGen
    /\ DumpedHoldGen
    /\ DiskOrdered
    /\ LoadExcludesSave
    /\ LoadedMatchDisk
    /\ SaveOrderVisible

(* Generations are numbers; the sentinels are none of them.                *)
LEMMA GensFacts ==
    /\ Gens \subseteq Nat
    /\ Torn \notin Gens /\ Absent \notin Gens /\ None \notin Gens
BY SentinelAssumption DEF Gens

(***************************************************************************)
(* With loads that never overlap saves, every step keeps OrderInv.  The   *)
(* dump of unit k writes the newest generation: the units before k hold   *)
(* it already, the units after hold an older or equal one.  A load only   *)
(* runs while the disk does not change, so it copies an ordered disk.     *)
(***************************************************************************)
LEMMA OrderStep ==
    ASSUME ~ConcurrentLoad, OrderInv, [Next]_vars
    PROVE  OrderInv'
<1>0. TInv'
  BY TInvStep DEF OrderInv
<1>. SUFFICES /\ DiskBelowGen' /\ DumpedHoldGen' /\ DiskOrdered'
              /\ LoadExcludesSave' /\ LoadedMatchDisk' /\ SaveOrderVisible'
  BY <1>0 DEF OrderInv
<1>a. /\ gen \in 0..MaxGen /\ spc \in 0..3 /\ lpc \in 0..3
      /\ spc # 0 => gen \in Gens
      /\ DOMAIN disk = Units /\ DOMAIN mem = Units
  BY DEF OrderInv, TInv, TypeOK, SavingHasGen
<1>b. /\ DiskBelowGen /\ DumpedHoldGen /\ DiskOrdered
      /\ LoadExcludesSave /\ LoadedMatchDisk /\ SaveOrderVisible
  BY DEF OrderInv
<1>. USE SaveOrderUnits, GensFacts, <1>a, <1>b
<1>1. CASE SaveBegins
  <2>1. lpc = 0
    BY <1>1 DEF SaveBegins, TrainerMayStart
  <2>2. DiskBelowGen'
    <3>. SUFFICES ASSUME NEW u \in Units, disk'[u] \in Gens PROVE disk'[u] <= gen'
      BY DEF DiskBelowGen
    <3>1. disk'[u] = disk[u] /\ gen' = gen + 1
      BY <1>1 DEF SaveBegins
    <3>2. disk[u] <= gen /\ disk[u] \in Nat
      BY <3>1 DEF DiskBelowGen
    <3>. QED
      BY <3>1, <3>2
  <2>3. DumpedHoldGen'
    BY <1>1, <2>1 DEF SaveBegins, DumpedHoldGen
  <2>4. DiskOrdered'
    BY <1>1 DEF SaveBegins, DiskOrdered
  <2>5. LoadExcludesSave' /\ LoadedMatchDisk'
    BY <1>1, <2>1 DEF SaveBegins, LoadExcludesSave, LoadedMatchDisk
  <2>6. SaveOrderVisible'
    BY <1>1 DEF SaveBegins, SaveOrderVisible, LoadReturnedTrue
  <2>. QED
    BY <2>2, <2>3, <2>4, <2>5, <2>6
<1>2. CASE SaveWithoutModel
  <2>1. lpc = 0 /\ spc = 0
    BY <1>2 DEF SaveWithoutModel, TrainerMayStart
  <2>2. DiskBelowGen'
    <3>. SUFFICES ASSUME NEW u \in Units, disk'[u] \in Gens PROVE disk'[u] <= gen'
      BY DEF DiskBelowGen
    <3>1. disk'[u] = disk[u] /\ gen' = gen + 1
      BY <1>2 DEF SaveWithoutModel
    <3>2. disk[u] <= gen /\ disk[u] \in Nat
      BY <3>1 DEF DiskBelowGen
    <3>. QED
      BY <3>1, <3>2
  <2>3. DumpedHoldGen'
    BY <1>2, <2>1 DEF SaveWithoutModel, DumpedHoldGen
  <2>4. DiskOrdered'
    BY <1>2 DEF SaveWithoutModel, DiskOrdered
  <2>5. LoadExcludesSave' /\ LoadedMatchDisk'
    BY <1>2, <2>1 DEF SaveWithoutModel, LoadExcludesSave, LoadedMatchDisk
  <2>6. SaveOrderVisible'
    BY <1>2 DEF SaveWithoutModel, SaveOrderVisible, LoadReturnedTrue
  <2>. QED
    BY <2>2, <2>3, <2>4, <2>5, <2>6
<1>3. CASE DumpOpens
  <2>1. lpc = 0
    BY <1>3 DEF DumpOpens, LoadExcludesSave
  <2>2. DiskBelowGen'
    BY <1>3 DEF DumpOpens, DiskBelowGen
  <2>3. DumpedHoldGen'
    BY <1>3 DEF DumpOpens, DumpedHoldGen
  <2>4. DiskOrdered'
    BY <1>3 DEF DumpOpens, DiskOrdered
  <2>. QED
    BY <1>3, <2>1, <2>2, <2>3, <2>4
       DEF DumpOpens, LoadExcludesSave, LoadedMatchDisk, SaveOrderVisible, LoadReturnedTrue
<1>4. CASE DumpCompletes
  <2>1. lpc = 0 /\ gen \in Gens /\ gen \in Nat
    BY <1>4 DEF DumpCompletes, LoadExcludesSave
  <2>2. DiskBelowGen'
    BY <1>4, <2>1 DEF DumpCompletes, DiskBelowGen
  <2>3. DumpedHoldGen'
    BY <1>4 DEF DumpCompletes, DumpedHoldGen
  <2>4. DiskOrdered'
    <3>. SUFFICES ASSUME NEW p \in 1..3, NEW q \in 1..3, p < q,
                         disk'[SaveOrder[p]] \in Gens, disk'[SaveOrder[q]] \in Gens
                  PROVE  disk'[SaveOrder[p]] >= disk'[SaveOrder[q]]
      BY DEF DiskOrdered
    <3>1. CASE p = spc
      BY <1>4, <2>1, <3>1 DEF DumpCompletes, DiskBelowGen
    <3>2. CASE q = spc
      BY <1>4, <2>1, <3>2 DEF DumpCompletes, DumpedHoldGen
    <3>3. CASE p # spc /\ q # spc
      BY <1>4, <3>3 DEF DumpCompletes, DiskOrdered
    <3>. QED
      BY <3>1, <3>2, <3>3
  <2>. QED
    BY <1>4, <2>1, <2>2, <2>3, <2>4
       DEF DumpCompletes, LoadExcludesSave, LoadedMatchDisk, SaveOrderVisible, LoadReturnedTrue
<1>5. CASE TrainerCrashes
  BY <1>5 DEF TrainerCrashes, DiskBelowGen, DumpedHoldGen, DiskOrdered,
              LoadExcludesSave, LoadedMatchDisk, SaveOrderVisible, LoadReturnedTrue
<1>6. CASE LoadBegins
  BY <1>6 DEF LoadBegins, DiskBelowGen, DumpedHoldGen, DiskOrdered,
              LoadExcludesSave, LoadedMatchDisk, SaveOrderVisible, LoadReturnedTrue
<1>7. CASE LoadUnit
  <2>1. spc = 0 /\ lpc \in 1..3
    BY <1>7 DEF LoadUnit, LoadExcludesSave
  <2>2. /\ DiskBelowGen' /\ DumpedHoldGen' /\ DiskOrdered' /\ LoadExcludesSave'
    BY <1>7, <2>1 DEF LoadUnit, DiskBelowGen, DumpedHoldGen, DiskOrdered, LoadExcludesSave
  <2>3. \A p \in 1..3 : p <= lpc =>
           /\ disk'[SaveOrder[p]] \in Gens
           /\ mem'[SaveOrder[p]] = disk'[SaveOrder[p]]
    BY <1>7, <2>1 DEF LoadUnit, LoadedMatchDisk
  <2>4. CASE lpc < 3
    BY <1>7, <2>1, <2>2, <2>3, <2>4 DEF LoadUnit, LoadedMatchDisk, SaveOrderVisible, LoadReturnedTrue
  <2>5. CASE lpc = 3
    <3>1. lpc' = 0
      BY <1>7, <2>5 DEF LoadUnit
    <3>2. /\ mem'["model"] = disk'["model"] /\ mem'["scaler"] = disk'["scaler"]
          /\ mem'["metadata"] = disk'["metadata"]
          /\ disk'["model"] \in Gens /\ disk'["scaler"] \in Gens /\ disk'["metadata"] \in Gens
      BY <2>3, <2>5
    <3>3. disk'["model"] >= disk'["scaler"] /\ disk'["scaler"] >= disk'["metadata"]
      BY <2>2, <3>2 DEF DiskOrdered
    <3>. QED
      BY <2>2, <3>1, <3>2, <3>3 DEF LoadedMatchDisk, SaveOrderVisible, LoadReturnedTrue
  <2>. QED
    BY <2>1, <2>4, <2>5
<1>8. CASE LoadFails
  BY <1>8 DEF LoadFails, DiskBelowGen, DumpedHoldGen, DiskOrdered,
              LoadExcludesSave, LoadedMatchDisk, SaveOrderVisible, LoadReturnedTrue
<1>9. CASE UNCHANGED vars
  BY <1>9 DEF vars, DiskBelowGen, DumpedHoldGen, DiskOrdered,
              LoadExcludesSave, LoadedMatchDisk, SaveOrderVisible, LoadReturnedTrue
<1>. QED
  BY <1>1, <1>2, <1>3, <1>4, <1>5, <1>6, <1>7, <1>8, <1>9 DEF Next

(***************************************************************************)
(* SaveOrderVisible, for every number of training runs: when loads never  *)
(* overlap saves, whatever crashes interrupted save_model_and_scaler, a   *)
(* load_model_and_scaler that returns True yields a model no older than   *)
(* its scaler and a scaler no older than its metadata.                    *)
(***************************************************************************)
THEOREM SaveOrderVisibleHolds ==
    ASSUME ~ConcurrentLoad
    PROVE  Spec => []SaveOrderVisible
<1>1. Init => OrderInv
  <2>. SUFFICES ASSUME Init PROVE OrderInv
    OBVIOUS
  <2>1. TInv
    BY TypeCorrectInit
  <2>2. DiskBelowGen /\ DiskOrdered
    BY GensFacts, SaveOrderUnits DEF Init, DiskBelowGen, DiskOrdered
  <2>3. DumpedHoldGen /\ LoadExcludesSave /\ LoadedMatchDisk
    BY DEF Init, DumpedHoldGen, LoadExcludesSave, LoadedMatchDisk
  <2>4. SaveOrderVisible
    BY DEF Init, SaveOrderVisible, LoadReturnedTrue
  <2>. QED
    BY <2>1, <2>2, <2>3, <2>4 DEF OrderInv
<1>2. OrderInv /\ [Next]_vars => OrderInv'
  BY OrderStep
<1>3. OrderInv => SaveOrderVisible
  BY DEF OrderInv
<1>. QED
  BY <1>1, <1>2, <1>3, PTL DEF Spec


-----------------------------------------------------------------------------
(***************************************************************************)
(* The strengthening of RoundTrip, for a trainer that never crashes and   *)
(* loads that never overlap saves.                                        *)
(*  - the file a save has not yet reached holds the last save returned    *)
(*    (or is absent before any); the files it dumped hold its generation; *)
(*    the file it has open is torn;                                        *)
(*  - no file is open while no save runs;                                  *)
(*  - a load runs only while no save does, and nothing was saved since it *)
(*    began;                                                               *)
(*  - the fields the current load has assigned hold that save.            *)
(***************************************************************************)
FileOf(s) == IF s = 0 THEN Absent ELSE s

SaveProgress ==
    \A p \in 1..3 :
       disk[SaveOrder[p]] = IF p < spc THEN gen
                            ELSE IF p = spc /\ opened THEN Torn
                            ELSE FileOf(saved_gen)

IdleClosed == spc = 0 => ~opened

LoadSeesLastSave == lpc # 0 => spc = 0 /\ load_base = saved_gen

LoadedFromBase == \A p \in 1..3 : p < lpc => mem[SaveOrder[p]] = load_base

TripInv ==
    /\ TInv
    /\ SaveProgress
    /\ IdleClosed
    /\ LoadSeesLastSave
    /\ LoadedFromBase
    /\ RoundTrip


(* Before any save the file is absent; after one it holds a generation.   *)
LEMMA FileOfFacts ==
    ASSUME NEW s \in 0..MaxGen
    PROVE  /\ FileOf(s) \in Gens => FileOf(s) = s
           /\ s \in Gens => FileOf(s) = s
BY GensFacts DEF FileOf, Gens

(***************************************************************************)
(* With no crash and no overlapping load, every step keeps TripInv.  A    *)
(* save walks the files in SaveOrder; a load begins at rest, where every  *)
(* file holds the last save, and no save can start before it returns.     *)
(***************************************************************************)
LEMMA TripStep ==
    ASSUME ~CrashPossible, ~ConcurrentLoad, TripInv, [Next]_vars
    PROVE  TripInv'
<1>0. TInv'
  BY TInvStep DEF TripInv
<1>. SUFFICES /\ SaveProgress' /\ IdleClosed' /\ LoadSeesLastSave'
              /\ LoadedFromBase' /\ RoundTrip'
  BY <1>0 DEF TripInv
<1>a. /\ gen \in 0..MaxGen /\ spc \in 0..3 /\ lpc \in 0..3
      /\ saved_gen \in 0..MaxGen /\ load_base \in 0..MaxGen
      /\ spc # 0 => gen \in Gens
      /\ disk \in [Units -> Gens \cup {Absent, Torn}]
      /\ mem \in [Units -> Gens \cup {None}]
  BY DEF TripInv, TInv, TypeOK, SavingHasGen
<1>b. /\ SaveProgress /\ IdleClosed /\ LoadSeesLastSave
      /\ LoadedFromBase /\ RoundTrip
  BY DEF TripInv
<1>. USE SaveOrderUnits, GensFacts, <1>a, <1>b
<1>1. CASE SaveBegins
  <2>1. lpc = 0 /\ spc = 0 /\ ~opened
    BY <1>1 DEF SaveBegins, TrainerMayStart, IdleClosed
  <2>2. SaveProgress'
    BY <1>1, <2>1 DEF SaveBegins, SaveProgress
  <2>. QED
    BY <1>1, <2>1, <2>2 DEF SaveBegins, IdleClosed, LoadSeesLastSave, LoadedFromBase,
                          RoundTrip, LoadReturnedTrue
<1>2. CASE SaveWithoutModel
  <2>1. lpc = 0 /\ spc = 0
    BY <1>2 DEF SaveWithoutModel, TrainerMayStart
  <2>. QED
    BY <1>2, <2>1 DEF SaveWithoutModel, SaveProgress, IdleClosed, LoadSeesLastSave,
                    LoadedFromBase, RoundTrip, LoadReturnedTrue
<1>3. CASE DumpOpens
  <2>1. lpc = 0 /\ spc \in 1..3 /\ ~opened
    BY <1>3 DEF DumpOpens, LoadSeesLastSave
  <2>2. SaveProgress'
    BY <1>3, <2>1 DEF DumpOpens, SaveProgress
  <2>. QED
    BY <1>3, <2>1, <2>2 DEF DumpOpens, IdleClosed, LoadSeesLastSave, LoadedFromBase,
                          RoundTrip, LoadReturnedTrue
<1>4. CASE DumpCompletes
  <2>1. lpc = 0 /\ spc \in 1..3 /\ gen \in Gens
    BY <1>4 DEF DumpCompletes, LoadSeesLastSave
  <2>2. CASE spc < 3
    <3>1. SaveProgress'
      BY <1>4, <2>1, <2>2 DEF DumpCompletes, SaveProgress
    <3>. QED
      BY <1>4, <2>1, <2>2, <3>1 DEF DumpCompletes, IdleClosed, LoadSeesLastSave,
                                  LoadedFromBase, RoundTrip, LoadReturnedTrue
  <2>3. CASE spc = 3
    <3>1. FileOf(gen) = gen
      BY <2>1, FileOfFacts
    <3>2. SaveProgress'
      BY <1>4, <2>1, <2>3, <3>1 DEF DumpCompletes, SaveProgress
    <3>. QED
      BY <1>4, <2>1, <2>3, <3>2 DEF DumpCompletes, IdleClosed, LoadSeesLastSave,
                                  LoadedFromBase, RoundTrip, LoadReturnedTrue
  <2>. QED
    BY <2>1, <2>2, <2>3
<1>5. CASE TrainerCrashes
  BY <1>5 DEF TrainerCrashes
<1>6. CASE LoadBegins
  <2>1. spc = 0
    BY <1>6 DEF LoadBegins
  <2>. QED
    BY <1>6, <2>1 DEF LoadBegins, SaveProgress, IdleClosed, LoadSeesLastSave,
                    LoadedFromBase, RoundTrip, LoadReturnedTrue
<1>7. CASE LoadUnit
  <2>1. spc = 0 /\ lpc \in 1..3 /\ load_base = saved_gen
    BY <1>7 DEF LoadUnit, LoadSeesLastSave
  <2>2. disk[SaveOrder[lpc]] = load_base
    <3>1. disk[SaveOrder[lpc]] = FileOf(saved_gen)
      BY <2>1 DEF SaveProgress
    <3>2. FileOf(saved_gen) \in Gens
      BY <1>7, <3>1 DEF LoadUnit
    <3>. QED
      BY <2>1, <3>1, <3>2, FileOfFacts
  <2>3. \A p \in 1..3 : p <= lpc => mem'[SaveOrder[p]] = load_base
    BY <1>7, <2>1, <2>2 DEF LoadUnit, LoadedFromBase
  <2>4. SaveProgress' /\ IdleClosed' /\ LoadSeesLastSave' /\ LoadedFromBase'
    BY <1>7, <2>1, <2>3 DEF LoadUnit, SaveProgress, IdleClosed, LoadSeesLastSave,
                          LoadedFromBase
  <2>5. RoundTrip'
    <3>1. CASE lpc = 3
      <4>1. \A u \in Units : \E p \in 1..3 : p <= lpc /\ u = SaveOrder[p]
        BY <3>1 DEF Units
      <4>. QED
        BY <1>7, <2>3, <4>1 DEF LoadUnit, RoundTrip, LoadReturnedTrue
    <3>2. CASE lpc # 3
      BY <1>7, <2>1, <3>2 DEF LoadUnit, RoundTrip, LoadReturnedTrue
    <3>. QED
      BY <3>1, <3>2
  <2>. QED
    BY <2>4, <2>5
<1>8. CASE LoadFails
  BY <1>8 DEF LoadFails, SaveProgress, IdleClosed, LoadSeesLastSave,
              LoadedFromBase, RoundTrip, LoadReturnedTrue
<1>9. CASE UNCHANGED vars
  BY <1>9 DEF vars, SaveProgress, IdleClosed, LoadSeesLastSave,
              LoadedFromBase, RoundTrip, LoadReturnedTrue
<1>. QED
  BY <1>1, <1>2, <1>3, <1>4, <1>5, <1>6, <1>7, <1>8, <1>9 DEF Next

(***************************************************************************)
(* RoundTrip, spec 8, for every number of training runs: when the trainer *)
(* never dies in save_model_and_scaler and loads never overlap saves, a   *)
(* load_model_and_scaler that returns True hands back exactly the model,  *)
(* scaler and metadata of the last save that had returned when it began.  *)
(* __init__ and an empty model directory satisfy TripInv.                  *)
LEMMA TripInit == Init => TripInv
<1>. SUFFICES ASSUME Init PROVE TripInv
  OBVIOUS
<1>1. TInv
  BY TypeCorrectInit
<1>2. SaveProgress
  BY SaveOrderUnits DEF Init, SaveProgress, FileOf
<1>3. IdleClosed /\ LoadSeesLastSave /\ LoadedFromBase /\ RoundTrip
  BY DEF Init, IdleClosed, LoadSeesLastSave, LoadedFromBase, RoundTrip, LoadReturnedTrue
<1>. QED
  BY <1>1, <1>2, <1>3 DEF TripInv

(***************************************************************************)
THEOREM RoundTripHolds ==
    ASSUME ~CrashPossible, ~ConcurrentLoad
    PROVE  Spec => []RoundTrip
<1>1. Init => TripInv
  BY TripInit
<1>2. TripInv /\ [Next]_vars => TripInv'
  BY TripStep
<1>3. TripInv => RoundTrip
  BY DEF TripInv
<1>. QED
  BY <1>1, <1>2, <1>3, PTL DEF Spec

-----------------------------------------------------------------------------
(***************************************************************************)
(* The strengthening of NoRollback, for crashes and overlapping loads     *)
(* alike:                                                                  *)
(*  - every generation on disk is at most the latest run's;               *)
(*  - so is every generation in the analyzer's fields;                    *)
(*  - a field is no newer than its file while that file is complete,      *)
(*    since a dump writes the newest generation and a load copies it.     *)
(***************************************************************************)
FieldsBelowGen == \A u \in Units : mem[u] \in Gens => mem[u] <= gen

FieldsNoNewerThanFiles ==
    \A u \in Units : mem[u] \in Gens /\ disk[u] \in Gens => mem[u] <= disk[u]

MonoInv == TInv /\ DiskBelowGen /\ FieldsBelowGen /\ FieldsNoNewerThanFiles

LEMMA MonoInit == Init => MonoInv
BY TypeCorrectInit, GensFacts
   DEF Init, MonoInv, DiskBelowGen, FieldsBelowGen, FieldsNoNewerThanFiles

(* Every step, or stutter, keeps MonoInv, whatever the two flags are.     *)
LEMMA MonoStep == MonoInv /\ [Next]_vars => MonoInv'
<1>. SUFFICES ASSUME MonoInv, [Next]_vars PROVE MonoInv'
  OBVIOUS
<1>0. TInv'
  BY TInvStep DEF MonoInv
<1>. SUFFICES ASSUME NEW u \in Units
              PROVE  /\ disk'[u] \in Gens => disk'[u] <= gen'
                     /\ mem'[u] \in Gens => mem'[u] <= gen'
                     /\ mem'[u] \in Gens /\ disk'[u] \in Gens => mem'[u] <= disk'[u]
  BY <1>0 DEF MonoInv, DiskBelowGen, FieldsBelowGen, FieldsNoNewerThanFiles
<1>a. /\ gen \in 0..MaxGen /\ spc \in 0..3 /\ lpc \in 0..3
      /\ spc # 0 => gen \in Gens
      /\ disk[u] \in Gens => disk[u] <= gen
      /\ mem[u] \in Gens => mem[u] <= gen
      /\ mem[u] \in Gens /\ disk[u] \in Gens => mem[u] <= disk[u]
      /\ mem \in [Units -> Gens \cup {None}]
  BY DEF MonoInv, TInv, TypeOK, SavingHasGen, DiskBelowGen, FieldsBelowGen,
         FieldsNoNewerThanFiles
<1>. USE SaveOrderUnits, GensFacts, <1>a
<1>1. CASE SaveBegins \/ SaveWithoutModel
  <2>1. disk' = disk /\ mem' = mem /\ gen' = gen + 1
    BY <1>1 DEF SaveBegins, SaveWithoutModel
  <2>2. disk[u] \in Gens => disk[u] \in Nat
    OBVIOUS
  <2>3. mem[u] \in Gens => mem[u] \in Nat
    OBVIOUS
  <2>. QED
    BY <2>1, <2>2, <2>3
<1>2. CASE DumpOpens
  BY <1>2 DEF DumpOpens
<1>3. CASE DumpCompletes
  <2>1. gen \in Gens /\ mem' = mem /\ gen' = gen
    BY <1>3 DEF DumpCompletes
  <2>2. disk'[u] = gen \/ disk'[u] = disk[u]
    BY <1>3 DEF DumpCompletes
  <2>. QED
    BY <2>1, <2>2
<1>4. CASE TrainerCrashes \/ LoadBegins \/ LoadFails \/ UNCHANGED vars
  BY <1>4 DEF TrainerCrashes, LoadBegins, LoadFails, vars
<1>5. CASE LoadUnit
  <2>1. disk' = disk /\ gen' = gen
    BY <1>5 DEF LoadUnit
  <2>0. lpc \in 1..3 /\ SaveOrder[lpc] \in Units
    BY <1>5 DEF LoadUnit
  <2>2. u = SaveOrder[lpc] => mem'[u] = disk[u] /\ disk[u] \in Gens
    BY <1>5, <2>0 DEF LoadUnit
  <2>3. u # SaveOrder[lpc] => mem'[u] = mem[u]
    BY <1>5, <2>0 DEF LoadUnit
  <2>4. CASE u = SaveOrder[lpc]
    <3>1. disk[u] \in Nat /\ disk[u] <= gen
      BY <2>2, <2>4
    <3>. QED
      BY <2>1, <2>2, <2>4, <3>1
  <2>5. CASE u # SaveOrder[lpc]
    BY <2>1, <2>3, <2>5
  <2>. QED
    BY <2>4, <2>5
<1>. QED
  BY <1>1, <1>2, <1>3, <1>4, <1>5 DEF Next

(* Under MonoInv, every step only advances the fields it changes.         *)
LEMMA MonoAdvance == MonoInv /\ [Next]_vars => [FieldsOnlyAdvance]_vars
<1>. SUFFICES ASSUME MonoInv, [Next]_vars, NEW u \in Units, mem'[u] # mem[u]
              PROVE  /\ mem'[u] \in Gens
                     /\ mem[u] \in Gens => mem'[u] > mem[u]
  BY DEF FieldsOnlyAdvance
<1>1. LoadUnit
  BY DEF Next, SaveBegins, SaveWithoutModel, DumpOpens, DumpCompletes,
         TrainerCrashes, LoadBegins, LoadFails, vars
<1>0. mem \in [Units -> Gens \cup {None}] /\ lpc \in 1..3
  BY <1>1 DEF MonoInv, TInv, TypeOK, LoadUnit
<1>2. u = SaveOrder[lpc] /\ mem'[u] = disk[u] /\ disk[u] \in Gens
  BY <1>0, <1>1, SaveOrderUnits DEF LoadUnit
<1>3. mem[u] \in Gens => mem[u] <= disk[u]
  BY <1>2 DEF MonoInv, FieldsNoNewerThanFiles
<1>4. disk[u] \in Nat /\ (mem[u] \in Gens => mem[u] \in Nat)
  BY <1>2, GensFacts
<1>. QED
  BY <1>2, <1>3, <1>4

(***************************************************************************)
(* NoRollback for every number of training runs, with crashes and with    *)
(* loads overlapping saves: a reload never leaves the analyzer with an    *)
(* older model, scaler or metadata than it held, nor clears one.          *)
(***************************************************************************)
THEOREM NoRollbackHolds == Spec => NoRollback
BY MonoInit, MonoStep, MonoAdvance, PTL DEF Spec, NoRollback

-----------------------------------------------------------------------------
(***************************************************************************)
(* The refinement of BundleStoreSpec, for a trainer that never crashes    *)
(* and loads that never overlap saves.  TripInv, and:                     *)
(*  - the last save returned is of a run no later than the latest, and of *)
(*    an earlier one while a save runs (so a save's return is a Store);   *)
(*  - the fields a running load has not reached are as they were when it  *)
(*    began (so a load that fails leaves what the analyzer holds).        *)
(***************************************************************************)
SavedNotAhead == saved_gen <= gen /\ (spc # 0 => saved_gen < gen)

UntouchedSinceLoad ==
    \A p \in 1..3 : lpc # 0 /\ p >= lpc => mem[SaveOrder[p]] = mem_before[SaveOrder[p]]

RefInv == TripInv /\ SavedNotAhead /\ UntouchedSinceLoad

(* Each unit is the p-th of the dumps and loads for some p.               *)
LEMMA UnitsInOrder == \A u \in Units : \E p \in 1..3 : u = SaveOrder[p]
BY DEF Units, SaveOrder

(* With no crash and no overlapping load, every step keeps RefInv.        *)
LEMMA RefStep ==
    ASSUME ~CrashPossible, ~ConcurrentLoad, RefInv, [Next]_vars
    PROVE  RefInv'
<1>0. TripInv'
  BY TripStep DEF RefInv
<1>. SUFFICES SavedNotAhead' /\ UntouchedSinceLoad'
  BY <1>0 DEF RefInv
<1>a. /\ gen \in 0..MaxGen /\ spc \in 0..3 /\ lpc \in 0..3
      /\ saved_gen \in 0..MaxGen
      /\ mem \in [Units -> Gens \cup {None}]
      /\ mem_before \in [Units -> Gens \cup {None}]
  BY DEF RefInv, TripInv, TInv, TypeOK
<1>b. SavedNotAhead /\ UntouchedSinceLoad /\ LoadSeesLastSave
  BY DEF RefInv, TripInv
<1>. USE SaveOrderUnits, <1>a, <1>b
<1>1. CASE SaveBegins
  BY <1>1 DEF SaveBegins, TrainerMayStart, SavedNotAhead, UntouchedSinceLoad
<1>2. CASE SaveWithoutModel
  BY <1>2 DEF SaveWithoutModel, TrainerMayStart, SavedNotAhead, UntouchedSinceLoad
<1>3. CASE DumpOpens
  BY <1>3 DEF DumpOpens, SavedNotAhead, UntouchedSinceLoad
<1>4. CASE DumpCompletes
  BY <1>4 DEF DumpCompletes, SavedNotAhead, UntouchedSinceLoad
<1>5. CASE TrainerCrashes
  BY <1>5 DEF TrainerCrashes
<1>6. CASE LoadBegins
  BY <1>6 DEF LoadBegins, SavedNotAhead, UntouchedSinceLoad
<1>7. CASE LoadUnit
  BY <1>7 DEF LoadUnit, SavedNotAhead, UntouchedSinceLoad
<1>8. CASE LoadFails
  BY <1>8 DEF LoadFails, SavedNotAhead, UntouchedSinceLoad
<1>9. CASE UNCHANGED vars
  BY <1>9 DEF vars, SavedNotAhead, UntouchedSinceLoad
<1>. QED
  BY <1>1, <1>2, <1>3, <1>4, <1>5, <1>6, <1>7, <1>8, <1>9 DEF Next

(***************************************************************************)
(* Every step is a step of BundleStoreSpec or leaves its state alone: a   *)
(* training run is Train, the return of save_model_and_scaler is Store,   *)
(* the return of load_model_and_scaler is LoadOk or LoadFails, and the    *)
(* dumps and loads before a return are stutters.                          *)
(***************************************************************************)
LEMMA RefMapStep ==
    ASSUME ~CrashPossible, ~ConcurrentLoad, RefInv, RefInv', [Next]_vars
    PROVE  [Bundle!Next]_Bundle!bvars
<1>a. /\ gen \in 0..MaxGen /\ spc \in 0..3 /\ lpc \in 0..3
      /\ saved_gen \in 0..MaxGen /\ load_base \in 0..MaxGen
      /\ mem \in [Units -> Gens \cup {None}]
      /\ mem_before \in [Units -> Gens \cup {None}]
      /\ mem' \in [Units -> Gens \cup {None}]
  BY DEF RefInv, TripInv, TInv, TypeOK
<1>b. /\ SaveProgress /\ LoadSeesLastSave /\ LoadedFromBase
      /\ SavedNotAhead /\ UntouchedSinceLoad /\ RoundTrip'
  BY DEF RefInv, TripInv
<1>. USE SaveOrderUnits, GensFacts, <1>a, <1>b
<1>1. CASE SaveBegins
  <2>1. Bundle!Train
    BY <1>1 DEF SaveBegins, TrainerMayStart, Bundle!Train
  <2>. QED
    BY <2>1 DEF Bundle!Next
<1>2. CASE SaveWithoutModel
  <2>1. Bundle!Train
    BY <1>2 DEF SaveWithoutModel, TrainerMayStart, Bundle!Train
  <2>. QED
    BY <2>1 DEF Bundle!Next
<1>3. CASE DumpOpens
  BY <1>3 DEF DumpOpens, Bundle!bvars
<1>4. CASE DumpCompletes
  <2>1. CASE spc = 3
    <3>1. Bundle!Store
      BY <1>4, <2>1 DEF DumpCompletes, SavedNotAhead, Bundle!Store
    <3>. QED
      BY <3>1 DEF Bundle!Next
  <2>2. CASE spc # 3
    BY <1>4, <2>2 DEF DumpCompletes, Bundle!bvars
  <2>. QED
    BY <2>1, <2>2
<1>5. CASE TrainerCrashes
  BY <1>5 DEF TrainerCrashes
<1>6. CASE LoadBegins
  BY <1>6 DEF LoadBegins, Bundle!bvars
<1>7. CASE LoadUnit
  <2>1. spc = 0 /\ lpc \in 1..3
    BY <1>7 DEF LoadUnit, LoadSeesLastSave
  <2>2. CASE lpc = 3
    <3>1. saved_gen \in Gens
      <4>1. disk[SaveOrder[lpc]] = FileOf(saved_gen)
        BY <2>1 DEF SaveProgress
      <4>. QED
        BY <1>7, <4>1 DEF LoadUnit, FileOf, Gens
    <3>2. \A u \in Units : mem'[u] = saved_gen
      BY <1>7, <2>1, <2>2 DEF LoadUnit, RoundTrip, LoadReturnedTrue, LoadSeesLastSave
    <3>3. mem' = [u \in Units |-> saved_gen]
      BY <3>2
    <3>4. /\ lpc' = 0 /\ loaded' = "ok"
          /\ UNCHANGED <<gen, saved_gen>>
      BY <1>7, <2>2 DEF LoadUnit
    <3>5. (IF lpc = 0 THEN mem ELSE mem_before)' = [u \in Units |-> saved_gen]
      BY <3>3, <3>4
    <3>6. Bundle!LoadOk
      BY <3>1, <3>4, <3>5 DEF Bundle!LoadOk, Gens
    <3>. QED
      BY <3>6 DEF Bundle!Next
  <2>3. CASE lpc # 3
    BY <1>7, <2>1, <2>3 DEF LoadUnit, Bundle!bvars
  <2>. QED
    BY <2>2, <2>3
<1>8. CASE LoadFails
  <2>1. spc = 0 /\ lpc \in 1..3 /\ load_base = saved_gen
    BY <1>8 DEF LoadFails, LoadSeesLastSave
  <2>2. saved_gen = 0
    <3>1. disk[SaveOrder[lpc]] = FileOf(saved_gen)
      BY <2>1 DEF SaveProgress
    <3>. QED
      BY <1>8, <3>1 DEF LoadFails, FileOf, Gens
  <2>3. lpc = 1
    <3>1. SUFFICES ASSUME lpc # 1 PROVE FALSE
      OBVIOUS
    <3>2. mem[SaveOrder[1]] = 0
      BY <2>1, <2>2, <3>1 DEF LoadedFromBase
    <3>. QED
      BY <3>2, SentinelAssumption DEF Gens
  <2>4. mem = mem_before
    <3>1. \A u \in Units : mem[u] = mem_before[u]
      BY <2>3, UnitsInOrder DEF UntouchedSinceLoad
    <3>. QED
      BY <3>1
  <2>5. Bundle!LoadFails
    BY <1>8, <2>1, <2>2, <2>4 DEF LoadFails, Bundle!LoadFails
  <2>. QED
    BY <2>5 DEF Bundle!Next
<1>9. CASE UNCHANGED vars
  BY <1>9 DEF vars, Bundle!bvars
<1>. QED
  BY <1>1, <1>2, <1>3, <1>4, <1>5, <1>6, <1>7, <1>8, <1>9 DEF Next

(***************************************************************************)
(* Spec 5 and 8 for every number of training runs: when the trainer never *)
(* dies in save_model_and_scaler and loads never overlap saves, the three *)
(* joblib.dump and three joblib.load calls implement an atomic store: the *)
(* analyzer only ever holds a whole bundle of the last save returned, and *)
(* a load that returns False leaves its fields as they were.              *)
(***************************************************************************)
THEOREM BundleStoreRefinement ==
    ASSUME ~CrashPossible, ~ConcurrentLoad
    PROVE  Spec => BundleStoreRefined
<1>1. Init => RefInv
  BY TripInit DEF Init, RefInv, SavedNotAhead, UntouchedSinceLoad
<1>2. Init => Bundle!Init
  BY DEF Init, Bundle!Init
<1>3. RefInv /\ [Next]_vars => RefInv'
  BY RefStep
<1>4. RefInv /\ RefInv' /\ [Next]_vars => [Bundle!Next]_Bundle!bvars
  BY RefMapStep
<1>. QED
  BY <1>1, <1>2, <1>3, <1>4, PTL DEF Spec, BundleStoreRefined, Bundle!Spec

=============================================================================

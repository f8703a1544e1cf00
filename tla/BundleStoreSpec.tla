-------------------------- MODULE BundleStoreSpec --------------------------
(***************************************************************************)
(* What the artifact store promises (spec 5 and 8): the bundle of a       *)
(* training run is stored as one whole, replacing the previous one, and a *)
(* load hands the analyzer the whole stored bundle, or fails, leaving its *)
(* fields alone, when no run has stored one.  No files, no dump order, no *)
(* field-by-field assignment.                                             *)
(***************************************************************************)
EXTENDS Naturals

CONSTANTS
    MaxGen,   \* number of training runs in a behaviour
    Units,    \* the parts of a bundle: model, scaler, metadata
    None      \* the analyzer's fields before any load

VARIABLES
    runs,     \* training runs so far
    stored,   \* the run whose bundle is stored; 0 if none
    held,     \* the run each field of the analyzer came from
    result    \* what the last load returned: "never", "ok" or "failed"

bvars == <<runs, stored, held, result>>

Init ==
    /\ runs = 0
    /\ stored = 0
    /\ held = [u \in Units |-> None]
    /\ result = "never"

(* A training run ends; it may or may not go on to store its bundle.      *)
Train ==
    /\ runs < MaxGen
    /\ runs' = runs + 1
    /\ UNCHANGED <<stored, held, result>>

(* The latest run's bundle replaces the stored one, all at once.          *)
Store ==
    /\ stored < runs
    /\ stored' = runs
    /\ UNCHANGED <<runs, held, result>>

(* A load takes every part of the stored bundle.                          *)
LoadOk ==
    /\ stored # 0
    /\ held' = [u \in Units |-> stored]
    /\ result' = "ok"
    /\ UNCHANGED <<runs, stored>>

(* With nothing stored, a load fails and the fields stay as they were.    *)
LoadFails ==
    /\ stored = 0
    /\ result' = "failed"
    /\ UNCHANGED <<runs, stored, held>>

Next == Train \/ Store \/ LoadOk \/ LoadFails

Spec == Init /\ [][Next]_bvars

=============================================================================

----------------------------- MODULE MCPipeline -----------------------------
(***************************************************************************)
(* Model-checking instance of Pipeline: a small training set (the SVM is  *)
(* in the catalogue, so the ensemble can raise) and a large one (no SVM), *)
(* F1 levels 0..2: a search can select nothing, a single model, or an    *)
(* ensemble that beats the best single model strictly.                   *)
(***************************************************************************)
EXTENDS Pipeline

MCTrainSizes == {5000, 60000}
MCScores == 0..2

=============================================================================

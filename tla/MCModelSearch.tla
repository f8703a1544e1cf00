--------------------------- MODULE MCModelSearch ---------------------------
(***************************************************************************)
(* Model-checking instance of ModelSearch: one training size per shape of *)
(* the catalogue (SVM only, both NN and SVM, NN only) and three F1 levels, *)
(* enough for ties, strict improvements and an all-zero search.           *)
(***************************************************************************)
EXTENDS ModelSearch

MCTrainSizes == {5000, 20000, 60000}
MCScores == 0..2

=============================================================================

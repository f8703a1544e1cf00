-------------------------- MODULE MCArtifactStore --------------------------
(***************************************************************************)
(* Model-checking instance of ArtifactStore.  Three training runs: a      *)
(* complete save, then a run whose save can be interrupted or overlapped, *)
(* then one more that may repair or supersede it.  The .cfg files choose  *)
(* whether crashes happen and whether loads overlap saves.                *)
(***************************************************************************)
EXTENDS ArtifactStore

=============================================================================

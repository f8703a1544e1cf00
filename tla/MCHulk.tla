------------------------------ MODULE MCHulk -------------------------------
(***************************************************************************)
(* Model-checking instance of Hulk: two workers stand for the 500 threads *)
(* (every race of the code is between two of them), and three answered   *)
(* requests, enough for two increments to overlap after a first one.      *)
(***************************************************************************)
EXTENDS Hulk

CONSTANTS w1, w2

MCWorkers == {w1, w2}

=============================================================================

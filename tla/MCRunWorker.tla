------------------------------ MODULE MCRunWorker ------------------------------
(***************************************************************************)
(* RunWorker for TLC.                                                      *)
(***************************************************************************)
EXTENDS RunWorker, TLC

CONSTANTS w1, w2, k1

TwoWorkers == {w1, w2}
OneTask == {k1}

Alike == Permutations(TwoWorkers)
=============================================================================

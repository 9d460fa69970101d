----------------------------- MODULE MCBusStore -----------------------------
(* The bus store with two writers, one consumer and few ULIDs, for TLC.    *)
EXTENDS BusStore, TLC

CONSTANTS w1, w2

Symmetry == Permutations({w1, w2})
=============================================================================

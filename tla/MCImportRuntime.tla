-------------------------- MODULE MCImportRuntime --------------------------
(* Small instances of ImportRuntime for TLC. *)
EXTENDS ImportRuntime

CONSTANTS k1, k2, w1, w2, r1, r2   \* model values

OneWorker == [k \in Keys |-> w1]

BatchOnly == {"batch"}

BothModes   == {"resume", "recover"}
RecoverOnly == {"recover"}
=============================================================================

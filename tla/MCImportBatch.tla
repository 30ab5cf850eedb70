--------------------------- MODULE MCImportBatch ---------------------------
(* Small instances of ImportBatch for TLC. *)
EXTENDS ImportBatch

CONSTANTS w1, w2   \* the parser and a worker its jobs feed

Op(n, s) == [name |-> n, scope |-> s]

AllOperations ==
  {Op("pause", "batch"), Op("resume", "batch"), Op("pause", w2), Op("resume", w1),
   Op("delete", "batch"), Op("cancel", "batch"), Op("retry", "batch")}
=============================================================================

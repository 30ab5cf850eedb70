---------------------------- MODULE MCFileIngest ----------------------------
(* Small instances of FileIngest for TLC. *)
EXTENDS FileIngest

\* The first row is alone on its sheet
TwoSheets == [r \in Lines |-> IF r = 1 THEN 1 ELSE 2]
=============================================================================

------------------------------ MODULE MCReprocess ------------------------------
(* Three contacts of which two share a millisecond, and pages of two. *)
EXTENDS Reprocess, TLC

CONSTANTS c1, c2, c3

MCRank == c1 :> 1 @@ c2 :> 2 @@ c3 :> 3

At(ms, us) == [ms |-> ms, us |-> us]

\* Of the second, one contact shares its millisecond with another and is later by less than one
MCTimes == {c1 :> At(2, 0) @@ c2 :> At(1, 0) @@ c3 :> At(1, 0),
            c1 :> At(1, 0) @@ c2 :> At(2, 0) @@ c3 :> At(2, 7)}

\* An earlier run left c1 on the list of failures
MCFirstRow ==
    c1 :> [status |-> "resolved", extracted |-> "new", used |-> "new", failure |-> "failed"] @@
    c2 :> [status |-> "resolved", extracted |-> "old", used |-> "old", failure |-> "none"] @@
    c3 :> [status |-> "resolved", extracted |-> "new", used |-> "new", failure |-> "none"]

MCAttempts == [k \in Kinds |-> IF k = "full" THEN 2 ELSE 1]
=============================================================================

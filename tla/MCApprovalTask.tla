---------------------------- MODULE MCApprovalTask ----------------------------
(* ApprovalTask on small instances. *)
EXTENDS ApprovalTask, TLC

CONSTANTS t1, ana, dan, mia, r1, r2, r3

OneError == t1 :> "error_review"

OwnEntity == [t \in Tasks |-> t]

\* A manager and operators; nobody to escalate to above
MCRole == [u \in Users |-> IF u = mia THEN "manager" ELSE "operator"]
=============================================================================

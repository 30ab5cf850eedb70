-------------------------- MODULE MCCompanyIdentity --------------------------
(***************************************************************************)
(* CompanyIdentity on four rows: two cuis share an nr_reg_com, and the     *)
(* first cui comes again with an nr_reg_com that a row without cui has.    *)
(***************************************************************************)
EXTENDS CompanyIdentity, TLC

CONSTANTS k1, k2, n1, n2, n3

MCGiven == 1 :> [cui |-> k1, nr |-> n1] @@ 2 :> [cui |-> k2, nr |-> n1]
             @@ 3 :> [cui |-> k1, nr |-> n2] @@ 4 :> [cui |-> Nil, nr |-> n2]
MCPayload == [b \in Contacts |-> b]
MCChunks == {{1, 2, 3, 4}}
MCAnafNr == k1 :> n3 @@ k2 :> Nil
=============================================================================

--------------------------- MODULE MCEnrichmentFlow ---------------------------
(***************************************************************************)
(* EnrichmentFlow on small instances: what P1 finds, what the services     *)
(* answer and what the scores make of it.                                  *)
(***************************************************************************)
EXTENDS EnrichmentFlow

CONSTANT wanted   \* the share of InUse that a company with full scores has

MCShape == [c \in Companies |-> {"cui", "validated", "domain", "address", "agri"}]

\* A company that C1 did not validate: only an AI review sends it on
MCNotValidated == [c \in Companies |-> {"cui"}]

MCSays == [q \in Enrichers |->
             CASE q = "anaf_fiscal" -> {"ACTIVA"}
               [] q = "anaf_datorii" -> {Nil, "INACTIVA"}
               [] q = "termene_dosare" -> {"INSOLVENTA"}
               [] q = "structure" -> {"unsure"}
               [] OTHER -> {"found"}]

\* The more workers wrote, the higher the score
MCScore == [W \in SUBSET InUse |-> IF W = {} THEN 0 ELSE IF wanted \subseteq W THEN 90 ELSE 50]

\* The services that may fail
MCFetchBreaks == {<<"termene_dosare", "fetch">>}
MCSiteBreaks == {<<"contact", "fetch">>}
=============================================================================

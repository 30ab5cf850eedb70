-------------------------- MODULE MCContactPipeline --------------------------
(***************************************************************************)
(* ContactPipeline on small instances: what ANAF knows, and what contacts  *)
(* may look like when they are inserted.                                   *)
(***************************************************************************)
EXTENDS ContactPipeline, TLC

CONSTANTS known, bare, unknown, regno, file, single, again

Arrives(s, c, g, f) == [source |-> s, cui |-> c, reg |-> g, fields |-> f \cap Normalisers]

\* Three CUIs: one ANAF has a register number for, one it has without, one it has not
MCAnaf == [c \in Cuis |-> IF c = known THEN regno ELSE IF c = bare THEN Nil ELSE "absent"]

\* The first company in a file by its CUI and by its register number, and entered by
\* hand by both or by the register number; the unknown one in the file; the second,
\* with a wrong checksum, by hand
MCIntake ==
    {Arrives(file, known, Nil, {"name"}), Arrives(file, Nil, regno, {}),
     Arrives(file, unknown, Nil, {"name"}), Arrives(single, Nil, regno, {"name"}),
     Arrives(single, known, regno, {"name"}), Arrives(single, bare, Nil, {"name"})}

\* The first company in a file, with an e-mail address
MCFile == {Arrives(file, known, Nil, {"email"})}

\* ANAF may fail to answer
MCBreaks == {<<"c2", "ask">>, <<"anaf-bronze", "ask">>}

Symmetry == Permutations(Contacts)
=============================================================================

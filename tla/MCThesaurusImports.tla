------------------------ MODULE MCThesaurusImports ------------------------
(***************************************************************************)
(* A small instance of ThesaurusImports.                                   *)
(***************************************************************************)
EXTENDS ThesaurusImports

CONSTANTS i1, i2, t1, t2

MCContents == {Bad} \cup {[terms |-> ts] : ts \in {{}, {t1}, {t1, t2}}}
=============================================================================

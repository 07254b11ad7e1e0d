---------------------------- MODULE MCOpenFiles ----------------------------
(***************************************************************************)
(* An instance of OpenFiles for TLC: no constraint, no foreign key.        *)
(***************************************************************************)
EXTENDS OpenFiles

CONSTANTS a, db1, t1, t2

OneDb     == {db1}
TwoTables == {t1, t2}
NoClause  == {}
OneSchema == {<<a>>}
IntA      == {a}
=============================================================================

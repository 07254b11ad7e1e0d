----------------------------- MODULE MCCatalog -----------------------------
(***************************************************************************)
(* Instances of Catalog for TLC.                                           *)
(***************************************************************************)
EXTENDS Catalog

CONSTANTS a, x, db1, t1, t2

OneDb     == {db1}
TwoTables == {t1, t2}
NoClause  == {}
OneSchema == {<<a>>}
IntA      == {a}
KeyOrBad  == {<<a>>, <<a, x>>}
UniqueA   == {<<a>>}
ToT1      == {[name |-> "f", columns |-> <<a>>, foreign_table |-> t1, foreign_columns |-> <<a>>]}
=============================================================================

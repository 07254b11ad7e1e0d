------------------------------- MODULE MCSelect -------------------------------
(***************************************************************************)
(* Instances of Select for TLC: tables A (k INT, v INT), B (k INT, w INT),  *)
(* C (k INT, s VARCHAR), with few rows, with and without their indexes.     *)
(* The queries stay clear of what Select has and the code gets wrong: lower  *)
(* bounds on an indexed column, which are in Above, and <> on one: the code  *)
(* strikes that clause off when the index stands for the column, whose range *)
(* it has not narrowed, and the rows with that value are found.              *)
(***************************************************************************)
EXTENDS Select

CONSTANTS A, B, C, D

Int1 == [type |-> "INT"]
AllFields == [t \in {A, B, C} |-> IF t = C THEN <<Int1, [type |-> "STR"]>> ELSE <<Int1, Int1>>]

Row(k, v) == <<IntV(k), IntV(v)>>

\* The rows under RIDs 1, 2, ...
AContents ==
  { << >>, <<Row(1, 2), Row(2, 2)>>, <<Row(2, 1), Row(1, 2), Row(1, 1)>>,
    <<Row(2, 2), <<IntV(1), Null>>>>, <<Row(1, 1), Row(2, 1), <<Null, Null>>>> }
BContents == { << >>, <<Row(1, 2), Row(1, 1)>>, <<Row(2, 2), Row(1, 1)>>, <<Row(2, 1), <<Null, Null>>>> }
CContents == { << >>, <<<<IntV(1), StrV(2)>>, <<IntV(2), Null>>, <<IntV(2), StrV(1)>>>> }

SomeContents ==
  { [t \in {A, B, C} |-> IF t = A THEN a ELSE IF t = B THEN b ELSE c] :
      a \in AContents, b \in BContents, c \in CContents }

SomeIndexSets ==
  { [t \in {A, B, C} |-> IF t \in T THEN {1} ELSE {}] : T \in SUBSET {A, B, C} }
    \cup { [t \in {A, B, C} |-> IF t = A THEN {1, 2} ELSE {1}] }

Col(t, c)     == [type |-> "COL", col |-> <<t, c>>]
Agr(f, t, c)  == [type |-> "AGR_COL", agr_type |-> f, col |-> <<t, c>>]
CountAll      == [type |-> "CT"]

Compares(t, c, f, v) ==
  [type |-> "OP_EXPR", column |-> <<t, c>>, op |-> f, expr |-> [type |-> "VALUE", value |-> v]]
Joins(t, c, f, t2, c2) ==
  [type |-> "OP_EXPR", column |-> <<t, c>>, op |-> f, expr |-> [type |-> "COLUMN", column |-> <<t2, c2>>]]
IsNull(t, c, yes) == [type |-> "IS_NULL_OR_NOT_NULL", column |-> <<t, c>>, is_null |-> yes]
InList(t, c, V)   == [type |-> "IN_VALUE_LIST", column |-> <<t, c>>, value_list |-> V]
Like(t, c, n, o)  == [type |-> "LIKE_STR", column |-> <<t, c>>, like |-> [least |-> n, open |-> o]]

Stmt(from, where, selectors) ==
  [table_names |-> from, where_clauses |-> where, selectors |-> selectors,
   group_by |-> NoGroup, limit |-> 100, offset |-> 0]

InSelect(t, c, q)    == [type |-> "IN_SELECT", column |-> <<t, c>>, stmt |-> q, select |-> NoRecordSet(TRUE)]
OpSelect(t, c, f, q) == [type |-> "OP_SELECT", column |-> <<t, c>>, op |-> f, stmt |-> q, select |-> NoRecordSet(TRUE)]

One == IntV(1)
Two == IntV(2)

\* One table, by an index or not, with each kind of clause.
OneTable ==
  { Stmt(<<A>>, <<Compares(A, 1, "LE", One)>>, << >>),
    Stmt(<<A>>, <<Compares(A, 1, "LT", Two), Compares(A, 2, "EQ", Two)>>, <<Col(A, 2)>>),
    Stmt(<<B>>, <<Compares(B, 1, "LE", Two), Compares(B, 1, "EQ", One), Compares(B, 2, "GE", Two)>>, << >>),
    Stmt(<<A>>, <<Compares(A, 1, "EQ", Two), Compares(A, 1, "EQ", One)>>, << >>),
    Stmt(<<B>>, <<Compares(B, 2, "NEQ", Two), IsNull(B, 1, FALSE)>>, << >>),
    Stmt(<<A>>, <<IsNull(A, 2, TRUE), Compares(A, 1, "LT", Two)>>, << >>),
    Stmt(<<A>>, <<Joins(A, 1, "GT", A, 2)>>, << >>),
    Stmt(<<A>>, <<InList(A, 1, {One, Null}), Compares(A, 1, "LE", Two)>>, <<CountAll>>),
    Stmt(<<C>>, <<Like(C, 2, 1, TRUE), Compares(C, 1, "EQ", Two)>>, << >>),
    Stmt(<<C>>, <<Like(C, 2, 2, FALSE)>>, << >>) }

\* Two tables and three, driven by an index or multiplied, from either side.
Joined ==
  { Stmt(<<A, B>>, <<Joins(A, 1, "EQ", B, 1)>>, << >>),
    Stmt(<<A, B>>, <<Joins(B, 1, "EQ", A, 2), Compares(A, 1, "EQ", One)>>, << >>),
    Stmt(<<B, A>>, <<Joins(A, 1, "EQ", B, 1), Joins(B, 2, "LE", A, 2)>>, << >>),
    [Stmt(<<A, B>>, << >>, << >>) EXCEPT !.limit = 2, !.offset = 1],
    Stmt(<<A, B>>, <<Compares(A, 1, "LE", One), Compares(B, 1, "LE", Two)>>, <<CountAll>>),
    Stmt(<<A, B, C>>, <<Joins(A, 1, "EQ", B, 2), Joins(C, 1, "EQ", B, 1)>>, << >>),
    Stmt(<<C, A, B>>, <<Joins(A, 1, "EQ", C, 1), Joins(B, 1, "EQ", A, 1), Compares(B, 2, "LT", Two)>>, << >>) }

\* Aggregates, over everything and by groups.
Aggregated ==
  { Stmt(<<A>>, << >>, <<Agr("SUM", A, 2), Agr("AVERAGE", A, 2), CountAll>>),
    Stmt(<<A>>, <<Compares(A, 1, "LE", Two)>>, <<Agr("MAX", A, 2), Agr("MIN", A, 1), Agr("COUNT", A, 2)>>),
    [Stmt(<<A>>, << >>, <<Col(A, 1), Agr("COUNT", A, 2), Agr("SUM", A, 2), CountAll>>) EXCEPT !.group_by = <<A, 1>>],
    [Stmt(<<A, B>>, <<Joins(A, 1, "EQ", B, 1)>>, <<Col(A, 2), Agr("MAX", B, 2)>>)
       EXCEPT !.group_by = <<A, 2>>, !.limit = 1],
    Stmt(<<C>>, << >>, <<Agr("COUNT", C, 2)>>) }

MaxOfB == Stmt(<<B>>, << >>, <<Agr("MAX", B, 1)>>)
KOfB   == Stmt(<<B>>, <<Compares(B, 1, "LE", One)>>, <<Col(B, 1)>>)

WithSubSelects ==
  { Stmt(<<A>>, <<OpSelect(A, 1, "EQ", MaxOfB)>>, << >>),
    Stmt(<<A>>, <<InSelect(A, 1, KOfB), OpSelect(A, 2, "LE", MaxOfB)>>, << >>),
    Stmt(<<A, C>>, <<InSelect(A, 2, KOfB), Joins(A, 1, "EQ", C, 1)>>, <<CountAll>>) }

\* What is refused: types, names, shapes.
Erroneous ==
  { Stmt(<<A, A>>, << >>, << >>),
    Stmt(<<A, D>>, << >>, <<CountAll>>),
    Stmt(<<A>>, <<Compares(A, 2, "EQ", StrV(1))>>, << >>),
    Stmt(<<A>>, <<Like(A, 1, 1, TRUE)>>, << >>),
    Stmt(<<A>>, <<InSelect(A, 1, Stmt(<<B>>, << >>, << >>))>>, << >>),
    Stmt(<<A>>, << >>, <<Col(B, 1)>>),
    Stmt(<<C>>, << >>, <<Agr("SUM", C, 2)>>),
    Stmt(<<A>>, << >>, <<Col(A, 1), CountAll>>) }

SomeStatements == OneTable \cup Joined \cup Aggregated \cup WithSubSelects \cup Erroneous

\* A lower bound on an indexed column (check/6-pk: WHERE T1.ID > 0).
Above == { Stmt(<<A>>, <<Compares(A, 1, "GT", IntV(0))>>, << >>) }
=============================================================================

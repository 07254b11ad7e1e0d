-------------------------------- MODULE MCRows --------------------------------
(***************************************************************************)
(* Instances of Rows for TLC: a table P (x FLOAT NOT NULL, id INT) and a    *)
(* table C (ref INT, tag VARCHAR(2)) that may refer to P (id).              *)
(***************************************************************************)
EXTENDS Rows

CONSTANTS P, C

Both == {P, C}

BothFields ==
  [t \in Both |-> IF t = P
     THEN <<[type |-> "FLOAT", str_len |-> 0], [type |-> "INT", str_len |-> 0]>>
     ELSE <<[type |-> "INT", str_len |-> 0], [type |-> "STR", str_len |-> 2]>>]
BothNullables == [t \in Both |-> IF t = P THEN {2} ELSE {1, 2}]

TwoRids == {1, 2}

\* One row or two; a value too few, a string too long, integers for the FLOAT.
SomeInserts ==
  [t \in Both |-> IF t = P
     THEN { <<<<IntV(1), IntV(1)>>>>, <<<<IntV(1), IntV(2)>>, <<FloatV(0), IntV(2)>>>>,
            <<<<FloatV(0), Null>>>>, <<<<IntV(1)>>>> }
     ELSE { <<<<Null, StrV(3)>>, <<IntV(1), StrV(2)>>>>, <<<<IntV(2), Null>>, <<Null, StrV(2)>>>> }]

Everything == [c \in {} |-> Null]
Equal(c, v) == [b \in {c} |-> v]

SomeConditions ==
  [t \in Both |-> IF t = P
     THEN { Everything, <<FloatV(1), IntV(2)>> }
     ELSE { Equal(1, IntV(1)), Equal(2, StrV(2)) }]

SomeSetClauses ==
  [t \in Both |-> IF t = P
     THEN { Equal(2, IntV(2)), Equal(1, Null), Equal(2, StrV(1)) }
     ELSE { Equal(1, Null) }]

SomeKeys        == [t \in Both |-> IF t = P THEN {{2}} ELSE {}]
SomeForeignKeys == [t \in Both |-> IF t = C THEN {[table |-> P, ids |-> Equal(1, 2)]} ELSE {}]
-----------------------------------------------------------------------------
Q == INSTANCE Query

\* The clauses of an equality, in the order of the columns.
ClausesOf(t, where) ==
  Q!SetToSortSeq({[type |-> "OP_EXPR", column |-> <<t, c>>, op |-> "EQ",
                  expr |-> [type |-> "VALUE", value |-> where[c]]] : c \in DOMAIN where},
                LAMBDA v, w : v.column[2] < w.column[2])

(***************************************************************************)
(* What validate_insert_data, DELETE and UPDATE look for they find, by      *)
(* whatever indexes the table has by then: the rows that meet the clauses.  *)
(* The whole of search_where_clauses (Query) and search here agree.         *)
(***************************************************************************)
LookupsFindRows ==
  stmt = NoStatement =>
    \A t \in Tables : \A where \in Conditions[t] :
       LET meeting == {r \in DOMAIN rows[t] : Meets(RowAt(t, r), where)}
           found   == Q!search_where_clauses([rows |-> rows, entries |-> entries], <<t>>, ClausesOf(t, where))
       IN  /\ search(t, where) = meeting
           /\ {x.rid : x \in Range(found.record)} = meeting
           /\ Len(found.record) = Cardinality(meeting)
=============================================================================

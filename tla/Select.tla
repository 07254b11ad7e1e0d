-------------------------------- MODULE Select --------------------------------
(***************************************************************************)
(* A SELECT statement, from the visit of its sub-selects (MyVisitor) to the *)
(* table that is printed (QuerySystem::search_entry), one step for each     *)
(* sub-select, for each round of the loop that places the tables, for the   *)
(* rest of the clauses, for the selectors and for LIMIT.                    *)
(*                                                                         *)
(* Nothing changes the data meanwhile.  The indexes have the pairs of the   *)
(* rows (Rows, IndexesMatchRows).                                           *)
(***************************************************************************)
EXTENDS Query, Bags

CONSTANTS Contents,    \* the rows of the tables: sets of functions to sequences of rows
          IndexSets,   \* the columns that have an index: sets of functions
          Statements   \* the statements, sub-selects as clauses' `stmt'

VARIABLES data,    \* the rows and the indexes
          st,      \* the statement; its sub-selects' results, once visited
          stage,   \* what is to be done next
          s,       \* the search: result_vec, vec_index, solved
          result,  \* the record set, once the clauses are applied
          flag     \* QuerySystem::flag

vars == <<data, st, stage, s, result, flag>>

Clauses == st.where_clauses
From    == st.table_names

Pairs(rows, c) == {<<asInt(rows[r][c]), r>> : r \in {q \in DOMAIN rows : ~ isNull(rows[q][c])}}

Init ==
  /\ \E rows \in Contents, indexed \in IndexSets :
       data = [rows |-> rows,
               entries |-> [t \in DOMAIN rows |-> [c \in indexed[t] |-> Pairs(rows[t], c)]]]
  /\ st \in Statements
  /\ stage = "visit"
  /\ s = NewSearch(<< >>)
  /\ result = NoRecordSet(TRUE)
  /\ flag = TRUE

\* The clauses whose sub-select is not visited yet.
ToVisit == {i \in DOMAIN Clauses : "stmt" \in DOMAIN Clauses[i] /\ Clauses[i].stmt # NoGroup}

\* visitWhere_operator_select, visitWhere_in_select: the sub-select is answered.
VisitSubSelect ==
  LET i      == Min(ToVisit)
      answer == search(data, Clauses[i].stmt)
  IN  /\ stage = "visit" /\ ToVisit # {}
      /\ st' = [st EXCEPT !.where_clauses[i].select = answer, !.where_clauses[i].stmt = NoGroup]
      /\ flag' = (flag /\ answer.ok)
      /\ UNCHANGED <<data, stage, s, result>>

\* search refuses a table that is named twice.
Repeated ==
  /\ stage = "visit" /\ ToVisit = {} /\ ~ IsInjective(From)
  /\ stage' = "done" /\ flag' = FALSE
  /\ UNCHANGED <<data, st, s, result>>

\* search_where_clauses refuses a table that does not exist; the selectors are
\* applied to the empty record set it returns.
NoTable ==
  /\ stage = "visit" /\ ToVisit = {} /\ IsInjective(From) /\ ~ TablesExist(data, From)
  /\ stage' = "select" /\ flag' = FALSE
  /\ UNCHANGED <<data, st, s, result>>

BeginSearch ==
  /\ stage = "visit" /\ ToVisit = {} /\ IsInjective(From) /\ TablesExist(data, From)
  /\ s' = Plan(data, From, Clauses)
  /\ stage' = "join"
  /\ UNCHANGED <<data, st, result, flag>>

AllPlaced == \A t \in Range(From) : Placed(s, t)

PlaceTable ==
  /\ stage = "join" /\ ~ AllPlaced
  /\ s' = JoinStep(data, From, Clauses, s)
  /\ UNCHANGED <<data, st, stage, result, flag>>

ApplyRest ==
  /\ stage = "join" /\ AllPlaced
  /\ result' = Combine(Clauses, s)
  /\ stage' = "select"
  /\ flag' = (flag /\ result'.ok)
  /\ UNCHANGED <<data, st, s>>

Project ==
  /\ stage = "select"
  /\ result' = search_selectors(result, st.selectors, st.group_by)
  /\ stage' = "limit"
  /\ flag' = (flag /\ result'.ok)
  /\ UNCHANGED <<data, st, s>>

\* search_entry prints the result if no error was called.
LimitAndPrint ==
  /\ stage = "limit"
  /\ result' = search_limit_offset(result, st.limit, st.offset)
  /\ stage' = "done"
  /\ UNCHANGED <<data, st, s, flag>>

Next == VisitSubSelect \/ Repeated \/ NoTable \/ BeginSearch \/ PlaceTable \/ ApplyRest \/ Project \/ LimitAndPrint

Spec == Init /\ [][Next]_vars
-----------------------------------------------------------------------------
\* Every variable has its type.
TypeOK ==
  /\ stage \in {"visit", "join", "select", "limit", "done"}
  /\ \A t \in DOMAIN s.vec_index : s.vec_index[t] \in 0 .. Len(s.result_vec)
  /\ s.solved \subseteq DOMAIN Clauses
  /\ \A rs \in Range(s.result_vec) \cup {result} : \A x \in Range(rs.record) :
       /\ DOMAIN x.values = DOMAIN rs.columns
       /\ \A k \in DOMAIN x.values : x.values[k] \in Value
  /\ flag \in BOOLEAN

\* What a query means: a row of the answer takes a row of each table.

BagOf(f) == [x \in Range(f) |-> Cardinality({i \in DOMAIN f : f[i] = x})]

Picks(T) ==
  {f \in [T -> UNION {DOMAIN data.rows[t] : t \in T}] : \A t \in T : f[t] \in DOMAIN data.rows[t]}

At(f, column) == data.rows[column[1]][f[column[1]]][column[2]]

\* The rows f picked pass clause w (a clause that is refused passes all).
Holds(f, w) ==
  LET v == At(f, w.column)
  IN  \/ Refused(w)
      \/ CASE w.type = "OP_EXPR" ->
                compare_Value(v, IF w.expr.type = "VALUE" THEN w.expr.value ELSE At(f, w.expr.column), w.op)
           [] w.type = "OP_SELECT" -> compare_Value(v, w.select.record[1].values[1], w.op)
           [] w.type = "IS_NULL_OR_NOT_NULL" -> isNull(v) <=> w.is_null
           [] w.type = "IN_VALUE_LIST" -> v \in w.value_list \ {Null}
           [] w.type = "IN_SELECT" -> v \in {y.values[1] : y \in Range(w.select.record)} \ {Null}
           [] w.type = "LIKE_STR" -> ~ isNull(v) /\ Matches(v, w.like)

Answer(T, W) == {f \in Picks(T) : \A i \in W : Holds(f, Clauses[i])}

AllColumns(T) == UNION {Range(ColumnsOf(t)) : t \in T}

\* The rows of a record set, whatever the order of its columns and rows.
RowsIn(rs) ==
  BagOf([k \in DOMAIN rs.record |->
           [column \in Range(rs.columns) |-> get_column_value(rs, rs.record[k], column)]])

RowsPicked(T, F) == BagOf([f \in F |-> [column \in AllColumns(T) |-> At(f, column)]])

Reads(w) == IF w.type = "OP_EXPR" /\ w.expr.type = "COLUMN" THEN {w.column[1], w.expr.column[1]}
                                                           ELSE {w.column[1]}

(***************************************************************************)
(* While tables are placed, every partial result has the rows its tables    *)
(* and the clauses solved so far describe: the range of an index stands for *)
(* the clauses it was made of, a driven join for its clause.                *)
(***************************************************************************)
PartialResultsRight ==
  stage = "join" =>
    \A k \in DOMAIN s.result_vec :
       LET T == {t \in Range(From) : s.vec_index[t] = k}
           W == {i \in s.solved : Reads(Clauses[i]) \subseteq T}
       IN  RowsIn(s.result_vec[k]) = RowsPicked(T, Answer(T, W))

(***************************************************************************)
(* WHERE gives the rows its clauses describe, each as often as the tables   *)
(* have it, by whatever indexes and in whatever order tables are joined     *)
(* (search_where_clauses; its comment: the range of each column first).     *)
(***************************************************************************)
WhereRight ==
  stage = "select" /\ flag =>
    RowsIn(result) = RowsPicked(Range(From), Answer(Range(From), DOMAIN Clauses))

\* The value a selector stands for in a group of picks.
Selected(sel, F) ==
  LET N == {f \in F : ~ isNull(At(f, sel.col))}
      numbers == {At(f, sel.col).n : f \in N}
      sum == MapThenSumSet(LAMBDA f : At(f, sel.col).n, N)
      type == TypeOfColumn(sel.col)
  IN  CASE sel.type = "CT"  -> IntV(Cardinality(F))
        [] sel.type = "COL" -> At(CHOOSE f \in F : TRUE, sel.col)
        [] sel.agr_type = "COUNT" -> IntV(Cardinality(N))
        [] N = {} -> Null
        [] sel.agr_type = "SUM" -> [type |-> type, n |-> sum]
        [] sel.agr_type = "MAX" -> [type |-> type, n |-> Max(numbers)]
        [] sel.agr_type = "MIN" -> [type |-> type, n |-> Min(numbers)]
        [] sel.agr_type = "AVERAGE" -> Quotient([type |-> type, n |-> sum], Cardinality(N))

\* The picks that make one row of the answer.
Groups(F) ==
  CASE st.group_by # NoGroup -> {{f \in F : At(f, st.group_by) = v} : v \in {At(f, st.group_by) : f \in F}}
    [] \E k \in DOMAIN st.selectors : st.selectors[k].type # "COL" -> {F} \ {{}}
    [] OTHER -> {{f} : f \in F}

(***************************************************************************)
(* What is printed is right: a row for each group with the aggregates of    *)
(* that group side by side, though each column is computed on its own and   *)
(* only merged by position; with LIMIT, that many of the rows.              *)
(***************************************************************************)
AnswerRight ==
  stage = "done" /\ flag =>
    LET F     == Answer(Range(From), DOMAIN Clauses)
        whole == IF st.selectors = << >> THEN RowsPicked(Range(From), F)
                 ELSE BagOf([G \in Groups(F) |->
                               [k \in DOMAIN st.selectors |-> Selected(st.selectors[k], G)]])
        shown == IF st.selectors = << >> THEN RowsIn(result)
                 ELSE BagOf([k \in DOMAIN result.record |-> result.record[k].values])
    IN  /\ shown \sqsubseteq whole
        /\ Len(result.record) = Lesser(st.limit, Greater(BagCardinality(whole) - st.offset, 0))

(***************************************************************************)
(* The loop of search_where_clauses ends: each round places a table, by a   *)
(* clause that drives it or whole, and takes none back.                     *)
(***************************************************************************)
EachRoundPlaces ==
  stage = "join" /\ ~ AllPlaced =>
    LET next == JoinStep(data, From, Clauses, s)
        done == {t \in Range(From) : Placed(s, t)}
        then == {t \in Range(From) : Placed(next, t)}
    IN  done \subseteq then /\ done # then
=============================================================================

-------------------------------- MODULE Query --------------------------------
(***************************************************************************)
(* The queries of QuerySystem (src/qs), over one state of the data: d.rows  *)
(* has the record file of each table, d.entries its indexed columns and the *)
(* (key, RID) pairs of each.  These are operators; Select runs a query as a *)
(* sequence of steps.                                                      *)
(*                                                                         *)
(* A column is <<table, number>>; an aggregate's column has no table.  A    *)
(* record set has its columns, its rows in order, and ok: no QS_error was   *)
(* called on the way.  A clause names tables of FROM and columns they have. *)
(***************************************************************************)
EXTENDS RowCodec, SequencesExt, Functions, TLC

CONSTANTS Fields,        \* the columns of each table
          INDEX_KEY_MAX  \* the key of an index that no row may have

RecordSet(columns, record, ok) == [columns |-> columns, record |-> record, ok |-> ok]
NoRecordSet(ok)                == RecordSet(<< >>, << >>, ok)

is_index_exist(d, column) == column[2] \in DOMAIN d.entries[column[1]]

TypeOfColumn(column) == Fields[column[1]][column[2]].type

ColumnsOf(t) == [c \in DOMAIN Fields[t] |-> <<t, c>>]

Data(d, t, r) ==
  [rid |-> r,
   values |-> from_bytes_to_record(Fields[t], from_record_to_bytes(Fields[t], d.rows[t][r]))]

-----------------------------------------------------------------------------
\* join_Recordset: every row of a with every row of b.
join_Recordset(a, b) ==
  LET n == Len(b.record)
  IN  RecordSet(a.columns \o b.columns,
                [k \in 1 .. Len(a.record) * n |->
                   LET x == a.record[((k - 1) \div n) + 1]
                       y == b.record[((k - 1) % n) + 1]
                   IN  [rid |-> y.rid, values |-> x.values \o y.values]],
                a.ok /\ b.ok)

\* merge_Recordset that forgets the names of the columns of b.
merge_Recordset_NoColumns(a, b) ==
  IF Len(a.record) # Len(b.record)
    THEN [a EXCEPT !.ok = FALSE]
    ELSE RecordSet(a.columns,
                   [k \in DOMAIN a.record |->
                      [rid |-> a.record[k].rid,
                       values |-> a.record[k].values \o b.record[k].values]],
                   a.ok /\ b.ok)

\* merge_Recordset: the columns of b beside those of a, row by row.
merge_Recordset(a, b) ==
  IF Len(a.record) # Len(b.record)
    THEN [a EXCEPT !.ok = FALSE]
    ELSE RecordSet(a.columns \o b.columns,
                   [k \in DOMAIN a.record |->
                      [rid |-> a.record[k].rid,
                       values |-> a.record[k].values \o b.record[k].values]],
                   a.ok /\ b.ok)

HasColumn(input, column) == column \in Range(input.columns)

get_column_value(input, x, column) ==
  IF HasColumn(input, column)
    THEN x.values[Min({i \in DOMAIN input.columns : input.columns[i] = column})]
    ELSE Null

\* compare_Value: NULL compares with nothing.
compare_Value(a, b, op) ==
  /\ ~ isNull(a) /\ ~ isNull(b) /\ a.type = b.type
  /\ CASE op = "EQ"  -> a.n = b.n
       [] op = "LT"  -> a.n < b.n
       [] op = "LE"  -> a.n <= b.n
       [] op = "GT"  -> a.n > b.n
       [] op = "GE"  -> a.n >= b.n
       [] op = "NEQ" -> a.n # b.n

\* compare_Value calls QS_error.
Mistyped(a, b) == ~ isNull(a) /\ ~ isNull(b) /\ a.type # b.type
-----------------------------------------------------------------------------
search_whole_table(d, t) ==
  LET rids == SetToSortSeq(DOMAIN d.rows[t], LAMBDA p, q : p < q)
  IN  RecordSet(ColumnsOf(t), [k \in DOMAIN rids |-> Data(d, t, rids[k])], TRUE)

\* The rows an index finds come in the order of their keys (of one key, in
\* the model, in the order of their RIDs).
search_by_index(d, column, lower_bound, upper_bound) ==
  LET t     == column[1]
      found == {e \in d.entries[t][column[2]] : e[1] \in lower_bound .. upper_bound}
      scan  == SetToSortSeq(found, LAMBDA p, q : p[1] < q[1] \/ (p[1] = q[1] /\ p[2] < q[2]))
  IN  RecordSet(ColumnsOf(t), [k \in DOMAIN scan |-> Data(d, t, scan[k][2])], TRUE)

\* search_by_another_table that looks up the rows without grouping them.
search_by_another_table_FirstOnly(d, input, column1, column2) ==
  LET value(x) == get_column_value(input, x, column1)
      keys     == SetToSortSeq({value(x) : x \in Range(input.record)}, Before)
      joined   == [k \in DOMAIN keys |->
                     join_Recordset([input EXCEPT !.record = SubSeq(SelectSeq(@, LAMBDA x : value(x) = keys[k]), 1, 1)],
                                    search_by_index(d, column2, asInt(keys[k]), asInt(keys[k])))]
  IN  IF keys = << >> THEN NoRecordSet(input.ok)
      ELSE RecordSet(joined[1].columns,
                     FlattenSeq([k \in DOMAIN keys |-> joined[k].record]),
                     input.ok /\ HasColumn(input, column1))

(***************************************************************************)
(* The rows of input joined with the rows of another table whose index has  *)
(* their value of column1: grouped by that value first, NULL as the key     *)
(* zero.  Without rows there are no columns either.                         *)
(***************************************************************************)
search_by_another_table(d, input, column1, column2) ==
  LET value(x) == get_column_value(input, x, column1)
      keys     == SetToSortSeq({value(x) : x \in Range(input.record)}, Before)
      joined   == [k \in DOMAIN keys |->
                     join_Recordset([input EXCEPT !.record = SelectSeq(@, LAMBDA x : value(x) = keys[k])],
                                    search_by_index(d, column2, asInt(keys[k]), asInt(keys[k])))]
  IN  IF keys = << >> THEN NoRecordSet(input.ok)
      ELSE RecordSet(joined[1].columns,
                     FlattenSeq([k \in DOMAIN keys |-> joined[k].record]),
                     input.ok /\ HasColumn(input, column1))
-----------------------------------------------------------------------------
\* A clause is [type, column] with op and expr (a VALUE or a COLUMN), or the
\* record set of a sub-select, the list of an IN, whether IS NULL is asked, or
\* a LIKE pattern: the least length of its strings, and whether it has a %.

\* The value a comparison compares with.
Operand(input, w, x) ==
  CASE w.type = "OP_SELECT"     -> w.select.record[1].values[1]
    [] w.expr.type = "VALUE"    -> w.expr.value
    [] w.expr.type = "COLUMN"   -> get_column_value(input, x, w.expr.column)

Matches(v, like) == v.n = like.least \/ (like.open /\ v.n >= like.least)

\* Row x passes the clause.
Passes(input, w, x) ==
  LET v == get_column_value(input, x, w.column)
  IN  CASE w.type \in {"OP_EXPR", "OP_SELECT"} -> compare_Value(v, Operand(input, w, x), w.op)
        [] w.type = "IS_NULL_OR_NOT_NULL"      -> isNull(v) = w.is_null
        [] w.type = "IN_VALUE_LIST"            -> ~ isNull(v) /\ v \in w.value_list
        [] w.type = "IN_SELECT"                -> ~ isNull(v) /\ \E y \in Range(w.select.record) : y.values[1] = v
        [] w.type = "LIKE_STR"                 -> ~ isNull(v) /\ Matches(v, w.like)

\* The clause cannot be applied at all: the rows are returned as they came.
Refused(w) ==
  CASE w.type = "OP_SELECT" -> Len(w.select.columns) # 1 \/ Len(w.select.record) # 1
    [] w.type = "IN_SELECT" -> Len(w.select.columns) # 1
    [] w.type = "LIKE_STR"  -> TypeOfColumn(w.column) # "STR"
    [] OTHER                -> FALSE

\* A comparison of row x is an error.
Fails(input, w, x) ==
  LET v == get_column_value(input, x, w.column)
  IN  \/ ~ HasColumn(input, w.column)
      \/ /\ w.type \in {"OP_EXPR", "OP_SELECT"} /\ ~ isNull(v)
         /\ \/ Mistyped(v, Operand(input, w, x))
            \/ /\ w.type = "OP_EXPR" /\ w.expr.type = "COLUMN"
               /\ ~ HasColumn(input, w.expr.column)

search_where_clause(input, w) ==
  IF Refused(w)
    THEN [input EXCEPT !.ok = FALSE]
    ELSE RecordSet(input.columns,
                   SelectSeq(input.record, LAMBDA x : Passes(input, w, x)),
                   input.ok /\ \A x \in Range(input.record) : ~ Fails(input, w, x))

AllClauses(input, clauses) == FoldLeft(search_where_clause, input, clauses)
-----------------------------------------------------------------------------
\* search_where_clauses.  First, the range of keys each indexed column has.

ComparesValue(w)  == w.type = "OP_EXPR" /\ w.expr.type = "VALUE"
ComparesColumn(w) == w.type = "OP_EXPR" /\ w.expr.type = "COLUMN"

BoundsKey(d, w) == ComparesValue(w) /\ w.expr.value.type = "INT" /\ is_index_exist(d, w.column)

Greater(a, b) == IF a >= b THEN a ELSE b
Lesser(a, b)  == IF a <= b THEN a ELSE b

\* Narrow with LT that takes the bound itself.
Narrow_KeepsBound(range, w) ==
  LET x == asInt(w.expr.value)
  IN  CASE w.op = "EQ"           -> [lb |-> Greater(range.lb, x), ub |-> Lesser(range.ub, x)]
        [] w.op \in {"LT", "LE"} -> [range EXCEPT !.ub = Lesser(@, x)]
        [] OTHER                 -> range

\* What a clause makes of the range: GT and GE take the greater of the upper
\* bound so far and x for the lower one, NEQ does nothing.
Narrow(range, w) ==
  LET x == asInt(w.expr.value)
  IN  CASE w.op = "EQ"  -> [lb |-> Greater(range.lb, x), ub |-> Lesser(range.ub, x)]
        [] w.op = "LT"  -> [range EXCEPT !.ub = Lesser(@, x - 1)]
        [] w.op = "LE"  -> [range EXCEPT !.ub = Lesser(@, x)]
        [] w.op = "GT"  -> [range EXCEPT !.lb = Greater(range.ub, x + 1)]
        [] w.op = "GE"  -> [range EXCEPT !.lb = Greater(range.ub, x)]
        [] OTHER        -> range

KeyRange(d, clauses, column) ==
  FoldLeft(Narrow, [lb |-> 0, ub |-> INDEX_KEY_MAX - 1],
           SelectSeq(clauses, LAMBDA w : BoundsKey(d, w) /\ w.column = column))

HasRange(d, clauses, column) ==
  /\ \E w \in Range(clauses) : BoundsKey(d, w) /\ w.column = column
  /\ LET range == KeyRange(d, clauses, column) IN range.lb <= range.ub

\* The columns of table t to search by: the last one a clause names is taken.
IndexColumns(d, clauses, t) ==
  SelectSeq([i \in DOMAIN clauses |-> clauses[i].column],
            LAMBDA column : column[1] = t /\ HasRange(d, clauses, column))

\* The clauses the range of the column stands for.
Covered(w, column) == ComparesValue(w) /\ w.column = column

\* The clauses about table t alone.
OwnClause(w, t) == w.column[1] = t /\ (ComparesColumn(w) => w.expr.column[1] = t)

\* The search begins: nothing is found, no clause is solved.
NewSearch(from) == [result_vec |-> << >>, vec_index |-> [t \in Range(from) |-> 0], solved |-> {}]

\* Table t is found by an index, if a range allows it, and the clauses about
\* it are applied.
UseIndex(d, clauses, s, t) ==
  LET columns == IndexColumns(d, clauses, t)
      column  == Last(columns)
      range   == KeyRange(d, clauses, column)
      found   == search_by_index(d, column, range.lb, range.ub)
      own     == SelectSeq(clauses, LAMBDA w : OwnClause(w, t) /\ ~ Covered(w, column))
  IN  IF columns = << >> THEN s
      ELSE [result_vec |-> Append(s.result_vec, AllClauses(found, own)),
            vec_index  |-> [s.vec_index EXCEPT ![t] = Len(s.result_vec) + 1],
            solved     |-> s.solved \cup {i \in DOMAIN clauses :
                                            Covered(clauses[i], column) \/ OwnClause(clauses[i], t)}]

Plan(d, from, clauses) ==
  FoldLeft(LAMBDA s, t : UseIndex(d, clauses, s, t), NewSearch(from), from)

Placed(s, t) == s.vec_index[t] # 0

\* The clauses through which a table that is placed drives one that is not.
Drivers(d, clauses, s) ==
  {i \in DOMAIN clauses \ s.solved :
     LET w == clauses[i]
     IN  /\ ComparesColumn(w)
         /\ w.column[1] # w.expr.column[1]
         /\ Placed(s, w.column[1]) # Placed(s, w.expr.column[1])
         /\ is_index_exist(d, IF Placed(s, w.column[1]) THEN w.expr.column ELSE w.column)}

\* One round of the loop: the first clause that drives a table, or else the
\* first table that is left, whole.
Drive(d, clauses, s, i) ==
  LET w       == clauses[i]
      forward == Placed(s, w.column[1])
      column1 == IF forward THEN w.column ELSE w.expr.column
      column2 == IF forward THEN w.expr.column ELSE w.column
      loc     == s.vec_index[column1[1]]
  IN  [result_vec |-> [s.result_vec EXCEPT ![loc] = search_by_another_table(d, @, column1, column2)],
       vec_index  |-> [s.vec_index EXCEPT ![column2[1]] = loc],
       solved     |-> s.solved \cup {i}]

TakeWhole(d, s, t) ==
  [s EXCEPT !.result_vec = Append(@, search_whole_table(d, t)),
            !.vec_index[t] = Len(s.result_vec) + 1]

\* JoinStep that waits for a clause to drive the tables that are left.
JoinStep_OnlyDriven(d, from, clauses, s) ==
  LET drivers == Drivers(d, clauses, s)
  IN  IF drivers # {} THEN Drive(d, clauses, s, Min(drivers)) ELSE s

JoinStep(d, from, clauses, s) ==
  LET drivers == Drivers(d, clauses, s)
      left    == SelectSeq(from, LAMBDA t : ~ Placed(s, t))
  IN  IF drivers # {} THEN Drive(d, clauses, s, Min(drivers))
      ELSE IF left # << >> THEN TakeWhole(d, s, left[1])
      ELSE s

OneEmptyRow == RecordSet(<< >>, << [rid |-> 0, values |-> << >>] >>, TRUE)

\* Combine that forgets the clauses no table or join has solved.
Combine_AllSolved(clauses, s) == FoldLeft(join_Recordset, OneEmptyRow, s.result_vec)

\* What was found is multiplied, the clauses that are left are applied.
Combine(clauses, s) ==
  LET left == SelectSeq([i \in DOMAIN clauses |-> i], LAMBDA i : i \notin s.solved)
  IN  AllClauses(FoldLeft(join_Recordset, OneEmptyRow, s.result_vec),
                 [k \in DOMAIN left |-> clauses[left[k]]])

TablesExist(d, from) == Range(from) \subseteq DOMAIN d.rows

\* Each round places a table, so there are as many rounds as tables at most.
search_where_clauses(d, from, clauses) ==
  IF TablesExist(d, from)
    THEN Combine(clauses, FoldLeft(LAMBDA s, t : JoinStep(d, from, clauses, s), Plan(d, from, clauses), from))
    ELSE NoRecordSet(FALSE)
-----------------------------------------------------------------------------
\* A selector is [type, col, agr_type]; group_by is a column or NoGroup.

NoGroup == << >>

\* Rows that are not grouped are one group; without rows there is no group.
GroupOf(input, group_by, x) ==
  IF group_by = NoGroup THEN Null ELSE get_column_value(input, x, group_by)

\* The rows of each group, in the order of the std::map with the groups as keys.
GroupsOf(input, group_by) ==
  LET keys == SetToSortSeq({GroupOf(input, group_by, x) : x \in Range(input.record)}, Before)
  IN  [k \in DOMAIN keys |-> SelectSeq(input.record, LAMBDA x : GroupOf(input, group_by, x) = keys[k])]

Quotient(v, count) ==
  [type |-> "FLOAT",
   n |-> (IF v.type = "INT" THEN v.n * FLOAT_UNIT ELSE v.n) \div count]

\* The aggregate of a group, over the values that are not NULL.
Aggregate(agr, values) ==
  CASE agr = "COUNT"  -> IntV(Len(values))
    [] values = << >> -> Null
    [] agr = "SUM"    -> FoldLeft(Plus, Null, values)
    [] agr = "AVERAGE" -> Quotient(FoldLeft(Plus, Null, values), Len(values))
    [] agr = "MAX"    -> CHOOSE v \in Range(values) : \A u \in Range(values) : ~ Before(v, u)
    [] agr = "MIN"    -> CHOOSE v \in Range(values) : \A u \in Range(values) : ~ Before(u, v)

\* NotNull that lets NULLs pass.
NotNull_All(values) == values

NotNull(values) == SelectSeq(values, LAMBDA v : ~ isNull(v))

\* A column of one value for each group, in the order of the groups.
PerGroup(column, values, ok) ==
  RecordSet(<<column>>, [k \in DOMAIN values |-> [rid |-> 0, values |-> <<values[k]>>]], ok)

ValuesOf(input, record, column) ==
  [k \in DOMAIN record |-> get_column_value(input, record[k], column)]

\* The selector is an error: the rows are returned as they came.
SelectorRefused(input, sel, group_by) ==
  \/ sel.type \in {"COL", "AGR_COL"} /\ ~ HasColumn(input, sel.col)
  \/ sel.type = "COL" /\ group_by # NoGroup /\ sel.col # group_by
  \/ sel.type = "AGR_COL" /\ TypeOfColumn(sel.col) = "STR" /\ sel.agr_type # "COUNT"
  \/ sel.type = "AGR_COL" /\ group_by # NoGroup /\ input.record # << >> /\ ~ HasColumn(input, group_by)

search_selector(input, sel, group_by) ==
  LET unknown == group_by # NoGroup /\ input.record # << >> /\ ~ HasColumn(input, group_by)
      groups  == GroupsOf(input, group_by)
  IN  CASE SelectorRefused(input, sel, group_by) -> [input EXCEPT !.ok = FALSE]
        [] sel.type = "COL" /\ group_by = NoGroup ->
             RecordSet(<<sel.col>>,
                       [k \in DOMAIN input.record |->
                          [rid |-> input.record[k].rid,
                           values |-> <<get_column_value(input, input.record[k], sel.col)>>]],
                       input.ok)
        [] sel.type = "COL" ->
             PerGroup(sel.col, [k \in DOMAIN groups |-> GroupOf(input, group_by, groups[k][1])], input.ok)
        [] sel.type = "AGR_COL" ->
             PerGroup(<<sel.agr_type, sel.col>>,
                      [k \in DOMAIN groups |-> Aggregate(sel.agr_type, NotNull(ValuesOf(input, groups[k], sel.col)))],
                      input.ok)
        [] sel.type = "CT" ->
             PerGroup(<<"Count(*)">>, [k \in DOMAIN groups |-> IntV(Len(groups[k]))], input.ok /\ ~ unknown)

search_selectors(input, selectors, group_by) ==
  IF selectors = << >> THEN input
  ELSE FoldLeft(LAMBDA result, sel : merge_Recordset(result, search_selector(input, sel, group_by)),
                search_selector(input, selectors[1], group_by), Tail(selectors))

search_limit_offset(input, limit, offset) ==
  [input EXCEPT !.record = SubSeq(@, offset + 1, Lesser(offset + limit, Len(@)))]

\* search: no table is named twice in FROM.
search(d, st) ==
  IF IsInjective(st.table_names)
    THEN search_limit_offset(
           search_selectors(search_where_clauses(d, st.table_names, st.where_clauses),
                            st.selectors, st.group_by),
           st.limit, st.offset)
    ELSE NoRecordSet(FALSE)
=============================================================================

------------------------------- MODULE Visitor -------------------------------
(***************************************************************************)
(* MyVisitor: which function of ManageSystem or QuerySystem is called for   *)
(* a context of the parse tree, and with what.  A context is its place in   *)
(* parser.exits, a word its place in the token stream.  What a visit        *)
(* function reads from the text of its tokens is the sequence of those      *)
(* words, each with the part it plays in the call.                          *)
(***************************************************************************)
EXTENDS SqlParser

Node(k) == parser.exits[k]

\* The contexts a context has as children: those that returned before it, one
\* call further down.
Children(k) == {j \in 1 .. k - 1 : Node(j).from >= Node(k).from /\ Node(j).depth = Node(k).depth + 1}

getRuleContexts(k, rule) ==
  SelectSeq([j \in 1 .. k - 1 |-> j], LAMBDA j : j \in Children(k) /\ Node(j).rule = rule)

getTokens(k, types) ==
  SelectSeq([i \in DOMAIN tokens |-> i],
            LAMBDA i : /\ i \in Node(k).from .. Node(k).to - 1
                       /\ tokens[i] \in types
                       /\ \A j \in Children(k) : i \notin Node(j).from .. Node(j).to - 1)

Identifiers(k) == getTokens(k, {"Identifier"})

\* Words, each with its part.
As(part, words)   == [n \in DOMAIN words |-> <<part, words[n]>>]
InTurn(parts, words) == [n \in DOMAIN words |-> <<parts[n], words[n]>>]

\* What the contexts of this rule among the children of k come to.
Each(k, rule, visit(_)) ==
  FoldLeft(LAMBDA words, j : words \o visit(j), << >>, getRuleContexts(k, rule))
-----------------------------------------------------------------------------
gen_Value(k)       == As("value", <<Node(k).from>>)
visitValue_list(k) == Each(k, "value", gen_Value)
visitColumn(k)     == InTurn(<<"table of column", "column">>, Identifiers(k))
visitOperator_(k)  == As("operator", <<Node(k).from>>)

visitExpression(k) == Each(k, "value", gen_Value) \o Each(k, "column", visitColumn)

\* Whether the child behind the column and IS is NOT tells IS NOT NULL from IS NULL.
null_or_not_null(k) ==
  As(IF tokens[Node(getRuleContexts(k, "column")[1]).to + 1] = "NOT" THEN "not null" ELSE "null",
     getTokens(k, {"NULL"}))

\* A clause with a SELECT in it has the rows of its search.
visitWhere_clause(k) ==
  Each(k, "column", visitColumn) \o Each(k, "operator_", visitOperator_)
    \o Each(k, "expression", visitExpression) \o Each(k, "value_list", visitValue_list)
    \o null_or_not_null(k) \o As("value", getTokens(k, {"String"}))

visitWhere_and_clause(k) == Each(k, "where_clause", visitWhere_clause)

visitAggregator(k) == As("aggregator", <<Node(k).from>>)

visitSelector(k) ==
  IF getTokens(k, {"COUNT"}) # << >> THEN As("count", getTokens(k, {"COUNT"}))
  ELSE Each(k, "aggregator", visitAggregator) \o Each(k, "column", visitColumn)

visitSelectors(k) == Each(k, "selector", visitSelector)

table_names(k) == As("table", Identifiers(k))

visitSelect_table(k) ==
  Each(k, "identifiers", table_names) \o Each(k, "selectors", visitSelectors)
    \o Each(k, "where_and_clause", visitWhere_and_clause) \o Each(k, "column", visitColumn)
    \o InTurn(<<"limit", "offset">>, getTokens(k, {"Integer"}))
-----------------------------------------------------------------------------
str_len(k) == As("length", getTokens(k, {"Integer"}))
default(k) == As("default", <<Node(k).from>>)

visitNormal_field(k) ==
  As("field", Identifiers(k)) \o Each(k, "type_", str_len) \o Each(k, "value", default)
    \o As("not null", getTokens(k, {"NULL"}))

\* A default of another type is looked for where there is none: getText of a
\* null pointer.
NoDefault(k) ==
  /\ Node(k).rule = "field" /\ Node(k).alt = 1
  /\ LET type == tokens[Node(getRuleContexts(k, "type_")[1]).from]
         mine == CASE type = "INT" -> "Integer" [] type = "VARCHAR" -> "String" [] OTHER -> "Float"
     IN  \E v \in Range(getRuleContexts(k, "value")) : tokens[Node(v).from] # mine

\* The names in the k-th pair of brackets.
Listed(k) ==
  LET lists == getRuleContexts(k, "identifiers")
  IN  FoldLeft(LAMBDA words, n : words \o As(<<"column name", "foreign column">>[n], Identifiers(lists[n])),
               << >>, [n \in DOMAIN lists |-> n])

visitPrimary_key_field(k) == As("constraint", Identifiers(k)) \o Listed(k)

\* visitForeign_key_field that takes the first name for the other table's.
visitForeign_key_field_First(k) ==
  As("foreign table", <<Identifiers(k)[1]>>) \o As("constraint", Tail(Identifiers(k))) \o Listed(k)

\* The name of the key may be missing: the other table's name is then the first.
visitForeign_key_field(k) ==
  InTurn(IF Len(Identifiers(k)) = 1 THEN <<"foreign table">> ELSE <<"constraint", "foreign table">>,
         Identifiers(k)) \o Listed(k)

visitField(k) ==
  CASE Node(k).alt = 1 -> visitNormal_field(k)
    [] Node(k).alt = 2 -> visitPrimary_key_field(k)
    [] Node(k).alt = 3 -> visitForeign_key_field(k)

field_(k) == Each(k, "field", visitField)

visitSet_clause(k) == As("set column", Identifiers(k)) \o Each(k, "value", gen_Value)

\* The statements about tables; each row of an INSERT is a call.
visitTable_statement(k) ==
  As("table", Identifiers(k)) \o Each(k, "field_list", field_) \o Each(k, "set_clause", visitSet_clause)
    \o Each(k, "where_and_clause", visitWhere_and_clause) \o Each(k, "select_table", visitSelect_table)

visitAlter_statement(k) ==
  InTurn(<<"table", "constraint", "foreign table">>, Identifiers(k)) \o Listed(k)

visitDb_statement(k) == As("database", Identifiers(k))
-----------------------------------------------------------------------------
\* No visit function is there for LOAD and DUMP.
NoCall == "none"

DbCalls    == <<"create_db", "drop_db", "show_dbs", "use_db", "show_tables", "show_indexes">>
TableCalls == <<"create_table", "drop_table", "describe_table", "insert_record",
                "delete_record", "update_record", "search_entry">>
AlterCalls == <<"create_index", "drop_index", "drop_primary_key", "drop_foreign_key",
                "add_primary_key", "add_foreign_key", "add_unique">>
WhereCalls == <<NoCall, "search", NoCall, NoCall, "search", NoCall>>

CallOf(k) ==
  LET node == Node(k)
  IN  CASE node.rule = "db_statement"    -> DbCalls[node.alt]
        [] node.rule = "table_statement" -> TableCalls[node.alt]
        [] node.rule = "alter_statement" -> AlterCalls[node.alt]
        [] node.rule = "where_clause"    -> WhereCalls[node.alt]
        [] OTHER                         -> NoCall

visitInsert_into_table(k) ==
  LET lists == getRuleContexts(getRuleContexts(k, "value_lists")[1], "value_list")
  IN  [n \in DOMAIN lists |-> visitTable_statement(k) \o visitValue_list(lists[n])]

\* The context a call is about: a search is about the SELECT in its clause.
Said(k) == IF CallOf(k) = "search" THEN Node(getRuleContexts(k, "select_table")[1]) ELSE Node(k)

\* The calls of a visit function, each as the words it is given.
CallsOf(k) ==
  CASE CallOf(k) = NoCall               -> << >>
    [] CallOf(k) = "insert_record"      -> visitInsert_into_table(k)
    [] CallOf(k) = "search"             -> <<Each(k, "select_table", visitSelect_table)>>
    [] Node(k).rule = "db_statement"    -> <<visitDb_statement(k)>>
    [] Node(k).rule = "table_statement" -> <<visitTable_statement(k)>>
    [] Node(k).rule = "alter_statement" -> <<visitAlter_statement(k)>>
=============================================================================

------------------------------ MODULE SqlGrammar ------------------------------
(***************************************************************************)
(* The rules of SQL.g4 as the functions of the generated parser walk them   *)
(* (src/generated/SQLParser.cpp): a rule is a sequence of elements, and     *)
(* what is left of it is the state of the ATN the parser is in.             *)
(***************************************************************************)
EXTENDS Naturals, Sequences, Functions

Element(kind, of, bodies) == [kind |-> kind, of |-> of, bodies |-> bodies]

OneOf(types)  == Element("match", types, << >>)      \* match, or a set of token types
T(type)       == OneOf({type})
R(rule)       == Element("rule", {rule}, << >>)      \* a call of another rule's function
Opt(body)     == Element("opt", {}, <<body>>)        \* if (_la == ...)
Star(body)    == Element("star", {}, <<body>>)       \* STAR_LOOP_ENTRY
Back(body)    == Element("back", {}, <<body>>)       \* STAR_LOOP_BACK: the same loop, once round
Alt(bodies)   == Element("alt", {}, bodies)          \* switch

CommaList(body) == body \o <<Star(<<T(",")>> \o body)>>
InBrackets(body) == <<T("(")>> \o body \o <<T(")")>>
Id == <<T("Identifier")>>
-----------------------------------------------------------------------------
program == <<Star(<<R("statement")>>), T("EOF")>>

statement ==
  <<Alt(<< <<R("db_statement"), T(";")>>,
           <<R("io_statement"), T(";")>>,
           <<R("table_statement"), T(";")>>,
           <<R("alter_statement"), T(";")>>,
           <<T("Annotation"), T(";")>>,
           <<T("NULL"), T(";")>> >>)>>

db_statement ==
  <<Alt(<< <<T("CREATE"), T("DATABASE")>> \o Id,
           <<T("DROP"), T("DATABASE")>> \o Id,
           <<T("SHOW"), T("DATABASES")>>,
           <<T("USE")>> \o Id,
           <<T("SHOW"), T("TABLES")>>,
           <<T("SHOW"), T("INDEXES")>> >>)>>

io_statement ==
  <<Alt(<< <<T("LOAD"), T("FROM"), T("FILE"), T("String"), T("TO"), T("TABLE")>> \o Id,
           <<T("DUMP"), T("TO"), T("FILE"), T("String"), T("FROM"), T("TABLE")>> \o Id >>)>>

table_statement ==
  <<Alt(<< <<T("CREATE"), T("TABLE")>> \o Id \o InBrackets(<<R("field_list")>>),
           <<T("DROP"), T("TABLE")>> \o Id,
           <<T("DESC")>> \o Id,
           <<T("INSERT"), T("INTO")>> \o Id \o <<T("VALUES"), R("value_lists")>>,
           <<T("DELETE"), T("FROM")>> \o Id \o <<T("WHERE"), R("where_and_clause")>>,
           <<T("UPDATE")>> \o Id \o <<T("SET"), R("set_clause"), T("WHERE"), R("where_and_clause")>>,
           <<R("select_table")>> >>)>>

select_table ==
  <<T("SELECT"), R("selectors"), T("FROM"), R("identifiers"),
    Opt(<<T("WHERE"), R("where_and_clause")>>),
    Opt(<<T("GROUP"), T("BY"), R("column")>>),
    Opt(<<T("LIMIT"), T("Integer"), Opt(<<T("OFFSET"), T("Integer")>>)>>)>>

alter_statement ==
  LET table       == <<T("ALTER"), T("TABLE")>> \o Id
      columns     == InBrackets(<<R("identifiers")>>)
      primary_key == <<T("PRIMARY"), T("KEY")>>
      foreign_key == <<T("FOREIGN"), T("KEY")>>
      constraint  == <<T("ADD"), T("CONSTRAINT")>> \o Id
  IN  <<Alt(<< table \o <<T("ADD"), T("INDEX")>> \o columns,
               table \o <<T("DROP"), T("INDEX")>> \o columns,
               table \o <<T("DROP")>> \o primary_key \o <<Opt(Id)>>,
               table \o <<T("DROP")>> \o foreign_key \o Id,
               table \o constraint \o primary_key \o columns,
               table \o constraint \o foreign_key \o columns \o <<T("REFERENCES")>> \o Id \o columns,
               table \o <<T("ADD"), T("UNIQUE")>> \o columns >>)>>

field_list == CommaList(<<R("field")>>)

field ==
  LET columns == InBrackets(<<R("identifiers")>>)
  IN  <<Alt(<< Id \o <<R("type_"), Opt(<<T("NOT"), T("NULL")>>), Opt(<<T("DEFAULT"), R("value")>>)>>,
               <<T("PRIMARY"), T("KEY"), Opt(Id)>> \o columns,
               <<T("FOREIGN"), T("KEY"), Opt(Id)>> \o columns \o <<T("REFERENCES")>> \o Id \o columns >>)>>

type_ == <<Alt(<< <<T("INT")>>, <<T("VARCHAR")>> \o InBrackets(<<T("Integer")>>), <<T("FLOAT")>> >>)>>

value_lists == CommaList(<<R("value_list")>>)

value_list == InBrackets(CommaList(<<R("value")>>))

value == <<OneOf({"Integer", "String", "Float", "NULL"})>>

where_and_clause == <<R("where_clause"), Star(<<T("AND"), R("where_clause")>>)>>

where_clause ==
  <<Alt(<< <<R("column"), R("operator_"), R("expression")>>,
           <<R("column"), R("operator_")>> \o InBrackets(<<R("select_table")>>),
           <<R("column"), T("IS"), Opt(<<T("NOT")>>), T("NULL")>>,
           <<R("column"), T("IN"), R("value_list")>>,
           <<R("column"), T("IN")>> \o InBrackets(<<R("select_table")>>),
           <<R("column"), T("LIKE"), T("String")>> >>)>>

column == Id \o <<T(".")>> \o Id

expression == <<Alt(<< <<R("value")>>, <<R("column")>> >>)>>

set_clause == CommaList(Id \o <<T("="), R("value")>>)

selectors == <<Alt(<< <<T("*")>>, CommaList(<<R("selector")>>) >>)>>

selector ==
  <<Alt(<< <<R("column")>>,
           <<R("aggregator")>> \o InBrackets(<<R("column")>>),
           <<T("COUNT")>> \o InBrackets(<<T("*")>>) >>)>>

identifiers == CommaList(Id)

operator_ == <<OneOf({"=", "<", "<=", ">", ">=", "<>"})>>

aggregator == <<OneOf({"COUNT", "AVG", "MAX", "MIN", "SUM"})>>

Rules ==
  [program |-> program, statement |-> statement, db_statement |-> db_statement,
   io_statement |-> io_statement, table_statement |-> table_statement,
   select_table |-> select_table, alter_statement |-> alter_statement,
   field_list |-> field_list, field |-> field, type_ |-> type_,
   value_lists |-> value_lists, value_list |-> value_list, value |-> value,
   where_and_clause |-> where_and_clause, where_clause |-> where_clause,
   column |-> column, expression |-> expression, set_clause |-> set_clause,
   selectors |-> selectors, selector |-> selector, identifiers |-> identifiers,
   operator_ |-> operator_, aggregator |-> aggregator]

RuleOf(element) == Rules[CHOOSE r \in element.of : TRUE]
-----------------------------------------------------------------------------
Epsilon == "<EPSILON>"

\* An optional block or a loop may be passed over; no rule that is called is empty.
Skipped(element) == element.kind \in {"opt", "star", "back"}

\* The elements of rest one of which comes next.
Nearest(rest) == {k \in DOMAIN rest : \A j \in 1 .. k - 1 : Skipped(rest[j])}

\* LL1Analyzer::LOOK within one rule: the types that may come next, Epsilon
\* if the rule may end here.
RECURSIVE LOOK(_)
LOOK(rest) ==
  UNION {CASE rest[k].kind = "match" -> rest[k].of
           [] rest[k].kind = "rule"  -> LOOK(RuleOf(rest[k]))
           [] OTHER                  -> UNION {LOOK(body) : body \in Range(rest[k].bodies)} : k \in Nearest(rest)}
  \cup (IF \A k \in DOMAIN rest : Skipped(rest[k]) THEN {Epsilon} ELSE {})

\* What may be left of rest once a token of this type is read: the closure of
\* a configuration, then where it moves on the token.
RECURSIVE AfterToken(_, _)
AfterToken(rest, type) ==
  UNION {LET e      == rest[k]
             bodies == IF e.kind = "rule" THEN {RuleOf(e)} ELSE Range(e.bodies)
             again  == IF e.kind \in {"star", "back"} THEN <<Back(e.bodies[1])>> ELSE << >>
             within == IF e.kind = "match" THEN {<< >> : t \in e.of \cap {type}}
                       ELSE UNION {AfterToken(body, type) : body \in bodies}
         IN  {left \o again \o SubSeq(rest, k + 1, Len(rest)) : left \in within} : k \in Nearest(rest)}
=============================================================================

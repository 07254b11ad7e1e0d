------------------------------ MODULE MCConsole ------------------------------
(***************************************************************************)
(* Instances of Console for TLC: statements of every rule, whole and with   *)
(* one piece lost, put in or replaced, and a statement behind them.         *)
(***************************************************************************)
EXTENDS Console

I == <<"Identifier">>
C == <<"Identifier", ".", "Identifier">>
Columns == <<"(", "Identifier", ",", "Identifier", ")">>
One == <<"(", "Identifier", ")">>
\* Strings with a semicolon in them, and with what begins a comment elsewhere.
Plain == <<Quote, "Identifier", ";", "NL", "@", Quote>>
Str == <<Quote, "Identifier", ";", "NL", "-", "-", Quote>>
Select == <<"SELECT", "*", "FROM", "Identifier">>
Alter == <<"ALTER", "TABLE", "Identifier">>

Statements == {
  <<"CREATE", "DATABASE">> \o I, <<"DROP", "DATABASE">> \o I, <<"SHOW", "DATABASES">>,
  <<"USE">> \o I, <<"SHOW", "TABLES">>, <<"SHOW", "INDEXES">>, <<"NULL">>,
  <<"LOAD", "FROM", "FILE">> \o Plain \o <<"TO", "TABLE">> \o I,
  <<"DUMP", "TO", "FILE">> \o Str \o <<"FROM", "TABLE">> \o I,
  <<"CREATE", "TABLE">> \o I \o <<"(", "Identifier", "INT", "NOT", "NULL", "DEFAULT", "Integer", ",",
    "Identifier", "VARCHAR", "(", "Integer", ")", ",", "PRIMARY", "KEY">> \o One \o <<",",
    "FOREIGN", "KEY", "Identifier">> \o One \o <<"REFERENCES", "Identifier">> \o One \o <<")">>,
  <<"DROP", "TABLE">> \o I, <<"DESC">> \o I,
  <<"INSERT", "INTO">> \o I \o <<"VALUES", "(", "Integer", ",">> \o Plain \o <<")", ",", "(", "Float", ")">>,
  <<"DELETE", "FROM">> \o I \o <<"WHERE">> \o C \o <<"IS", "NOT", "NULL">>,
  <<"UPDATE">> \o I \o <<"SET", "Identifier", "=", "Integer", ",", "Identifier", "=", "NULL", "WHERE">>
    \o C \o <<"LIKE">> \o Str \o <<"AND">> \o C \o <<"IN", "(", "Integer", ")">>,
  <<"SELECT">> \o C \o <<",", "COUNT", "(">> \o C \o <<")", ",", "COUNT", "(", "*", ")", "FROM", "Identifier", ",",
    "Identifier", "WHERE">> \o C \o <<"<=">> \o C \o <<"GROUP", "BY">> \o C
    \o <<"LIMIT", "Integer", "OFFSET", "Integer">>,
  Select \o <<"WHERE">> \o C \o <<"IN", "(">> \o Select \o <<"WHERE">> \o C \o <<"=", "(">> \o Select
    \o <<")", ")", "AND">> \o C \o <<">", "Float",
    "LIMIT", "Integer">>,
  Alter \o <<"ADD", "INDEX">> \o Columns, Alter \o <<"DROP", "INDEX">> \o Columns,
  Alter \o <<"DROP", "PRIMARY", "KEY">>, Alter \o <<"DROP", "FOREIGN", "KEY", "Identifier">>,
  Alter \o <<"ADD", "CONSTRAINT", "Identifier", "PRIMARY", "KEY">> \o One,
  Alter \o <<"ADD", "CONSTRAINT", "Identifier", "FOREIGN", "KEY">> \o One \o <<"REFERENCES", "Identifier">> \o One,
  Alter \o <<"ADD", "UNIQUE">> \o One }

Behind == <<"NL", "USE", "Identifier", ";", "EXIT", ";">>

\* Pieces a slip of the hand puts into a statement, and those it writes for another.
Slips == {";", ",", "(", "NULL", "CREATE", "Identifier", Quote, "@"}
Others == {"NULL", "CREATE", "Identifier"}

Edits(s) ==
  {s} \cup {RemoveAt(s, i) : i \in DOMAIN s}
      \cup {InsertAt(s, i, x) : i \in DOMAIN s, x \in Slips}
      \cup {ReplaceAt(s, i, x) : i \in DOMAIN s, x \in Others}

Typed == UNION {{e \o Behind : e \in Edits(s \o <<";">>)} : s \in Statements}
=============================================================================

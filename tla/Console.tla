------------------------------- MODULE Console -------------------------------
(***************************************************************************)
(* The front end: Application::run reads a statement up to its semicolon,   *)
(* tokens are made of it, the parser runs, and if it counted no error the   *)
(* visitor calls ManageSystem and QuerySystem.                              *)
(*                                                                         *)
(* The input is a sequence of pieces: a word (a keyword or "Identifier"), a *)
(* number ("Integer", "Float" with its sign), an operator, or a character   *)
(* the reader or the lexer looks at: quote, semicolon, minus, bracket,      *)
(* comma, dot, star, "NL" for white space, "@" for one that begins no       *)
(* token.  No dot is behind an integer, and behind a minus, with the minus  *)
(* or the digits that follow it, is such a character, unless it is a        *)
(* comment's.  An identifier that begins like a comment has white space     *)
(* before it.                                                              *)
(***************************************************************************)
EXTENDS Visitor

CONSTANT Scripts   \* the inputs

VARIABLES script,  \* what std::cin has
          at,      \* the piece that is read next
          stmt,    \* the string read_stmt has so far
          in_str,
          phase,   \* where Application::run is
          nodes,   \* the contexts whose visit has still to return
          number,  \* the statements that were read
          calls    \* history: the calls of the visitor

vars == <<parserVars, script, at, stmt, in_str, phase, nodes, number, calls>>

Quote == "'"

Init ==
  /\ script \in Scripts
  /\ at = 1 /\ stmt = << >> /\ in_str = FALSE
  /\ phase = "read"
  /\ tokens = <<"EOF">> /\ parser = NewParser
  /\ nodes = << >> /\ number = 0 /\ calls = << >>
-----------------------------------------------------------------------------
\* NextPiece that takes no notice of quotes.
NextPiece_NoQuotes ==
  LET ch == script[at]
      s  == IF stmt = << >> /\ ch = "NL" THEN stmt ELSE Append(stmt, ch)
  IN  /\ at <= Len(script)
      /\ at' = at + 1
      /\ stmt' = s
      /\ in_str' = FALSE
      /\ phase' = IF ch # ";" THEN "read" ELSE IF s = <<"EXIT", ";">> THEN "bye" ELSE "lex"

\* NextPiece that takes every quote for the beginning of a string.
NextPiece_NeverCloses ==
  LET ch  == script[at]
      s   == IF stmt = << >> /\ ch = "NL" THEN stmt ELSE Append(stmt, ch)
      str == in_str \/ ch = Quote
  IN  /\ at <= Len(script)
      /\ at' = at + 1
      /\ stmt' = s
      /\ in_str' = str
      /\ phase' = IF str \/ ch # ";" THEN "read" ELSE IF s = <<"EXIT", ";">> THEN "bye" ELSE "lex"

\* read_stmt takes a character: white space is dropped before the statement, a
\* semicolon ends it unless the quotes before it are odd in number.
NextPiece ==
  LET ch  == script[at]
      s   == IF stmt = << >> /\ ch = "NL" THEN stmt ELSE Append(stmt, ch)
      str == in_str # (ch = Quote)
  IN  /\ at <= Len(script)
      /\ at' = at + 1
      /\ stmt' = s
      /\ in_str' = str
      /\ phase' = IF str \/ ch # ";" THEN "read" ELSE IF s = <<"EXIT", ";">> THEN "bye" ELSE "lex"

ReadPiece ==
  /\ phase = "read"
  /\ NextPiece
  /\ number' = number + (IF phase' = "lex" THEN 1 ELSE 0)
  /\ UNCHANGED <<tokens, parser, script, nodes, calls>>

\* The end of the input is read as EXIT; whatever was read before it is dropped.
EndOfInput ==
  /\ phase = "read" /\ at > Len(script)
  /\ phase' = "bye"
  /\ UNCHANGED <<parserVars, script, at, stmt, in_str, nodes, number, calls>>

From(s, k) == SubSeq(s, k, Len(s))

\* The types of the tokens: the longest match each time.  Where no token
\* begins, what was read in vain is dropped with the character it failed at.
RECURSIVE Lexed(_)
Lexed(s) ==
  IF s = << >> THEN << >>
  ELSE LET c     == Head(s)
           rest  == Tail(s)
           close == SelectInSeq(rest, LAMBDA x : x = Quote)
           semi  == SelectInSeq(s, LAMBDA x : x = ";")
       IN  CASE c \in {"NL", "@"} -> Lexed(rest)
             [] c = Quote -> IF close = 0 THEN << >> ELSE <<"String">> \o Lexed(From(rest, close + 1))
             [] c = "-" /\ Len(s) > 2 /\ s[2] = "-" /\ s[3] # ";" ->
                  <<"Annotation">> \o (IF semi = 0 THEN << >> ELSE Lexed(From(s, semi)))
             [] c = "-" -> Lexed(From(s, IF Head(rest) \in {"-", "Integer"} THEN 4 ELSE 3))
             [] OTHER   -> <<IF c = "EXIT" THEN "Identifier" ELSE c>> \o Lexed(rest)

\* Application::parse begins, with a lexer and a parser of its own.
BeginParse ==
  /\ phase = "lex"
  /\ phase' = "parse"
  /\ tokens' = Append(Lexed(stmt), "EOF")
  /\ parser' = NewParser
  /\ UNCHANGED <<script, at, stmt, in_str, nodes, number, calls>>

Parse ==
  /\ phase = "parse"
  /\ ParserStep
  /\ UNCHANGED <<script, at, stmt, in_str, phase, nodes, number, calls>>

\* EndParse that visits the tree whatever the parser says of it.
EndParse_Anyway ==
  /\ phase = "parse" /\ parser.stack = << >>
  /\ nodes' = [k \in DOMAIN parser.exits |-> k]
  /\ phase' = "visit"
  /\ UNCHANGED <<parserVars, script, at, stmt, in_str, number, calls>>

\* "Syntax error. Please check.", or iVisitor.visit(iTree).
EndParse ==
  /\ phase = "parse" /\ parser.stack = << >>
  /\ IF parser.syntaxErrors > 0
       THEN phase' = "read" /\ stmt' = << >> /\ nodes' = nodes
       ELSE phase' = "visit" /\ nodes' = [k \in DOMAIN parser.exits |-> k] /\ UNCHANGED stmt
  /\ UNCHANGED <<parserVars, script, at, in_str, number, calls>>
-----------------------------------------------------------------------------
Called(k) ==
  LET words == CallsOf(k)
  IN  [n \in DOMAIN words |-> [call |-> CallOf(k), number |-> number, words |-> words[n],
                               from |-> Said(k).from, to |-> Said(k).to]]

\* The visit that begins with the contexts that are left last.
VisitNode_OuterFirst ==
  /\ phase = "visit" /\ nodes # << >> /\ ~ NoDefault(Last(nodes))
  /\ calls' = calls \o Called(Last(nodes))
  /\ nodes' = Front(nodes)
  /\ UNCHANGED <<parserVars, script, at, stmt, in_str, phase, number>>

\* A visit function returns: it visits its children, then makes its call.
VisitNode ==
  /\ phase = "visit" /\ nodes # << >> /\ ~ NoDefault(Head(nodes))
  /\ calls' = calls \o Called(Head(nodes))
  /\ nodes' = Tail(nodes)
  /\ UNCHANGED <<parserVars, script, at, stmt, in_str, phase, number>>

\* The process ends at a default that is not of its column's type.
VisitFails ==
  /\ phase = "visit" /\ nodes # << >> /\ NoDefault(Head(nodes))
  /\ phase' = "crash"
  /\ UNCHANGED <<parserVars, script, at, stmt, in_str, nodes, number, calls>>

EndVisit ==
  /\ phase = "visit" /\ nodes = << >>
  /\ phase' = "read"
  /\ stmt' = << >>
  /\ UNCHANGED <<parserVars, script, at, in_str, nodes, number, calls>>

\* The process is over.
Over == phase \in {"bye", "crash"} /\ UNCHANGED vars

Next == \/ ReadPiece \/ EndOfInput \/ BeginParse \/ Parse \/ EndParse \/ VisitNode \/ VisitFails
        \/ EndVisit \/ Over

\* The process runs and its input is there, so that it goes on until it is
\* over.  This is WF_vars(Next) as far as a step is possible before that.
Fairness == <>(phase \in {"bye", "crash"}) \/ []<><<Next>>_vars

Spec == Init /\ [][Next]_vars /\ Fairness
-----------------------------------------------------------------------------
\* Every variable has its type; the parser is at a token of the stream, in
\* rules that call each other.
TypeOK ==
  /\ at \in 1 .. Len(script) + 1
  /\ stmt \in Seq(Range(script)) /\ in_str \in BOOLEAN
  /\ phase \in {"read", "lex", "parse", "visit", "bye", "crash"}
  /\ number \in Nat
  /\ Last(tokens) = "EOF"
  /\ parser.index \in 1 .. Len(tokens)
  /\ \A i \in DOMAIN parser.stack : parser.stack[i].rule \in DOMAIN Rules
  /\ parser.thrown => parser.stack # << >>
  /\ parser.errorRecoveryMode => parser.syntaxErrors > 0
  /\ parser.lastErrorIndex \in 0 .. Len(tokens)
  /\ Range(nodes) \subseteq DOMAIN parser.exits

\* What the visitor is given is a sentence of the grammar, and a statement that
\* is one is not refused: decisions on one token, repaired errors and the count
\* of errors come to this.
OnlySentencesRun ==
  /\ phase = "visit" => Sentence(tokens)
  /\ phase = "parse" /\ parser.stack = << >> /\ Sentence(tokens) => parser.syntaxErrors = 0

\* read_stmt counts quotes and the lexer pairs them: unless there is a minus,
\* which may begin a comment, they agree on which semicolon ends the statement:
\* the reader goes on as long as the lexer sees none, and stops at the first.
ChunkIsOneStatement ==
  "-" \notin Range(stmt) =>
    /\ phase = "read" => ";" \notin Range(Lexed(stmt))
    /\ phase = "parse" => \A i \in DOMAIN tokens : tokens[i] = ";" <=> i = Len(tokens) - 1

\* The calls of the statement that was visited last.
Mine == {k \in DOMAIN calls : calls[k].number = number}

\* An accepted statement runs each SELECT it holds once, and a SELECT within
\* another statement before that statement.
SelectsRunInnerFirst ==
  /\ Cardinality({k \in Mine : calls[k].call \in {"search", "search_entry"}})
       = Cardinality({i \in DOMAIN tokens : tokens[i] = "SELECT"})
  /\ \A i, j \in Mine :
       /\ calls[i].from <= calls[j].from /\ calls[j].to <= calls[i].to
       /\ calls[i].call # calls[j].call \/ calls[i].from # calls[j].from
       => j < i

\* The part a word of an accepted statement plays, told from the words around it.
Part(i) ==
  LET before == tokens[i - 1]
      after  == tokens[i + 1]
      open   == {j \in 1 .. i - 1 : tokens[j] \in {"(", "FROM"}}
      list   == CHOOSE j \in open : \A m \in open : m <= j
  IN  CASE tokens[i] = "COUNT" /\ tokens[i + 2] = "*"                     -> "count"
        [] tokens[i] \in aggregator[1].of                                -> "aggregator"
        [] tokens[i] \in operator_[1].of                                 -> "operator"
        [] before = "NOT"                                                -> "not null"
        [] before = "IS"                                                 -> "null"
        [] before = "DEFAULT"                                            -> "default"
        [] before = "LIMIT"                                              -> "limit"
        [] before = "OFFSET"                                             -> "offset"
        [] tokens[i] = "Integer" /\ tokens[i - 2] = "VARCHAR"             -> "length"
        [] tokens[i] # "Identifier"                                      -> "value"
        [] after = "."                                                   -> "table of column"
        [] before = "."                                                  -> "column"
        [] after = "="                                                   -> "set column"
        [] after \in {"INT", "VARCHAR", "FLOAT"}                         -> "field"
        [] before = "REFERENCES"                                         -> "foreign table"
        [] before \in {"KEY", "CONSTRAINT"}                              -> "constraint"
        [] before \in {"DATABASE", "USE"}                                -> "database"
        [] before \in {"TABLE", "INTO", "UPDATE", "DESC"}                -> "table"
        [] tokens[list] = "FROM"                                         -> "table"
        [] tokens[list - 2] = "REFERENCES"                               -> "foreign column"
        [] OTHER                                                         -> "column name"

\* The words that tell statements of one form from each other.
Words == {i \in DOMAIN tokens :
            /\ \E k \in DOMAIN parser.exits :
                 /\ Node(k).rule \in {"db_statement", "table_statement", "alter_statement"}
                 /\ i \in Node(k).from .. Node(k).to - 1
            /\ tokens[i] \in value[1].of \cup operator_[1].of \cup aggregator[1].of \cup {"Identifier"}
            /\ tokens[i] = "=" => tokens[i - 2] = "."}

\* Every word of an accepted statement reaches the innermost call around it, in
\* the part it plays, and no other call.
WordsReachTheirCalls ==
  LET around(i)    == {k \in Mine : i \in calls[k].from .. calls[k].to - 1}
      innermost(i) == {k \in around(i) : \A m \in around(i) : calls[m].from <= calls[k].from}
      given(k)     == Range(calls[k].words)
  IN  /\ \A i \in Words : \E k \in innermost(i) : <<Part(i), i>> \in given(k)
      /\ \A k \in Mine : \A w \in given(k) : k \in innermost(w[2]) /\ w[1] = Part(w[2])

\* An accepted statement is run as it was typed: its calls are in the order of
\* the tree, and each has its own words, whatever optional ones are left out.
CallsSayTheStatement ==
  phase = "visit" /\ nodes = << >> => SelectsRunInnerFirst /\ WordsReachTheirCalls

\* Every session comes to its end: recovery from an error does not stay at one
\* token for ever.
EverySessionEnds == <>(phase \in {"bye", "crash"})
=============================================================================

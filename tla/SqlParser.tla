------------------------------ MODULE SqlParser ------------------------------
(***************************************************************************)
(* The parser generated from SQL.g4 on the ANTLR runtime: rule functions    *)
(* that call each other, prediction, and the recovery of                    *)
(* DefaultErrorStrategy, which reports an error, skips or invents tokens    *)
(* and goes on.  The text of messages and of the tree is left out; of the   *)
(* tree, exits has the contexts in the order their functions returned.      *)
(***************************************************************************)
EXTENDS SqlGrammar, SequencesExt, TLC

VARIABLES tokens,  \* the token stream, which ends with EOF
          parser   \* the SQLParser

parserVars == <<tokens, parser>>

Frame(rule, from) == [rule |-> rule, alt |-> 0, from |-> from, rest |-> Rules[rule]]

NewParser ==
  [index |-> 1, stack |-> <<Frame("program", 1)>>, thrown |-> FALSE, errorRecoveryMode |-> FALSE,
   lastErrorIndex |-> 0, lastErrorStates |-> {}, syntaxErrors |-> 0, exits |-> << >>]

LA(p, k) == LET i == p.index + k - 1
            IN  IF i > Len(tokens) THEN "EOF" ELSE tokens[i]

Top(p)           == Head(p.stack)
State(p)         == <<Top(p).rule, Top(p).alt, Top(p).rest>>
Continue(p, rest) == [p EXCEPT !.stack[1].rest = rest]
Throw(p)         == [p EXCEPT !.thrown = TRUE]

\* consume that goes on behind EOF.
consume_Always(p) == [p EXCEPT !.index = @ + 1]

consume(p) == IF LA(p, 1) = "EOF" THEN p ELSE [p EXCEPT !.index = @ + 1]
-----------------------------------------------------------------------------
\* The types that may come next, the rules that are under way included.
RECURSIVE Expected(_)
Expected(stack) ==
  IF stack = << >> THEN {"EOF"}
  ELSE LET first == LOOK(Head(stack).rest)
       IN  IF Epsilon \in first THEN (first \ {Epsilon}) \cup Expected(Tail(stack)) ELSE first

getErrorRecoverySet(p) ==
  UNION {LOOK(p.stack[i].rest) : i \in 2 .. Len(p.stack)} \ {Epsilon}

consumeUntil(p, set) ==
  [p EXCEPT !.index = CHOOSE i \in p.index .. Len(tokens) :
                        /\ tokens[i] \in set \cup {"EOF"}
                        /\ \A j \in p.index .. i - 1 : tokens[j] \notin set]

\* An error is reported once, until a token is matched again.
report(p) ==
  IF p.errorRecoveryMode THEN p
  ELSE [p EXCEPT !.errorRecoveryMode = TRUE, !.syntaxErrors = @ + 1]

reportMatch(p) == [p EXCEPT !.errorRecoveryMode = FALSE, !.lastErrorIndex = 0]

\* recover without the token it takes when it is where it was before.
recover_NoFailsafe(p) ==
  consumeUntil([p EXCEPT !.lastErrorIndex = p.index,
                         !.lastErrorStates = @ \cup {State(p)}], getErrorRecoverySet(p))

recover(p) ==
  LET q == IF p.lastErrorIndex = p.index /\ State(p) \in p.lastErrorStates THEN consume(p) ELSE p
  IN  consumeUntil([q EXCEPT !.lastErrorIndex = q.index, !.lastErrorStates = @ \cup {State(p)}],
                   getErrorRecoverySet(q))

singleTokenDeletes(p)  == LA(p, 2) \in Expected(p.stack)
singleTokenDeletion(p) == reportMatch(consume(report(p)))

singleTokenInsertion(p) == LA(p, 1) \in Expected(Continue(p, Tail(Top(p).rest)).stack)

\* recoverInline that does not count a token it makes up.
recoverInline_Silent(p) ==
  IF singleTokenDeletes(p) THEN Continue(consume(singleTokenDeletion(p)), Tail(Top(p).rest))
  ELSE IF singleTokenInsertion(p) THEN Continue(p, Tail(Top(p).rest))
  ELSE Throw(p)

recoverInline(p) ==
  IF singleTokenDeletes(p) THEN Continue(consume(singleTokenDeletion(p)), Tail(Top(p).rest))
  ELSE IF singleTokenInsertion(p) THEN Continue(report(p), Tail(Top(p).rest))
  ELSE Throw(p)

sync(p) ==
  IF p.errorRecoveryMode \/ LOOK(Top(p).rest) \cap {Epsilon, LA(p, 1)} # {} THEN p
  ELSE IF Head(Top(p).rest).kind = "back"
    THEN consumeUntil(report(p), Expected(p.stack) \cup getErrorRecoverySet(p))
  ELSE IF singleTokenDeletes(p) THEN singleTokenDeletion(p)
  ELSE Throw(p)
-----------------------------------------------------------------------------
\* The alternative that is the only one left after as few tokens as tell, 0 if
\* none is; configs has the alternatives with what may be left of them.  (In
\* SQL.g4 none ends while another is left, so what follows the rule is not asked.)
RECURSIVE execATN(_, _, _)
execATN(p, configs, k) ==
  LET reach == UNION {{<<c[1], rest>> : rest \in AfterToken(c[2], LA(p, k))} : c \in configs}
      alts  == {c[1] : c \in reach}
  IN  CASE alts = {}             -> 0
        [] Cardinality(alts) = 1 -> CHOOSE alt \in alts : TRUE
        [] OTHER                 -> execATN(p, reach, k + 1)

adaptivePredict(p, bodies) == execATN(p, {<<alt, bodies[alt]>> : alt \in DOMAIN bodies}, 1)
-----------------------------------------------------------------------------
\* The parser is at an element of this kind, and no exception is under way.
At(kinds) ==
  /\ ~ parser.thrown
  /\ parser.stack # << >>
  /\ Top(parser).rest # << >>
  /\ Head(Top(parser).rest).kind \in kinds

Here == Head(Top(parser).rest)
Then == Tail(Top(parser).rest)

\* match, and the token sets of value, operator_ and aggregator.
Match ==
  /\ At({"match"})
  /\ parser' = IF LA(parser, 1) \in Here.of THEN Continue(consume(reportMatch(parser)), Then)
               ELSE recoverInline(parser)
  /\ UNCHANGED tokens

\* A rule's function is called: a context, and the state it is called from.
EnterRule ==
  /\ At({"rule"})
  /\ parser' = [parser EXCEPT !.stack = <<Frame(CHOOSE r \in Here.of : TRUE, parser.index)>>
                                          \o Continue(parser, Then).stack]
  /\ UNCHANGED tokens

Decide ==
  /\ At({"alt"})
  /\ LET p   == sync(parser)
         alt == adaptivePredict(p, Here.bodies)
     IN  parser' = IF p.thrown THEN p
                   ELSE IF alt = 0 THEN Throw(p)
                   ELSE [Continue(p, Here.bodies[alt] \o Then) EXCEPT !.stack[1].alt = alt]
  /\ UNCHANGED tokens

Optional ==
  /\ At({"opt"})
  /\ LET p == sync(parser)
     IN  parser' = IF p.thrown THEN p
                   ELSE Continue(p, (IF LA(p, 1) \in LOOK(Here.bodies[1]) THEN Here.bodies[1] ELSE << >>) \o Then)
  /\ UNCHANGED tokens

Loop ==
  /\ At({"star", "back"})
  /\ LET p    == sync(parser)
         body == Here.bodies[1]
     IN  parser' = IF p.thrown THEN p
                   ELSE Continue(p, (IF LA(p, 1) \in LOOK(body) THEN body \o <<Back(body)>> ELSE << >>) \o Then)
  /\ UNCHANGED tokens

\* The tree of a statement in which an error was counted is not looked at again.
exitRule(p) ==
  LET context == [rule |-> Top(p).rule, alt |-> Top(p).alt, from |-> Top(p).from,
                  to |-> p.index, depth |-> Len(p.stack)]
  IN  [p EXCEPT !.stack = Tail(@),
                !.exits = IF p.syntaxErrors = 0 THEN Append(@, context) ELSE << >>]

ExitRule ==
  /\ ~ parser.thrown
  /\ parser.stack # << >>
  /\ Top(parser).rest = << >>
  /\ parser' = exitRule(parser)
  /\ UNCHANGED tokens

\* catch (RecognitionException &e) of the function, which then returns.
Catch ==
  /\ parser.thrown
  /\ parser' = exitRule([recover(report(parser)) EXCEPT !.thrown = FALSE])
  /\ UNCHANGED tokens

ParserStep == Match \/ EnterRule \/ Decide \/ Optional \/ Loop \/ ExitRule \/ Catch

\* The language of the rules: what is left of program after each token.
Sentence(types) ==
  << >> \in FoldLeft(LAMBDA left, type : UNION {AfterToken(rest, type) : rest \in left}, {program}, types)
=============================================================================

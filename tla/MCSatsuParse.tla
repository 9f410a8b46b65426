---------------------------- MODULE MCSatsuParse ----------------------------
(***************************************************************************)
(* Texts for the parser.                                                   *)
(***************************************************************************)
EXTENDS SatsuGrammar

AsExpression(e) == Opening \o e \o <<"SEMICOLON">>

\* Chains of operators, of every level and of two of a level.
Chained == {"STAR", "SLASH", "PLUS", "LESS", "CARET2", "PIPE2", "EQUAL", "MINUSEQUAL"}
X == <<"IDENT">>
Chains ==
  {AsExpression(X \o <<a>> \o X \o <<b>> \o X \o <<c>> \o X) :
     a \in Chained, b \in Chained, c \in Chained}

\* Pieces put together in every way, expressions or not.
Pieces ==
  {X, <<"MINUS">>, <<"PLUS">>, <<"EQUAL">>, <<"STAR", "BANG">>,
   <<"QUESTION", "LITINT", "COLON">>, <<"QUESTION">>, <<"COLON">>, <<"COMMA">>,
   <<"LPAREN">>, <<"RPAREN">>, <<"LBRACKET">>, <<"RBRACKET">>,
   <<"EQUALGREATER", "KWINT">>, <<"KWSYSTEM", "KWINT", "IDENT">>}
Mixtures == {AsExpression(a \o b \o c) : a \in Pieces, b \in Pieces, c \in Pieces}
Longer ==
  LET S == {X, <<"QUESTION">>, <<"COLON">>, <<"EQUAL">>, <<"LPAREN">>, <<"RPAREN">>}
  IN {AsExpression(X \o a \o b \o c \o d \o X) : a \in S, b \in S, c \in S, d \in S}

\* The text ends inside of an expression.
Unfinished == {Opening \o a \o b : a \in Pieces, b \in Pieces \union {<<>>}}

\* Every declaration and statement.
Sample ==
  <<"NULL", "KWIMPORT", "IDENT", "SEMICOLON", "KWNEW", "KWINT", "IDENT", "SEMICOLON",
    "KWFUNC", "KWVOID", "IDENT", "LPAREN", "KWINT", "IDENT", "COMMA", "KWREAL", "IDENT", "RPAREN",
    "LBRACE",
    "KWNEW", "KWBOOL", "IDENT", "EQUAL", "BANG", "KWTRUE", "SEMICOLON",
    "KWFOR", "LPAREN", "IDENT", "EQUAL", "LITINT", "SEMICOLON", "IDENT", "LESS", "LITINT", "SEMICOLON",
      "IDENT", "RPAREN",
      "KWIF", "LPAREN", "IDENT", "RPAREN", "KWBREAK", "SEMICOLON", "KWELSE",
      "KWCONTINUE", "SEMICOLON",
    "KWFOR", "LPAREN", "KWNEW", "KWINT", "IDENT", "EQUAL", "LITINT", "SEMICOLON", "IDENT", "SEMICOLON",
      "IDENT", "RPAREN", "LBRACE", "RBRACE",
    "KWWHILE", "LPAREN", "LPAREN", "IDENT", "RPAREN", "RPAREN", "KWRETURN", "SEMICOLON",
    "IDENT", "LPAREN", "LITSTR", "COMMA", "IDENT", "LBRACKET", "LITINT", "COMMA", "LITINT", "RBRACKET",
      "RPAREN", "SEMICOLON",
    "KWRETURN", "KWSYSTEM", "KWSTRING", "IDENT", "LPAREN", "IDENT", "COMMA", "IDENT", "RPAREN",
      "EQUALGREATER", "KWINT", "SEMICOLON",
    "RBRACE">>

\* The sample cut off anywhere, and with one token left out or replaced.
Edits ==
  {SubSeq(Sample, 1, n) : n \in 1..Len(Sample)}
    \union {RemoveAt(Sample, i) : i \in 2..Len(Sample)}
    \union {[Sample EXCEPT ![i] = t] :
              i \in 2..Len(Sample),
              t \in {"IDENT", "RPAREN", "SEMICOLON"}}

\* Blocks and arguments of fifteen and sixteen.
Times(n, s) == FlattenSeq([i \in 1..n |-> s])
Wide ==
  {Opening \o <<"LBRACE">> \o Times(n, <<"IDENT", "SEMICOLON">>) \o <<"RBRACE">> : n \in {15, 16}}
    \union {<<"NULL">> \o Times(n, <<"KWIMPORT", "IDENT", "SEMICOLON">>) : n \in {15, 16}}

MCTexts == Chains \union Mixtures \union Longer \union Unfinished \union Edits \union Wide

\* Each operator of the list once.
MCOperators ==
  {AsExpression(X \o <<t>> \o X) : t \in (DOMAIN Listed) \ {"LPAREN", "LBRACKET", "EQUALGREATER", "QUESTION"}}
    \union {AsExpression(X \o <<"QUESTION">> \o X \o <<"COLON">> \o X)}
=============================================================================

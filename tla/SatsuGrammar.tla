---------------------------- MODULE SatsuGrammar ----------------------------
(***************************************************************************)
(* The expressions of the language as examples/operators.ssu lists them,   *)
(* as a reference for the parser: in a sequence of tokens the operator     *)
(* that is applied last is the loosest one outside of all brackets, the    *)
(* rightmost or leftmost of these as its row says.                         *)
(***************************************************************************)
EXTENDS SatsuParse

\* The rows of the list that stand between two operands, the tightest first.
Rows ==
  <<{"STAR", "SLASH", "PERCENT"}, {"PLUS", "MINUS"},
    {"LESS", "LESSEQUAL", "GREATER", "GREATEREQUAL", "EQUAL2", "BANGEQUAL"},
    {"AMPERSAND2"}, {"CARET2"}, {"PIPE2"}, {"QUESTION"},
    {"EQUAL", "PLUSEQUAL", "MINUSEQUAL", "STAREQUAL", "SLASHEQUAL", "PERCENTEQUAL"}>>
RightToLeft == {7, 8}
Row(t) == CHOOSE r \in DOMAIN Rows : t \in Rows[r]
Infix == UNION {Rows[r] : r \in DOMAIN Rows}

Brackets == [LPAREN |-> "RPAREN", LBRACKET |-> "RBRACKET", QUESTION |-> "COLON"]
ClosingBrackets == {"RPAREN", "RBRACKET", "COLON"}

\* The brackets open at k in the text from i on.
Depth(i, k) ==
  Cardinality({m \in i..(k - 1) : toks[m] \in DOMAIN Brackets})
    - Cardinality({m \in i..(k - 1) : toks[m] \in ClosingBrackets})
\* b closes the bracket at k.
Matches(k, b) ==
  /\ toks[b] = Brackets[toks[k]] /\ Depth(k + 1, b) = 0
  /\ \A m \in (k + 1)..(b - 1) : toks[m] \in ClosingBrackets => Depth(k + 1, m) > 0

EndsOperand(k) == toks[k] \in Atoms \union TypeKeywords \union {"RPAREN", "RBRACKET"}

\* The operators outside of brackets between i and j.
InfixAt(i, j) ==
  {k \in (i + 1)..(j - 1) : toks[k] \in Infix /\ EndsOperand(k - 1) /\ Depth(i, k) = 0}
CastAt(i, j) == {k \in (i + 1)..(j - 1) : toks[k] = "EQUALGREATER" /\ Depth(i, k) = 0}
AppliedLast(ks) ==
  LET loosest == CHOOSE r \in {Row(toks[k]) : k \in ks} :
                   \A k \in ks : Row(toks[k]) <= r
      same == {k \in ks : Row(toks[k]) = loosest}
  IN IF loosest \in RightToLeft THEN Min(same) ELSE Max(same)

\* Trees: a token, by its place, and operands.  NoTree for what is no expression.
NoTree == [tok |-> 0, kids |-> <<>>]
Tree(k, kids) ==
  IF NoTree \in ToSet(kids) THEN NoTree ELSE [tok |-> k, kids |-> kids]
Leaf(k) == Tree(k, <<>>)
TypeLeaf(k) == IF toks[k] \in TypeKeywords THEN Leaf(k) ELSE NoTree

RECURSIVE Group(_, _), Items(_, _)

\* The expressions between commas outside of brackets from i to j.
Items(i, j) ==
  LET commas == {k \in i..j : toks[k] = "COMMA" /\ Depth(i, k) = 0}
  IN IF commas = {} THEN <<Group(i, j)>>
     ELSE <<Group(i, Min(commas) - 1)>> \o Items(Min(commas) + 1, j)

\* i..j ends with a bracket that k opens: a call, an access, or parentheses.
Bracketed(i, k, j) ==
  LET inner == IF k + 1 > j - 1 THEN <<>> ELSE Items(k + 1, j - 1)
  IN IF k = i THEN IF toks[k] = "LPAREN" /\ Len(inner) = 1 THEN inner[1] ELSE NoTree
     ELSE IF toks[i] = "KWSYSTEM" /\ k = i + 3
       THEN IF toks[i + 2] = "IDENT" /\ toks[k] = "LPAREN"
            THEN Tree(i + 2, <<TypeLeaf(i + 1)>> \o inner) ELSE NoTree
     ELSE IF toks[k] = "LPAREN" \/ Len(inner) \in {1, 2}
       THEN Tree(k, <<Group(i, k - 1)>> \o inner)
     ELSE NoTree

\* What i..j is without an operator outside of brackets.  A cast has a type on its right
\* and so brackets behind it can only belong to the cast as a whole.
Primary(i, j) ==
  LET openers == {k \in i..(j - 1) : toks[k] \in {"LPAREN", "LBRACKET"} /\ Matches(k, j)}
      casts == CastAt(i, j)
  IN IF casts # {} /\ Max(casts) = j - 1
       THEN Tree(j - 1, <<Group(i, j - 2), TypeLeaf(j)>>)
     ELSE IF casts = {} /\ toks[i] \in {"BANG", "MINUS"} THEN Tree(i, <<Group(i + 1, j)>>)
     ELSE IF openers # {} THEN Bracketed(i, CHOOSE k \in openers : TRUE, j)
     ELSE IF i = j /\ toks[i] \in Atoms THEN Leaf(i)
     ELSE NoTree

Group(i, j) ==
  IF i > j THEN NoTree
  ELSE IF InfixAt(i, j) = {} THEN Primary(i, j)
  ELSE LET k == AppliedLast(InfixAt(i, j))
           colons == {b \in (k + 1)..j : Matches(k, b)}
       IN IF toks[k] # "QUESTION" THEN Tree(k, <<Group(i, k - 1), Group(k + 1, j)>>)
          ELSE IF colons = {} THEN NoTree
          ELSE LET b == CHOOSE c \in colons : TRUE
               IN Tree(k, <<Group(i, k - 1), Group(k + 1, b - 1), Group(b + 1, j)>>)

-----------------------------------------------------------------------------
RECURSIVE Shape(_)
\* The tree the parser has built for node n.
Shape(n) ==
  [tok |-> nodes[n].tok, kids |-> [k \in DOMAIN nodes[n].kids |-> Shape(nodes[n].kids[k])]]

\* func void f() <expression>;
Opening == <<"NULL", "KWFUNC", "KWVOID", "IDENT", "LPAREN", "RPAREN">>
IsExpressionText ==
  /\ Len(toks) > Len(Opening) + 1 /\ IsPrefix(Opening, toks) /\ Last(toks) = "SEMICOLON"
  /\ \A i \in (Len(Opening) + 1)..(Len(toks) - 1) :
       toks[i] \notin DOMAIN Stmts \union {"SEMICOLON"}

\* The parser accepts exactly the expressions of the reference, and groups their operands
\* as the reference does: precedence, associativity, brackets, and every error.
GroupedAsListed ==
  out \in {"ok", "error"} /\ IsExpressionText =>
    LET tree == Group(Len(Opening) + 1, Len(toks) - 1)
    IN IF Accepted THEN Shape(nodes[2].kids[3]) = tree ELSE tree = NoTree

\* What the list says each operator does.
Listed ==
  [LPAREN |-> "ECALL", LBRACKET |-> "EACCESS", EQUALGREATER |-> "ECAST",
   STAR |-> "EMUL", SLASH |-> "EDIV", PERCENT |-> "EMOD", PLUS |-> "EADD", MINUS |-> "ESUB",
   LESS |-> "ELESS", LESSEQUAL |-> "ELEQUAL", GREATER |-> "EGREATER",
   GREATEREQUAL |-> "EGREQUAL", EQUAL2 |-> "EEQUAL", BANGEQUAL |-> "ENEQUAL",
   AMPERSAND2 |-> "EAND", CARET2 |-> "EXOR", PIPE2 |-> "EOR", QUESTION |-> "ETERNARY",
   EQUAL |-> "EASSIGN", PLUSEQUAL |-> "EADDASSIGN", MINUSEQUAL |-> "ESUBASSIGN",
   STAREQUAL |-> "EMULASSIGN", SLASHEQUAL |-> "EDIVASSIGN", PERCENTEQUAL |-> "EMODASSIGN"]

\* Each operator between two operands becomes the node the list names.
OperatorsAsListed ==
  Accepted =>
    \A n \in DOMAIN nodes :
      nodes[n].type \in Binaries \union Assigns \union {"ETERNARY"} =>
        nodes[n].type = Listed[toks[nodes[n].tok]]
=============================================================================

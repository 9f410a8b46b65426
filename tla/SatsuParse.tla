----------------------------- MODULE SatsuParse -----------------------------
(***************************************************************************)
(* The parser (ls_parse.c): recursive descent for declarations and         *)
(* statements, precedence climbing for expressions.  One frame per active  *)
(* function; each step runs the innermost from one recursive call, or one  *)
(* token, to the next.                                                     *)
(***************************************************************************)
EXTENDS SatsuProgram, SatsuTokens, FiniteSets

CONSTANTS Texts  \* token sequences, each with the NULL that ls_lex puts in front

ASSUME TextsAssumption ==
  \A t \in Texts :
    /\ t \in Seq(TokTypes \union {"NULL"}) /\ Len(t) > 0
    /\ \A i \in 1..Len(t) : t[i] = "NULL" <=> i = 1

VARIABLES
  toks,     \* lex->types
  cur,      \* the token read last
  nodes,    \* ast->nodes and ast->types
  stk,      \* the active functions
  ret,      \* what the function that has just returned gave back
  out,      \* "parsing", or what ls_parse gives: "ok", "error", "overflow" (a bad write)
  lost,     \* history: the error of an expression in parentheses was dropped
  overread  \* history: a token behind the last one was read

vars == <<toks, cur, nodes, stk, ret, out, lost, overread>>

\* An uninitialised uint32_t node index.
NoNode == 0

NoRet == [is |-> "none", node |-> NoNode]
Ok(n) == [is |-> "ok", node |-> n]
Err == [is |-> "error", node |-> NoNode]

-----------------------------------------------------------------------------
(* Nodes. *)

CapModulus == 256 * 256

AddNode(ns, type, t) ==
  Append(ns, [type |-> type, tok |-> t, kids |-> <<>>, cap |-> 1])

\* Mutant: the capacity is kept in a byte.
GrownByte(node) ==
  IF node.cap >= Len(node.kids) THEN [node EXCEPT !.cap = (2 * @) % 256] ELSE node

\* The capacity is a uint16_t, and the test for a full array is reversed: it doubles
\* whenever there is room.
Grown(node) ==
  IF node.cap >= Len(node.kids) THEN [node EXCEPT !.cap = (2 * @) % CapModulus] ELSE node

\* Mutant: a new child comes first.
ParentNodeFront(ns, parent, child) ==
  [ns EXCEPT ![parent] = [Grown(ns[parent]) EXCEPT !.kids = <<child>> \o @]]

ParentNode(ns, parent, child) ==
  [ns EXCEPT ![parent] = [Grown(ns[parent]) EXCEPT !.kids = Append(@, child)]]

\* The write is inside of the array that was allocated.
Fits(ns, parent) == Grown(ns[parent]).cap > Len(ns[parent].kids)

-----------------------------------------------------------------------------
(* The operators: what they make of a right-hand or a left-hand operand. *)

NudNode == [BANG |-> "ENOT", MINUS |-> "ENEG"]
NudRight == 19

LedNode ==
  [LPAREN |-> "ECALL", LBRACKET |-> "EACCESS", EQUALGREATER |-> "ECAST",
   STAR |-> "EMUL", SLASH |-> "EDIV", PERCENT |-> "EMOD", PLUS |-> "EADD", MINUS |-> "ESUB",
   LESS |-> "ELESS", LESSEQUAL |-> "ELEQUAL", GREATER |-> "EGREATER",
   GREATEREQUAL |-> "EGREQUAL", EQUAL2 |-> "EEQUAL", BANGEQUAL |-> "ENEQUAL",
   AMPERSAND2 |-> "EXOR", CARET2 |-> "EXOR", PIPE2 |-> "EOR", QUESTION |-> "ETERNARY",
   EQUAL |-> "EASSIGN", PLUSEQUAL |-> "EADDASSIGN", MINUSEQUAL |-> "ESUBASSIGN",
   STAREQUAL |-> "EMODASSIGN", SLASHEQUAL |-> "EDIVASSIGN", PERCENTEQUAL |-> "EMODASSIGN"]

LedLeft(t) ==
  CASE t \in {"LPAREN", "LBRACKET"} -> 21
    [] t = "EQUALGREATER" -> 17
    [] t \in {"STAR", "SLASH", "PERCENT"} -> 15
    [] t \in {"PLUS", "MINUS"} -> 13
    [] t \in {"LESS", "LESSEQUAL", "GREATER", "GREATEREQUAL", "EQUAL2", "BANGEQUAL"} -> 11
    [] t = "AMPERSAND2" -> 9
    [] t = "CARET2" -> 7
    [] t = "PIPE2" -> 5
    [] t = "QUESTION" -> 4
    [] OTHER -> 2

\* Mutant: every operator groups to the left.
LedRightLeft(t) == LedLeft(t) + 1
LedRight(t) == IF LedLeft(t) \in {2, 4} THEN LedLeft(t) - 1 ELSE LedLeft(t) + 1

-----------------------------------------------------------------------------
(* Frames and the steps the functions are made of. *)

\* The node a function adds when it is entered; the others add theirs later or never.
NodeOf ==
  [root |-> "ROOT", import |-> "IMPORT", func |-> "FUNCDECL", global |-> "GLOBALDECL",
   local |-> "LOCALDECL", arglist |-> "ARGLIST", arg |-> "ARG", return |-> "RETURN",
   ctree |-> "CTREE", while |-> "WHILE", for |-> "FOR", break |-> "BREAK",
   continue |-> "CONTINUE", block |-> "BLOCK", type |-> "TYPE", system |-> "ESYSTEM"]
\* These take the token that was read last as the token of their node.
Marked == {"return", "ctree", "while", "for", "break", "continue", "block"}

\* fn: the function; at: where it goes on; skip: the tokens it passes over when the
\* function it calls returns; node: the node it builds (lhs in an expression); term and
\* bp: the terminators and the binding power of an expression; type: its last token.
Frame(fn, node, term, bp) ==
  [fn |-> fn, at |-> 0, skip |-> 0, node |-> node, term |-> term, bp |-> bp, type |-> "NULL"]

Top == stk[Len(stk)]
Goto(at, skip) == [stk EXCEPT ![Len(stk)].at = at, ![Len(stk)].skip = skip]
GotoAs(at, node, type) ==
  [stk EXCEPT ![Len(stk)] = [@ EXCEPT !.at = at, !.skip = 0, !.node = node, !.type = type]]
Running(fn) == out = "parsing" /\ stk # <<>> /\ ret = NoRet /\ Top.fn = fn
Returned == out = "parsing" /\ stk # <<>> /\ ret # NoRet
At(i) == Top.at = i

\* Past the end ls_nexttok gives LS_NULL, and ls_requiretok and ls_expecttok an error,
\* which is what they make of any token the caller does not want.
Tok(i) == IF i \in DOMAIN toks THEN toks[i] ELSE "NULL"
Ahead == Tok(cur + 1)

Quiet == UNCHANGED <<toks, out, lost, overread>>

Take(c, next) ==
  cur' = c /\ stk' = Goto(next, 0) /\ UNCHANGED <<nodes, ret>> /\ Quiet
Done(c) ==
  /\ cur' = c /\ ret' = Ok(Top.node) /\ stk' = Front(stk)
  /\ UNCHANGED nodes /\ Quiet
Fail(c) ==
  cur' = c /\ ret' = Err /\ stk' = Front(stk) /\ UNCHANGED nodes /\ Quiet

\* ls_expecttok, and a caller that hands its error on; Mark also keeps the token.
Expect(type, next) ==
  IF Ahead = type THEN Take(cur + 1, next) ELSE Fail(cur + 1)
\* Mutant: the token is not kept.
MarkForgets(types, next) ==
  IF Ahead \in types THEN Take(cur + 1, next) ELSE Fail(cur + 1)
Mark(types, next) ==
  IF Ahead \in types
  THEN /\ cur' = cur + 1
       /\ nodes' = [nodes EXCEPT ![Top.node].tok = cur + 1]
       /\ stk' = Goto(next, 0)
       /\ UNCHANGED ret /\ Quiet
  ELSE Fail(cur + 1)

\* Calls fn with cur = c; the caller goes on at next.
Call(c, next, skip, fn, node, term, bp) ==
  LET adds == fn \in DOMAIN NodeOf
  IN /\ cur' = c
     /\ nodes' = IF adds THEN AddNode(nodes, NodeOf[fn], IF fn \in Marked THEN c ELSE 1)
                 ELSE nodes
     /\ stk' = Append(Goto(next, skip),
                      Frame(fn, IF adds THEN Len(nodes) + 1 ELSE node, term, bp))
     /\ UNCHANGED ret /\ Quiet

Parse(c, next, fn) == Call(c, next, 0, fn, NoNode, {}, 0)
\* An expression up to a terminator that the caller passes over (Expr), looks at
\* (Item), or leaves to its own caller (Operand).
Expr(c, next, end) == Call(c, next, 1, "expr", NoNode, {end}, 0)
Item(c, next, term) == Call(c, next, 0, "expr", NoNode, term, 0)
Operand(next, bp) == Call(cur, next, 0, "expr", NoNode, Top.term, bp)

-----------------------------------------------------------------------------
(* Declarations. *)

Init ==
  /\ toks \in Texts
  /\ cur = 1
  /\ nodes = AddNode(<<>>, "ROOT", 1)
  /\ stk = <<Frame("root", 1, {}, 0)>>
  /\ ret = NoRet
  /\ out = "parsing"
  /\ lost = FALSE
  /\ overread = FALSE

RootElements == [KWIMPORT |-> "import", KWFUNC |-> "func", KWNEW |-> "global"]

ParseRoot ==
  /\ Running("root")
  /\ \/ Ahead \in DOMAIN RootElements /\ Parse(cur + 1, 0, RootElements[Ahead])
     \/ Ahead = "NULL" /\ Done(cur + 1)
     \/ Ahead \notin DOMAIN RootElements \union {"NULL"} /\ Fail(cur + 1)

ParseImport ==
  /\ Running("import")
  /\ \/ At(0) /\ Mark({"IDENT"}, 1)
     \/ At(1) /\ Expect("SEMICOLON", 2)
     \/ At(2) /\ Done(cur)

ParseFunc ==
  /\ Running("func")
  /\ \/ At(0) /\ Parse(cur, 1, "type")
     \/ At(1) /\ Mark({"IDENT"}, 2)
     \/ At(2) /\ Parse(cur, 3, "arglist")
     \/ At(3) /\ Parse(cur, 4, "stmt")
     \/ At(4) /\ Done(cur)

ParseGlobalDecl ==
  /\ Running("global")
  /\ \/ At(0) /\ Parse(cur, 1, "type")
     \/ At(1) /\ Mark({"IDENT"}, 2)
     \/ At(2) /\ Expect("SEMICOLON", 3)
     \/ At(3) /\ Done(cur)

ParseLocalDecl ==
  /\ Running("local")
  /\ \/ At(0) /\ Parse(cur, 1, "type")
     \/ At(1) /\ Mark({"IDENT"}, 2)
     \/ At(2) /\ Expect("EQUAL", 3)
     \/ At(3) /\ Expr(cur, 4, "SEMICOLON")
     \/ At(4) /\ Done(cur)

\* Mutant: a token between two arguments is neither passed over nor an error.
ParseArgListWaits ==
  /\ Running("arglist")
  /\ \/ At(0) /\ Mark({"LPAREN"}, 1)
     \/ At(1) /\ Ahead = "RPAREN" /\ Done(cur + 1)
     \/ At(1) /\ Ahead # "RPAREN" /\ Parse(cur, 2, "arg")
     \/ At(2) /\ Ahead = "RPAREN" /\ Done(cur + 1)
     \/ At(2) /\ Ahead = "COMMA" /\ Parse(cur + 1, 2, "arg")
     \/ At(2) /\ Ahead \notin {"RPAREN", "COMMA"} /\ Take(cur, 2)

ParseArgList ==
  /\ Running("arglist")
  /\ \/ At(0) /\ Mark({"LPAREN"}, 1)
     \/ At(1) /\ Ahead = "RPAREN" /\ Done(cur + 1)
     \/ At(1) /\ Ahead # "RPAREN" /\ Parse(cur, 2, "arg")
     \/ At(2) /\ Ahead = "RPAREN" /\ Done(cur + 1)
     \/ At(2) /\ Ahead = "COMMA" /\ Parse(cur + 1, 2, "arg")
     \/ At(2) /\ Ahead \notin {"RPAREN", "COMMA"} /\ Fail(cur + 1)

ParseArg ==
  /\ Running("arg")
  /\ \/ At(0) /\ Parse(cur, 1, "type")
     \/ At(1) /\ Mark({"IDENT"}, 2)
     \/ At(2) /\ Done(cur)

ParseType ==
  /\ Running("type")
  /\ \/ At(0) /\ Mark(TypeKeywords, 1)
     \/ At(1) /\ Done(cur)

-----------------------------------------------------------------------------
(* Statements. *)

ParseReturn ==
  /\ Running("return")
  /\ \/ At(0) /\ Ahead = "SEMICOLON" /\ Done(cur + 1)
     \/ At(0) /\ Ahead # "SEMICOLON" /\ Expr(cur, 1, "SEMICOLON")
     \/ At(1) /\ Done(cur)

ParseCtree ==
  /\ Running("ctree")
  /\ \/ At(0) /\ Expect("LPAREN", 1)
     \/ At(1) /\ Expr(cur, 2, "RPAREN")
     \/ At(2) /\ Parse(cur, 3, "stmt")
     \/ At(3) /\ Ahead = "KWELSE" /\ Parse(cur + 1, 4, "stmt")
     \/ At(3) /\ Ahead # "KWELSE" /\ Done(cur)
     \/ At(4) /\ Done(cur)

ParseWhile ==
  /\ Running("while")
  /\ \/ At(0) /\ Expect("LPAREN", 1)
     \/ At(1) /\ Expr(cur, 2, "RPAREN")
     \/ At(2) /\ Parse(cur, 3, "stmt")
     \/ At(3) /\ Done(cur)

ParseFor ==
  /\ Running("for")
  /\ \/ At(0) /\ Expect("LPAREN", 1)
     \/ At(1) /\ Ahead = "KWNEW" /\ Parse(cur + 1, 2, "local")
     \/ At(1) /\ Ahead # "KWNEW" /\ Expr(cur, 2, "SEMICOLON")
     \/ At(2) /\ Expr(cur, 3, "SEMICOLON")
     \/ At(3) /\ Expr(cur, 4, "RPAREN")
     \/ At(4) /\ Parse(cur, 5, "stmt")
     \/ At(5) /\ Done(cur)

\* ls_parsebreak and ls_parsecontinue.
ParseJump ==
  /\ Running("break") \/ Running("continue")
  /\ \/ At(0) /\ Expect("SEMICOLON", 1)
     \/ At(1) /\ Done(cur)

\* Mutant: a block also ends where the text does.
ParseBlockOpen ==
  /\ Running("block")
  /\ \/ Ahead \in {"RBRACE", "NULL"} /\ Done(cur + 1)
     \/ Ahead \notin {"RBRACE", "NULL"} /\ Parse(cur, 0, "stmt")

ParseBlock ==
  /\ Running("block")
  /\ \/ Ahead = "RBRACE" /\ Done(cur + 1)
     \/ Ahead # "RBRACE" /\ Parse(cur, 0, "stmt")

Stmts ==
  [KWNEW |-> "local", LBRACE |-> "block", KWIF |-> "ctree", KWWHILE |-> "while",
   KWCONTINUE |-> "continue", KWBREAK |-> "break", KWFOR |-> "for", KWRETURN |-> "return"]

ParseStmt ==
  /\ Running("stmt")
  /\ \/ Ahead \in DOMAIN Stmts /\ Parse(cur + 1, 1, Stmts[Ahead])
     \/ Ahead \notin DOMAIN Stmts /\ cur < Len(toks) /\ Expr(cur, 1, "SEMICOLON")
     \/ Ahead \notin DOMAIN Stmts /\ cur >= Len(toks) /\ Fail(cur + 1)

-----------------------------------------------------------------------------
(* Expressions. *)

Atoms == {"IDENT", "LITSTR", "LITINT", "LITREAL", "KWTRUE", "KWFALSE"}

\* The token at which ls_parseexpr starts, and the one behind lhs.  At the end the
\* error of ls_requiretok is dropped there and type keeps its old value.
ExprRead ==
  /\ Running("expr")
  /\ \/ /\ At(0) /\ cur < Len(toks)
        /\ cur' = cur + 1
        /\ stk' = GotoAs(1, Top.node, Ahead)
        /\ UNCHANGED <<nodes, ret>> /\ Quiet
     \/ At(0) /\ cur >= Len(toks) /\ Fail(cur + 1)
     \/ /\ At(2)
        /\ stk' = GotoAs(3, Top.node, IF cur < Len(toks) THEN Ahead ELSE Top.type)
        /\ UNCHANGED <<cur, nodes, ret>> /\ Quiet

\* The first operand.
ExprHead ==
  /\ Running("expr") /\ At(1)
  /\ \/ /\ Top.type \in Atoms
        /\ nodes' = AddNode(nodes, "EATOM", cur)
        /\ stk' = GotoAs(2, Len(nodes) + 1, Top.type)
        /\ UNCHANGED <<cur, ret>> /\ Quiet
     \/ Top.type = "LPAREN" /\ Expr(cur, 2, "RPAREN")
     \/ Top.type = "KWSYSTEM" /\ Parse(cur, 2, "system")
     \/ Top.type \in DOMAIN NudNode /\ Call(cur, 2, 0, "nud", NoNode, Top.term, 0)
     \/ /\ Top.type \notin Atoms \union {"LPAREN", "KWSYSTEM"} \union DOMAIN NudNode
        /\ Fail(cur)

Looser(left, bp) == left < bp

\* Mutant: what is no operator ends the expression.
ExprLoopLenient ==
  /\ Running("expr") /\ At(3)
  /\ IF Top.type \in Top.term \/ Top.type \notin DOMAIN LedNode \/ Looser(LedLeft(Top.type), Top.bp)
     THEN /\ ret' = Ok(Top.node) /\ stk' = Front(stk)
          /\ overread' = (overread \/ (Top.type \notin DOMAIN LedNode /\ cur >= Len(toks)))
          /\ UNCHANGED <<toks, cur, nodes, out, lost>>
     ELSE Call(cur, 2, 0, "led", Top.node, Top.term, 0)

\* What follows an operand: a terminator, an operator for this function, an operator
\* for a caller, or an error at the next token, which may be one behind the last.
ExprLoop ==
  /\ Running("expr") /\ At(3)
  /\ LET type == Top.type
     IN \/ type \in Top.term /\ Done(cur)
        \/ /\ type \notin Top.term /\ type \notin DOMAIN LedNode
           /\ cur' = cur /\ ret' = Err /\ stk' = Front(stk)
           /\ overread' = (overread \/ cur >= Len(toks))
           /\ UNCHANGED <<toks, nodes, out, lost>>
        \/ /\ type \notin Top.term /\ type \in DOMAIN LedNode
           /\ \/ Looser(LedLeft(type), Top.bp) /\ Done(cur)
              \/ /\ ~Looser(LedLeft(type), Top.bp)
                 /\ Call(cur, 2, 0, "led", Top.node, Top.term, 0)

\* The call of a system function; ls_parseexpr has it in line.
ParseSystem ==
  /\ Running("system")
  /\ \/ At(0) /\ Parse(cur, 1, "type")
     \/ At(1) /\ Mark({"IDENT"}, 2)
     \/ At(2) /\ Expect("LPAREN", 3)
     \/ At(3) /\ Ahead = "RPAREN" /\ Done(cur + 1)
     \/ At(3) /\ Ahead # "RPAREN" /\ Item(cur, 4, {"COMMA", "RPAREN"})
     \/ At(4) /\ Ahead = "RPAREN" /\ Done(cur + 1)
     \/ At(4) /\ Ahead # "RPAREN" /\ Item(cur + 1, 4, {"COMMA", "RPAREN"})

ParseExprNud ==
  /\ Running("nud")
  /\ \/ /\ At(0)
        /\ nodes' = AddNode(nodes, NudNode[toks[cur]], cur)
        /\ stk' = GotoAs(1, Len(nodes) + 1, Top.type)
        /\ UNCHANGED <<cur, ret>> /\ Quiet
     \/ At(1) /\ Operand(2, NudRight)
     \/ At(2) /\ Done(cur)

\* The operator behind lhs, and its node, of which lhs is the first child.
LedRead ==
  /\ Running("led") /\ At(0)
  /\ IF cur < Len(toks)
     THEN /\ cur' = cur + 1
          /\ nodes' = ParentNode(AddNode(nodes, LedNode[Ahead], cur + 1), Len(nodes) + 1, Top.node)
          /\ stk' = GotoAs(1, Len(nodes) + 1, Ahead)
          /\ UNCHANGED ret /\ Quiet
     ELSE Fail(cur + 1)

LedIn(types) == Running("led") /\ ~At(0) /\ LedNode[Top.type] \in types

LedCall ==
  /\ LedIn({"ECALL"})
  /\ \/ Ahead = "RPAREN" /\ Done(cur + 1)
     \/ At(1) /\ Ahead # "RPAREN" /\ Item(cur, 2, {"COMMA", "RPAREN"})
     \/ At(2) /\ Ahead # "RPAREN" /\ Item(cur + 1, 2, {"COMMA", "RPAREN"})

LedAccess ==
  /\ LedIn({"EACCESS"})
  /\ \/ At(1) /\ Item(cur, 2, {"COMMA", "RBRACKET"})
     \/ At(2) /\ Ahead = "RBRACKET" /\ Done(cur + 1)
     \/ At(2) /\ Ahead # "RBRACKET" /\ Expr(cur + 1, 3, "RBRACKET")
     \/ At(3) /\ Done(cur)

LedCast ==
  /\ LedIn({"ECAST"})
  /\ \/ At(1) /\ Parse(cur, 2, "type")
     \/ At(2) /\ Done(cur)

LedTernary ==
  /\ LedIn({"ETERNARY"})
  /\ \/ At(1) /\ Expr(cur, 2, "COLON")
     \/ At(2) /\ Operand(3, LedRight("QUESTION"))
     \/ At(3) /\ Done(cur)

LedBinary ==
  /\ LedIn(Binaries \union Assigns)
  /\ \/ At(1) /\ Operand(2, LedRight(Top.type))
     \/ At(2) /\ Done(cur)

-----------------------------------------------------------------------------
(* Returns. *)

\* ls_parseexpr takes the result for lhs.  After an expression in parentheses it does
\* not look at the error: lhs keeps the value it never had.
ExprResume ==
  /\ Returned /\ Top.fn = "expr"
  /\ ret = Err => Top.skip = 1
  /\ cur' = cur + Top.skip
  /\ stk' = [stk EXCEPT ![Len(stk)].node = IF ret = Err THEN @ ELSE ret.node]
  /\ ret' = NoRet
  /\ lost' = (lost \/ ret = Err)
  /\ UNCHANGED <<toks, nodes, out, overread>>

StmtResume ==
  /\ Returned /\ Top.fn = "stmt" /\ ret # Err
  /\ cur' = cur + Top.skip
  /\ stk' = Front(stk)
  /\ UNCHANGED <<nodes, ret>> /\ Quiet

\* All others make the result a child of their node.
Adopt ==
  /\ Returned /\ Top.fn \notin {"expr", "stmt"} /\ ret # Err
  /\ cur' = cur + Top.skip
  /\ ret' = NoRet
  /\ nodes' = ParentNode(nodes, Top.node, ret.node)
  /\ out' = IF Fits(nodes, Top.node) THEN out ELSE "overflow"
  /\ UNCHANGED <<toks, stk, lost, overread>>

\* (ls_parsestmt also passes over a token before it hands an error on; nothing reads
\* cur then.)
HandOn ==
  /\ Returned /\ ret = Err
  /\ ~(Top.fn = "expr" /\ Top.skip = 1)
  /\ stk' = Front(stk)
  /\ UNCHANGED <<cur, nodes, ret>> /\ Quiet

Finish ==
  /\ out = "parsing" /\ stk = <<>>
  /\ out' = IF ret = Err THEN "error" ELSE "ok"
  /\ UNCHANGED <<toks, cur, nodes, stk, ret, lost, overread>>

Stopped == out # "parsing" /\ UNCHANGED vars

Step ==
  \/ ParseRoot \/ ParseImport \/ ParseFunc \/ ParseGlobalDecl \/ ParseLocalDecl
  \/ ParseArgList \/ ParseArg \/ ParseType
  \/ ParseReturn \/ ParseCtree \/ ParseWhile \/ ParseFor \/ ParseJump \/ ParseBlock \/ ParseStmt
  \/ ExprRead \/ ExprHead \/ ExprLoop \/ ParseSystem \/ ParseExprNud
  \/ LedRead \/ LedCall \/ LedAccess \/ LedCast \/ LedTernary \/ LedBinary
  \/ ExprResume \/ StmtResume \/ Adopt \/ HandOn \/ Finish

Next == Step \/ Stopped

Spec == Init /\ [][Next]_vars

\* The parser is one sequential call: as long as it can go on, it does.
FairSpec == Spec /\ WF_vars(Step)

-----------------------------------------------------------------------------
(* Properties. *)

NodeRec == [type : NodeTypes, tok : Nat, kids : Seq(Nat), cap : 0..(CapModulus - 1)]
FrameRecord ==
  [fn : DOMAIN NodeOf \union {"stmt", "expr", "nud", "led"}, at : 0..5, skip : {0, 1},
   node : Nat, term : SUBSET TokTypes, bp : Nat, type : TokTypes \union {"NULL"}]

TypeOK ==
  /\ toks \in Seq(TokTypes \union {"NULL"}) /\ Len(toks) > 0
  /\ cur \in Nat
  /\ nodes \in Seq(NodeRec)
  /\ stk \in Seq(FrameRecord)
  /\ ret \in [is : {"none", "ok", "error"}, node : Nat]
  /\ out \in {"parsing", "ok", "error", "overflow"}
  /\ lost \in BOOLEAN /\ overread \in BOOLEAN

\* The tree as the later stages read it: a node with its token; ls_toktoprim of a type.
PrimOf ==
  [KWBOOL |-> "bool", KWINT |-> "int", KWREAL |-> "real", KWSTRING |-> "string",
   KWVOID |-> "void"]
TokName(t) == IF t \in DOMAIN PrimOf THEN PrimOf[t] ELSE t
Ast ==
  [n \in DOMAIN nodes |->
     [type |-> nodes[n].type, tok |-> TokName(Tok(nodes[n].tok)), sym |-> "",
      kids |-> nodes[n].kids]]

Accepted == out = "ok" /\ ~lost

\* What ls_sema and ls_exec take for granted of every tree they are given: children
\* exist and are as many and of the kinds the type of their node asks for.  (An operand
\* that was never parsed is the one exception, and known as lost.)
NodesOk == Accepted => \A n \in DOMAIN nodes : NodeOk(Ast, n)

\* Tokens that a node has to stand for.
Meaningful ==
  Atoms \union TypeKeywords \union (Operators \ {"EQUAL"})
    \union {"KWIF", "KWWHILE", "KWFOR", "KWRETURN", "KWBREAK", "KWCONTINUE", "LBRACE",
            "LBRACKET", "QUESTION"}

\* The nodes are one tree, and nothing of an accepted text is left out of it or is in it
\* twice: every node but the root is the child of one node, once, and every token with a
\* meaning of its own is the token of one node.
TreeOfText ==
  Accepted =>
    /\ \A n \in DOMAIN nodes \ {1} :
         Cardinality({e \in (DOMAIN nodes) \X (1..Len(nodes)) :
                        e[2] \in DOMAIN nodes[e[1]].kids /\ nodes[e[1]].kids[e[2]] = n}) = 1
    /\ \A i \in DOMAIN toks :
         toks[i] \in Meaningful => Cardinality({n \in DOMAIN nodes : nodes[n].tok = i}) = 1

\* Parentheses, brackets and braces of an accepted text nest; so a text that was cut off
\* inside of a declaration is never accepted, wherever that was.
Closes == [RPAREN |-> "LPAREN", RBRACKET |-> "LBRACKET", RBRACE |-> "LBRACE"]
Opens == {"LPAREN", "LBRACKET", "LBRACE"}
Nest(open, t) ==
  IF t \in Opens THEN Append(open, t)
  ELSE IF t \notin DOMAIN Closes THEN open
  ELSE IF open # <<>> /\ Last(open) = Closes[t] THEN Front(open)
  ELSE Append(open, t)
AcceptedNests == Accepted => FoldLeft(Nest, <<>>, toks) = <<>>

\* No child is written outside of the array of its parent as long as no node has more
\* than fifteen.
ChildrenFit ==
  out = "overflow" => \E n \in DOMAIN nodes : Len(nodes[n].kids) > 15

\* A token behind the last one is read for the position of an error only: the text is
\* not accepted, not even when that error is in parentheses and dropped.
OverreadRejected == overread => out # "ok"

\* Parsing ends, whatever the text.
Terminates == <>(out # "parsing")
=============================================================================

---------------------------- MODULE SatsuTyping ----------------------------
(***************************************************************************)
(* What ls_sema makes sure of, as a relation between a program and a       *)
(* typing of it, without the order in which ls_sema goes about it.         *)
(*                                                                         *)
(* A typing t gives every node a function body is made of, that is every   *)
(* node the checker visits,                                                *)
(*   type:   the type of the value of an expression,                       *)
(*   result: the type the function around it returns,                      *)
(*   known:  the locals that are declared whenever the node is reached,    *)
(*   names:  the declarations of these and of whatever else may be in the  *)
(*           table by then, or is put there by the node or one around it.  *)
(* The two differ after a declaration that is the whole body of a loop.    *)
(***************************************************************************)
EXTENDS SatsuProgram

\* The type that the first child of a node names.
DeclType(p, m, n) == p[m][p[m][n].kids[1]].tok
\* A declaration of a local, as its symbol shows it.
LocalAs(p, m, n) == [type |-> DeclType(p, m, n), mod |-> m, node |-> n]

\* The declarations that ls_globalsymtab finds: no name is declared twice, and no
\* variable is of type void.
Declares(p, m, n) ==
  m \in DOMAIN p /\ n \in DOMAIN p[m] /\ p[m][n].type \in {"FUNCDECL", "GLOBALDECL"}
IsGlobal(p, sym) ==
  \E m \in DOMAIN p : \E n \in DOMAIN p[m] : Declares(p, m, n) /\ p[m][n].sym = sym

GlobalsTyped(p) ==
  /\ \A m, i \in DOMAIN p : \A n \in DOMAIN p[m], j \in DOMAIN p[i] :
       Declares(p, m, n) /\ Declares(p, i, j) /\ p[m][n].sym = p[i][j].sym => m = i /\ n = j
  /\ \A m \in DOMAIN p : \A n \in DOMAIN p[m] :
       p[m][n].type = "GLOBALDECL" => DeclType(p, m, n) # "void"

-----------------------------------------------------------------------------
(* How what is known of the locals goes from node to node; a and b are what the *)
(* typing says of two nodes.                                                    *)

Extends(a, b) == \A x \in DOMAIN a.names : x \in DOMAIN b.names /\ b.names[x] = a.names[x]

\* b is below a, and reached from it.
Within(a, b) == Extends(a, b) /\ b.result = a.result
Enters(a, b) == Within(a, b) /\ b.known \subseteq a.known

\* What is declared when a node is left.
KnownAfter(node, a) == a.known \union (IF node.type = "LOCALDECL" THEN {node.sym} ELSE {})
\* b is reached from the node of a when that is left, in the same scope.
Follows(node, a, b) == Extends(a, b) /\ b.known \subseteq KnownAfter(node, a)

-----------------------------------------------------------------------------
(* What is asked of a node n of module m. *)

\* The k-th child is checked, in a typing.
Has(p, t, m, n, k) == p[m][n].kids[k] \in DOMAIN t[m]
OfKid(p, t, m, n, k) == t[m][p[m][n].kids[k]]

\* All children from the first-th on are expressions evaluated one after the other.
OperandsTyped(p, t, m, n, first) ==
  \A k \in first..Len(p[m][n].kids) :
    Has(p, t, m, n, k) /\ Enters(t[m][n], OfKid(p, t, m, n, k))
KidFollows(p, t, m, n, j, k) ==
  Follows(p[m][p[m][n].kids[j]], OfKid(p, t, m, n, j), OfKid(p, t, m, n, k))

Number == {"int", "real"}
\* The two operands are of the same of these types.
SameOf(p, t, m, n, types) ==
  /\ OperandsTyped(p, t, m, n, 1)
  /\ OfKid(p, t, m, n, 1).type = OfKid(p, t, m, n, 2).type
  /\ OfKid(p, t, m, n, 1).type \in types

LocalDeclTyped(p, t, m, n) ==
  LET type == DeclType(p, m, n)
  IN /\ type # "void" /\ ~IsGlobal(p, p[m][n].sym)
     /\ p[m][n].sym \in DOMAIN t[m][n].names /\ t[m][n].names[p[m][n].sym] = LocalAs(p, m, n)
     /\ OperandsTyped(p, t, m, n, 2)
     /\ OfKid(p, t, m, n, 2).type = type

ReturnTyped(p, t, m, n) ==
  /\ OperandsTyped(p, t, m, n, 1)
  /\ IF p[m][n].kids = <<>> THEN t[m][n].result = "void"
     ELSE t[m][n].result # "void" /\ OfKid(p, t, m, n, 1).type = t[m][n].result

\* Children that are checked, each of which stands below n.
KidsWithin(p, t, m, n) ==
  \A k \in DOMAIN p[m][n].kids : Has(p, t, m, n, k) /\ Within(t[m][n], OfKid(p, t, m, n, k))

CtreeTyped(p, t, m, n) ==
  /\ KidsWithin(p, t, m, n)
  /\ OfKid(p, t, m, n, 1).type = "bool"
  /\ Enters(t[m][n], OfKid(p, t, m, n, 1))
  /\ \A k \in 2..Len(p[m][n].kids) : KidFollows(p, t, m, n, 1, k)

WhileTyped(p, t, m, n) ==
  /\ KidsWithin(p, t, m, n)
  /\ OfKid(p, t, m, n, 1).type = "bool"
  /\ Enters(t[m][n], OfKid(p, t, m, n, 1))
  /\ KidFollows(p, t, m, n, 1, 2) /\ KidFollows(p, t, m, n, 2, 1)

ForTyped(p, t, m, n) ==
  /\ KidsWithin(p, t, m, n)
  /\ OfKid(p, t, m, n, 2).type = "bool"
  /\ Enters(t[m][n], OfKid(p, t, m, n, 1))
  /\ KidFollows(p, t, m, n, 1, 2) /\ KidFollows(p, t, m, n, 2, 4)
  /\ KidFollows(p, t, m, n, 4, 3) /\ KidFollows(p, t, m, n, 3, 2)

BlockTyped(p, t, m, n) ==
  /\ KidsWithin(p, t, m, n)
  /\ p[m][n].kids # <<>> => Enters(t[m][n], OfKid(p, t, m, n, 1))
  /\ \A k \in 2..Len(p[m][n].kids) : KidFollows(p, t, m, n, k - 1, k)

\* A literal, a local that is known, or a global variable.
AtomTyped(p, t, m, n) ==
  LET node == p[m][n]
  IN \/ node.tok # "IDENT" /\ t[m][n].type = LitTypes[node.tok]
     \/ /\ node.tok = "IDENT" /\ node.sym \in t[m][n].known
        /\ node.sym \in DOMAIN t[m][n].names /\ t[m][n].type = t[m][n].names[node.sym].type
     \/ /\ node.tok = "IDENT"
        /\ \E i \in DOMAIN p : \E j \in DOMAIN p[i] :
             /\ p[i][j].type = "GLOBALDECL" /\ p[i][j].sym = node.sym
             /\ t[m][n].type = DeclType(p, i, j)

\* Any arguments: they are tested when the function is called.
SystemTyped(p, t, m, n) ==
  OperandsTyped(p, t, m, n, 2) /\ t[m][n].type = DeclType(p, m, n)

\* A call names a function, and its arguments are as many as the parameters of that
\* and of their types.
ParamsOf(p, m, n) == p[m][p[m][n].kids[2]].kids
ArgsTyped(p, t, m, n, i, j) ==
  /\ Len(p[m][n].kids) = Len(ParamsOf(p, i, j)) + 1
  /\ \A k \in DOMAIN ParamsOf(p, i, j) :
       OfKid(p, t, m, n, k + 1).type = DeclType(p, i, ParamsOf(p, i, j)[k])
CallTyped(p, t, m, n) ==
  /\ OperandsTyped(p, t, m, n, 2)
  /\ \E i \in DOMAIN p : \E j \in DOMAIN p[i] :
       /\ p[i][j].type = "FUNCDECL" /\ p[i][j].sym = p[m][p[m][n].kids[1]].sym
       /\ t[m][n].type = DeclType(p, i, j)
       /\ ArgsTyped(p, t, m, n, i, j)

AccessTyped(p, t, m, n) ==
  /\ OperandsTyped(p, t, m, n, 1)
  /\ t[m][n].type = "string" /\ OfKid(p, t, m, n, 1).type = "string"
  /\ \A k \in 2..Len(p[m][n].kids) : OfKid(p, t, m, n, k).type = "int"

UnaryTyped(p, t, m, n, types) ==
  /\ OperandsTyped(p, t, m, n, 1)
  /\ OfKid(p, t, m, n, 1).type \in types /\ t[m][n].type = OfKid(p, t, m, n, 1).type

CastTyped(p, t, m, n) ==
  /\ Has(p, t, m, n, 1) /\ Enters(t[m][n], OfKid(p, t, m, n, 1))
  /\ t[m][n].type = p[m][p[m][n].kids[2]].tok
  /\ <<OfKid(p, t, m, n, 1).type, t[m][n].type>> \in
       {<<"int", "real">>, <<"int", "string">>, <<"int", "bool">>, <<"real", "int">>,
        <<"real", "string">>, <<"string", "int">>, <<"string", "real">>,
        <<"bool", "int">>, <<"bool", "string">>}

TernaryTyped(p, t, m, n) ==
  /\ OperandsTyped(p, t, m, n, 1)
  /\ OfKid(p, t, m, n, 1).type = "bool" /\ t[m][n].type # "void"
  /\ \A k \in {2, 3} : OfKid(p, t, m, n, k).type = t[m][n].type

\* The target is a variable.
AssignTyped(p, t, m, n, types) ==
  /\ SameOf(p, t, m, n, types) /\ t[m][n].type = "void"
  /\ p[m][p[m][n].kids[1]].type = "EATOM" /\ p[m][p[m][n].kids[1]].tok = "IDENT"

NodeTyped(p, t, m, n) ==
  LET type == p[m][n].type
      same(types) == SameOf(p, t, m, n, types)
  IN \/ type = "LOCALDECL" /\ LocalDeclTyped(p, t, m, n)
     \/ type = "RETURN" /\ ReturnTyped(p, t, m, n)
     \/ type = "CTREE" /\ CtreeTyped(p, t, m, n)
     \/ type = "WHILE" /\ WhileTyped(p, t, m, n)
     \/ type = "FOR" /\ ForTyped(p, t, m, n)
     \/ type = "BLOCK" /\ BlockTyped(p, t, m, n)
     \/ type \in {"BREAK", "CONTINUE"}
     \/ type = "EATOM" /\ AtomTyped(p, t, m, n)
     \/ type = "ESYSTEM" /\ SystemTyped(p, t, m, n)
     \/ type = "ECALL" /\ CallTyped(p, t, m, n)
     \/ type = "EACCESS" /\ AccessTyped(p, t, m, n)
     \/ type = "ENEG" /\ UnaryTyped(p, t, m, n, Number)
     \/ type = "ENOT" /\ UnaryTyped(p, t, m, n, {"bool"})
     \/ type = "ECAST" /\ CastTyped(p, t, m, n)
     \/ type = "ETERNARY" /\ TernaryTyped(p, t, m, n)
     \/ type = "EADD" /\ same(Number \union {"string"}) /\ t[m][n].type = OfKid(p, t, m, n, 1).type
     \/ type \in Arithmetics /\ same(Number) /\ t[m][n].type = OfKid(p, t, m, n, 1).type
     \/ type \in Comparisons /\ same(Number \union {"string"}) /\ t[m][n].type = "bool"
     \/ type \in Logicals /\ same({"bool"}) /\ t[m][n].type = "bool"
     \/ type = "EASSIGN" /\ AssignTyped(p, t, m, n, PrimTypes \ {"void"})
     \/ type = "EADDASSIGN" /\ AssignTyped(p, t, m, n, Number \union {"string"})
     \/ type \in Assigns \ {"EASSIGN", "EADDASSIGN"} /\ AssignTyped(p, t, m, n, Number)

\* The body of a function knows its parameters and nothing else.
FunctionTyped(p, t, m, n) ==
  LET body == OfKid(p, t, m, n, 3)
      params == ParamsOf(p, m, n)
  IN /\ Has(p, t, m, n, 3)
     /\ body.result = DeclType(p, m, n)
     /\ body.known \subseteq {p[m][params[i]].sym : i \in DOMAIN params}
     /\ \A i \in DOMAIN params :
          LET sym == p[m][params[i]].sym
              type == DeclType(p, m, params[i])
          IN /\ type # "void" /\ ~IsGlobal(p, sym)
             /\ sym \in DOMAIN body.names /\ body.names[sym] = LocalAs(p, m, params[i])

WellTyped(p, t) ==
  /\ GlobalsTyped(p)
  /\ \A m \in DOMAIN p : \A n \in DOMAIN p[m] :
       /\ n \in DOMAIN t[m] => NodeTyped(p, t, m, n)
       /\ p[m][n].type = "FUNCDECL" => FunctionTyped(p, t, m, n)

-----------------------------------------------------------------------------
(* What is asked of the strings of a program, which ls_sema does not look at. *)

\* A string that a statement leaves is one nobody releases when it is the body of a
\* function, and one that is released twice when the body of a for loop leaves it and
\* the increment writes nothing; leaving is the set of the nodes of each module that
\* may leave one.
StringsUsed(p, t, leaving) ==
  \A m \in DOMAIN p : \A n \in DOMAIN p[m] :
    LET node == p[m][n]
        leaves(k) == node.kids[k] \in leaving[m]
    IN /\ n \in DOMAIN t[m] /\ node.type \in ExprTypes /\ t[m][n].type = "string" =>
            n \in leaving[m]
       /\ node.type = "CTREE" /\ (\E k \in 2..Len(node.kids) : leaves(k)) => n \in leaving[m]
       /\ node.type = "FUNCDECL" => ~leaves(3)
       /\ node.type = "FOR" /\ leaves(4) => p[m][node.kids[3]].type \notin Assigns
=============================================================================

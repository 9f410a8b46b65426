----------------------------- MODULE SatsuSema -----------------------------
(***************************************************************************)
(* Semantic analysis (ls_sema.c) as a function of a program.               *)
(*                                                                         *)
(* A checker is a record: what ls_sema_t holds, how the analysis stands    *)
(* ("ok", "rejected" with an error, or "undefined" when it read memory     *)
(* that is not there), and two results the code does not keep but decides: *)
(* the declaration each name was resolved to and the type each expression  *)
(* was given.  Every handler takes a checker and a node to a checker; a    *)
(* checker that is not "ok" is returned as it is.                          *)
(***************************************************************************)
EXTENDS SatsuProgram

\* LS_MAXSYSARGS
MaxSysArgs == 6

Checker(p) ==
  [m |-> p, st |-> <<>>, mod |-> 0, rettype |-> "null", loopdepth |-> 0, scope |-> 0,
   out |-> "ok", uses |-> {}, types |-> {}]

Ok(s) == s.out = "ok"
Reject(s) == IF Ok(s) THEN [s EXCEPT !.out = "rejected"] ELSE s
ReadPast(s) == IF Ok(s) THEN [s EXCEPT !.out = "undefined"] ELSE s
Require(s, cond) == IF Ok(s) /\ ~cond THEN Reject(s) ELSE s

AstNode(s, mod, n) == s.m[mod][n]
This(s, n) == AstNode(s, s.mod, n)
KidOf(s, n, k) == This(s, n).kids[k]
\* ls_toktoprim of the token of a node.
TokType(s, mod, n) ==
  IF AstNode(s, mod, n).tok \in PrimTypes THEN AstNode(s, mod, n).tok ELSE "null"

Declared(s, sym) == FindSym(s.st, sym) # 0
DeclOf(s, sym) == s.st[FindSym(s.st, sym)]

Push(s, sym, type, n) ==
  IF Ok(s)
  THEN [s EXCEPT !.st = Append(@, Symbol(sym, type, s.mod, n, s.scope, Null))]
  ELSE s
Open(s) == [s EXCEPT !.scope = @ + 1]
\* ls_popsymscope(s->st, s->scope--)
Close(s) ==
  IF Ok(s)
  THEN [s EXCEPT !.st = Prefix(@, Kept(@, s.scope)), !.scope = @ - 1]
  ELSE s
OpenLoop(s) == [Open(s) EXCEPT !.loopdepth = @ + 1]
CloseLoop(s) == Close([s EXCEPT !.loopdepth = @ - 1])

-----------------------------------------------------------------------------
(* Types. *)

\* ls_typeof: the type of an expression that has been checked.
RECURSIVE TypeOf(_, _)
TypeOf(s, n) ==
  LET node == This(s, n)
      callee == DeclOf(s, This(s, node.kids[1]).sym)
  IN CASE node.type = "EATOM" /\ node.tok \in DOMAIN LitTypes -> LitTypes[node.tok]
       [] node.type = "EATOM" /\ node.tok = "IDENT" -> DeclOf(s, node.sym).type
       [] node.type = "ESYSTEM" -> TokType(s, s.mod, node.kids[1])
       [] node.type = "ECALL" ->
            TokType(s, callee.mod, AstNode(s, callee.mod, callee.node).kids[1])
       [] node.type = "ECAST" -> TokType(s, s.mod, node.kids[2])
       [] node.type = "ETERNARY" -> TypeOf(s, node.kids[2])
       [] node.type \in Comparisons \union Logicals \union {"ENOT"} -> "bool"
       [] node.type \in Assigns -> "void"
       [] OTHER -> TypeOf(s, node.kids[1])

\* ls_valuetypeof is LS_LVALUE.
Lvalue(s, n) ==
  /\ This(s, n).type = "EATOM" /\ This(s, n).tok = "IDENT"
  /\ DeclOf(s, This(s, n).sym).type # "func"

KidType(s, n, k) == TypeOf(s, KidOf(s, n, k))
SameType(s, n) == KidType(s, n, 1) = KidType(s, n, 2)

LegalCasts ==
  {<<"int", "real">>, <<"int", "string">>, <<"int", "bool">>, <<"real", "int">>,
   <<"real", "string">>, <<"string", "int">>, <<"string", "real">>,
   <<"bool", "int">>, <<"bool", "string">>}

Numbers == {"int", "real"}

-----------------------------------------------------------------------------
(* What each handler requires of an expression whose operands are checked. *)

AccessOk(s, n) ==
  /\ KidType(s, n, 1) = "string"
  /\ \A k \in 2..Len(This(s, n).kids) : KidType(s, n, k) = "int"
NegOk(s, n) == KidType(s, n, 1) \in Numbers
NotOk(s, n) == KidType(s, n, 1) = "bool"
CastOk(s, n) == <<KidType(s, n, 1), TypeOf(s, n)>> \in LegalCasts
\* Mutant: the operands need not have the same type.
AddOkLoose(s, n) == KidType(s, n, 1) \in Numbers \union {"string"}
AddOk(s, n) == SameType(s, n) /\ KidType(s, n, 1) \in Numbers \union {"string"}
TernaryOk(s, n) ==
  /\ KidType(s, n, 1) = "bool"
  /\ KidType(s, n, 2) = KidType(s, n, 3) /\ KidType(s, n, 2) # "void"
AssignOk(s, n) == SameType(s, n) /\ Lvalue(s, KidOf(s, n, 1))
AddAssignOk(s, n) == AddOk(s, n) /\ Lvalue(s, KidOf(s, n, 1))
RelationalOk(s, n) == SameType(s, n) /\ KidType(s, n, 1) \in Numbers \union {"string"}
LogicalOk(s, n) == KidType(s, n, 1) = "bool" /\ KidType(s, n, 2) = "bool"
ArithmeticOk(s, n) == SameType(s, n) /\ KidType(s, n, 1) \in Numbers
ArithmeticAssignOk(s, n) == ArithmeticOk(s, n) /\ Lvalue(s, KidOf(s, n, 1))

\* The part of ls_semafns for expressions made of operands.
ExprOk(s, n) ==
  LET type == This(s, n).type
  IN CASE type = "EACCESS" -> AccessOk(s, n)
       [] type = "ENEG" -> NegOk(s, n)
       [] type = "ENOT" -> NotOk(s, n)
       [] type = "ECAST" -> CastOk(s, n)
       [] type = "EADD" -> AddOk(s, n)
       [] type = "ETERNARY" -> TernaryOk(s, n)
       [] type = "EASSIGN" -> AssignOk(s, n)
       [] type = "EADDASSIGN" -> AddAssignOk(s, n)
       [] type \in Comparisons -> RelationalOk(s, n)
       [] type \in Logicals -> LogicalOk(s, n)
       [] type \in Arithmetics -> ArithmeticOk(s, n)
       [] OTHER -> ArithmeticAssignOk(s, n)

-----------------------------------------------------------------------------
(* The handlers that do not call others. *)

Resolve(s, n, sym) ==
  [s EXCEPT !.uses = @ \union
     {[mod |-> s.mod, node |-> n, declmod |-> DeclOf(s, sym).mod,
       decl |-> DeclOf(s, sym).node]}]

SemaEatom(s, n) ==
  LET node == This(s, n)
  IN IF node.tok # "IDENT" THEN s
     ELSE IF Declared(s, node.sym) /\ DeclOf(s, node.sym).type # "func"
     THEN Resolve(s, n, node.sym)
     ELSE Reject(s)

\* break and continue
SemaJump(s, n) == Require(s, s.loopdepth # 0)

\* Mutant: a name that is taken is taken again.
SemaArgAgain(s, n) ==
  LET node == This(s, n)
      type == TokType(s, s.mod, node.kids[1])
  IN Push(Require(s, type # "void"), node.sym, type, n)

\* The arguments of a function, as symbols of the scope it opens.
SemaArg(s, n) ==
  LET node == This(s, n)
      type == TokType(s, s.mod, node.kids[1])
  IN Push(Require(s, ~Declared(s, node.sym) /\ type # "void"), node.sym, type, n)

-----------------------------------------------------------------------------
(* The handlers that call others. *)

RECURSIVE Check(_, _)

\* The children first..last of n, in order.
CheckKids(s, n, first, last) ==
  FoldLeft(LAMBDA t, k : Check(t, KidOf(s, n, k)), s, [i \in 1..(last - first + 1) |-> first + i - 1])

SemaFuncDecl(s, n) ==
  LET args == FoldLeft(SemaArg, Open(s), This(s, KidOf(s, n, 2)).kids)
      body == Check([args EXCEPT !.rettype = TokType(s, s.mod, KidOf(s, n, 1))],
                    KidOf(s, n, 3))
  IN Close([body EXCEPT !.rettype = "null"])

SemaLocalDecl(s, n) ==
  LET sym == This(s, n).sym
      type == TokType(s, s.mod, KidOf(s, n, 1))
      val == Check(Require(s, ~Declared(s, sym) /\ type # "void"), KidOf(s, n, 2))
  IN Push(Require(val, KidType(val, n, 2) = type), sym, type, n)

SemaReturn(s, n) ==
  LET given == This(s, n).kids # <<>>
      val == CheckKids(s, n, 1, 1)
  IN IF given = (s.rettype = "void") THEN Reject(s)
     ELSE IF given THEN Require(val, KidType(val, n, 1) = s.rettype)
     ELSE s

SemaCtree(s, n) ==
  LET cond == CheckKids(s, n, 1, 1)
      branch(t, k) == Close(CheckKids(Open(t), n, k, k))
      taken == branch(Require(cond, KidType(cond, n, 1) = "bool"), 2)
  IN IF Len(This(s, n).kids) = 3 THEN branch(taken, 3) ELSE taken

SemaWhile(s, n) ==
  LET cond == CheckKids(OpenLoop(s), n, 1, 1)
  IN CloseLoop(CheckKids(Require(cond, KidType(cond, n, 1) = "bool"), n, 2, 2))

SemaFor(s, n) ==
  LET cond == CheckKids(OpenLoop(s), n, 1, 2)
  IN CloseLoop(CheckKids(Require(cond, KidType(cond, n, 2) = "bool"), n, 3, 4))

\* Mutant: the symbols of the block are left in the scope around it.
SemaBlockFlat(s, n) == CheckKids(s, n, 1, Len(This(s, n).kids))

SemaBlock(s, n) == Close(CheckKids(Open(s), n, 1, Len(This(s, n).kids)))

SemaEsystem(s, n) ==
  LET nkids == Len(This(s, n).kids)
  IN CheckKids(Require(s, nkids - 1 <= MaxSysArgs), n, 2, nkids)

\* The second child of the declaration is taken for its list of arguments; that
\* the symbol is a function is not asked.
SemaEcall(s, n) ==
  LET f == This(s, KidOf(s, n, 1))
      nkids == Len(This(s, n).kids)
      d == DeclOf(s, f.sym)
      decl == AstNode(s, d.mod, d.node)
      params == AstNode(s, d.mod, decl.kids[2]).kids
      paramkids(k) == AstNode(s, d.mod, params[k - 1]).kids
      arg(t, k) ==
        LET val == CheckKids(t, n, k, k)
        IN IF ~Ok(val) THEN val
           ELSE IF paramkids(k) = <<>> THEN ReadPast(val)
           ELSE Require(val, KidType(val, n, k) = TokType(s, d.mod, paramkids(k)[1]))
  IN IF f.type # "EATOM" \/ f.tok # "IDENT" \/ ~Declared(s, f.sym) THEN Reject(s)
     ELSE IF Len(decl.kids) < 2 THEN ReadPast(s)
     ELSE IF Len(params) # nkids - 1 THEN Reject(s)
     ELSE FoldLeft(arg, Resolve(s, KidOf(s, n, 1), f.sym), [i \in 1..(nkids - 1) |-> i + 1])

\* The operands in order, then what is required of them.
SemaOperands(s, n) ==
  LET opnds == CheckKids(s, n, 1, IF This(s, n).type = "ECAST" THEN 1
                                  ELSE Len(This(s, n).kids))
  IN Require(opnds, ExprOk(opnds, n))

Typed(s, n) ==
  IF Ok(s)
  THEN [s EXCEPT !.types = @ \union {[mod |-> s.mod, node |-> n, type |-> TypeOf(s, n)]}]
  ELSE s

\* ls_semafns
Check(s, n) ==
  LET type == This(s, n).type
  IN CASE ~Ok(s) -> s
       [] type = "LOCALDECL" -> SemaLocalDecl(s, n)
       [] type = "RETURN" -> SemaReturn(s, n)
       [] type = "CTREE" -> SemaCtree(s, n)
       [] type = "WHILE" -> SemaWhile(s, n)
       [] type = "FOR" -> SemaFor(s, n)
       [] type \in {"BREAK", "CONTINUE"} -> SemaJump(s, n)
       [] type = "BLOCK" -> SemaBlock(s, n)
       [] type = "EATOM" -> Typed(SemaEatom(s, n), n)
       [] type = "ESYSTEM" -> Typed(SemaEsystem(s, n), n)
       [] type = "ECALL" -> Typed(SemaEcall(s, n), n)
       [] OTHER -> Typed(SemaOperands(s, n), n)

-----------------------------------------------------------------------------
(* A program. *)

\* The nodes of the given types, module by module, in the order of the walks of
\* ls_globalsymtab and ls_sema.
NodesOf(p, types) ==
  FlattenSeq([i \in DOMAIN p |->
    SelectSeq([j \in DOMAIN p[i] |-> [mod |-> i, node |-> j]],
              LAMBDA at : p[at.mod][at.node].type \in types)])

\* A function or a variable in ls_globalsymtab.
DeclareGlobal(s, at) ==
  LET node == AstNode(s, at.mod, at.node)
      type == IF node.type = "FUNCDECL" THEN "func" ELSE TokType(s, at.mod, node.kids[1])
  IN Push(Require([s EXCEPT !.mod = at.mod], ~Declared(s, node.sym) /\ type # "void"),
          node.sym, type, at.node)

\* Each function is checked by an ls_sema_t of its own, which shares the table.
SemaFunction(s, at) ==
  IF Ok(s)
  THEN SemaFuncDecl([s EXCEPT !.mod = at.mod, !.rettype = "null", !.loopdepth = 0,
                              !.scope = 0], at.node)
  ELSE s

\* ls_sema
Sema(p) ==
  FoldLeft(SemaFunction,
           FoldLeft(DeclareGlobal, Checker(p), NodesOf(p, {"FUNCDECL", "GLOBALDECL"})),
           NodesOf(p, {"FUNCDECL"}))
=============================================================================

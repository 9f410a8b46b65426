--------------------------- MODULE SatsuChecked ----------------------------
(***************************************************************************)
(* The interpreter on programs that semantic analysis accepts: what was    *)
(* decided is what the model of ls_sema gives.                             *)
(***************************************************************************)
EXTENDS SatsuAgreement, SatsuSema

\* main and p_execmodule run a program only if ls_sema accepts it.
CheckedInit ==
  /\ Init
  /\ sema = Sema(prog)
  /\ sema.out = "ok"

CheckedSpec == CheckedInit /\ [][CheckedNext]_checkedvars

-----------------------------------------------------------------------------
(* The typing of a program that ls_sema has accepted. *)

Declaring(ast, n) == IF ast[n].type = "LOCALDECL" THEN {n} ELSE {}

RECURSIVE Contexts(_, _, _, _)
\* For n and the nodes below it: the declarations that have been passed whenever the
\* node is reached, and those whose symbols may be in the table by then.
Contexts(ast, n, known, may) ==
  LET node == ast[n]
      before(k) ==
        IF node.type = "BLOCK" THEN UNION {Declaring(ast, node.kids[j]) : j \in 1..(k - 1)}
        ELSE IF node.type = "FOR" /\ k > 1 THEN Declaring(ast, node.kids[1])
        ELSE {}
      \* The body of a loop may have run.
      around(k) ==
        IF node.type = "WHILE" THEN Declaring(ast, node.kids[2])
        ELSE IF node.type = "FOR" /\ k > 1 THEN Declaring(ast, node.kids[4])
        ELSE {}
      here == may \union Declaring(ast, n)
  IN {[node |-> n, known |-> known, may |-> here]}
       \union UNION {Contexts(ast, node.kids[k], known \union before(k),
                             here \union before(k) \union around(k)) : k \in DOMAIN node.kids}

\* The nodes ls_sema visits, by the function they are in: its parameters are known.
Visited(m) ==
  LET ast == prog[m]
      typed(n) == \E x \in sema.types : x.mod = m /\ x.node = n
      functions == {f \in DOMAIN ast : ast[f].type = "FUNCDECL"}
      under(f) == LET params == Range(ast[ast[f].kids[2]].kids)
                  IN {[c |-> c, function |-> f] : c \in Contexts(ast, ast[f].kids[3], params, params)}
  IN {x \in UNION {under(f) : f \in functions} :
        ast[x.c.node].type \in StmtTypes \/ typed(x.c.node)}

TypingOf(m) ==
  LET ast == prog[m]
      typeOf(n) == LET types == {x.type : x \in {y \in sema.types : y.mod = m /\ y.node = n}}
                   IN IF types = {} THEN "void" ELSE CHOOSE type \in types : TRUE
      syms(decls) == {ast[d].sym : d \in decls}
      visited == Visited(m)
  IN [n \in {x.c.node : x \in visited} |->
        LET x == CHOOSE y \in visited : y.c.node = n
        IN [type |-> typeOf(n), result |-> DeclType(prog, m, x.function),
            known |-> syms(x.c.known),
            names |-> [sym \in syms(x.c.may) |->
                         LocalAs(prog, m, CHOOSE d \in x.c.may : ast[d].sym = sym)]]]

Typing == [m \in DOMAIN prog |-> TypingOf(m)]

\* The nodes that leave a string: an expression of that type, and a condition with a
\* branch that leaves one, through at most as many conditions as there are nodes.
Leaving(t) ==
  LET strings(m) ==
        {n \in DOMAIN t[m] : prog[m][n].type \in ExprTypes /\ t[m][n].type = "string"}
      hands(m, n, S) ==
        /\ prog[m][n].type = "CTREE"
        /\ \E k \in 2..Len(prog[m][n].kids) : prog[m][n].kids[k] \in S
      within(m) == LET f[d \in 0..Len(prog[m])] ==
                         IF d = 0 THEN strings(m)
                         ELSE LET S == f[d - 1]
                              IN S \union {n \in DOMAIN prog[m] : hands(m, n, S)}
                   IN f[Len(prog[m])]
  IN [m \in DOMAIN prog |-> within(m)]

\* What ls_sema accepts is well-typed: its walk of the text, with one table and early
\* returns, has found for each node what the typing relation asks of it, and has decided
\* what the typing says.  So CheckedSpec implies AgreedSpec.  And none of these programs
\* drops a string where nobody releases it, which ls_sema does not look at.
AcceptedTyped ==
  phase = "symtab" /\ walk = [mod |-> 1, node |-> 1] =>
    \E t \in {Typing} :
      /\ WellTyped(prog, t) /\ Decided(t)
      /\ \E leaving \in {Leaving(t)} : StringsUsed(prog, t, leaving)

-----------------------------------------------------------------------------
\* A call names a function: "expected function atom node" is the error ls_semaecall
\* has for anything else, and ls_exececall does not ask.
CalledIsFunction ==
  Running /\ N.type = "ECALL" /\ ret = NoRet => CalleeOk(Top)
=============================================================================

-------------------------- MODULE SatsuAgreement --------------------------
(***************************************************************************)
(* The interpreter next to what semantic analysis decided about the        *)
(* program.  The two walk the same tree separately: ls_sema in the order   *)
(* of the text, with one table for globals and locals, ls_exec in the      *)
(* order of execution, with a table per call.  The interpreter tests next  *)
(* to nothing and relies on what ls_sema decided.                          *)
(***************************************************************************)
EXTENDS SatsuExec, SatsuTyping

VARIABLE sema  \* what ls_sema decided about prog

checkedvars == <<vars, sema>>

CheckedNext == Next /\ UNCHANGED sema

-----------------------------------------------------------------------------
\* The name Top is about to look up, as a node, and the symbol it gets.
Looking == (Starting({"EATOM"}) /\ N.tok = "IDENT") \/ Ready(Assigns)
LookedUp == IF N.type = "EATOM" THEN Top.node ELSE Kid(1)

\* A name means at run time what it meant to ls_sema: the symbol found in the
\* tables of the moment was made by the declaration that was in scope in the text,
\* and a call enters the function it was checked against.
NamesAgree ==
  /\ Looking =>
       LET sym == Node(Top.mod, LookedUp).sym
       IN /\ Found(sym)
          /\ [mod |-> Top.mod, node |-> LookedUp, declmod |-> Lookup(sym).mod,
              decl |-> Lookup(sym).node] \in sema.uses
  /\ Running /\ N.type = "ECALL" /\ CalleeIdx(Top) # 0 =>
       [mod |-> Top.mod, node |-> Kid(1), declmod |-> Callee(Top).mod,
        decl |-> Callee(Top).node] \in sema.uses

\* The value an expression gives back has the type ls_typeof gave the expression,
\* in its tag and in the member of the union it was written to, sums of reals
\* aside; one of type void writes nothing or LS_VOID.
ValuesTyped ==
  Running /\ ret # NoRet /\ Top.at \in 1..Arity =>
    \A t \in sema.types :
      t.mod = Top.mod /\ t.node = Kid(Top.at) =>
        IF t.type = "void" THEN ret.val.type \in {"unwritten", "void"}
        ELSE ret.val.type = t.type /\ AsWritten(ret.val)

\* Two symbols of one name never stand for two declarations, neither in one table
\* nor in that of a call and the globals: what the redefinition checks of ls_sema
\* promise, at every moment of the run.
NoShadowing ==
  \A d \in DOMAIN fns : \A i \in DOMAIN fns[d].syms :
    LET x == fns[d].syms[i]
    IN /\ FindSym(globals, x.sym) = 0
       /\ \A j \in DOMAIN fns[d].syms :
            fns[d].syms[j].sym = x.sym =>
              fns[d].syms[j].mod = x.mod /\ fns[d].syms[j].node = x.node

-----------------------------------------------------------------------------
(* What was decided, as far as a typing bears it out. *)

\* The use of a name, at node n of module m, for the declaration at node j of module i.
Use(m, n, i, j) == [mod |-> m, node |-> n, declmod |-> i, decl |-> j]

\* What a node n of module m uses was found: a name where the local is declared, if that
\* is known, or else where a global is; and a function where it is declared.
Resolved(t, m, n) ==
  LET node == prog[m][n]
      a == t[m][n]
      isName == node.type = "EATOM" /\ node.tok = "IDENT"
      asGlobal(k, types) ==
        \A i \in DOMAIN prog : \A j \in DOMAIN prog[i] :
          prog[i][j].type \in types /\ prog[i][j].sym = prog[m][k].sym => Use(m, k, i, j) \in sema.uses
  IN /\ isName /\ node.sym \in a.known =>
          Use(m, n, a.names[node.sym].mod, a.names[node.sym].node) \in sema.uses
     /\ isName /\ node.sym \notin a.known => asGlobal(n, {"GLOBALDECL"})
     /\ node.type = "ECALL" => asGlobal(node.kids[1], {"FUNCDECL"})

\* Every name was found where the typing says, and every expression given its type.
Decided(t) ==
  /\ \A m \in DOMAIN prog : \A n \in DOMAIN prog[m] : n \in DOMAIN t[m] => Resolved(t, m, n)
  /\ \A x \in sema.types : /\ prog[x.mod][x.node].type \in ExprTypes
                           /\ x.node \in DOMAIN t[x.mod] /\ t[x.mod][x.node].type = x.type

\* The program has a typing that bears out what was decided.
AgreedInit == Init /\ \E t : WellTyped(prog, t) /\ Decided(t)

AgreedSpec == AgreedInit /\ [][CheckedNext]_checkedvars
=============================================================================

---------------------------- MODULE SatsuProgram ----------------------------
(***************************************************************************)
(* What the checker (ls_sema.c) and the interpreter (ls_exec.c) share: the *)
(* primitive types, the syntax tree ls_parse builds, values, and symbol    *)
(* tables with the operations both use on them.  There is no state here.   *)
(***************************************************************************)
EXTENDS Integers, Sequences, SequencesExt

PrimTypes == {"int", "real", "string", "bool", "void"}
ValTypes == PrimTypes \union {"null"}
SymTypes == PrimTypes \union {"func"}
Assigns == {"EASSIGN", "EADDASSIGN", "ESUBASSIGN", "EMULASSIGN", "EDIVASSIGN", "EMODASSIGN"}
Arithmetics == {"EMUL", "EDIV", "EMOD", "ESUB"}
Comparisons == {"ELESS", "ELEQUAL", "EGREATER", "EGREQUAL", "EEQUAL", "ENEQUAL"}
Logicals == {"EAND", "EOR", "EXOR"}
Binaries == Arithmetics \union Comparisons \union Logicals \union {"EADD"}

\* ls_val_t, a tagged union: the tag, the block of a string, and the member of
\* the union that was written last (under the tags null and void, none).  Every
\* reader takes the member that the tag names.  {0} has the type LS_NULL.
NoBlock == "no block"
Val(type) == [type |-> type, str |-> NoBlock, member |-> type]
StrVal(b) == [type |-> "string", str |-> b, member |-> "string"]
Null == Val("null")
\* The sum ls_execeadd makes of two reals: written as an integer, read as a real.
RealSum == [type |-> "real", str |-> NoBlock, member |-> "int"]
AsWritten(v) == v.member = v.type \/ v = RealSum
-----------------------------------------------------------------------------
(* The syntax tree. *)

StmtTypes ==
  {"LOCALDECL", "RETURN", "CTREE", "WHILE", "FOR", "BREAK", "CONTINUE", "BLOCK"}
ExprTypes ==
  {"EATOM", "ESYSTEM", "ECALL", "EACCESS", "ENEG", "ENOT", "ECAST", "ETERNARY"}
    \union Binaries \union Assigns
NodeTypes ==
  {"ROOT", "IMPORT", "FUNCDECL", "GLOBALDECL", "ARGLIST", "ARG", "TYPE"}
    \union StmtTypes \union ExprTypes

\* The number of children ls_parse gives a node of each type.
Arities(type) ==
  CASE type \in {"FUNCDECL", "ETERNARY"} -> {3}
    [] type = "FOR" -> {4}
    [] type \in {"CTREE", "EACCESS"} -> {2, 3}
    [] type \in {"LOCALDECL", "WHILE", "ECAST", "EADD"}
         \union Arithmetics \union Comparisons \union Logicals \union Assigns -> {2}
    [] type \in {"GLOBALDECL", "ARG", "ENEG", "ENOT"} -> {1}
    [] type = "RETURN" -> {0, 1}
    [] type \in {"ESYSTEM", "ECALL"} -> Nat \ {0}
    [] type \in {"IMPORT", "BREAK", "CONTINUE", "TYPE", "EATOM"} -> {0}
    [] OTHER -> Nat

\* What the k-th child of a node of each type can be.
ChildTypes(type, k) ==
  CASE \/ k = 1 /\ type \in {"FUNCDECL", "GLOBALDECL", "LOCALDECL", "ARG", "ESYSTEM"}
       \/ k = 2 /\ type = "ECAST" -> {"TYPE"}
    [] type = "FUNCDECL" /\ k = 2 -> {"ARGLIST"}
    [] type = "ARGLIST" -> {"ARG"}
    [] type = "ROOT" -> {"IMPORT", "FUNCDECL", "GLOBALDECL"}
    [] type = "FOR" /\ k = 1 -> ExprTypes \union {"LOCALDECL"}
    [] \/ type = "BLOCK"
       \/ type = "FUNCDECL" /\ k = 3
       \/ type \in {"CTREE", "WHILE"} /\ k > 1
       \/ type = "FOR" /\ k = 4 -> StmtTypes \union ExprTypes
    [] OTHER -> ExprTypes

\* The value of a literal, by its token.
LitTypes ==
  [LITSTR |-> "string", LITINT |-> "int", LITREAL |-> "real",
   KWTRUE |-> "bool", KWFALSE |-> "bool"]

NodeRecord == [type : NodeTypes, tok : STRING, sym : STRING, kids : Seq(Nat)]

\* What ls_parse guarantees of a node: its children exist and are as many as its
\* type says, and each is of a kind that stands in its place.
NodeOk(ast, n) ==
  LET node == ast[n]
  IN /\ \A k \in DOMAIN node.kids :
          /\ node.kids[k] \in DOMAIN ast
          /\ ast[node.kids[k]].type \in ChildTypes(node.type, k)
     /\ Len(node.kids) \in Arities(node.type)
     /\ node.type = "TYPE" => node.tok \in PrimTypes
     /\ node.type = "EATOM" => node.tok = "IDENT" \/ node.tok \in DOMAIN LitTypes

\* What ls_sema asks of jumps, told by the set of the nodes it visits at a loop depth
\* above 0: every break and continue is there, a node is there because its parent is or
\* is a loop, and no function is.
JumpsInLoops(ast, inside) ==
  /\ \A n \in DOMAIN ast : ast[n].type \in {"BREAK", "CONTINUE"} => n \in inside
  /\ \A n \in DOMAIN ast : \A k \in DOMAIN ast[n].kids :
       ast[n].kids[k] \in inside => n \in inside \/ ast[n].type \in {"WHILE", "FOR"}
  /\ \A n \in DOMAIN ast : ast[n].type = "FUNCDECL" => n \notin inside

-----------------------------------------------------------------------------
(* Symbol tables: sequences of symbols, searched from the front. *)

Symbol(sym, type, mod, node, scope, val) ==
  [sym |-> sym, type |-> type, mod |-> mod, node |-> node, scope |-> scope, val |-> val]

\* ls_findsym, with 0 for its -1.
FindSym(st, sym) ==
  IF \E i \in DOMAIN st : st[i].sym = sym
  THEN CHOOSE i \in DOMAIN st :
         st[i].sym = sym /\ \A j \in DOMAIN st : st[j].sym = sym => i <= j
  ELSE 0

\* Mutant: the symbols of the scope itself are left.
KeptDeeper(st, scope) ==
  CHOOSE k \in 0..Len(st) :
    /\ k > 0 => st[k].scope <= scope
    /\ \A i \in (k + 1)..Len(st) : st[i].scope > scope

\* The number of symbols ls_popsymscope leaves.
Kept(st, scope) ==
  CHOOSE k \in 0..Len(st) :
    /\ k > 0 => st[k].scope < scope
    /\ \A i \in (k + 1)..Len(st) : st[i].scope >= scope

Prefix(st, k) == [i \in 1..k |-> st[i]]
\* The values of the symbols after the first k.
ValsAfter(st, k) == [i \in 1..(Len(st) - k) |-> st[k + i].val]
=============================================================================

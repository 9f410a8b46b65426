----------------------------- MODULE SatsuTrees -----------------------------
(***************************************************************************)
(* Syntax trees written as terms.  A term is already the node array that   *)
(* ls_parse builds for it, in preorder, with each child given by its       *)
(* distance from its parent, so that arrays can be put one after another;  *)
(* Module makes the children absolute.  Used by the model-checking modules *)
(* to write the programs they run.                                         *)
(***************************************************************************)
EXTENDS Integers, Sequences, SequencesExt

Tree(type, tok, sym, kids) ==
  <<[type |-> type, tok |-> tok, sym |-> sym,
     kids |-> [i \in 1..Len(kids) |-> 1 + Len(FlattenSeq(SubSeq(kids, 1, i - 1)))]]>>
  \o FlattenSeq(kids)

Type(t) == Tree("TYPE", t, "", <<>>)
Func(ret, name, args, body) ==
  Tree("FUNCDECL", "IDENT", name, <<Type(ret), Tree("ARGLIST", "LPAREN", "", args), body>>)
Arg(type, name) == Tree("ARG", "IDENT", name, <<Type(type)>>)
Global(type, name) == Tree("GLOBALDECL", "IDENT", name, <<Type(type)>>)
Import(name) == Tree("IMPORT", "IDENT", name, <<>>)
New(type, name, val) == Tree("LOCALDECL", "IDENT", name, <<Type(type), val>>)
Do(stmts) == Tree("BLOCK", "LBRACE", "", stmts)
If(c, t) == Tree("CTREE", "KWIF", "", <<c, t>>)
IfElse(c, t, f) == Tree("CTREE", "KWIF", "", <<c, t, f>>)
WhileDo(c, body) == Tree("WHILE", "KWWHILE", "", <<c, body>>)
ForDo(init, c, inc, body) == Tree("FOR", "KWFOR", "", <<init, c, inc, body>>)
BreakStmt == Tree("BREAK", "KWBREAK", "", <<>>)
ContinueStmt == Tree("CONTINUE", "KWCONTINUE", "", <<>>)
ReturnVoid == Tree("RETURN", "KWRETURN", "", <<>>)
ReturnVal(v) == Tree("RETURN", "KWRETURN", "", <<v>>)

Id(name) == Tree("EATOM", "IDENT", name, <<>>)
Str == Tree("EATOM", "LITSTR", "", <<>>)
Int1 == Tree("EATOM", "LITINT", "", <<>>)
Real1 == Tree("EATOM", "LITREAL", "", <<>>)
True == Tree("EATOM", "KWTRUE", "", <<>>)
False == Tree("EATOM", "KWFALSE", "", <<>>)
Apply(f, args) == Tree("ECALL", "LPAREN", "", <<Id(f)>> \o args)
System(type, f, args) == Tree("ESYSTEM", "IDENT", f, <<Type(type)>> \o args)
At(s, i) == Tree("EACCESS", "LBRACKET", "", <<s, i>>)
Slice(s, i, j) == Tree("EACCESS", "LBRACKET", "", <<s, i, j>>)
Un(op, a) == Tree(op, "OP", "", <<a>>)
Bin(op, a, b) == Tree(op, "OP", "", <<a, b>>)
Cast(a, type) == Tree("ECAST", "OP", "", <<a, Type(type)>>)
Cond(c, a, b) == Tree("ETERNARY", "QUESTION", "", <<c, a, b>>)
Set(name, v) == Bin("EASSIGN", Id(name), v)

Module(decls) ==
  LET t == Tree("ROOT", "NULL", "", decls)
  IN [n \in DOMAIN t |-> [t[n] EXCEPT !.kids = [i \in DOMAIN @ |-> n + @[i]]]]
=============================================================================

-------------------------- MODULE SatsuSoundProofs --------------------------
(***************************************************************************)
(* Proofs about SatsuExec on programs that have a typing: a name that is   *)
(* read or written is found, a call finds its function, and every operand, *)
(* local, global and result is of the type its node was given.  What       *)
(* ls_sema makes sure of is enough for an interpreter that tests next to   *)
(* nothing.                                                                *)
(***************************************************************************)
EXTENDS SatsuControlProofs, SatsuAgreement

-----------------------------------------------------------------------------
(* What a typing t of the program says of the tables, the handlers and the value *)
(* that a handler has given back.                                               *)

\* The table st up to a scope: its symbols are of the declarations of names, and what is
\* known is there.
Decl(s) == [type |-> s.type, mod |-> s.mod, node |-> s.node]
Shows(st, scope, names, known) ==
  /\ \A j \in DOMAIN st : st[j].scope <= scope =>
       st[j].sym \in DOMAIN names /\ names[st[j].sym] = Decl(st[j])
  /\ \A x \in known : \E j \in DOMAIN st : st[j].scope <= scope /\ st[j].sym = x

\* The node whose typing a handler goes by: that of a function is its body.
TypedNode(f) ==
  IF Node(f.mod, f.node).type = "FUNCDECL" THEN Node(f.mod, f.node).kids[3] ELSE f.node
View(t, f) == t[f.mod][TypedNode(f)]
ShownIn(t, f, st) ==
  /\ TypedNode(f) \in DOMAIN t[f.mod]
  /\ Shows(st, f.scope, View(t, f).names, View(t, f).known)
FramesShown(t) == \A i \in DOMAIN cstk : ShownIn(t, cstk[i], fns[cstk[i].fn].syms)

\* Handlers of one environment nest.
ScopesNest ==
  \A i, j \in DOMAIN cstk :
    i <= j /\ cstk[i].fn = cstk[j].fn => cstk[i].scope <= cstk[j].scope

\* The first operand of a node, and the checks of ls_execesystem on its name.
FirstOf(type) == IF type \in Assigns \union {"LOCALDECL", "ECALL", "ESYSTEM"} THEN 2 ELSE 1
Callable(f) ==
  LET node == Node(f.mod, f.node)
  IN /\ node.sym \in DOMAIN SysFns
     /\ SysFns[node.sym].rettype = Prim(f.mod, node.kids[1])
     /\ Len(SysFns[node.sym].argtypes) = Len(node.kids) - 1

\* The operands a handler holds are of the types of their nodes, and the one it waits
\* for is the next; those of a system function were tested, all but the last.
HeldTyped(t, f, waits) ==
  LET node == Node(f.mod, f.node)
      first == FirstOf(node.type)
  IN /\ node.type \notin OperandTypes \union {"FOR"} => f.vals = <<>>
     /\ node.type \in OperandTypes /\ ~InCallee(f) =>
          /\ waits => f.at = first + Len(f.vals)
          /\ node.type # "ESYSTEM" =>
               \A j \in DOMAIN f.vals : f.vals[j].type = t[f.mod][node.kids[first + j - 1]].type
          /\ node.type = "ESYSTEM" /\ (f.vals # <<>> \/ waits) =>
               /\ Callable(f)
               /\ \A j \in DOMAIN f.vals : j < Len(f.vals) \/ waits =>
                    f.vals[j].type = SysFns[node.sym].argtypes[j]
OperandsHeld(t) ==
  \A i \in DOMAIN cstk : HeldTyped(t, cstk[i], i < Len(cstk) \/ ret # NoRet)

\* What a handler gives back for an expression of a type.
Fits(val, type) == IF type = "void" THEN val.type \in {"unwritten", "void"} ELSE val.type = type
GivesTyped(t, m, n, act, val) ==
  /\ act = "return" => val.type = t[m][n].result
  /\ Node(m, n).type \in ExprTypes =>
       /\ act = "none" /\ Fits(val, t[m][n].type)
       /\ val = Unwritten => Node(m, n).type \in Assigns

\* What a call has given back, or what the handler of a child has.
CallGave ==
  InCallee(Top) => ret.val.type = DeclType(prog, Callee(Top).mod, Callee(Top).node)
ChildGave(t) ==
  ~InCallee(Top) =>
    LET n == Called(Top)
        a == t[Top.mod][n]
    IN /\ n \in DOMAIN t[Top.mod]
       /\ Shows(Env.syms, Env.scope, a.names, KnownAfter(Node(Top.mod, n), a))
       /\ GivesTyped(t, Top.mod, n, ret.act, ret.val)
Returned(t) == ret # NoRet /\ cstk # <<>> => CallGave /\ ChildGave(t)

\* The globals are the declarations that the walk has passed, and have their values
\* from the moment the second walk has.
Passed(m, n) == m < walk.mod \/ (m = walk.mod /\ n < walk.node)
GlobalOk(g) ==
  /\ Declares(prog, g.mod, g.node) /\ Node(g.mod, g.node).sym = g.sym
  /\ g.type = IF Node(g.mod, g.node).type = "FUNCDECL" THEN "func" ELSE DeclType(prog, g.mod, g.node)
  /\ phase = "symtab" => Passed(g.mod, g.node)
GlobalsFound ==
  /\ \A i \in DOMAIN globals : GlobalOk(globals[i])
  /\ phase \in {"symtab", "globals", "lookup", "run"} =>
       \A m \in DOMAIN prog : \A n \in DOMAIN prog[m] :
         Declares(prog, m, n) /\ (phase = "symtab" => Passed(m, n)) =>
           \E i \in DOMAIN globals : globals[i].mod = m /\ globals[i].node = n
GlobalValues ==
  \A i \in DOMAIN globals :
    globals[i].val.type =
      IF \/ globals[i].type = "func" \/ phase = "symtab"
         \/ phase = "globals" /\ i >= walk.node
      THEN "null" ELSE globals[i].type

\* A local has a value of its type, and a name that no global has.
LocalOk(s) == s.val.type = s.type /\ s.type \in PrimTypes \ {"void"} /\ ~IsGlobal(prog, s.sym)
LocalsTyped == \A d \in DOMAIN fns : \A j \in DOMAIN fns[d].syms : LocalOk(fns[d].syms[j])

TypesInv(t) ==
  /\ FramesShown(t) /\ ScopesNest /\ OperandsHeld(t) /\ Returned(t)
  /\ GlobalsFound /\ GlobalValues /\ LocalsTyped

-----------------------------------------------------------------------------
(* Tables and what they show. *)

\* The table su shows up to a scope what st does.
Alike(st, su, scope) ==
  /\ \A j \in DOMAIN su : su[j].scope <= scope =>
       \E i \in DOMAIN st : st[i].scope <= scope /\ st[i].sym = su[j].sym /\ Decl(st[i]) = Decl(su[j])
  /\ \A i \in DOMAIN st : st[i].scope <= scope =>
       \E j \in DOMAIN su : su[j].scope <= scope /\ su[j].sym = st[i].sym

LEMMA AlikeShows ==
  ASSUME NEW st, NEW su, NEW scope, Alike(st, su, scope),
         NEW names, NEW known, Shows(st, scope, names, known)
  PROVE  Shows(su, scope, names, known)
<1>1. ASSUME NEW j \in DOMAIN su, su[j].scope <= scope
      PROVE  su[j].sym \in DOMAIN names /\ names[su[j].sym] = Decl(su[j])
  BY <1>1 DEF Alike, Shows
<1>2. ASSUME NEW x \in known
      PROVE  \E j \in DOMAIN su : su[j].scope <= scope /\ su[j].sym = x
  <2>1. PICK i \in DOMAIN st : st[i].scope <= scope /\ st[i].sym = x
    BY <1>2 DEF Shows
  <2> QED  BY <2>1 DEF Alike
<1> QED  BY <1>1, <1>2 DEF Shows

LEMMA AlikeSame == ASSUME NEW st, NEW scope PROVE Alike(st, st, scope)
BY DEF Alike

\* What is known of the locals when a node of a typing is reached from another.
LEMMA EntersShows ==
  ASSUME NEW st, NEW scope, NEW a, NEW b, Enters(a, b), Shows(st, scope, a.names, a.known)
  PROVE  Shows(st, scope, b.names, b.known)
BY DEF Enters, Within, Extends, Shows

LEMMA FollowsShows ==
  ASSUME NEW st, NEW scope, NEW node, NEW a, NEW b, Follows(node, a, b),
         Shows(st, scope, a.names, KnownAfter(node, a))
  PROVE  Shows(st, scope, b.names, b.known)
BY DEF Follows, Extends, Shows

\* Symbols of a table are of the scopes up to that of the environment.
LEMMA ShowsWider ==
  ASSUME NEW st, NEW scope, NEW wider, NEW names, NEW known,
         \A j \in DOMAIN st : st[j].scope <= scope /\ st[j].scope <= wider,
         Shows(st, scope, names, known)
  PROVE  Shows(st, wider, names, known)
BY DEF Shows

-----------------------------------------------------------------------------
(* What a step leaves of the tables. *)

\* The tables of the environments of the handlers below, and of Top up to its scope.
TablesKept ==
  /\ \A d \in 1..(Top.fn - 1) : fns'[d].syms = fns[d].syms
  /\ \A scope \in Nat : scope <= Top.scope => Alike(fns[Top.fn].syms, fns'[Top.fn].syms, scope)

LEMMA SymsKept ==
  ASSUME \A d \in 1..Top.fn : fns'[d].syms = fns[d].syms, Top.fn \in Nat, Top.fn > 0
  PROVE  TablesKept
<1>1. Top.fn \in 1..Top.fn /\ \A d \in 1..(Top.fn - 1) : d \in 1..Top.fn
  OBVIOUS
<1> QED  BY <1>1, AlikeSame DEF TablesKept

\* Every symbol of the tables is still there, or was.
LEMMA FewerLocals ==
  ASSUME LocalsTyped, UNCHANGED prog,
         \A d \in DOMAIN fns' : d \in DOMAIN fns /\
           \A j \in DOMAIN fns'[d].syms :
             j \in DOMAIN fns[d].syms /\ fns'[d].syms[j] = fns[d].syms[j]
  PROVE  LocalsTyped'
BY DEF LocalsTyped, LocalOk

LEMMA SameTables ==
  ASSUME IInv, Running, LocalsTyped, UNCHANGED prog, fns' = fns
  PROVE  TablesKept /\ LocalsTyped'
<1>1. Top.fn \in Nat /\ Top.fn > 0
  BY TopFacts
<1> QED  BY <1>1, SymsKept, FewerLocals

LEMMA OpenedTables ==
  ASSUME IInv, Running, ~InCallee(Top), LocalsTyped, UNCHANGED prog, fns' = Opened
  PROVE  /\ TablesKept /\ LocalsTyped' /\ fns'[Top.fn].syms = Env.syms
         /\ Len(fns') = Top.fn /\ fns'[Top.fn].scope = Env.scope + 1
<1>1. /\ Top.fn \in Nat /\ Top.fn > 0 /\ Len(fns) = Top.fn /\ DOMAIN fns = 1..Len(fns)
      /\ Env = fns[Len(fns)] /\ Env \in EnvRecord
  BY TopFacts, Shapes, OpenedFacts
<1> DEFINE e == [Env EXCEPT !.scope = @ + 1]
<1>2. e.syms = Env.syms /\ e.scope = Env.scope + 1
  BY <1>1 DEF EnvRecord
<1>3. fns' = [fns EXCEPT ![Len(fns)] = e]
  BY DEF Opened, Env
<1> HIDE DEF e
<1>4. DOMAIN fns' = DOMAIN fns /\ \A d \in DOMAIN fns : fns'[d].syms = fns[d].syms
  BY <1>1, <1>2, <1>3
<1>5. Len(fns') = Top.fn
  BY OpenedFacts DEF EnvsKept
<1>6. Top.fn \in DOMAIN fns /\ fns'[Top.fn] = e
  BY <1>1, <1>3
<1> QED  BY <1>1, <1>2, <1>4, <1>5, <1>6, SymsKept, FewerLocals

\* ls_popsymscope leaves the symbols of the scopes up to that of Top.
LEMMA ClosedTables ==
  ASSUME IInv, Running, ~InCallee(Top), OpenNow = 1, LocalsTyped, UNCHANGED prog, fns' = Closed
  PROVE  TablesKept /\ LocalsTyped'
<1> DEFINE st == Env.syms
           su == Prefix(Env.syms, KeptHere)
<1>1. /\ Top.fn \in Nat /\ Top.fn > 0 /\ Len(fns) = Top.fn /\ DOMAIN fns = 1..Len(fns)
      /\ Env = fns[Len(fns)] /\ Env.scope = Top.scope + 1 /\ Top.scope \in Nat
  <2>1. Top.at # 0 /\ OpenAt(Top.at) = 1
    BY DEF OpenNow
  <2> QED  BY <2>1, TopFacts, Shapes, ScopeOfTop DEF FrameRecord
<1>2. /\ KeptHere \in 0..Len(st) /\ Len(st) \in Nat /\ DOMAIN st = 1..Len(st)
      /\ \A i \in (KeptHere + 1)..Len(st) : st[i].scope >= Env.scope
      /\ \A i \in 1..Len(st) : st[i].scope \in Nat
  BY EnvFacts, KeptIndex DEF KeptHere
<1>3. DOMAIN su = 1..KeptHere /\ \A i \in 1..KeptHere : su[i] = st[i] /\ i \in DOMAIN st
  BY <1>2 DEF Prefix
<1>4. /\ \A d \in DOMAIN fns' : d \in DOMAIN fns
      /\ \A d \in DOMAIN fns : d # Top.fn => fns'[d] = fns[d]
      /\ fns'[Top.fn].syms = su
  BY <1>1 DEF Closed
<1> HIDE DEF st, su
<1>5. \A scope \in Nat : scope <= Top.scope => Alike(st, su, scope)
  <2> SUFFICES ASSUME NEW scope \in Nat, scope <= Top.scope
               PROVE  Alike(st, su, scope)
    OBVIOUS
  <2>1. \A i \in DOMAIN st : st[i].scope <= scope => i \in 1..KeptHere
    <3> SUFFICES ASSUME NEW i \in 1..Len(st), st[i].scope <= scope, i \notin 1..KeptHere
                 PROVE  FALSE
      BY <1>2
    <3>1. i \in (KeptHere + 1)..Len(st)
      BY <1>2
    <3> QED  BY <1>1, <1>2, <3>1
  <2> QED  BY <1>3, <2>1 DEF Alike
<1>6. TablesKept
  <2>1. \A d \in 1..(Top.fn - 1) : d \in DOMAIN fns /\ d # Top.fn
    BY <1>1
  <2> QED  BY <1>1, <1>4, <1>5, <2>1 DEF TablesKept, st
<1>7. LocalsTyped'
  <2>1. ASSUME NEW d \in DOMAIN fns', NEW j \in DOMAIN fns'[d].syms
        PROVE  d \in DOMAIN fns /\ j \in DOMAIN fns[d].syms /\ fns'[d].syms[j] = fns[d].syms[j]
    <3>1. CASE d = Top.fn
      BY <1>1, <1>3, <1>4, <2>1, <3>1 DEF st
    <3>2. CASE d # Top.fn
      BY <1>4, <2>1, <3>2
    <3> QED  BY <3>1, <3>2
  <2>2. \A d \in DOMAIN fns' : d \in DOMAIN fns
    BY <2>1, <1>4
  <2> QED  BY <2>1, <2>2, FewerLocals
<1> QED  BY <1>6, <1>7

\* The innermost table is replaced.
LEMMA InnermostTable ==
  ASSUME IInv, Running, ~InCallee(Top), NEW st, fns' = [fns EXCEPT ![Len(fns)].syms = st]
  PROVE  /\ Len(fns) = Top.fn /\ DOMAIN fns' = DOMAIN fns /\ Top.fn \in DOMAIN fns
         /\ \A d \in DOMAIN fns : d # Top.fn => fns'[d] = fns[d]
         /\ fns'[Top.fn].syms = st /\ fns'[Top.fn].scope = Env.scope
         /\ Env = fns[Top.fn] /\ \A d \in 1..(Top.fn - 1) : d \in DOMAIN fns /\ d # Top.fn
<1>1. /\ Top.fn \in Nat /\ Top.fn > 0 /\ Len(fns) = Top.fn /\ DOMAIN fns = 1..Len(fns)
      /\ Env = fns[Len(fns)] /\ Env \in EnvRecord
  BY TopFacts, Shapes, ScopeOfTop
<1> DEFINE e == [Env EXCEPT !.syms = st]
<1>2. e.syms = st /\ e.scope = Env.scope
  BY <1>1 DEF EnvRecord
<1>3. fns' = [fns EXCEPT ![Len(fns)] = e]
  BY DEF Env
<1> HIDE DEF e
<1> QED  BY <1>1, <1>2, <1>3

\* A symbol of the innermost table takes a value of its type.
LEMMA SetTables ==
  ASSUME IInv, Running, ~InCallee(Top), LocalsTyped, UNCHANGED prog,
         NEW i \in 1..Len(Env.syms), NEW v, v.type = Env.syms[i].type,
         fns' = [fns EXCEPT ![Len(fns)].syms[i].val = v]
  PROVE  TablesKept /\ LocalsTyped'
<1> DEFINE st == [Env.syms EXCEPT ![i].val = v]
<1>1. fns' = [fns EXCEPT ![Len(fns)].syms = st]
  BY DEF Env
<1>2. Env.syms \in Seq(SymRecord) /\ DOMAIN Env.syms = 1..Len(Env.syms)
  BY EnvFacts
<1>3. /\ DOMAIN st = 1..Len(Env.syms) /\ st[i].val = v
      /\ \A j \in 1..Len(Env.syms) :
           /\ st[j].sym = Env.syms[j].sym /\ st[j].type = Env.syms[j].type
           /\ st[j].scope = Env.syms[j].scope /\ Decl(st[j]) = Decl(Env.syms[j])
           /\ (j # i => st[j] = Env.syms[j])
  <2>1. Env.syms[i] \in SymRecord
    BY <1>2
  <2>2. LET s == [Env.syms[i] EXCEPT !.val = v]
        IN /\ s.sym = Env.syms[i].sym /\ s.type = Env.syms[i].type
           /\ s.scope = Env.syms[i].scope /\ s.val = v
           /\ s.mod = Env.syms[i].mod /\ s.node = Env.syms[i].node
    BY <2>1 DEF SymRecord
  <2> QED  BY <1>2, <2>2 DEF Decl
<1> HIDE DEF st
<1>4. /\ Len(fns) = Top.fn /\ DOMAIN fns' = DOMAIN fns /\ Top.fn \in DOMAIN fns
      /\ \A d \in DOMAIN fns : d # Top.fn => fns'[d] = fns[d]
      /\ fns'[Top.fn].syms = st /\ Env = fns[Top.fn]
      /\ \A d \in 1..(Top.fn - 1) : d \in DOMAIN fns /\ d # Top.fn
  BY <1>1, InnermostTable
<1>5. TablesKept
  <2>1. \A scope \in Nat : Alike(Env.syms, st, scope)
    BY <1>2, <1>3 DEF Alike
  <2> QED  BY <1>4, <2>1 DEF TablesKept
<1>6. \A j \in 1..Len(Env.syms) : LocalOk(st[j])
  <2> SUFFICES ASSUME NEW j \in 1..Len(Env.syms) PROVE LocalOk(st[j])
    OBVIOUS
  <2>1. LocalOk(Env.syms[j])
    BY <1>2, <1>4 DEF LocalsTyped
  <2>2. st[j].sym = Env.syms[j].sym /\ st[j].type = Env.syms[j].type /\ (j # i => st[j] = Env.syms[j])
    BY <1>3
  <2>3. CASE j = i
    BY <1>3, <2>1, <2>2, <2>3 DEF LocalOk
  <2>4. CASE j # i
    BY <2>1, <2>2, <2>4
  <2> QED  BY <2>3, <2>4
<1>7. LocalsTyped'
  BY <1>2, <1>3, <1>4, <1>6 DEF LocalsTyped, LocalOk
<1> QED  BY <1>5, <1>7

\* A call that is over leaves the tables of its caller.
LEMMA PoppedTables ==
  ASSUME IInv, Running, InCallee(Top), LocalsTyped, UNCHANGED prog,
         fns' = SubSeq(fns, 1, Len(fns) - 1)
  PROVE  TablesKept /\ LocalsTyped'
<1>1. /\ Top.fn \in Nat /\ Top.fn > 0 /\ Len(fns) = Top.fn + 1 /\ DOMAIN fns = 1..Len(fns)
      /\ fns \in Seq(EnvRecord)
  BY TopFacts, Shapes, ScopeOfTop DEF IInv, TypeOK
<1>2. DOMAIN fns' = 1..Top.fn /\ \A d \in 1..Top.fn : d \in DOMAIN fns /\ fns'[d] = fns[d]
  BY <1>1
<1> QED  BY <1>1, <1>2, SymsKept, FewerLocals

-----------------------------------------------------------------------------
(* The steps of the handlers and what is shown to them. *)

\* What holds of the types between two steps of a well-typed program.
TInv(t) == CInv /\ ScopesSorted /\ WellTyped(prog, t) /\ TypesInv(t)

LEMMA TInvFacts ==
  ASSUME NEW t, TInv(t)
  PROVE  /\ CInv /\ IInv /\ ScopesSorted /\ WellTyped(prog, t) /\ prog \in Programs
         /\ FramesShown(t) /\ ScopesNest /\ OperandsHeld(t) /\ Returned(t)
         /\ GlobalsFound /\ GlobalValues /\ LocalsTyped
BY DEF TInv, TypesInv, CInv, IInv, TypeOK

LEMMA BelowShown ==
  ASSUME NEW t, IInv, Running, FramesShown(t), ScopesNest, TablesKept
  PROVE  \A i \in 1..Len(cstk) : ShownIn(t, cstk[i], fns'[cstk[i].fn].syms)
<1> SUFFICES ASSUME NEW i \in 1..Len(cstk)
             PROVE  ShownIn(t, cstk[i], fns'[cstk[i].fn].syms)
  OBVIOUS
<1>1. /\ Len(cstk) \in Nat /\ Len(cstk) > 0 /\ DOMAIN cstk = 1..Len(cstk) /\ Top = cstk[Len(cstk)]
      /\ Len(fns) \in Nat /\ cstk[i].fn \in 1..Len(fns) /\ Top.fn \in 1..Len(fns)
      /\ cstk[i].scope \in Nat
  BY TopFacts, Shapes DEF Top
<1>2. cstk[i].fn <= Top.fn
  BY <1>1 DEF IInv, Suspended
<1>3. ShownIn(t, cstk[i], fns[cstk[i].fn].syms)
  BY <1>1 DEF FramesShown
<1>4. CASE cstk[i].fn # Top.fn
  <2>1. cstk[i].fn \in 1..(Top.fn - 1)
    BY <1>1, <1>2, <1>4
  <2>2. fns'[cstk[i].fn].syms = fns[cstk[i].fn].syms
    BY <2>1 DEF TablesKept
  <2> QED  BY <1>3, <2>2
<1>5. CASE cstk[i].fn = Top.fn
  <2>1. cstk[i].scope <= Top.scope
    BY <1>1, <1>5 DEF ScopesNest
  <2>2. Alike(fns[Top.fn].syms, fns'[Top.fn].syms, cstk[i].scope)
    BY <1>1, <2>1 DEF TablesKept
  <2> QED  BY <1>3, <1>5, <2>2, AlikeShows DEF ShownIn
<1> QED  BY <1>4, <1>5

\* What a step that runs a handler leaves of the globals.
GlobalsStay ==
  /\ GlobalsKept /\ UNCHANGED <<prog, phase, walk>>
  /\ \A i \in 1..Len(globals) : globals'[i].val.type = globals[i].val.type

LEMMA IntactStay ==
  ASSUME IInv, Intact
  PROVE  GlobalsStay
BY IntactKept DEF GlobalsStay, Intact

LEMMA GlobalsStayTyped ==
  ASSUME IInv, GlobalsFound, GlobalValues, GlobalsStay
  PROVE  GlobalsFound' /\ GlobalValues'
<1>1. /\ Len(globals') = Len(globals) /\ DOMAIN globals = 1..Len(globals)
      /\ DOMAIN globals' = 1..Len(globals)
      /\ \A i \in 1..Len(globals) :
           /\ globals'[i].sym = globals[i].sym /\ globals'[i].type = globals[i].type
           /\ globals'[i].mod = globals[i].mod /\ globals'[i].node = globals[i].node
           /\ globals'[i].val.type = globals[i].val.type
  BY Shapes DEF GlobalsStay, GlobalsKept
<1>2. UNCHANGED <<prog, phase, walk>>
  BY DEF GlobalsStay
<1>3. ASSUME NEW i \in 1..Len(globals) PROVE GlobalOk(globals[i])'
  <2>1. GlobalOk(globals[i])
    BY <1>1 DEF GlobalsFound
  <2> QED  BY <1>1, <1>2, <2>1 DEF GlobalOk, Node, Passed
<1>4. GlobalsFound'
  BY <1>1, <1>2, <1>3 DEF GlobalsFound, Passed
<1>5. GlobalValues'
  BY <1>1, <1>2 DEF GlobalValues
<1> QED  BY <1>4, <1>5

\* The stack of a handler that returns.
LEMMA LeftStack ==
  ASSUME IInv, Running, NEW act, NEW val, Leave(act, val), NEW n \in Nat, n = Len(cstk)
  PROVE  /\ n > 0 /\ DOMAIN cstk = 1..n /\ Top = cstk[n]
         /\ DOMAIN cstk' = 1..(n - 1) /\ Len(cstk') = n - 1
         /\ \A i \in 1..(n - 1) : cstk'[i] = cstk[i]
         /\ ret' = Ret(act, val) /\ (cstk' # <<>> => n > 1 /\ Top' = cstk[n - 1])
<1>1. n > 0 /\ DOMAIN cstk = 1..n /\ cstk \in Seq(FrameRecord)
  BY TopFacts, Shapes DEF IInv, TypeOK
<1>2. cstk' = SubSeq(cstk, 1, n - 1) /\ ret' = Ret(act, val)
  BY DEF Leave
<1>3. DOMAIN cstk' = 1..(n - 1) /\ Len(cstk') = n - 1 /\ \A i \in 1..(n - 1) : cstk'[i] = cstk[i]
  BY <1>1, <1>2
<1>4. cstk' # <<>> => n > 1
  BY <1>1, <1>2
<1>5. n > 1 => Top' = cstk[n - 1]
  BY <1>1, <1>3 DEF Top
<1> QED  BY <1>1, <1>2, <1>3, <1>4, <1>5 DEF Top

LEMMA HeldBelow ==
  ASSUME NEW t, IInv, OperandsHeld(t), UNCHANGED prog
  PROVE  \A i \in 1..(Len(cstk) - 1) : HeldTyped(t, cstk[i], TRUE)
<1>1. \A i \in 1..(Len(cstk) - 1) : i \in DOMAIN cstk /\ i < Len(cstk)
  BY Shapes
<1> QED  BY <1>1 DEF OperandsHeld

\* A handler runs a function or a node that has been checked, and the handler that it
\* calls for a child does not run a function.
LEMMA NodeTypedKinds ==
  ASSUME NEW p, NEW t, NEW m, NEW n, NodeTyped(p, t, m, n)
  PROVE  p[m][n].type \in StmtTypes \union ExprTypes
BY DEF NodeTyped, StmtTypes, ExprTypes, Binaries, Arithmetics, Comparisons, Logicals, Assigns

LEMMA ChildKinds ==
  \A type \in NodeTypes \ {"ROOT"} : \A k : "FUNCDECL" \notin ChildTypes(type, k)
BY DEF ChildTypes, NodeTypes, StmtTypes, ExprTypes, Binaries, Arithmetics, Comparisons, Logicals,
       Assigns

LEMMA TypedFrame ==
  ASSUME NEW t, CInv, WellTyped(prog, t), FramesShown(t), NEW i \in 1..Len(cstk)
  PROVE  LET f == cstk[i]
             node == Node(f.mod, f.node)
         IN /\ f.mod \in DOMAIN prog /\ f.node \in DOMAIN prog[f.mod]
            /\ \/ node.type = "FUNCDECL" /\ FunctionTyped(prog, t, f.mod, f.node)
               \/ /\ f.node \in DOMAIN t[f.mod] /\ NodeTyped(prog, t, f.mod, f.node)
                  /\ node.type \in StmtTypes \union ExprTypes /\ node.type # "FUNCDECL"
            /\ \A k \in 1..Len(node.kids) : Node(f.mod, node.kids[k]).type # "FUNCDECL"
<1> DEFINE f == cstk[i]
           node == Node(f.mod, f.node)
<1>1. f.mod \in DOMAIN prog /\ f.node \in DOMAIN prog[f.mod] /\ prog \in Programs
  BY Shapes DEF CInv, IInv, TypeOK
<1>2. ShownIn(t, f, fns[f.fn].syms)
  BY Shapes DEF CInv, FramesShown
<1>3. node.type = "FUNCDECL" => FunctionTyped(prog, t, f.mod, f.node)
  BY <1>1 DEF WellTyped, Node
<1>4. ASSUME node.type # "FUNCDECL"
      PROVE  /\ f.node \in DOMAIN t[f.mod] /\ NodeTyped(prog, t, f.mod, f.node)
             /\ node.type \in StmtTypes \union ExprTypes
  <2>1. f.node \in DOMAIN t[f.mod]
    BY <1>2, <1>4 DEF ShownIn, TypedNode
  <2>2. NodeTyped(prog, t, f.mod, f.node)
    BY <1>1, <2>1 DEF WellTyped
  <2> QED  BY <2>1, <2>2, NodeTypedKinds DEF Node
<1>5. ASSUME NEW k \in 1..Len(node.kids) PROVE Node(f.mod, node.kids[k]).type # "FUNCDECL"
  <2>1. node.type \in NodeTypes \ {"ROOT"}
    BY <1>3, <1>4 DEF NodeTypes, StmtTypes, ExprTypes, Binaries, Arithmetics, Comparisons,
                      Logicals, Assigns
  <2> QED  BY <1>1, <2>1, ChildFacts, ChildKinds
<1> QED  BY <1>1, <1>3, <1>4, <1>5

LEMMA LeaveTyped ==
  ASSUME NEW t, TInv(t), CInv', Running, GlobalsStay, LocalsTyped',
         NEW act, NEW val, Leave(act, val), act # "running",
         \A i \in 1..(Len(cstk) - 1) : ShownIn(t, cstk[i], fns'[cstk[i].fn].syms),
         N.type = "FUNCDECL" => val.type = DeclType(prog, Top.mod, Top.node),
         N.type # "FUNCDECL" =>
           /\ Shows(fns'[Top.fn].syms, Top.scope, t[Top.mod][Top.node].names,
                    KnownAfter(N, t[Top.mod][Top.node]))
           /\ GivesTyped(t, Top.mod, Top.node, act, val)
  PROVE  TypesInv(t)'
<1> USE DEF TInv
<1>0. PICK n \in Nat : n = Len(cstk)
  BY TopFacts DEF CInv
<1>1. /\ n > 0 /\ DOMAIN cstk = 1..n /\ Top = cstk[n]
      /\ DOMAIN cstk' = 1..(n - 1) /\ Len(cstk') = n - 1
      /\ \A i \in 1..(n - 1) : cstk'[i] = cstk[i]
      /\ ret' = Ret(act, val) /\ (cstk' # <<>> => n > 1 /\ Top' = cstk[n - 1])
  BY <1>0, LeftStack DEF CInv
<1>2. UNCHANGED prog /\ GlobalsKept
  BY DEF GlobalsStay
<1>3. FramesShown(t)'
  <2>1. \A i \in 1..(n - 1) : ShownIn(t, cstk[i], fns'[cstk[i].fn].syms)
    BY <1>0
  <2>2. ASSUME NEW i \in 1..(n - 1) PROVE ShownIn(t, cstk[i], fns[cstk[i].fn].syms)'
    BY <1>1, <1>2, <2>1, <2>2 DEF ShownIn, TypedNode, View, Node
  <2> QED  BY <1>1, <2>2 DEF FramesShown
<1>4. ScopesNest'
  <2>1. \A i \in 1..(n - 1) : i \in 1..n
    BY <1>1
  <2> QED  BY <1>1, <2>1 DEF TypesInv, ScopesNest
<1>5. OperandsHeld(t)'
  <2>1. \A i \in 1..(n - 1) : HeldTyped(t, cstk[i], TRUE)
    BY <1>0, <1>2, HeldBelow DEF CInv, TypesInv
  <2>2. ASSUME NEW i \in 1..(n - 1)
        PROVE  HeldTyped(t, cstk[i], i < Len(cstk) \/ ret # NoRet)'
    <3>1. (i < Len(cstk) \/ ret # NoRet)' = TRUE
      BY <1>1 DEF Ret, NoRet
    <3>2. HeldTyped(t, cstk[i], TRUE) /\ i \in 1..(n - 1) /\ cstk'[i] = cstk[i]
      BY <1>1, <2>1, <2>2
    <3>3. HeldTyped(t, cstk[i], TRUE)'
      BY <1>2, <3>2 DEF HeldTyped, Node, InCallee, Callable, Prim
    <3> QED  BY <3>1, <3>3
  <2> QED  BY <1>1, <2>2 DEF OperandsHeld
<1>6. Returned(t)'
  <2> SUFFICES ASSUME n > 1, cstk' # <<>>
               PROVE  (CallGave /\ ChildGave(t))'
    BY <1>1 DEF Returned
  <2> DEFINE f == cstk[n - 1]
  <2>1. /\ n - 1 \in 1..n /\ n - 1 < n /\ (n - 1) + 1 = n /\ Top' = f /\ cstk'[n - 1] = f
        /\ n - 1 \in DOMAIN cstk'
    BY <1>1
  <2>2. Goes(f) /\ Top.mod = CalledMod(f) /\ Top.node = Called(f)
    BY <1>0, <1>1, <2>1 DEF CInv, Linked
  <2>3. /\ InCallee(f)' <=> InCallee(f)
        /\ CalledMod(f)' = CalledMod(f) /\ Called(f)' = Called(f)
    BY <1>1, <1>2, <2>1, <2>2, CalledKept DEF CInv
  <2>4. TypedNode(Top) \in DOMAIN t[Top.mod]
    BY <1>1 DEF TypesInv, FramesShown, ShownIn
  <2>5. ret'.act = act /\ ret'.val = val
    BY <1>1 DEF Ret
  <2>6. CallGave'
    <3> SUFFICES ASSUME InCallee(f)
                 PROVE  val.type = DeclType(prog, Callee(f)'.mod, Callee(f)'.node)
      BY <1>2, <2>1, <2>3, <2>5 DEF CallGave
    <3>1. CalleeOk(f) /\ Top.mod = Callee(f).mod /\ Top.node = Callee(f).node
      BY <2>2 DEF Goes, CalledMod, Called
    <3>2. N.type = "FUNCDECL"
      BY <1>1, <3>1, TopFacts, CalleeFacts DEF CInv, IInv, Placed, CalleeOk, Callee
    <3>3. Callee(f)'.mod = Callee(f).mod /\ Callee(f)'.node = Callee(f).node
      BY <1>1, <1>2, <2>1, <3>1, CalleeKept DEF CInv
    <3> QED  BY <3>1, <3>2, <3>3
  <2>7. ChildGave(t)'
    <3> SUFFICES ASSUME ~InCallee(f) PROVE ChildGave(t)'
      BY <2>1, <2>3 DEF ChildGave
    <3>1. Top.mod = f.mod /\ Top.node = Node(f.mod, f.node).kids[f.at]
          /\ f.at \in 1..Len(Node(f.mod, f.node).kids) /\ Called(f) = Top.node
      BY <2>2 DEF Goes, CalledMod, Called
    <3>2. N.type # "FUNCDECL"
      <4>1. Node(f.mod, Node(f.mod, f.node).kids[f.at]).type # "FUNCDECL"
        BY <1>0, <2>1, <3>1, TypedFrame DEF TypesInv
      <4> QED  BY <3>1, <4>1, TopFacts DEF CInv
    <3>3. Top.node \in DOMAIN t[Top.mod]
      BY <2>4, <3>2, TopFacts DEF TypedNode, CInv
    <3>4. /\ f.fn = Top.fn /\ f.scope + OpenScopes(f) = Top.scope
      <4>1. \A i \in DOMAIN cstk : i + 1 \in DOMAIN cstk /\ ~InCallee(cstk[i]) =>
              /\ cstk[i + 1].fn = cstk[i].fn
              /\ cstk[i + 1].scope = cstk[i].scope + OpenScopes(cstk[i])
        BY DEF CInv, IInv, StackDiscipline
      <4>2. n \in DOMAIN cstk
        BY <1>1
      <4> HIDE DEF f
      <4>3. f = cstk[n - 1]
        BY DEF f
      <4> QED  BY <1>1, <2>1, <4>1, <4>2, <4>3
    <3>5. /\ Len(fns') = f.fn /\ fns'[Len(fns')].scope = f.scope + OpenScopes(f)
      <4>1. OpenScopes(f)' = OpenScopes(f)
        BY <1>2, <2>1 DEF OpenScopes, Node
      <4>2. Len(fns') = Top'.fn /\ Env'.scope = Top'.scope + OpenScopes(Top)'
        BY <2>1, <2>3, <3>1 DEF CInv, IInv, StackDiscipline
      <4> QED  BY <2>1, <4>1, <4>2 DEF Env
    <3>6. Shows(fns'[Top.fn].syms, Top.scope, t[Top.mod][Top.node].names,
                KnownAfter(N, t[Top.mod][Top.node]))
          /\ GivesTyped(t, Top.mod, Top.node, act, val)
      BY <3>2
    <3>7. N = Node(Top.mod, Top.node)
      BY TopFacts DEF CInv
    <3> QED  BY <1>2, <2>1, <2>3, <2>5, <3>1, <3>3, <3>4, <3>5, <3>6, <3>7
             DEF ChildGave, Env, GivesTyped, Node
  <2> QED  BY <2>6, <2>7
<1>7. GlobalsFound' /\ GlobalValues'
  BY GlobalsStayTyped DEF CInv, TypesInv
<1> QED  BY <1>3, <1>4, <1>5, <1>6, <1>7 DEF TypesInv

\* A handler that holds operands and goes on to the next.
LEMMA OperandCalled ==
  ASSUME NEW t, NEW f, NEW k, NEW vals, NEW waits, HeldTyped(t, Top, waits),
         N = Node(Top.mod, Top.node), ~InCallee(Top),
         f.mod = Top.mod, f.node = Top.node, f.at = k, f.vals = vals,
         N.type \notin OperandTypes \union {"FOR"} => vals = <<>>,
         N.type \in OperandTypes =>
           /\ vals = Top.vals /\ k = FirstOf(N.type) + Len(vals)
           /\ N.type = "ESYSTEM" => SysCallable /\ SysArgsOk
  PROVE  HeldTyped(t, f, TRUE)
<1>1. Node(f.mod, f.node) = N
  OBVIOUS
<1>2. ASSUME N.type \in OperandTypes, N.type # "ESYSTEM"
      PROVE  \A j \in DOMAIN Top.vals :
               Top.vals[j].type = t[Top.mod][N.kids[FirstOf(N.type) + j - 1]].type
  BY <1>2, Zenon DEF HeldTyped
<1>3. ASSUME N.type = "ESYSTEM"
      PROVE  Callable(f) /\ \A j \in DOMAIN vals : vals[j].type = SysFns[N.sym].argtypes[j]
  BY <1>1, <1>3 DEF SysCallable, SysArgsOk, Kid, Arity, OperandTypes, Callable
<1> QED  BY <1>1, <1>2, <1>3, Zenon DEF HeldTyped

\* The handler of a child is called.
LEMMA ChildCalled ==
  ASSUME NEW t, TInv(t), Running, ~InCallee(Top), Intact,
         NEW env \in {fns, Opened}, NEW k \in 1..Arity, NEW vals \in Seq(Value),
         CallNode(env, k, Kid(k), vals),
         Kid(k) \in DOMAIN t[Top.mod],
         Shows(Env.syms, Env.scope, t[Top.mod][Kid(k)].names, t[Top.mod][Kid(k)].known),
         N.type \notin OperandTypes \union {"FOR"} => vals = <<>>,
         N.type \in OperandTypes =>
           /\ vals = Top.vals /\ k = FirstOf(N.type) + Len(vals)
           /\ N.type = "ESYSTEM" => SysCallable /\ SysArgsOk
  PROVE  TypesInv(t)'
<1>0. PICK n \in Nat : n = Len(cstk)
  BY TInvFacts, TopFacts
<1>a. /\ CInv /\ IInv /\ ScopesSorted /\ WellTyped(prog, t)
      /\ FramesShown(t) /\ ScopesNest /\ OperandsHeld(t) /\ Returned(t)
      /\ GlobalsFound /\ GlobalValues /\ LocalsTyped
  BY TInvFacts
<1>1. /\ n > 0 /\ DOMAIN cstk = 1..n /\ Top = cstk[n] /\ UNCHANGED prog
      /\ N = Node(Top.mod, Top.node) /\ Kid(k) \in Nat /\ k \in Nat
      /\ Len(fns) = Top.fn /\ Top.fn \in Nat /\ Top.fn > 0 /\ Top \in FrameRecord
  BY <1>0, <1>a, TopFacts, Shapes, ScopeOfTop DEF Top, Intact
<1>b. \A e : Len(e) = Top.fn => e # <<>>
  BY <1>1
<1>2. /\ fns' = env /\ env \in Seq(EnvRecord) /\ env # <<>> /\ Len(env) = Top.fn
      /\ env[Top.fn].mod = Top.mod /\ env[Top.fn].scope >= Env.scope
      /\ TablesKept /\ LocalsTyped' /\ env[Top.fn].syms = Env.syms
      /\ env[Top.fn].scope \in Nat /\ Env.scope \in Nat
  <2>1. LocalsTyped /\ fns' = env
    BY <1>a DEF CallNode
  <2>2. /\ Env = fns[Len(fns)] /\ Top.mod = fns[Top.fn].mod /\ fns \in Seq(EnvRecord) /\ Env.scope \in Nat
        /\ Top.fn \in 1..Len(fns)
    BY <1>a, <1>1, TopFacts DEF IInv, TypeOK, EnvRecord
  <2>3. CASE env = fns
    <3>1. TablesKept /\ LocalsTyped'
      BY <1>a, <1>1, <2>1, <2>3, SameTables
    <3>2. env # <<>> /\ env[Top.fn] = Env
      <4>1. env # <<>>
        BY <1>1, <1>b, <2>3
      <4> QED  BY <1>1, <2>2, <2>3, <4>1
    <3>3. Env.scope >= Env.scope
      BY <2>2
    <3> QED  BY <1>1, <2>1, <2>2, <2>3, <3>1, <3>2, <3>3, Zenon
  <2>4. CASE env = Opened
    <3>1. Opened \in Seq(EnvRecord) /\ Len(Opened) = Top.fn /\ Opened[Top.fn].mod = Top.mod
      BY <1>a, <1>1, <2>2, OpenedFacts DEF EnvsKept
    <3>2. /\ TablesKept /\ LocalsTyped' /\ Opened[Top.fn].syms = Env.syms
          /\ Opened[Top.fn].scope = Env.scope + 1
      BY <1>a, <1>1, <2>1, <2>4, OpenedTables
    <3>3. env # <<>> /\ Env.scope + 1 \in Nat /\ Env.scope + 1 >= Env.scope
      <4>1. Env.scope + 1 \in Nat /\ Env.scope + 1 >= Env.scope
        BY <2>2
      <4> QED  BY <1>b, <2>4, <3>1, <4>1, Zenon
    <3> QED  BY <2>1, <2>2, <2>4, <3>1, <3>2, <3>3, Zenon
  <2> QED  BY <2>3, <2>4
<1>3. /\ DOMAIN cstk' = 1..(n + 1) /\ Len(cstk') = n + 1 /\ ret' = NoRet
      /\ \A i \in 1..(n - 1) : cstk'[i] = cstk[i]
      /\ cstk'[n].fn = Top.fn /\ cstk'[n].mod = Top.mod
      /\ cstk'[n].scope = Top.scope /\ cstk'[n].node = Top.node
      /\ cstk'[n].at = k /\ cstk'[n].vals = vals
      /\ cstk'[n + 1].fn = Top.fn /\ cstk'[n + 1].mod = Top.mod
      /\ cstk'[n + 1].scope = env[Top.fn].scope /\ cstk'[n + 1].node = Kid(k)
      /\ cstk'[n + 1].at = 0 /\ cstk'[n + 1].vals = <<>>
  <2>1. Frame(env, Kid(k)) \in FrameRecord
    BY <1>a, <1>1, <1>2, FrameType
  <2>2. k \in Nat
    BY <1>a, <1>1, TopFacts
  <2> DEFINE c == Frame(env, Kid(k))
  <2>3. /\ c.fn = Top.fn /\ c.mod = Top.mod /\ c.scope = env[Top.fn].scope /\ c.node = Kid(k)
        /\ c.at = 0 /\ c.vals = <<>>
    BY <1>2 DEF Frame
  <2> HIDE DEF c
  <2>4. /\ cstk' \in Seq(FrameRecord) /\ Len(cstk') = n + 1
        /\ DOMAIN cstk' = 1..(n + 1)
        /\ \A i \in 1..(n - 1) : cstk'[i] = cstk[i]
        /\ cstk'[n].fn = Top.fn /\ cstk'[n].mod = Top.mod
        /\ cstk'[n].scope = Top.scope /\ cstk'[n].node = Top.node
        /\ cstk'[n].at = k /\ cstk'[n].vals = vals
        /\ cstk'[n + 1] = c /\ ret' = NoRet
    BY <1>0, <1>a, <2>1, <2>2, CallStack DEF c
  <2> QED  BY <2>3, <2>4
<1>4. FramesShown(t)'
  <2>1. \A i \in 1..n : ShownIn(t, cstk[i], fns'[cstk[i].fn].syms)
    BY <1>0, <1>a, <1>1, <1>2, BelowShown
  <2>2. \A i \in 1..n : /\ cstk'[i].fn = cstk[i].fn /\ cstk'[i].mod = cstk[i].mod
                       /\ cstk'[i].scope = cstk[i].scope /\ cstk'[i].node = cstk[i].node
    BY <1>a, <1>1, <1>3
  <2>3. ASSUME NEW i \in 1..n PROVE ShownIn(t, cstk[i], fns[cstk[i].fn].syms)'
    BY <1>a, <1>1, <2>1, <2>2, <2>3 DEF ShownIn, TypedNode, View, Node
  <2>4. Node(Top.mod, Kid(k)).type # "FUNCDECL"
    <3>1. n \in 1..Len(cstk)
      BY <1>0, <1>1
    <3>2. \A j \in 1..Len(N.kids) : Node(Top.mod, N.kids[j]).type # "FUNCDECL"
      BY <1>a, <1>1, <3>1, TypedFrame
    <3> QED  BY <3>2 DEF Kid, Arity
  <2>5. Shows(env[Top.fn].syms, env[Top.fn].scope,
              t[Top.mod][Kid(k)].names, t[Top.mod][Kid(k)].known)
    <3>1. \A j \in DOMAIN Env.syms : Env.syms[j].scope <= Env.scope /\ Env.syms[j].scope \in Nat
      BY <1>a, <1>1, EnvFacts DEF InOrder
    <3>2. \A j \in DOMAIN Env.syms : Env.syms[j].scope <= env[Top.fn].scope
      BY <1>2, <3>1
    <3> QED  BY <1>2, <3>1, <3>2, ShowsWider
  <2>6. ShownIn(t, cstk[n + 1], fns[cstk[n + 1].fn].syms)'
    BY <1>a, <1>1, <1>2, <1>3, <2>4, <2>5 DEF ShownIn, TypedNode, View, Node
  <2>7. \A i \in DOMAIN cstk' : i \in 1..n \/ i = n + 1
    BY <1>3
  <2> QED  BY <2>3, <2>6, <2>7 DEF FramesShown
<1>5. ScopesNest'
  <2>1. ASSUME NEW i \in 1..n
        PROVE  /\ cstk'[i].fn = cstk[i].fn /\ cstk'[i].scope = cstk[i].scope
               /\ cstk[i].scope \in Nat
    <3>1. i \in 1..(n - 1) \/ i = n
      OBVIOUS
    <3> QED  BY <1>0, <1>a, <1>1, <1>3, <3>1, Shapes
  <2>2. Top.scope <= Env.scope /\ Top.scope \in Nat
    BY <1>0, <1>a, <1>1, ScopeOfTop, Shapes DEF OpenAt
  <2>3. \A i \in 1..n : cstk[i].fn = Top.fn => cstk[i].scope <= Top.scope
    BY <1>a, <1>1 DEF ScopesNest
  <2>4. \A i \in 1..n : cstk'[i].fn = cstk'[n + 1].fn => cstk'[i].scope <= cstk'[n + 1].scope
    BY <1>2, <1>3, <2>1, <2>2, <2>3, SMTT(60)
  <2>5. \A i, j \in 1..n : i <= j /\ cstk'[i].fn = cstk'[j].fn => cstk'[i].scope <= cstk'[j].scope
    BY <1>a, <1>1, <2>1 DEF ScopesNest
  <2>6. \A i, j \in 1..(n + 1) : i <= j => (i \in 1..n \/ i = n + 1) /\ (j \in 1..n \/ (j = n + 1))
    OBVIOUS
  <2>7. \A i \in 1..n : ~(n + 1 <= i)
    OBVIOUS
  <2>8. cstk'[n + 1].scope <= cstk'[n + 1].scope
    BY <1>2, <1>3
  <2> QED  BY <1>3, <2>4, <2>5, <2>6, <2>7, <2>8 DEF ScopesNest
<1>6. OperandsHeld(t)'
  <2>1. ASSUME NEW i \in 1..(n - 1) PROVE HeldTyped(t, cstk[i], TRUE)'
    <3>1. HeldTyped(t, cstk[i], TRUE) /\ cstk'[i] = cstk[i]
      BY <1>0, <1>a, <1>1, <1>3, HeldBelow
    <3> QED  BY <1>a, <1>1, <3>1 DEF HeldTyped, Node, InCallee, Callable, Prim
  <2>2. HeldTyped(t, Top, n < Len(cstk) \/ ret # NoRet)
    BY <1>a, <1>1 DEF OperandsHeld
  <2>3. HeldTyped(t, cstk[n], TRUE)'
    <3>1. HeldTyped(t, cstk'[n], TRUE)
      BY <1>1, <1>3, <2>2, OperandCalled
    <3> QED  BY <1>1, <3>1 DEF HeldTyped, Node, InCallee, Callable, Prim
  <2>4. HeldTyped(t, cstk[n + 1], FALSE)'
    BY <1>3 DEF HeldTyped, Node, InCallee, Callable, Prim
  <2>5. ASSUME NEW i \in 1..n PROVE HeldTyped(t, cstk[i], i < Len(cstk) \/ ret # NoRet)'
    <3>1. (i < Len(cstk) \/ ret # NoRet)' = TRUE
      BY <1>3
    <3>2. HeldTyped(t, cstk[i], TRUE)'
      <4>1. i \in 1..(n - 1) \/ i = n
        OBVIOUS
      <4> QED  BY <2>1, <2>3, <4>1
    <3> QED  BY <3>1, <3>2
  <2>6. HeldTyped(t, cstk[n + 1], n + 1 < Len(cstk) \/ ret # NoRet)'
    <3>1. (n + 1 < Len(cstk) \/ ret # NoRet)' = FALSE
      BY <1>3
    <3> QED  BY <2>4, <3>1
  <2>7. \A i \in DOMAIN cstk' : i \in 1..n \/ i = n + 1
    BY <1>3
  <2> QED  BY <2>5, <2>6, <2>7 DEF OperandsHeld
<1>7. Returned(t)'
  BY <1>3 DEF Returned
<1>8. GlobalsFound' /\ GlobalValues'
  BY <1>a, <1>1, IntactStay, GlobalsStayTyped
<1> QED  BY <1>2, <1>4, <1>5, <1>6, <1>7, <1>8 DEF TypesInv

-----------------------------------------------------------------------------
(* What the typing says of a node, and of the value that a child gives back. *)

LEMMA NodeTypedCases ==
  ASSUME NEW p, NEW t, NEW m, NEW n, NodeTyped(p, t, m, n)
  PROVE  LET type == p[m][n].type
             kid == OfKid(p, t, m, n, 1).type
         IN /\ type = "LOCALDECL" => LocalDeclTyped(p, t, m, n)
            /\ type = "RETURN" => ReturnTyped(p, t, m, n)
            /\ type = "CTREE" => CtreeTyped(p, t, m, n)
            /\ type = "WHILE" => WhileTyped(p, t, m, n)
            /\ type = "FOR" => ForTyped(p, t, m, n)
            /\ type = "BLOCK" => BlockTyped(p, t, m, n)
            /\ type = "EATOM" => AtomTyped(p, t, m, n)
            /\ type = "ESYSTEM" => SystemTyped(p, t, m, n)
            /\ type = "ECALL" => CallTyped(p, t, m, n)
            /\ type = "EACCESS" => AccessTyped(p, t, m, n)
            /\ type = "ENEG" => UnaryTyped(p, t, m, n, Number)
            /\ type = "ENOT" => UnaryTyped(p, t, m, n, {"bool"})
            /\ type = "ECAST" => CastTyped(p, t, m, n)
            /\ type = "ETERNARY" => TernaryTyped(p, t, m, n)
            /\ type = "EADD" => SameOf(p, t, m, n, Number \union {"string"}) /\ t[m][n].type = kid
            /\ type \in Arithmetics => SameOf(p, t, m, n, Number) /\ t[m][n].type = kid
            /\ type \in Comparisons =>
                 SameOf(p, t, m, n, Number \union {"string"}) /\ t[m][n].type = "bool"
            /\ type \in Logicals => SameOf(p, t, m, n, {"bool"}) /\ t[m][n].type = "bool"
            /\ type \in Assigns => AssignTyped(p, t, m, n, PrimTypes \ {"void"})
            /\ type = "EADDASSIGN" => AssignTyped(p, t, m, n, Number \union {"string"})
            /\ type \in Assigns \ {"EASSIGN", "EADDASSIGN"} => AssignTyped(p, t, m, n, Number)
<1>2. p[m][n].type \in Assigns => AssignTyped(p, t, m, n, PrimTypes \ {"void"})
  BY DEF NodeTyped, AssignTyped, SameOf, Number, PrimTypes, Assigns, Arithmetics, Comparisons, Logicals
<1> QED  BY <1>2 DEF NodeTyped, Arithmetics, Comparisons, Logicals, Assigns

\* What holds of a handler that runs a node, other than a function.
LEMMA TopTyped ==
  ASSUME NEW t, TInv(t), Running
  PROVE  /\ N.type # "FUNCDECL" =>
              /\ Top.node \in DOMAIN t[Top.mod] /\ NodeTyped(prog, t, Top.mod, Top.node)
              /\ N.type \in StmtTypes \union ExprTypes
              /\ Shows(fns[Top.fn].syms, Top.scope, t[Top.mod][Top.node].names,
                       t[Top.mod][Top.node].known)
         /\ N.type = "FUNCDECL" =>
              /\ FunctionTyped(prog, t, Top.mod, Top.node) /\ Kid(3) \in DOMAIN t[Top.mod]
              /\ Shows(fns[Top.fn].syms, Top.scope, t[Top.mod][Kid(3)].names,
                       t[Top.mod][Kid(3)].known)
         /\ N = prog[Top.mod][Top.node]
         /\ HeldTyped(t, Top, ret # NoRet)
         /\ \A k \in 1..Arity : Kid(k) = prog[Top.mod][Top.node].kids[k]
                               /\ Node(Top.mod, Kid(k)).type # "FUNCDECL"
<1>1. /\ Len(cstk) \in 1..Len(cstk) /\ Top = cstk[Len(cstk)] /\ N = Node(Top.mod, Top.node)
      /\ Len(cstk) \in DOMAIN cstk
  BY TInvFacts, TopFacts DEF Top
<1>2. ShownIn(t, Top, fns[Top.fn].syms)
  BY <1>1, TInvFacts DEF FramesShown
<1>3. HeldTyped(t, Top, ret # NoRet)
  <2>1. HeldTyped(t, Top, Len(cstk) < Len(cstk) \/ ret # NoRet)
    BY <1>1, TInvFacts DEF OperandsHeld
  <2>2. ~(Len(cstk) < Len(cstk))
    BY <1>1
  <2>3. (Len(cstk) < Len(cstk) \/ ret # NoRet) = (ret # NoRet)
    BY <2>2
  <2> QED  BY <2>1, <2>3
<1>4. /\ \/ N.type = "FUNCDECL" /\ FunctionTyped(prog, t, Top.mod, Top.node)
         \/ /\ Top.node \in DOMAIN t[Top.mod] /\ NodeTyped(prog, t, Top.mod, Top.node)
            /\ N.type \in StmtTypes \union ExprTypes /\ N.type # "FUNCDECL"
      /\ \A k \in 1..Len(N.kids) : Node(Top.mod, N.kids[k]).type # "FUNCDECL"
  BY <1>1, TInvFacts, TypedFrame
<1>5. Kid(3) = N.kids[3] /\ N = prog[Top.mod][Top.node]
  BY <1>1 DEF Kid, Node
<1>6. N.type = "FUNCDECL" => Kid(3) \in DOMAIN t[Top.mod]
  BY <1>4, <1>5 DEF FunctionTyped, Has
<1> QED  BY <1>1, <1>2, <1>3, <1>4, <1>5, <1>6 DEF ShownIn, TypedNode, View, Kid, Arity

\* A child that has given back a value of a type other than void.
LEMMA GivenValue ==
  ASSUME NEW t, TInv(t), Running, ret # NoRet, ~InCallee(Top)
  PROVE  LET n == Kid(Top.at)
         IN /\ Top.at \in 1..Arity /\ n \in DOMAIN t[Top.mod] /\ n \in DOMAIN prog[Top.mod]
            /\ NodeTyped(prog, t, Top.mod, n)
            /\ Shows(Env.syms, Env.scope, t[Top.mod][n].names,
                     KnownAfter(prog[Top.mod][n], t[Top.mod][n]))
            /\ GivesTyped(t, Top.mod, n, ret.act, ret.val)
            /\ prog[Top.mod][n].type \in ExprTypes /\ t[Top.mod][n].type # "void" =>
                 /\ ret.act = "none" /\ ret.val \in Value /\ Slot(ret.val) = ret.val
                 /\ ret.val.type = t[Top.mod][n].type
<1> DEFINE n == Kid(Top.at)
<1>1. Goes(Top)
  BY TInvFacts, TopFacts DEF CInv, Linked, Top
<1>2. Top.at \in 1..Arity /\ Called(Top) = n
  BY <1>1 DEF Goes, Called, N, Arity, Kid
<1>3. /\ n \in DOMAIN t[Top.mod]
      /\ Shows(Env.syms, Env.scope, t[Top.mod][n].names,
               KnownAfter(Node(Top.mod, n), t[Top.mod][n]))
      /\ GivesTyped(t, Top.mod, n, ret.act, ret.val)
  BY <1>2, TInvFacts, TopFacts DEF Returned, ChildGave
<1>4. Top.mod \in DOMAIN prog /\ n \in DOMAIN prog[Top.mod]
  BY <1>2, TInvFacts, TopFacts
<1>5. NodeTyped(prog, t, Top.mod, n)
  BY <1>3, <1>4, TInvFacts DEF WellTyped
<1>6. ASSUME prog[Top.mod][n].type \in ExprTypes, t[Top.mod][n].type # "void"
      PROVE  /\ ret.act = "none" /\ ret.val \in Value /\ Slot(ret.val) = ret.val
             /\ ret.val.type = t[Top.mod][n].type
  <2>1. prog[Top.mod][n].type \notin Assigns
    BY <1>5, <1>6, NodeTypedCases DEF AssignTyped
  <2>2. ret.act = "none" /\ Fits(ret.val, t[Top.mod][n].type) /\ ret.val # Unwritten
    BY <1>3, <1>6, <2>1 DEF GivesTyped, Node
  <2>3. ret.val \in Value
    BY <2>2, TInvFacts, RetFacts
  <2> QED  BY <1>6, <2>2, <2>3 DEF Fits, Slot
<1> QED  BY <1>2, <1>3, <1>4, <1>5, <1>6 DEF Node

\* An operand is a value: nothing that may be void is one.
LEMMA OperandNotVoid ==
  ASSUME NEW t, TInv(t), Running, N.type \in OperandTypes \ {"ESYSTEM"},
         NEW k \in 1..Arity, k >= FirstOf(N.type), N.type = "ECAST" => k = 1
  PROVE  t[Top.mod][Kid(k)].type # "void" /\ Node(Top.mod, Kid(k)).type \in ExprTypes
<1> DEFINE m == Top.mod
           n == Top.node
<1>1. /\ NodeTyped(prog, t, m, n) /\ N = prog[m][n] /\ m \in DOMAIN prog /\ n \in DOMAIN prog[m]
      /\ Kid(k) = prog[m][n].kids[k] /\ WellTyped(prog, t) /\ prog \in Programs
      /\ N = Node(m, n) /\ Arity = Len(N.kids)
  BY TInvFacts, TopFacts, TopTyped DEF Arity, OperandTypes, Binaries, Arithmetics, Comparisons, Logicals, Assigns
<1>2. k \in Nat /\ k > 0 /\ Arity \in Nat /\ k <= Arity
  BY TInvFacts, TopFacts
<1>3. Node(m, Kid(k)).type \in ChildTypes(N.type, k)
  BY <1>1, ChildFacts
<1>4. ChildTypes(N.type, k) = ExprTypes
  <2>1. N.type \in {"LOCALDECL"} => k # 1
    BY <1>2 DEF FirstOf
  <2> QED  BY <2>1, <1>2 DEF ChildTypes, OperandTypes, Binaries, Arithmetics, Comparisons, Logicals, Assigns
<1>c. /\ N.type = "LOCALDECL" => LocalDeclTyped(prog, t, m, n)
      /\ N.type = "RETURN" => ReturnTyped(prog, t, m, n)
      /\ N.type = "EACCESS" => AccessTyped(prog, t, m, n)
      /\ N.type = "ENEG" => UnaryTyped(prog, t, m, n, Number)
      /\ N.type = "ENOT" => UnaryTyped(prog, t, m, n, {"bool"})
      /\ N.type = "ECAST" => CastTyped(prog, t, m, n)
      /\ N.type = "EADD" => SameOf(prog, t, m, n, Number \union {"string"})
      /\ N.type \in Arithmetics => SameOf(prog, t, m, n, Number)
      /\ N.type \in Comparisons => SameOf(prog, t, m, n, Number \union {"string"})
      /\ N.type \in Logicals => SameOf(prog, t, m, n, {"bool"})
      /\ N.type \in Assigns => AssignTyped(prog, t, m, n, PrimTypes \ {"void"})
  <2> HIDE DEF m, n
  <2> QED  BY <1>1, NodeTypedCases
<1>5. ASSUME N.type = "ECALL" PROVE t[m][Kid(k)].type # "void"
  <2>1. CallTyped(prog, t, m, n) /\ FirstOf(N.type) = 2
    BY <1>1, <1>5, NodeTypedCases DEF FirstOf
  <2>2. PICK i \in DOMAIN prog : \E j \in DOMAIN prog[i] :
             prog[i][j].type = "FUNCDECL" /\ ArgsTyped(prog, t, m, n, i, j)
    BY <2>1 DEF CallTyped
  <2>3. PICK j \in DOMAIN prog[i] :
             prog[i][j].type = "FUNCDECL" /\ ArgsTyped(prog, t, m, n, i, j)
    BY <2>2
  <2>4. FunctionTyped(prog, t, i, j)
    BY <1>1, <2>3 DEF WellTyped
  <2>5. /\ ParamsOf(prog, i, j) \in Seq(Nat)
    <3>1. prog[i][j].kids[2] \in DOMAIN prog[i]
      <4>1. NodeOk(prog[i], j) /\ prog[i][j] \in NodeRecord
        BY <1>1, NodeFacts DEF Node
      <4>2. Len(prog[i][j].kids) = 3 /\ prog[i][j].kids \in Seq(Nat)
        <5>1. Arities("FUNCDECL") = {3}
          BY DEF Arities, Arithmetics, Comparisons, Logicals, Assigns
        <5> QED  BY <2>3, <4>1, <5>1 DEF NodeOk, NodeRecord
      <4> QED  BY <4>1, <4>2 DEF NodeOk
    <3> QED  BY <1>1, <3>1, NodeFacts DEF Node, ParamsOf, NodeRecord
  <2>6. k - 1 \in DOMAIN ParamsOf(prog, i, j) /\ (k - 1) + 1 = k
    <3>1. Len(prog[m][n].kids) = Len(ParamsOf(prog, i, j)) + 1
      BY <2>3 DEF ArgsTyped
    <3> QED  BY <1>1, <1>2, <2>1, <2>5, <3>1
  <2>7. OfKid(prog, t, m, n, (k - 1) + 1).type = DeclType(prog, i, ParamsOf(prog, i, j)[k - 1])
    BY <2>3, <2>6 DEF ArgsTyped
  <2>8. DeclType(prog, i, ParamsOf(prog, i, j)[k - 1]) # "void"
    BY <2>4, <2>6 DEF FunctionTyped
  <2> QED  BY <1>1, <2>6, <2>7, <2>8 DEF OfKid
<1>6. ASSUME N.type # "ECALL" PROVE t[m][Kid(k)].type # "void"
  <2>1. t[m][Kid(k)].type = OfKid(prog, t, m, n, k).type
    BY <1>1 DEF OfKid
  <2>2. CASE N.type = "LOCALDECL"
    <3>1. k = 2
      BY <1>1, <1>2, <2>2, TInvFacts, KidCounts DEF FirstOf
    <3> QED  BY <1>c, <2>1, <2>2, <3>1 DEF LocalDeclTyped
  <2>3. CASE N.type = "RETURN"
    <3>1. k = 1 /\ prog[m][n].kids # <<>>
      BY <1>1, <1>2, <2>3, TInvFacts, KidCounts
    <3> QED  BY <1>1, <1>c, <2>1, <2>3, <3>1 DEF ReturnTyped
  <2>4. CASE N.type = "EACCESS"
    <3>1. k = 1 \/ k \in 2..Len(prog[m][n].kids)
      BY <1>1, <1>2
    <3> QED  BY <1>1, <1>c, <2>1, <2>4, <3>1 DEF AccessTyped
  <2>5. CASE N.type \in {"ENEG", "ENOT", "ECAST"}
    <3>1. k = 1
      BY <1>1, <1>2, <2>5, TInvFacts, KidCounts
    <3> QED  BY <1>c, <2>1, <2>5, <3>1 DEF UnaryTyped, CastTyped, Number
  <2>6. CASE N.type \in Binaries \union Assigns
    <3>1. k = 1 \/ k = 2
      BY <1>1, <1>2, <2>6, TInvFacts, KidCounts DEF Binaries
    <3>2. \E types : SameOf(prog, t, m, n, types) /\ "void" \notin types
      BY <1>c, <2>6 DEF Binaries, Number, AssignTyped, PrimTypes
    <3> QED  BY <2>1, <3>1, <3>2 DEF SameOf
  <2> QED  BY <1>6, <2>2, <2>3, <2>4, <2>5, <2>6 DEF OperandTypes
<1> QED  BY <1>3, <1>4, <1>5, <1>6

\* The frames keep their places and Top its environment.
LEMMA PlacesKept ==
  ASSUME NEW t, TInv(t), Running, UNCHANGED prog, TablesKept, NEW n \in Nat, n = Len(cstk),
         \A i \in 1..n : /\ cstk'[i].fn = cstk[i].fn /\ cstk'[i].mod = cstk[i].mod
                         /\ cstk'[i].scope = cstk[i].scope /\ cstk'[i].node = cstk[i].node
  PROVE  /\ \A i \in 1..n : ShownIn(t, cstk[i], fns[cstk[i].fn].syms)'
         /\ \A i, j \in 1..n : i <= j /\ cstk'[i].fn = cstk'[j].fn =>
              cstk'[i].scope <= cstk'[j].scope
<1>1. \A i \in 1..n : ShownIn(t, cstk[i], fns'[cstk[i].fn].syms)
  BY TInvFacts, BelowShown
<1>2. ASSUME NEW i \in 1..n PROVE ShownIn(t, cstk[i], fns[cstk[i].fn].syms)'
  BY <1>1, <1>2 DEF ShownIn, TypedNode, View, Node
<1>3. DOMAIN cstk = 1..n /\ ScopesNest
  BY TInvFacts, Shapes
<1>4. ASSUME NEW i \in 1..n, NEW j \in 1..n, i <= j, cstk'[i].fn = cstk'[j].fn
      PROVE  cstk'[i].scope <= cstk'[j].scope
  <2>1. cstk[i].scope <= cstk[j].scope
    BY <1>3, <1>4 DEF ScopesNest
  <2> QED  BY <2>1
<1> QED  BY <1>2, <1>4

\* The handlers below keep their operands.
LEMMA BelowHeld ==
  ASSUME NEW t, TInv(t), UNCHANGED prog, NEW n \in Nat, n = Len(cstk),
         \A i \in 1..(n - 1) : cstk'[i] = cstk[i]
  PROVE  \A i \in 1..(n - 1) : HeldTyped(t, cstk[i], TRUE)'
<1> SUFFICES ASSUME NEW i \in 1..(n - 1) PROVE HeldTyped(t, cstk[i], TRUE)'
  OBVIOUS
<1>1. HeldTyped(t, cstk[i], TRUE) /\ cstk'[i] = cstk[i]
  BY TInvFacts, HeldBelow
<1> QED  BY <1>1 DEF HeldTyped, Node, InCallee, Callable, Prim

\* An operand has the type of its node.
LEMMA OperandGiven ==
  ASSUME NEW t, TInv(t), Running, ret # NoRet, ~InCallee(Top), N.type \in OperandTypes
  PROVE  /\ Top.at = FirstOf(N.type) + Len(Top.vals)
         /\ N.type # "ESYSTEM" => Slot(ret.val).type = t[Top.mod][Kid(Top.at)].type
<1>1. HeldTyped(t, Top, TRUE) /\ N = Node(Top.mod, Top.node)
  <2>1. (ret # NoRet) = TRUE
    OBVIOUS
  <2>2. HeldTyped(t, Top, ret # NoRet)
    BY TopTyped
  <2> QED  BY <2>1, <2>2, TInvFacts, TopFacts
<1>2. Top.at = FirstOf(N.type) + Len(Top.vals)
  BY <1>1, Zenon DEF HeldTyped
<1>3. Top.at \in 1..Arity /\ Top.at \in Nat /\ Top.at > 0 /\ Top.vals \in Seq(Value) /\ Len(Top.vals) \in Nat
  BY GivenValue, TInvFacts, TopFacts DEF FrameRecord
<1>4. FirstOf(N.type) \in Nat /\ Top.at >= FirstOf(N.type)
  <2>1. FirstOf(N.type) \in Nat
    BY DEF FirstOf
  <2> QED  BY <1>2, <1>3, <2>1
<1>5. ASSUME N.type = "ECAST" PROVE Top.at = 1
  <2>1. Arity = 2
    BY <1>5, TInvFacts, KidCounts
  <2>2. ASSUME Top.at = 2 PROVE FALSE
    <3>1. NodeTyped(prog, t, Top.mod, Kid(2))
      BY <2>2, GivenValue
    <3>2. prog[Top.mod][Kid(2)].type \in StmtTypes \union ExprTypes
      BY <3>1, NodeTypedKinds
    <3>3. Node(Top.mod, Kid(2)).type \in {"TYPE"}
      BY <1>1, <1>3, <1>5, <2>2, TInvFacts, TopFacts, ChildFacts, TypeChildren DEF Kid, Arity
    <3> QED  BY <3>2, <3>3 DEF Node, StmtTypes, ExprTypes, Binaries, Arithmetics, Comparisons, Logicals, Assigns
  <2> QED  BY <1>3, <2>1, <2>2
<1>6. ASSUME N.type # "ESYSTEM" PROVE Slot(ret.val).type = t[Top.mod][Kid(Top.at)].type
  <2>1. t[Top.mod][Kid(Top.at)].type # "void" /\ Node(Top.mod, Kid(Top.at)).type \in ExprTypes
    BY <1>3, <1>4, <1>5, <1>6, OperandNotVoid
  <2> QED  BY <2>1, GivenValue DEF Node
<1> QED  BY <1>2, <1>6

LEMMA OperandCollected ==
  ASSUME NEW t, TInv(t), Running, ret # NoRet, ~InCallee(Top), N.type \in OperandTypes,
         NEW f, f.mod = Top.mod, f.node = Top.node, f.at = Top.at,
         f.vals = Append(Top.vals, Slot(ret.val))
  PROVE  HeldTyped(t, f, FALSE)
<1> DEFINE k == Len(Top.vals)
           v == Slot(ret.val)
<1>1. /\ HeldTyped(t, Top, TRUE) /\ N = Node(Top.mod, Top.node) /\ Node(f.mod, f.node) = N
      /\ Top.vals \in Seq(Value) /\ k \in Nat /\ v \in Value
  <2>1. (ret # NoRet) = TRUE
    OBVIOUS
  <2>2. HeldTyped(t, Top, ret # NoRet)
    BY TopTyped
  <2>3. Top.vals \in Seq(Value) /\ N = Node(Top.mod, Top.node)
    BY TInvFacts, TopFacts DEF FrameRecord
  <2>4. v \in Value
    <3>1. ret.val \in Value \union {Unwritten} /\ live \subseteq Blocks
      BY TInvFacts, RetFacts
    <3> QED  BY <3>1, ValueFacts
  <2>5. k \in Nat
    BY <2>3
  <2> HIDE DEF k, v
  <2> QED  BY <2>1, <2>2, <2>3, <2>4, <2>5
<1> HIDE DEF v
<1>2. /\ DOMAIN f.vals = 1..(k + 1) /\ DOMAIN Top.vals = 1..k /\ Len(f.vals) = k + 1
      /\ f.vals[k + 1] = v /\ \A j \in 1..k : f.vals[j] = Top.vals[j]
  BY <1>1 DEF v
<1> HIDE DEF k
<1>3. \A j \in 1..(k + 1) : j \in 1..k \/ j = k + 1
  BY <1>1
<1>4. Top.at = FirstOf(N.type) + k /\ (N.type # "ESYSTEM" => v.type = t[Top.mod][Kid(Top.at)].type)
  BY OperandGiven DEF k, v
<1>5. ASSUME N.type # "ESYSTEM"
      PROVE  \A j \in 1..(k + 1) : f.vals[j].type = t[Top.mod][N.kids[FirstOf(N.type) + j - 1]].type
  <2>1. \A j \in DOMAIN Top.vals :
          Top.vals[j].type = t[Top.mod][N.kids[FirstOf(N.type) + j - 1]].type
    BY <1>1, <1>5, Zenon DEF HeldTyped
  <2>2. FirstOf(N.type) + (k + 1) - 1 = Top.at
    BY <1>1, <1>4 DEF FirstOf
  <2>3. f.vals[k + 1].type = t[Top.mod][N.kids[FirstOf(N.type) + (k + 1) - 1]].type
    BY <1>2, <1>4, <1>5, <2>2 DEF Kid
  <2> QED  BY <1>2, <1>3, <2>1, <2>3
<1>6. ASSUME N.type = "ESYSTEM"
      PROVE  /\ Callable(f)
             /\ \A j \in 1..(k + 1) : j < Len(f.vals) => f.vals[j].type = SysFns[N.sym].argtypes[j]
  <2>1. Callable(Top) /\ \A j \in DOMAIN Top.vals : Top.vals[j].type = SysFns[N.sym].argtypes[j]
    BY <1>1, <1>6, Zenon DEF HeldTyped
  <2>2. \A j \in 1..(k + 1) : j < k + 1 => j \in 1..k
    BY <1>1
  <2> QED  BY <1>1, <1>2, <2>1, <2>2 DEF Callable
<1> QED  BY <1>1, <1>2, <1>5, <1>6, Zenon DEF HeldTyped

\* The stack when an operand goes to the others.
LEMMA CollectStack ==
  ASSUME NEW t, TInv(t), Collect, NEW n \in Nat, n = Len(cstk)
  PROVE  /\ IInv /\ Running /\ n > 0 /\ DOMAIN cstk = 1..n /\ Top = cstk[n] /\ UNCHANGED prog
         /\ N = Node(Top.mod, Top.node) /\ ret # NoRet /\ ~InCallee(Top) /\ Top \in FrameRecord
         /\ N.type \in OperandTypes /\ fns' = fns /\ ret' = NoRet /\ Intact
         /\ DOMAIN cstk' = 1..n /\ Len(cstk') = n
         /\ \A i \in 1..(n - 1) : cstk'[i] = cstk[i]
         /\ cstk'[n].fn = Top.fn /\ cstk'[n].mod = Top.mod /\ cstk'[n].scope = Top.scope
         /\ cstk'[n].node = Top.node /\ cstk'[n].at = Top.at
         /\ cstk'[n].vals = Append(Top.vals, Slot(ret.val))
<1>1. /\ IInv /\ Running /\ n > 0 /\ DOMAIN cstk = 1..n /\ Top = cstk[n] /\ UNCHANGED prog
      /\ N = Node(Top.mod, Top.node) /\ ret # NoRet /\ ~InCallee(Top) /\ Top \in FrameRecord
      /\ N.type \in OperandTypes /\ fns' = fns /\ ret' = NoRet /\ Intact
  <2>1. IInv /\ Running /\ fns' = fns /\ ret' = NoRet /\ Intact /\ N.type \in OperandTypes
        /\ ret # NoRet /\ Top.at <= Arity
    BY TInvFacts DEF Collect, Resuming
  <2>2. Top.at \in Nat /\ Arity \in Nat /\ N = Node(Top.mod, Top.node) /\ Top \in FrameRecord
    BY <2>1, TopFacts DEF FrameRecord
  <2>3. ~InCallee(Top)
    BY <2>1, <2>2 DEF InCallee, Arity
  <2> QED  BY <2>1, <2>2, <2>3, TopFacts, Shapes DEF Top, Intact
<1> DEFINE v == Slot(ret.val)
<1>2. /\ DOMAIN cstk' = 1..n /\ Len(cstk') = n
      /\ \A i \in 1..(n - 1) : cstk'[i] = cstk[i]
      /\ cstk'[n].fn = Top.fn /\ cstk'[n].mod = Top.mod /\ cstk'[n].scope = Top.scope
      /\ cstk'[n].node = Top.node /\ cstk'[n].at = Top.at /\ cstk'[n].vals = Append(Top.vals, v)
  <2>1. cstk' = [cstk EXCEPT ![Len(cstk)].vals = Append(@, v)] /\ cstk \in Seq(FrameRecord)
    BY <1>1 DEF Collect, IInv, TypeOK
  <2> HIDE DEF v
  <2> DEFINE e == [Top EXCEPT !.vals = Append(Top.vals, v)]
  <2>2. cstk' = [cstk EXCEPT ![n] = e]
    BY <1>1, <2>1
  <2>3. /\ e.fn = Top.fn /\ e.mod = Top.mod /\ e.scope = Top.scope /\ e.node = Top.node
        /\ e.at = Top.at /\ e.vals = Append(Top.vals, v)
    BY <1>1 DEF FrameRecord
  <2> HIDE DEF e
  <2>4. DOMAIN cstk' = 1..n /\ cstk'[n] = e /\ \A i \in 1..(n - 1) : cstk'[i] = cstk[i]
    BY <1>1, <2>2
  <2>5. Len(cstk') = n
    BY <2>1, <2>2
  <2> QED  BY <2>3, <2>4, <2>5
<1> QED  BY <1>1, <1>2

\* An operand goes to the others.
LEMMA Collected ==
  ASSUME NEW t, TInv(t), Collect
  PROVE  TypesInv(t)'
<1>0. PICK n \in Nat : n = Len(cstk)
  BY TInvFacts, TopFacts DEF Collect, Resuming
<1> DEFINE v == Slot(ret.val)
<1>1. /\ IInv /\ Running /\ n > 0 /\ DOMAIN cstk = 1..n /\ Top = cstk[n] /\ UNCHANGED prog
      /\ N = Node(Top.mod, Top.node) /\ ret # NoRet /\ ~InCallee(Top) /\ Top \in FrameRecord
      /\ N.type \in OperandTypes /\ fns' = fns /\ ret' = NoRet /\ Intact
  BY <1>0, CollectStack
<1>2. /\ DOMAIN cstk' = 1..n /\ Len(cstk') = n
      /\ \A i \in 1..(n - 1) : cstk'[i] = cstk[i]
      /\ cstk'[n].fn = Top.fn /\ cstk'[n].mod = Top.mod /\ cstk'[n].scope = Top.scope
      /\ cstk'[n].node = Top.node /\ cstk'[n].at = Top.at /\ cstk'[n].vals = Append(Top.vals, v)
  BY <1>0, CollectStack
<1>3. TablesKept /\ LocalsTyped'
  BY <1>1, TInvFacts, SameTables
<1>4. \A i \in 1..n : /\ cstk'[i].fn = cstk[i].fn /\ cstk'[i].mod = cstk[i].mod
                      /\ cstk'[i].scope = cstk[i].scope /\ cstk'[i].node = cstk[i].node
  <2>1. \A i \in 1..n : i \in 1..(n - 1) \/ i = n
    BY <1>1
  <2> QED  BY <1>1, <1>2, <2>1
<1>5. /\ \A i \in 1..n : ShownIn(t, cstk[i], fns[cstk[i].fn].syms)'
      /\ \A i, j \in 1..n : i <= j /\ cstk'[i].fn = cstk'[j].fn => cstk'[i].scope <= cstk'[j].scope
  BY <1>0, <1>1, <1>3, <1>4, PlacesKept
<1>6. FramesShown(t)' /\ ScopesNest'
  BY <1>2, <1>5 DEF FramesShown, ScopesNest
<1>7. OperandsHeld(t)'
  <2>1. \A i \in 1..(n - 1) : HeldTyped(t, cstk[i], TRUE)'
    BY <1>0, <1>1, <1>2, BelowHeld
  <2>2. HeldTyped(t, cstk[n], FALSE)'
    <3>1. HeldTyped(t, cstk'[n], FALSE)
      BY <1>1, <1>2, OperandCollected
    <3> QED  BY <1>1, <3>1 DEF HeldTyped, Node, InCallee, Callable, Prim
  <2>3. ASSUME NEW i \in 1..n PROVE HeldTyped(t, cstk[i], i < Len(cstk) \/ ret # NoRet)'
    <3>1. CASE i = n
      <4>1. (i < Len(cstk) \/ ret # NoRet)' = FALSE
        BY <1>1, <1>2, <3>1
      <4> QED  BY <2>2, <3>1, <4>1
    <3>2. CASE i # n
      <4>1. (i < Len(cstk) \/ ret # NoRet)' = TRUE /\ i \in 1..(n - 1)
        BY <1>2, <3>2
      <4> QED  BY <2>1, <4>1
    <3> QED  BY <3>1, <3>2
  <2> QED  BY <1>2, <2>3 DEF OperandsHeld
<1>8. Returned(t)'
  BY <1>1 DEF Returned
<1>9. GlobalsFound' /\ GlobalValues'
  BY <1>1, TInvFacts, IntactStay, GlobalsStayTyped
<1> QED  BY <1>3, <1>6, <1>7, <1>8, <1>9 DEF TypesInv

-----------------------------------------------------------------------------
(* What the tables say of a name. *)

\* A declaration is the only one of its name, and in the table of globals.
LEMMA GlobalFound ==
  ASSUME NEW t, TInv(t), phase = "run",
         NEW m \in DOMAIN prog, NEW n \in DOMAIN prog[m], Declares(prog, m, n)
  PROVE  LET i == GlobalIdx(prog[m][n].sym)
         IN /\ i \in 1..Len(globals) /\ i # 0 /\ globals[i].sym = prog[m][n].sym
            /\ globals[i].mod = m /\ globals[i].node = n
            /\ globals[i].type = IF prog[m][n].type = "FUNCDECL" THEN "func" ELSE DeclType(prog, m, n)
            /\ prog[m][n].type # "FUNCDECL" =>
                 globals[i].type \in PrimTypes \ {"void"} /\ globals[i].val.type = globals[i].type
<1> DEFINE sym == prog[m][n].sym
           i == GlobalIdx(sym)
<1>1. /\ Len(globals) \in Nat /\ DOMAIN globals = 1..Len(globals) /\ IInv
      /\ GlobalsFound /\ GlobalValues /\ WellTyped(prog, t) /\ prog \in Programs
  BY TInvFacts, Shapes
<1>2. PICK g \in 1..Len(globals) : globals[g].mod = m /\ globals[g].node = n
  BY <1>1 DEF GlobalsFound
<1>3. GlobalOk(globals[g])
  BY <1>1 DEF GlobalsFound
<1>4. globals[g].sym = sym
  BY <1>2, <1>3 DEF GlobalOk, Node
<1>5. i \in 1..Len(globals) /\ i # 0 /\ globals[i].sym = sym
  <2>1. i \in DOMAIN globals /\ globals[i].sym = sym
    BY <1>1, <1>4, FindSymIndex DEF GlobalIdx
  <2> QED  BY <1>1, <2>1
<1> HIDE DEF i
<1>6. GlobalOk(globals[i])
  BY <1>1, <1>5 DEF GlobalsFound
<1>7. globals[i].mod = m /\ globals[i].node = n
  <2>1. Declares(prog, globals[i].mod, globals[i].node)
        /\ prog[globals[i].mod][globals[i].node].sym = sym
    BY <1>5, <1>6 DEF GlobalOk, Node
  <2> QED  BY <1>1, <2>1 DEF WellTyped, GlobalsTyped, Declares
<1>8. globals[i].type = IF prog[m][n].type = "FUNCDECL" THEN "func" ELSE DeclType(prog, m, n)
  BY <1>6, <1>7 DEF GlobalOk, Node
<1>9. ASSUME prog[m][n].type # "FUNCDECL"
      PROVE  globals[i].type \in PrimTypes \ {"void"} /\ globals[i].val.type = globals[i].type
  <2>1. prog[m][n].type = "GLOBALDECL"
    BY <1>9 DEF Declares
  <2>2. Prim(m, Node(m, n).kids[1]) \in PrimTypes
    BY <1>1, <2>1, GlobalTypes DEF Node
  <2>3. globals[i].type = Prim(m, Node(m, n).kids[1])
    BY <1>8, <1>9 DEF DeclType, Prim, Node
  <2>4. globals[i].type # "void" /\ globals[i].type # "func"
    BY <1>1, <1>8, <1>9, <2>1, <2>2, <2>3 DEF WellTyped, GlobalsTyped, PrimTypes
  <2>5. globals[i].val.type = globals[i].type
    BY <1>1, <1>5, <2>4 DEF GlobalValues
  <2> QED  BY <2>2, <2>3, <2>4, <2>5
<1> QED  BY <1>5, <1>7, <1>8, <1>9 DEF i

\* The symbol that is found for node n is of the declaration that the typing says: a local
\* that is known, or a global.
FoundAs(t, m, n) ==
  LET sym == prog[m][n].sym
      a == t[m][n]
  IN \/ sym \in a.known /\ a.names[sym] = Decl(Lookup(sym))
     \/ /\ sym \notin a.known
        /\ \E i \in DOMAIN prog : \E j \in DOMAIN prog[i] :
             /\ prog[i][j].type = "GLOBALDECL" /\ prog[i][j].sym = sym
             /\ Lookup(sym).mod = i /\ Lookup(sym).node = j

\* A variable that is read or written is found, with a value of its type.
LEMMA VariableFound ==
  ASSUME NEW t, TInv(t), Running, NEW n \in DOMAIN prog[Top.mod], n \in DOMAIN t[Top.mod],
         prog[Top.mod][n].type = "EATOM", prog[Top.mod][n].tok = "IDENT",
         Shows(Env.syms, Env.scope, t[Top.mod][n].names, t[Top.mod][n].known)
  PROVE  LET sym == prog[Top.mod][n].sym
             type == t[Top.mod][n].type
         IN /\ Found(sym) /\ type \in PrimTypes \ {"void"}
            /\ Lookup(sym).val.type = type
            /\ IF LocalIdx(sym) # 0
               THEN LocalIdx(sym) \in 1..Len(Env.syms) /\ Env.syms[LocalIdx(sym)].type = type
               ELSE GlobalIdx(sym) \in 1..Len(globals) /\ globals[GlobalIdx(sym)].type = type
            /\ FoundAs(t, Top.mod, n)
<1> DEFINE m == Top.mod
           sym == prog[m][n].sym
           type == t[m][n].type
<1>1. /\ m \in DOMAIN prog /\ WellTyped(prog, t) /\ IInv /\ LocalsTyped /\ phase = "run"
      /\ Len(Env.syms) \in Nat /\ DOMAIN Env.syms = 1..Len(Env.syms)
      /\ \A j \in 1..Len(Env.syms) : Env.syms[j].scope <= Env.scope
      /\ \A j \in 1..Len(Env.syms) : LocalOk(Env.syms[j])
  <2>1. m \in DOMAIN prog /\ WellTyped(prog, t) /\ IInv /\ LocalsTyped /\ phase = "run" /\ ScopesSorted
    BY TInvFacts, TopFacts DEF Running
  <2>2. InOrder(Env) /\ Len(Env.syms) \in Nat /\ DOMAIN Env.syms = 1..Len(Env.syms)
    BY <2>1, EnvFacts
  <2>3. Len(fns) \in DOMAIN fns /\ Env = fns[Len(fns)]
    BY <2>1, TopFacts, Shapes
  <2> QED  BY <2>1, <2>2, <2>3 DEF InOrder, LocalsTyped
<1>2. AtomTyped(prog, t, m, n)
  <2>1. NodeTyped(prog, t, m, n)
    BY <1>1 DEF WellTyped
  <2> HIDE DEF m
  <2> QED  BY <2>1, NodeTypedCases DEF m
<1>3. CASE /\ sym \in t[m][n].known /\ sym \in DOMAIN t[m][n].names
           /\ type = t[m][n].names[sym].type
  <2> DEFINE i == LocalIdx(sym)
  <2>1. \E j \in DOMAIN Env.syms : Env.syms[j].sym = sym
    BY <1>3 DEF Shows
  <2>2. i \in 1..Len(Env.syms) /\ Env.syms[i].sym = sym
    BY <1>1, <2>1, FindSymIndex DEF LocalIdx
  <2> HIDE DEF i
  <2>3. i # 0
    BY <2>2
  <2>4. t[m][n].names[sym] = Decl(Env.syms[i])
    BY <1>1, <1>3, <2>2 DEF Shows
  <2>5. Env.syms[i].type = type
    BY <1>3, <2>4 DEF Decl
  <2>6. LocalOk(Env.syms[i])
    BY <1>1, <2>2
  <2>7. Lookup(sym) = Env.syms[i]
    BY <2>3 DEF Lookup, i
  <2>8. FoundAs(t, m, n)
    BY <1>3, <2>4, <2>7 DEF FoundAs
  <2> QED  BY <2>2, <2>3, <2>5, <2>6, <2>7, <2>8 DEF LocalOk, Found, i
<1>4. CASE \E a \in DOMAIN prog : \E b \in DOMAIN prog[a] :
             /\ prog[a][b].type = "GLOBALDECL" /\ prog[a][b].sym = sym
             /\ type = DeclType(prog, a, b)
  <2>1. PICK a \in DOMAIN prog : \E b \in DOMAIN prog[a] :
             /\ prog[a][b].type = "GLOBALDECL" /\ prog[a][b].sym = sym
             /\ type = DeclType(prog, a, b)
    BY <1>4
  <2>2. PICK b \in DOMAIN prog[a] :
             /\ prog[a][b].type = "GLOBALDECL" /\ prog[a][b].sym = sym
             /\ type = DeclType(prog, a, b)
    BY <2>1
  <2>3. Declares(prog, a, b) /\ IsGlobal(prog, sym)
    BY <2>2 DEF Declares, IsGlobal
  <2>4. LocalIdx(sym) = 0
    <3>1. ~\E j \in DOMAIN Env.syms : Env.syms[j].sym = sym
      BY <1>1, <2>3 DEF LocalOk
    <3> QED  BY <1>1, <3>1, FindSymIndex DEF LocalIdx
  <2>5. /\ GlobalIdx(sym) \in 1..Len(globals) /\ GlobalIdx(sym) # 0
        /\ globals[GlobalIdx(sym)].type = type /\ type \in PrimTypes \ {"void"}
        /\ globals[GlobalIdx(sym)].val.type = type
        /\ globals[GlobalIdx(sym)].mod = a /\ globals[GlobalIdx(sym)].node = b
    <3>1. prog[a][b].type # "FUNCDECL" /\ prog[a][b].sym = sym /\ type = DeclType(prog, a, b)
      BY <2>2
    <3> HIDE DEF sym, type
    <3> QED  BY <1>1, <2>3, <3>1, GlobalFound
  <2>6. sym \notin t[m][n].known
    <3>1. ~\E j \in DOMAIN Env.syms : Env.syms[j].sym = sym
      BY <1>1, <2>3 DEF LocalOk
    <3> QED  BY <3>1 DEF Shows
  <2>7. Lookup(sym) = globals[GlobalIdx(sym)]
    BY <2>4 DEF Lookup
  <2>8. FoundAs(t, m, n)
    BY <2>2, <2>5, <2>6, <2>7 DEF FoundAs
  <2> QED  BY <2>4, <2>5, <2>7, <2>8 DEF Found
<1> QED  BY <1>2, <1>3, <1>4 DEF AtomTyped

\* A call finds the function it names, whose parameters are as many as its arguments and
\* of their types.
LEMMA CalleeFound ==
  ASSUME NEW t, TInv(t), Running, N.type = "ECALL"
  PROVE  LET i == Callee(Top).mod
             j == Callee(Top).node
         IN /\ CalleeOk(Top) /\ i \in DOMAIN prog /\ j \in DOMAIN prog[i]
            /\ prog[i][j].type = "FUNCDECL" /\ FunctionTyped(prog, t, i, j)
            /\ prog[i][j].sym = Node(Top.mod, Kid(1)).sym
            /\ t[Top.mod][Top.node].type = DeclType(prog, i, j)
            /\ ArgsTyped(prog, t, Top.mod, Top.node, i, j)
            /\ ParamNodes(Top) = ParamsOf(prog, i, j) /\ ParamNodes(Top) \in Seq(Nat)
            /\ \A k \in 1..Len(ParamNodes(Top)) :
                 ParamNodes(Top)[k] \in DOMAIN prog[i] /\ DeclType(prog, i, ParamNodes(Top)[k]) \in PrimTypes
            /\ Arity = Len(ParamNodes(Top)) + 1
<1> DEFINE m == Top.mod
           n == Top.node
<1>1. /\ NodeTyped(prog, t, m, n) /\ N = prog[m][n] /\ WellTyped(prog, t) /\ IInv /\ prog \in Programs
      /\ phase = "run" /\ N = Node(m, n)
  BY TInvFacts, TopFacts, TopTyped DEF Running
<1>2. CallTyped(prog, t, m, n)
  <2> HIDE DEF m, n
  <2> QED  BY <1>1, NodeTypedCases
<1>3. PICK i \in DOMAIN prog : \E j \in DOMAIN prog[i] :
           /\ prog[i][j].type = "FUNCDECL" /\ prog[i][j].sym = prog[m][prog[m][n].kids[1]].sym
           /\ t[m][n].type = DeclType(prog, i, j)
           /\ ArgsTyped(prog, t, m, n, i, j)
  BY <1>2 DEF CallTyped
<1>4. PICK j \in DOMAIN prog[i] :
           /\ prog[i][j].type = "FUNCDECL" /\ prog[i][j].sym = prog[m][prog[m][n].kids[1]].sym
           /\ t[m][n].type = DeclType(prog, i, j)
           /\ ArgsTyped(prog, t, m, n, i, j)
  BY <1>3
<1>5. /\ CalleeOk(Top) /\ Callee(Top).mod = i /\ Callee(Top).node = j
  <2>1. /\ GlobalIdx(prog[i][j].sym) # 0 /\ globals[GlobalIdx(prog[i][j].sym)].mod = i
        /\ globals[GlobalIdx(prog[i][j].sym)].node = j
        /\ globals[GlobalIdx(prog[i][j].sym)].type = "func"
    BY <1>1, <1>4, GlobalFound DEF Declares
  <2>2. CalleeIdx(Top) = GlobalIdx(prog[i][j].sym)
    BY <1>4 DEF CalleeIdx, Node
  <2> QED  BY <2>1, <2>2 DEF CalleeOk, Callee
<1>6. FunctionTyped(prog, t, i, j)
  BY <1>1, <1>4 DEF WellTyped
<1>7. ParamNodes(Top) = ParamsOf(prog, i, j)
  BY <1>5 DEF ParamNodes, ParamsOf, Node
<1>8. /\ ParamNodes(Top) \in Seq(Nat)
      /\ \A k \in 1..Len(ParamNodes(Top)) : ParamNodes(Top)[k] \in DOMAIN prog[i]
  BY <1>1, <1>5, CalleeFacts
<1>9. ASSUME NEW k \in 1..Len(ParamNodes(Top))
      PROVE  DeclType(prog, i, ParamNodes(Top)[k]) \in PrimTypes
  <2> DEFINE c == prog[i][j].kids[2]
             a == ParamNodes(Top)[k]
  <2>1. 2 \in 1..Len(prog[i][j].kids) /\ prog[i][j] = Node(i, j)
    <3>1. NodeOk(prog[i], j)
      BY <1>1, NodeFacts
    <3>2. Arities("FUNCDECL") = {3}
      BY DEF Arities, Arithmetics, Comparisons, Logicals, Assigns
    <3>3. Len(prog[i][j].kids) = 3
      BY <1>4, <3>1, <3>2 DEF NodeOk
    <3> QED  BY <3>3 DEF Node
  <2>2. Node(i, c).type \in ChildTypes("FUNCDECL", 2) /\ c \in DOMAIN prog[i]
    <3>1. Node(i, Node(i, j).kids[2]).type \in ChildTypes(Node(i, j).type, 2)
      BY <1>1, <2>1, ChildFacts
    <3>2. Node(i, j).kids[2] \in DOMAIN prog[i]
      BY <1>1, <2>1, NodeFacts
    <3> QED  BY <1>4, <2>1, <3>1, <3>2
  <2>3. ChildTypes("FUNCDECL", 2) = {"ARGLIST"} /\ ChildTypes("ARGLIST", k) = {"ARG"}
    BY DEF ChildTypes, StmtTypes, ExprTypes, Binaries, Arithmetics, Comparisons, Logicals, Assigns
  <2>4. ParamNodes(Top) = Node(i, c).kids
    BY <1>7 DEF ParamsOf, Node
  <2>5. Node(i, a).type = "ARG" /\ a \in DOMAIN prog[i]
    <3>1. Node(i, Node(i, c).kids[k]).type \in ChildTypes(Node(i, c).type, k)
      BY <1>1, <2>2, <2>4, ChildFacts
    <3> QED  BY <1>8, <2>2, <2>3, <2>4, <3>1
  <2>6. Arities("ARG") = {1} /\ ChildTypes("ARG", 1) = {"TYPE"}
    BY DEF Arities, ChildTypes, Arithmetics, Comparisons, Logicals, Assigns
  <2> HIDE DEF a, c
  <2>7. 1 \in 1..Len(Node(i, a).kids)
    <3>1. NodeOk(prog[i], a) /\ Node(i, a) = prog[i][a]
      BY <1>1, <2>5, NodeFacts DEF Node
    <3>2. Len(Node(i, a).kids) = 1
      BY <2>5, <2>6, <3>1 DEF NodeOk
    <3> QED  BY <3>2
  <2>8. Node(i, Node(i, a).kids[1]).type = "TYPE" /\ Node(i, a).kids[1] \in DOMAIN prog[i]
    <3>1. Node(i, Node(i, a).kids[1]).type \in ChildTypes(Node(i, a).type, 1)
      BY <1>1, <2>5, <2>7, ChildFacts
    <3>2. Node(i, a).kids[1] \in DOMAIN prog[i]
      BY <1>1, <2>5, <2>7, NodeFacts
    <3> QED  BY <2>5, <2>6, <3>1, <3>2
  <2>9. Node(i, Node(i, a).kids[1]).tok \in PrimTypes
    <3>1. NodeOk(prog[i], Node(i, a).kids[1])
      BY <1>1, <2>8, NodeFacts
    <3> QED  BY <2>8, <3>1 DEF NodeOk, Node
  <2> QED  BY <2>9 DEF DeclType, Node, a
<1>10. Arity = Len(ParamNodes(Top)) + 1
  BY <1>1, <1>4, <1>7 DEF ArgsTyped, Arity
<1>11. prog[i][j].sym = Node(Top.mod, Kid(1)).sym
  BY <1>1, <1>4 DEF Node, Kid
<1> QED  BY <1>4, <1>5, <1>6, <1>7, <1>8, <1>9, <1>10, <1>11

LEMMA HeldTop ==
  ASSUME NEW t, TInv(t), Running, ~InCallee(Top), N.type \in OperandTypes \ {"ESYSTEM"}
  PROVE  /\ Top.vals \in Seq(Value) /\ Len(Top.vals) \in Nat /\ DOMAIN Top.vals = 1..Len(Top.vals)
         /\ \A j \in 1..Len(Top.vals) :
              /\ Top.vals[j].type = t[Top.mod][N.kids[FirstOf(N.type) + j - 1]].type
              /\ Top.vals[j] \in Value
<1>1. HeldTyped(t, Top, ret # NoRet) /\ N = Node(Top.mod, Top.node)
  BY TInvFacts, TopFacts, TopTyped
<1>2. \A j \in DOMAIN Top.vals :
        Top.vals[j].type = t[Top.mod][N.kids[FirstOf(N.type) + j - 1]].type
  BY <1>1, Zenon DEF HeldTyped
<1>3. Top.vals \in Seq(Value)
  BY TInvFacts, TopFacts DEF FrameRecord
<1> QED  BY <1>2, <1>3

\* Every argument of a call that is ready has the type of its parameter.
LEMMA ArgumentsTyped ==
  ASSUME NEW t, TInv(t), Ready({"ECALL"})
  PROVE  /\ Len(Top.vals) = Len(ParamNodes(Top)) /\ DOMAIN Top.vals = 1..Len(Top.vals)
         /\ \A k \in 1..Len(Top.vals) :
              /\ Top.vals[k] \in Value
              /\ Top.vals[k].type = DeclType(prog, Callee(Top).mod, ParamNodes(Top)[k])
<1> DEFINE i == Callee(Top).mod
           j == Callee(Top).node
<1>1. Running /\ ret = NoRet /\ N.type = "ECALL" /\ Len(Top.vals) = Operands /\ IInv
  BY TInvFacts DEF Ready
<1>2. ~InCallee(Top) /\ Operands = Arity - 1 /\ Arity \in Nat
  BY <1>1, PlainFacts, OperandFacts, TopFacts DEF OperandTypes
<1>3. /\ ArgsTyped(prog, t, Top.mod, Top.node, i, j) /\ Arity = Len(ParamNodes(Top)) + 1
      /\ ParamNodes(Top) = ParamsOf(prog, i, j) /\ ParamNodes(Top) \in Seq(Nat)
  BY <1>1, CalleeFound
<1>4. Len(Top.vals) = Len(ParamNodes(Top))
  BY <1>1, <1>2, <1>3
<1>5. /\ DOMAIN Top.vals = 1..Len(Top.vals) /\ Len(Top.vals) \in Nat
      /\ \A k \in 1..Len(Top.vals) :
           /\ Top.vals[k].type = t[Top.mod][N.kids[2 + k - 1]].type
           /\ Top.vals[k] \in Value
  <2>1. FirstOf(N.type) = 2
    BY <1>1 DEF FirstOf
  <2> QED  BY <1>1, <1>2, <2>1, HeldTop DEF OperandTypes
<1>6. ASSUME NEW k \in 1..Len(Top.vals)
      PROVE  Top.vals[k].type = DeclType(prog, i, ParamNodes(Top)[k])
  <2>1. k \in DOMAIN ParamsOf(prog, i, j) /\ 2 + k - 1 = k + 1
    BY <1>3, <1>4, <1>5
  <2>2. OfKid(prog, t, Top.mod, Top.node, k + 1).type = DeclType(prog, i, ParamNodes(Top)[k])
    BY <1>3, <2>1 DEF ArgsTyped
  <2>3. N = prog[Top.mod][Top.node]
    BY <1>1, TopTyped
  <2> QED  BY <1>5, <2>1, <2>2, <2>3 DEF OfKid
<1> QED  BY <1>4, <1>5, <1>6

\* A function is called.
LEMMA Invoked ==
  ASSUME NEW t, TInv(t), Ready({"ECALL"}), Intact,
         CallNode(Append(fns, CalleeEnv), Arity + 1, Callee(Top).node, <<>>)
  PROVE  TypesInv(t)'
<1> DEFINE a == Callee(Top).mod
           b == Callee(Top).node
<1>0. PICK n \in Nat : n = Len(cstk)
  BY TInvFacts, TopFacts DEF Ready
<1>1. /\ IInv /\ Running /\ ret = NoRet /\ N.type = "ECALL" /\ CalleeOk(Top) /\ ~InCallee(Top)
      /\ n > 0 /\ DOMAIN cstk = 1..n /\ Top = cstk[n] /\ UNCHANGED prog
      /\ N = Node(Top.mod, Top.node) /\ Top.fn = Len(fns) /\ Len(fns) \in Nat /\ Len(fns) > 0
      /\ fns \in Seq(EnvRecord) /\ Arity \in Nat /\ LocalsTyped /\ prog \in Programs
  <2>1. IInv /\ Running /\ ret = NoRet /\ N.type = "ECALL" /\ UNCHANGED prog /\ prog \in Programs
    BY TInvFacts DEF Ready, Intact
  <2>2. ~InCallee(Top) /\ CalleeOk(Top)
    BY <2>1, PlainFacts, CalleeFound
  <2>3. Len(fns) = Top.fn
    BY <2>1, <2>2, ScopeOfTop
  <2> QED  BY <1>0, <2>1, <2>2, <2>3, TInvFacts, TopFacts, Shapes DEF Top, IInv, TypeOK
<1>2. /\ a \in DOMAIN prog /\ a \in Nat /\ b \in DOMAIN prog[a] /\ b \in Nat
      /\ prog[a][b].type = "FUNCDECL" /\ FunctionTyped(prog, t, a, b)
      /\ ParamNodes(Top) = ParamsOf(prog, a, b) /\ ParamNodes(Top) \in Seq(Nat)
      /\ \A k \in 1..Len(ParamNodes(Top)) :
           ParamNodes(Top)[k] \in DOMAIN prog[a] /\ DeclType(prog, a, ParamNodes(Top)[k]) \in PrimTypes
  <2>1. a \in DOMAIN prog /\ b \in DOMAIN prog[a]
    BY <1>1, CalleeFound
  <2> QED  BY <1>1, <2>1, CalleeFound, NodeFacts
<1>3. /\ Len(Top.vals) = Len(ParamNodes(Top)) /\ DOMAIN Top.vals = 1..Len(Top.vals)
      /\ \A k \in 1..Len(Top.vals) :
           Top.vals[k] \in Value /\ Top.vals[k].type = DeclType(prog, a, ParamNodes(Top)[k])
  BY ArgumentsTyped
<1> HIDE DEF a, b
<1>4. /\ DOMAIN Params = 1..Len(Top.vals)
      /\ \A k \in 1..Len(Top.vals) :
           /\ Params[k].sym = prog[a][ParamNodes(Top)[k]].sym
           /\ Params[k].type = Top.vals[k].type /\ Params[k].val = Top.vals[k]
           /\ Params[k].scope = 0 /\ Params[k].mod = a /\ Params[k].node = ParamNodes(Top)[k]
  BY <1>3 DEF Params, Symbol, Node, a
<1>5. /\ CalleeEnv \in EnvRecord /\ CalleeEnv.mod = a /\ CalleeEnv.scope = 0 /\ CalleeEnv.syms = Params
  BY <1>1, <1>2, ParamsFacts DEF CalleeEnv, EnvRecord, a
<1> DEFINE env == Append(fns, CalleeEnv)
<1>6. /\ env \in Seq(EnvRecord) /\ Len(env) = Len(fns) + 1
      /\ DOMAIN env = 1..(Len(fns) + 1)
      /\ \A d \in 1..Len(fns) : env[d] = fns[d]
      /\ env[Len(fns) + 1] = CalleeEnv /\ env # <<>>
  BY <1>1, <1>5, AppendProperties
<1>e. fns' = env /\ CallNode(env, Arity + 1, b, <<>>)
  BY DEF CallNode, b
<1> HIDE DEF env
<1>7. /\ DOMAIN cstk' = 1..(n + 1) /\ Len(cstk') = n + 1 /\ ret' = NoRet
      /\ \A i \in 1..(n - 1) : cstk'[i] = cstk[i]
      /\ cstk'[n].fn = Top.fn /\ cstk'[n].mod = Top.mod
      /\ cstk'[n].scope = Top.scope /\ cstk'[n].node = Top.node
      /\ cstk'[n].at = Arity + 1 /\ cstk'[n].vals = <<>>
      /\ cstk'[n + 1].fn = Top.fn + 1 /\ cstk'[n + 1].mod = a
      /\ cstk'[n + 1].scope = 0 /\ cstk'[n + 1].node = b
      /\ cstk'[n + 1].at = 0 /\ cstk'[n + 1].vals = <<>>
  <2>1. Frame(env, b) \in FrameRecord
    BY <1>2, <1>6, FrameType
  <2> DEFINE c == Frame(env, b)
  <2>2. /\ c.fn = Top.fn + 1 /\ c.mod = a /\ c.scope = 0 /\ c.node = b
        /\ c.at = 0 /\ c.vals = <<>>
    BY <1>1, <1>5, <1>6 DEF Frame
  <2> HIDE DEF c
  <2>3. Arity + 1 \in Nat /\ <<>> \in Seq(Value)
    BY <1>1
  <2>4. /\ Len(cstk') = n + 1
        /\ DOMAIN cstk' = 1..(n + 1)
        /\ \A i \in 1..(n - 1) : cstk'[i] = cstk[i]
        /\ cstk'[n].fn = Top.fn /\ cstk'[n].mod = Top.mod
        /\ cstk'[n].scope = Top.scope /\ cstk'[n].node = Top.node
        /\ cstk'[n].at = Arity + 1 /\ cstk'[n].vals = <<>>
        /\ cstk'[n + 1] = c /\ ret' = NoRet
    BY <1>0, <1>1, <1>e, <2>1, <2>3, CallStack DEF c
  <2> QED  BY <2>2, <2>4
<1>8. TablesKept
  <2>1. \A d \in 1..Top.fn : fns'[d].syms = fns[d].syms
    BY <1>1, <1>6, <1>e
  <2> QED  BY <1>1, <2>1, SymsKept
<1>9. LocalsTyped'
  <2>1. ASSUME NEW k \in 1..Len(Top.vals) PROVE LocalOk(Params[k])
    <3>1. k \in DOMAIN ParamsOf(prog, a, b) /\ k \in 1..Len(ParamNodes(Top))
      BY <1>2, <1>3
    <3>2. /\ DeclType(prog, a, ParamNodes(Top)[k]) # "void"
          /\ ~IsGlobal(prog, prog[a][ParamNodes(Top)[k]].sym)
      BY <1>2, <3>1 DEF FunctionTyped
    <3> QED  BY <1>2, <1>3, <1>4, <3>1, <3>2 DEF LocalOk
  <2>2. ASSUME NEW d \in DOMAIN fns', NEW k \in DOMAIN fns'[d].syms
        PROVE  LocalOk(fns'[d].syms[k])
    <3>1. CASE d \in 1..Len(fns)
      BY <1>1, <1>6, <1>e, <2>2, <3>1, Shapes DEF LocalsTyped
    <3>2. CASE d = Len(fns) + 1
      BY <1>4, <1>5, <1>6, <1>e, <2>1, <2>2, <3>2
    <3> QED  BY <1>1, <1>6, <1>e, <3>1, <3>2
  <2> QED  BY <1>1, <2>2 DEF LocalsTyped, LocalOk
<1>10. \A i \in 1..n : /\ cstk'[i].fn = cstk[i].fn /\ cstk'[i].mod = cstk[i].mod
                       /\ cstk'[i].scope = cstk[i].scope /\ cstk'[i].node = cstk[i].node
  <2>1. \A i \in 1..n : i \in 1..(n - 1) \/ i = n
    BY <1>1
  <2> QED  BY <1>1, <1>7, <2>1
<1>11. /\ \A i \in 1..n : ShownIn(t, cstk[i], fns[cstk[i].fn].syms)'
       /\ \A i, j \in 1..n : i <= j /\ cstk'[i].fn = cstk'[j].fn => cstk'[i].scope <= cstk'[j].scope
  BY <1>0, <1>1, <1>8, <1>10, PlacesKept
<1>12. FramesShown(t)'
  <2> DEFINE body == prog[a][b].kids[3]
  <2>1. body \in DOMAIN t[a] /\ Shows(Params, 0, t[a][body].names, t[a][body].known)
    <3>1. ASSUME NEW k \in DOMAIN Params, Params[k].scope <= 0
          PROVE  /\ Params[k].sym \in DOMAIN t[a][body].names
                 /\ t[a][body].names[Params[k].sym] = Decl(Params[k])
      <4>1. k \in DOMAIN ParamsOf(prog, a, b) /\ k \in 1..Len(Top.vals)
        BY <1>2, <1>3, <1>4, <3>1
      <4>2. Decl(Params[k]) = LocalAs(prog, a, ParamsOf(prog, a, b)[k])
        BY <1>2, <1>3, <1>4, <4>1 DEF Decl, LocalAs
      <4> QED  BY <1>2, <1>3, <1>4, <4>1, <4>2 DEF FunctionTyped, OfKid
    <3>2. ASSUME NEW x \in t[a][body].known
          PROVE  \E k \in DOMAIN Params : Params[k].scope <= 0 /\ Params[k].sym = x
      <4>1. PICK k \in DOMAIN ParamsOf(prog, a, b) : x = prog[a][ParamsOf(prog, a, b)[k]].sym
        BY <1>2, <3>2 DEF FunctionTyped, OfKid
      <4>2. k \in DOMAIN Params /\ k \in 1..Len(Top.vals)
        BY <1>2, <1>3, <1>4, <4>1
      <4>3. Params[k].scope <= 0 /\ Params[k].sym = x
        BY <1>2, <1>4, <4>1, <4>2
      <4> QED  BY <4>2, <4>3
    <3> QED  BY <1>2, <3>1, <3>2 DEF Shows, FunctionTyped, Has
  <2>2. ShownIn(t, cstk[n + 1], fns[cstk[n + 1].fn].syms)'
    BY <1>1, <1>2, <1>5, <1>6, <1>e, <1>7, <2>1 DEF ShownIn, TypedNode, View, Node
  <2>3. \A i \in DOMAIN cstk' : i \in 1..n \/ i = n + 1
    BY <1>7
  <2> QED  BY <1>11, <2>2, <2>3 DEF FramesShown
<1>13. ScopesNest'
  <2>1. ASSUME NEW i \in 1..n PROVE cstk'[i].fn # cstk'[n + 1].fn
    <3>1. cstk[i].fn <= Top.fn /\ cstk[i].fn \in Nat
      BY <1>0, <1>1, Shapes DEF IInv, Suspended
    <3> QED  BY <1>1, <1>7, <1>10, <3>1
  <2>2. \A i, j \in 1..(n + 1) : i <= j => (i \in 1..n \/ i = n + 1) /\ (j \in 1..n \/ j = n + 1)
    OBVIOUS
  <2>3. cstk'[n + 1].scope <= cstk'[n + 1].scope
    BY <1>7
  <2> QED  BY <1>7, <1>11, <2>1, <2>2, <2>3 DEF ScopesNest
<1>14. OperandsHeld(t)'
  <2>1. \A i \in 1..(n - 1) : HeldTyped(t, cstk[i], TRUE)'
    BY <1>0, <1>1, <1>7, BelowHeld
  <2>2. HeldTyped(t, cstk[n], TRUE)'
    <3>1. N.type \in OperandTypes /\ Arity + 1 > Len(N.kids)
      BY <1>1 DEF OperandTypes, Arity
    <3>2. InCallee(cstk[n])'
      BY <1>1, <1>7, <3>1 DEF InCallee, Node
    <3> QED  BY <1>1, <1>7, <3>1, <3>2 DEF HeldTyped, Node
  <2>3. HeldTyped(t, cstk[n + 1], FALSE)'
    BY <1>1, <1>2, <1>7 DEF HeldTyped, Node, OperandTypes, Binaries, Arithmetics, Comparisons, Logicals, Assigns
  <2>4. ASSUME NEW i \in 1..n PROVE HeldTyped(t, cstk[i], i < Len(cstk) \/ ret # NoRet)'
    <3>1. (i < Len(cstk) \/ ret # NoRet)' = TRUE
      BY <1>7
    <3>2. HeldTyped(t, cstk[i], TRUE)'
      <4>1. i \in 1..(n - 1) \/ i = n
        OBVIOUS
      <4> QED  BY <2>1, <2>2, <4>1
    <3> QED  BY <3>1, <3>2
  <2>5. HeldTyped(t, cstk[n + 1], n + 1 < Len(cstk) \/ ret # NoRet)'
    <3>1. (n + 1 < Len(cstk) \/ ret # NoRet)' = FALSE
      BY <1>7
    <3> QED  BY <2>3, <3>1
  <2>6. \A i \in DOMAIN cstk' : i \in 1..n \/ i = n + 1
    BY <1>7
  <2> QED  BY <2>4, <2>5, <2>6 DEF OperandsHeld
<1>15. Returned(t)'
  BY <1>7 DEF Returned
<1>16. GlobalsFound' /\ GlobalValues'
  BY <1>1, TInvFacts, IntactStay, GlobalsStayTyped
<1> QED  BY <1>9, <1>12, <1>13, <1>14, <1>15, <1>16 DEF TypesInv

-----------------------------------------------------------------------------
(* Statements. *)

\* Where a handler that has not called a function stands.
LEMMA HereFacts ==
  ASSUME IInv, Running, ~InCallee(Top)
  PROVE  /\ Len(fns) = Top.fn /\ Env = fns[Top.fn] /\ Env.scope = Top.scope + OpenNow
         /\ N = Node(Top.mod, Top.node) /\ N = prog[Top.mod][Top.node]
         /\ Top.scope \in Nat /\ Arity = Len(prog[Top.mod][Top.node].kids)
<1>1. Len(fns) = Top.fn /\ Env = fns[Top.fn] /\ N = Node(Top.mod, Top.node)
  BY TopFacts, ScopeOfTop
<1>2. Env.scope = Top.scope + OpenNow
  BY ScopeOfTop DEF OpenNow
<1>3. Top.scope \in Nat
  BY TopFacts DEF FrameRecord
<1> QED  BY <1>1, <1>2, <1>3 DEF Node, Arity

\* A handler returns, other than that of a declaration.
LEMMA HandlerLeft ==
  ASSUME NEW t, TInv(t), CInv', Running, GlobalsStay, TablesKept, LocalsTyped',
         NEW act, NEW val, Leave(act, val), act # "running", N.type # "LOCALDECL",
         N.type = "FUNCDECL" => val.type = DeclType(prog, Top.mod, Top.node),
         N.type # "FUNCDECL" => GivesTyped(t, Top.mod, Top.node, act, val)
  PROVE  TypesInv(t)'
<1>1. \A i \in 1..(Len(cstk) - 1) : ShownIn(t, cstk[i], fns'[cstk[i].fn].syms)
  <2>1. \A i \in 1..Len(cstk) : ShownIn(t, cstk[i], fns'[cstk[i].fn].syms)
    BY TInvFacts, BelowShown
  <2>2. \A i \in 1..(Len(cstk) - 1) : i \in 1..Len(cstk)
    BY TInvFacts, Shapes
  <2> QED  BY <2>1, <2>2
<1>2. ASSUME N.type # "FUNCDECL"
      PROVE  Shows(fns'[Top.fn].syms, Top.scope, t[Top.mod][Top.node].names,
                   KnownAfter(N, t[Top.mod][Top.node]))
  <2>1. Shows(fns[Top.fn].syms, Top.scope, t[Top.mod][Top.node].names, t[Top.mod][Top.node].known)
    BY <1>2, TopTyped
  <2>2. Alike(fns[Top.fn].syms, fns'[Top.fn].syms, Top.scope)
    <3>1. Top.scope \in Nat /\ Top.scope <= Top.scope
      BY TInvFacts, TopFacts DEF FrameRecord
    <3> QED  BY <3>1 DEF TablesKept
  <2>3. KnownAfter(N, t[Top.mod][Top.node]) = t[Top.mod][Top.node].known
    BY DEF KnownAfter
  <2> QED  BY <2>1, <2>2, <2>3, AlikeShows
<1> QED  BY <1>1, <1>2, LeaveTyped

\* The handler of an expression or of a statement without a scope returns.
LEMMA PlainLeft ==
  ASSUME NEW t, TInv(t), CInv', Running, Intact, UNCHANGED fns,
         NEW act, NEW val, Leave(act, val), act # "running", N.type # "LOCALDECL",
         N.type = "FUNCDECL" => val.type = DeclType(prog, Top.mod, Top.node),
         N.type # "FUNCDECL" => GivesTyped(t, Top.mod, Top.node, act, val)
  PROVE  TypesInv(t)'
<1>1. GlobalsStay
  BY TInvFacts, IntactStay
<1>2. TablesKept /\ LocalsTyped'
  BY TInvFacts, SameTables DEF Intact
<1> QED  BY <1>1, <1>2, HandlerLeft

\* A statement that has a scope open closes it and returns.
LEMMA ScopeLeft ==
  ASSUME NEW t, TInv(t), CInv', Running, Intact, ~InCallee(Top), OpenNow = 1, fns' = Closed,
         NEW act, NEW val, Leave(act, val), act # "running",
         act = "return" => val.type = t[Top.mod][Top.node].result
  PROVE  TypesInv(t)'
<1>1. GlobalsStay
  BY TInvFacts, IntactStay
<1>2. TablesKept /\ LocalsTyped'
  BY TInvFacts, ClosedTables DEF Intact
<1>3. N.type \in Carriers
  BY DEF OpenNow, OpenAt, Carriers
<1>4. N = Node(Top.mod, Top.node)
  BY TInvFacts, TopFacts
<1>5. GivesTyped(t, Top.mod, Top.node, act, val)
  BY <1>3, <1>4 DEF GivesTyped, Carriers, ExprTypes, Binaries, Arithmetics, Comparisons, Logicals, Assigns
<1> QED  BY <1>1, <1>2, <1>3, <1>5, HandlerLeft DEF Carriers

\* What the typing says of a statement that others stand in.
LEMMA CarrierTyped ==
  ASSUME NEW t, TInv(t), Running, N.type \in Carriers
  PROVE  /\ N.type = "CTREE" => CtreeTyped(prog, t, Top.mod, Top.node)
         /\ N.type = "WHILE" => WhileTyped(prog, t, Top.mod, Top.node)
         /\ N.type = "FOR" => ForTyped(prog, t, Top.mod, Top.node)
         /\ N.type = "BLOCK" => BlockTyped(prog, t, Top.mod, Top.node)
         /\ ~InCallee(Top) /\ N.type \notin OperandTypes
         /\ \A k \in 1..Arity :
              /\ Kid(k) \in DOMAIN t[Top.mod] /\ Within(t[Top.mod][Top.node], t[Top.mod][Kid(k)])
              /\ OfKid(prog, t, Top.mod, Top.node, k) = t[Top.mod][Kid(k)]
<1> DEFINE m == Top.mod
           n == Top.node
<1>1. NodeTyped(prog, t, m, n) /\ N = prog[m][n] /\ N = Node(m, n)
  BY TInvFacts, TopFacts, TopTyped DEF Carriers
<1>2. /\ N.type = "CTREE" => CtreeTyped(prog, t, m, n)
      /\ N.type = "WHILE" => WhileTyped(prog, t, m, n)
      /\ N.type = "FOR" => ForTyped(prog, t, m, n)
      /\ N.type = "BLOCK" => BlockTyped(prog, t, m, n)
  <2> HIDE DEF m, n
  <2> QED  BY <1>1, NodeTypedCases
<1>3. KidsWithin(prog, t, m, n)
  BY <1>2 DEF Carriers, CtreeTyped, WhileTyped, ForTyped, BlockTyped
<1>4. ASSUME NEW k \in 1..Arity
      PROVE  /\ Kid(k) \in DOMAIN t[m] /\ Within(t[m][n], t[m][Kid(k)])
             /\ OfKid(prog, t, m, n, k) = t[m][Kid(k)]
  <2>1. N.kids \in Seq(Nat)
    BY TInvFacts, TopFacts DEF NodeRecord
  <2>2. k \in DOMAIN prog[m][n].kids /\ Kid(k) = prog[m][n].kids[k]
    BY <1>1, <2>1 DEF Arity, Kid
  <2> QED  BY <1>3, <2>2 DEF KidsWithin, Has, OfKid
<1>5. ~InCallee(Top) /\ N.type \notin OperandTypes
  BY <1>1 DEF InCallee, Carriers, OperandTypes, Binaries, Arithmetics, Comparisons, Logicals, Assigns
<1> QED  BY <1>2, <1>4, <1>5

\* A return passes a statement: its value is of the type of the function.
LEMMA ReturnPassed ==
  ASSUME NEW t, TInv(t), Running, N.type \in Carriers, ret.act = "return"
  PROVE  /\ ret.val \in Value /\ Slot(ret.val) = ret.val
         /\ ret.val.type = t[Top.mod][Top.node].result
<1>1. ret # NoRet /\ ret.val \in Value
  BY TInvFacts DEF CInv, Given, NoRet, Ret
<1>2. ret.val # Unwritten
  BY <1>1, TInvFacts, RetFacts
<1>3. Top.at \in 1..Arity /\ GivesTyped(t, Top.mod, Kid(Top.at), ret.act, ret.val)
  BY <1>1, CarrierTyped, GivenValue
<1>4. Within(t[Top.mod][Top.node], t[Top.mod][Kid(Top.at)])
  BY <1>3, CarrierTyped
<1> QED  BY <1>1, <1>2, <1>3, <1>4 DEF GivesTyped, Within, Slot

\* The first child of a statement or an expression is called.
LEMMA FirstCalled ==
  ASSUME NEW t, TInv(t), Running, Intact, N.type \in Carriers \union {"ETERNARY"}, Top.at = 0,
         NEW env \in {fns, Opened}, Call(env, 1), Arity > 0,
         Has(prog, t, Top.mod, Top.node, 1),
         Enters(t[Top.mod][Top.node], OfKid(prog, t, Top.mod, Top.node, 1))
  PROVE  TypesInv(t)'
<1>1. /\ ~InCallee(Top) /\ N.type \notin OperandTypes /\ N.type # "FUNCDECL"
      /\ 1 \in 1..Arity /\ <<>> \in Seq(Value)
  <2>1. N = Node(Top.mod, Top.node) /\ Arity \in Nat
    BY TInvFacts, TopFacts
  <2> QED  BY <2>1 DEF InCallee, Carriers, OperandTypes, Binaries, Arithmetics, Comparisons, Logicals, Assigns
<1>2. Env.syms = fns[Top.fn].syms /\ Env.scope = Top.scope
  BY <1>1, TInvFacts, HereFacts DEF OpenNow
<1>3. /\ Kid(1) = prog[Top.mod][Top.node].kids[1]
      /\ Shows(Env.syms, Env.scope, t[Top.mod][Top.node].names, t[Top.mod][Top.node].known)
  BY <1>1, <1>2, TopTyped
<1>4. /\ Kid(1) \in DOMAIN t[Top.mod]
      /\ Shows(Env.syms, Env.scope, t[Top.mod][Kid(1)].names, t[Top.mod][Kid(1)].known)
  BY <1>3, EntersShows DEF Has, OfKid
<1> QED  BY <1>1, <1>4, ChildCalled DEF Call

\* A statement calls a child after another.
LEMMA NextCalled ==
  ASSUME NEW t, TInv(t), Running, Intact, ret # NoRet, N.type \in Carriers,
         NEW env \in {fns, Opened}, NEW k \in 1..Arity, NEW vals \in Seq(Value),
         CallNode(env, k, Kid(k), vals), N.type # "FOR" => vals = <<>>,
         KidFollows(prog, t, Top.mod, Top.node, Top.at, k)
  PROVE  TypesInv(t)'
<1>1. ~InCallee(Top) /\ N.type \notin OperandTypes
  BY CarrierTyped
<1>2. /\ Top.at \in 1..Arity
      /\ Shows(Env.syms, Env.scope, t[Top.mod][Kid(Top.at)].names,
               KnownAfter(prog[Top.mod][Kid(Top.at)], t[Top.mod][Kid(Top.at)]))
  BY <1>1, GivenValue
<1>3. /\ Kid(k) \in DOMAIN t[Top.mod] /\ OfKid(prog, t, Top.mod, Top.node, k) = t[Top.mod][Kid(k)]
      /\ OfKid(prog, t, Top.mod, Top.node, Top.at) = t[Top.mod][Kid(Top.at)]
      /\ Kid(Top.at) = prog[Top.mod][Top.node].kids[Top.at]
  BY <1>2, CarrierTyped, TopTyped
<1>4. Follows(prog[Top.mod][Kid(Top.at)], t[Top.mod][Kid(Top.at)], t[Top.mod][Kid(k)])
  BY <1>3 DEF KidFollows
<1>5. Shows(Env.syms, Env.scope, t[Top.mod][Kid(k)].names, t[Top.mod][Kid(k)].known)
  BY <1>2, <1>4, FollowsShows
<1> QED  BY <1>1, <1>3, <1>5, ChildCalled

LEMMA FuncDeclTypes ==
  ASSUME NEW t, TInv(t), CInv', FuncDecl
  PROVE  TypesInv(t)'
<1>1. CASE Starting({"FUNCDECL"}) /\ Call(fns, 3) /\ NoHeap /\ Intact
  <2>1. Running /\ N.type = "FUNCDECL" /\ Top.at = 0
    BY <1>1 DEF Starting
  <2>2. ~InCallee(Top) /\ 3 \in 1..Arity /\ <<>> \in Seq(Value)
    <3>1. N = Node(Top.mod, Top.node) /\ Arity = 3
      BY <2>1, TInvFacts, TopFacts, KidCounts
    <3> QED  BY <2>1, <3>1 DEF InCallee
  <2>3. Env.syms = fns[Top.fn].syms /\ Env.scope = Top.scope
    BY <2>1, <2>2, TInvFacts, HereFacts DEF OpenNow
  <2>4. /\ Kid(3) \in DOMAIN t[Top.mod]
        /\ Shows(Env.syms, Env.scope, t[Top.mod][Kid(3)].names, t[Top.mod][Kid(3)].known)
    BY <2>1, <2>3, TopTyped
  <2>5. N.type \notin OperandTypes
    BY <2>1 DEF OperandTypes, Binaries, Arithmetics, Comparisons, Logicals, Assigns
  <2> QED  BY <1>1, <2>1, <2>2, <2>4, <2>5, ChildCalled DEF Call
<1>2. CASE /\ Resuming({"FUNCDECL"})
           /\ LET v == IF ret.act = "return" THEN ret.val ELSE FallThrough
              IN Leave("none", v)
           /\ UNCHANGED fns /\ Intact
  <2> DEFINE v == IF ret.act = "return" THEN ret.val ELSE FallThrough
  <2>1. Running /\ ret # NoRet /\ N.type = "FUNCDECL"
    BY <1>2 DEF Resuming
  <2>2. N = prog[Top.mod][Top.node] /\ FunctionTyped(prog, t, Top.mod, Top.node)
    BY <2>1, TopTyped
  <2>3. v.type = DeclType(prog, Top.mod, Top.node)
    <3>1. CASE ret.act = "return"
      <4>1. ~InCallee(Top) /\ Top.at \in StmtKids["FUNCDECL"]
        BY <2>1, <3>1, TInvFacts, StatementTop
      <4>2. Top.at = 3
        BY <4>1 DEF StmtKids
      <4>3. GivesTyped(t, Top.mod, Kid(3), ret.act, ret.val) /\ Kid(3) = prog[Top.mod][Top.node].kids[3]
        BY <2>1, <2>2, <4>1, <4>2, GivenValue DEF Kid
      <4> QED  BY <2>2, <3>1, <4>3 DEF GivesTyped, FunctionTyped, OfKid
    <3>2. CASE ret.act # "return"
      <4>1. Prim(Top.mod, Kid(1)) \in PrimTypes /\ live \subseteq Blocks
        BY <2>1, TInvFacts, TypedKids, RetFacts
      <4>2. FallThrough.type = Prim(Top.mod, Kid(1))
        BY <4>1, ValueFacts DEF FallThrough, ValTypes
      <4> QED  BY <2>2, <3>2, <4>2 DEF Prim, Node, Kid, DeclType
    <3> QED  BY <3>1, <3>2
  <2> HIDE DEF v
  <2>4. Leave("none", v)
    BY <1>2 DEF v
  <2> QED  BY <1>2, <2>1, <2>3, <2>4, PlainLeft
<1> QED  BY <1>1, <1>2 DEF FuncDecl

\* What a handler hands on is no call in progress.
LEMMA GivenAct ==
  ASSUME CInv, ret # NoRet
  PROVE  ret.act # "running"
BY DEF CInv, Given

LEMMA CtreeTypes ==
  ASSUME NEW t, TInv(t), CInv', Ctree
  PROVE  TypesInv(t)'
<1>1. Running /\ N.type = "CTREE" /\ N.type \in Carriers /\ Intact
  BY DEF Ctree, Starting, Resuming, Carriers
<1>2. /\ CtreeTyped(prog, t, Top.mod, Top.node) /\ ~InCallee(Top) /\ Arity \in {2, 3}
      /\ Arity = Len(prog[Top.mod][Top.node].kids) /\ IInv /\ <<>> \in Seq(Value)
  BY <1>1, CarrierTyped, TInvFacts, KidCounts, HereFacts
<1>3. CASE Starting({"CTREE"}) /\ Call(fns, 1)
  <2>1. Top.at = 0 /\ 1 \in DOMAIN prog[Top.mod][Top.node].kids
    <3>1. N.kids \in Seq(Nat) /\ N = prog[Top.mod][Top.node]
      BY <1>1, TInvFacts, TopFacts, TopTyped DEF NodeRecord
    <3> QED  BY <1>2, <1>3, <3>1 DEF Starting
  <2> QED  BY <1>1, <1>2, <1>3, <2>1, FirstCalled DEF CtreeTyped, KidsWithin
<1>4. CASE Resuming({"CTREE"}) /\ Top.at = 1 /\ (Call(Opened, 2) \/ (Arity = 3 /\ Call(Opened, 3)))
  <2>1. PICK k \in {2, 3} : k \in 1..Arity /\ k \in 2..Len(prog[Top.mod][Top.node].kids) /\ Call(Opened, k)
    BY <1>2, <1>4
  <2>2. KidFollows(prog, t, Top.mod, Top.node, 1, k)
    BY <1>2, <2>1 DEF CtreeTyped
  <2> QED  BY <1>1, <1>2, <1>4, <2>1, <2>2, NextCalled DEF Resuming, Call
<1>5. CASE Leave("none", Unwritten) /\ UNCHANGED fns
  <2>1. N = Node(Top.mod, Top.node)
    BY <1>1, TInvFacts, TopFacts
  <2>2. GivesTyped(t, Top.mod, Top.node, "none", Unwritten)
    BY <1>1, <2>1 DEF GivesTyped, ExprTypes, Binaries, Arithmetics, Comparisons, Logicals, Assigns
  <2> QED  BY <1>1, <1>5, <2>2, PlainLeft
<1>6. CASE Resuming({"CTREE"}) /\ Top.at \in {2, 3} /\ fns' = Closed /\ Leave(ret.act, ret.val)
  <2>1. OpenNow = 1 /\ ret # NoRet
    BY <1>1, <1>6 DEF OpenNow, OpenAt, Resuming
  <2>2. ret.act # "running"
    BY <2>1, TInvFacts, GivenAct
  <2>3. ret.act = "return" => ret.val.type = t[Top.mod][Top.node].result
    BY <1>1, ReturnPassed
  <2> QED  BY <1>1, <1>2, <1>6, <2>1, <2>2, <2>3, ScopeLeft
<1> QED  BY <1>3, <1>4, <1>5, <1>6 DEF Ctree

\* A loop or a block ends.
LEMMA LeaveScopeTypes ==
  ASSUME NEW t, TInv(t), CInv', Running, N.type \in {"WHILE", "FOR", "BLOCK"}, Top.at > 0,
         NEW act \in {"none", "stop", "next"}, NEW val, NEW vs,
         \/ LeaveScope(act, val, vs)
         \/ ret.act = "return" /\ LeaveScope("return", Slot(ret.val), vs)
  PROVE  TypesInv(t)'
<1>1. N.type \in Carriers /\ Intact /\ fns' = Closed
  BY DEF LeaveScope, Carriers
<1>2. ~InCallee(Top)
  BY <1>1, CarrierTyped
<1>3. OpenNow = 1
  <2>1. Top.at # 0
    BY TInvFacts, TopFacts DEF FrameRecord
  <2> QED  BY <2>1 DEF OpenNow, OpenAt
<1>4. CASE LeaveScope(act, val, vs)
  BY <1>1, <1>2, <1>3, <1>4, ScopeLeft DEF LeaveScope
<1>5. CASE ret.act = "return" /\ LeaveScope("return", Slot(ret.val), vs)
  <2>1. Slot(ret.val).type = t[Top.mod][Top.node].result
    BY <1>1, <1>5, ReturnPassed
  <2> QED  BY <1>1, <1>2, <1>3, <1>5, <2>1, ScopeLeft DEF LeaveScope
<1> QED  BY <1>4, <1>5

LEMMA WhileTypes ==
  ASSUME NEW t, TInv(t), CInv', While
  PROVE  TypesInv(t)'
<1>1. Running /\ N.type = "WHILE" /\ N.type \in Carriers /\ Intact
  BY DEF While, Starting, Resuming, Carriers, LeaveScope
<1>2. /\ WhileTyped(prog, t, Top.mod, Top.node) /\ ~InCallee(Top) /\ Arity = 2
      /\ 1 \in 1..Arity /\ 2 \in 1..Arity
      /\ Arity = Len(prog[Top.mod][Top.node].kids) /\ IInv /\ <<>> \in Seq(Value)
      /\ 1 \in DOMAIN prog[Top.mod][Top.node].kids
  <2>1. N.kids \in Seq(Nat) /\ N = prog[Top.mod][Top.node] /\ Arity = 2
    BY <1>1, TInvFacts, TopFacts, TopTyped, KidCounts DEF NodeRecord
  <2> QED  BY <1>1, <2>1, CarrierTyped, TInvFacts, HereFacts
<1>3. CASE Starting({"WHILE"}) /\ Call(Opened, 1)
  BY <1>1, <1>2, <1>3, FirstCalled DEF WhileTyped, KidsWithin, Starting
<1>4. CASE Resuming({"WHILE"}) /\ Top.at = 1 /\ Call(fns, 2)
  BY <1>1, <1>2, <1>4, NextCalled DEF WhileTyped, Resuming, Call
<1>5. CASE Resuming({"WHILE"}) /\ Top.at = 2 /\ Call(fns, 1)
  BY <1>1, <1>2, <1>5, NextCalled DEF WhileTyped, Resuming, Call
<1>6. CASE Top.at \in {1, 2} /\ \E val, vs :
             \/ LeaveScope("none", val, vs)
             \/ ret.act = "return" /\ LeaveScope("return", Slot(ret.val), vs)
  BY <1>1, <1>6, LeaveScopeTypes
<1> QED  BY <1>3, <1>4, <1>5, <1>6 DEF While

LEMMA ForTypes ==
  ASSUME NEW t, TInv(t), CInv', For
  PROVE  TypesInv(t)'
<1>1. Running /\ N.type = "FOR" /\ N.type \in Carriers /\ Intact
  BY DEF For, Starting, Resuming, Carriers, LeaveScope
<1>2. /\ ForTyped(prog, t, Top.mod, Top.node) /\ ~InCallee(Top) /\ Arity = 4
      /\ \A k \in {1, 2, 3, 4} : k \in 1..Arity
      /\ Arity = Len(prog[Top.mod][Top.node].kids) /\ IInv /\ <<>> \in Seq(Value)
      /\ 1 \in DOMAIN prog[Top.mod][Top.node].kids
  <2>1. N.kids \in Seq(Nat) /\ N = prog[Top.mod][Top.node] /\ Arity = 4
    BY <1>1, TInvFacts, TopFacts, TopTyped, KidCounts DEF NodeRecord
  <2> QED  BY <1>1, <2>1, CarrierTyped, TInvFacts, HereFacts
<1>3. CASE Starting({"FOR"}) /\ Call(Opened, 1)
  BY <1>1, <1>2, <1>3, FirstCalled DEF ForTyped, KidsWithin, Starting
<1>4. CASE Resuming({"FOR"}) /\ Top.at \in {1, 3} /\ Call(fns, 2)
  BY <1>1, <1>2, <1>4, NextCalled DEF ForTyped, Resuming, Call
<1>5. CASE Resuming({"FOR"}) /\ Top.at = 2 /\ Call(fns, 4)
  BY <1>1, <1>2, <1>5, NextCalled DEF ForTyped, Resuming, Call
<1>6. CASE Resuming({"FOR"}) /\ Top.at = 4 /\ CallNode(fns, 3, Kid(3), <<Slot(ret.val)>>)
  <2>1. <<Slot(ret.val)>> \in Seq(Value)
    <3>1. Slot(ret.val) \in Value
      BY TInvFacts, RetFacts, ValueFacts
    <3> QED  BY <3>1
  <2> QED  BY <1>1, <1>2, <1>6, <2>1, NextCalled DEF ForTyped, Resuming
<1>7. CASE Top.at \in {2, 4} /\ \E val, vs :
             \/ LeaveScope("none", val, vs)
             \/ ret.act = "return" /\ LeaveScope("return", Slot(ret.val), vs)
  BY <1>1, <1>7, LeaveScopeTypes
<1> QED  BY <1>3, <1>4, <1>5, <1>6, <1>7 DEF For

LEMMA BlockTypes ==
  ASSUME NEW t, TInv(t), CInv', Block
  PROVE  TypesInv(t)'
<1>1. Running /\ N.type = "BLOCK" /\ N.type \in Carriers /\ Intact
  BY DEF Block, Starting, Resuming, Carriers, LeaveScope
<1>2. /\ BlockTyped(prog, t, Top.mod, Top.node) /\ ~InCallee(Top) /\ Arity \in Nat
      /\ Arity = Len(prog[Top.mod][Top.node].kids) /\ IInv /\ <<>> \in Seq(Value)
      /\ Arity > 0 => prog[Top.mod][Top.node].kids # <<>> /\ 1 \in DOMAIN prog[Top.mod][Top.node].kids
      /\ Top.at \in Nat
  <2>1. N.kids \in Seq(Nat) /\ N = prog[Top.mod][Top.node] /\ Top.at \in Nat
    BY <1>1, TInvFacts, TopFacts, TopTyped DEF NodeRecord, FrameRecord
  <2> QED  BY <1>1, <2>1, CarrierTyped, TInvFacts, HereFacts
<1>3. CASE Starting({"BLOCK"}) /\ Arity > 0 /\ Call(Opened, 1)
  BY <1>1, <1>2, <1>3, FirstCalled DEF BlockTyped, KidsWithin, Starting
<1>4. CASE Leave("none", Unwritten) /\ UNCHANGED fns
  <2>1. N = Node(Top.mod, Top.node)
    BY <1>1, TInvFacts, TopFacts
  <2>2. GivesTyped(t, Top.mod, Top.node, "none", Unwritten)
    BY <1>1, <2>1 DEF GivesTyped, ExprTypes, Binaries, Arithmetics, Comparisons, Logicals, Assigns
  <2> QED  BY <1>1, <1>4, <2>2, PlainLeft
<1>5. CASE Resuming({"BLOCK"}) /\ Top.at < Arity /\ Call(fns, Top.at + 1)
  <2>1. Top.at + 1 \in 1..Arity /\ Top.at + 1 \in 2..Len(prog[Top.mod][Top.node].kids)
        /\ (Top.at + 1) - 1 = Top.at /\ ret # NoRet
    <3>1. Top.at \in 1..Arity
      BY <1>1, <1>2, <1>5, GivenValue DEF Resuming
    <3>2. Top.at \in Nat /\ Arity \in Nat /\ Top.at < Arity
      BY <1>2, <1>5
    <3>3. Top.at + 1 \in 1..Arity /\ Top.at + 1 \in 2..Arity /\ (Top.at + 1) - 1 = Top.at
      BY <3>1, <3>2
    <3> QED  BY <1>2, <1>5, <3>3 DEF Resuming
  <2>2. KidFollows(prog, t, Top.mod, Top.node, Top.at, Top.at + 1)
    <3>1. \A k \in 2..Len(prog[Top.mod][Top.node].kids) : KidFollows(prog, t, Top.mod, Top.node, k - 1, k)
      BY <1>2 DEF BlockTyped
    <3>2. KidFollows(prog, t, Top.mod, Top.node, (Top.at + 1) - 1, Top.at + 1)
      BY <2>1, <3>1
    <3> QED  BY <2>1, <3>2
  <2> QED  BY <1>1, <1>2, <1>5, <2>1, <2>2, NextCalled DEF Call
<1>6. CASE Resuming({"BLOCK"}) /\ \E val, vs :
             \/ ret.act \in {"next", "stop"} /\ LeaveScope(ret.act, val, vs)
             \/ LeaveScope("none", val, vs)
             \/ ret.act = "return" /\ LeaveScope("return", Slot(ret.val), vs)
  <2>1. Top.at > 0
    <3>1. Top.at \in 1..Arity
      BY <1>1, <1>2, <1>6, GivenValue DEF Resuming
    <3> QED  BY <1>2, <3>1
  <2>2. \E act \in {"none", "stop", "next"} : \E val, vs :
          \/ LeaveScope(act, val, vs)
          \/ ret.act = "return" /\ LeaveScope("return", Slot(ret.val), vs)
    BY <1>6
  <2> QED  BY <1>1, <2>1, <2>2, LeaveScopeTypes
<1> QED  BY <1>3, <1>4, <1>5, <1>6 DEF Block

LEMMA JumpTypes ==
  ASSUME NEW t, TInv(t), CInv', Break \/ Continue
  PROVE  TypesInv(t)'
<1>1. Running /\ N.type \in {"BREAK", "CONTINUE"} /\ Intact /\ UNCHANGED fns
  BY DEF Break, Continue, Starting
<1>2. PICK act \in {"stop", "next"} : Leave(act, Unwritten)
  BY DEF Break, Continue
<1>3. N = Node(Top.mod, Top.node)
  BY <1>1, TInvFacts, TopFacts
<1>4. GivesTyped(t, Top.mod, Top.node, act, Unwritten)
  BY <1>1, <1>3 DEF GivesTyped, ExprTypes, Binaries, Arithmetics, Comparisons, Logicals, Assigns
<1> QED  BY <1>1, <1>2, <1>4, PlainLeft

\* The first operand is there, and of the type of its node.
LEMMA FirstHeld ==
  ASSUME NEW t, TInv(t), NEW types, Ready(types), N.type \in OperandTypes \ {"ESYSTEM"}, Operands > 0
  PROVE  /\ Top.vals[1] \in Value /\ 1 \in 1..Len(Top.vals) /\ Top.vals \in Seq(Value)
         /\ Top.vals[1].type = t[Top.mod][Kid(FirstOf(N.type))].type
         /\ Top.vals[1].type = OfKid(prog, t, Top.mod, Top.node, FirstOf(N.type)).type
<1>1. Running /\ ret = NoRet /\ Len(Top.vals) = Operands /\ IInv
  BY TInvFacts DEF Ready
<1>2. ~InCallee(Top)
  BY <1>1, PlainFacts DEF OperandTypes, Binaries, Arithmetics, Comparisons, Logicals, Assigns
<1>3. 1 \in 1..Len(Top.vals)
  BY <1>1, <1>2, HeldTop
<1>4. FirstOf(N.type) + 1 - 1 = FirstOf(N.type)
  BY DEF FirstOf
<1>5. N = prog[Top.mod][Top.node]
  BY <1>1, TopTyped
<1>6. /\ Top.vals \in Seq(Value) /\ Top.vals[1] \in Value
      /\ Top.vals[1].type = t[Top.mod][N.kids[FirstOf(N.type) + 1 - 1]].type
  BY <1>1, <1>2, <1>3, HeldTop
<1>7. Top.vals[1].type = t[Top.mod][N.kids[FirstOf(N.type)]].type
  BY <1>4, <1>6
<1> QED  BY <1>3, <1>5, <1>6, <1>7 DEF Kid, OfKid

LEMMA ReturnTypes ==
  ASSUME NEW t, TInv(t), CInv', Return
  PROVE  TypesInv(t)'
<1>1. Running /\ N.type = "RETURN" /\ Intact /\ UNCHANGED fns /\ IInv /\ Ready({"RETURN"})
  BY TInvFacts DEF Return, Ready
<1> DEFINE v == IF Arity = 0 THEN Val("void") ELSE Top.vals[1]
           m == Top.mod
           n == Top.node
<1>2. NodeTyped(prog, t, m, n) /\ N = prog[m][n] /\ N = Node(m, n)
  BY <1>1, TInvFacts, TopFacts, TopTyped
<1>3. ReturnTyped(prog, t, m, n)
  <2> HIDE DEF m, n
  <2> QED  BY <1>1, <1>2, NodeTypedCases
<1>4. v.type = t[m][n].result
  <2>1. Arity \in {0, 1} /\ Operands = Arity /\ N.kids \in Seq(Nat)
    BY <1>1, OperandFacts, TopFacts DEF OperandTypes, NodeRecord
  <2>2. CASE Arity = 0
    <3>1. N.kids = <<>>
      BY <2>1, <2>2 DEF Arity
    <3> QED  BY <1>2, <1>3, <2>2, <3>1 DEF ReturnTyped, Val
  <2>3. CASE Arity = 1
    <3>1. N.kids # <<>>
      BY <2>1, <2>3 DEF Arity
    <3>2. Top.vals[1].type = OfKid(prog, t, m, n, 1).type
      <4>1. FirstOf(N.type) = 1 /\ N.type \in OperandTypes \ {"ESYSTEM"} /\ Operands > 0
        BY <1>1, <2>1, <2>3 DEF FirstOf, OperandTypes, Assigns
      <4>2. Top.vals[1].type = OfKid(prog, t, m, n, FirstOf(N.type)).type
        BY <1>1, <4>1, FirstHeld
      <4> QED  BY <4>1, <4>2
    <3> QED  BY <1>2, <1>3, <2>3, <3>1, <3>2 DEF ReturnTyped
  <2> QED  BY <2>1, <2>2, <2>3
<1>5. GivesTyped(t, m, n, "return", v)
  BY <1>1, <1>2, <1>4 DEF GivesTyped, ExprTypes, Binaries, Arithmetics, Comparisons, Logicals, Assigns
<1> HIDE DEF v
<1>6. Leave("return", v)
  BY DEF Return, v
<1> QED  BY <1>1, <1>5, <1>6, PlainLeft

-----------------------------------------------------------------------------
(* Declarations of locals. *)

\* The statements a declaration stands in: a function does when it is all of the body.
LEMMA DeclParents ==
  ASSUME NEW type \in NodeTypes, NEW k \in Nat \ {0}, "LOCALDECL" \in ChildTypes(type, k),
         type = "FUNCDECL" => k <= 3
  PROVE  \/ type \in {"WHILE", "FOR", "BLOCK"}
         \/ type = "CTREE" /\ k > 1
         \/ type = "FUNCDECL" /\ k = 3
<1> SUFFICES ASSUME ~(type \in {"WHILE", "FOR", "BLOCK"}), ~(type = "CTREE" /\ k > 1),
                    ~(type = "FUNCDECL" /\ k = 3)
             PROVE  FALSE
  OBVIOUS
<1>1. ASSUME type = "FUNCDECL" PROVE k = 1 \/ k = 2
  <2>1. k \in Nat /\ k > 0 /\ k <= 3 /\ k # 3
    BY <1>1
  <2> QED  BY <2>1
<1>2. \/ ChildTypes(type, k) = {"TYPE"} \/ ChildTypes(type, k) = {"ARGLIST"}
      \/ ChildTypes(type, k) = {"ARG"} \/ ChildTypes(type, k) = {"IMPORT", "FUNCDECL", "GLOBALDECL"}
      \/ ChildTypes(type, k) = ExprTypes
  BY <1>1 DEF ChildTypes
<1> QED  BY <1>2 DEF ExprTypes, Binaries, Arithmetics, Comparisons, Logicals, Assigns

\* A handler that was called for a child, seen from the one that called it.
LEMMA CallerFacts ==
  ASSUME NEW t, TInv(t), NEW i \in DOMAIN cstk, i + 1 \in DOMAIN cstk
  PROVE  LET f == cstk[i]
             g == cstk[i + 1]
         IN /\ Node(g.mod, g.node).type # "FUNCDECL" => ~InCallee(f)
            /\ Node(g.mod, g.node).type = "FUNCDECL" => InCallee(f) /\ g.fn = f.fn + 1
            /\ ~InCallee(f) =>
                 /\ g.mod = f.mod /\ f.at \in 1..Len(Node(f.mod, f.node).kids)
                 /\ g.node = Node(f.mod, f.node).kids[f.at]
                 /\ g.fn = f.fn /\ g.scope = f.scope + OpenScopes(f)
<1> DEFINE f == cstk[i]
           g == cstk[i + 1]
<1>1. i \in Nat /\ i < Len(cstk) /\ i \in 1..Len(cstk)
  BY TInvFacts, Shapes
<1>2. Goes(f) /\ g.mod = CalledMod(f) /\ g.node = Called(f)
  BY <1>1, TInvFacts DEF CInv, Linked
<1>3. IF InCallee(f) THEN g.fn = f.fn + 1 /\ g.scope = 0
      ELSE g.fn = f.fn /\ g.scope = f.scope + OpenScopes(f)
  BY TInvFacts DEF IInv, StackDiscipline
<1>4. ASSUME InCallee(f) PROVE Node(g.mod, g.node).type = "FUNCDECL"
  BY <1>2, <1>4, TInvFacts, CalleeFacts DEF Goes, CalledMod, Called, IInv, Placed, CalleeOk, Callee
<1>5. ASSUME ~InCallee(f)
      PROVE  /\ g.mod = f.mod /\ f.at \in 1..Len(Node(f.mod, f.node).kids)
             /\ g.node = Node(f.mod, f.node).kids[f.at]
             /\ Node(g.mod, g.node).type # "FUNCDECL"
  <2>1. g.mod = f.mod /\ f.at \in 1..Len(Node(f.mod, f.node).kids)
        /\ g.node = Node(f.mod, f.node).kids[f.at]
    BY <1>2, <1>5 DEF Goes, CalledMod, Called
  <2>2. \A k \in 1..Len(Node(f.mod, f.node).kids) : Node(f.mod, Node(f.mod, f.node).kids[k]).type # "FUNCDECL"
    BY <1>1, TInvFacts, TypedFrame
  <2> QED  BY <2>1, <2>2
<1> QED  BY <1>3, <1>4, <1>5

\* A handler below that of a declaration, in the same environment, is of an outer
\* scope, or runs the function whose body the declaration is.
LEMMA DeclBelow ==
  ASSUME NEW t, TInv(t), Running, N.type = "LOCALDECL",
         NEW i \in 1..(Len(cstk) - 1), cstk[i].fn = Top.fn
  PROVE  cstk[i].scope < Top.scope \/ View(t, cstk[i]) = t[Top.mod][Top.node]
<1>0. PICK n \in Nat : n = Len(cstk)
  BY TInvFacts, Shapes
<1> DEFINE f == cstk[n - 1]
<1>1. /\ DOMAIN cstk = 1..n /\ Top = cstk[n] /\ n - 1 \in DOMAIN cstk /\ (n - 1) + 1 = n
      /\ n \in DOMAIN cstk /\ i <= n - 1 /\ i \in DOMAIN cstk /\ i \in Nat /\ n - 1 \in Nat
      /\ N = Node(Top.mod, Top.node) /\ prog \in Programs
  BY <1>0, TInvFacts, TopFacts, Shapes DEF Top
<1>2. /\ Top.mod = f.mod /\ f.at \in 1..Len(Node(f.mod, f.node).kids)
      /\ Top.node = Node(f.mod, f.node).kids[f.at]
      /\ Top.fn = f.fn /\ Top.scope = f.scope + OpenScopes(f)
  <2>1. LET g == cstk[(n - 1) + 1]
        IN /\ Node(g.mod, g.node).type # "FUNCDECL" => ~InCallee(f)
           /\ ~InCallee(f) =>
                /\ g.mod = f.mod /\ f.at \in 1..Len(Node(f.mod, f.node).kids)
                /\ g.node = Node(f.mod, f.node).kids[f.at]
                /\ g.fn = f.fn /\ g.scope = f.scope + OpenScopes(f)
    BY <1>1, CallerFacts
  <2> QED  BY <1>1, <2>1
<1>3. f.mod \in DOMAIN prog /\ f.node \in DOMAIN prog[f.mod] /\ f.scope \in Nat /\ f.at \in Nat \ {0}
  <2>1. n - 1 \in 1..Len(cstk) /\ IInv
    BY <1>0, <1>1, TInvFacts
  <2>2. f.mod \in DOMAIN prog /\ f.node \in DOMAIN prog[f.mod] /\ f.scope \in Nat
    BY <2>1, Shapes
  <2>3. f.at \in Nat \ {0}
    BY <1>2
  <2> QED  BY <2>2, <2>3
<1>4. LET type == Node(f.mod, f.node).type
      IN \/ type \in {"WHILE", "FOR", "BLOCK"}
         \/ type = "CTREE" /\ f.at > 1
         \/ type = "FUNCDECL" /\ f.at = 3
  <2>1. Node(f.mod, f.node).type \in NodeTypes
    BY <1>1, <1>3, NodeFacts DEF NodeRecord
  <2>2. "LOCALDECL" \in ChildTypes(Node(f.mod, f.node).type, f.at)
    BY <1>1, <1>2, <1>3, ChildFacts
  <2>3. Node(f.mod, f.node).type = "FUNCDECL" => f.at <= 3
    <3>1. Arities("FUNCDECL") = {3}
      BY DEF Arities, Arithmetics, Comparisons, Logicals, Assigns
    <3>2. NodeOk(prog[f.mod], f.node)
      BY <1>1, <1>3, NodeFacts
    <3>3. Node(f.mod, f.node).type = "FUNCDECL" => Len(Node(f.mod, f.node).kids) = 3
      BY <3>1, <3>2 DEF NodeOk, Node
    <3> QED  BY <1>2, <3>3
  <2> QED  BY <1>3, <2>1, <2>2, <2>3, DeclParents
<1>5. CASE OpenScopes(f) = 1
  <2>1. cstk[i].scope <= f.scope /\ cstk[i].scope \in Nat
    BY <1>0, <1>1, <1>2, TInvFacts, Shapes DEF ScopesNest
  <2> QED  BY <1>2, <1>3, <1>5, <2>1
<1>6. CASE Node(f.mod, f.node).type = "FUNCDECL" /\ f.at = 3
  <2>1. CASE i = n - 1
    BY <1>2, <1>6, <2>1 DEF View, TypedNode
  <2>2. CASE i < n - 1
    <3> DEFINE e == cstk[n - 2]
    <3>1. n - 2 \in DOMAIN cstk /\ (n - 2) + 1 = n - 1 /\ (n - 2) + 1 \in DOMAIN cstk /\ i <= n - 2
      BY <1>1, <2>2
    <3>2. LET g == cstk[(n - 2) + 1]
          IN Node(g.mod, g.node).type = "FUNCDECL" => g.fn = e.fn + 1
      BY <3>1, CallerFacts
    <3>3. f.fn = e.fn + 1
      BY <1>6, <3>1, <3>2
    <3>4. cstk[i].fn <= e.fn /\ cstk[i].fn \in Nat /\ e.fn \in Nat
      <4>1. IInv /\ i \in 1..Len(cstk) /\ n - 2 \in 1..Len(cstk)
        BY <1>0, <1>1, <3>1, TInvFacts
      <4>2. cstk[i].fn \in Nat /\ e.fn \in Nat
        BY <4>1, Shapes
      <4> QED  BY <1>1, <3>1, <4>1, <4>2 DEF IInv, Suspended
    <3> HIDE DEF e, f
    <3> QED  BY <1>2, <3>3, <3>4
  <2> QED  BY <1>1, <2>1, <2>2
<1> QED  BY <1>3, <1>4, <1>5, <1>6 DEF OpenScopes

\* A table with one more symbol shows what it did, and that symbol.
LEMMA AppendShows ==
  ASSUME NEW st, NEW L \in Nat, DOMAIN st = 1..L, NEW su, DOMAIN su = 1..(L + 1),
         \A j \in 1..L : su[j] = st[j], NEW scope, NEW names, NEW known,
         Shows(st, scope, names, known),
         su[L + 1].scope <= scope => su[L + 1].sym \in DOMAIN names
                                     /\ names[su[L + 1].sym] = Decl(su[L + 1])
  PROVE  /\ Shows(su, scope, names, known)
         /\ su[L + 1].scope <= scope => Shows(su, scope, names, known \union {su[L + 1].sym})
<1>1. \A j \in 1..(L + 1) : j \in 1..L \/ j = L + 1
  OBVIOUS
<1>2. /\ L + 1 \in 1..(L + 1) /\ \A j \in 1..L : j \in 1..(L + 1)
  OBVIOUS
<1>3. \A j \in DOMAIN su : su[j].scope <= scope =>
        su[j].sym \in DOMAIN names /\ names[su[j].sym] = Decl(su[j])
  BY <1>1 DEF Shows
<1>4. \A x \in known : \E j \in DOMAIN su : su[j].scope <= scope /\ su[j].sym = x
  BY <1>2 DEF Shows
<1>5. su[L + 1].scope <= scope =>
        \A x \in known \union {su[L + 1].sym} : \E j \in DOMAIN su : su[j].scope <= scope /\ su[j].sym = x
  BY <1>2, <1>4
<1> QED  BY <1>3, <1>4, <1>5 DEF Shows

LEMMA LocalDeclTypes ==
  ASSUME NEW t, TInv(t), CInv', LocalDecl
  PROVE  TypesInv(t)'
<1> DEFINE m == Top.mod
           n == Top.node
           type == DeclType(prog, m, n)
           s == Symbol(N.sym, Prim(Top.mod, Kid(1)), Top.mod, Top.node, Top.scope, Top.vals[1])
           st == Append(Env.syms, s)
           L == Len(Env.syms)
<1>1. /\ Running /\ N.type = "LOCALDECL" /\ Ready({"LOCALDECL"}) /\ Intact /\ IInv
      /\ Leave("none", Unwritten) /\ N.type \in OperandTypes \ {"ESYSTEM"}
  BY TInvFacts DEF LocalDecl, Ready, OperandTypes
<1>2. /\ N = prog[m][n] /\ N = Node(m, n) /\ ~InCallee(Top) /\ Top.scope \in Nat
      /\ Len(fns) = Top.fn /\ Env = fns[Top.fn] /\ NodeTyped(prog, t, m, n)
      /\ Shows(fns[Top.fn].syms, Top.scope, t[m][n].names, t[m][n].known)
      /\ Env.syms \in Seq(SymRecord) /\ L \in Nat /\ DOMAIN Env.syms = 1..L
  <2>1. ~InCallee(Top)
    BY <1>1, PlainFacts DEF Ready
  <2> QED  BY <1>1, <2>1, HereFacts, TopTyped, EnvFacts
<1>3. LocalDeclTyped(prog, t, m, n)
  <2> HIDE DEF m, n
  <2> QED  BY <1>1, <1>2, NodeTypedCases
<1>4. /\ s.sym = N.sym /\ s.type = type /\ s.scope = Top.scope /\ s.val = Top.vals[1]
      /\ s.mod = m /\ s.node = n
      /\ type \in PrimTypes \ {"void"} /\ s.val.type = type /\ LocalOk(s)
  <2>1. /\ s.sym = N.sym /\ s.type = type /\ s.scope = Top.scope /\ s.val = Top.vals[1]
        /\ s.mod = m /\ s.node = n
    BY <1>2 DEF Symbol, Prim, Node, Kid, DeclType
  <2>2. type \in PrimTypes
    BY <1>1, <1>2, TypedKids DEF Prim, Node, Kid, DeclType
  <2>3. Top.vals[1].type = OfKid(prog, t, m, n, 2).type
    <3>1. FirstOf(N.type) = 2 /\ Operands > 0
      BY <1>1, OperandFacts DEF FirstOf
    <3>2. Top.vals[1].type = OfKid(prog, t, m, n, FirstOf(N.type)).type
      BY <1>1, <3>1, FirstHeld
    <3> QED  BY <3>1, <3>2
  <2>4. type # "void" /\ ~IsGlobal(prog, N.sym) /\ OfKid(prog, t, m, n, 2).type = type
    BY <1>2, <1>3 DEF LocalDeclTyped
  <2> HIDE DEF s, type
  <2> QED  BY <2>1, <2>2, <2>3, <2>4 DEF LocalOk
<1> HIDE DEF s
<1>5. /\ DOMAIN st = 1..(L + 1) /\ st[L + 1] = s /\ \A j \in 1..L : st[j] = Env.syms[j]
  BY <1>2
<1>6. fns' = [fns EXCEPT ![Len(fns)].syms = st]
  BY DEF LocalDecl, Env, s
<1> HIDE DEF st, L
<1>7. /\ DOMAIN fns' = DOMAIN fns /\ Top.fn \in DOMAIN fns /\ fns'[Top.fn].syms = st
      /\ \A d \in DOMAIN fns : d # Top.fn => fns'[d] = fns[d]
  BY <1>1, <1>2, <1>6, InnermostTable
<1>a. L \in Nat /\ DOMAIN Env.syms = 1..L
  BY <1>2 DEF L
<1>8. LocalsTyped'
  <2>1. \A j \in 1..(L + 1) : LocalOk(st[j])
    <3>1. \A j \in 1..L : LocalOk(Env.syms[j])
      BY <1>2, <1>7, TInvFacts DEF LocalsTyped
    <3>2. \A j \in 1..(L + 1) : j \in 1..L \/ j = L + 1
      BY <1>2
    <3> QED  BY <1>4, <1>5, <3>1, <3>2
  <2>2. ASSUME NEW d \in DOMAIN fns', NEW j \in DOMAIN fns'[d].syms PROVE LocalOk(fns'[d].syms[j])
    BY <1>5, <1>7, <2>1, <2>2, TInvFacts DEF LocalsTyped
  <2> QED  BY <1>1, <2>2 DEF LocalsTyped, LocalOk, Intact
<1>9. s.sym \in DOMAIN t[m][n].names /\ t[m][n].names[s.sym] = Decl(s)
  <2>1. Decl(s) = LocalAs(prog, m, n)
    BY <1>4 DEF Decl, LocalAs
  <2> QED  BY <1>2, <1>3, <1>4, <2>1 DEF LocalDeclTyped
<1>10. Shows(fns'[Top.fn].syms, Top.scope, t[m][n].names, KnownAfter(N, t[m][n]))
  <2>1. st[L + 1].scope <= Top.scope
    BY <1>2, <1>4, <1>5
  <2>a. Shows(Env.syms, Top.scope, t[m][n].names, t[m][n].known)
    BY <1>2
  <2>b. /\ st[L + 1].sym \in DOMAIN t[m][n].names
        /\ t[m][n].names[st[L + 1].sym] = Decl(st[L + 1])
    BY <1>5, <1>9
  <2> HIDE DEF m, n
  <2>2. Shows(st, Top.scope, t[m][n].names, t[m][n].known \union {st[L + 1].sym})
    BY <1>a, <1>5, <2>a, <2>b, <2>1, AppendShows
  <2>3. KnownAfter(N, t[m][n]) = t[m][n].known \union {st[L + 1].sym}
    BY <1>1, <1>4, <1>5 DEF KnownAfter
  <2> QED  BY <1>7, <2>2, <2>3
<1>11. ASSUME NEW i \in 1..(Len(cstk) - 1)
       PROVE  ShownIn(t, cstk[i], fns'[cstk[i].fn].syms)
  <2>1. i \in DOMAIN cstk /\ cstk[i].fn \in DOMAIN fns /\ cstk[i].scope \in Nat
    <3>1. i \in 1..Len(cstk) /\ IInv
      BY <1>1, Shapes
    <3> QED  BY <3>1, Shapes
  <2>2. ShownIn(t, cstk[i], fns[cstk[i].fn].syms)
    BY <2>1, TInvFacts DEF FramesShown
  <2>3. CASE cstk[i].fn # Top.fn
    BY <1>7, <2>1, <2>2, <2>3
  <2>4. CASE cstk[i].fn = Top.fn
    <3>1. cstk[i].scope < Top.scope \/ View(t, cstk[i]) = t[m][n]
      BY <1>1, <2>4, DeclBelow
    <3>2. Shows(Env.syms, cstk[i].scope, View(t, cstk[i]).names, View(t, cstk[i]).known)
      BY <1>2, <2>2, <2>4 DEF ShownIn
    <3>3. st[L + 1].scope <= cstk[i].scope =>
            /\ st[L + 1].sym \in DOMAIN View(t, cstk[i]).names
            /\ View(t, cstk[i]).names[st[L + 1].sym] = Decl(st[L + 1])
      <4>1. CASE cstk[i].scope < Top.scope
        BY <1>2, <1>4, <1>5, <2>1, <4>1
      <4>2. CASE View(t, cstk[i]) = t[m][n]
        BY <1>5, <1>9, <4>2
      <4> QED  BY <3>1, <4>1, <4>2
    <3>4. Shows(st, cstk[i].scope, View(t, cstk[i]).names, View(t, cstk[i]).known)
      <4> DEFINE scope == cstk[i].scope
                 names == View(t, cstk[i]).names
                 known == View(t, cstk[i]).known
      <4>1. Shows(Env.syms, scope, names, known)
        BY <3>2
      <4>2. st[L + 1].scope <= scope => st[L + 1].sym \in DOMAIN names
                                        /\ names[st[L + 1].sym] = Decl(st[L + 1])
        BY <3>3
      <4> HIDE DEF scope, names, known
      <4>3. Shows(st, scope, names, known)
        BY <1>a, <1>5, <4>1, <4>2, AppendShows
      <4> QED  BY <4>3 DEF scope, names, known
    <3> QED  BY <1>7, <2>2, <2>4, <3>4 DEF ShownIn
  <2> QED  BY <2>3, <2>4
<1>12. GivesTyped(t, m, n, "none", Unwritten)
  BY <1>1, <1>2 DEF GivesTyped, ExprTypes, Binaries, Arithmetics, Comparisons, Logicals, Assigns
<1>13. GlobalsStay
  BY <1>1, IntactStay
<1> QED  BY <1>1, <1>8, <1>10, <1>11, <1>12, <1>13, LeaveTyped

-----------------------------------------------------------------------------
(* Operands and expressions. *)

\* A step that changes the heap or fault only.
LEMMA SameTypes ==
  ASSUME NEW t, TypesInv(t), UNCHANGED <<prog, phase, walk, globals, fns, cstk, ret>>
  PROVE  TypesInv(t)'
<1>1. FramesShown(t)'
  BY DEF TypesInv, FramesShown, ShownIn, View, TypedNode, Node
<1>2. ScopesNest' /\ LocalsTyped' /\ GlobalValues'
  BY DEF TypesInv, ScopesNest, LocalsTyped, LocalOk, GlobalValues
<1>3. OperandsHeld(t)'
  <2>1. ASSUME NEW f, NEW waits, HeldTyped(t, f, waits) PROVE HeldTyped(t, f, waits)'
    BY <2>1 DEF HeldTyped, Node, InCallee, Callable, Prim
  <2>2. SUFFICES ASSUME NEW i \in DOMAIN cstk
                 PROVE  HeldTyped(t, cstk[i], i < Len(cstk) \/ ret # NoRet)'
    BY DEF OperandsHeld
  <2>3. PICK f : f = cstk[i] /\ f = cstk'[i]
    OBVIOUS
  <2>4. HeldTyped(t, cstk[i], i < Len(cstk) \/ ret # NoRet)
    BY DEF TypesInv, OperandsHeld
  <2>5. CASE i < Len(cstk) \/ ret # NoRet
    <3>1. HeldTyped(t, f, TRUE)
      BY <2>3, <2>4, <2>5
    <3>2. (i < Len(cstk) \/ ret # NoRet)' /\ HeldTyped(t, f, TRUE)'
      BY <2>1, <2>5, <3>1
    <3> QED  BY <2>3, <3>2
  <2>6. CASE ~(i < Len(cstk) \/ ret # NoRet)
    <3>1. HeldTyped(t, f, FALSE)
      BY <2>3, <2>4, <2>6
    <3>2. ~(i < Len(cstk) \/ ret # NoRet)' /\ HeldTyped(t, f, FALSE)'
      BY <2>1, <2>6, <3>1
    <3> QED  BY <2>3, <3>2
  <2> QED  BY <2>5, <2>6
<1>4. Returned(t)'
  BY DEF TypesInv, Returned, CallGave, ChildGave, Top, Env, Called, Callee, CalleeIdx, GlobalIdx,
         GivesTyped, InCallee, Node
<1>5. GlobalsFound'
  BY DEF TypesInv, GlobalsFound, GlobalOk, Passed, Node
<1> QED  BY <1>1, <1>2, <1>3, <1>4, <1>5 DEF TypesInv

\* A child is called that enters on what its parent knows.
LEMMA EnteredCalled ==
  ASSUME NEW t, TInv(t), Running, Intact, ~InCallee(Top), N.type \notin Carriers \union {"FUNCDECL"},
         NEW k \in 1..Arity, NEW vals \in Seq(Value), CallNode(fns, k, Kid(k), vals),
         Has(prog, t, Top.mod, Top.node, k),
         Enters(t[Top.mod][Top.node], OfKid(prog, t, Top.mod, Top.node, k)),
         N.type \notin OperandTypes => vals = <<>>,
         N.type \in OperandTypes =>
           /\ vals = Top.vals /\ k = FirstOf(N.type) + Len(vals)
           /\ N.type = "ESYSTEM" => SysCallable /\ SysArgsOk
  PROVE  TypesInv(t)'
<1>1. OpenNow = 0
  BY DEF OpenNow, OpenAt, Carriers
<1>2. Env.syms = fns[Top.fn].syms /\ Env.scope = Top.scope
  BY <1>1, TInvFacts, HereFacts
<1>3. /\ Kid(k) = prog[Top.mod][Top.node].kids[k]
      /\ Shows(Env.syms, Env.scope, t[Top.mod][Top.node].names, t[Top.mod][Top.node].known)
  BY <1>2, TopTyped
<1>4. /\ Kid(k) \in DOMAIN t[Top.mod]
      /\ Shows(Env.syms, Env.scope, t[Top.mod][Kid(k)].names, t[Top.mod][Kid(k)].known)
  BY <1>3, EntersShows DEF Has, OfKid
<1> QED  BY <1>4, ChildCalled DEF Carriers

\* What the typing says of an operand.
LEMMA OperandTyped ==
  ASSUME NEW t, TInv(t), Running, N.type \in OperandTypes,
         NEW k \in 1..Arity, k >= FirstOf(N.type), N.type = "ECAST" => k = 1
  PROVE  /\ Has(prog, t, Top.mod, Top.node, k)
         /\ Enters(t[Top.mod][Top.node], OfKid(prog, t, Top.mod, Top.node, k))
<1> DEFINE m == Top.mod
           n == Top.node
<1>1. NodeTyped(prog, t, m, n) /\ N = prog[m][n] /\ Arity = Len(prog[m][n].kids)
  BY TopTyped DEF Arity, OperandTypes, Binaries, Arithmetics, Comparisons, Logicals, Assigns
<1>2. /\ N.type = "LOCALDECL" => LocalDeclTyped(prog, t, m, n)
      /\ N.type = "RETURN" => ReturnTyped(prog, t, m, n)
      /\ N.type = "ESYSTEM" => SystemTyped(prog, t, m, n)
      /\ N.type = "ECALL" => CallTyped(prog, t, m, n)
      /\ N.type = "EACCESS" => AccessTyped(prog, t, m, n)
      /\ N.type = "ENEG" => UnaryTyped(prog, t, m, n, Number)
      /\ N.type = "ENOT" => UnaryTyped(prog, t, m, n, {"bool"})
      /\ N.type = "ECAST" => CastTyped(prog, t, m, n)
      /\ N.type = "EADD" => SameOf(prog, t, m, n, Number \union {"string"})
      /\ N.type \in Arithmetics => SameOf(prog, t, m, n, Number)
      /\ N.type \in Comparisons => SameOf(prog, t, m, n, Number \union {"string"})
      /\ N.type \in Logicals => SameOf(prog, t, m, n, {"bool"})
      /\ N.type \in Assigns => AssignTyped(prog, t, m, n, PrimTypes \ {"void"})
  <2> HIDE DEF m, n
  <2> QED  BY <1>1, NodeTypedCases
<1>3. CASE N.type = "ECAST"
  BY <1>2, <1>3 DEF CastTyped
<1>4. CASE N.type # "ECAST"
  <2>1. OperandsTyped(prog, t, m, n, FirstOf(N.type))
    <3>1. CASE N.type \in {"LOCALDECL", "ECALL", "ESYSTEM"}
      BY <1>2, <3>1 DEF FirstOf, LocalDeclTyped, SystemTyped, CallTyped
    <3>2. CASE N.type \in Assigns
      BY <1>2, <3>2 DEF FirstOf, AssignTyped, SameOf, OperandsTyped
    <3>3. CASE N.type \in {"RETURN", "EACCESS", "ENEG", "ENOT"} \union Binaries
      <4>1. FirstOf(N.type) = 1
        BY <3>3 DEF FirstOf, Binaries, Arithmetics, Comparisons, Logicals, Assigns
      <4> QED  BY <1>2, <3>3, <4>1 DEF Binaries, ReturnTyped, AccessTyped, UnaryTyped, SameOf
    <3> QED  BY <1>4, <3>1, <3>2, <3>3 DEF OperandTypes
  <2>2. k \in FirstOf(N.type)..Len(prog[m][n].kids)
    BY <1>1 DEF FirstOf
  <2> QED  BY <2>1, <2>2 DEF OperandsTyped
<1> QED  BY <1>3, <1>4

LEMMA EvalOperandTypes ==
  ASSUME NEW t, TInv(t), EvalOperand
  PROVE  TypesInv(t)'
<1> DEFINE k == FirstOperand + Len(Top.vals)
<1>1. /\ Running /\ ret = NoRet /\ N.type \in OperandTypes /\ Len(Top.vals) < Operands
      /\ CallNode(fns, k, Kid(k), Top.vals) /\ Intact /\ IInv
      /\ N.type = "ESYSTEM" => SysCallable /\ SysArgsOk
  BY TInvFacts DEF EvalOperand
<1>2. ~InCallee(Top) /\ Top.vals \in Seq(Value) /\ N.type \notin Carriers \union {"FUNCDECL"}
  BY <1>1, PlainFacts DEF OperandTypes, Carriers, Assigns, Binaries, Arithmetics, Comparisons, Logicals
<1>3. FirstOperand = FirstOf(N.type)
  BY DEF FirstOperand, FirstOf
<1>4. /\ FirstOperand \in Nat /\ LastOperand \in Nat /\ FirstOperand >= 1 /\ LastOperand <= Arity
      /\ N.type = "ECAST" => Operands = 1 /\ FirstOperand = 1
      /\ Len(Top.vals) \in Nat /\ Arity \in Nat /\ Operands = LastOperand - FirstOperand + 1
  BY <1>1, <1>2, OperandFacts, TopFacts DEF Operands, FirstOperand, Assigns
<1>5. k \in 1..Arity /\ k >= FirstOf(N.type) /\ (N.type = "ECAST" => k = 1)
  BY <1>1, <1>3, <1>4
<1> HIDE DEF k
<1>6. /\ Has(prog, t, Top.mod, Top.node, k)
      /\ Enters(t[Top.mod][Top.node], OfKid(prog, t, Top.mod, Top.node, k))
  BY <1>1, <1>5, OperandTyped
<1>7. k = FirstOf(N.type) + Len(Top.vals)
  BY <1>3 DEF k
<1> QED  BY <1>1, <1>2, <1>5, <1>6, <1>7, EnteredCalled

\* An expression gives back a value of its type.
LEMMA ValueLeft ==
  ASSUME NEW t, TInv(t), CInv', Running, N.type \in ExprTypes,
         GlobalsStay, TablesKept, LocalsTyped',
         NEW val \in Value, val.type = t[Top.mod][Top.node].type, Leave("none", val)
  PROVE  TypesInv(t)'
<1>1. N = Node(Top.mod, Top.node)
  BY TInvFacts, TopFacts
<1>2. val # Unwritten /\ N.type # "LOCALDECL" /\ N.type # "FUNCDECL"
  BY TInvFacts, RetFacts DEF ExprTypes, Binaries, Arithmetics, Comparisons, Logicals, Assigns
<1>3. GivesTyped(t, Top.mod, Top.node, "none", val)
  BY <1>1, <1>2 DEF GivesTyped, Fits
<1> QED  BY <1>2, <1>3, HandlerLeft

LEMMA PlainValue ==
  ASSUME NEW t, TInv(t), CInv', Running, N.type \in ExprTypes, Intact, UNCHANGED fns,
         NEW val \in Value, val.type = t[Top.mod][Top.node].type, Leave("none", val)
  PROVE  TypesInv(t)'
<1>1. GlobalsStay
  BY TInvFacts, IntactStay
<1>2. TablesKept /\ LocalsTyped'
  BY TInvFacts, SameTables DEF Intact
<1> QED  BY <1>1, <1>2, ValueLeft

LEMMA YieldTypes ==
  ASSUME NEW t, TInv(t), CInv', Running, N.type \in ExprTypes,
         NEW made \in Value, made.type = t[Top.mod][Top.node].type, NEW vs, Yield(made, vs)
  PROVE  TypesInv(t)'
BY PlainValue DEF Yield

LEMMA UndefinedTypes ==
  ASSUME NEW t, TInv(t), NEW kind, Undefined(kind)
  PROVE  TypesInv(t)'
BY SameTypes DEF TInv, Undefined

\* The same for the operators with two operands, one condition at a time.
LEMMA BinaryCases ==
  ASSUME NEW p, NEW t, NEW m, NEW n, NodeTyped(p, t, m, n), NEW type, type = p[m][n].type
  PROVE  /\ type \in Arithmetics \union {"EADD"} => t[m][n].type = OfKid(p, t, m, n, 1).type
         /\ type \in Arithmetics => SameOf(p, t, m, n, Number)
         /\ type \in Comparisons \union {"EADD"} => SameOf(p, t, m, n, Number \union {"string"})
         /\ type \in Logicals => SameOf(p, t, m, n, {"bool"})
         /\ type \in Comparisons \union Logicals => t[m][n].type = "bool"
         /\ type \in Assigns => AssignTyped(p, t, m, n, PrimTypes \ {"void"})
         /\ type = "EADDASSIGN" => AssignTyped(p, t, m, n, Number \union {"string"})
         /\ type \in Assigns \ {"EASSIGN", "EADDASSIGN"} => AssignTyped(p, t, m, n, Number)
<1>1. /\ type \in Arithmetics \union {"EADD"} => t[m][n].type = OfKid(p, t, m, n, 1).type
      /\ type \in Arithmetics => SameOf(p, t, m, n, Number)
      /\ type \in Comparisons \union {"EADD"} => SameOf(p, t, m, n, Number \union {"string"})
  BY NodeTypedCases
<1>2. type \in Logicals => SameOf(p, t, m, n, {"bool"})
  BY DEF NodeTyped, Arithmetics, Comparisons, Logicals, Assigns
<1>3. type \in Comparisons \union Logicals => t[m][n].type = "bool"
  BY DEF NodeTyped, Arithmetics, Comparisons, Logicals, Assigns
<1>4. type \in Assigns => AssignTyped(p, t, m, n, PrimTypes \ {"void"})
  BY NodeTypedCases
<1>5. type = "EADDASSIGN" => AssignTyped(p, t, m, n, Number \union {"string"})
  BY DEF NodeTyped, Arithmetics, Comparisons, Logicals, Assigns
<1>6. type \in Assigns \ {"EASSIGN", "EADDASSIGN"} => AssignTyped(p, t, m, n, Number)
  BY DEF NodeTyped, Arithmetics, Comparisons, Logicals, Assigns
<1> QED  BY <1>1, <1>2, <1>3, <1>4, <1>5, <1>6

\* What the typing says of an expression that runs.
LEMMA ExprTyped ==
  ASSUME NEW t, TInv(t), Running, N.type \in ExprTypes
  PROVE  LET m == Top.mod
             n == Top.node
         IN /\ N = prog[m][n] /\ N = Node(m, n) /\ n \in DOMAIN t[m]
            /\ N.type = "EATOM" => AtomTyped(prog, t, m, n)
            /\ N.type = "ESYSTEM" => SystemTyped(prog, t, m, n)
            /\ N.type = "EACCESS" => AccessTyped(prog, t, m, n)
            /\ N.type = "ENEG" => UnaryTyped(prog, t, m, n, Number)
            /\ N.type = "ENOT" => UnaryTyped(prog, t, m, n, {"bool"})
            /\ N.type = "ECAST" => CastTyped(prog, t, m, n)
            /\ N.type = "ETERNARY" => TernaryTyped(prog, t, m, n)
            /\ N.type \in Arithmetics \union {"EADD"} => t[m][n].type = OfKid(prog, t, m, n, 1).type
            /\ N.type \in Arithmetics => SameOf(prog, t, m, n, Number)
            /\ N.type \in Comparisons \union {"EADD"} =>
                 SameOf(prog, t, m, n, Number \union {"string"})
            /\ N.type \in Logicals => SameOf(prog, t, m, n, {"bool"})
            /\ N.type \in Comparisons \union Logicals => t[m][n].type = "bool"
            /\ N.type \in Assigns => AssignTyped(prog, t, m, n, PrimTypes \ {"void"})
            /\ N.type = "EADDASSIGN" => AssignTyped(prog, t, m, n, Number \union {"string"})
            /\ N.type \in Assigns \ {"EASSIGN", "EADDASSIGN"} => AssignTyped(prog, t, m, n, Number)
<1> DEFINE m == Top.mod
           n == Top.node
<1>1. N = prog[m][n] /\ N = Node(m, n) /\ n \in DOMAIN t[m] /\ NodeTyped(prog, t, m, n)
  BY TInvFacts, TopFacts, TopTyped DEF ExprTypes, Binaries, Arithmetics, Comparisons, Logicals, Assigns
<1> HIDE DEF m, n
<1>2. /\ N.type = "EATOM" => AtomTyped(prog, t, m, n)
      /\ N.type = "ESYSTEM" => SystemTyped(prog, t, m, n)
      /\ N.type = "EACCESS" => AccessTyped(prog, t, m, n)
      /\ N.type = "ENEG" => UnaryTyped(prog, t, m, n, Number)
      /\ N.type = "ENOT" => UnaryTyped(prog, t, m, n, {"bool"})
      /\ N.type = "ECAST" => CastTyped(prog, t, m, n)
      /\ N.type = "ETERNARY" => TernaryTyped(prog, t, m, n)
  BY <1>1, NodeTypedCases
<1> DEFINE type == N.type
<1>3. type = prog[m][n].type
  BY <1>1
<1> HIDE DEF type
<1>4. type \in Arithmetics \union {"EADD"} => t[m][n].type = OfKid(prog, t, m, n, 1).type
  BY <1>1, <1>3, BinaryCases
<1>5. type \in Arithmetics => SameOf(prog, t, m, n, Number)
  BY <1>1, <1>3, BinaryCases, Zenon
<1>6. type \in Comparisons \union {"EADD"} => SameOf(prog, t, m, n, Number \union {"string"})
  BY <1>1, <1>3, BinaryCases
<1>7. type \in Logicals => SameOf(prog, t, m, n, {"bool"})
  BY <1>1, <1>3, BinaryCases, Zenon
<1>8. type \in Comparisons \union Logicals => t[m][n].type = "bool"
  BY <1>1, <1>3, BinaryCases
<1>9. /\ type \in Assigns => AssignTyped(prog, t, m, n, PrimTypes \ {"void"})
      /\ type = "EADDASSIGN" => AssignTyped(prog, t, m, n, Number \union {"string"})
      /\ type \in Assigns \ {"EASSIGN", "EADDASSIGN"} => AssignTyped(prog, t, m, n, Number)
  BY <1>1, <1>3, BinaryCases, Zenon
<1> QED  BY <1>1, <1>2, <1>4, <1>5, <1>6, <1>7, <1>8, <1>9 DEF m, n, type

LEMMA EatomTypes ==
  ASSUME NEW t, TInv(t), CInv', Eatom
  PROVE  TypesInv(t)'
<1>1. Running /\ N.type = "EATOM" /\ Top.at = 0 /\ IInv /\ N.type \in ExprTypes /\ live \subseteq Blocks
  BY TInvFacts, RetFacts DEF Eatom, Starting, ExprTypes
<1>2. N = prog[Top.mod][Top.node] /\ AtomTyped(prog, t, Top.mod, Top.node)
      /\ Top.node \in DOMAIN t[Top.mod] /\ Top.node \in DOMAIN prog[Top.mod]
  BY <1>1, ExprTyped, TopFacts
<1>3. CASE N.tok # "IDENT" /\ Yield(NewVal(LitTypes[N.tok]), <<>>)
  <2>1. N.tok \in DOMAIN LitTypes
    <3>1. NodeOk(prog[Top.mod], Top.node)
      BY <1>1, TInvFacts, TopFacts, NodeFacts
    <3> QED  BY <1>1, <1>2, <1>3, <3>1 DEF NodeOk
  <2>2. LitTypes[N.tok] \in ValTypes
    BY <2>1 DEF LitTypes, ValTypes, PrimTypes
  <2>3. t[Top.mod][Top.node].type = LitTypes[N.tok]
    BY <1>2, <1>3 DEF AtomTyped
  <2> QED  BY <1>1, <1>3, <2>2, <2>3, ValueFacts, YieldTypes
<1>4. CASE N.tok = "IDENT" /\ Found(N.sym) /\ Yield(CopyVal(Lookup(N.sym).val), <<>>)
  <2>1. Shows(Env.syms, Env.scope, t[Top.mod][Top.node].names, t[Top.mod][Top.node].known)
    <3>1. ~InCallee(Top)
      BY <1>1, TopFacts DEF InCallee
    <3> QED  BY <1>1, <3>1, HereFacts, TopTyped DEF OpenNow
  <2>2. Lookup(N.sym).val.type = t[Top.mod][Top.node].type
    BY <1>1, <1>2, <1>4, <2>1, VariableFound
  <2>3. Lookup(N.sym).val \in Value
    BY <1>1, <1>4, LookupFacts
  <2>4. CopyVal(Lookup(N.sym).val) \in Value
        /\ CopyVal(Lookup(N.sym).val).type = t[Top.mod][Top.node].type
    BY <1>1, <2>2, <2>3, ValueFacts
  <2> QED  BY <1>1, <1>4, <2>4, YieldTypes
<1>5. CASE \E kind : Undefined(kind)
  BY <1>5, UndefinedTypes
<1> QED  BY <1>3, <1>4, <1>5 DEF Eatom

LEMMA SystemTypes ==
  ASSUME NEW t, TInv(t), CInv', SysReject \/ SysCall \/ SysShell
  PROVE  TypesInv(t)'
<1>1. Running /\ ret = NoRet /\ N.type = "ESYSTEM" /\ IInv /\ N.type \in ExprTypes /\ live \subseteq Blocks
      /\ ~InCallee(Top) /\ LocalsTyped
  <2>1. Running /\ ret = NoRet /\ N.type = "ESYSTEM"
    BY DEF SysReject, SysCall, SysShell, Ready
  <2> QED  BY <2>1, TInvFacts, RetFacts, PlainFacts DEF ExprTypes
<1>2. t[Top.mod][Top.node].type = Prim(Top.mod, Kid(1)) /\ Prim(Top.mod, Kid(1)) \in ValTypes
  <2>1. N = prog[Top.mod][Top.node] /\ SystemTyped(prog, t, Top.mod, Top.node)
    BY <1>1, ExprTyped
  <2>2. Prim(Top.mod, Kid(1)) \in PrimTypes
    BY <1>1, TypedKids
  <2> QED  BY <2>1, <2>2 DEF SystemTyped, DeclType, Prim, Kid, Node, ValTypes
<1>3. CASE \E vs : Yield(NewVal(Prim(Top.mod, Kid(1))), vs)
  BY <1>1, <1>2, <1>3, ValueFacts, YieldTypes
<1>4. CASE SysCall
  <2>1. PICK vs : Yield(NewVal(SysFns[N.sym].rettype), vs)
    BY <1>4 DEF SysCall
  <2>2. SysFns[N.sym].rettype = Prim(Top.mod, Kid(1))
    BY <1>4 DEF SysCall, SysCallable
  <2> QED  BY <1>3, <2>1, <2>2
<1>5. CASE SysShell
  <2>1. Val("bool") \in Value /\ Val("bool").type = t[Top.mod][Top.node].type
    <3>1. SysFns["shell"].rettype = "bool"
      BY DEF SysFns
    <3>2. SysFns[N.sym].rettype = Prim(Top.mod, Kid(1)) /\ N.sym = "shell"
      BY <1>5 DEF SysShell, SysCallable
    <3> QED  BY <1>1, <1>2, <3>1, <3>2, ValueFacts DEF ValTypes, PrimTypes
  <2>2. CASE \E vs : Yield(Val("bool"), vs)
    BY <1>1, <2>1, <2>2, YieldTypes
  <2>3. CASE /\ ShellReady /\ Leave("none", Val("bool")) /\ Intact
             /\ fns' = [fns EXCEPT ![Len(fns)].syms[ShellOut].val = StrVal(NewBlock)]
    <3> DEFINE i == ShellOut
    <3>1. i \in 1..Len(Env.syms) /\ Env.syms[i].val.type = "string"
      BY <1>1, <2>3, LookupFacts DEF ShellReady, ShellOut
    <3>2. Env.syms[i].val.type = Env.syms[i].type
      <4>1. Len(fns) \in DOMAIN fns /\ Env = fns[Len(fns)]
        BY <1>1, TopFacts, Shapes
      <4>2. i \in DOMAIN fns[Len(fns)].syms
        BY <1>1, <3>1, <4>1, EnvFacts
      <4> HIDE DEF i
      <4>3. LocalOk(fns[Len(fns)].syms[i])
        BY <1>1, <4>1, <4>2 DEF LocalsTyped
      <4> QED  BY <4>1, <4>3 DEF LocalOk
    <3>3. StrVal(NewBlock).type = Env.syms[i].type
      BY <3>1, <3>2 DEF StrVal
    <3>4. fns' = [fns EXCEPT ![Len(fns)].syms[i].val = StrVal(NewBlock)] /\ UNCHANGED prog
      BY <2>3 DEF Intact
    <3> HIDE DEF i
    <3>5. TablesKept /\ LocalsTyped'
      BY <1>1, <3>1, <3>3, <3>4, SetTables
    <3>6. GlobalsStay
      BY <1>1, <2>3, IntactStay
    <3> QED  BY <1>1, <2>1, <2>3, <3>5, <3>6, ValueLeft
  <2> QED  BY <1>5, <2>2, <2>3 DEF SysShell
<1> QED  BY <1>3, <1>4, <1>5 DEF SysReject

\* A function is declared with a primitive type.
LEMMA DeclTypes ==
  ASSUME IInv, NEW i \in DOMAIN prog, NEW j \in DOMAIN prog[i], prog[i][j].type = "FUNCDECL"
  PROVE  DeclType(prog, i, j) \in PrimTypes
<1>1. prog \in Programs /\ NodeOk(prog[i], j) /\ Node(i, j) = prog[i][j]
  BY NodeFacts DEF IInv, TypeOK, Node
<1>2. 1 \in 1..Len(Node(i, j).kids)
  <2>1. Arities("FUNCDECL") = {3}
    BY DEF Arities, Arithmetics, Comparisons, Logicals, Assigns
  <2>2. Len(prog[i][j].kids) = 3
    BY <1>1, <2>1 DEF NodeOk
  <2> QED  BY <1>1, <2>2
<1>3. Node(i, Node(i, j).kids[1]).type = "TYPE" /\ Node(i, j).kids[1] \in DOMAIN prog[i]
  BY <1>1, <1>2, ChildFacts, NodeFacts, TypeChildren
<1>4. NodeOk(prog[i], Node(i, j).kids[1])
  BY <1>1, <1>3, NodeFacts
<1> QED  BY <1>1, <1>3, <1>4 DEF NodeOk, Node, DeclType

LEMMA EcallTypes ==
  ASSUME NEW t, TInv(t), CInv', Ecall
  PROVE  TypesInv(t)'
<1>1. CASE /\ Ready({"ECALL"}) /\ Intact
           /\ CallNode(Append(fns, CalleeEnv), Arity + 1, Callee(Top).node, <<>>)
  BY <1>1, Invoked
<1>2. CASE /\ Resuming({"ECALL"}) /\ Top.at > Arity /\ Intact
           /\ fns' = SubSeq(fns, 1, Len(fns) - 1) /\ Leave("none", ret.val)
  <2>1. Running /\ ret # NoRet /\ N.type = "ECALL" /\ InCallee(Top) /\ IInv /\ cstk # <<>>
        /\ N.type \in ExprTypes
    BY <1>2, TInvFacts, TopFacts DEF Resuming, InCallee, Arity, Running, ExprTypes
  <2>2. TablesKept /\ LocalsTyped'
    BY <1>2, <2>1, TInvFacts, PoppedTables DEF Intact
  <2>3. GlobalsStay
    BY <1>2, <2>1, IntactStay
  <2>4. ret.val.type = t[Top.mod][Top.node].type
    <3>1. ret.val.type = DeclType(prog, Callee(Top).mod, Callee(Top).node)
      BY <2>1, TInvFacts DEF Returned, CallGave
    <3> QED  BY <2>1, <3>1, CalleeFound
  <2>5. ret.val \in Value
    <3>1. ret.val.type \in PrimTypes
      <4>1. LET i == Callee(Top).mod
                j == Callee(Top).node
            IN i \in DOMAIN prog /\ j \in DOMAIN prog[i] /\ prog[i][j].type = "FUNCDECL"
               /\ t[Top.mod][Top.node].type = DeclType(prog, i, j)
        BY <2>1, CalleeFound
      <4> QED  BY <2>1, <2>4, <4>1, DeclTypes
    <3>2. ret.val # Unwritten
      BY <3>1 DEF PrimTypes, Unwritten, Val
    <3> QED  BY <2>1, <3>2, RetFacts
  <2> QED  BY <1>2, <2>1, <2>2, <2>3, <2>4, <2>5, ValueLeft
<1>3. CASE \E kind : Undefined(kind)
  BY <1>3, UndefinedTypes
<1> QED  BY <1>1, <1>2, <1>3 DEF Ecall

\* An operand that is ready, and what is known of the heap.
LEMMA ReadyFacts ==
  ASSUME NEW t, TInv(t), NEW types, Ready(types), N.type \in ExprTypes \ {"ESYSTEM", "ECALL"},
         N.type \in OperandTypes
  PROVE  /\ Running /\ ret = NoRet /\ IInv /\ live \subseteq Blocks /\ N.type \in types
         /\ ~InCallee(Top)
         /\ Top.vals[1] \in Value
         /\ Top.vals[1].type = OfKid(prog, t, Top.mod, Top.node, FirstOf(N.type)).type
         /\ Operands >= 1
<1>1. Running /\ ret = NoRet /\ IInv /\ live \subseteq Blocks /\ N.type \in types
  BY TInvFacts, RetFacts DEF Ready
<1>2. Operands \in Nat /\ Operands >= 1
  <2>1. N.type \in {"EACCESS", "ENEG", "ENOT", "ECAST"} \union Binaries \union Assigns
    BY DEF ExprTypes, OperandTypes
  <2>2. Operands \in {1, 2, 3}
    BY <1>1, <2>1, OperandFacts DEF Operands
  <2> QED  BY <2>2
<1>3. ~InCallee(Top)
  BY <1>1, PlainFacts DEF OperandTypes, Binaries, Arithmetics, Comparisons, Logicals, Assigns
<1> QED  BY <1>1, <1>2, <1>3, FirstHeld

LEMMA EaccessTypes ==
  ASSUME NEW t, TInv(t), CInv', Eaccess
  PROVE  TypesInv(t)'
<1>1. Ready({"EACCESS"}) /\ N.type \in ExprTypes \ {"ESYSTEM", "ECALL"} /\ N.type \in OperandTypes
      /\ Running /\ N.type = "EACCESS" /\ live \subseteq Blocks
  BY TInvFacts, RetFacts DEF Eaccess, Ready, ExprTypes, OperandTypes
<1>2. t[Top.mod][Top.node].type = "string"
  BY <1>1, ExprTyped DEF AccessTyped
<1>3. NewVal("string") \in Value /\ NewVal("string").type = "string"
  BY <1>1, ValueFacts DEF ValTypes, PrimTypes
<1>4. CASE \E vs : Yield(NewVal("string"), vs)
  BY <1>1, <1>2, <1>3, <1>4, YieldTypes
<1>5. CASE \E kind : Undefined(kind)
  BY <1>5, UndefinedTypes
<1> QED  BY <1>4, <1>5 DEF Eaccess

\* A sign or a truth value changes where it stands: the operand is of a type with one.
LEMMA NegNotHands ==
  ASSUME NEW t, TInv(t), NegNot
  PROVE  \E type \in {"int", "real", "bool"} :
           /\ type = t[Top.mod][Top.node].type
           /\ Leave("none", Val(type)) /\ UNCHANGED fns /\ NoHeap /\ Intact
<1>1. Ready({"ENEG", "ENOT"}) /\ N.type \in ExprTypes \ {"ESYSTEM", "ECALL"} /\ N.type \in OperandTypes
      /\ FirstOf(N.type) = 1 /\ N.type \in {"ENEG", "ENOT"} /\ Running
  BY DEF NegNot, Ready, ExprTypes, OperandTypes, FirstOf, Assigns
<1>2. /\ t[Top.mod][Top.node].type = OfKid(prog, t, Top.mod, Top.node, 1).type
      /\ N.type = "ENEG" => OfKid(prog, t, Top.mod, Top.node, 1).type \in {"int", "real"}
      /\ N.type = "ENOT" => OfKid(prog, t, Top.mod, Top.node, 1).type \in {"bool"}
  BY <1>1, ExprTyped DEF UnaryTyped, Number
<1>3. Top.vals[1].type = OfKid(prog, t, Top.mod, Top.node, FirstOf(N.type)).type
  BY <1>1, ReadyFacts
<1>4. Top.vals[1].type = t[Top.mod][Top.node].type
  BY <1>1, <1>2, <1>3
<1> QED  BY <1>1, <1>2, <1>4 DEF NegNot

LEMMA NegNotTypes ==
  ASSUME NEW t, TInv(t), CInv', NegNot
  PROVE  TypesInv(t)'
<1>1. PICK type \in {"int", "real", "bool"} :
        /\ type = t[Top.mod][Top.node].type
        /\ Leave("none", Val(type)) /\ UNCHANGED fns /\ Intact
  BY NegNotHands
<1>2. Running /\ N.type \in ExprTypes
  BY DEF NegNot, Ready, ExprTypes
<1>3. Val(type) \in Value /\ Val(type).type = type
  BY PlainValues DEF ValTypes, PrimTypes
<1> QED  BY <1>1, <1>2, <1>3, PlainValue

LEMMA EcastTypes ==
  ASSUME NEW t, TInv(t), CInv', Ecast
  PROVE  TypesInv(t)'
<1>1. Ready({"ECAST"}) /\ N.type \in ExprTypes \ {"ESYSTEM", "ECALL"} /\ N.type \in OperandTypes
      /\ FirstOf(N.type) = 1 /\ N.type = "ECAST" /\ live \subseteq Blocks /\ Running
  BY TInvFacts, RetFacts DEF Ecast, Ready, ExprTypes, OperandTypes, FirstOf, Assigns
<1> DEFINE type == t[Top.mod][Top.node].type
           from == OfKid(prog, t, Top.mod, Top.node, 1).type
<1>2. N = prog[Top.mod][Top.node] /\ CastTyped(prog, t, Top.mod, Top.node)
  BY <1>1, ExprTyped
<1>3. Prim(Top.mod, Kid(2)) = type
  BY <1>2 DEF CastTyped, Prim, Kid, Node
<1>4. Top.vals[1].type = from
  <2>1. Top.vals[1].type = OfKid(prog, t, Top.mod, Top.node, FirstOf(N.type)).type
    BY <1>1, ReadyFacts
  <2> QED  BY <1>1, <2>1
<1>5. CastType(from, type) = type /\ type \in ValTypes
  <2>1. <<from, type>> \in
          {<<"int", "real">>, <<"int", "string">>, <<"int", "bool">>, <<"real", "int">>,
           <<"real", "string">>, <<"string", "int">>, <<"string", "real">>,
           <<"bool", "int">>, <<"bool", "string">>}
    BY <1>2 DEF CastTyped
  <2> HIDE DEF from, type
  <2> QED  BY <2>1 DEF CastType, ValTypes, PrimTypes
<1> HIDE DEF from, type
<1>6. NewVal(type) \in Value /\ NewVal(type).type = type
  BY <1>1, <1>5, ValueFacts
<1>7. CastType(Top.vals[1].type, Prim(Top.mod, Kid(2))) = type
  BY <1>3, <1>4, <1>5
<1>8. CASE \E vs : Yield(NewVal(CastType(Top.vals[1].type, Prim(Top.mod, Kid(2)))), vs)
  <2>1. PICK vs : Yield(NewVal(type), vs)
    BY <1>7, <1>8
  <2>2. NewVal(type).type = t[Top.mod][Top.node].type
    BY <1>6 DEF type
  <2> QED  BY <1>1, <1>6, <2>1, <2>2, YieldTypes
<1>9. CASE \E kind : Undefined(kind)
  BY <1>9, UndefinedTypes
<1> QED  BY <1>8, <1>9 DEF Ecast

LEMMA BinaryTypes ==
  ASSUME NEW t, TInv(t), CInv', Arithmetic \/ Eadd \/ Comparison \/ Logical
  PROVE  TypesInv(t)'
<1> DEFINE type == t[Top.mod][Top.node].type
           kid == OfKid(prog, t, Top.mod, Top.node, 1).type
<1>1. Ready(Binaries) /\ N.type \in Binaries /\ Running /\ live \subseteq Blocks
      /\ N.type \in ExprTypes \ {"ESYSTEM", "ECALL"} /\ N.type \in OperandTypes
  <2>1. Ready(Binaries) /\ N.type \in Binaries /\ Running
    BY DEF Arithmetic, Eadd, Comparison, Logical, Ready, Binaries
  <2> QED  BY <2>1, TInvFacts, RetFacts DEF ExprTypes, OperandTypes, Binaries, Arithmetics, Comparisons, Logicals
<1>2. Top.vals[1].type = kid /\ Top.vals[1] \in Value
  <2>1. FirstOf(N.type) = 1
    BY <1>1 DEF FirstOf, Binaries, Arithmetics, Comparisons, Logicals, Assigns
  <2>2. Top.vals[1].type = OfKid(prog, t, Top.mod, Top.node, FirstOf(N.type)).type
        /\ Top.vals[1] \in Value
    BY <1>1, ReadyFacts
  <2> QED  BY <2>1, <2>2
<1>3. /\ N.type \in Arithmetics => type = kid /\ kid \in {"int", "real"}
      /\ N.type = "EADD" => type = kid /\ kid \in {"int", "real", "string"}
      /\ N.type \in Comparisons => type = "bool"
      /\ N.type \in Logicals => type = "bool"
  BY <1>1, ExprTyped DEF SameOf, Number
<1>4. ASSUME NEW made \in {Val("int"), Val("real"), Val("bool"), NewVal("string")},
             made.type = type, NEW vs, Yield(made, vs)
      PROVE  TypesInv(t)'
  <2>1. made \in Value
    BY <1>1, <1>4, ValueFacts DEF ValTypes, PrimTypes
  <2> QED  BY <1>1, <1>4, <2>1, YieldTypes
<1>5. CASE \E kind : Undefined(kind)
  BY <1>5, UndefinedTypes
<1>6. /\ Val("int").type = "int" /\ Val("real").type = "real" /\ Val("bool").type = "bool"
      /\ NewVal("string").type = "string"
  BY <1>1, ValueFacts DEF ValTypes, PrimTypes
<1> HIDE DEF type, kid
<1>7. CASE Arithmetic
  <2>1. N.type \in Arithmetics
    BY <1>7 DEF Arithmetic, Ready
  <2>2. CASE Yield(Val(IF Top.vals[1].type = "int" THEN "int" ELSE "real"), <<>>)
    <3>1. kid = "int" \/ kid = "real"
      BY <1>3, <2>1
    <3>2. CASE kid = "int"
      BY <1>2, <1>3, <1>4, <1>6, <2>1, <2>2, <3>2
    <3>3. CASE kid = "real"
      BY <1>2, <1>3, <1>4, <1>6, <2>1, <2>2, <3>3
    <3> QED  BY <3>1, <3>2, <3>3
  <2> QED  BY <1>5, <1>7, <2>2 DEF Arithmetic, MayTrap
<1>8. CASE Eadd
  <2>1. N.type = "EADD"
    BY <1>8 DEF Eadd, Ready
  <2>2. CASE kid \in {"int", "real"} /\ Yield(IF kid = "int" THEN Val("int") ELSE RealSum, <<>>)
    <3>1. CASE kid = "int"
      BY <1>3, <1>4, <1>6, <2>1, <2>2, <3>1
    <3>2. CASE kid = "real"
      <4>1. RealSum \in Value /\ RealSum.type = type /\ Yield(RealSum, <<>>)
        BY <1>3, <2>1, <2>2, <3>2, PlainValues
      <4> QED  BY <1>1, <4>1, YieldTypes DEF type
    <3> QED  BY <2>2, <3>1, <3>2
  <2>3. CASE kid \notin {"int", "real"} /\ Yield(NewVal("string"), Top.vals)
    BY <1>3, <1>4, <1>6, <2>1, <2>3
  <2> QED  BY <1>2, <1>5, <1>8, <2>2, <2>3 DEF Eadd
<1>9. CASE Comparison
  <2>1. type = "bool"
    BY <1>3, <1>9 DEF Comparison, Ready
  <2>2. (\E vs : Yield(Val("bool"), vs)) \/ (\E kind : Undefined(kind))
    BY <1>9 DEF Comparison
  <2> QED  BY <1>4, <1>5, <1>6, <2>1, <2>2
<1>10. CASE Logical
  <2>1. type = "bool" /\ Yield(Val("bool"), <<>>)
    BY <1>3, <1>10 DEF Logical, Ready
  <2> QED  BY <1>4, <1>6, <2>1
<1> QED  BY <1>7, <1>8, <1>9, <1>10

LEMMA EternaryTypes ==
  ASSUME NEW t, TInv(t), CInv', Eternary
  PROVE  TypesInv(t)'
<1>1. Running /\ N.type = "ETERNARY" /\ N.type \in ExprTypes /\ Intact /\ IInv /\ Arity = 3
  BY TInvFacts, KidCounts DEF Eternary, Starting, Resuming, ExprTypes
<1>2. N = prog[Top.mod][Top.node] /\ TernaryTyped(prog, t, Top.mod, Top.node) /\ ~InCallee(Top)
  BY <1>1, ExprTyped, TopFacts DEF InCallee
<1>3. \A k \in 1..3 : /\ Has(prog, t, Top.mod, Top.node, k)
                      /\ Enters(t[Top.mod][Top.node], OfKid(prog, t, Top.mod, Top.node, k))
  BY <1>1, <1>2 DEF TernaryTyped, OperandsTyped, Arity
<1>4. CASE Starting({"ETERNARY"}) /\ Call(fns, 1)
  BY <1>1, <1>3, <1>4, FirstCalled DEF Starting
<1>5. CASE Resuming({"ETERNARY"}) /\ Top.at = 1 /\ \E k \in {2, 3} : Call(fns, k)
  <2>1. PICK k \in {2, 3} : CallNode(fns, k, Kid(k), <<>>)
    BY <1>5 DEF Call
  <2>2. /\ N.type \notin OperandTypes /\ N.type \notin Carriers \union {"FUNCDECL"}
        /\ k \in 1..Arity /\ k \in 1..3 /\ <<>> \in Seq(Value)
    BY <1>1 DEF OperandTypes, Carriers, Binaries, Arithmetics, Comparisons, Logicals, Assigns
  <2>3. /\ Has(prog, t, Top.mod, Top.node, k)
        /\ Enters(t[Top.mod][Top.node], OfKid(prog, t, Top.mod, Top.node, k))
    BY <1>3, <2>2
  <2> QED  BY <1>1, <1>2, <2>1, <2>2, <2>3, EnteredCalled
<1>6. CASE /\ Resuming({"ETERNARY"}) /\ Top.at \in {2, 3}
           /\ Leave("none", ret.val) /\ UNCHANGED fns
  <2> DEFINE n == Kid(Top.at)
  <2>1. ret # NoRet
    BY <1>6 DEF Resuming
  <2>2. prog[Top.mod][n].type \in ExprTypes
    <3>1. ChildTypes("ETERNARY", Top.at) = ExprTypes
      BY <1>6 DEF ChildTypes
    <3>2. Node(Top.mod, Kid(Top.at)).type \in ChildTypes(N.type, Top.at)
      <4>1. /\ prog \in Programs /\ Top.mod \in DOMAIN prog /\ Top.node \in DOMAIN prog[Top.mod]
            /\ N = Node(Top.mod, Top.node) /\ Top.at \in 1..3
        BY <1>1, <1>6, TInvFacts, TopFacts
      <4>2. Top.at \in 1..Len(Node(Top.mod, Top.node).kids)
        BY <1>1, <4>1 DEF Arity
      <4>3. Node(Top.mod, Node(Top.mod, Top.node).kids[Top.at]).type
              \in ChildTypes(Node(Top.mod, Top.node).type, Top.at)
        BY <4>1, <4>2, ChildFacts
      <4> QED  BY <4>1, <4>3 DEF Kid
    <3> QED  BY <1>1, <3>1, <3>2 DEF Node
  <2>3. t[Top.mod][n].type = t[Top.mod][Top.node].type /\ t[Top.mod][Top.node].type # "void"
    BY <1>2, <1>6 DEF TernaryTyped, OfKid, Kid
  <2>4. ret.val \in Value /\ ret.val.type = t[Top.mod][n].type
    BY <1>1, <1>2, <2>1, <2>2, <2>3, GivenValue
  <2> QED  BY <1>1, <1>6, <2>3, <2>4, PlainValue
<1> QED  BY <1>4, <1>5, <1>6 DEF Eternary

-----------------------------------------------------------------------------
(* Assignments. *)

\* The target of an assignment is a name, with what is known of it.
LEMMA TargetNamed ==
  ASSUME NEW t, TInv(t), Ready(Assigns)
  PROVE  LET m == Top.mod
             k == Kid(1)
         IN /\ k \in DOMAIN prog[m] /\ prog[m][k].type = "EATOM" /\ prog[m][k].tok = "IDENT"
            /\ k \in DOMAIN t[m] /\ Shows(Env.syms, Env.scope, t[m][k].names, t[m][k].known)
            /\ Target = prog[m][k].sym /\ Running
<1> DEFINE m == Top.mod
           n == Top.node
<1>1. /\ N.type \in Assigns /\ N.type \in ExprTypes \ {"ESYSTEM", "ECALL"} /\ N.type \in OperandTypes
  BY DEF Ready, ExprTypes, OperandTypes, Assigns
<1>2. Running /\ IInv /\ ~InCallee(Top)
  BY <1>1, ReadyFacts
<1>3. N = prog[m][n] /\ AssignTyped(prog, t, m, n, PrimTypes \ {"void"})
  BY <1>1, <1>2, ExprTyped
<1>4. /\ OperandsTyped(prog, t, m, n, 1)
      /\ Kid(1) = prog[m][n].kids[1]
      /\ prog[m][Kid(1)].type = "EATOM" /\ prog[m][Kid(1)].tok = "IDENT"
  BY <1>3 DEF AssignTyped, SameOf, Kid
<1>5. Arity = 2 /\ 1 \in 1..Len(prog[m][n].kids) /\ Kid(1) \in DOMAIN prog[m]
  <2>1. Arity = 2
    BY <1>1, <1>2, KidCounts
  <2>2. 1 \in 1..Arity
    BY <2>1
  <2>3. Kid(1) \in DOMAIN prog[m]
    BY <1>2, <2>2, TopFacts
  <2> QED  BY <1>3, <2>1, <2>2, <2>3 DEF Arity
<1>6. Kid(1) \in DOMAIN t[m] /\ Enters(t[m][n], t[m][Kid(1)]) /\ OfKid(prog, t, m, n, 1) = t[m][Kid(1)]
  BY <1>4, <1>5 DEF OperandsTyped, Has, OfKid
<1>7. Shows(Env.syms, Env.scope, t[m][Kid(1)].names, t[m][Kid(1)].known)
  <2>1. OpenNow = 0 /\ N.type # "FUNCDECL"
    BY <1>1, <1>2, PlainFacts DEF Assigns
  <2>2. Env.syms = fns[Top.fn].syms /\ Env.scope = Top.scope
    BY <1>2, <2>1, HereFacts
  <2>3. Shows(Env.syms, Env.scope, t[m][n].names, t[m][n].known)
    BY <1>2, <2>1, <2>2, TopTyped
  <2> QED  BY <1>6, <2>3, EntersShows
<1>8. Target = prog[m][Kid(1)].sym
  BY DEF Target, Node
<1> QED  BY <1>2, <1>4, <1>5, <1>6, <1>7, <1>8

\* The target of an assignment is found, and holds a value of the type of the operand.
LEMMA TargetFacts ==
  ASSUME NEW t, TInv(t), Ready(Assigns)
  PROVE  LET type == OfKid(prog, t, Top.mod, Top.node, 1).type
         IN /\ Running /\ IInv /\ ~InCallee(Top) /\ N.type \in ExprTypes /\ N.type \in Assigns
            /\ live \subseteq Blocks
            /\ Top.vals[1] \in Value /\ Top.vals[1].type = type
            /\ type \in PrimTypes \ {"void"}
            /\ N.type = "EADDASSIGN" => type \in {"int", "real", "string"}
            /\ Found(Target) /\ Lookup(Target).val.type = type /\ Lookup(Target).val \in Value
            /\ IF LocalIdx(Target) # 0
               THEN LocalIdx(Target) \in 1..Len(Env.syms) /\ Env.syms[LocalIdx(Target)].type = type
               ELSE /\ GlobalIdx(Target) \in 1..Len(globals)
                    /\ globals[GlobalIdx(Target)].val.type = type
<1> DEFINE m == Top.mod
           n == Top.node
           type == OfKid(prog, t, m, n, 1).type
<1>1. /\ N.type \in Assigns /\ N.type \in ExprTypes \ {"ESYSTEM", "ECALL"} /\ N.type \in OperandTypes
      /\ FirstOf(N.type) = 2
  BY DEF Ready, ExprTypes, OperandTypes, FirstOf, Assigns
<1>2. Running /\ IInv /\ ~InCallee(Top) /\ live \subseteq Blocks /\ Top.vals[1] \in Value
      /\ Top.vals[1].type = OfKid(prog, t, m, n, FirstOf(N.type)).type
  BY <1>1, ReadyFacts
<1>3. /\ N = prog[m][n] /\ AssignTyped(prog, t, m, n, PrimTypes \ {"void"})
      /\ N.type = "EADDASSIGN" => AssignTyped(prog, t, m, n, Number \union {"string"})
  BY <1>1, <1>2, ExprTyped
<1>4. /\ OfKid(prog, t, m, n, 2).type = type /\ type \in PrimTypes \ {"void"}
      /\ N.type = "EADDASSIGN" => type \in {"int", "real", "string"}
      /\ Kid(1) = prog[m][n].kids[1]
      /\ prog[m][Kid(1)].type = "EATOM" /\ prog[m][Kid(1)].tok = "IDENT"
  BY <1>3 DEF AssignTyped, SameOf, Number, Kid
<1>5. Kid(1) \in DOMAIN prog[m] /\ Kid(1) \in DOMAIN t[m]
  BY TargetNamed
<1>6. OfKid(prog, t, m, n, 1) = t[m][Kid(1)]
  BY <1>4 DEF OfKid
<1>7. Shows(Env.syms, Env.scope, t[m][Kid(1)].names, t[m][Kid(1)].known)
  BY TargetNamed
<1>8. Target = prog[m][Kid(1)].sym
  BY DEF Target, Node
<1> DEFINE k == Kid(1)
<1> HIDE DEF k
<1>9. /\ Found(Target) /\ Lookup(Target).val.type = t[m][Kid(1)].type
      /\ IF LocalIdx(Target) # 0
         THEN LocalIdx(Target) \in 1..Len(Env.syms) /\ Env.syms[LocalIdx(Target)].type = t[m][Kid(1)].type
         ELSE GlobalIdx(Target) \in 1..Len(globals)
  BY <1>2, <1>4, <1>5, <1>6, <1>7, <1>8, VariableFound
<1>10. Lookup(Target).val \in Value
  BY <1>2, <1>9, LookupFacts
<1>11. LocalIdx(Target) = 0 => globals[GlobalIdx(Target)].val.type = t[m][Kid(1)].type
  BY <1>9 DEF Lookup
<1> QED  BY <1>1, <1>2, <1>4, <1>6, <1>9, <1>10, <1>11

\* A variable takes a value of its type.
LEMMA StoreTypes ==
  ASSUME NEW t, TInv(t), CInv', Ready(Assigns), NEW v \in Value, Store(v),
         v.type = OfKid(prog, t, Top.mod, Top.node, 1).type
  PROVE  TypesInv(t)'
<1>1. /\ Running /\ IInv /\ ~InCallee(Top) /\ N.type \in ExprTypes /\ N.type \in Assigns
      /\ LocalsTyped /\ UNCHANGED <<prog, phase, walk>> /\ Leave("none", Unwritten)
  BY TargetFacts, TInvFacts DEF Store
<1>2. t[Top.mod][Top.node].type = "void" /\ N = Node(Top.mod, Top.node)
  BY <1>1, ExprTyped DEF AssignTyped
<1>3. GivesTyped(t, Top.mod, Top.node, "none", Unwritten)
  BY <1>1, <1>2 DEF GivesTyped, Fits, Unwritten, Val
<1>4. N.type # "LOCALDECL" /\ N.type # "FUNCDECL"
  BY <1>1 DEF Assigns
<1>5. CASE LocalIdx(Target) # 0
  <2> DEFINE i == LocalIdx(Target)
  <2>1. i \in 1..Len(Env.syms) /\ v.type = Env.syms[i].type
    BY <1>5, TargetFacts
  <2>2. fns' = [fns EXCEPT ![Len(fns)].syms[i].val = v] /\ Intact
    BY <1>5 DEF Store, Intact
  <2> HIDE DEF i
  <2>3. TablesKept /\ LocalsTyped'
    BY <1>1, <2>1, <2>2, SetTables
  <2>4. GlobalsStay
    BY <1>1, <2>2, IntactStay
  <2> QED  BY <1>1, <1>3, <1>4, <2>3, <2>4, HandlerLeft
<1>6. CASE LocalIdx(Target) = 0
  <2> DEFINE i == GlobalIdx(Target)
  <2>1. i \in 1..Len(globals) /\ globals[i].val.type = v.type
    BY <1>6, TargetFacts
  <2>2. globals' = [globals EXCEPT ![i].val = v] /\ UNCHANGED fns
    BY <1>6 DEF Store
  <2> HIDE DEF i
  <2>3. globals \in Seq(SymRecord) /\ Len(globals) \in Nat /\ DOMAIN globals = 1..Len(globals)
    BY <1>1, Shapes DEF IInv, TypeOK
  <2>4. GlobalsKept
    BY <2>1, <2>2, <2>3, ValueStored DEF GlobalsKept
  <2>5. \A j \in 1..Len(globals) : globals'[j].val.type = globals[j].val.type
    <3>1. TAKE j \in 1..Len(globals)
    <3>2. globals[j] \in SymRecord
      BY <2>3
    <3>3. CASE j = i
      BY <2>1, <2>2, <2>3, <3>2, <3>3 DEF SymRecord
    <3>4. CASE j # i
      BY <2>1, <2>2, <2>3, <3>4
    <3> QED  BY <3>3, <3>4
  <2>6. GlobalsStay
    BY <1>1, <2>4, <2>5 DEF GlobalsStay
  <2>7. TablesKept /\ LocalsTyped'
    BY <1>1, <2>2, SameTables
  <2> QED  BY <1>1, <1>3, <1>4, <2>6, <2>7, HandlerLeft
<1> QED  BY <1>5, <1>6

LEMMA AssignmentTypes ==
  ASSUME NEW t, TInv(t), CInv', Assignment
  PROVE  TypesInv(t)'
<1> DEFINE type == OfKid(prog, t, Top.mod, Top.node, 1).type
           v == Top.vals[1]
<1>1. Ready(Assigns)
  BY DEF Assignment
<1>2. /\ live \subseteq Blocks /\ v \in Value /\ v.type = type
      /\ N.type = "EADDASSIGN" => type \in {"int", "real", "string"}
  BY <1>1, TargetFacts
<1>3. ASSUME NEW w \in {v, Val(v.type)}, Store(w) PROVE TypesInv(t)'
  <2>1. w \in Value /\ w.type = type
    BY <1>2, <1>3, PlainValues DEF Value
  <2> QED  BY <1>1, <1>3, <2>1, StoreTypes
<1>4. CASE N.type = "EADDASSIGN" /\ v.type \notin {"int", "real"} /\ Store(StrVal(NewBlock))
  <2>1. StrVal(NewBlock) \in Value /\ StrVal(NewBlock).type = type
    BY <1>2, <1>4, ValueFacts
  <2> QED  BY <1>1, <1>4, <2>1, StoreTypes
<1>5. CASE \E kind : Undefined(kind)
  BY <1>5, UndefinedTypes
<1> HIDE DEF type, v
<1>6. CASE Eassign
  <2>1. Store(Val(v.type)) \/ Store(v) \/ (\E kind : Undefined(kind))
    BY <1>6 DEF Eassign, InPlace, v
  <2> QED  BY <1>3, <1>5, <2>1
<1>7. CASE Eaddassign
  <2>1. \/ Store(Val(v.type)) \/ (\E kind : Undefined(kind))
        \/ N.type = "EADDASSIGN" /\ v.type \notin {"int", "real"} /\ Store(StrVal(NewBlock))
    BY <1>7 DEF Eaddassign, InPlace, Ready, v
  <2> QED  BY <1>3, <1>4, <1>5, <2>1
<1>8. CASE ArithAssign
  <2>1. Store(Val(v.type)) \/ \E kind : Undefined(kind)
    BY <1>8 DEF ArithAssign, InPlace, MayTrap, v
  <2> QED  BY <1>3, <1>5, <2>1
<1> QED  BY <1>5, <1>6, <1>7, <1>8 DEF Assignment

LEMMA StatementTypes ==
  ASSUME NEW t, TInv(t), CInv', Statement
  PROVE  TypesInv(t)'
BY FuncDeclTypes, LocalDeclTypes, ReturnTypes, CtreeTypes, WhileTypes, ForTypes, JumpTypes, BlockTypes
   DEF Statement

LEMMA ExpressionTypes ==
  ASSUME NEW t, TInv(t), CInv', Expression
  PROVE  TypesInv(t)'
BY EvalOperandTypes, Collected, EatomTypes, SystemTypes, EcallTypes, EaccessTypes, NegNotTypes, EcastTypes,
   BinaryTypes, EternaryTypes, AssignmentTypes
   DEF Expression

-----------------------------------------------------------------------------
(* Before and after the program runs. *)

LEMMA OutsideTypes ==
  ASSUME NEW t, cstk' = <<>>, LocalsTyped', GlobalsFound', GlobalValues'
  PROVE  TypesInv(t)'
BY DEF TypesInv, FramesShown, ScopesNest, OperandsHeld, Returned

\* The handlers have not run yet.
LEMMA OutsideFacts ==
  ASSUME NEW t, TInv(t), phase # "run"
  PROVE  /\ cstk = <<>> /\ ret = NoRet
         /\ prog \in Programs /\ Len(prog) \in Nat /\ DOMAIN prog = 1..Len(prog)
         /\ \A m \in DOMAIN prog : /\ Len(prog[m]) \in Nat /\ DOMAIN prog[m] = 1..Len(prog[m])
                                   /\ m \in Nat /\ \A n \in DOMAIN prog[m] : n \in Nat
         /\ walk.mod \in Nat /\ walk.node \in Nat /\ walk.mod > 0 /\ walk.node > 0
         /\ walk \in [mod : Nat, node : Nat]
         /\ Len(globals) \in Nat /\ DOMAIN globals = 1..Len(globals) /\ globals \in Seq(SymRecord)
<1>1. IInv /\ prog \in Programs
  BY TInvFacts
<1>2. prog \in Seq(Seq(NodeRecord))
  BY <1>1, ProgramsAssumption
<1> QED  BY <1>1, <1>2, WalkFacts, Shapes DEF IInv, Suspended, TypeOK

LEMMA NextModuleTypes ==
  ASSUME NEW t, TInv(t), NextModule
  PROVE  TypesInv(t)'
<1>1. phase = "symtab" /\ UNCHANGED <<prog, globals, fns, cstk, ret>> /\ phase' \in {"symtab", "globals"}
  BY DEF NextModule, Walking
<1>2. /\ cstk' = <<>> /\ GlobalsFound /\ GlobalValues /\ LocalsTyped
      /\ walk.mod \in Nat /\ walk.node \in Nat
      /\ Len(prog) \in Nat /\ DOMAIN prog = 1..Len(prog) /\ walk.mod > 0
      /\ \A m \in DOMAIN prog : /\ Len(prog[m]) \in Nat /\ DOMAIN prog[m] = 1..Len(prog[m])
                                /\ m \in Nat /\ \A n \in DOMAIN prog[m] : n \in Nat
      /\ walk \in [mod : Nat, node : Nat]
  BY <1>1, OutsideFacts, TInvFacts
<1>3. LocalsTyped'
  BY <1>1, <1>2 DEF LocalsTyped, LocalOk
<1>4. \A m, n : Declares(prog, m, n) => m \in DOMAIN prog /\ n \in DOMAIN prog[m]
  BY DEF Declares
<1>5. CASE phase' = "symtab"
  <2>1. /\ walk' = [mod |-> walk.mod + 1, node |-> 1] /\ walk.mod <= Len(prog)
        /\ walk.node > Len(prog[walk.mod])
    BY <1>2, <1>5 DEF NextModule
  <2>2. ASSUME NEW m \in DOMAIN prog, NEW n \in DOMAIN prog[m]
        PROVE  Passed(m, n)' <=> Passed(m, n)
    <3>1. m \in Nat /\ n \in Nat /\ n > 0 /\ (m = walk.mod => n <= Len(prog[walk.mod]))
      BY <1>2
    <3>2. walk.mod \in DOMAIN prog /\ Len(prog[walk.mod]) \in Nat
      BY <1>2, <2>1
    <3>3. m < walk.mod + 1 <=> m < walk.mod \/ m = walk.mod
      BY <1>2, <3>1
    <3>4. ~(n < 1)
      BY <3>1
    <3>5. m = walk.mod => n < walk.node
      BY <1>2, <2>1, <3>1, <3>2
    <3> QED  BY <2>1, <3>3, <3>4, <3>5 DEF Passed
  <2>3. GlobalsFound'
    BY <1>1, <1>2, <1>4, <1>5, <2>2 DEF GlobalsFound, GlobalOk, Node
  <2>4. GlobalValues'
    BY <1>1, <1>2, <1>5 DEF GlobalValues
  <2> QED  BY <1>2, <1>3, <2>3, <2>4, OutsideTypes
<1>6. CASE phase' = "globals"
  <2>1. walk.mod > Len(prog) /\ walk' = [walk EXCEPT !.node = 1]
    BY <1>1, <1>6 DEF NextModule
  <2>2. \A m \in DOMAIN prog : \A n : Passed(m, n)
    BY <1>2, <2>1 DEF Passed
  <2>3. GlobalsFound'
    BY <1>1, <1>2, <1>4, <1>6, <2>2 DEF GlobalsFound, GlobalOk, Node
  <2>4. GlobalValues'
    <3>1. walk'.node = 1 /\ \A i \in DOMAIN globals : i >= 1
      BY <1>1, <1>2, <2>1, OutsideFacts
    <3> QED  BY <1>1, <1>2, <1>6, <3>1 DEF GlobalValues
  <2> QED  BY <1>2, <1>3, <2>3, <2>4, OutsideTypes
<1> QED  BY <1>1, <1>5, <1>6

LEMMA GlobalSymtabTypes ==
  ASSUME NEW t, TInv(t), GlobalSymtab
  PROVE  TypesInv(t)'
<1>1. PICK m, n, node : m = walk.mod /\ n = walk.node /\ node = Node(m, n)
  OBVIOUS
<1>2. PICK type : type = IF node.type = "FUNCDECL" THEN "func" ELSE Prim(m, node.kids[1])
  OBVIOUS
<1>3. PICK g : g = Symbol(node.sym, type, m, n, 0, Null)
  OBVIOUS
<1>4. /\ phase = "symtab" /\ m <= Len(prog) /\ n <= Len(prog[m])
  BY <1>1 DEF GlobalSymtab, Walking
<1>5. /\ cstk = <<>> /\ GlobalsFound /\ GlobalValues /\ LocalsTyped
      /\ m \in Nat /\ n \in Nat /\ m \in DOMAIN prog /\ n \in DOMAIN prog[m]
      /\ Len(globals) \in Nat /\ DOMAIN globals = 1..Len(globals)
      /\ walk \in [mod : Nat, node : Nat]
      /\ \A i \in DOMAIN prog : i \in Nat /\ \A j \in DOMAIN prog[i] : j \in Nat
  BY <1>1, <1>4, OutsideFacts, TInvFacts
<1>6. \A i, j : Declares(prog, i, j) => i \in DOMAIN prog /\ j \in DOMAIN prog[i]
  BY DEF Declares
<1>7. NextNode => \A i \in DOMAIN prog : \A j \in DOMAIN prog[i] :
                    Passed(i, j)' <=> (Passed(i, j) \/ (i = m /\ j = n))
  <2> SUFFICES ASSUME NextNode, NEW i \in DOMAIN prog, NEW j \in DOMAIN prog[i]
               PROVE  Passed(i, j)' <=> (Passed(i, j) \/ (i = m /\ j = n))
    OBVIOUS
  <2>1. walk'.mod = m /\ walk'.node = n + 1
    BY <1>1, <1>5 DEF NextNode
  <2>2. i \in Nat /\ j \in Nat
    BY <1>5
  <2>3. j < n + 1 <=> j < n \/ j = n
    BY <1>5, <2>2
  <2> QED  BY <1>1, <1>5, <2>1, <2>2, <2>3 DEF Passed
<1>8. CASE /\ node.type \notin {"FUNCDECL", "GLOBALDECL"}
           /\ NextNode /\ UNCHANGED <<prog, phase, globals, fns, cstk, ret>>
  <2>1. ~Declares(prog, m, n)
    BY <1>1, <1>8 DEF Declares, Node
  <2>2. GlobalsFound'
    <3>1. \A i, j : Declares(prog, i, j) => (Passed(i, j)' <=> Passed(i, j))
      BY <1>6, <1>7, <1>8, <2>1
    <3> QED  BY <1>5, <1>8, <3>1 DEF GlobalsFound, GlobalOk, Node
  <2>3. GlobalValues' /\ LocalsTyped'
    BY <1>4, <1>5, <1>8 DEF GlobalValues, LocalsTyped, LocalOk
  <2> QED  BY <1>5, <1>8, <2>2, <2>3, OutsideTypes
<1>9. CASE /\ node.type \in {"FUNCDECL", "GLOBALDECL"} /\ NextNode /\ globals' = Append(globals, g)
           /\ UNCHANGED <<prog, phase, fns, cstk, ret>>
  <2>n. PICK L \in Nat : L = Len(globals)
    BY <1>5
  <2>1. /\ DOMAIN globals' = 1..(L + 1) /\ globals'[L + 1] = g
        /\ \A i \in 1..L : globals'[i] = globals[i]
        /\ DOMAIN globals = 1..L
        /\ \A i \in 1..(L + 1) : i \in 1..L \/ i = L + 1
        /\ \A i \in 1..L : i \in 1..(L + 1)
        /\ L + 1 \in 1..(L + 1)
    BY <1>5, <1>9, <2>n
  <2>2. /\ g.sym = node.sym /\ g.type = type /\ g.mod = m /\ g.node = n /\ g.val.type = "null"
    BY <1>3 DEF Symbol, Null, Val
  <2>3. Declares(prog, m, n) /\ prog[m][n] = node
    BY <1>1, <1>5, <1>9 DEF Declares, Node
  <2>4. type = IF prog[m][n].type = "FUNCDECL" THEN "func" ELSE DeclType(prog, m, n)
    BY <1>2, <2>3 DEF Prim, DeclType, Node
  <2>5. Passed(m, n)' /\ UNCHANGED <<prog, phase>>
    BY <1>5, <1>7, <1>9
  <2>6. GlobalOk(g)'
    BY <2>2, <2>3, <2>4, <2>5 DEF GlobalOk, Node
  <2>7. ASSUME NEW i \in 1..L PROVE GlobalOk(globals[i])'
    <3>1. PICK h : h = globals[i]
      OBVIOUS
    <3>2. GlobalOk(h) /\ Declares(prog, h.mod, h.node) /\ Passed(h.mod, h.node)
      BY <1>4, <1>5, <2>1, <3>1 DEF GlobalsFound, GlobalOk
    <3>3. Passed(h.mod, h.node)'
      BY <1>6, <1>7, <1>9, <3>2
    <3>4. GlobalOk(h)'
      BY <1>9, <3>2, <3>3 DEF GlobalOk, Node
    <3>5. globals'[i] = h
      BY <2>1, <3>1
    <3> QED  BY <3>4, <3>5
  <2>8. \A i \in 1..(L + 1) : GlobalOk(globals[i])'
    <3>1. GlobalOk(globals[L + 1])'
      BY <2>1, <2>6 DEF GlobalOk
    <3> QED  BY <2>1, <2>7, <3>1
  <2>9. \A i \in DOMAIN prog : \A j \in DOMAIN prog[i] :
          Declares(prog, i, j) /\ Passed(i, j)' =>
            \E k \in 1..(L + 1) : globals'[k].mod = i /\ globals'[k].node = j
    <3> SUFFICES ASSUME NEW i \in DOMAIN prog, NEW j \in DOMAIN prog[i], Declares(prog, i, j), Passed(i, j)'
                 PROVE  \E k \in 1..(L + 1) : globals'[k].mod = i /\ globals'[k].node = j
      OBVIOUS
    <3>1. Passed(i, j) \/ (i = m /\ j = n)
      BY <1>7, <1>9
    <3>2. CASE Passed(i, j)
      <4>1. PICK k \in 1..L : globals[k].mod = i /\ globals[k].node = j
        BY <1>4, <1>5, <2>1, <3>2 DEF GlobalsFound
      <4> QED  BY <2>1, <4>1
    <3>3. CASE i = m /\ j = n
      BY <2>1, <2>2, <3>3
    <3> QED  BY <3>1, <3>2, <3>3
  <2>10. GlobalsFound'
    BY <1>4, <1>9, <2>1, <2>8, <2>9 DEF GlobalsFound
  <2>11. GlobalValues'
    BY <1>4, <1>5, <1>9, <2>1, <2>2 DEF GlobalValues
  <2>12. LocalsTyped'
    BY <1>5, <1>9 DEF LocalsTyped, LocalOk
  <2> QED  BY <1>5, <1>9, <2>10, <2>11, <2>12, OutsideTypes
<1>10. CASE \E kind : Undefined(kind)
  BY <1>10, UndefinedTypes
<1> QED  BY <1>1, <1>2, <1>3, <1>8, <1>9, <1>10 DEF GlobalSymtab

LEMMA InitGlobalTypes ==
  ASSUME NEW t, TInv(t), InitGlobal
  PROVE  TypesInv(t)'
<1> DEFINE n == walk.node
           v == NewVal(globals[n].type)
<1>1. /\ phase = "globals" /\ phase' = "globals" /\ n <= Len(globals) /\ NextNode
      /\ UNCHANGED <<prog, fns, cstk, ret>>
  BY DEF InitGlobal, Walking
<1>2. /\ cstk' = <<>> /\ GlobalsFound /\ GlobalValues /\ LocalsTyped /\ n \in 1..Len(globals)
      /\ globals \in Seq(SymRecord) /\ Len(globals) \in Nat /\ DOMAIN globals = 1..Len(globals)
      /\ live \subseteq Blocks /\ walk'.node = n + 1 /\ n \in Nat
      /\ globals[n] \in SymRecord
  BY <1>1, OutsideFacts, TInvFacts, RetFacts DEF NextNode
<1>3. LocalsTyped'
  BY <1>1, <1>2 DEF LocalsTyped, LocalOk
<1>4. \A i \in 1..Len(globals) : i >= n + 1 => i >= n /\ i # n
  BY <1>2
<1>5. \A i \in 1..Len(globals) : ~(i >= n + 1) => i = n \/ ~(i >= n)
  BY <1>2
<1> HIDE DEF v, n
<1>6. CASE globals[n].type = "func" /\ UNCHANGED globals
  <2>1. GlobalsFound'
    BY <1>1, <1>2, <1>6 DEF GlobalsFound, GlobalOk, Node
  <2>2. GlobalValues'
    BY <1>1, <1>2, <1>4, <1>5, <1>6 DEF GlobalValues, n
  <2> QED  BY <1>2, <1>3, <2>1, <2>2, OutsideTypes
<1>7. CASE globals[n].type # "func" /\ globals' = [globals EXCEPT ![n].val = v]
  <2>1. globals[n].type \in ValTypes
    BY <1>2, <1>7 DEF SymRecord, SymTypes, ValTypes
  <2>2. v \in Value /\ v.type = globals[n].type
    BY <1>2, <2>1, ValueFacts DEF v
  <2>3. /\ globals' \in Seq(SymRecord) /\ DOMAIN globals' = 1..Len(globals)
        /\ \A i \in 1..Len(globals) :
             /\ globals'[i].type = globals[i].type /\ globals'[i].mod = globals[i].mod
             /\ globals'[i].node = globals[i].node /\ globals'[i].sym = globals[i].sym
    BY <1>2, <1>7, <2>2, ValueStored
  <2>4. /\ globals'[n].val = v
        /\ \A i \in 1..Len(globals) : i # n => globals'[i] = globals[i]
    BY <1>2, <1>7 DEF SymRecord
  <2>5. GlobalsFound'
    <3>1. \A i \in 1..Len(globals) : GlobalOk(globals[i])
      BY <1>2 DEF GlobalsFound
    <3>2. \A i \in 1..Len(globals) : GlobalOk(globals[i])'
      BY <1>1, <2>3, <3>1 DEF GlobalOk, Node
    <3>3. DOMAIN globals' = DOMAIN globals
      BY <1>2, <2>3
    <3>4. \A i \in DOMAIN globals' : GlobalOk(globals[i])'
      BY <1>2, <2>3, <3>2
    <3> QED  BY <1>1, <1>2, <2>3, <3>3, <3>4 DEF GlobalsFound
  <2>6. GlobalValues'
    BY <1>1, <1>2, <1>4, <1>5, <1>7, <2>2, <2>3, <2>4 DEF GlobalValues, n
  <2> QED  BY <1>2, <1>3, <2>5, <2>6, OutsideTypes
<1> QED  BY <1>6, <1>7 DEF InitGlobal, v, n

LEMMA GlobalsDoneTypes ==
  ASSUME NEW t, TInv(t), GlobalsDone \/ EntryError \/ Finish
  PROVE  TypesInv(t)'
<1>1. CASE GlobalsDone
  <2>1. /\ phase = "globals" /\ phase' = "lookup" /\ UNCHANGED <<prog, globals, fns, cstk, ret>>
        /\ walk.node > Len(globals)
    BY <1>1 DEF GlobalsDone, Walking
  <2>2. /\ cstk' = <<>> /\ GlobalsFound /\ GlobalValues /\ LocalsTyped
        /\ \A i \in DOMAIN globals : ~(i >= walk.node)
    <3>1. /\ cstk' = <<>> /\ GlobalsFound /\ GlobalValues /\ LocalsTyped /\ walk.node \in Nat
          /\ Len(globals) \in Nat /\ DOMAIN globals = 1..Len(globals)
      BY <2>1, OutsideFacts, TInvFacts
    <3> QED  BY <2>1, <3>1
  <2>3. GlobalsFound' /\ LocalsTyped'
    BY <2>1, <2>2 DEF GlobalsFound, GlobalOk, Node, LocalsTyped, LocalOk
  <2>4. GlobalValues'
    BY <2>1, <2>2 DEF GlobalValues
  <2> QED  BY <2>2, <2>3, <2>4, OutsideTypes
<1>2. CASE EntryError \/ Finish
  <2>1. /\ phase' \in {"error", "done"} /\ globals' = <<>> /\ UNCHANGED <<prog, cstk>>
        /\ fns' \in {<<>>, fns} /\ cstk = <<>> /\ LocalsTyped
    <3>1. EntryError => cstk = <<>>
      BY OutsideFacts DEF EntryError, Walking
    <3> QED  BY <1>2, <3>1, TInvFacts DEF EntryError, Finish
  <2>2. LocalsTyped'
    BY <2>1 DEF LocalsTyped, LocalOk
  <2>3. GlobalsFound' /\ GlobalValues'
    BY <2>1 DEF GlobalsFound, GlobalValues
  <2> QED  BY <2>1, <2>2, <2>3, OutsideTypes
<1> QED  BY <1>1, <1>2

LEMMA EnterEntryTypes ==
  ASSUME NEW t, TInv(t), EnterEntry
  PROVE  TypesInv(t)'
<1>1. PICK m, n : m = EntryDecl.mod /\ n = EntryDecl.node
  OBVIOUS
<1>2. PICK e, f : /\ e = [mod |-> m, scope |-> 0, syms |-> <<>>]
                  /\ f = [fn |-> 1, mod |-> m, scope |-> 0, node |-> n, at |-> 0, vals |-> <<>>]
  OBVIOUS
<1>3. /\ phase = "lookup" /\ phase' = "run" /\ EntryOk
      /\ UNCHANGED <<prog, walk, globals, ret>>
      /\ fns' = <<e>> /\ cstk' = <<Frame(fns', n)>>
  BY <1>1, <1>2 DEF EnterEntry, Walking
<1>4. ret = NoRet /\ GlobalsFound /\ GlobalValues /\ IInv /\ WellTyped(prog, t)
  BY <1>3, OutsideFacts, TInvFacts
<1>5. /\ m \in DOMAIN prog /\ n \in DOMAIN prog[m] /\ prog[m][n].type = "FUNCDECL"
      /\ ParamsOf(prog, m, n) = <<>>
  <2>1. GlobalIdx(Entry) \in DOMAIN globals /\ EntryDecl.type = "func"
    BY <1>3, <1>4, Shapes, FindSymIndex DEF GlobalIdx, EntryOk
  <2> QED  BY <1>1, <1>3, <1>4, <2>1 DEF EntryDecl, IInv, Placed, EntryOk, EntryNode, ParamsOf, Node
<1>6. FunctionTyped(prog, t, m, n)
  BY <1>4, <1>5 DEF WellTyped
<1>7. Frame(fns', n) = f
  BY <1>2, <1>3 DEF Frame
<1>8. f.fn = 1 /\ f.mod = m /\ f.scope = 0 /\ f.node = n /\ f.at = 0 /\ f.vals = <<>> /\ e.syms = <<>>
  BY <1>2
<1>9. DOMAIN fns' = {1} /\ fns'[1] = e /\ Len(cstk') = 1 /\ DOMAIN cstk' = {1} /\ cstk'[1] = f
  BY <1>3, <1>7
<1>10. FramesShown(t)'
  <2>1. TypedNode(f)' = prog[m][n].kids[3]
    BY <1>3, <1>5, <1>8 DEF TypedNode, Node
  <2>2. prog[m][n].kids[3] \in DOMAIN t[m] /\ t[m][prog[m][n].kids[3]].known = {}
    BY <1>5, <1>6 DEF FunctionTyped, Has, OfKid
  <2>3. View(t, f)' = t[m][prog[m][n].kids[3]]
    BY <1>8, <2>1 DEF View
  <2>4. Shows(<<>>, 0, t[m][prog[m][n].kids[3]].names, t[m][prog[m][n].kids[3]].known)
    BY <2>2 DEF Shows
  <2>5. ShownIn(t, f, <<>>)'
    BY <1>8, <2>1, <2>2, <2>3, <2>4 DEF ShownIn
  <2> QED  BY <1>8, <1>9, <2>5 DEF FramesShown
<1>11. ScopesNest'
  BY <1>8, <1>9 DEF ScopesNest
<1>12. OperandsHeld(t)'
  <2>1. HeldTyped(t, f, FALSE)'
    <3>1. Node(f.mod, f.node)'.type = "FUNCDECL" /\ f.vals = <<>>
      BY <1>3, <1>5, <1>8 DEF Node
    <3> QED  BY <3>1 DEF HeldTyped, OperandTypes, Binaries, Arithmetics, Comparisons, Logicals, Assigns
  <2>2. (1 < Len(cstk) \/ ret # NoRet)' = FALSE
    BY <1>3, <1>4, <1>9
  <2> QED  BY <1>9, <2>1, <2>2 DEF OperandsHeld
<1>13. Returned(t)'
  BY <1>3, <1>4 DEF Returned
<1>14. GlobalsFound' /\ GlobalValues'
  BY <1>3, <1>4 DEF GlobalsFound, GlobalOk, GlobalValues, Node
<1>15. LocalsTyped'
  BY <1>8, <1>9 DEF LocalsTyped
<1> QED  BY <1>10, <1>11, <1>12, <1>13, <1>14, <1>15 DEF TypesInv

\* The program that runs stays the same.
LEMMA ProgKept ==
  ASSUME IInv, Given, [Next]_vars
  PROVE  UNCHANGED prog
<1>1. CASE Prologue
  BY <1>1 DEF Prologue, NextModule, GlobalSymtab, InitGlobal, GlobalsDone, EntryError, EnterEntry, Undefined
<1>2. CASE Statement
  BY <1>2, StatementMoves DEF Moves
<1>3. CASE Expression
  BY <1>3, ExpressionMoves DEF Moves
<1>4. CASE Finish
  BY <1>4 DEF Finish
<1>5. CASE UNCHANGED vars
  BY <1>5 DEF vars
<1> QED  BY <1>1, <1>2, <1>3, <1>4, <1>5 DEF Next, Stopped

LEMMA NextTypes ==
  ASSUME NEW t, TInv(t), CInv', [Next]_vars
  PROVE  TypesInv(t)'
<1>1. CASE Prologue
  BY <1>1, NextModuleTypes, GlobalSymtabTypes, InitGlobalTypes, GlobalsDoneTypes, EnterEntryTypes
     DEF Prologue
<1>2. CASE Statement
  BY <1>2, StatementTypes
<1>3. CASE Expression
  BY <1>3, ExpressionTypes
<1>4. CASE Finish
  BY <1>4, GlobalsDoneTypes
<1>5. CASE UNCHANGED vars
  BY <1>5, SameTypes DEF vars, TInv
<1> QED  BY <1>1, <1>2, <1>3, <1>4, <1>5 DEF Next, Stopped

LEMMA InitTInv ==
  ASSUME Init, NEW t, WellTyped(prog, t)
  PROVE  TInv(t)
<1>1. CInv
  BY InitCInv
<1>2. IInv /\ prog \in Seq(Seq(NodeRecord))
  BY <1>1, ProgramsAssumption DEF CInv, Init
<1>3. /\ phase = "symtab" /\ walk = [mod |-> 1, node |-> 1] /\ globals = <<>> /\ fns = <<>>
      /\ cstk = <<>> /\ ret = NoRet
  BY DEF Init
<1>4. \A m \in DOMAIN prog : \A n \in DOMAIN prog[m] : ~Passed(m, n)
  <2> TAKE m \in DOMAIN prog
  <2> TAKE n \in DOMAIN prog[m]
  <2>1. m \in Nat /\ m > 0
    BY <1>2
  <2>2. prog[m] \in Seq(NodeRecord)
    BY <1>2
  <2>3. n \in Nat /\ n > 0
    BY <2>2
  <2> QED  BY <1>3, <2>1, <2>3 DEF Passed
<1>5. ScopesSorted /\ TypesInv(t)
  BY <1>3, <1>4 DEF ScopesSorted, TypesInv, FramesShown, ScopesNest, OperandsHeld, Returned,
     GlobalsFound, GlobalValues, LocalsTyped, Declares
<1> QED  BY <1>1, <1>5 DEF TInv

LEMMA NextTInv ==
  ASSUME NEW t, TInv(t), [Next]_vars
  PROVE  TInv(t)'
<1>1. CInv /\ IInv /\ Given /\ ScopesSorted /\ WellTyped(prog, t)
  BY TInvFacts DEF CInv
<1>2. CInv'
  BY <1>1, NextCInv
<1>3. ScopesSorted'
  BY <1>1, StepTables, SortedKeeps
<1>4. prog' = prog
  BY <1>1, ProgKept
<1> QED  BY <1>1, <1>2, <1>3, <1>4, NextTypes DEF TInv

\* The types hold in some typing of the program.
Sorted == \E t : TInv(t)

LEMMA TypesAlways ==
  ASSUME \A p \in Programs : \E t : WellTyped(p, t)
  PROVE  Spec => []Sorted
<1>1. Init => Sorted
  BY InitTInv DEF Init, Sorted
<1>2. Sorted /\ [Next]_vars => Sorted'
  <2> SUFFICES ASSUME Sorted, [Next]_vars PROVE Sorted'
    OBVIOUS
  <2>1. PICK t : TInv(t)
    BY DEF Sorted
  <2>2. TInv(t)'
    BY <2>1, NextTInv
  <2> QED  BY <2>2 DEF Sorted
<1> QED  BY <1>1, <1>2, PTL DEF Spec

\* In every run of programs that are well typed, each symbol has a value of the type it
\* was declared with, written to the union member that ls_findsym's users read without a
\* test for that type.  A sum of reals is the exception: ls_execeadd writes an integer.
THEOREM ValuesOfTheirTypes ==
  ASSUME \A p \in Programs : \E t : WellTyped(p, t)
  PROVE  Spec => []SymbolsTyped
<1>1. Sorted => SymbolsTyped
  <2> SUFFICES ASSUME Sorted PROVE SymbolsTyped
    OBVIOUS
  <2>1. PICK t : TInv(t)
    BY DEF Sorted
  <2>2. GlobalValues /\ LocalsTyped /\ GlobalsFound /\ IInv
    BY <2>1, TInvFacts
  <2>3. \A d \in DOMAIN fns : \A i \in DOMAIN fns[d].syms : AsWritten(fns[d].syms[i].val)
    <3>1. TAKE d \in DOMAIN fns
    <3> TAKE i \in DOMAIN fns[d].syms
    <3>2. fns \in Seq(EnvRecord)
      BY <2>2 DEF IInv, TypeOK
    <3>3. fns[d].syms \in Seq(SymRecord)
      <4>1. fns[d] \in EnvRecord
        BY <3>2
      <4> QED  BY <4>1 DEF EnvRecord
    <3>4. fns[d].syms[i] \in SymRecord
      BY <3>3
    <3> QED  BY <3>4 DEF SymRecord, Value
  <2>4. \A i \in DOMAIN globals : AsWritten(globals[i].val)
    <3>1. TAKE i \in DOMAIN globals
    <3>2. globals[i] \in SymRecord
      BY <2>2 DEF IInv, TypeOK
    <3> QED  BY <3>2 DEF SymRecord, Value
  <2> QED  BY <2>2, <2>3, <2>4 DEF SymbolsTyped, GlobalValues, LocalsTyped, LocalOk
<1> QED  BY <1>1, TypesAlways, PTL

\* What a handler gives back is a value of the run, or was not written at all.
LEMMA GivenAsWritten ==
  ASSUME IInv
  PROVE  AsWritten(ret.val)
<1>1. ret.val \in Value \union {Unwritten}
  BY RetFacts
<1>2. AsWritten(Unwritten)
  BY DEF AsWritten, Unwritten, Val
<1> QED  BY <1>1, <1>2 DEF Value

\* A call gives back a value of the type its function was declared with, written as that
\* type unless it is a sum of reals, whether the body ends with a return or without one.
THEOREM CallsGiveDeclaredType ==
  ASSUME \A p \in Programs : \E t : WellTyped(p, t)
  PROVE  Spec => []ReturnsDeclaredType
<1>1. Sorted => ReturnsDeclaredType
  <2> SUFFICES ASSUME Sorted, Resuming({"ECALL"}), InCallee(Top)
               PROVE  /\ ret.val.type = Prim(Callee(Top).mod, Node(Callee(Top).mod, Callee(Top).node).kids[1])
                      /\ AsWritten(ret.val)
    BY DEF ReturnsDeclaredType
  <2>1. PICK t : TInv(t)
    BY DEF Sorted
  <2>2. Returned(t) /\ ret # NoRet /\ cstk # <<>> /\ IInv
    BY <2>1, TInvFacts DEF Resuming, Running
  <2>3. AsWritten(ret.val)
    BY <2>2, GivenAsWritten
  <2> QED  BY <2>2, <2>3 DEF Returned, CallGave, DeclType, Prim, Node
<1> QED  BY <1>1, TypesAlways, PTL

-----------------------------------------------------------------------------
(* What a name stands for. *)

\* Symbols of one name in one table are of one declaration.
OnceIn(st) ==
  \A i, j \in DOMAIN st : st[i].sym = st[j].sym => st[i].mod = st[j].mod /\ st[i].node = st[j].node
NamesOnce == \A d \in DOMAIN fns : OnceIn(fns[d].syms)

\* A table whose symbols are those of another at places of their own.
LEMMA OnceKept ==
  ASSUME NEW st, NEW su, OnceIn(st),
         \A j \in DOMAIN su : /\ j \in DOMAIN st /\ su[j].sym = st[j].sym
                             /\ su[j].mod = st[j].mod /\ su[j].node = st[j].node
  PROVE  OnceIn(su)
BY DEF OnceIn

LEMMA FewerNames ==
  ASSUME NamesOnce,
         \A d \in DOMAIN fns' : d \in DOMAIN fns /\
           \A j \in DOMAIN fns'[d].syms :
             j \in DOMAIN fns[d].syms /\ fns'[d].syms[j] = fns[d].syms[j]
  PROVE  NamesOnce'
BY DEF NamesOnce, OnceIn

\* Where a declaration runs, the table shows what its typing says, and so will the symbol
\* that it adds.
LEMMA DeclaredNames ==
  ASSUME NEW t, TInv(t), Running, ~InCallee(Top), NEW st, Declared(st)
  PROVE  OnceIn(st)
<1> DEFINE names == t[Top.mod][Top.node].names
           L == Len(Env.syms)
<1>1. PICK s \in SymRecord :
        /\ s.scope = Env.scope /\ st = Append(Env.syms, s)
        /\ N.type = "LOCALDECL" /\ s.sym = N.sym /\ s.mod = Top.mod /\ s.node = Top.node
  BY DEF Declared
<1>2. IInv /\ ScopesSorted /\ N.type # "FUNCDECL"
  BY <1>1, TInvFacts
<1>3. /\ Env = fns[Top.fn] /\ Env.scope = Top.scope /\ Env.scope \in Nat
      /\ Env.syms \in Seq(SymRecord) /\ L \in Nat /\ DOMAIN Env.syms = 1..L /\ InOrder(Env)
      /\ N = prog[Top.mod][Top.node]
  <2>1. OpenNow = 0
    BY <1>1 DEF OpenNow, OpenAt
  <2> QED  BY <1>2, <2>1, HereFacts, EnvFacts
<1>4. \A j \in 1..L : Env.syms[j].sym \in DOMAIN names /\ names[Env.syms[j].sym] = Decl(Env.syms[j])
  <2>1. Shows(Env.syms, Top.scope, names, t[Top.mod][Top.node].known)
    BY <1>2, <1>3, TopTyped
  <2>2. \A j \in 1..L : Env.syms[j].scope <= Top.scope
    BY <1>3 DEF InOrder
  <2> QED  BY <1>3, <2>1, <2>2 DEF Shows
<1>5. N.sym \in DOMAIN names /\ names[N.sym].mod = Top.mod /\ names[N.sym].node = Top.node
  <2>1. NodeTyped(prog, t, Top.mod, Top.node)
    BY <1>2, TopTyped
  <2>2. LocalDeclTyped(prog, t, Top.mod, Top.node)
    BY <1>1, <1>3, <2>1, NodeTypedCases
  <2> QED  BY <1>3, <2>2 DEF LocalDeclTyped, LocalAs
<1>6. /\ DOMAIN st = 1..(L + 1) /\ st[L + 1] = s /\ \A j \in 1..L : st[j] = Env.syms[j]
  BY <1>1, <1>3
<1> HIDE DEF L, names
<1>7. \A j \in 1..(L + 1) :
        /\ st[j].sym \in DOMAIN names /\ names[st[j].sym].mod = st[j].mod
        /\ names[st[j].sym].node = st[j].node
  <2>1. ASSUME NEW j \in 1..L
        PROVE  /\ st[j].sym \in DOMAIN names /\ names[st[j].sym].mod = st[j].mod
               /\ names[st[j].sym].node = st[j].node
    <3>1. st[j].sym \in DOMAIN names /\ names[st[j].sym] = Decl(st[j])
      BY <1>4, <1>6
    <3> QED  BY <3>1 DEF Decl
  <2>2. \A j \in 1..(L + 1) : j \in 1..L \/ j = L + 1
    BY <1>3 DEF L
  <2>3. /\ st[L + 1].sym \in DOMAIN names /\ names[st[L + 1].sym].mod = st[L + 1].mod
        /\ names[st[L + 1].sym].node = st[L + 1].node
    BY <1>1, <1>5, <1>6
  <2> QED  BY <2>1, <2>2, <2>3
<1> QED  BY <1>6, <1>7 DEF OnceIn

\* The parameters of a function have different names.
LEMMA ParamsOnce ==
  ASSUME NEW t, TInv(t), Running, ret = NoRet, N.type = "ECALL", CalleeOk(Top)
  PROVE  OnceIn(CalleeEnv.syms)
<1> DEFINE a == Callee(Top).mod
           b == Callee(Top).node
           names == t[a][prog[a][b].kids[3]].names
<1>1. FunctionTyped(prog, t, a, b) /\ ParamNodes(Top) = ParamsOf(prog, a, b)
  BY CalleeFound
<1>2. CalleeEnv.syms = Params
  BY DEF CalleeEnv
<1>3. \A k \in DOMAIN Params :
        /\ k \in DOMAIN ParamNodes(Top) /\ Params[k].sym = prog[a][ParamNodes(Top)[k]].sym
        /\ Params[k].mod = a /\ Params[k].node = ParamNodes(Top)[k]
  <2>1. IInv /\ ~InCallee(Top) /\ Top.vals \in Seq(Value) /\ Len(cstk) \in DOMAIN cstk
        /\ Top = cstk[Len(cstk)] /\ ParamNodes(Top) \in Seq(Nat)
    BY TInvFacts, PlainFacts, TopFacts, CalleeFound DEF Top
  <2>2. Top.vals # <<>> => Len(Top.vals) <= Len(ParamNodes(Top))
    BY <2>1 DEF IInv, Suspended, ArgsFit, Arguing, N
  <2>3. \A k \in DOMAIN Top.vals : k \in DOMAIN ParamNodes(Top)
    <3> SUFFICES ASSUME NEW k \in 1..Len(Top.vals) PROVE k \in 1..Len(ParamNodes(Top))
      BY <2>1
    <3>1. Top.vals # <<>> /\ Len(Top.vals) \in Nat /\ Len(ParamNodes(Top)) \in Nat
      BY <2>1
    <3> QED  BY <2>2, <3>1
  <2> QED  BY <2>3 DEF Params, Symbol, Node
<1> HIDE DEF a, b
<1>4. ASSUME NEW k \in DOMAIN Params
      PROVE  names[Params[k].sym].mod = Params[k].mod /\ names[Params[k].sym].node = Params[k].node
  <2>1. k \in DOMAIN ParamsOf(prog, a, b) /\ ParamNodes(Top)[k] = ParamsOf(prog, a, b)[k]
    BY <1>1, <1>3
  <2>2. names[prog[a][ParamsOf(prog, a, b)[k]].sym] = LocalAs(prog, a, ParamsOf(prog, a, b)[k])
    BY <1>1, <2>1 DEF FunctionTyped, OfKid
  <2>3. /\ Params[k].sym = prog[a][ParamsOf(prog, a, b)[k]].sym
        /\ Params[k].mod = a /\ Params[k].node = ParamsOf(prog, a, b)[k]
    BY <1>3, <2>1
  <2> HIDE DEF names
  <2>4. names[Params[k].sym] = LocalAs(prog, a, Params[k].node)
    BY <2>2, <2>3
  <2> QED  BY <2>3, <2>4 DEF LocalAs
<1> QED  BY <1>2, <1>4 DEF OnceIn

LEMMA NamesOnceKeeps ==
  ASSUME NEW t, TInv(t), NamesOnce, [Next]_vars
  PROVE  NamesOnce'
<1>1. Tables /\ IInv /\ ScopesSorted /\ LocalsTyped
  BY TInvFacts, StepTables
<1>2. CASE fns' = fns
  BY <1>2 DEF NamesOnce
<1>3. CASE fns' = <<>> \/ fns' = <<[mod |-> EntryDecl.mod, scope |-> 0, syms |-> <<>>]>>
  BY <1>3 DEF NamesOnce, OnceIn
<1>4. CASE Running /\ ~InCallee(Top) /\ fns' = Opened
  <2>1. /\ Len(fns) \in Nat /\ DOMAIN fns = 1..Len(fns) /\ Env = fns[Len(fns)] /\ Env \in EnvRecord
    BY <1>1, <1>4, TopFacts, Shapes
  <2>2. DOMAIN fns' = DOMAIN fns /\ \A d \in DOMAIN fns : fns'[d].syms = fns[d].syms
    <3> DEFINE e == [Env EXCEPT !.scope = @ + 1]
    <3>1. e.syms = Env.syms
      BY <2>1 DEF EnvRecord
    <3>2. fns' = [fns EXCEPT ![Len(fns)] = e]
      BY <1>4 DEF Opened, Env
    <3> HIDE DEF e
    <3> QED  BY <2>1, <3>1, <3>2
  <2> QED  BY <2>2 DEF NamesOnce
<1>5. CASE Running /\ ~InCallee(Top) /\ OpenNow = 1 /\ fns' = Closed
  <2>1. KeptHere \in 0..Len(Env.syms) /\ Len(Env.syms) \in Nat /\ DOMAIN Env.syms = 1..Len(Env.syms)
        /\ Env = fns[Len(fns)] /\ DOMAIN fns = 1..Len(fns)
    BY <1>1, <1>5, EnvFacts, KeptIndex, TopFacts, Shapes DEF KeptHere
  <2> DEFINE su == Prefix(Env.syms, KeptHere)
  <2>2. DOMAIN su = 1..KeptHere /\ \A i \in 1..KeptHere : su[i] = Env.syms[i] /\ i \in DOMAIN Env.syms
    BY <2>1 DEF Prefix
  <2>3. /\ DOMAIN fns' = DOMAIN fns
        /\ \A d \in DOMAIN fns : fns'[d].syms = IF d = Len(fns) THEN su ELSE fns[d].syms
    BY <1>5, <2>1 DEF Closed
  <2> HIDE DEF su
  <2> QED  BY <2>1, <2>2, <2>3, FewerNames
<1>6. CASE /\ Running /\ ~InCallee(Top)
           /\ \E st : (Restored(st) \/ Declared(st)) /\ fns' = [fns EXCEPT ![Len(fns)].syms = st]
  <2>1. PICK st : (Restored(st) \/ Declared(st)) /\ fns' = [fns EXCEPT ![Len(fns)].syms = st]
    BY <1>6
  <2>2. /\ DOMAIN fns' = DOMAIN fns /\ Top.fn \in DOMAIN fns /\ Env = fns[Top.fn]
        /\ \A d \in DOMAIN fns : d # Top.fn => fns'[d] = fns[d]
        /\ fns'[Top.fn].syms = st
    BY <1>1, <1>6, <2>1, InnermostTable
  <2>3. CASE Restored(st)
    <3>1. DOMAIN Env.syms = 1..Len(Env.syms)
      BY <1>1, <1>6, EnvFacts
    <3>2. DOMAIN st = 1..Len(Env.syms)
      BY <2>3 DEF Restored
    <3>3. OnceIn(st)
      BY <2>2, <2>3, <3>1, <3>2, OnceKept DEF Restored, NamesOnce
    <3> QED  BY <2>2, <3>3 DEF NamesOnce
  <2>4. CASE Declared(st)
    BY <1>6, <2>2, <2>4, DeclaredNames DEF NamesOnce
  <2> QED  BY <2>1, <2>3, <2>4
<1>7. CASE Running /\ ret = NoRet /\ N.type = "ECALL" /\ CalleeOk(Top) /\ fns' = Append(fns, CalleeEnv)
  <2>1. Len(fns) \in Nat /\ DOMAIN fns = 1..Len(fns)
    BY <1>1, Shapes
  <2>2. /\ DOMAIN fns' = 1..(Len(fns) + 1) /\ fns'[Len(fns) + 1] = CalleeEnv
        /\ \A d \in 1..Len(fns) : fns'[d] = fns[d]
        /\ \A d \in 1..(Len(fns) + 1) : d \in 1..Len(fns) \/ d = Len(fns) + 1
    BY <1>7, <2>1
  <2>3. OnceIn(CalleeEnv.syms)
    BY <1>7, ParamsOnce
  <2> QED  BY <2>1, <2>2, <2>3 DEF NamesOnce
<1>8. CASE Running /\ fns' = SubSeq(fns, 1, Len(fns) - 1)
  <2>1. fns \in Seq(EnvRecord)
    BY <1>1 DEF IInv, TypeOK
  <2>2. \A d \in DOMAIN fns' : d \in DOMAIN fns /\ fns'[d] = fns[d]
    BY <1>8, <2>1
  <2> QED  BY <2>2 DEF NamesOnce
<1> QED  BY <1>1, <1>2, <1>3, <1>4, <1>5, <1>6, <1>7, <1>8 DEF Tables

\* A local has a name that no global has.
LEMMA LocalsApart ==
  ASSUME NEW t, TInv(t), NamesOnce
  PROVE  NoShadowing
<1> SUFFICES ASSUME NEW d \in DOMAIN fns, NEW i \in DOMAIN fns[d].syms
             PROVE  /\ FindSym(globals, fns[d].syms[i].sym) = 0
                    /\ \A j \in DOMAIN fns[d].syms :
                         fns[d].syms[j].sym = fns[d].syms[i].sym =>
                           /\ fns[d].syms[j].mod = fns[d].syms[i].mod
                           /\ fns[d].syms[j].node = fns[d].syms[i].node
  BY DEF NoShadowing
<1>1. GlobalsFound /\ LocalsTyped /\ prog \in Programs
  BY TInvFacts
<1>2. ~IsGlobal(prog, fns[d].syms[i].sym)
  BY <1>1 DEF LocalsTyped, LocalOk
<1>3. ASSUME NEW g \in DOMAIN globals, globals[g].sym = fns[d].syms[i].sym
      PROVE  FALSE
  <2>1. GlobalOk(globals[g])
    BY <1>1 DEF GlobalsFound
  <2> QED  BY <1>2, <1>3, <2>1 DEF GlobalOk, IsGlobal, Declares, Node
<1> QED  BY <1>3 DEF FindSym, NamesOnce, OnceIn

\* In every run of programs that are well typed, two symbols of one name are never of two
\* declarations, neither in one table nor in that of a call and the globals, whatever is
\* declared again in a scope that was closed or by the body of a loop: so it does not
\* matter that ls_findsym takes the first symbol of a name and ls_exec looks at locals
\* before globals.
THEOREM NamesStandApart ==
  ASSUME \A p \in Programs : \E t : WellTyped(p, t)
  PROVE  Spec => []NoShadowing
<1> DEFINE Apart == Sorted /\ NamesOnce
<1>1. Init => Apart
  BY InitTInv DEF Init, Sorted, NamesOnce
<1>2. Apart /\ [Next]_vars => Apart'
  <2> SUFFICES ASSUME Sorted, NamesOnce, [Next]_vars PROVE Sorted' /\ NamesOnce'
    OBVIOUS
  <2>1. PICK t : TInv(t)
    BY DEF Sorted
  <2>2. TInv(t)'
    BY <2>1, NextTInv
  <2>3. NamesOnce'
    BY <2>1, NamesOnceKeeps
  <2> QED  BY <2>2, <2>3 DEF Sorted
<1>3. Apart => NoShadowing
  BY LocalsApart DEF Sorted
<1> QED  BY <1>1, <1>2, <1>3, PTL DEF Spec

-----------------------------------------------------------------------------
(* What semantic analysis decided. *)

Agreed(t) == TInv(t) /\ Decided(t)
AgreedAll == \E t : Agreed(t)

LEMMA AgreedKeeps ==
  ASSUME NEW t, Agreed(t), [CheckedNext]_checkedvars
  PROVE  Agreed(t)'
<1>1. [Next]_vars /\ UNCHANGED sema
  BY DEF CheckedNext, checkedvars
<1>2. TInv(t)'
  BY <1>1, NextTInv DEF Agreed
<1>3. prog' = prog
  BY <1>1, ProgKept, TInvFacts DEF Agreed, CInv
<1> QED  BY <1>1, <1>2, <1>3 DEF Agreed, Decided, Resolved, Use

LEMMA AgreedAlways == AgreedSpec => []AgreedAll
<1>1. AgreedInit => AgreedAll
  BY InitTInv DEF AgreedInit, AgreedAll, Agreed
<1>2. AgreedAll /\ [CheckedNext]_checkedvars => AgreedAll'
  <2> SUFFICES ASSUME AgreedAll, [CheckedNext]_checkedvars PROVE AgreedAll'
    OBVIOUS
  <2>1. PICK t : Agreed(t)
    BY DEF AgreedAll
  <2>2. Agreed(t)'
    BY <2>1, AgreedKeeps
  <2> QED  BY <2>2 DEF AgreedAll
<1> QED  BY <1>1, <1>2, PTL DEF AgreedSpec

\* A name that is looked up is found where it was decided.
LEMMA NameDecided ==
  ASSUME NEW t, Agreed(t), Running, NEW n \in DOMAIN prog[Top.mod], n \in DOMAIN t[Top.mod],
         prog[Top.mod][n].type = "EATOM", prog[Top.mod][n].tok = "IDENT",
         Shows(Env.syms, Env.scope, t[Top.mod][n].names, t[Top.mod][n].known)
  PROVE  LET sym == prog[Top.mod][n].sym
         IN Found(sym) /\ Use(Top.mod, n, Lookup(sym).mod, Lookup(sym).node) \in sema.uses
<1> DEFINE m == Top.mod
           sym == prog[m][n].sym
<1>1. Found(sym) /\ FoundAs(t, m, n)
  BY VariableFound DEF Agreed
<1>2. m \in DOMAIN prog
  BY TInvFacts, TopFacts DEF Agreed
<1>3. Resolved(t, m, n)
  BY <1>2 DEF Agreed, Decided
<1>4. CASE sym \in t[m][n].known /\ t[m][n].names[sym] = Decl(Lookup(sym))
  <2>1. t[m][n].names[sym].mod = Lookup(sym).mod /\ t[m][n].names[sym].node = Lookup(sym).node
    BY <1>4 DEF Decl
  <2> QED  BY <1>1, <1>3, <1>4, <2>1 DEF Resolved
<1>5. CASE /\ sym \notin t[m][n].known
           /\ \E i \in DOMAIN prog : \E j \in DOMAIN prog[i] :
                /\ prog[i][j].type = "GLOBALDECL" /\ prog[i][j].sym = sym
                /\ Lookup(sym).mod = i /\ Lookup(sym).node = j
  BY <1>1, <1>3, <1>5 DEF Resolved
<1> QED  BY <1>1, <1>4, <1>5 DEF FoundAs

\* In every run of a program that has a typing, a name means at run time what was decided
\* in the order of the text, as far as the typing bears that out: the two resolve names
\* in different tables and at different moments, and agree.
THEOREM NamesAsDecided == AgreedSpec => []NamesAgree
<1>1. AgreedAll => NamesAgree
  <2> SUFFICES ASSUME NEW t, Agreed(t) PROVE NamesAgree
    BY DEF AgreedAll
  <2>1. ASSUME Starting({"EATOM"}), N.tok = "IDENT"
        PROVE  LET sym == Node(Top.mod, Top.node).sym
               IN Found(sym) /\ Use(Top.mod, Top.node, Lookup(sym).mod, Lookup(sym).node) \in sema.uses
    <3>1. Running /\ N.type = "EATOM" /\ Top.at = 0 /\ TInv(t) /\ IInv /\ N.type \in ExprTypes
      BY <2>1, TInvFacts DEF Starting, Agreed, ExprTypes
    <3>2. N = prog[Top.mod][Top.node] /\ Top.node \in DOMAIN t[Top.mod] /\ Top.node \in DOMAIN prog[Top.mod]
      BY <3>1, ExprTyped, TopFacts
    <3>3. ~InCallee(Top)
      BY <3>1, TopFacts DEF InCallee
    <3>4. Shows(Env.syms, Env.scope, t[Top.mod][Top.node].names, t[Top.mod][Top.node].known)
      BY <3>1, <3>3, HereFacts, TopTyped DEF OpenNow
    <3> QED  BY <2>1, <3>1, <3>2, <3>4, NameDecided DEF Node
  <2>2. ASSUME Ready(Assigns)
        PROVE  LET sym == Node(Top.mod, Kid(1)).sym
               IN Found(sym) /\ Use(Top.mod, Kid(1), Lookup(sym).mod, Lookup(sym).node) \in sema.uses
    <3>1. TInv(t)
      BY DEF Agreed
    <3> QED  BY <2>2, <3>1, TargetNamed, NameDecided DEF Node
  <2>3. ASSUME Running, N.type = "ECALL"
        PROVE  Use(Top.mod, Kid(1), Callee(Top).mod, Callee(Top).node) \in sema.uses
    <3>1. TInv(t) /\ IInv /\ N.type \in ExprTypes
      BY <2>3, TInvFacts DEF Agreed, ExprTypes
    <3>2. /\ Top.mod \in DOMAIN prog /\ Top.node \in DOMAIN prog[Top.mod]
          /\ Top.node \in DOMAIN t[Top.mod] /\ N = prog[Top.mod][Top.node]
      BY <2>3, <3>1, TopFacts, ExprTyped
    <3>3. Resolved(t, Top.mod, Top.node)
      BY <3>2 DEF Agreed, Decided
    <3>4. /\ Callee(Top).mod \in DOMAIN prog /\ Callee(Top).node \in DOMAIN prog[Callee(Top).mod]
          /\ prog[Callee(Top).mod][Callee(Top).node].type = "FUNCDECL"
          /\ prog[Callee(Top).mod][Callee(Top).node].sym = Node(Top.mod, Kid(1)).sym
      BY <2>3, <3>1, CalleeFound
    <3> QED  BY <2>3, <3>2, <3>3, <3>4 DEF Resolved, Kid, Node
  <2>4. ASSUME Looking
        PROVE  LET sym == Node(Top.mod, LookedUp).sym
               IN Found(sym) /\ Use(Top.mod, LookedUp, Lookup(sym).mod, Lookup(sym).node) \in sema.uses
    <3>1. CASE Starting({"EATOM"}) /\ N.tok = "IDENT"
      <4>1. LookedUp = Top.node
        BY <3>1 DEF LookedUp, Starting
      <4> QED  BY <2>1, <3>1, <4>1
    <3>2. CASE Ready(Assigns)
      <4>1. LookedUp = Kid(1)
        BY <3>2 DEF LookedUp, Ready, Assigns
      <4> QED  BY <2>2, <3>2, <4>1
    <3> QED  BY <2>4, <3>1, <3>2 DEF Looking
  <2> QED  BY <2>3, <2>4 DEF NamesAgree, Use
<1> QED  BY <1>1, AgreedAlways, PTL

\* In every run of a program that has a typing, an expression gives back a value of the
\* type that was decided for it, written as that type unless it is a sum of reals, or
\* none when the type is void.
THEOREM ValuesAsDecided == AgreedSpec => []ValuesTyped
<1>1. AgreedAll => ValuesTyped
  <2> SUFFICES ASSUME NEW t, Agreed(t), Running, ret # NoRet, Top.at \in 1..Arity,
                      NEW x \in sema.types, x.mod = Top.mod, x.node = Kid(Top.at)
               PROVE  IF x.type = "void" THEN ret.val.type \in {"unwritten", "void"}
                      ELSE ret.val.type = x.type /\ AsWritten(ret.val)
    BY DEF AgreedAll, ValuesTyped
  <2>1. /\ TInv(t) /\ t[Top.mod][Kid(Top.at)].type = x.type
        /\ prog[Top.mod][Kid(Top.at)].type \in ExprTypes
    BY DEF Agreed, Decided
  <2>2. ~InCallee(Top)
    <3>1. N = Node(Top.mod, Top.node) /\ Top.at <= Len(N.kids) /\ Len(N.kids) \in Nat /\ Top.at \in Nat
      BY <2>1, TInvFacts, TopFacts DEF Arity, FrameRecord
    <3> QED  BY <3>1 DEF InCallee
  <2>3. GivesTyped(t, Top.mod, Kid(Top.at), ret.act, ret.val)
    BY <2>1, <2>2, GivenValue
  <2>4. AsWritten(ret.val)
    BY <2>1, TInvFacts, GivenAsWritten
  <2> QED  BY <2>1, <2>3, <2>4 DEF GivesTyped, Fits, Node
<1> QED  BY <1>1, AgreedAlways, PTL
=============================================================================

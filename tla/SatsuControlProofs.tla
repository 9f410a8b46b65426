------------------------- MODULE SatsuControlProofs -------------------------
(***************************************************************************)
(* Proofs about the control of SatsuExec: what the tables hold, which      *)
(* handler calls which, and how a return, a break or a continue travels.   *)
(***************************************************************************)
EXTENDS SatsuExecProofs

-----------------------------------------------------------------------------
(* How a step changes the tables of the environments. *)

\* Only values of the innermost table.
Restored(st) ==
  /\ st \in Seq(SymRecord) /\ Len(st) = Len(Env.syms)
  /\ \A i \in 1..Len(st) :
       /\ st[i].scope = Env.syms[i].scope /\ st[i].sym = Env.syms[i].sym
       /\ st[i].mod = Env.syms[i].mod /\ st[i].node = Env.syms[i].node
\* One more symbol in it, of the scope that is open, for the declaration that runs.
Declared(st) ==
  \E s \in SymRecord :
    /\ s.scope = Env.scope /\ st = Append(Env.syms, s)
    /\ N.type = "LOCALDECL" /\ s.sym = N.sym /\ s.mod = Top.mod /\ s.node = Top.node

Tables ==
  \/ fns' = fns \/ fns' = <<>>
  \/ fns' = <<[mod |-> EntryDecl.mod, scope |-> 0, syms |-> <<>>]>>
  \/ Running /\ ~InCallee(Top) /\ fns' = Opened
  \/ Running /\ ~InCallee(Top) /\ OpenNow = 1 /\ fns' = Closed
  \/ /\ Running /\ ~InCallee(Top)
     /\ \E st : (Restored(st) \/ Declared(st)) /\ fns' = [fns EXCEPT ![Len(fns)].syms = st]
  \/ Running /\ ret = NoRet /\ N.type = "ECALL" /\ CalleeOk(Top) /\ fns' = Append(fns, CalleeEnv)
  \/ Running /\ fns' = SubSeq(fns, 1, Len(fns) - 1)

LEMMA StatementTables ==
  ASSUME IInv, FuncDecl \/ Return \/ Ctree \/ While \/ For \/ Break \/ Continue \/ Block
  PROVE  Tables
<1>1. Running /\ ~InCallee(Top)
  BY ScopeOfTop, PlainFacts DEF FuncDecl, Return, Ctree, While, For, Break, Continue, Block,
     Starting, Resuming, Ready, Running
<1>2. ret # NoRet => Top.at > 0
  <2>1. Len(cstk) \in DOMAIN cstk
    BY <1>1, TopFacts
  <2> QED  BY <2>1 DEF IInv, Suspended, Waiting, Top
<1>3. fns' \in {fns, Opened} \/ (fns' = Closed /\ OpenNow = 1)
  <2>1. CASE FuncDecl \/ Return \/ Break \/ Continue
    BY <2>1 DEF FuncDecl, Return, Break, Continue, Call, CallNode
  <2>2. CASE Ctree
    BY <2>2 DEF Ctree, Call, CallNode, OpenNow, OpenAt, Resuming
  <2>3. CASE While
    BY <2>3, <1>2 DEF While, Call, CallNode, OpenNow, OpenAt, Resuming, LeaveScope
  <2>4. CASE For
    BY <2>4, <1>2 DEF For, Call, CallNode, OpenNow, OpenAt, Resuming, LeaveScope
  <2>5. CASE Block
    BY <2>5, <1>2 DEF Block, Call, CallNode, OpenNow, OpenAt, Resuming, LeaveScope
  <2> QED  BY <2>1, <2>2, <2>3, <2>4, <2>5
<1> QED  BY <1>1, <1>3 DEF Tables

\* A symbol takes a new value: its scope, and those of the others, stay.
LEMMA StoredScopes ==
  ASSUME NEW st \in Seq(SymRecord), NEW i \in 1..Len(st), NEW v
  PROVE  \A j \in 1..Len(st) : [st EXCEPT ![i].val = v][j].scope = st[j].scope
<1>1. st[i] \in SymRecord /\ DOMAIN st = 1..Len(st)
  OBVIOUS
<1>2. [st[i] EXCEPT !.val = v].scope = st[i].scope
  BY <1>1 DEF SymRecord
<1> QED  BY <1>1, <1>2

LEMMA StoreTables ==
  ASSUME IInv, Running, ~InCallee(Top), NEW i \in 1..Len(Env.syms), NEW v \in Value,
         fns' = [fns EXCEPT ![Len(fns)].syms[i].val = v]
  PROVE  Tables
<1>1. Env.syms \in Seq(SymRecord)
  BY LookupFacts
<1>2. fns' = [fns EXCEPT ![Len(fns)].syms = [Env.syms EXCEPT ![i].val = v]]
  BY DEF Env
<1>3. Restored([Env.syms EXCEPT ![i].val = v])
  BY <1>1, ValueStored, StoredScopes DEF Restored
<1> QED  BY <1>2, <1>3 DEF Tables

LEMMA LocalDeclTables ==
  ASSUME IInv, LocalDecl
  PROVE  Tables
<1> DEFINE s == Symbol(N.sym, Prim(Top.mod, Kid(1)), Top.mod, Top.node, Top.scope, Top.vals[1])
<1>1. /\ Running /\ ret = NoRet /\ N.type = "LOCALDECL" /\ Len(Top.vals) = Operands
  BY DEF LocalDecl, Ready
<1>2. s \in SymRecord
  <2>1. 1 \in 1..Len(Top.vals)
    BY <1>1, OperandFacts DEF OperandTypes
  <2>2. Top.vals[1] \in Value
    BY <1>1, <2>1, PlainFacts
  <2>3. Prim(Top.mod, Kid(1)) \in SymTypes
    BY <1>1, TypedKids DEF SymTypes
  <2>4. N.sym \in STRING /\ Top.mod \in Nat /\ Top.node \in Nat /\ Top.scope \in Nat
    BY <1>1, TopFacts DEF NodeRecord, FrameRecord
  <2> QED  BY <2>2, <2>3, <2>4 DEF Symbol, SymRecord
<1>3. ~InCallee(Top) /\ Env.scope = Top.scope
  <2>1. ~InCallee(Top) /\ OpenAt(Top.at) = 0 /\ Top.scope \in Nat
    BY <1>1, PlainFacts, TopFacts DEF FrameRecord
  <2> QED  BY <1>1, <2>1, ScopeOfTop
<1>4. s.scope = Env.scope /\ s.sym = N.sym /\ s.mod = Top.mod /\ s.node = Top.node
  BY <1>3 DEF Symbol
<1>5. fns' = [fns EXCEPT ![Len(fns)].syms = Append(Env.syms, s)]
  BY DEF LocalDecl, Env
<1> HIDE DEF s
<1>6. Declared(Append(Env.syms, s))
  BY <1>1, <1>2, <1>4 DEF Declared
<1> QED  BY <1>1, <1>3, <1>5, <1>6 DEF Tables

LEMMA ExpressionTables ==
  ASSUME IInv, Expression
  PROVE  Tables
<1>1. ASSUME UNCHANGED fns
      PROVE  Tables
  BY <1>1 DEF Tables
<1>2. CASE EvalOperand \/ Collect \/ Eatom \/ SysReject \/ SysCall \/ Eaccess \/ NegNot \/ Ecast
           \/ Eternary
  BY <1>1, <1>2 DEF EvalOperand, Collect, Eatom, SysReject, SysCall, Eaccess, NegNot, Ecast,
     Eternary, Yield, Undefined, Call, CallNode
<1>3. CASE Arithmetic \/ Eadd \/ Comparison \/ Logical
  BY <1>1, <1>3 DEF Arithmetic, Eadd, Comparison, Logical, Yield, MayTrap, Undefined
<1>4. CASE SysShell
  <2>1. Running /\ ret = NoRet /\ N.type = "ESYSTEM"
    BY <1>4 DEF SysShell, Ready
  <2>2. ~InCallee(Top) /\ StrVal(NewBlock) \in Value
    BY <2>1, PlainFacts, RetFacts, ValueFacts
  <2>3. ShellReady => ShellOut \in 1..Len(Env.syms)
    BY <2>1, LookupFacts DEF ShellReady, ShellOut
  <2>4. \/ UNCHANGED fns
        \/ ShellReady /\ fns' = [fns EXCEPT ![Len(fns)].syms[ShellOut].val = StrVal(NewBlock)]
    BY <1>4 DEF SysShell, Yield
  <2> QED  BY <1>1, <2>1, <2>2, <2>3, <2>4, StoreTables
<1>5. CASE Ecall
  BY <1>1, <1>5 DEF Ecall, Ready, Resuming, CallNode, Undefined, Tables
<1>6. CASE Assignment
  <2>1. Running /\ ret = NoRet /\ N.type \in Assigns /\ Len(Top.vals) = Operands
    BY <1>6 DEF Assignment, Ready
  <2>2. ~InCallee(Top) /\ StrVal(NewBlock) \in Value /\ Top.vals[1] \in Value
    <3>1. N.type \in OperandTypes /\ Operands = 1
      BY <2>1, OperandFacts DEF OperandTypes
    <3> QED  BY <2>1, <3>1, OperandVals, PlainFacts, RetFacts, ValueFacts
  <2>3. ASSUME NEW v \in Value, Store(v)
        PROVE  Tables
    <3>1. LocalIdx(Target) # 0 => LocalIdx(Target) \in 1..Len(Env.syms)
      BY <2>1, LookupFacts
    <3>2. \/ UNCHANGED fns
          \/ LocalIdx(Target) # 0 /\ fns' = [fns EXCEPT ![Len(fns)].syms[LocalIdx(Target)].val = v]
      BY <2>3 DEF Store
    <3> QED  BY <1>1, <2>1, <2>2, <2>3, <3>1, <3>2, StoreTables
  <2>4. InPlace => Tables
    <3>1. Val(Top.vals[1].type) \in Value
      BY <2>2, PlainValues DEF Value
    <3> QED  BY <1>1, <2>3, <3>1 DEF InPlace, Undefined
  <2>5. CASE Found(Target)
    BY <1>1, <1>6, <2>2, <2>3, <2>4, <2>5 DEF Assignment, Eassign, Eaddassign, ArithAssign, MayTrap,
       Undefined
  <2>6. CASE ~Found(Target)
    BY <1>1, <1>6, <2>6 DEF Assignment, Undefined
  <2> QED  BY <2>5, <2>6
<1> QED  BY <1>2, <1>3, <1>4, <1>5, <1>6 DEF Expression

LEMMA StepTables ==
  ASSUME IInv, [Next]_vars
  PROVE  Tables
<1>1. CASE Prologue
  BY <1>1 DEF Prologue, NextModule, GlobalSymtab, InitGlobal, GlobalsDone, EntryError, EnterEntry,
     Undefined, Tables
<1>2. CASE Statement
  BY <1>2, StatementTables, LocalDeclTables DEF Statement
<1>3. CASE Expression
  BY <1>3, ExpressionTables
<1>4. CASE Finish
  BY <1>4 DEF Finish, Tables
<1>5. CASE UNCHANGED vars
  BY <1>5 DEF vars, Tables
<1> QED  BY <1>1, <1>2, <1>3, <1>4, <1>5 DEF Next, Stopped

-----------------------------------------------------------------------------
(* Tables stay in order of their scopes. *)

InOrder(e) ==
  /\ \A i, j \in DOMAIN e.syms : i <= j => e.syms[i].scope <= e.syms[j].scope
  /\ \A i \in DOMAIN e.syms : e.syms[i].scope <= e.scope

\* The innermost environment is replaced.
LEMMA InnermostReplaced ==
  ASSUME IInv, Running, ScopesSorted, NEW e, InOrder(e), fns' = [fns EXCEPT ![Len(fns)] = e]
  PROVE  ScopesSorted'
<1>1. DOMAIN fns' = DOMAIN fns /\ Len(fns) \in DOMAIN fns
  BY TopFacts, Shapes
<1>2. \A d \in DOMAIN fns' : fns'[d] = IF d = Len(fns) THEN e ELSE fns[d]
  BY <1>1
<1>3. \A d \in DOMAIN fns : InOrder(fns[d])
  BY DEF ScopesSorted, InOrder
<1>4. \A d \in DOMAIN fns' : InOrder(fns'[d])
  BY <1>1, <1>2, <1>3
<1> QED  BY <1>4 DEF ScopesSorted, InOrder

LEMMA EnvFacts ==
  ASSUME IInv, Running
  PROVE  /\ Env \in EnvRecord /\ Env.scope \in Nat /\ Env.syms \in Seq(SymRecord)
         /\ Len(Env.syms) \in Nat /\ DOMAIN Env.syms = 1..Len(Env.syms)
         /\ \A i \in 1..Len(Env.syms) : Env.syms[i].scope \in Nat
         /\ ScopesSorted => InOrder(Env)
<1>1. Env \in EnvRecord /\ Env = fns[Len(fns)] /\ Len(fns) \in DOMAIN fns
  BY TopFacts, Shapes
<1>2. Env.scope \in Nat /\ Env.syms \in Seq(SymRecord)
  BY <1>1 DEF EnvRecord
<1>3. \A i \in 1..Len(Env.syms) : Env.syms[i].scope \in Nat
  <2> TAKE i \in 1..Len(Env.syms)
  <2>1. Env.syms[i] \in SymRecord
    BY <1>2
  <2> QED  BY <2>1 DEF SymRecord
<1>4. ScopesSorted => InOrder(Env)
  BY <1>1 DEF ScopesSorted, InOrder
<1> QED  BY <1>1, <1>2, <1>3, <1>4

LEMMA OpenedSorted ==
  ASSUME IInv, Running, ScopesSorted, fns' = Opened
  PROVE  ScopesSorted'
<1> DEFINE e == [Env EXCEPT !.scope = @ + 1]
<1>1. e.syms = Env.syms /\ e.scope = Env.scope + 1
  BY EnvFacts DEF EnvRecord
<1>2. fns' = [fns EXCEPT ![Len(fns)] = e]
  BY DEF Opened, Env
<1> HIDE DEF e
<1>3. InOrder(e)
  BY <1>1, EnvFacts DEF InOrder
<1> QED  BY <1>2, <1>3, InnermostReplaced

\* What ls_popsymscope leaves is of scopes that were open before.
LEMMA ClosedSorted ==
  ASSUME IInv, Running, ~InCallee(Top), OpenNow = 1, ScopesSorted, fns' = Closed
  PROVE  ScopesSorted'
<1> DEFINE e == [mod |-> Env.mod, scope |-> Env.scope - 1, syms |-> Prefix(Env.syms, KeptHere)]
<1>1. /\ KeptHere \in 0..Len(Env.syms)
      /\ KeptHere > 0 => Env.syms[KeptHere].scope < Env.scope
  BY EnvFacts, KeptIndex DEF KeptHere
<1>2. /\ DOMAIN e.syms = 1..KeptHere /\ e.scope = Env.scope - 1
      /\ \A i \in 1..KeptHere : e.syms[i] = Env.syms[i] /\ i \in 1..Len(Env.syms)
  BY <1>1, EnvFacts DEF Prefix
<1>3. fns' = [fns EXCEPT ![Len(fns)] = e]
  BY DEF Closed
<1> HIDE DEF e
<1>4. \A i, j \in 1..KeptHere : i <= j => e.syms[i].scope <= e.syms[j].scope
  BY <1>2, EnvFacts DEF InOrder
<1>5. \A i \in 1..KeptHere : e.syms[i].scope <= e.scope
  <2> TAKE i \in 1..KeptHere
  <2>1. KeptHere \in 1..Len(Env.syms) /\ i <= KeptHere /\ KeptHere > 0 /\ i \in 1..Len(Env.syms)
    BY <1>1, <1>2, EnvFacts
  <2>2. Env.syms[i].scope <= Env.syms[KeptHere].scope
    BY <2>1, EnvFacts DEF InOrder
  <2>3. Env.syms[i].scope \in Nat /\ Env.syms[KeptHere].scope \in Nat /\ Env.scope \in Nat
    BY <2>1, EnvFacts
  <2>4. Env.syms[i].scope <= Env.scope - 1
    BY <1>1, <2>1, <2>2, <2>3
  <2> QED  BY <1>2, <2>4
<1>6. InOrder(e)
  BY <1>2, <1>4, <1>5 DEF InOrder
<1> QED  BY <1>3, <1>6, InnermostReplaced

LEMMA RestoredSorted ==
  ASSUME IInv, Running, ScopesSorted, NEW st, Restored(st) \/ Declared(st),
         fns' = [fns EXCEPT ![Len(fns)].syms = st]
  PROVE  ScopesSorted'
<1> DEFINE e == [Env EXCEPT !.syms = st]
<1>1. e.syms = st /\ e.scope = Env.scope
  BY EnvFacts DEF EnvRecord
<1>2. fns' = [fns EXCEPT ![Len(fns)] = e]
  BY DEF Env
<1> HIDE DEF e
<1>3. CASE Restored(st)
  <2>1. DOMAIN st = 1..Len(Env.syms)
    BY <1>3 DEF Restored
  <2>2. InOrder(e)
    BY <1>1, <1>3, <2>1, EnvFacts DEF InOrder, Restored
  <2> QED  BY <1>2, <2>2, InnermostReplaced
<1>4. CASE Declared(st)
  <2>1. PICK s \in SymRecord : s.scope = Env.scope /\ st = Append(Env.syms, s)
    BY <1>4 DEF Declared
  <2> DEFINE n == Len(Env.syms)
  <2>2. /\ n \in Nat /\ DOMAIN st = 1..(n + 1) /\ st[n + 1] = s
        /\ \A i \in 1..n : st[i] = Env.syms[i]
    BY <2>1, EnvFacts, AppendProperties
  <2>3. \A i \in 1..(n + 1) : i \in 1..n \/ i = n + 1
    BY <2>2
  <2>4. \A i \in 1..n : Env.syms[i].scope <= Env.scope /\ Env.syms[i].scope \in Nat
    BY EnvFacts DEF InOrder
  <2>5. \A i, j \in 1..n : i <= j => Env.syms[i].scope <= Env.syms[j].scope
    BY EnvFacts DEF InOrder
  <2> HIDE DEF n
  <2>6. \A i \in 1..(n + 1) : st[i].scope <= Env.scope
    BY <2>1, <2>2, <2>3, <2>4, EnvFacts
  <2>7. \A i, j \in 1..(n + 1) : i <= j => st[i].scope <= st[j].scope
    <3> SUFFICES ASSUME NEW i \in 1..(n + 1), NEW j \in 1..(n + 1), i <= j
                 PROVE  st[i].scope <= st[j].scope
      OBVIOUS
    <3>1. CASE j = n + 1
      BY <3>1, <2>1, <2>2, <2>6
    <3>2. CASE j # n + 1
      <4>1. i \in 1..n /\ j \in 1..n
        BY <3>2, <2>2
      <4> QED  BY <4>1, <2>2, <2>5
    <3> QED  BY <3>1, <3>2
  <2>8. InOrder(e)
    BY <1>1, <2>2, <2>6, <2>7 DEF InOrder
  <2> QED  BY <1>2, <2>8, InnermostReplaced
<1> QED  BY <1>3, <1>4

\* The parameters of a call are of scope 0.
LEMMA CalleeSorted ==
  ASSUME IInv, Running, ScopesSorted, ret = NoRet, N.type = "ECALL", CalleeOk(Top),
         fns' = Append(fns, CalleeEnv)
  PROVE  ScopesSorted'
<1>1. /\ fns \in Seq(EnvRecord) /\ Len(fns) \in Nat /\ DOMAIN fns = 1..Len(fns)
  BY Shapes DEF IInv, TypeOK
<1>2. /\ CalleeEnv.syms = Params /\ CalleeEnv.scope = 0
      /\ \A i \in DOMAIN Params : Params[i].scope = 0
  BY DEF CalleeEnv, Params, Symbol
<1>3. InOrder(CalleeEnv)
  BY <1>2 DEF InOrder
<1>4. DOMAIN fns' = 1..(Len(fns) + 1)
  BY <1>1
<1>5. \A d \in 1..(Len(fns) + 1) : fns'[d] = IF d = Len(fns) + 1 THEN CalleeEnv ELSE fns[d]
  BY <1>1
<1>6. \A d \in 1..(Len(fns) + 1) : d = Len(fns) + 1 \/ d \in DOMAIN fns
  BY <1>1
<1>7. \A d \in DOMAIN fns : InOrder(fns[d])
  BY DEF ScopesSorted, InOrder
<1>8. \A d \in DOMAIN fns' : InOrder(fns'[d])
  BY <1>3, <1>4, <1>5, <1>6, <1>7
<1> QED  BY <1>8 DEF ScopesSorted, InOrder

LEMMA SortedKeeps ==
  ASSUME IInv, ScopesSorted, Tables
  PROVE  ScopesSorted'
<1>1. CASE fns' = fns
  BY <1>1 DEF ScopesSorted
<1>2. CASE fns' = <<>> \/ fns' = <<[mod |-> EntryDecl.mod, scope |-> 0, syms |-> <<>>]>>
  BY <1>2 DEF ScopesSorted
<1>3. CASE Running /\ fns' = SubSeq(fns, 1, Len(fns) - 1)
  <2>1. /\ fns \in Seq(EnvRecord) /\ Len(fns) \in Nat /\ DOMAIN fns = 1..Len(fns)
    BY Shapes DEF IInv, TypeOK
  <2>2. \A d \in DOMAIN fns' : d \in DOMAIN fns /\ fns'[d] = fns[d]
    BY <1>3, <2>1
  <2> QED  BY <2>2 DEF ScopesSorted
<1> QED  BY <1>1, <1>2, <1>3, OpenedSorted, ClosedSorted, RestoredSorted, CalleeSorted DEF Tables

\* Whatever way a program leaves its scopes, the tables of its environments are in
\* the order of their scopes and hold no symbol of a scope that has been closed: what
\* ls_popsymscope, which stops at the first older symbol, takes for granted.
THEOREM TablesSorted == Spec => []ScopesSorted
<1>1. Init => ScopesSorted
  BY DEF Init, ScopesSorted
<1>2. IInv /\ ScopesSorted /\ [Next]_vars => ScopesSorted'
  BY StepTables, SortedKeeps
<1> QED  BY InitIInv, NextIInv, <1>1, <1>2, PTL DEF Spec

-----------------------------------------------------------------------------
(* How a step changes the stack of handlers. *)

Carriers == {"CTREE", "WHILE", "FOR", "BLOCK"}
Jumps == {"stop", "next"}

\* The handler that f called, and the node it runs.
CalledMod(f) == IF InCallee(f) THEN Callee(f).mod ELSE f.mod
Called(f) ==
  IF InCallee(f) THEN Callee(f).node ELSE Node(f.mod, f.node).kids[f.at]
\* The type of the node that gave ret back.
GivenBy == IF cstk = <<>> THEN "FUNCDECL" ELSE Node(CalledMod(Top), Called(Top)).type

\* A return is on its way from a RETURN, a break or a continue from its statement:
\* only statements that can hold one hand it on.
Given ==
  /\ ret.act = "running" => ret = NoRet
  /\ ret.act = "return" => ret.val \in Value /\ GivenBy \in Carriers \union {"RETURN"}
  /\ ret.act \in Jumps =>
       ret.val = Unwritten /\ GivenBy \in {"BREAK", "CONTINUE", "CTREE", "BLOCK"}

\* All handlers but the innermost stay as they are.
SameBelow == \A i \in 1..(Len(cstk) - 1) : cstk'[i] = cstk[i]
\* Top stays where it is, at its k-th call.
TopAt(k) ==
  LET f == cstk'[Len(cstk)]
  IN f.fn = Top.fn /\ f.mod = Top.mod /\ f.scope = Top.scope /\ f.node = Top.node /\ f.at = k

\* Top calls the handler of a node, in the environments up to the fn-th.
Grown(k, fn, m, n) ==
  /\ DOMAIN cstk' = 1..(Len(cstk) + 1) /\ Len(cstk') = Len(cstk) + 1 /\ SameBelow /\ TopAt(k)
  /\ LET f == cstk'[Len(cstk) + 1] IN f.fn = fn /\ f.mod = m /\ f.node = n /\ f.at = 0
  /\ ret' = NoRet

Calls == ~InCallee(Top) /\ \E k \in 1..Arity : Grown(k, Top.fn, Top.mod, Kid(k))
Invokes ==
  /\ ret = NoRet /\ N.type = "ECALL" /\ CalleeOk(Top)
  /\ Grown(Arity + 1, Top.fn + 1, Callee(Top).mod, Callee(Top).node)
Gathers ==
  /\ N.type \in OperandTypes /\ ~InCallee(Top)
  /\ DOMAIN cstk' = 1..Len(cstk) /\ SameBelow /\ TopAt(Top.at)
  /\ ret' = NoRet
\* A return starts at RETURN and a jump at BREAK or CONTINUE, and statements hand them on.
Returns ==
  /\ cstk' = SubSeq(cstk, 1, Len(cstk) - 1)
  /\ ret'.act # "running"
  /\ ret'.act = "return" =>
       \/ N.type = "RETURN" /\ ret'.val \in Value
       \/ N.type \in Carriers /\ ret.act = "return" /\ ret'.val \in {ret.val, Slot(ret.val)}
  /\ ret'.act \in Jumps =>
       \/ N.type \in {"BREAK", "CONTINUE"} /\ ret'.val = Unwritten
       \/ N.type \in {"CTREE", "BLOCK"} /\ ret.act \in Jumps /\ ret'.val \in {ret.val, Unwritten}

Moves ==
  /\ Running /\ GlobalsKept /\ UNCHANGED <<prog, phase>>
  /\ UNCHANGED <<cstk, ret>> \/ Calls \/ Invokes \/ Gathers \/ Returns

LEMMA FrameType ==
  ASSUME NEW env \in Seq(EnvRecord), env # <<>>, NEW n \in Nat
  PROVE  /\ Frame(env, n) \in FrameRecord
         /\ Frame(env, n).fn = Len(env) /\ Frame(env, n).mod = env[Len(env)].mod
         /\ Frame(env, n).node = n /\ Frame(env, n).at = 0
<1>1. env[Len(env)] \in EnvRecord /\ Len(env) \in Nat /\ <<>> \in Seq(Value)
  OBVIOUS
<1> QED  BY <1>1 DEF Frame, EnvRecord, FrameRecord

LEMMA CallMoves ==
  ASSUME IInv, Running, ~InCallee(Top), Intact,
         NEW env \in {fns, Opened}, NEW k \in 1..Arity, NEW vals \in Seq(Value),
         CallNode(env, k, Kid(k), vals)
  PROVE  Moves
<1>1. EnvsKept(env) /\ Top.fn \in Nat /\ Top.fn > 0 /\ Kid(k) \in Nat /\ k \in Nat
      /\ Top.mod = fns[Top.fn].mod
  BY OpenedFacts, TopFacts
<1>2. env \in Seq(EnvRecord) /\ Len(env) = Top.fn /\ env # <<>> /\ env[Len(env)].mod = Top.mod
  <2>1. env[Top.fn].mod = fns[Top.fn].mod
    BY <1>1 DEF EnvsKept
  <2> QED  BY <1>1, <2>1 DEF EnvsKept
<1>3. /\ Frame(env, Kid(k)) \in FrameRecord /\ Frame(env, Kid(k)).fn = Top.fn
      /\ Frame(env, Kid(k)).mod = Top.mod
      /\ Frame(env, Kid(k)).node = Kid(k) /\ Frame(env, Kid(k)).at = 0
  BY <1>1, <1>2, FrameType
<1>4. Grown(k, Top.fn, Top.mod, Kid(k))
  BY <1>1, <1>3, CallStack DEF Grown, SameBelow, TopAt
<1>5. GlobalsKept /\ UNCHANGED <<prog, phase>>
  BY IntactKept
<1> QED  BY <1>4, <1>5 DEF Moves, Calls

LEMMA InvokeMoves ==
  ASSUME IInv, Running, ret = NoRet, N.type = "ECALL", CalleeOk(Top), Intact,
         CallNode(Append(fns, CalleeEnv), Arity + 1, Callee(Top).node, <<>>)
  PROVE  Moves
<1> DEFINE env == Append(fns, CalleeEnv)
           n == Callee(Top).node
<1>1. /\ fns \in Seq(EnvRecord) /\ Len(fns) \in Nat /\ Len(fns) = Top.fn /\ Arity + 1 \in Nat
  BY ScopeOfTop, PlainFacts, TopFacts DEF IInv, TypeOK
<1>2. /\ Callee(Top).mod \in Nat /\ Callee(Top).mod \in DOMAIN prog
      /\ n \in DOMAIN prog[Callee(Top).mod]
  BY CalleeFacts
<1>3. n \in Nat
  BY <1>2, NodeFacts DEF IInv, TypeOK
<1>4. CalleeEnv \in EnvRecord /\ CalleeEnv.mod = Callee(Top).mod
  BY <1>2, ParamsFacts DEF CalleeEnv, EnvRecord
<1>5. /\ env \in Seq(EnvRecord) /\ Len(env) = Top.fn + 1 /\ env # <<>>
      /\ env[Len(env)].mod = Callee(Top).mod
  BY <1>1, <1>4, AppendProperties
<1>6. CallNode(env, Arity + 1, n, <<>>) /\ <<>> \in Seq(Value)
  OBVIOUS
<1> HIDE DEF env, n
<1>7. /\ Frame(env, n) \in FrameRecord /\ Frame(env, n).fn = Top.fn + 1
      /\ Frame(env, n).mod = Callee(Top).mod /\ Frame(env, n).node = n /\ Frame(env, n).at = 0
  BY <1>3, <1>5, FrameType
<1>8. Grown(Arity + 1, Top.fn + 1, Callee(Top).mod, n)
  BY <1>1, <1>6, <1>7, CallStack DEF Grown, SameBelow, TopAt
<1>9. GlobalsKept /\ UNCHANGED <<prog, phase>>
  BY IntactKept
<1> QED  BY <1>8, <1>9 DEF Moves, Invokes, n

LEMMA LeaveMoves ==
  ASSUME IInv, Running, GlobalsKept, UNCHANGED <<prog, phase>>,
         NEW act \in {"none", "return", "stop", "next"}, NEW val, Leave(act, val),
         act = "return" =>
           \/ N.type = "RETURN" /\ val \in Value
           \/ N.type \in Carriers /\ ret.act = "return" /\ val \in {ret.val, Slot(ret.val)},
         act \in Jumps =>
           \/ N.type \in {"BREAK", "CONTINUE"} /\ val = Unwritten
           \/ N.type \in {"CTREE", "BLOCK"} /\ ret.act \in Jumps /\ val \in {ret.val, Unwritten}
  PROVE  Moves
<1>1. ret'.act = act /\ ret'.val = val /\ cstk' = SubSeq(cstk, 1, Len(cstk) - 1)
  BY DEF Leave, Ret
<1>2. Returns
  BY <1>1 DEF Returns
<1> QED  BY <1>2 DEF Moves

LEMMA StatementMoves ==
  ASSUME IInv, Given, Statement
  PROVE  Moves
<1>1. /\ ret.act \in Actions /\ (ret # NoRet => ret.act \in {"none", "return", "stop", "next"})
      /\ <<>> \in Seq(Value) /\ Slot(ret.val) \in Value
      /\ "return" \notin Jumps /\ "none" \notin Jumps
  BY RetFacts, ValueFacts DEF Given, Actions, Jumps
<1>2. Intact => GlobalsKept /\ UNCHANGED <<prog, phase>>
  BY IntactKept
<1>3. ASSUME Running, ~InCallee(Top), Intact, NEW env \in {fns, Opened}, NEW k \in 1..Arity,
             CallNode(env, k, Kid(k), <<>>)
      PROVE  Moves
  BY <1>1, <1>3, CallMoves
<1>4. CASE FuncDecl
  <2>1. Running /\ N.type = "FUNCDECL" /\ ~InCallee(Top) /\ Intact
    BY <1>4, ScopeOfTop DEF FuncDecl, Starting, Resuming, Running
  <2>2. CASE Call(fns, 3)
    <3>1. 3 \in 1..Arity
      BY <2>1, KidCounts
    <3> QED  BY <2>1, <2>2, <3>1, <1>3 DEF Call
  <2>3. ASSUME NEW v, Leave("none", v)
        PROVE  Moves
    BY <2>1, <2>3, <1>1, <1>2, LeaveMoves
  <2> QED  BY <1>4, <2>2, <2>3 DEF FuncDecl
<1>5. CASE LocalDecl
  BY <1>1, <1>2, <1>5, LeaveMoves DEF LocalDecl, Ready
<1>6. CASE Return
  <2>1. Running /\ ret = NoRet /\ N.type = "RETURN" /\ Len(Top.vals) = Operands
    BY <1>6 DEF Return, Ready
  <2>2. (IF Arity = 0 THEN Val("void") ELSE Top.vals[1]) \in Value
    <3>1. Arity # 0 => 1 \in 1..Len(Top.vals)
      BY <2>1, OperandFacts DEF OperandTypes
    <3>2. Val("void") \in Value
      BY <2>1, RetFacts, ValueFacts DEF ValTypes, PrimTypes
    <3> QED  BY <2>1, <3>1, <3>2, PlainFacts
  <2> QED  BY <1>1, <1>2, <1>6, <2>1, <2>2, LeaveMoves DEF Return
<1>7. CASE Ctree
  <2>1. Running /\ N.type = "CTREE" /\ ~InCallee(Top) /\ Intact /\ Arity \in {2, 3}
    BY <1>7, ScopeOfTop, KidCounts DEF Ctree, Starting, Resuming, Running
  <2>2. 1 \in 1..Arity /\ 2 \in 1..Arity /\ (Arity = 3 => 3 \in 1..Arity)
    BY <2>1
  <2>3. CASE Leave("none", Unwritten)
    BY <2>1, <2>3, <1>1, <1>2, LeaveMoves
  <2>4. CASE Resuming({"CTREE"}) /\ Leave(ret.act, ret.val)
    <3>1. ret.act \in {"none", "return", "stop", "next"} /\ N.type \in Carriers
      BY <1>1, <2>1, <2>4 DEF Resuming, Carriers
    <3> QED  BY <2>1, <2>4, <3>1, <1>2, LeaveMoves
  <2>5. CASE Call(fns, 1) \/ Call(Opened, 2) \/ (Arity = 3 /\ Call(Opened, 3))
    BY <2>1, <2>2, <2>5, <1>3 DEF Call
  <2> QED  BY <1>7, <2>3, <2>4, <2>5 DEF Ctree
<1>8. CASE While
  <2>1. /\ Running /\ N.type = "WHILE" /\ ~InCallee(Top) /\ Arity = 2 /\ N.type \in Carriers
        /\ 1 \in 1..Arity /\ 2 \in 1..Arity
    BY <1>8, ScopeOfTop, KidCounts DEF While, Starting, Resuming, Running, Carriers
  <2>2. ASSUME Intact, NEW env \in {fns, Opened}, NEW k \in {1, 2}, Call(env, k)
        PROVE  Moves
    BY <2>1, <2>2, <1>3 DEF Call
  <2>3. ASSUME NEW vs, LeaveScope("none", Unwritten, vs)
        PROVE  Moves
    BY <2>1, <2>3, <1>1, <1>2, LeaveMoves DEF LeaveScope
  <2>4. CASE ret.act = "return" /\ LeaveScope("return", Slot(ret.val), <<>>)
    BY <2>1, <2>4, <1>1, <1>2, LeaveMoves DEF LeaveScope
  <2> QED  BY <1>8, <2>2, <2>3, <2>4 DEF While
<1>9. CASE For
  <2>1. /\ Running /\ N.type = "FOR" /\ ~InCallee(Top) /\ Arity = 4 /\ N.type \in Carriers
        /\ \A k \in {1, 2, 3, 4} : k \in 1..Arity
    BY <1>9, ScopeOfTop, KidCounts DEF For, Starting, Resuming, Running, Carriers
  <2>2. ASSUME Intact, NEW env \in {fns, Opened}, NEW k \in {1, 2, 3, 4}, Call(env, k)
        PROVE  Moves
    BY <2>1, <2>2, <1>3 DEF Call
  <2>3. ASSUME NEW vs, LeaveScope("none", Unwritten, vs)
        PROVE  Moves
    BY <2>1, <2>3, <1>1, <1>2, LeaveMoves DEF LeaveScope
  <2>4. CASE ret.act = "return" /\ LeaveScope("return", Slot(ret.val), <<>>)
    BY <2>1, <2>4, <1>1, <1>2, LeaveMoves DEF LeaveScope
  <2>5. CASE CallNode(fns, 3, Kid(3), <<Slot(ret.val)>>) /\ Intact
    <3>1. <<Slot(ret.val)>> \in Seq(Value)
      BY <1>1
    <3> QED  BY <2>1, <2>5, <3>1, CallMoves
  <2> QED  BY <1>9, <2>2, <2>3, <2>4, <2>5 DEF For
<1>10. CASE Break \/ Continue
  <2>1. Running /\ Intact /\ N.type \in {"BREAK", "CONTINUE"}
        /\ (Leave("stop", Unwritten) \/ Leave("next", Unwritten))
    BY <1>10 DEF Break, Continue, Starting
  <2> QED  BY <2>1, <1>2, LeaveMoves
<1>11. CASE Block
  <2>1. Running /\ N.type = "BLOCK" /\ ~InCallee(Top) /\ Arity \in Nat /\ Top.at \in Nat
        /\ N.type \in Carriers
    BY <1>11, ScopeOfTop, TopFacts DEF Block, Starting, Resuming, Running, FrameRecord, Carriers
  <2>2. CASE Intact /\ (Leave("none", Unwritten) \/ (Arity > 0 /\ Call(Opened, 1)))
    <3>1. Arity > 0 => 1 \in 1..Arity
      BY <2>1
    <3> QED  BY <2>1, <2>2, <3>1, <1>1, <1>2, <1>3, LeaveMoves DEF Call
  <2>3. CASE \/ ret.act = "return" /\ LeaveScope("return", Slot(ret.val), <<>>)
             \/ LeaveScope("none", Unwritten, <<Slot(ret.val)>>)
    BY <2>1, <2>3, <1>1, <1>2, LeaveMoves DEF LeaveScope
  <2>4. CASE ret.act \in {"next", "stop"} /\ LeaveScope(ret.act, Unwritten, <<Slot(ret.val)>>)
    BY <2>1, <2>4, <1>2, LeaveMoves DEF LeaveScope, Jumps
  <2>5. CASE Top.at < Arity /\ Call(fns, Top.at + 1) /\ Intact
    <3>1. Top.at + 1 \in 1..Arity
      BY <2>1, <2>5
    <3> QED  BY <2>1, <2>5, <3>1, <1>3 DEF Call
  <2> QED  BY <1>11, <2>2, <2>3, <2>4, <2>5 DEF Block, Starting
<1> QED  BY <1>4, <1>5, <1>6, <1>7, <1>8, <1>9, <1>10, <1>11 DEF Statement

LEMMA UndefinedMoves ==
  ASSUME IInv, Running, NEW kind, Undefined(kind)
  PROVE  Moves
BY DEF Undefined, Moves, GlobalsKept, IInv, TypeOK

\* An expression gives back a value and no action.
LEMMA ValueMoves ==
  ASSUME IInv, Running, GlobalsKept, UNCHANGED <<prog, phase>>, NEW val, Leave("none", val)
  PROVE  Moves
BY LeaveMoves DEF Jumps

LEMMA YieldMoves ==
  ASSUME IInv, Running, NEW made, NEW vs, Yield(made, vs)
  PROVE  Moves
BY ValueMoves, IntactKept DEF Yield

LEMMA CollectMoves ==
  ASSUME IInv, Collect
  PROVE  Moves
<1>n. PICK n \in Nat : n = Len(cstk)
  BY TopFacts DEF Collect, Resuming
<1> DEFINE f == [Top EXCEPT !.vals = Append(Top.vals, Slot(ret.val))]
<1>1. /\ Running /\ N.type \in OperandTypes /\ Top.at <= Arity /\ ret' = NoRet /\ Intact
      /\ cstk' = [cstk EXCEPT ![n].vals = Append(@, Slot(ret.val))]
  BY <1>n DEF Collect, Resuming
<1>2. /\ n \in Nat /\ n \in 1..n /\ DOMAIN cstk = 1..n /\ Top = cstk[n] /\ Top \in FrameRecord
      /\ Top.at \in Nat /\ Arity \in Nat
  BY <1>n, <1>1, TopFacts, Shapes DEF Top, FrameRecord
<1>3. f.fn = Top.fn /\ f.mod = Top.mod /\ f.scope = Top.scope /\ f.node = Top.node /\ f.at = Top.at
  BY <1>2 DEF FrameRecord
<1>4. cstk' = [cstk EXCEPT ![n] = f]
  BY <1>1, <1>2
<1>5. ~InCallee(Top)
  BY <1>1, <1>2 DEF InCallee, Arity, N
<1> HIDE DEF f
<1>6. DOMAIN cstk' = 1..n /\ cstk'[n] = f /\ \A i \in 1..(n - 1) : cstk'[i] = cstk[i]
  <2>1. \A i \in 1..(n - 1) : i \in DOMAIN cstk /\ i # n
    BY <1>2
  <2> QED  BY <1>2, <1>4, <2>1
<1>7. Gathers
  BY <1>n, <1>1, <1>3, <1>5, <1>6 DEF Gathers, SameBelow, TopAt
<1> QED  BY <1>1, <1>7, IntactKept DEF Moves

LEMMA StoreMoves ==
  ASSUME IInv, Ready(Assigns), Found(Target), NEW v \in Value, Store(v)
  PROVE  Moves
<1>1. Running /\ Leave("none", Unwritten) /\ UNCHANGED <<prog, phase>>
  BY DEF Ready, Store
<1>2. GlobalsKept
  <2>1. CASE LocalIdx(Target) # 0
    BY <2>1 DEF Store, GlobalsKept, IInv, TypeOK
  <2>2. CASE LocalIdx(Target) = 0
    <3>1. GlobalIdx(Target) \in 1..Len(globals) /\ globals \in Seq(SymRecord)
      BY <1>1, <2>2, LookupFacts DEF Found, IInv, TypeOK
    <3>2. globals' = [globals EXCEPT ![GlobalIdx(Target)].val = v]
      BY <2>2 DEF Store
    <3> QED  BY <3>1, <3>2, ValueStored DEF GlobalsKept
  <2> QED  BY <2>1, <2>2
<1> QED  BY <1>1, <1>2, ValueMoves

LEMMA ExpressionMoves ==
  ASSUME IInv, Given, Expression
  PROVE  Moves
<1>1. CASE EvalOperand
  <2> DEFINE k == FirstOperand + Len(Top.vals)
  <2>1. /\ Running /\ ret = NoRet /\ N.type \in OperandTypes /\ Len(Top.vals) < Operands
        /\ CallNode(fns, k, Kid(k), Top.vals) /\ Intact
    BY <1>1 DEF EvalOperand
  <2>2. ~InCallee(Top) /\ Top.vals \in Seq(Value)
    BY <2>1, PlainFacts DEF OperandTypes, Assigns, Binaries, Arithmetics, Comparisons, Logicals
  <2>3. k \in 1..Arity
    BY <2>1, <2>2, OperandFacts, TopFacts DEF Operands
  <2> HIDE DEF k
  <2> QED  BY <2>1, <2>2, <2>3, CallMoves
<1>2. CASE Collect
  BY <1>2, CollectMoves
<1>3. CASE Eatom
  BY <1>3, YieldMoves, UndefinedMoves DEF Eatom, Starting
<1>4. CASE SysReject \/ SysCall \/ Eaccess \/ Ecast
  BY <1>4, YieldMoves, UndefinedMoves DEF SysReject, SysCall, Eaccess, Ecast, Ready
<1>5. CASE SysShell
  BY <1>5, YieldMoves, ValueMoves, IntactKept DEF SysShell, Ready
<1>6. CASE NegNot
  <2>1. CASE Leave("none", Val(Top.vals[1].type)) /\ Intact
    BY <1>6, <2>1, ValueMoves, IntactKept DEF NegNot, Ready
  <2>2. CASE Undefined("bad operand")
    BY <1>6, <2>2, UndefinedMoves DEF NegNot, Ready
  <2> QED  BY <1>6, <2>1, <2>2 DEF NegNot
<1>7. CASE Arithmetic \/ Eadd \/ Comparison \/ Logical
  BY <1>7, YieldMoves, UndefinedMoves DEF Arithmetic, Eadd, Comparison, Logical, MayTrap, Ready
<1>8. CASE Eternary
  <2>1. Running /\ N.type = "ETERNARY" /\ ~InCallee(Top) /\ Arity = 3 /\ Intact
        /\ <<>> \in Seq(Value)
    BY <1>8, ScopeOfTop, KidCounts DEF Eternary, Starting, Resuming, Running
  <2>2. ASSUME NEW k \in {1, 2, 3}, Call(fns, k)
        PROVE  Moves
    <3>1. k \in 1..Arity
      BY <2>1
    <3> QED  BY <2>1, <2>2, <3>1, CallMoves DEF Call
  <2>3. CASE Leave("none", ret.val)
    BY <2>1, <2>3, ValueMoves, IntactKept
  <2> QED  BY <1>8, <2>2, <2>3 DEF Eternary
<1>9. CASE Ecall
  BY <1>9, InvokeMoves, ValueMoves, IntactKept, UndefinedMoves DEF Ecall, Ready, Resuming
<1>10. CASE Assignment
  <2>1. Ready(Assigns) /\ Running /\ ret = NoRet /\ N.type \in Assigns /\ Len(Top.vals) = Operands
    BY <1>10 DEF Assignment, Ready
  <2>2. StrVal(NewBlock) \in Value /\ Top.vals[1] \in Value
    <3>1. N.type \in OperandTypes /\ Operands = 1
      BY <2>1, OperandFacts DEF OperandTypes
    <3> QED  BY <2>1, <3>1, OperandVals, RetFacts, ValueFacts
  <2>3. InPlace /\ Found(Target) => Moves
    <3>1. Val(Top.vals[1].type) \in Value
      BY <2>2, PlainValues DEF Value
    <3> QED  BY <2>1, <3>1, StoreMoves, UndefinedMoves DEF InPlace
  <2>4. CASE Found(Target)
    BY <1>10, <2>1, <2>2, <2>3, <2>4, StoreMoves, UndefinedMoves
    DEF Assignment, Eassign, Eaddassign, ArithAssign, MayTrap
  <2>5. CASE ~Found(Target)
    BY <1>10, <2>1, <2>5, UndefinedMoves DEF Assignment
  <2> QED  BY <2>4, <2>5
<1> QED  BY <1>1, <1>2, <1>3, <1>4, <1>5, <1>6, <1>7, <1>8, <1>9, <1>10 DEF Expression

\* A step is one of a handler, or there is none.
LEMMA StepMoves ==
  ASSUME IInv, Given, [Next]_vars
  PROVE  \/ Moves
         \/ cstk = <<>> /\ cstk' = <<>> /\ ret' = NoRet
         \/ EnterEntry
         \/ UNCHANGED vars
<1>1. CASE Prologue
  <2>1. phase # "run"
    BY <1>1 DEF Prologue, NextModule, GlobalSymtab, InitGlobal, GlobalsDone, EntryError, EnterEntry,
       Walking
  <2>2. cstk = <<>> /\ ret = NoRet
    BY <2>1 DEF IInv, Suspended
  <2> QED  BY <1>1, <2>2 DEF Prologue, NextModule, GlobalSymtab, InitGlobal, GlobalsDone, EntryError,
           Undefined
<1>2. CASE Statement
  BY <1>2, StatementMoves
<1>3. CASE Expression
  BY <1>3, ExpressionMoves
<1>4. CASE Finish
  BY <1>4 DEF Finish
<1> QED  BY <1>1, <1>2, <1>3, <1>4 DEF Next, Stopped

-----------------------------------------------------------------------------
(* Each handler was called by the one below it. *)

\* The handler that f called is there to be called.
Goes(f) ==
  IF InCallee(f) THEN CalleeOk(f) ELSE f.at \in 1..Len(Node(f.mod, f.node).kids)

\* A handler runs the child its caller is at, or the function its caller calls.
Linked ==
  /\ cstk # <<>> => cstk[1].fn = 1 /\ Node(cstk[1].mod, cstk[1].node).type = "FUNCDECL"
  /\ \A i \in DOMAIN cstk : i < Len(cstk) \/ ret # NoRet => Goes(cstk[i])
  /\ \A i \in DOMAIN cstk : i < Len(cstk) =>
       cstk[i + 1].mod = CalledMod(cstk[i]) /\ cstk[i + 1].node = Called(cstk[i])

\* The function a call names stays what it is while values change.
LEMMA CalleeKept ==
  ASSUME IInv, GlobalsKept, UNCHANGED prog, NEW i \in DOMAIN cstk,
         cstk'[i].mod = cstk[i].mod, cstk'[i].node = cstk[i].node
  PROVE  /\ CalleeOk(cstk[i])' <=> CalleeOk(cstk[i])
         /\ CalleeOk(cstk[i]) =>
              /\ Callee(cstk[i])'.mod = Callee(cstk[i]).mod
              /\ Callee(cstk[i])'.node = Callee(cstk[i]).node
              /\ Callee(cstk[i])'.sym = Callee(cstk[i]).sym
<1> DEFINE s == prog[cstk[i].mod][prog[cstk[i].mod][cstk[i].node].kids[1]].sym
<1>1. globals \in Seq(SymRecord) /\ globals' \in Seq(SymRecord) /\ Len(globals') = Len(globals)
  BY DEF IInv, TypeOK, GlobalsKept
<1> HIDE DEF s
<1>2. FindSym(globals', s) = FindSym(globals, s)
  <2>1. /\ Len(globals) \in Nat /\ DOMAIN globals = 1..Len(globals)
        /\ DOMAIN globals' = 1..Len(globals)
    BY <1>1
  <2>2. \A j \in 1..Len(globals) : globals'[j].sym = globals[j].sym
    BY DEF GlobalsKept
  <2> QED  BY <2>1, <2>2, FindSymSame
<1>3. FindSym(globals, s) # 0 => FindSym(globals, s) \in 1..Len(globals)
  BY <1>1, FindSymIndex
<1>4. CalleeIdx(cstk[i])' = CalleeIdx(cstk[i])
  BY <1>2 DEF CalleeIdx, GlobalIdx, Node, s
<1>5. CalleeIdx(cstk[i]) # 0 => CalleeIdx(cstk[i]) \in 1..Len(globals)
  BY <1>3 DEF CalleeIdx, GlobalIdx, Node, s
<1>6. CalleeIdx(cstk[i]) # 0 =>
        /\ Callee(cstk[i])'.type = Callee(cstk[i]).type
        /\ Callee(cstk[i])'.mod = Callee(cstk[i]).mod
        /\ Callee(cstk[i])'.node = Callee(cstk[i]).node
        /\ Callee(cstk[i])'.sym = Callee(cstk[i]).sym
  BY <1>4, <1>5 DEF Callee, GlobalsKept
<1> QED  BY <1>4, <1>6 DEF CalleeOk

\* A handler that stays where it is has called the same handler.
LEMMA CalledKept ==
  ASSUME IInv, GlobalsKept, UNCHANGED prog, NEW i \in DOMAIN cstk,
         cstk'[i].mod = cstk[i].mod, cstk'[i].node = cstk[i].node, cstk'[i].at = cstk[i].at
  PROVE  /\ InCallee(cstk[i])' <=> InCallee(cstk[i])
         /\ Goes(cstk[i])' <=> Goes(cstk[i])
         /\ Goes(cstk[i]) => /\ CalledMod(cstk[i])' = CalledMod(cstk[i])
                             /\ Called(cstk[i])' = Called(cstk[i])
<1>1. InCallee(cstk[i])' <=> InCallee(cstk[i])
  BY DEF InCallee, Node
<1> QED  BY <1>1, CalleeKept DEF Goes, CalledMod, Called, Node

\* What a call leaves of the stack, as the caller and the handler see it.
LEMMA GrownLinked ==
  ASSUME IInv, Running, GlobalsKept, UNCHANGED prog, Calls \/ Invokes,
         NEW n \in Nat, n = Len(cstk)
  PROVE  /\ DOMAIN cstk' = 1..(n + 1) /\ Len(cstk') = n + 1 /\ ret' = NoRet
         /\ \A i \in 1..(n - 1) : cstk'[i] = cstk[i]
         /\ cstk'[n].fn = Top.fn /\ cstk'[n].mod = Top.mod
         /\ cstk'[n].node = Top.node
         /\ Goes(cstk[n])'
         /\ cstk'[n + 1].mod = CalledMod(cstk[n])'
         /\ cstk'[n + 1].node = Called(cstk[n])'
<1>1. n \in DOMAIN cstk /\ Top = cstk[n] /\ Arity \in Nat
  BY TopFacts DEF Top
<1>2. PICK k, fn, m, node :
        /\ Grown(k, fn, m, node)
        /\ \/ k \in 1..Arity /\ m = Top.mod /\ node = Kid(k)
           \/ /\ k = Arity + 1 /\ N.type = "ECALL" /\ CalleeOk(Top)
              /\ m = Callee(Top).mod /\ node = Callee(Top).node
  BY DEF Calls, Invokes
<1>3. /\ cstk'[n].fn = Top.fn /\ cstk'[n].mod = Top.mod /\ cstk'[n].node = Top.node
      /\ cstk'[n].at = k /\ cstk'[n + 1].mod = m /\ cstk'[n + 1].node = node
      /\ cstk'[n + 1].at = 0
      /\ DOMAIN cstk' = 1..(n + 1) /\ Len(cstk') = n + 1 /\ ret' = NoRet
      /\ \A i \in 1..(n - 1) : cstk'[i] = cstk[i]
  BY <1>2 DEF Grown, SameBelow, TopAt
<1> DEFINE a == prog[Top.mod][Top.node]
<1>4. a = N /\ Arity = Len(a.kids) /\ a.type = N.type
  BY DEF N, Node, Arity
<1>5. /\ Goes(cstk[n])'
      /\ cstk'[n + 1].mod = CalledMod(cstk[n])'
      /\ cstk'[n + 1].node = Called(cstk[n])'
  <2>0. cstk'[n].mod = Top.mod /\ cstk'[n].node = Top.node /\ cstk'[n].at = k /\ cstk[n] = Top
    BY <1>1, <1>3
  <2>1. InCallee(cstk[n])' <=> N.type = "ECALL" /\ k > Arity
    BY <1>4, <2>0 DEF InCallee, Node
  <2>2. CASE k \in 1..Arity /\ m = Top.mod /\ node = Kid(k)
    <3>1. ~InCallee(cstk[n])'
      BY <1>1, <2>1, <2>2
    <3> QED  BY <1>3, <1>4, <2>0, <2>2, <3>1 DEF Goes, CalledMod, Called, Node, Kid, N
  <2>3. CASE k = Arity + 1 /\ N.type = "ECALL" /\ CalleeOk(Top)
             /\ m = Callee(Top).mod /\ node = Callee(Top).node
    <3>1. InCallee(cstk[n])'
      BY <1>1, <2>1, <2>3
    <3>2. /\ CalleeOk(cstk[n])' /\ Callee(cstk[n])'.mod = Callee(Top).mod
          /\ Callee(cstk[n])'.node = Callee(Top).node
      BY <1>1, <2>0, <2>3, CalleeKept
    <3> QED  BY <1>3, <2>3, <3>1, <3>2 DEF Goes, CalledMod, Called
  <2> QED  BY <1>2, <2>2, <2>3
<1> QED  BY <1>3, <1>5

LEMMA LinkedKeeps ==
  ASSUME IInv, Linked, Moves
  PROVE  Linked'
<1>n. PICK n \in Nat : n = Len(cstk)
  BY TopFacts DEF Moves
<1>1. /\ Running /\ GlobalsKept /\ UNCHANGED <<prog, phase>>
      /\ n \in DOMAIN cstk /\ DOMAIN cstk = 1..n /\ Len(cstk) = n /\ Top = cstk[n]
  BY <1>n, TopFacts, Shapes DEF Moves, Top
<1>2. CASE UNCHANGED <<cstk, ret>> \/ Gathers
  <2>1. /\ DOMAIN cstk' = 1..n /\ Len(cstk') = n /\ (ret' = NoRet \/ ret' = ret)
        /\ \A i \in DOMAIN cstk :
             /\ cstk'[i].mod = cstk[i].mod /\ cstk'[i].node = cstk[i].node
             /\ cstk'[i].at = cstk[i].at /\ cstk'[i].fn = cstk[i].fn
    <3>1. CASE UNCHANGED <<cstk, ret>>
      BY <1>1, <3>1
    <3>2. CASE Gathers
      <4>1. DOMAIN cstk' = 1..n /\ ret' = NoRet
        BY <1>1, <3>2 DEF Gathers
      <4>2. \A i \in DOMAIN cstk : i = n \/ cstk'[i] = cstk[i]
        <5> TAKE i \in DOMAIN cstk
        <5>1. i = n \/ i \in 1..(n - 1)
          BY <1>1
        <5> QED  BY <1>1, <3>2, <5>1 DEF Gathers, SameBelow
      <4>3. TopAt(Top.at)
        BY <1>1, <3>2 DEF Gathers
      <4>4. Len(cstk') = n
        BY <1>1, <4>1
      <4> QED  BY <1>1, <4>1, <4>2, <4>3, <4>4 DEF TopAt
    <3> QED  BY <1>2, <3>1, <3>2
  <2>2. \A i \in DOMAIN cstk :
          /\ Goes(cstk[i])' <=> Goes(cstk[i])
          /\ Goes(cstk[i]) => /\ CalledMod(cstk[i])' = CalledMod(cstk[i])
                              /\ Called(cstk[i])' = Called(cstk[i])
    BY <1>1, <2>1, CalledKept
  <2>3. \A i \in DOMAIN cstk : i < n => i + 1 \in DOMAIN cstk
    BY <1>1
  <2>4. cstk' # <<>> => cstk'[1].fn = 1 /\ Node(cstk[1].mod, cstk[1].node)'.type = "FUNCDECL"
    <3>1. 1 \in DOMAIN cstk /\ cstk # <<>>
      BY <1>1
    <3> QED  BY <1>1, <2>1, <3>1 DEF Linked, Node
  <2>5. \A i \in DOMAIN cstk' : i < Len(cstk') \/ ret' # NoRet => Goes(cstk[i])'
    BY <1>1, <2>1, <2>2 DEF Linked
  <2>6. \A i \in DOMAIN cstk' : i < Len(cstk') =>
          cstk'[i + 1].mod = CalledMod(cstk[i])' /\ cstk'[i + 1].node = Called(cstk[i])'
    BY <1>1, <2>1, <2>2, <2>3 DEF Linked
  <2> QED  BY <2>4, <2>5, <2>6 DEF Linked
<1>3. CASE Calls \/ Invokes
  <2>1. /\ DOMAIN cstk' = 1..(n + 1) /\ Len(cstk') = n + 1 /\ ret' = NoRet
        /\ \A i \in 1..(n - 1) : cstk'[i] = cstk[i]
        /\ cstk'[n].fn = Top.fn /\ cstk'[n].mod = Top.mod
        /\ cstk'[n].node = Top.node
        /\ Goes(cstk[n])'
        /\ cstk'[n + 1].mod = CalledMod(cstk[n])'
        /\ cstk'[n + 1].node = Called(cstk[n])'
    BY <1>1, <1>3, GrownLinked
  <2>2. \A i \in 1..(n - 1) : Goes(cstk[i])' /\ Goes(cstk[i])
          /\ CalledMod(cstk[i])' = CalledMod(cstk[i]) /\ Called(cstk[i])' = Called(cstk[i])
    <3> TAKE i \in 1..(n - 1)
    <3>1. i \in DOMAIN cstk /\ i < n
      BY <1>1
    <3> QED  BY <1>1, <2>1, <3>1, CalledKept DEF Linked
  <2>3. \A i \in DOMAIN cstk' : i < Len(cstk') => i \in 1..(n - 1) \/ i = n
    BY <1>1, <2>1
  <2>4. \A i \in 1..(n - 1) :
          /\ cstk'[i + 1].mod = cstk[i + 1].mod /\ cstk'[i + 1].node = cstk[i + 1].node
          /\ cstk[i + 1].mod = CalledMod(cstk[i]) /\ cstk[i + 1].node = Called(cstk[i])
    <3> TAKE i \in 1..(n - 1)
    <3>1. i \in DOMAIN cstk /\ i < n /\ (i + 1 \in 1..(n - 1) \/ i + 1 = n)
      BY <1>1
    <3>2. cstk[i + 1].mod = CalledMod(cstk[i]) /\ cstk[i + 1].node = Called(cstk[i])
      BY <1>1, <3>1 DEF Linked
    <3> QED  BY <1>1, <2>1, <3>1, <3>2
  <2>5. \A i \in DOMAIN cstk' : i < Len(cstk') =>
          /\ Goes(cstk[i])'
          /\ cstk'[i + 1].mod = CalledMod(cstk[i])' /\ cstk'[i + 1].node = Called(cstk[i])'
    BY <2>1, <2>2, <2>3, <2>4
  <2>6. cstk'[1].fn = 1 /\ Node(cstk[1].mod, cstk[1].node)'.type = "FUNCDECL"
    <3>1. 1 \in 1..(n - 1) \/ 1 = n
      BY <1>1
    <3>2. cstk'[1].fn = cstk[1].fn /\ cstk'[1].mod = cstk[1].mod /\ cstk'[1].node = cstk[1].node
      BY <1>1, <2>1, <3>1
    <3>3. cstk # <<>>
      BY <1>1
    <3> QED  BY <1>1, <3>2, <3>3 DEF Linked, Node
  <2> QED  BY <2>1, <2>5, <2>6 DEF Linked
<1>4. CASE Returns
  <2>1. /\ DOMAIN cstk' = 1..(n - 1) /\ Len(cstk') = n - 1
        /\ \A i \in 1..(n - 1) : cstk'[i] = cstk[i]
    BY <1>1, <1>4 DEF Returns, IInv, TypeOK
  <2>2. \A i \in 1..(n - 1) : i \in DOMAIN cstk /\ i < n
    BY <1>1
  <2>3. \A i \in 1..(n - 1) : Goes(cstk[i])'
          /\ CalledMod(cstk[i])' = CalledMod(cstk[i]) /\ Called(cstk[i])' = Called(cstk[i])
    BY <1>1, <2>1, <2>2, CalledKept DEF Linked
  <2>4. \A i \in DOMAIN cstk' : i < Len(cstk') =>
          cstk'[i + 1].mod = CalledMod(cstk[i])' /\ cstk'[i + 1].node = Called(cstk[i])'
    <3> SUFFICES ASSUME NEW i \in 1..(n - 1), i < n - 1
                 PROVE  cstk'[i + 1].mod = CalledMod(cstk[i])' /\ cstk'[i + 1].node = Called(cstk[i])'
      BY <2>1
    <3>1. i + 1 \in 1..(n - 1)
      BY <1>1
    <3> QED  BY <2>1, <2>2, <2>3, <3>1 DEF Linked
  <2>5. cstk' # <<>> => cstk'[1].fn = 1 /\ Node(cstk[1].mod, cstk[1].node)'.type = "FUNCDECL"
    <3>1. cstk' # <<>> => 1 \in 1..(n - 1)
      BY <1>1, <2>1
    <3>3. cstk # <<>>
      BY <1>1
    <3> QED  BY <1>1, <2>1, <3>1, <3>3 DEF Linked, Node
  <2> QED  BY <2>1, <2>3, <2>4, <2>5 DEF Linked
<1> QED  BY <1>2, <1>3, <1>4 DEF Moves

\* The returned value and its way, while handlers move.
LEMMA GivenKeeps ==
  ASSUME IInv, Linked, Given, Moves
  PROVE  Given'
<1>n. PICK n \in Nat : n = Len(cstk) /\ n > 0
  BY TopFacts DEF Moves
<1>1. /\ Running /\ GlobalsKept /\ UNCHANGED <<prog, phase>>
      /\ n \in DOMAIN cstk /\ DOMAIN cstk = 1..n /\ Len(cstk) = n /\ Top = cstk[n] /\ cstk # <<>>
  BY <1>n, TopFacts, Shapes DEF Moves, Top
<1>2. NoRet.act = "running" /\ "running" \notin Jumps
  BY DEF NoRet, Ret, Jumps
<1>3. CASE ret' = NoRet
  BY <1>2, <1>3 DEF Given
<1>4. CASE UNCHANGED <<cstk, ret>> /\ ret # NoRet
  <2>1. Goes(cstk[n])
    BY <1>1, <1>4 DEF Linked
  <2>2. CalledMod(cstk[n])' = CalledMod(cstk[n]) /\ Called(cstk[n])' = Called(cstk[n])
    BY <1>1, <1>4, <2>1, CalledKept
  <2>3. GivenBy' = GivenBy
    BY <1>1, <1>4, <2>2 DEF GivenBy, Top, Node
  <2> QED  BY <1>4, <2>3 DEF Given
<1>5. CASE Returns
  <2>1. GivenBy' = N.type
    <3>1. /\ DOMAIN cstk' = 1..(n - 1) /\ Len(cstk') = n - 1
          /\ \A i \in 1..(n - 1) : cstk'[i] = cstk[i]
      BY <1>1, <1>5 DEF Returns, IInv, TypeOK
    <3>2. CASE n = 1
      <4>1. cstk' = <<>>
        BY <1>1, <1>5, <3>2 DEF Returns, IInv, TypeOK
      <4>2. N.type = "FUNCDECL"
        BY <1>1, <3>2 DEF Linked, N
      <4> QED  BY <4>1, <4>2 DEF GivenBy
    <3>3. CASE n > 1
      <4>0. PICK k \in Nat : k = n - 1
        BY <1>n
      <4>1. /\ k \in DOMAIN cstk /\ k < n /\ k + 1 = n /\ cstk' # <<>> /\ cstk'[k] = cstk[k]
            /\ Len(cstk') = k
        BY <1>1, <3>1, <3>3, <4>0
      <4>2. Goes(cstk[k]) /\ Top.mod = CalledMod(cstk[k]) /\ Top.node = Called(cstk[k])
        BY <1>1, <4>1 DEF Linked
      <4>3. CalledMod(cstk[k])' = CalledMod(cstk[k]) /\ Called(cstk[k])' = Called(cstk[k])
        BY <1>1, <4>1, <4>2, CalledKept
      <4>4. GivenBy' = prog'[CalledMod(cstk[k])'][Called(cstk[k])'].type
        BY <4>1 DEF GivenBy, Top, Node
      <4> QED  BY <1>1, <4>2, <4>3, <4>4 DEF N, Node
    <3> QED  BY <1>n, <3>2, <3>3
  <2>2. ret.act = "return" => ret.val \in Value /\ Slot(ret.val) = ret.val
    BY RetFacts DEF Given, Slot
  <2>3. ret'.act = "return" => ret'.val \in Value /\ N.type \in Carriers \union {"RETURN"}
    BY <1>5, <2>2 DEF Returns
  <2>4. ret'.act \in Jumps =>
          ret'.val = Unwritten /\ N.type \in {"BREAK", "CONTINUE", "CTREE", "BLOCK"}
    BY <1>5 DEF Returns, Given
  <2>5. ret'.act # "running"
    BY <1>5 DEF Returns
  <2> QED  BY <2>1, <2>3, <2>4, <2>5 DEF Given
<1> QED  BY <1>3, <1>4, <1>5 DEF Moves, Calls, Invokes, Grown, Gathers

\* The entry of a global for a function is under the name of its declaration.
DeclaredAs ==
  \A i \in DOMAIN globals :
    globals[i].type = "func" => Node(globals[i].mod, globals[i].node).sym = globals[i].sym

LEMMA GlobalsKeepNames ==
  ASSUME IInv, DeclaredAs, GlobalsKept, UNCHANGED prog
  PROVE  DeclaredAs'
<1>1. DOMAIN globals = 1..Len(globals) /\ DOMAIN globals' = 1..Len(globals)
  BY DEF GlobalsKept, IInv, TypeOK
<1> QED  BY <1>1 DEF GlobalsKept, DeclaredAs, Node

LEMMA DeclaredKeeps ==
  ASSUME IInv, Given, DeclaredAs, [Next]_vars
  PROVE  DeclaredAs'
<1>1. CASE Prologue
  <2>1. CASE NextModule \/ GlobalsDone \/ EnterEntry
    BY <2>1 DEF NextModule, GlobalsDone, EnterEntry, DeclaredAs, Node
  <2>2. CASE EntryError
    BY <2>2 DEF EntryError, DeclaredAs
  <2>3. CASE InitGlobal
    <3>1. CASE UNCHANGED globals
      BY <2>3, <3>1 DEF InitGlobal, DeclaredAs, Node
    <3>2. CASE globals' = [globals EXCEPT ![walk.node].val = NewVal(globals[walk.node].type)]
      <4>1. /\ DOMAIN globals' = DOMAIN globals /\ UNCHANGED prog
            /\ \A i \in DOMAIN globals : globals[i] \in SymRecord
        BY <2>3, <3>2, Shapes DEF InitGlobal
      <4>2. \A i \in DOMAIN globals : /\ globals'[i].type = globals[i].type
                                      /\ globals'[i].sym = globals[i].sym
                                      /\ globals'[i].mod = globals[i].mod
                                      /\ globals'[i].node = globals[i].node
        BY <3>2, <4>1 DEF SymRecord
      <4> QED  BY <4>1, <4>2 DEF DeclaredAs, Node
    <3> QED  BY <2>3, <3>1, <3>2 DEF InitGlobal
  <2>4. CASE GlobalSymtab
    <3> DEFINE n == Node(walk.mod, walk.node)
               type == IF n.type = "FUNCDECL" THEN "func" ELSE Prim(walk.mod, n.kids[1])
               s == Symbol(n.sym, type, walk.mod, walk.node, 0, Null)
    <3>1. UNCHANGED prog
      BY <2>4 DEF GlobalSymtab, Undefined
    <3>2. UNCHANGED globals \/ globals' = Append(globals, s)
      BY <2>4 DEF GlobalSymtab, Undefined
    <3>3. CASE UNCHANGED globals
      BY <3>1, <3>3 DEF DeclaredAs, Node
    <3>4. CASE globals' = Append(globals, s)
      <4>1. s.sym = Node(s.mod, s.node).sym
        BY DEF Symbol
      <4> HIDE DEF s
      <4>2. /\ globals \in Seq(SymRecord) /\ Len(globals) \in Nat
            /\ DOMAIN globals = 1..Len(globals)
        BY DEF IInv, TypeOK
      <4>3. /\ DOMAIN globals' = 1..(Len(globals) + 1) /\ globals'[Len(globals) + 1] = s
            /\ \A i \in 1..Len(globals) : globals'[i] = globals[i]
        BY <3>4, <4>2
      <4>4. \A i \in DOMAIN globals' : i \in DOMAIN globals \/ i = Len(globals) + 1
        BY <4>2, <4>3
      <4> QED  BY <3>1, <4>1, <4>2, <4>3, <4>4 DEF DeclaredAs, Node
    <3> QED  BY <3>2, <3>3, <3>4
  <2> QED  BY <1>1, <2>1, <2>2, <2>3, <2>4 DEF Prologue
<1>2. CASE Statement \/ Expression
  BY <1>2, StatementMoves, ExpressionMoves, GlobalsKeepNames DEF Moves
<1>3. CASE Finish
  BY <1>3 DEF Finish, DeclaredAs
<1>4. CASE UNCHANGED vars
  BY <1>4 DEF vars, DeclaredAs, Node
<1> QED  BY <1>1, <1>2, <1>3, <1>4 DEF Next, Stopped

\* The invariant of the control of the interpreter.
CInv == IInv /\ DeclaredAs /\ Linked /\ Given

LEMMA InitCInv == Init => CInv
<1> SUFFICES ASSUME Init
             PROVE  CInv
  OBVIOUS
<1>1. IInv
  BY InitIInv
<1>2. cstk = <<>> /\ globals = <<>> /\ ret = NoRet /\ NoRet.act = "running"
  BY DEF Init, NoRet, Ret
<1>3. DeclaredAs /\ Linked /\ Given
  BY <1>2 DEF DeclaredAs, Linked, Given, Jumps
<1> QED  BY <1>1, <1>3 DEF CInv

LEMMA NextCInv == CInv /\ [Next]_vars => CInv'
<1> SUFFICES ASSUME CInv, [Next]_vars
             PROVE  CInv'
  OBVIOUS
<1>1. IInv /\ DeclaredAs /\ Linked /\ Given
  BY DEF CInv
<1>2. IInv' /\ DeclaredAs'
  BY <1>1, NextIInv, DeclaredKeeps
<1>3. CASE Moves
  BY <1>1, <1>3, LinkedKeeps, GivenKeeps, <1>2 DEF CInv
<1>4. CASE cstk' = <<>> /\ ret' = NoRet
  BY <1>2, <1>4 DEF CInv, Linked, Given, NoRet, Ret, Jumps
<1>5. CASE EnterEntry
  <2>1. /\ GlobalIdx(Entry) # 0 /\ EntryDecl.type = "func" /\ UNCHANGED <<prog, ret>>
        /\ fns' = <<[mod |-> EntryDecl.mod, scope |-> 0, syms |-> <<>>]>>
        /\ cstk' = <<Frame(fns', EntryDecl.node)>> /\ ret = NoRet
    BY <1>1, <1>5 DEF EnterEntry, EntryOk, Walking, IInv, Suspended
  <2>2. Node(EntryDecl.mod, EntryDecl.node).type = "FUNCDECL"
    <3>1. GlobalIdx(Entry) \in DOMAIN globals
      BY <1>1, <2>1, Shapes, FindSymIndex DEF GlobalIdx
    <3> QED  BY <1>1, <2>1, <3>1 DEF EntryDecl, IInv, Placed
  <2> DEFINE f == [fn |-> 1, mod |-> EntryDecl.mod, scope |-> 0, node |-> EntryDecl.node, at |-> 0,
                   vals |-> <<>>]
  <2>3. Frame(fns', EntryDecl.node) = f
    BY <2>1 DEF Frame
  <2>4. DOMAIN cstk' = {1} /\ Len(cstk') = 1 /\ cstk'[1] = f
    BY <2>1, <2>3
  <2>5. Linked' /\ Given'
    BY <2>1, <2>2, <2>4 DEF Linked, Given, NoRet, Ret, Jumps, Node
  <2> QED  BY <1>2, <2>5 DEF CInv
<1>6. CASE UNCHANGED vars
  BY <1>1, <1>2, <1>6 DEF CInv, vars, Linked, Given, Goes, CalledMod, Called, GivenBy, InCallee, CalleeOk,
     CalleeIdx, Callee, GlobalIdx, Node, Top
<1> QED  BY <1>1, <1>3, <1>4, <1>5, <1>6, StepMoves

-----------------------------------------------------------------------------
(* What the invariant says of calls and returns. *)

\* Every call of every program runs the function that was declared, anywhere in its
\* modules, under the name the call has: the symbol of ls_exececall and the node it
\* goes on to are of one declaration, whatever is declared in the caller.
THEOREM CallsReachDeclaration == Spec => []CallReachesDeclaration
<1>1. CInv => CallReachesDeclaration
  <2> SUFFICES ASSUME CInv, NEW i \in DOMAIN cstk, i + 1 \in DOMAIN cstk, InCallee(cstk[i])
               PROVE  LET f == cstk[i]
                          g == cstk[i + 1]
                      IN /\ Node(g.mod, g.node).type = "FUNCDECL"
                         /\ Node(g.mod, g.node).sym = Node(f.mod, Node(f.mod, f.node).kids[1]).sym
    BY DEF CallReachesDeclaration
  <2> DEFINE f == cstk[i]
             g == cstk[i + 1]
  <2>1. IInv /\ DeclaredAs /\ Linked
    BY DEF CInv
  <2>2. i < Len(cstk)
    BY <2>1, Shapes
  <2>3. CalleeOk(f) /\ g.mod = Callee(f).mod /\ g.node = Callee(f).node
    BY <2>1, <2>2 DEF Linked, Goes, CalledMod, Called
  <2>4. CalleeIdx(f) \in DOMAIN globals /\ Callee(f).type = "func"
    BY <2>1, <2>3, CalleeFacts, Shapes DEF CalleeOk
  <2>5. Callee(f).sym = Node(f.mod, Node(f.mod, f.node).kids[1]).sym
    <3>1. CalleeIdx(f) # 0
      BY <2>3 DEF CalleeOk
    <3> QED  BY <2>1, <3>1, Shapes, FindSymIndex DEF CalleeIdx, GlobalIdx, Callee
  <2>6. /\ Node(Callee(f).mod, Callee(f).node).type = "FUNCDECL"
        /\ Node(Callee(f).mod, Callee(f).node).sym = Callee(f).sym
    BY <2>1, <2>4 DEF Callee, IInv, Placed, DeclaredAs
  <2> QED  BY <2>3, <2>5, <2>6
<1> QED  BY InitCInv, NextCInv, <1>1, PTL DEF Spec

\* The statement a return or a jump comes out of stands in a statement or is the
\* body of a function.
StmtKids ==
  [FUNCDECL |-> {3}, CTREE |-> {2, 3}, WHILE |-> {2}, FOR |-> {4}]

LEMMA StatementParents ==
  ASSUME NEW type \in NodeTypes, NEW k \in Nat \ {0}, type = "FOR" => k <= 4,
         type = "CTREE" => k <= 3, type = "WHILE" => k <= 2, type = "FUNCDECL" => k <= 3,
         NEW t \in ChildTypes(type, k), t \in StmtTypes \ {"LOCALDECL"}
  PROVE  type = "BLOCK" \/ (type \in DOMAIN StmtKids /\ k \in StmtKids[type])
<1>1. t \notin ExprTypes /\ t \notin {"TYPE", "ARGLIST", "ARG", "IMPORT", "FUNCDECL", "GLOBALDECL"}
      /\ t # "LOCALDECL"
  BY DEF StmtTypes, ExprTypes, Binaries, Assigns, Arithmetics, Comparisons, Logicals
<1>2. CASE \/ type = "BLOCK"
           \/ type = "FUNCDECL" /\ k = 3
           \/ type \in {"CTREE", "WHILE"} /\ k > 1
           \/ type = "FOR" /\ k = 4
  BY <1>2 DEF StmtKids
<1>3. CASE ~ (\/ type = "BLOCK"
              \/ type = "FUNCDECL" /\ k = 3
              \/ type \in {"CTREE", "WHILE"} /\ k > 1
              \/ type = "FOR" /\ k = 4)
  <2>1. \/ ChildTypes(type, k) \in {{"TYPE"}, {"ARGLIST"}, {"ARG"}, ExprTypes}
        \/ ChildTypes(type, k) = {"IMPORT", "FUNCDECL", "GLOBALDECL"}
        \/ ChildTypes(type, k) = ExprTypes \union {"LOCALDECL"}
    BY <1>3 DEF ChildTypes
  <2> QED  BY <1>1, <2>1
<1> QED  BY <1>2, <1>3

LEMMA StatementTop ==
  ASSUME CInv, Running, ret.act \in Jumps \union {"return"}
  PROVE  /\ ~InCallee(Top) /\ ret # NoRet
         /\ GivenBy = Node(Top.mod, Kid(Top.at)).type /\ Top.at \in 1..Arity
         /\ N.type = "BLOCK" \/ (N.type \in DOMAIN StmtKids /\ Top.at \in StmtKids[N.type])
<1>1. /\ IInv /\ Linked /\ Given /\ ret # NoRet
      /\ Len(cstk) \in DOMAIN cstk /\ Top = cstk[Len(cstk)] /\ cstk # <<>>
  BY TopFacts DEF CInv, Jumps, NoRet, Ret, Top, Running
<1>2. Goes(Top)
  BY <1>1 DEF Linked
<1>3. GivenBy \in StmtTypes \ {"LOCALDECL"} /\ GivenBy # "FUNCDECL"
      /\ GivenBy = Node(CalledMod(Top), Called(Top)).type
  BY <1>1 DEF Given, GivenBy, Jumps, Carriers, StmtTypes
<1>4. ~InCallee(Top)
  <2> SUFFICES ASSUME InCallee(Top)
               PROVE  FALSE
    OBVIOUS
  <2>1. CalleeOk(Top)
    BY <1>2 DEF Goes
  <2>2. CalleeIdx(Top) \in DOMAIN globals /\ Callee(Top).type = "func"
    BY <1>1, <2>1, CalleeFacts, Shapes DEF CalleeOk
  <2>3. Node(Callee(Top).mod, Callee(Top).node).type = "FUNCDECL"
    BY <1>1, <2>2 DEF Callee, IInv, Placed
  <2> QED  BY <1>3, <2>3 DEF CalledMod, Called
<1>5. Top.at \in 1..Arity /\ Arity \in Nat /\ GivenBy = Node(Top.mod, Kid(Top.at)).type
  BY <1>1, <1>2, <1>3, <1>4, TopFacts DEF Goes, CalledMod, Called, Arity, N, Kid
<1>6. GivenBy \in ChildTypes(N.type, Top.at) /\ N.type \in NodeTypes
  BY <1>1, <1>5, TopFacts, ChildFacts DEF IInv, TypeOK, N, Arity, Kid, NodeRecord
<1>7. /\ N.type = "FOR" => Arity = 4
      /\ N.type = "CTREE" => Arity <= 3
      /\ N.type = "WHILE" => Arity = 2
      /\ N.type = "FUNCDECL" => Arity = 3
  BY <1>1, KidCounts
<1>8. Top.at \in Nat \ {0} /\ Top.at <= Arity
  BY <1>5
<1>9. /\ N.type = "FOR" => Top.at <= 4
      /\ N.type = "CTREE" => Top.at <= 3
      /\ N.type = "WHILE" => Top.at <= 2
      /\ N.type = "FUNCDECL" => Top.at <= 3
  BY <1>5, <1>7, <1>8
<1>10. N.type = "BLOCK" \/ (N.type \in DOMAIN StmtKids /\ Top.at \in StmtKids[N.type])
  BY <1>3, <1>6, <1>8, <1>9, StatementParents
<1> QED  BY <1>1, <1>4, <1>5, <1>10

LEMMA ReturnLeaves ==
  ASSUME CInv, Next, Running, ret.act = "return", N.type # "FUNCDECL"
  PROVE  \/ ret' = ret /\ cstk' = SubSeq(cstk, 1, Len(cstk) - 1)
         \/ UNCHANGED vars
<1>1. /\ IInv /\ ret # NoRet /\ ret.val \in Value /\ Slot(ret.val) = ret.val
      /\ Ret("return", ret.val) = ret
  BY RetFacts DEF CInv, Given, Slot, NoRet, Ret
<1>2. \/ N.type = "BLOCK"
      \/ N.type = "CTREE" /\ Top.at \in {2, 3}
      \/ N.type = "WHILE" /\ Top.at = 2
      \/ N.type = "FOR" /\ Top.at = 4
  BY StatementTop DEF StmtKids
<1>3. ASSUME Leave("return", ret.val)
      PROVE  ret' = ret /\ cstk' = SubSeq(cstk, 1, Len(cstk) - 1)
  BY <1>1, <1>3 DEF Leave
<1>4. CASE Prologue
  BY <1>4 DEF Prologue, NextModule, GlobalSymtab, InitGlobal, GlobalsDone, EntryError, EnterEntry,
     Walking, Running
<1>5. CASE Statement
  <2>1. ~ (FuncDecl \/ LocalDecl \/ Return \/ Break \/ Continue)
    BY <1>1, <1>2 DEF FuncDecl, LocalDecl, Return, Break, Continue, Starting, Resuming, Ready
  <2>2. CASE Ctree
    BY <1>1, <1>2, <1>3, <2>2 DEF Ctree, Starting, Resuming
  <2>3. CASE While
    BY <1>1, <1>2, <1>3, <2>3 DEF While, Starting, Resuming, LeaveScope
  <2>4. CASE For
    BY <1>1, <1>2, <1>3, <2>4 DEF For, Starting, Resuming, LeaveScope
  <2>5. CASE Block
    BY <1>1, <1>2, <1>3, <2>5 DEF Block, Starting, Resuming, LeaveScope
  <2> QED  BY <1>5, <2>1, <2>2, <2>3, <2>4, <2>5 DEF Statement
<1>6. ~Expression
  <2>1. N.type \notin OperandTypes \union {"EATOM", "ETERNARY"}
    BY <1>2 DEF OperandTypes, Binaries, Assigns, Arithmetics, Comparisons, Logicals
  <2>2. ~ (EvalOperand \/ Collect \/ Eatom \/ Eternary \/ SysReject)
    BY <2>1 DEF EvalOperand, Collect, Eatom, Eternary, SysReject, Starting, Resuming, OperandTypes
  <2>3. ~ (SysCall \/ SysShell \/ Ecall \/ Eaccess \/ NegNot \/ Ecast)
    BY <2>1 DEF SysCall, SysShell, Ecall, Eaccess, NegNot, Ecast, Resuming, Ready, OperandTypes
  <2>4. ~ (Arithmetic \/ Eadd \/ Comparison \/ Logical \/ Assignment)
    BY <2>1 DEF Arithmetic, Eadd, Comparison, Logical, Assignment, Ready, OperandTypes, Binaries
  <2> QED  BY <2>2, <2>3, <2>4 DEF Expression
<1>7. ~Finish
  BY DEF Finish, Running
<1> QED  BY <1>4, <1>5, <1>6, <1>7 DEF Next, Stopped

\* A return goes straight to the end of its function in every program: each handler
\* between hands on the action and the value it was given, and starts no other node.
THEOREM ReturnsUnwind == Spec => ReturnUnwinds
<1>1. CInv /\ [Next]_vars =>
        [Running /\ ret.act = "return" /\ N.type # "FUNCDECL" =>
           ret' = ret /\ cstk' = SubSeq(cstk, 1, Len(cstk) - 1)]_vars
  BY ReturnLeaves
<1> QED  BY InitCInv, NextCInv, <1>1, PTL DEF Spec, ReturnUnwinds

-----------------------------------------------------------------------------
(* Breaks and continues. *)

\* The nodes of a module that stand in a loop of their function.
InLoop(m) == CHOOSE inside \in SUBSET (DOMAIN prog[m]) : JumpsInLoops(prog[m], inside)
LoopAt(i) == Node(cstk[i].mod, cstk[i].node).type \in {"WHILE", "FOR"}

\* A handler of such a node has a loop of its function below it.
LoopBelow ==
  /\ \A i \in DOMAIN cstk : cstk[i].node \in InLoop(cstk[i].mod) =>
       \E j \in 1..(i - 1) : cstk[j].fn = cstk[i].fn /\ LoopAt(j)
  /\ ret.act \in Jumps => cstk # <<>> /\ Called(Top) \in InLoop(CalledMod(Top))

LEMMA InLoopFacts ==
  ASSUME prog \in Programs, NEW m \in DOMAIN prog,
         \E inside \in SUBSET (DOMAIN prog[m]) : JumpsInLoops(prog[m], inside)
  PROVE  /\ \A n \in DOMAIN prog[m] :
              Node(m, n).type \in {"BREAK", "CONTINUE"} => n \in InLoop(m)
         /\ \A n \in DOMAIN prog[m] : \A k \in 1..Len(Node(m, n).kids) :
              Node(m, n).kids[k] \in InLoop(m) =>
                n \in InLoop(m) \/ Node(m, n).type \in {"WHILE", "FOR"}
         /\ \A n \in DOMAIN prog[m] : Node(m, n).type = "FUNCDECL" => n \notin InLoop(m)
<1>1. JumpsInLoops(prog[m], InLoop(m))
  BY DEF InLoop
<1>2. \A n \in DOMAIN prog[m] : DOMAIN prog[m][n].kids = 1..Len(prog[m][n].kids)
  <2> TAKE n \in DOMAIN prog[m]
  <2>1. prog[m][n].kids \in Seq(Nat)
    BY NodeFacts DEF Node, NodeRecord
  <2> QED  BY <2>1
<1> QED  BY <1>1, <1>2 DEF JumpsInLoops, Node

\* What a step does to the places of the handlers.
LEMMA MovedFrames ==
  ASSUME CInv, Moves, NEW n \in Nat, n = Len(cstk)
  PROVE  /\ n > 0 /\ DOMAIN cstk = 1..n /\ Top = cstk[n] /\ UNCHANGED prog
         /\ \A i \in DOMAIN cstk' : i # n + 1 =>
              /\ i \in 1..n /\ cstk'[i].fn = cstk[i].fn
              /\ cstk'[i].mod = cstk[i].mod /\ cstk'[i].node = cstk[i].node
         /\ n + 1 \in DOMAIN cstk' =>
              LET f == cstk'[n + 1]
              IN /\ ret' = NoRet /\ DOMAIN cstk' = 1..(n + 1)
                 /\ \/ /\ f.fn = Top.fn /\ f.mod = Top.mod
                       /\ \E k \in 1..Arity : f.node = Kid(k)
                    \/ CalleeOk(Top) /\ f.mod = Callee(Top).mod /\ f.node = Callee(Top).node
<1>1. /\ IInv /\ Running /\ DOMAIN cstk = 1..n /\ n > 0 /\ Top = cstk[n] /\ UNCHANGED prog
  BY TopFacts, Shapes DEF CInv, Moves, Top
<1>2. CASE UNCHANGED <<cstk, ret>>
  BY <1>1, <1>2
<1>3. CASE Gathers
  <2>1. DOMAIN cstk' = 1..n /\ \A i \in 1..n : i # n => cstk'[i] = cstk[i]
    <3>1. \A i \in 1..n : i # n => i \in 1..(n - 1)
      OBVIOUS
    <3> QED  BY <1>3, <3>1 DEF Gathers, SameBelow
  <2>2. TopAt(Top.at)
    BY <1>3 DEF Gathers
  <2> QED  BY <1>1, <2>1, <2>2 DEF TopAt
<1>4. CASE Calls \/ Invokes
  <2>1. PICK k, fn, m, node :
          /\ Grown(k, fn, m, node)
          /\ \/ k \in 1..Arity /\ fn = Top.fn /\ m = Top.mod /\ node = Kid(k)
             \/ CalleeOk(Top) /\ m = Callee(Top).mod /\ node = Callee(Top).node
    BY <1>4 DEF Calls, Invokes
  <2>2. /\ DOMAIN cstk' = 1..(n + 1) /\ ret' = NoRet /\ TopAt(k)
        /\ \A i \in 1..(n - 1) : cstk'[i] = cstk[i]
        /\ cstk'[n + 1].fn = fn /\ cstk'[n + 1].mod = m /\ cstk'[n + 1].node = node
    BY <2>1 DEF Grown, SameBelow
  <2>3. \A i \in 1..(n + 1) : i = n + 1 \/ i = n \/ i \in 1..(n - 1)
    OBVIOUS
  <2> QED  BY <1>1, <2>1, <2>2, <2>3 DEF TopAt
<1>5. CASE Returns
  <2>1. DOMAIN cstk' = 1..(n - 1) /\ \A i \in 1..(n - 1) : cstk'[i] = cstk[i] /\ i \in 1..n /\ i # n + 1
    BY <1>1, <1>5 DEF Returns, IInv, TypeOK
  <2>2. n + 1 \notin 1..(n - 1)
    OBVIOUS
  <2> QED  BY <1>1, <2>1, <2>2
<1> QED  BY <1>2, <1>3, <1>4, <1>5 DEF Moves

LEMMA LoopBelowKeeps ==
  ASSUME CInv, CInv', LoopBelow, Moves,
         \A m \in DOMAIN prog :
           \E inside \in SUBSET (DOMAIN prog[m]) : JumpsInLoops(prog[m], inside)
  PROVE  LoopBelow'
<1>n. PICK n \in Nat : n = Len(cstk)
  BY Shapes DEF CInv
<1>1. /\ IInv /\ Running /\ GlobalsKept /\ Linked /\ Given
      /\ n > 0 /\ DOMAIN cstk = 1..n /\ Top = cstk[n] /\ UNCHANGED prog
      /\ \A i \in DOMAIN cstk' : i # n + 1 =>
           /\ i \in 1..n /\ cstk'[i].fn = cstk[i].fn
           /\ cstk'[i].mod = cstk[i].mod /\ cstk'[i].node = cstk[i].node
      /\ prog \in Programs /\ Top.mod \in DOMAIN prog /\ Top.node \in DOMAIN prog[Top.mod]
  BY <1>n, MovedFrames, TopFacts DEF CInv, Moves, IInv, TypeOK
<1>2. \A m : InLoop(m)' = InLoop(m)
  BY <1>1 DEF InLoop
<1>3. \A i \in DOMAIN cstk' : i # n + 1 => (LoopAt(i)' <=> LoopAt(i))
  BY <1>1 DEF LoopAt, Node
<1>4. DOMAIN cstk' = 1..Len(cstk') /\ Len(cstk') \in Nat
  BY Shapes DEF CInv, IInv, TypeOK
<1>5. ASSUME NEW i \in DOMAIN cstk', cstk'[i].node \in InLoop(cstk'[i].mod)
      PROVE  \E j \in 1..(i - 1) : cstk'[j].fn = cstk'[i].fn /\ LoopAt(j)'
  <2>1. CASE i # n + 1
    <3>1. PICK j \in 1..(i - 1) : cstk[j].fn = cstk[i].fn /\ LoopAt(j)
      BY <1>1, <1>5, <2>1 DEF LoopBelow
    <3>2. j \in DOMAIN cstk' /\ j # n + 1
      BY <1>1, <1>4, <2>1
    <3> QED  BY <1>1, <1>3, <2>1, <3>1, <3>2
  <2>2. CASE i = n + 1
    <3>1. /\ DOMAIN cstk' = 1..(n + 1)
          /\ \/ /\ cstk'[i].fn = Top.fn /\ cstk'[i].mod = Top.mod
                /\ \E k \in 1..Arity : cstk'[i].node = Kid(k)
             \/ /\ CalleeOk(Top) /\ cstk'[i].mod = Callee(Top).mod
                /\ cstk'[i].node = Callee(Top).node
      BY <1>n, <1>5, <2>2, MovedFrames
    <3>2. CASE /\ CalleeOk(Top) /\ cstk'[i].mod = Callee(Top).mod
               /\ cstk'[i].node = Callee(Top).node
      <4>1. CalleeIdx(Top) \in DOMAIN globals /\ Callee(Top).type = "func"
        BY <1>1, <3>2, CalleeFacts, Shapes DEF CalleeOk
      <4>2. /\ Callee(Top).mod \in DOMAIN prog
            /\ Callee(Top).node \in DOMAIN prog[Callee(Top).mod]
            /\ Node(Callee(Top).mod, Callee(Top).node).type = "FUNCDECL"
        BY <1>1, <4>1 DEF Callee, IInv, Placed
      <4> QED  BY <1>1, <1>5, <3>2, <4>2, InLoopFacts
    <3>3. CASE /\ cstk'[i].fn = Top.fn /\ cstk'[i].mod = Top.mod
               /\ \E k \in 1..Arity : cstk'[i].node = Kid(k)
      <4>1. Top.node \in InLoop(Top.mod) \/ N.type \in {"WHILE", "FOR"}
        BY <1>1, <1>5, <3>3, InLoopFacts DEF Arity, Kid, N
      <4>2. CASE Top.node \in InLoop(Top.mod)
        <5>1. PICK j \in 1..(n - 1) : cstk[j].fn = Top.fn /\ LoopAt(j)
          BY <1>1, <4>2 DEF LoopBelow
        <5>2. j \in DOMAIN cstk' /\ j # n + 1 /\ j \in 1..(i - 1)
          BY <3>1, <2>2
        <5> QED  BY <1>1, <1>3, <3>3, <5>1, <5>2
      <4>3. CASE N.type \in {"WHILE", "FOR"}
        <5>1. LoopAt(n) /\ n \in DOMAIN cstk' /\ n # n + 1 /\ n \in 1..(i - 1)
          BY <1>1, <2>2, <3>1, <4>3 DEF LoopAt, N
        <5> QED  BY <1>1, <1>3, <3>3, <5>1
      <4> QED  BY <4>1, <4>2, <4>3
    <3> QED  BY <3>1, <3>2, <3>3
  <2> QED  BY <2>1, <2>2
<1>6. ASSUME ret'.act \in Jumps
      PROVE  cstk' # <<>> /\ Called(Top)' \in InLoop(CalledMod(Top)')
  <2>0. ret' # NoRet
    BY <1>6 DEF NoRet, Ret, Jumps
  <2>1. CASE UNCHANGED <<cstk, ret>>
    <3>1. n \in DOMAIN cstk /\ Goes(cstk[n])
      BY <1>n, <1>1, <2>0, <2>1 DEF Linked
    <3>2. CalledMod(cstk[n])' = CalledMod(cstk[n]) /\ Called(cstk[n])' = Called(cstk[n])
      BY <1>1, <2>1, <3>1, CalledKept
    <3>3. CalledMod(Top)' = CalledMod(Top) /\ Called(Top)' = Called(Top)
      BY <1>n, <1>1, <2>1, <3>2 DEF Top
    <3> QED  BY <1>6, <2>1, <3>3 DEF LoopBelow
  <2>2. CASE Returns
    <3>1. Top.node \in InLoop(Top.mod) /\ N.type # "FUNCDECL"
      <4>1. CASE N.type \in {"BREAK", "CONTINUE"}
        BY <1>1, <4>1, InLoopFacts DEF N
      <4>2. CASE N.type \in {"CTREE", "BLOCK"} /\ ret.act \in Jumps
        <5>1. ~InCallee(Top) /\ Top.at \in 1..Arity
          BY <1>1, <4>2, StatementTop
        <5>2. Kid(Top.at) \in InLoop(Top.mod)
          BY <4>2, <5>1 DEF LoopBelow, Called, CalledMod, Kid, N
        <5> QED  BY <1>1, <4>2, <5>1, <5>2, InLoopFacts DEF Arity, Kid, N
      <4> QED  BY <1>6, <2>2, <4>1, <4>2 DEF Returns
    <3>2. n # 1
      <4> SUFFICES ASSUME n = 1
                   PROVE  FALSE
        OBVIOUS
      <4>1. N.type = "FUNCDECL"
        BY <1>1 DEF Linked, N
      <4> QED  BY <3>1, <4>1
    <3>3. PICK k \in Nat : k = n - 1 /\ k > 0
      BY <1>1, <3>2
    <3>4. Len(cstk') = k /\ cstk' # <<>> /\ cstk'[k] = cstk[k] /\ k \in DOMAIN cstk /\ k < n
          /\ k + 1 = n
      BY <1>n, <1>1, <2>2, <3>3 DEF Returns, IInv, TypeOK
    <3>5. Goes(cstk[k]) /\ Top.mod = CalledMod(cstk[k]) /\ Top.node = Called(cstk[k])
      BY <1>n, <1>1, <3>4 DEF Linked
    <3>6. CalledMod(cstk[k])' = CalledMod(cstk[k]) /\ Called(cstk[k])' = Called(cstk[k])
      BY <1>1, <3>4, <3>5, CalledKept
    <3>7. CalledMod(Top)' = CalledMod(cstk[k])' /\ Called(Top)' = Called(cstk[k])'
      BY <3>4 DEF Top
    <3> QED  BY <3>1, <3>4, <3>5, <3>6, <3>7
  <2> QED  BY <2>0, <2>1, <2>2 DEF Moves, Calls, Invokes, Grown, Gathers
<1> QED  BY <1>2, <1>5, <1>6 DEF LoopBelow

\* In a program whose breaks and continues stand in loops, as ls_sema makes sure, each
\* finds a handler of a loop of its own function below it, so that it never unwinds a
\* call: ls_exec does not look.
THEOREM JumpsStayInLoops ==
  ASSUME \A p \in Programs : \A m \in DOMAIN p :
           \E inside \in SUBSET (DOMAIN p[m]) : JumpsInLoops(p[m], inside)
  PROVE  Spec => []BreakInLoop
<1>1. Init => LoopBelow
  BY DEF Init, LoopBelow, NoRet, Ret, Jumps
<1>2. CInv /\ CInv' /\ LoopBelow /\ [Next]_vars => LoopBelow'
  <2> SUFFICES ASSUME CInv, CInv', LoopBelow, [Next]_vars
               PROVE  LoopBelow'
    OBVIOUS
  <2>1. IInv /\ Given /\ prog \in Programs
    BY DEF CInv, IInv, TypeOK
  <2>2. CASE Moves
    BY <2>1, <2>2, LoopBelowKeeps
  <2>3. CASE cstk' = <<>> /\ ret' = NoRet
    BY <2>3 DEF LoopBelow, NoRet, Ret, Jumps
  <2>4. CASE EnterEntry
    <3>1. /\ cstk' = <<Frame(fns', EntryDecl.node)>> /\ ret' = NoRet /\ phase = "lookup"
          /\ UNCHANGED prog
      BY <2>1, <2>4 DEF EnterEntry, Walking, IInv, Suspended
    <3>2. /\ DOMAIN cstk' = {1} /\ Node(cstk[1].mod, cstk[1].node)'.type = "FUNCDECL"
          /\ prog' \in Programs
          /\ cstk'[1].mod \in DOMAIN prog /\ cstk'[1].node \in DOMAIN prog[cstk'[1].mod]
      BY <2>1, <3>1, Shapes DEF CInv, Linked, IInv, Placed, StackDiscipline
    <3>3. Node(cstk'[1].mod, cstk'[1].node).type = "FUNCDECL"
      BY <3>1, <3>2 DEF Node
    <3>4. cstk'[1].node \notin InLoop(cstk'[1].mod)
      BY <2>1, <3>2, <3>3, InLoopFacts
    <3>5. \A m : InLoop(m)' = InLoop(m)
      BY <3>1 DEF InLoop
    <3> QED  BY <3>1, <3>2, <3>4, <3>5 DEF LoopBelow, NoRet, Ret, Jumps
  <2>5. CASE UNCHANGED vars
    <3>1. UNCHANGED <<prog, cstk, globals, ret>>
      BY <2>5 DEF vars
    <3>2. \A m : InLoop(m)' = InLoop(m)
      BY <3>1 DEF InLoop
    <3>3. \A i : LoopAt(i)' <=> LoopAt(i)
      BY <3>1 DEF LoopAt, Node
    <3>4. Top' = Top /\ CalledMod(Top)' = CalledMod(Top) /\ Called(Top)' = Called(Top)
      BY <3>1 DEF CalledMod, Called, InCallee, Callee, CalleeIdx, GlobalIdx, Node, Top
    <3> QED  BY <3>1, <3>2, <3>3, <3>4 DEF LoopBelow
  <2> QED  BY <2>1, <2>2, <2>3, <2>4, <2>5, StepMoves
<1>3. CInv /\ LoopBelow => BreakInLoop
  <2> SUFFICES ASSUME CInv, LoopBelow, Running, ret.act \in Jumps
               PROVE  \E i \in DOMAIN cstk :
                        /\ cstk[i].fn = Len(fns)
                        /\ Node(cstk[i].mod, cstk[i].node).type \in {"WHILE", "FOR"}
    BY DEF BreakInLoop, Jumps
  <2>n. PICK n \in Nat : n = Len(cstk)
    BY Shapes DEF CInv
  <2>1. /\ IInv /\ prog \in Programs /\ Top.mod \in DOMAIN prog
        /\ Top.node \in DOMAIN prog[Top.mod] /\ DOMAIN cstk = 1..n /\ n > 0 /\ Top = cstk[n]
    BY <2>n, TopFacts, Shapes DEF CInv, IInv, TypeOK, Top
  <2>2. ~InCallee(Top) /\ Top.at \in 1..Arity /\ Len(fns) = Top.fn
    BY <2>1, StatementTop, ScopeOfTop
  <2>3. Kid(Top.at) \in InLoop(Top.mod)
    BY <2>2 DEF LoopBelow, Called, CalledMod, Kid, N
  <2>4. Top.node \in InLoop(Top.mod) \/ N.type \in {"WHILE", "FOR"}
    BY <2>1, <2>2, <2>3, InLoopFacts DEF Arity, Kid, N
  <2>5. CASE Top.node \in InLoop(Top.mod)
    <3>1. PICK j \in 1..(n - 1) : cstk[j].fn = Top.fn /\ LoopAt(j)
      BY <2>1, <2>5 DEF LoopBelow
    <3>2. j \in DOMAIN cstk
      BY <2>1
    <3> QED  BY <2>2, <3>1, <3>2 DEF LoopAt
  <2>6. CASE N.type \in {"WHILE", "FOR"}
    BY <2>1, <2>2, <2>6 DEF N
  <2> QED  BY <2>4, <2>5, <2>6
<1> QED  BY InitCInv, NextCInv, <1>1, <1>2, <1>3, PTL DEF Spec
=============================================================================

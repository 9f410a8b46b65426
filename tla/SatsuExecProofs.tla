-------------------------- MODULE SatsuExecProofs --------------------------
(***************************************************************************)
(* Proofs about SatsuExec, for every set of programs and every bound.      *)
(***************************************************************************)
EXTENDS SatsuExec, TLAPS, WellFoundedInduction, SequenceTheorems

-----------------------------------------------------------------------------
(* Symbol tables. *)

\* A nonempty set of naturals has a least element.
LEMMA LeastNat ==
  ASSUME NEW T \in SUBSET Nat, T # {}
  PROVE  \E x \in T : \A y \in T : x <= y
<1>1. PICK x \in T : \A y \in T : ~ (<<y, x>> \in OpToRel(<, Nat))
  BY NatLessThanWellFounded, WFMin
<1>2. ASSUME NEW y \in T, y < x
      PROVE  FALSE
  <2>1. <<y, x>> \in OpToRel(<, Nat)
    BY <1>2 DEF OpToRel
  <2> QED  BY <2>1, <1>1
<1> QED  BY <1>2

\* ls_findsym returns an index of the table that holds the name, the first, or 0
\* when there is none.
LEMMA FindSymIndex ==
  ASSUME NEW st, NEW n \in Nat, DOMAIN st = 1..n, NEW sym
  PROVE  LET i == FindSym(st, sym)
         IN IF \E j \in DOMAIN st : st[j].sym = sym
            THEN i \in DOMAIN st /\ st[i].sym = sym /\ \A j \in DOMAIN st : st[j].sym = sym => i <= j
            ELSE i = 0
<1> DEFINE T == {j \in DOMAIN st : st[j].sym = sym}
<1>1. CASE T = {}
  BY <1>1 DEF FindSym
<1>2. CASE T # {}
  <2>0. T \in SUBSET Nat
    OBVIOUS
  <2>1. PICK x \in T : \A y \in T : x <= y
    BY <1>2, <2>0, LeastNat
  <2> QED  BY <2>1 DEF FindSym
<1> QED  BY <1>1, <1>2

\* Tables that hold the same names give the same index.
LEMMA FindSymSame ==
  ASSUME NEW st, NEW su, NEW n \in Nat, DOMAIN st = 1..n, DOMAIN su = 1..n,
         \A j \in 1..n : st[j].sym = su[j].sym, NEW sym
  PROVE  FindSym(st, sym) = FindSym(su, sym)
<1>1. CASE \E j \in 1..n : st[j].sym = sym
  <2> DEFINE a == FindSym(st, sym)
             b == FindSym(su, sym)
  <2>1. /\ a \in 1..n /\ st[a].sym = sym
        /\ \A j \in 1..n : st[j].sym = sym => a <= j
    BY <1>1, FindSymIndex
  <2>2. /\ b \in 1..n /\ su[b].sym = sym
        /\ \A j \in 1..n : su[j].sym = sym => b <= j
    BY <1>1, FindSymIndex
  <2>3. a <= b /\ b <= a
    BY <2>1, <2>2
  <2> QED  BY <2>1, <2>2, <2>3
<1>2. CASE ~ \E j \in 1..n : st[j].sym = sym
  BY <1>2, FindSymIndex
<1> QED  BY <1>1, <1>2

\* ls_popsymscope leaves a prefix of the table.
LEMMA KeptIndex ==
  ASSUME NEW st, Len(st) \in Nat, NEW scope \in Nat,
         \A i \in 1..Len(st) : st[i].scope \in Nat
  PROVE  /\ Kept(st, scope) \in 0..Len(st)
         /\ Kept(st, scope) > 0 => st[Kept(st, scope)].scope < scope
         /\ \A i \in (Kept(st, scope) + 1)..Len(st) : st[i].scope >= scope
<1> DEFINE T == {k \in 0..Len(st) : \A i \in (k + 1)..Len(st) : st[i].scope >= scope}
<1>1. Len(st) \in T /\ T \in SUBSET Nat
  OBVIOUS
<1>2. PICK k \in T : \A y \in T : k <= y
  BY <1>1, LeastNat
<1>3. k > 0 => st[k].scope < scope
  <2> SUFFICES ASSUME k > 0, ~ (st[k].scope < scope)
               PROVE  FALSE
    OBVIOUS
  <2>1. k - 1 \in T
    <3>1. \A i \in ((k - 1) + 1)..Len(st) : st[i].scope >= scope
      BY <1>2, <1>1
    <3> QED  BY <3>1, <1>1
  <2> HIDE DEF T
  <2>2. k <= k - 1 /\ k \in Nat
    BY <2>1, <1>2, <1>1
  <2> QED  BY <2>2
<1> QED  BY <1>1, <1>2, <1>3 DEF Kept

LEMMA PrefixType ==
  ASSUME NEW S, NEW st \in Seq(S), NEW k \in 0..Len(st)
  PROVE  /\ Prefix(st, k) \in Seq(S)
         /\ Len(Prefix(st, k)) = k
         /\ \A i \in 1..k : Prefix(st, k)[i] = st[i]
BY DEF Prefix

-----------------------------------------------------------------------------
(* What the invariant says of the handler that runs. *)

LEMMA NodeFacts ==
  ASSUME prog \in Programs, NEW m \in DOMAIN prog, NEW n \in DOMAIN prog[m]
  PROVE  /\ m \in Nat /\ n \in Nat
         /\ Node(m, n) \in NodeRecord
         /\ NodeOk(prog[m], n)
         /\ \A k \in 1..Len(Node(m, n).kids) : Node(m, n).kids[k] \in DOMAIN prog[m]
<1>1. /\ prog \in Seq(Seq(NodeRecord))
      /\ NodeOk(prog[m], n)
  BY ProgramsAssumption
<1>2. prog[m] \in Seq(NodeRecord) /\ m \in Nat
  BY <1>1
<1>3. prog[m][n] \in NodeRecord /\ n \in Nat
  BY <1>2
<1>4. prog[m][n].kids \in Seq(Nat)
  BY <1>3 DEF NodeRecord
<1>5. \A k \in DOMAIN prog[m][n].kids : prog[m][n].kids[k] \in DOMAIN prog[m]
  BY <1>1 DEF NodeOk
<1> QED  BY <1>1, <1>2, <1>3, <1>4, <1>5 DEF Node

\* Each child is of a kind that stands in its place.
LEMMA ChildFacts ==
  ASSUME prog \in Programs, NEW m \in DOMAIN prog, NEW n \in DOMAIN prog[m],
         NEW k \in 1..Len(Node(m, n).kids)
  PROVE  Node(m, Node(m, n).kids[k]).type \in ChildTypes(Node(m, n).type, k)
<1>1. prog[m][n].kids \in Seq(Nat) /\ NodeOk(prog[m], n)
  BY NodeFacts DEF Node, NodeRecord
<1>2. k \in DOMAIN prog[m][n].kids
  BY <1>1 DEF Node
<1> QED  BY <1>1, <1>2 DEF NodeOk, Node

\* The values that are not strings.
LEMMA PlainValues ==
  /\ \A t \in ValTypes : Val(t) \in Value /\ Val(t).type = t
  /\ RealSum \in Value /\ RealSum.type = "real"
  /\ Null \in Value /\ Null.type = "null"
  /\ Unwritten \notin Value /\ Unwritten.type = "unwritten"
  /\ NoRet \in [act : Actions, val : Value \union {Unwritten}]
<1>1. \A t \in ValTypes : Val(t) \in Value /\ Val(t).type = t
  BY DEF Val, Value, AsWritten
<1>2. RealSum \in Value /\ RealSum.type = "real"
  BY DEF RealSum, Value, AsWritten, ValTypes, PrimTypes
<1>3. Null \in Value /\ Null.type = "null"
  BY <1>1 DEF Null, ValTypes
<1>4. Unwritten \notin Value /\ Unwritten.type = "unwritten"
  BY DEF Unwritten, Val, Value, ValTypes, PrimTypes
<1> QED  BY <1>1, <1>2, <1>3, <1>4 DEF NoRet, Ret, Actions

LEMMA TypeChildren ==
  /\ \A type \in {"FUNCDECL", "GLOBALDECL", "LOCALDECL", "ARG", "ESYSTEM"} :
       ChildTypes(type, 1) = {"TYPE"}
  /\ ChildTypes("ECAST", 2) = {"TYPE"}
BY DEF ChildTypes

LEMMA Shapes ==
  ASSUME IInv
  PROVE  /\ Len(cstk) \in Nat /\ DOMAIN cstk = 1..Len(cstk)
         /\ Len(fns) \in Nat /\ DOMAIN fns = 1..Len(fns)
         /\ Len(globals) \in Nat /\ DOMAIN globals = 1..Len(globals)
         /\ \A i \in 1..Len(cstk) :
              /\ cstk[i] \in FrameRecord
              /\ cstk[i].fn \in 1..Len(fns) /\ cstk[i].mod \in Nat /\ cstk[i].scope \in Nat
              /\ cstk[i].node \in Nat /\ cstk[i].at \in Nat /\ cstk[i].vals \in Seq(Value)
              /\ cstk[i].mod \in DOMAIN prog /\ cstk[i].node \in DOMAIN prog[cstk[i].mod]
         /\ \A d \in 1..Len(fns) :
              /\ fns[d] \in EnvRecord
              /\ fns[d].mod \in Nat /\ fns[d].scope \in Nat /\ fns[d].syms \in Seq(SymRecord)
              /\ fns[d].mod \in DOMAIN prog
         /\ \A i \in 1..Len(globals) : globals[i] \in SymRecord
<1>1. /\ cstk \in Seq(FrameRecord) /\ fns \in Seq(EnvRecord) /\ globals \in Seq(SymRecord)
  BY DEF IInv, TypeOK
<1>2. \A i \in DOMAIN cstk : /\ cstk[i].fn \in DOMAIN fns
                             /\ cstk[i].mod = fns[cstk[i].fn].mod
                             /\ cstk[i].node \in DOMAIN prog[cstk[i].mod]
  BY DEF IInv, StackDiscipline, Placed
<1>3. \A d \in DOMAIN fns : fns[d].mod \in DOMAIN prog
  BY DEF IInv, Placed
<1>4. \A i \in 1..Len(cstk) :
        /\ cstk[i] \in FrameRecord
        /\ cstk[i].mod \in Nat /\ cstk[i].scope \in Nat
        /\ cstk[i].node \in Nat /\ cstk[i].at \in Nat /\ cstk[i].vals \in Seq(Value)
  <2> TAKE i \in 1..Len(cstk)
  <2>1. cstk[i] \in FrameRecord
    BY <1>1
  <2> QED  BY <2>1 DEF FrameRecord
<1>5. \A d \in 1..Len(fns) :
        /\ fns[d] \in EnvRecord
        /\ fns[d].mod \in Nat /\ fns[d].scope \in Nat /\ fns[d].syms \in Seq(SymRecord)
  <2> TAKE d \in 1..Len(fns)
  <2>1. fns[d] \in EnvRecord
    BY <1>1
  <2> QED  BY <2>1 DEF EnvRecord
<1>6. \A i \in 1..Len(cstk) :
        /\ cstk[i].fn \in 1..Len(fns)
        /\ cstk[i].mod \in DOMAIN prog /\ cstk[i].node \in DOMAIN prog[cstk[i].mod]
  <2> TAKE i \in 1..Len(cstk)
  <2>1. i \in DOMAIN cstk /\ DOMAIN fns = 1..Len(fns)
    BY <1>1
  <2> QED  BY <1>2, <1>3, <2>1
<1>7. \A d \in 1..Len(fns) : fns[d].mod \in DOMAIN prog
  BY <1>1, <1>3
<1> QED  BY <1>1, <1>4, <1>5, <1>6, <1>7

LEMMA TopFacts ==
  ASSUME IInv, Running
  PROVE  /\ Len(cstk) \in Nat /\ Len(cstk) > 0 /\ Len(cstk) \in DOMAIN cstk
         /\ Top \in FrameRecord
         /\ Top.fn \in 1..Len(fns) /\ Len(fns) \in Nat
         /\ Top.mod = fns[Top.fn].mod
         /\ Env \in EnvRecord /\ Env = fns[Len(fns)]
         /\ Top.mod \in DOMAIN prog /\ Top.node \in DOMAIN prog[Top.mod]
         /\ N \in NodeRecord /\ N = Node(Top.mod, Top.node)
         /\ Arity \in Nat
         /\ \A k \in 1..Arity : Kid(k) \in DOMAIN prog[Top.mod] /\ Kid(k) \in Nat
<1>1. Len(cstk) \in Nat /\ Len(cstk) > 0 /\ Len(cstk) \in DOMAIN cstk /\ Top \in FrameRecord
  BY DEF IInv, TypeOK, Running, Top
<1>2. /\ Top.fn \in DOMAIN fns /\ Top.mod = fns[Top.fn].mod
      /\ Top.node \in DOMAIN prog[Top.mod]
  BY <1>1 DEF IInv, StackDiscipline, Placed, Top
<1>3. Top.fn \in 1..Len(fns) /\ Len(fns) \in Nat /\ Env \in EnvRecord
  BY <1>2 DEF IInv, TypeOK, Env
<1>4. Top.mod \in DOMAIN prog
  BY <1>2 DEF IInv, Placed
<1>5. /\ N \in NodeRecord
      /\ \A k \in 1..Arity : Kid(k) \in DOMAIN prog[Top.mod]
  BY <1>2, <1>4, NodeFacts DEF IInv, TypeOK, N, Arity, Kid
<1>6. Arity \in Nat /\ \A k \in 1..Arity : Kid(k) \in Nat
  BY <1>5 DEF Arity, Kid, NodeRecord
<1> QED  BY <1>1, <1>2, <1>3, <1>4, <1>5, <1>6 DEF Env, N

-----------------------------------------------------------------------------
(* How a step may change the environments and the globals. *)

\* The environments up to that of Top, in their modules; those below at their scopes.
EnvsKept(env) ==
  /\ env \in Seq(EnvRecord) /\ Len(env) = Top.fn
  /\ \A d \in 1..Top.fn : env[d].mod = fns[d].mod
  /\ \A d \in 1..(Top.fn - 1) : env[d].scope = fns[d].scope

\* Only the values of the globals.
GlobalsKept ==
  /\ globals' \in Seq(SymRecord) /\ Len(globals') = Len(globals)
  /\ \A i \in 1..Len(globals) :
       /\ globals'[i].sym = globals[i].sym /\ globals'[i].type = globals[i].type
       /\ globals'[i].mod = globals[i].mod /\ globals'[i].node = globals[i].node

\* The scopes Top has open while it waits for its k-th child.
OpenAt(k) ==
  IF N.type \in {"WHILE", "FOR", "BLOCK"} \/ (N.type = "CTREE" /\ k > 1) THEN 1 ELSE 0

LEMMA ScopeOfTop ==
  ASSUME IInv, Running
  PROVE  /\ InCallee(Top) => Len(fns) = Top.fn + 1 /\ N.type = "ECALL" /\ ret # NoRet
                             /\ fns[Top.fn].scope = Top.scope
         /\ ~InCallee(Top) => Len(fns) = Top.fn
         /\ ~InCallee(Top) => Env.scope = Top.scope + (IF Top.at = 0 THEN 0 ELSE OpenAt(Top.at))
<1>1. cstk # <<>> /\ Top = cstk[Len(cstk)] /\ Len(cstk) \in DOMAIN cstk
  BY TopFacts DEF Running, Top
<1>2. Top.at \in Nat
  BY TopFacts DEF FrameRecord
<1> QED  BY <1>1, <1>2 DEF IInv, StackDiscipline, Suspended, InCallee, OpenScopes, OpenAt, N

\* The callee of a call that goes on is the same.
LEMMA ArgsKept ==
  ASSUME IInv, GlobalsKept, UNCHANGED prog,
         NEW i \in DOMAIN cstk, i \in DOMAIN cstk', cstk'[i] = cstk[i]
  PROVE  /\ InCallee(cstk[i])' <=> InCallee(cstk[i])
         /\ ArgsFit(cstk[i]) => ArgsFit(cstk[i])'
         /\ Waiting(cstk[i]) => Waiting(cstk[i])'
<1> DEFINE s == prog[cstk[i].mod][prog[cstk[i].mod][cstk[i].node].kids[1]].sym
<1>1. globals \in Seq(SymRecord) /\ globals' \in Seq(SymRecord) /\ Len(globals') = Len(globals)
  BY DEF IInv, TypeOK, GlobalsKept
<1>2. FindSym(globals', s) = FindSym(globals, s)
  BY <1>1, FindSymSame DEF GlobalsKept
<1>3. FindSym(globals, s) # 0 => FindSym(globals, s) \in 1..Len(globals)
  BY <1>1, FindSymIndex
<1>4. CalleeIdx(cstk[i])' = CalleeIdx(cstk[i])
  BY <1>2 DEF CalleeIdx, GlobalIdx, Node
<1>5. CalleeIdx(cstk[i]) # 0 => CalleeIdx(cstk[i]) \in 1..Len(globals)
  BY <1>3 DEF CalleeIdx, GlobalIdx, Node
<1>6. CalleeIdx(cstk[i]) # 0 =>
        /\ Callee(cstk[i])'.type = Callee(cstk[i]).type
        /\ Callee(cstk[i])'.mod = Callee(cstk[i]).mod
        /\ Callee(cstk[i])'.node = Callee(cstk[i]).node
  BY <1>4, <1>5 DEF Callee, GlobalsKept
<1>7. CalleeOk(cstk[i])' <=> CalleeOk(cstk[i])
  BY <1>4, <1>6 DEF CalleeOk
<1>8. CalleeOk(cstk[i]) => ParamNodes(cstk[i])' = ParamNodes(cstk[i])
  BY <1>4, <1>6 DEF CalleeOk, ParamNodes, Node
<1>9. InCallee(cstk[i])' <=> InCallee(cstk[i])
  BY DEF InCallee, Node
<1>10. Arguing(cstk[i])' <=> Arguing(cstk[i])
  BY <1>9 DEF Arguing, Node
<1> QED  BY <1>7, <1>8, <1>9, <1>10 DEF ArgsFit, Waiting, NextParamOk

\* A handler that returns, with the scopes it opened closed again, leaves the
\* invariant; a call of a function also leaves the environment of the callee.
LEMMA LeaveKeeps ==
  ASSUME IInv, Running, UNCHANGED <<prog, phase, walk>>,
         EnvsKept(fns'), fns'[Top.fn].scope = Top.scope, GlobalsKept,
         cstk' = SubSeq(cstk, 1, Len(cstk) - 1),
         ret' \in [act : Actions, val : Value \union {Unwritten}], ret' # NoRet,
         live' \subseteq Blocks, fault' \in Faults
  PROVE  IInv'
<1> DEFINE n == Len(cstk) - 1
<1>0. StackDiscipline /\ Placed /\ Suspended
  BY DEF IInv
<1>1. /\ cstk \in Seq(FrameRecord) /\ Len(cstk) \in Nat /\ n \in Nat
      /\ Len(cstk) = n + 1 /\ cstk' = SubSeq(cstk, 1, n) /\ DOMAIN cstk = 1..(n + 1)
      /\ Top = cstk[n + 1] /\ Top \in FrameRecord
      /\ Top.fn \in Nat /\ Top.fn > 0
  BY TopFacts, Shapes DEF IInv, TypeOK, Top
<1> HIDE DEF n
<1>2. /\ cstk' \in Seq(FrameRecord) /\ Len(cstk') = n /\ DOMAIN cstk' = 1..n
      /\ \A i \in 1..n : cstk'[i] = cstk[i] /\ i \in DOMAIN cstk
  <2>1. \A i \in 1..n : cstk[i] \in FrameRecord /\ i \in DOMAIN cstk
    BY <1>1, Shapes
  <2>2. \A i \in 1..n : cstk[1 + i - 1] = cstk[i]
    OBVIOUS
  <2>3. /\ SubSeq(cstk, 1, n) \in Seq(FrameRecord)
        /\ Len(SubSeq(cstk, 1, n)) = IF 1 <= n THEN n - 1 + 1 ELSE 0
        /\ \A i \in 1..(n - 1 + 1) : SubSeq(cstk, 1, n)[i] = cstk[1 + i - 1]
    BY <1>1, <2>1, SubSeqProperties
  <2> QED  BY <1>1, <2>1, <2>2, <2>3
<1>3. \A i \in 1..n : i \in DOMAIN cstk' /\ i + 1 \in DOMAIN cstk
  BY <1>1, <1>2
<1>4. \A i, j \in 1..(n + 1) : i <= j => cstk[i].fn <= cstk[j].fn
  BY <1>0, <1>1 DEF Suspended
<1>5. \A i \in 1..n : cstk[i].fn \in Nat /\ cstk[i].fn > 0 /\ cstk[i].fn <= Top.fn
  <2> TAKE i \in 1..n
  <2>1. cstk[i].fn \in 1..Len(fns) /\ Len(fns) \in Nat
    BY <1>1, Shapes
  <2>2. i \in 1..(n + 1) /\ n + 1 \in 1..(n + 1) /\ i <= n + 1
    BY <1>1
  <2> QED  BY <1>1, <1>4, <2>1, <2>2
<1>6. \A i \in 1..n : /\ InCallee(cstk[i])' <=> InCallee(cstk[i])
                      /\ OpenScopes(cstk[i])' = OpenScopes(cstk[i])
                      /\ ArgsFit(cstk[i])' /\ Waiting(cstk[i])'
  <2> TAKE i \in 1..n
  <2>0. i \in DOMAIN cstk /\ i < Len(cstk)
    BY <1>1, <1>2
  <2>1. ArgsFit(cstk[i]) /\ Waiting(cstk[i])
    BY <1>0, <2>0 DEF Suspended
  <2>2. OpenScopes(cstk[i])' = OpenScopes(cstk[i])
    BY <1>2 DEF OpenScopes, Node
  <2> QED  BY <2>1, <2>2, <1>2, <1>3, ArgsKept
<1>7. \A i \in 1..n : IF InCallee(cstk[i])
                      THEN cstk[i + 1].fn = cstk[i].fn + 1 /\ cstk[i + 1].scope = 0
                      ELSE /\ cstk[i + 1].fn = cstk[i].fn
                           /\ cstk[i + 1].scope = cstk[i].scope + OpenScopes(cstk[i])
  BY <1>0, <1>2, <1>3 DEF StackDiscipline
<1>8. cstk' # <<>> => n \in 1..n /\ Top' = cstk[n] /\ Top' = cstk'[n]
  BY <1>1, <1>2 DEF Top
<1>9. TypeOK'
  BY <1>2 DEF IInv, TypeOK, EnvsKept, GlobalsKept
<1>10. StackDiscipline'
  <2>1. \A i \in 1..n : cstk[i].fn \in DOMAIN fns' /\ cstk[i].mod = fns'[cstk[i].fn].mod
    <3> TAKE i \in 1..n
    <3>1. cstk[i].fn \in 1..Top.fn
      BY <1>1, <1>5
    <3>2. cstk[i].mod = fns[cstk[i].fn].mod
      BY <1>0, <1>2 DEF StackDiscipline
    <3> QED  BY <3>1, <3>2 DEF EnvsKept
  <2>2. cstk' # <<>> => IF InCallee(Top)'
                        THEN Len(fns') = Top.fn' + 1 /\ Env.scope' = 0
                        ELSE Len(fns') = Top.fn' /\ Env.scope' = Top.scope' + OpenScopes(Top)'
    <3> SUFFICES ASSUME cstk' # <<>>
                 PROVE  IF InCallee(cstk[n])
                        THEN Len(fns') = cstk[n].fn + 1 /\ Env.scope' = 0
                        ELSE /\ Len(fns') = cstk[n].fn
                             /\ Env.scope' = cstk[n].scope + OpenScopes(cstk[n])
      <4>1. ASSUME cstk' # <<>>
            PROVE  /\ InCallee(Top)' <=> InCallee(cstk[n])
                   /\ OpenScopes(Top)' = OpenScopes(cstk[n])
        BY <1>8, <4>1 DEF InCallee, OpenScopes, Node
      <4> QED  BY <1>8, <4>1
    <3>1. Env.scope' = Top.scope /\ Len(fns') = Top.fn
      BY DEF Env, EnvsKept
    <3> QED  BY <1>1, <1>8, <1>7, <3>1
  <2>3. \A i \in DOMAIN cstk' : i + 1 \in DOMAIN cstk' =>
          IF InCallee(cstk[i])'
          THEN cstk'[i + 1].fn = cstk'[i].fn + 1 /\ cstk'[i + 1].scope = 0
          ELSE /\ cstk'[i + 1].fn = cstk'[i].fn
               /\ cstk'[i + 1].scope = cstk'[i].scope + OpenScopes(cstk[i])'
    BY <1>2, <1>6, <1>7
  <2>4. \A i \in DOMAIN cstk' : /\ cstk'[i].fn \in DOMAIN fns'
                                /\ cstk'[i].mod = fns'[cstk'[i].fn].mod
    BY <1>2, <2>1
  <2> QED  BY <2>2, <2>3, <2>4 DEF StackDiscipline
<1>11. Placed'
  <2>1. \A d \in DOMAIN fns' : fns'[d].mod \in DOMAIN prog'
    BY TopFacts, Shapes DEF EnvsKept
  <2>2. \A i \in DOMAIN cstk' : cstk'[i].node \in DOMAIN prog'[cstk'[i].mod]
    BY <1>0, <1>2 DEF Placed
  <2>3. \A i \in DOMAIN globals' : globals'[i].type = "func" =>
       /\ globals'[i].mod \in DOMAIN prog'
       /\ globals'[i].node \in DOMAIN prog'[globals'[i].mod]
       /\ prog'[globals'[i].mod][globals'[i].node].type = "FUNCDECL"
    <3>1. DOMAIN globals' = DOMAIN globals /\ DOMAIN globals = 1..Len(globals)
      BY Shapes DEF GlobalsKept
    <3> QED  BY <1>0, <3>1 DEF GlobalsKept, Placed, Node
  <2>4. walk'.mod > 0 /\ walk'.node > 0
    BY <1>0 DEF Placed
  <2> QED  BY <2>1, <2>2, <2>3, <2>4 DEF Placed, Node
<1>12. Suspended'
  <2>1. \A i \in 1..n : InCallee(cstk[i]) => fns'[cstk[i].fn].scope = cstk[i].scope
    <3> SUFFICES ASSUME NEW i \in 1..n, InCallee(cstk[i])
                 PROVE  fns'[cstk[i].fn].scope = cstk[i].scope
      OBVIOUS
    <3>1. cstk[i + 1].fn = cstk[i].fn + 1
      BY <1>7
    <3>2. i + 1 \in 1..(n + 1) /\ n + 1 \in 1..(n + 1) /\ i + 1 <= n + 1
      BY <1>1
    <3>3. cstk[i + 1].fn <= Top.fn
      BY <1>1, <1>4, <3>2
    <3>4. cstk[i].fn \in 1..(Top.fn - 1)
      BY <1>5, <3>1, <3>3, <1>1
    <3> QED  BY <1>0, <3>4, <1>2 DEF EnvsKept, Suspended
  <2>2. phase' = "run"
    BY DEF Running
  <2>3. \A i, j \in DOMAIN cstk' : i <= j => cstk'[i].fn <= cstk'[j].fn
    BY <1>1, <1>2, <1>4
  <2>4. \A i \in DOMAIN cstk' : InCallee(cstk[i])' => fns'[cstk'[i].fn].scope = cstk'[i].scope
    BY <1>2, <1>6, <2>1
  <2>5. \A i \in DOMAIN cstk' : ArgsFit(cstk[i])' /\ Waiting(cstk[i])'
    BY <1>2, <1>6
  <2> QED  BY <2>2, <2>3, <2>4, <2>5 DEF Suspended
<1> QED  BY <1>9, <1>10, <1>11, <1>12 DEF IInv

\* The stack when Top calls the handler of a node.
LEMMA CallStack ==
  ASSUME IInv, Running, NEW env, NEW k \in Nat, NEW node, NEW vals \in Seq(Value),
         CallNode(env, k, node, vals), Frame(env, node) \in FrameRecord
  PROVE  /\ cstk' \in Seq(FrameRecord) /\ Len(cstk') = Len(cstk) + 1
         /\ DOMAIN cstk' = 1..(Len(cstk) + 1)
         /\ \A i \in 1..(Len(cstk) - 1) : cstk'[i] = cstk[i]
         /\ cstk'[Len(cstk)].fn = Top.fn /\ cstk'[Len(cstk)].mod = Top.mod
         /\ cstk'[Len(cstk)].scope = Top.scope /\ cstk'[Len(cstk)].node = Top.node
         /\ cstk'[Len(cstk)].at = k /\ cstk'[Len(cstk)].vals = vals
         /\ cstk'[Len(cstk) + 1] = Frame(env, node) /\ Top' = Frame(env, node)
         /\ fns' = env /\ ret' = NoRet
<1> DEFINE n == Len(cstk)
           c == [cstk EXCEPT ![n].at = k, ![n].vals = vals]
<1>1. cstk \in Seq(FrameRecord) /\ n \in Nat /\ n \in 1..n /\ DOMAIN cstk = 1..n
  BY TopFacts, Shapes DEF IInv, TypeOK
<1>2. cstk[n] \in FrameRecord /\ Top = cstk[n]
  BY TopFacts DEF Top
<1>3. c = [cstk EXCEPT ![n] = [cstk[n] EXCEPT !.at = k, !.vals = vals]]
  BY <1>1
<1>4. [cstk[n] EXCEPT !.at = k, !.vals = vals] \in FrameRecord
  BY <1>2 DEF FrameRecord
<1>5. c \in Seq(FrameRecord) /\ Len(c) = n
  BY <1>1, <1>3, <1>4, ExceptSeq
<1>6. \A i \in 1..n : c[i] = IF i = n THEN [cstk[n] EXCEPT !.at = k, !.vals = vals] ELSE cstk[i]
  BY <1>1, <1>3
<1>7. cstk' = Append(c, Frame(env, node))
  BY DEF CallNode
<1> HIDE DEF c, n
<1>8. /\ cstk' \in Seq(FrameRecord) /\ Len(cstk') = n + 1
      /\ \A i \in 1..n : cstk'[i] = c[i]
      /\ cstk'[n + 1] = Frame(env, node)
  BY <1>1, <1>5, <1>7, AppendProperties
<1>9. /\ [cstk[n] EXCEPT !.at = k, !.vals = vals].fn = Top.fn
      /\ [cstk[n] EXCEPT !.at = k, !.vals = vals].mod = Top.mod
      /\ [cstk[n] EXCEPT !.at = k, !.vals = vals].scope = Top.scope
      /\ [cstk[n] EXCEPT !.at = k, !.vals = vals].node = Top.node
      /\ [cstk[n] EXCEPT !.at = k, !.vals = vals].at = k
      /\ [cstk[n] EXCEPT !.at = k, !.vals = vals].vals = vals
  BY <1>2 DEF FrameRecord
<1>10. cstk'[n] = [cstk[n] EXCEPT !.at = k, !.vals = vals]
  BY <1>1, <1>6, <1>8
<1>11. \A i \in 1..(n - 1) : cstk'[i] = cstk[i]
  BY <1>1, <1>6, <1>8
<1>12. DOMAIN cstk' = 1..(n + 1)
  BY <1>1, <1>8
<1> QED  BY <1>8, <1>9, <1>10, <1>11, <1>12 DEF n, Top, CallNode

\* A call of a handler keeps the invariant, in the environment of Top or, for the
\* body of a function, in a new one.
LEMMA CallKeeps ==
  ASSUME IInv, Running, UNCHANGED <<prog, phase, walk, globals>>,
         NEW env \in Seq(EnvRecord), NEW k \in Nat, k > 0, NEW vals \in Seq(Value),
         \A d \in 1..Top.fn : env[d].mod = fns[d].mod,
         \A d \in 1..(Top.fn - 1) : env[d].scope = fns[d].scope,
         IF N.type = "ECALL" /\ k > Arity
         THEN /\ Len(env) = Top.fn + 1 /\ env[Len(env)].mod \in DOMAIN prog
              /\ env[Len(env)].scope = 0 /\ env[Top.fn].scope = Top.scope
         ELSE Len(env) = Top.fn /\ env[Len(env)].scope = Top.scope + OpenAt(k),
         N.type = "ECALL" /\ k <= Arity => CalleeOk(Top) /\ Len(vals) < Len(ParamNodes(Top)),
         NEW node \in DOMAIN prog[env[Len(env)].mod],
         CallNode(env, k, node, vals),
         live' \subseteq Blocks, fault' \in Faults
  PROVE  IInv'
<1> DEFINE In == N.type = "ECALL" /\ k > Arity
           f == Frame(env, node)
<1>n. PICK n \in Nat : n = Len(cstk) /\ n > 0
  BY TopFacts
<1>0. TypeOK /\ StackDiscipline /\ Placed /\ Suspended
  BY DEF IInv
<1>1. /\ DOMAIN cstk = 1..n /\ Top = cstk[n] /\ n \in DOMAIN cstk
      /\ Top.fn \in Nat /\ Top.fn > 0 /\ Top.fn \in 1..Len(fns) /\ Len(fns) \in Nat
      /\ DOMAIN fns = 1..Len(fns)
  BY <1>n, TopFacts, Shapes DEF Top
<1>2. /\ Len(env) \in Nat /\ Len(env) >= Top.fn /\ Len(env) \in DOMAIN env
      /\ DOMAIN env = 1..Len(env)
  BY <1>1
<1>3. \A d \in DOMAIN env : env[d].mod \in DOMAIN prog /\ env[d].mod \in Nat
  <2> TAKE d \in DOMAIN env
  <2>1. CASE d \in 1..Top.fn
    <3>1. d \in 1..Len(fns)
      BY <2>1, <1>1
    <3>2. fns[d].mod \in DOMAIN prog /\ fns[d].mod \in Nat
      BY <3>1, Shapes
    <3> QED  BY <2>1, <3>2
  <2>2. CASE d \notin 1..Top.fn
    <3>1. env[d].mod \in DOMAIN prog
      BY <2>2, <1>1, <1>2
    <3>2. env[d] \in EnvRecord
      BY <1>2
    <3> QED  BY <3>1, <3>2 DEF EnvRecord
  <2> QED  BY <2>1, <2>2
<1>4. /\ f \in FrameRecord
      /\ f.fn = Len(env) /\ f.mod = env[Len(env)].mod /\ f.scope = env[Len(env)].scope
      /\ f.node = node /\ f.at = 0 /\ f.vals = <<>>
  <2>1. env[Len(env)] \in EnvRecord
    BY <1>2
  <2>2. prog \in Seq(Seq(NodeRecord)) /\ env[Len(env)].mod \in DOMAIN prog
    BY <1>0, <1>2, <1>3, ProgramsAssumption DEF TypeOK
  <2>3. node \in Nat
    <3>1. prog[env[Len(env)].mod] \in Seq(NodeRecord)
      BY <2>2
    <3> QED  BY <3>1
  <2>4. <<>> \in Seq(Value)
    OBVIOUS
  <2> QED  BY <1>2, <2>1, <2>3, <2>4 DEF Frame, FrameRecord, EnvRecord
<1>5. /\ cstk' \in Seq(FrameRecord) /\ Len(cstk') = n + 1 /\ DOMAIN cstk' = 1..(n + 1)
      /\ \A i \in 1..(n - 1) : cstk'[i] = cstk[i]
      /\ cstk'[n].fn = Top.fn /\ cstk'[n].mod = Top.mod
      /\ cstk'[n].scope = Top.scope /\ cstk'[n].node = Top.node
      /\ cstk'[n].at = k /\ cstk'[n].vals = vals
      /\ cstk'[n + 1] = f /\ Top' = f
      /\ fns' = env /\ ret' = NoRet
  BY <1>n, <1>4, CallStack
<1> HIDE DEF f
<1>6. \A i \in 1..(n - 1) : /\ InCallee(cstk[i])' <=> InCallee(cstk[i])
                            /\ OpenScopes(cstk[i])' = OpenScopes(cstk[i])
                            /\ ArgsFit(cstk[i])' /\ Waiting(cstk[i])'
  <2> TAKE i \in 1..(n - 1)
  <2>0. i \in DOMAIN cstk /\ i \in DOMAIN cstk' /\ i < Len(cstk) /\ cstk'[i] = cstk[i]
    BY <1>n, <1>1, <1>5
  <2>1. ArgsFit(cstk[i]) /\ Waiting(cstk[i])
    BY <1>0, <2>0 DEF Suspended
  <2>2. OpenScopes(cstk[i])' = OpenScopes(cstk[i])
    BY <2>0 DEF OpenScopes, Node
  <2>3. GlobalsKept
    BY <1>0 DEF TypeOK, GlobalsKept
  <2> QED  BY <2>0, <2>1, <2>2, <2>3, ArgsKept
<1>7. /\ InCallee(cstk[n])' <=> In
      /\ OpenScopes(cstk[n])' = OpenAt(k)
  BY <1>5, TopFacts DEF InCallee, OpenScopes, OpenAt, Node, N, Arity
<1>8. ArgsFit(cstk[n])' /\ Waiting(cstk[n])'
  <2>1. CalleeIdx(cstk[n])' = CalleeIdx(Top)
    BY <1>5 DEF CalleeIdx, GlobalIdx, Node
  <2>2. Callee(cstk[n])' = Callee(Top)
    BY <2>1 DEF Callee
  <2>3. ParamNodes(cstk[n])' = ParamNodes(Top)
    BY <2>2 DEF ParamNodes, Node
  <2>4. CalleeOk(cstk[n])' = CalleeOk(Top)
    BY <2>1, <2>2 DEF CalleeOk
  <2>5. Arguing(cstk[n])' => N.type = "ECALL" /\ k <= Arity
    BY <1>5, <1>7, TopFacts DEF Arguing, Node, N
  <2>6. Arguing(cstk[n])' => NextParamOk(cstk[n])'
    BY <1>5, <2>3, <2>4, <2>5 DEF NextParamOk
  <2> QED  BY <2>6, <1>5 DEF Waiting, ArgsFit, NextParamOk
<1>9. /\ ~InCallee(cstk[n + 1])' /\ ArgsFit(cstk[n + 1])'
      /\ OpenScopes(cstk[n + 1])' = 0
  BY <1>4, <1>5 DEF InCallee, ArgsFit, OpenScopes
<1>10. \A i \in 1..(n + 1) : i \in 1..(n - 1) \/ i = n \/ i = n + 1
  OBVIOUS
<1>11. /\ \A i, j \in 1..n : i <= j => cstk[i].fn <= cstk[j].fn
       /\ \A i \in 1..n : cstk[i].fn \in 1..Top.fn
  <2>1. \A i, j \in 1..n : i <= j => cstk[i].fn <= cstk[j].fn
    BY <1>0, <1>1 DEF Suspended
  <2>2. ASSUME NEW i \in 1..n
        PROVE  cstk[i].fn \in 1..Top.fn
    <3>1. n \in 1..n /\ i <= n
      BY <1>n
    <3>2. cstk[i].fn \in 1..Len(fns)
      BY <1>n, Shapes
    <3> QED  BY <2>1, <3>1, <3>2, <1>1
  <2> QED  BY <2>1, <2>2
<1>12. \A i \in 1..n : cstk'[i].fn = cstk[i].fn /\ cstk'[i].mod = cstk[i].mod
                       /\ cstk'[i].scope = cstk[i].scope /\ cstk'[i].node = cstk[i].node
  <2>1. \A i \in 1..n : i \in 1..(n - 1) \/ i = n
    OBVIOUS
  <2> QED  BY <1>1, <1>5, <2>1
<1>13. TypeOK'
  BY <1>0, <1>5, PlainValues DEF TypeOK
<1>14. StackDiscipline'
  <2>1. \A i \in DOMAIN cstk' : /\ cstk'[i].fn \in DOMAIN fns'
                                /\ cstk'[i].mod = fns'[cstk'[i].fn].mod
    <3>1. ASSUME NEW i \in 1..n
          PROVE  cstk'[i].fn \in DOMAIN env /\ cstk'[i].mod = env[cstk'[i].fn].mod
      <4>1. cstk[i].mod = fns[cstk[i].fn].mod
        BY <1>0, <1>1 DEF StackDiscipline
      <4> QED  BY <1>1, <1>2, <1>11, <1>12, <4>1
    <3>2. f.fn \in DOMAIN env /\ f.mod = env[f.fn].mod
      BY <1>2, <1>4
    <3>3. \A i \in 1..(n + 1) : i \in 1..n \/ i = n + 1
      OBVIOUS
    <3> QED  BY <1>5, <3>1, <3>2, <3>3
  <2>2. \A i \in DOMAIN cstk' : i + 1 \in DOMAIN cstk' =>
          IF InCallee(cstk[i])'
          THEN cstk'[i + 1].fn = cstk'[i].fn + 1 /\ cstk'[i + 1].scope = 0
          ELSE /\ cstk'[i + 1].fn = cstk'[i].fn
               /\ cstk'[i + 1].scope = cstk'[i].scope + OpenScopes(cstk[i])'
    <3>1. ASSUME NEW i \in 1..(n - 1)
          PROVE  IF InCallee(cstk[i])'
                 THEN cstk'[i + 1].fn = cstk'[i].fn + 1 /\ cstk'[i + 1].scope = 0
                 ELSE /\ cstk'[i + 1].fn = cstk'[i].fn
                      /\ cstk'[i + 1].scope = cstk'[i].scope + OpenScopes(cstk[i])'
      <4>1. i \in 1..n /\ i + 1 \in 1..n /\ i \in DOMAIN cstk /\ i + 1 \in DOMAIN cstk
        BY <1>1
      <4>2. IF InCallee(cstk[i])
            THEN cstk[i + 1].fn = cstk[i].fn + 1 /\ cstk[i + 1].scope = 0
            ELSE /\ cstk[i + 1].fn = cstk[i].fn
                 /\ cstk[i + 1].scope = cstk[i].scope + OpenScopes(cstk[i])
        BY <1>0, <4>1 DEF StackDiscipline
      <4> QED  BY <1>6, <1>12, <4>1, <4>2
    <3>2. IF InCallee(cstk[n])'
          THEN f.fn = Top.fn + 1 /\ f.scope = 0
          ELSE f.fn = Top.fn /\ f.scope = Top.scope + OpenScopes(cstk[n])'
      BY <1>4, <1>7
    <3>3. \A i \in 1..(n + 1) : i + 1 \in 1..(n + 1) => i \in 1..(n - 1) \/ i = n
      OBVIOUS
    <3> QED  BY <1>5, <3>1, <3>2, <3>3
  <2>3. IF InCallee(Top)'
        THEN Len(fns') = Top.fn' + 1 /\ Env.scope' = 0
        ELSE Len(fns') = Top.fn' /\ Env.scope' = Top.scope' + OpenScopes(Top)'
    <3>1. ~InCallee(Top)' /\ OpenScopes(Top)' = 0
      BY <1>4, <1>5 DEF InCallee, OpenScopes
    <3>2. Env.scope' = f.scope /\ Len(fns') = f.fn /\ f.scope \in Nat
      BY <1>4, <1>5 DEF Env, FrameRecord
    <3> QED  BY <3>1, <3>2, <1>5
  <2> QED  BY <2>1, <2>2, <2>3 DEF StackDiscipline
<1>15. Placed'
  <2>1. \A d \in DOMAIN fns' : fns'[d].mod \in DOMAIN prog'
    BY <1>3, <1>5
  <2>2. \A i \in DOMAIN cstk' : cstk'[i].node \in DOMAIN prog'[cstk'[i].mod]
    <3>1. \A i \in 1..n : cstk'[i].node \in DOMAIN prog[cstk'[i].mod]
      BY <1>0, <1>1, <1>12 DEF Placed
    <3>2. f.node \in DOMAIN prog[f.mod]
      BY <1>4
    <3>3. \A i \in 1..(n + 1) : i \in 1..n \/ i = n + 1
      OBVIOUS
    <3> QED  BY <1>5, <3>1, <3>2, <3>3
  <2> QED  BY <1>0, <2>1, <2>2 DEF Placed, Node
<1>16. Suspended'
  <2>1. \A i \in DOMAIN cstk' : ArgsFit(cstk[i])'
    BY <1>5, <1>6, <1>8, <1>9, <1>10
  <2>2. \A i \in DOMAIN cstk' : i < Len(cstk') => Waiting(cstk[i])'
    BY <1>5, <1>6, <1>8, <1>10
  <2>3. \A i \in DOMAIN cstk' : i = Len(cstk') => ~InCallee(cstk[i])'
    BY <1>5, <1>9
  <2>4. \A i, j \in DOMAIN cstk' : i <= j => cstk'[i].fn <= cstk'[j].fn
    <3>1. \A i \in 1..n : cstk'[i].fn <= f.fn
      BY <1>1, <1>2, <1>4, <1>11, <1>12
    <3>2. \A i, j \in 1..n : i <= j => cstk'[i].fn <= cstk'[j].fn
      BY <1>11, <1>12
    <3>3. \A i \in 1..(n + 1) : i \in 1..n \/ i = n + 1
      OBVIOUS
    <3>4. f.fn <= f.fn
      BY <1>2, <1>4
    <3> QED  BY <1>5, <3>1, <3>2, <3>3, <3>4
  <2>5. \A i \in DOMAIN cstk' : InCallee(cstk[i])' => fns'[cstk'[i].fn].scope = cstk'[i].scope
    <3>1. ASSUME NEW i \in 1..(n - 1), InCallee(cstk[i])'
          PROVE  env[cstk[i].fn].scope = cstk[i].scope
      <4>1. i \in 1..n /\ i + 1 \in 1..n /\ i \in DOMAIN cstk /\ i + 1 \in DOMAIN cstk
        BY <1>1
      <4>2. InCallee(cstk[i])
        BY <1>6, <3>1
      <4>3. cstk[i + 1].fn = cstk[i].fn + 1 /\ fns[cstk[i].fn].scope = cstk[i].scope
        BY <1>0, <4>1, <4>2 DEF StackDiscipline, Suspended
      <4>4. cstk[i].fn \in 1..(Top.fn - 1)
        BY <1>1, <1>11, <4>1, <4>3
      <4> QED  BY <4>3, <4>4
    <3>2. InCallee(cstk[n])' => env[Top.fn].scope = Top.scope
      BY <1>7
    <3>3. \A i \in 1..(n + 1) : InCallee(cstk[i])' => i \in 1..(n - 1) \/ i = n
      BY <1>9, <1>10
    <3> QED  BY <1>5, <3>1, <3>2, <3>3
  <2>6. phase' = "run"
    BY DEF Running
  <2> QED  BY <1>5, <2>1, <2>2, <2>3, <2>4, <2>5, <2>6 DEF Suspended
<1> QED  BY <1>13, <1>14, <1>15, <1>16 DEF IInv

-----------------------------------------------------------------------------
(* Values and the heap. *)

LEMMA ValueFacts ==
  ASSUME live \subseteq Blocks
  PROVE
  /\ \A t \in ValTypes : Val(t) \in Value /\ Val(t).type = t
  /\ \A t \in ValTypes : NewVal(t) \in Value /\ NewVal(t).type = t
                         /\ (t = "string" => NewVal(t).str = NewBlock)
  /\ \A v \in Value : CopyVal(v) \in Value /\ CopyVal(v).type = v.type
                      /\ (v.type = "string" => CopyVal(v).str = NewBlock)
  /\ \A v \in Value \union {Unwritten} : Slot(v) \in Value
  /\ StrVal(NewBlock) \in Value /\ StrVal(NewBlock).type = "string"
  /\ StrVal(NewBlock).str = NewBlock
  /\ Null \in Value /\ Null.type = "null" /\ Unwritten.type = "unwritten"
<1>1. NewBlock \in Blocks \union {NoBlock}
  BY DEF NewBlock, HasRoom
<1>2. \A t \in ValTypes : Val(t) \in Value /\ Val(t).type = t
  BY PlainValues
<1>3. StrVal(NewBlock) \in Value /\ StrVal(NewBlock).type = "string"
      /\ StrVal(NewBlock).str = NewBlock
  BY <1>1 DEF StrVal, Value, AsWritten, ValTypes, PrimTypes
<1>4. \A t \in ValTypes : NewVal(t) \in Value /\ NewVal(t).type = t
                          /\ (t = "string" => NewVal(t).str = NewBlock)
  BY <1>2, <1>3 DEF NewVal
<1>5. \A v \in Value : CopyVal(v) \in Value /\ CopyVal(v).type = v.type
                       /\ (v.type = "string" => CopyVal(v).str = NewBlock)
  BY <1>3 DEF CopyVal
<1>6. Null \in Value /\ Null.type = "null" /\ Unwritten.type = "unwritten"
  BY PlainValues
<1>7. \A v \in Value \union {Unwritten} : Slot(v) \in Value
  BY <1>6 DEF Slot
<1> QED  BY <1>2, <1>3, <1>4, <1>5, <1>6, <1>7

LEMMA HeapTypes ==
  ASSUME live \subseteq Blocks, fault \in Faults,
         NEW made, NEW vs, Heap(made, vs),
         made.type = "string" => made.str = NewBlock
  PROVE  live' \subseteq Blocks /\ fault' \in Faults
BY DEF Heap, Taken, HasRoom, NewBlock, Faults

-----------------------------------------------------------------------------
(* The environments a handler leaves. *)

LEMMA OpenedFacts ==
  ASSUME IInv, Running, ~InCallee(Top)
  PROVE  /\ EnvsKept(fns) /\ fns[Len(fns)].scope = Env.scope
         /\ EnvsKept(Opened) /\ Opened[Len(fns)].scope = Env.scope + 1
         /\ Len(fns) = Top.fn
<1>1. /\ Len(fns) = Top.fn /\ fns \in Seq(EnvRecord) /\ Len(fns) \in DOMAIN fns
      /\ Env = fns[Len(fns)] /\ Env \in EnvRecord /\ DOMAIN fns = 1..Len(fns) /\ Len(fns) \in Nat
  BY ScopeOfTop, TopFacts, Shapes DEF IInv, TypeOK
<1>2. [Env EXCEPT !.scope = @ + 1] \in EnvRecord /\ Env.scope \in Nat
      /\ [Env EXCEPT !.scope = @ + 1].mod = Env.mod
      /\ [Env EXCEPT !.scope = @ + 1].scope = Env.scope + 1
  BY <1>1 DEF EnvRecord
<1>3. Opened = [fns EXCEPT ![Len(fns)] = [Env EXCEPT !.scope = @ + 1]]
  BY <1>1 DEF Opened
<1>4. Opened \in Seq(EnvRecord) /\ Len(Opened) = Len(fns)
  BY <1>1, <1>2, <1>3, ExceptSeq
<1>5. /\ Opened[Len(fns)] = [Env EXCEPT !.scope = @ + 1]
      /\ \A d \in 1..Len(fns) : d # Len(fns) => Opened[d] = fns[d]
  BY <1>1, <1>3
<1>6. \A d \in 1..(Len(fns) - 1) : d \in 1..Len(fns) /\ d # Len(fns)
  BY <1>1
<1> QED  BY <1>1, <1>2, <1>4, <1>5, <1>6 DEF EnvsKept

LEMMA ClosedFacts ==
  ASSUME IInv, Running, ~InCallee(Top), Env.scope > 0
  PROVE  /\ EnvsKept(Closed) /\ Closed[Len(fns)].scope = Env.scope - 1
         /\ Len(fns) = Top.fn
         /\ Closed[Len(fns)].syms = Prefix(Env.syms, KeptHere)
         /\ \A d \in 1..(Len(fns) - 1) : Closed[d] = fns[d]
<1> DEFINE e == [mod |-> Env.mod, scope |-> Env.scope - 1, syms |-> Prefix(Env.syms, KeptHere)]
<1>1. /\ Len(fns) = Top.fn /\ fns \in Seq(EnvRecord) /\ Len(fns) \in DOMAIN fns
      /\ Env = fns[Len(fns)] /\ Env \in EnvRecord /\ DOMAIN fns = 1..Len(fns) /\ Len(fns) \in Nat
  BY ScopeOfTop, TopFacts, Shapes DEF IInv, TypeOK
<1>2. Env.scope \in Nat /\ Env.syms \in Seq(SymRecord) /\ Len(Env.syms) \in Nat
  BY <1>1 DEF EnvRecord
<1>3. \A i \in 1..Len(Env.syms) : Env.syms[i].scope \in Nat
  <2> TAKE i \in 1..Len(Env.syms)
  <2>1. Env.syms[i] \in SymRecord
    BY <1>2
  <2> QED  BY <2>1 DEF SymRecord
<1>4. KeptHere \in 0..Len(Env.syms)
  BY <1>2, <1>3, KeptIndex DEF KeptHere
<1>5. Prefix(Env.syms, KeptHere) \in Seq(SymRecord)
  BY <1>2, <1>4, PrefixType
<1>6. e \in EnvRecord /\ e.mod = Env.mod /\ e.scope = Env.scope - 1
      /\ e.syms = Prefix(Env.syms, KeptHere)
  BY <1>1, <1>2, <1>5 DEF EnvRecord
<1>7. Closed = [fns EXCEPT ![Len(fns)] = e]
  BY DEF Closed
<1> HIDE DEF e
<1>8. Closed \in Seq(EnvRecord) /\ Len(Closed) = Len(fns)
  BY <1>1, <1>6, <1>7, ExceptSeq
<1>9. /\ Closed[Len(fns)] = e
      /\ \A d \in 1..Len(fns) : d # Len(fns) => Closed[d] = fns[d]
  BY <1>1, <1>7
<1>10. \A d \in 1..(Len(fns) - 1) : d \in 1..Len(fns) /\ d # Len(fns)
  BY <1>1
<1> QED  BY <1>1, <1>6, <1>8, <1>9, <1>10 DEF EnvsKept

-----------------------------------------------------------------------------
(* The steps of a handler. *)

\* The children a node of each type has.
LEMMA KidCounts ==
  ASSUME IInv, Running
  PROVE  /\ N.type \in {"FUNCDECL", "ETERNARY"} => Arity = 3
         /\ N.type = "FOR" => Arity = 4
         /\ N.type \in {"CTREE", "EACCESS"} => Arity \in {2, 3}
         /\ N.type \in {"LOCALDECL", "WHILE", "ECAST", "EADD"}
              \union Arithmetics \union Comparisons \union Logicals \union Assigns => Arity = 2
         /\ N.type \in {"ENEG", "ENOT"} => Arity = 1
         /\ N.type = "RETURN" => Arity \in {0, 1}
         /\ N.type \in {"ESYSTEM", "ECALL"} => Arity > 0
<1>1. Len(N.kids) \in Arities(N.type)
  BY TopFacts, NodeFacts DEF IInv, TypeOK, NodeOk, Node, N
<1>2. N.type \in {"FUNCDECL", "ETERNARY"} => Arities(N.type) = {3}
  BY DEF Arities, Arithmetics, Comparisons, Logicals, Assigns
<1>3. N.type = "FOR" => Arities(N.type) = {4}
  BY DEF Arities, Arithmetics, Comparisons, Logicals, Assigns
<1>4. N.type \in {"CTREE", "EACCESS"} => Arities(N.type) = {2, 3}
  BY DEF Arities, Arithmetics, Comparisons, Logicals, Assigns
<1>5. N.type \in {"LOCALDECL", "WHILE", "ECAST", "EADD"}
        \union Arithmetics \union Comparisons \union Logicals \union Assigns
        => Arities(N.type) = {2}
  BY DEF Arities, Arithmetics, Comparisons, Logicals, Assigns
<1>6. N.type \in {"ENEG", "ENOT"} => Arities(N.type) = {1}
  BY DEF Arities, Arithmetics, Comparisons, Logicals, Assigns
<1>7. N.type = "RETURN" => Arities(N.type) = {0, 1}
  BY DEF Arities, Arithmetics, Comparisons, Logicals, Assigns
<1>8. N.type \in {"ESYSTEM", "ECALL"} => Arities(N.type) = Nat \ {0}
  BY DEF Arities, Arithmetics, Comparisons, Logicals, Assigns
<1>9. Arity = Len(N.kids)
  BY DEF Arity
<1>10. N.type \in {"ESYSTEM", "ECALL"} => Arity > 0
  BY <1>1, <1>8, <1>9, TopFacts
<1>11. N.type = "RETURN" => Arity \in {0, 1}
  BY <1>1, <1>7, <1>9
<1>12. N.type \in {"CTREE", "EACCESS"} => Arity \in {2, 3}
  BY <1>1, <1>4, <1>9
<1>13. /\ N.type \in {"FUNCDECL", "ETERNARY"} => Arity = 3
       /\ N.type = "FOR" => Arity = 4
       /\ N.type \in {"ENEG", "ENOT"} => Arity = 1
  BY <1>1, <1>2, <1>3, <1>6, <1>9
<1>14. N.type \in {"LOCALDECL", "WHILE", "ECAST", "EADD"}
        \union Arithmetics \union Comparisons \union Logicals \union Assigns => Arity = 2
  BY <1>1, <1>5, <1>9
<1> QED  BY <1>10, <1>11, <1>12, <1>13, <1>14

\* The scopes Top has open.
OpenNow == IF Top.at = 0 THEN 0 ELSE OpenAt(Top.at)

LEMMA CallIn ==
  ASSUME IInv, Running, ~InCallee(Top), Intact,
         NEW env \in {fns, Opened}, NEW k \in 1..Arity, NEW vals \in Seq(Value),
         CallNode(env, k, Kid(k), vals),
         OpenAt(k) = OpenNow + (IF env = fns THEN 0 ELSE 1),
         N.type = "ECALL" => CalleeOk(Top) /\ Len(vals) < Len(ParamNodes(Top)),
         live' \subseteq Blocks, fault' \in Faults
  PROVE  IInv'
<1>0. Opened # fns
  BY OpenedFacts, TopFacts DEF EnvRecord
<1>1. EnvsKept(env) /\ Len(fns) = Top.fn /\ Top.fn \in Nat
      /\ env[Len(env)].scope = Env.scope + (IF env = fns THEN 0 ELSE 1)
  <2>0. Env.scope \in Nat
    BY TopFacts DEF EnvRecord
  <2>1. CASE env = fns
    BY <2>0, <2>1, OpenedFacts, TopFacts DEF EnvsKept
  <2>2. CASE env = Opened
    BY <1>0, <2>2, OpenedFacts, TopFacts DEF EnvsKept
  <2> QED  BY <2>1, <2>2
<1>2. Env.scope = Top.scope + OpenNow
  BY ScopeOfTop DEF OpenNow
<1>3. Top.scope \in Nat /\ OpenNow \in Nat /\ k \in Nat /\ k > 0 /\ k <= Arity
  BY TopFacts DEF FrameRecord, OpenNow, OpenAt
<1>4. env[Len(env)].scope = Top.scope + OpenAt(k)
  BY <1>1, <1>2, <1>3
<1>5. Kid(k) \in DOMAIN prog[env[Len(env)].mod]
  BY <1>1, TopFacts DEF EnvsKept
<1>6. ~(N.type = "ECALL" /\ k > Arity) /\ env \in Seq(EnvRecord) /\ Len(env) = Top.fn
      /\ (\A d \in 1..Top.fn : env[d].mod = fns[d].mod)
      /\ (\A d \in 1..(Top.fn - 1) : env[d].scope = fns[d].scope)
  BY <1>1, <1>3, TopFacts DEF EnvsKept
<1>7. UNCHANGED <<prog, phase, walk, globals>>
  BY DEF Intact
<1> QED  BY <1>3, <1>4, <1>5, <1>6, <1>7, CallKeeps

LEMMA CallChild ==
  ASSUME IInv, Running, ~InCallee(Top), Intact,
         NEW k \in 1..Arity, NEW vals \in Seq(Value),
         CallNode(fns, k, Kid(k), vals), OpenAt(k) = OpenNow,
         N.type = "ECALL" => CalleeOk(Top) /\ Len(vals) < Len(ParamNodes(Top)),
         live' \subseteq Blocks, fault' \in Faults
  PROVE  IInv'
<1>1. OpenNow = OpenNow + 0
  BY TopFacts DEF OpenNow, OpenAt
<1> QED  BY <1>1, CallIn

LEMMA CallOpened ==
  ASSUME IInv, Running, ~InCallee(Top), Intact, N.type # "ECALL",
         NEW k \in 1..Arity, CallNode(Opened, k, Kid(k), <<>>), OpenAt(k) = OpenNow + 1,
         live' \subseteq Blocks, fault' \in Faults
  PROVE  IInv'
<1>1. Opened # fns
  BY OpenedFacts, TopFacts DEF EnvRecord
<1>2. <<>> \in Seq(Value)
  OBVIOUS
<1> QED  BY <1>1, <1>2, CallIn

LEMMA LeaveChild ==
  ASSUME IInv, Running, ~InCallee(Top), UNCHANGED <<prog, phase, walk>>, GlobalsKept,
         \/ EnvsKept(fns') /\ fns'[Top.fn].scope = Env.scope /\ OpenNow = 0
         \/ fns' = Closed /\ OpenNow = 1,
         NEW act \in Actions, NEW val \in Value \union {Unwritten}, Ret(act, val) # NoRet,
         Leave(act, val),
         live' \subseteq Blocks, fault' \in Faults
  PROVE  IInv'
<1>1. Env.scope = Top.scope + OpenNow /\ Top.scope \in Nat /\ Env.scope \in Nat
  BY ScopeOfTop, TopFacts DEF OpenNow, FrameRecord, EnvRecord
<1>2. EnvsKept(fns') /\ fns'[Top.fn].scope = Top.scope
  <2>1. CASE EnvsKept(fns') /\ fns'[Top.fn].scope = Env.scope /\ OpenNow = 0
    BY <1>1, <2>1
  <2>2. CASE fns' = Closed /\ OpenNow = 1
    <3>1. Env.scope > 0 /\ Env.scope - 1 = Top.scope
      BY <1>1, <2>2
    <3> QED  BY <2>2, <3>1, ClosedFacts
  <2> QED  BY <2>1, <2>2
<1>3. /\ ret' \in [act : Actions, val : Value \union {Unwritten}] /\ ret' # NoRet
      /\ cstk' = SubSeq(cstk, 1, Len(cstk) - 1)
  <2>1. ret' = [act |-> act, val |-> val]
    BY DEF Leave, Ret
  <2> QED  BY <2>1 DEF Leave
<1> QED  BY <1>2, <1>3, LeaveKeeps

LEMMA RetFacts ==
  ASSUME IInv
  PROVE  /\ ret.act \in Actions /\ ret.val \in Value \union {Unwritten}
         /\ Ret(ret.act, ret.val) = ret
         /\ \A act \in {"none", "return", "stop", "next"} : \A val : Ret(act, val) # NoRet
         /\ Unwritten \notin Value
         /\ live \subseteq Blocks /\ fault \in Faults
<1>1. ret \in [act : Actions, val : Value \union {Unwritten}]
  BY DEF IInv, TypeOK
<1>2. \A act \in {"none", "return", "stop", "next"} : \A val : Ret(act, val) # NoRet
  BY DEF Ret, NoRet
<1>3. Unwritten \notin Value
  BY PlainValues
<1> QED  BY <1>1, <1>2, <1>3 DEF Ret, IInv, TypeOK

LEMMA IntactKept ==
  ASSUME IInv, Intact
  PROVE  GlobalsKept /\ UNCHANGED <<prog, phase, walk>>
BY DEF Intact, GlobalsKept, IInv, TypeOK

\* The type a node's first child, or a cast's second, names.
LEMMA TypedKids ==
  ASSUME IInv, Running
  PROVE  /\ N.type \in {"FUNCDECL", "LOCALDECL", "ESYSTEM"} =>
              Prim(Top.mod, Kid(1)) \in PrimTypes
         /\ N.type = "ECAST" => Prim(Top.mod, Kid(2)) \in PrimTypes
<1>1. \A k \in 1..Arity : prog[Top.mod][Kid(k)].type \in ChildTypes(N.type, k)
  BY TopFacts, ChildFacts DEF IInv, TypeOK, Node, N, Arity, Kid
<1>2. /\ N.type \in {"FUNCDECL", "LOCALDECL", "ESYSTEM"} => ChildTypes(N.type, 1) = {"TYPE"}
      /\ N.type = "ECAST" => ChildTypes(N.type, 2) = {"TYPE"}
  BY TypeChildren
<1>6. /\ N.type \in {"FUNCDECL", "LOCALDECL", "ESYSTEM"} => Arity >= 1
      /\ N.type = "ECAST" => Arity >= 2
  BY KidCounts, TopFacts
<1>3. \A k \in 1..Arity : prog[Top.mod][Kid(k)].type = "TYPE" =>
        prog[Top.mod][Kid(k)].tok \in PrimTypes
  <2> TAKE k \in 1..Arity
  <2>1. NodeOk(prog[Top.mod], Kid(k))
    BY TopFacts, NodeFacts DEF IInv, TypeOK
  <2> QED  BY <2>1 DEF NodeOk
<1>4. Arity >= 1 => 1 \in 1..Arity
  BY TopFacts
<1>5. Arity >= 2 => 2 \in 1..Arity
  BY TopFacts
<1> QED  BY <1>1, <1>2, <1>3, <1>4, <1>5, <1>6 DEF Prim, Node

LEMMA FuncDeclKeeps ==
  ASSUME IInv, FuncDecl
  PROVE  IInv'
<1>1. Running /\ N.type = "FUNCDECL" /\ ~InCallee(Top) /\ OpenNow = 0
      /\ OpenAt(3) = 0 /\ OpenAt(Top.at) = 0 /\ Intact
  BY ScopeOfTop DEF FuncDecl, Starting, Resuming, Running, OpenNow, OpenAt
<1>2. CASE Starting({"FUNCDECL"}) /\ Call(fns, 3) /\ NoHeap
  <2>1. 3 \in 1..Arity /\ <<>> \in Seq(Value)
    BY <1>1, KidCounts
  <2>2. live' \subseteq Blocks /\ fault' \in Faults
    BY <1>2, RetFacts DEF NoHeap
  <2> QED  BY <1>1, <1>2, <2>1, <2>2, CallChild DEF Call
<1>3. CASE /\ Resuming({"FUNCDECL"}) /\ UNCHANGED fns
           /\ LET v == IF ret.act = "return" THEN ret.val ELSE FallThrough
              IN /\ IF ret.act = "return" THEN NoHeap ELSE Heap(v, <<>>)
                 /\ Leave("none", v)
  <2> DEFINE v == IF ret.act = "return" THEN ret.val ELSE FallThrough
  <2>1. /\ FallThrough \in Value
        /\ FallThrough.type = "string" => FallThrough.str = NewBlock
    BY <1>1, TypedKids, ValueFacts, RetFacts DEF FallThrough, ValTypes
  <2>2. v \in Value \union {Unwritten} /\ Ret("none", v) # NoRet
    BY <2>1, RetFacts
  <2>3. live' \subseteq Blocks /\ fault' \in Faults
    BY <1>3, <2>1, RetFacts, HeapTypes DEF NoHeap
  <2>4. EnvsKept(fns') /\ fns'[Top.fn].scope = Env.scope
    BY <1>1, <1>3, OpenedFacts
  <2>5. GlobalsKept /\ UNCHANGED <<prog, phase, walk>>
    BY <1>1, IntactKept
  <2> HIDE DEF v
  <2> QED  BY <1>1, <1>3, <2>2, <2>3, <2>4, <2>5, LeaveChild DEF v, Actions
<1> QED  BY <1>2, <1>3 DEF FuncDecl

LEMMA NoHeapKept ==
  ASSUME IInv, NoHeap
  PROVE  live' \subseteq Blocks /\ fault' \in Faults
BY RetFacts DEF NoHeap

LEMMA ReleaseKept ==
  ASSUME IInv, NEW vs, Heap(Null, vs)
  PROVE  live' \subseteq Blocks /\ fault' \in Faults
BY RetFacts, ValueFacts, HeapTypes

\* Returning from a handler that has no scope open.
LEMMA LeavePlain ==
  ASSUME IInv, Running, ~InCallee(Top), OpenNow = 0, UNCHANGED fns, Intact,
         NEW act \in Actions, NEW val \in Value \union {Unwritten}, Ret(act, val) # NoRet,
         Leave(act, val), live' \subseteq Blocks, fault' \in Faults
  PROVE  IInv'
<1>1. EnvsKept(fns') /\ fns'[Top.fn].scope = Env.scope
  BY OpenedFacts
<1> QED  BY <1>1, IntactKept, LeaveChild

LEMMA LeaveScopeKeeps ==
  ASSUME IInv, Running, ~InCallee(Top), OpenNow = 1,
         NEW act \in Actions, NEW val \in Value \union {Unwritten}, Ret(act, val) # NoRet,
         NEW vs, LeaveScope(act, val, vs)
  PROVE  IInv'
<1>1. live' \subseteq Blocks /\ fault' \in Faults
  BY ReleaseKept DEF LeaveScope
<1>2. fns' = Closed /\ Leave(act, val) /\ Intact
  BY DEF LeaveScope
<1> QED  BY <1>1, <1>2, IntactKept, LeaveChild

LEMMA CtreeKeeps ==
  ASSUME IInv, Ctree
  PROVE  IInv'
<1>1. Running /\ N.type = "CTREE" /\ ~InCallee(Top) /\ Intact /\ Arity \in {2, 3}
  BY ScopeOfTop, KidCounts DEF Ctree, Starting, Resuming, Running
<1>2. OpenAt(1) = 0 /\ OpenAt(2) = 1 /\ OpenAt(3) = 1
      /\ (Top.at \in {0, 1} => OpenNow = 0) /\ (Top.at \in {2, 3} => OpenNow = 1)
      /\ <<>> \in Seq(Value) /\ Unwritten \in Value \union {Unwritten}
      /\ "none" \in Actions
  BY <1>1 DEF OpenNow, OpenAt, Actions
<1>3. CASE Starting({"CTREE"}) /\ Call(fns, 1) /\ NoHeap
  <2>1. 1 \in 1..Arity /\ OpenNow = OpenAt(1)
    BY <1>1, <1>2, <1>3 DEF Starting
  <2> QED  BY <1>1, <1>2, <1>3, <2>1, NoHeapKept, CallChild DEF Call
<1>4. CASE Top.at = 1 /\ Call(Opened, 2) /\ NoHeap
  <2>1. 2 \in 1..Arity /\ OpenAt(2) = OpenNow + 1
    BY <1>1, <1>2, <1>4
  <2> QED  BY <1>1, <1>2, <1>4, <2>1, NoHeapKept, CallOpened DEF Call
<1>5. CASE Top.at = 1 /\ Arity = 3 /\ Call(Opened, 3) /\ NoHeap
  <2>1. 3 \in 1..Arity /\ OpenAt(3) = OpenNow + 1
    BY <1>1, <1>2, <1>5
  <2> QED  BY <1>1, <1>2, <1>5, <2>1, NoHeapKept, CallOpened DEF Call
<1>6. CASE Top.at = 1 /\ Leave("none", Unwritten) /\ UNCHANGED fns /\ NoHeap
  BY <1>1, <1>2, <1>6, NoHeapKept, RetFacts, LeavePlain
<1>7. CASE Resuming({"CTREE"}) /\ Top.at \in {2, 3} /\ Heap(Null, Dropped) /\ fns' = Closed
           /\ Leave(ret.act, ret.val)
  <2>1. Ret(ret.act, ret.val) # NoRet /\ OpenNow = 1
    BY <1>2, <1>7, RetFacts DEF Resuming
  <2> QED  BY <1>1, <1>7, <2>1, RetFacts, ReleaseKept, IntactKept, LeaveChild
<1> QED  BY <1>3, <1>4, <1>5, <1>6, <1>7 DEF Ctree

LEMMA WhileKeeps ==
  ASSUME IInv, While
  PROVE  IInv'
<1>1. Running /\ N.type = "WHILE" /\ ~InCallee(Top) /\ Arity = 2
  BY ScopeOfTop, KidCounts DEF While, Starting, Resuming, Running
<1>2. OpenAt(1) = 1 /\ OpenAt(2) = 1
      /\ (Top.at = 0 => OpenNow = 0) /\ (Top.at \in {1, 2} => OpenNow = 1)
      /\ <<>> \in Seq(Value) /\ Unwritten \in Value \union {Unwritten}
      /\ "none" \in Actions /\ "return" \in Actions /\ 1 \in 1..Arity /\ 2 \in 1..Arity
  BY <1>1 DEF OpenNow, OpenAt, Actions
<1>3. Slot(ret.val) \in Value \union {Unwritten}
  BY RetFacts, ValueFacts
<1>4. CASE Top.at = 0 /\ Call(Opened, 1) /\ NoHeap /\ Intact
  BY <1>1, <1>2, <1>4, NoHeapKept, CallOpened DEF Call
<1>5. CASE Top.at = 1 /\ Call(fns, 2) /\ NoHeap /\ Intact
  BY <1>1, <1>2, <1>5, NoHeapKept, CallChild DEF Call
<1>6. CASE Top.at = 2 /\ Call(fns, 1) /\ Heap(Null, <<Slot(ret.val)>>) /\ Intact
  BY <1>1, <1>2, <1>6, ReleaseKept, CallChild DEF Call
<1>7. ASSUME Top.at \in {1, 2}, NEW vs, LeaveScope("none", Unwritten, vs)
      PROVE  IInv'
  BY <1>1, <1>2, <1>7, RetFacts, LeaveScopeKeeps
<1>8. CASE Top.at = 2 /\ LeaveScope("return", Slot(ret.val), <<>>)
  BY <1>1, <1>2, <1>3, <1>8, RetFacts, LeaveScopeKeeps
<1> QED  BY <1>4, <1>5, <1>6, <1>7, <1>8 DEF While, Starting

LEMMA ForKeeps ==
  ASSUME IInv, For
  PROVE  IInv'
<1>1. Running /\ N.type = "FOR" /\ ~InCallee(Top) /\ Arity = 4
  BY ScopeOfTop, KidCounts DEF For, Starting, Resuming, Running
<1>2. (\A k \in 1..4 : OpenAt(k) = 1)
      /\ (Top.at = 0 => OpenNow = 0) /\ (Top.at \in 1..4 => OpenNow = 1)
      /\ <<>> \in Seq(Value) /\ Unwritten \in Value \union {Unwritten}
      /\ "none" \in Actions /\ "return" \in Actions
      /\ 1 \in 1..Arity /\ 2 \in 1..Arity /\ 3 \in 1..Arity /\ 4 \in 1..Arity
  BY <1>1 DEF OpenNow, OpenAt, Actions
<1>3. /\ Slot(ret.val) \in Value \union {Unwritten} /\ <<Slot(ret.val)>> \in Seq(Value)
  BY RetFacts, ValueFacts
<1>4. CASE Top.at = 0 /\ Call(Opened, 1) /\ NoHeap /\ Intact
  BY <1>1, <1>2, <1>4, NoHeapKept, CallOpened DEF Call
<1>5. CASE Top.at = 1 /\ Call(fns, 2) /\ Heap(Null, <<Slot(ret.val)>>) /\ Intact
  BY <1>1, <1>2, <1>5, ReleaseKept, CallChild DEF Call
<1>6. CASE Top.at = 2 /\ Call(fns, 4) /\ NoHeap /\ Intact
  BY <1>1, <1>2, <1>6, NoHeapKept, CallChild DEF Call
<1>7. ASSUME Top.at \in {2, 4}, NEW vs, LeaveScope("none", Unwritten, vs)
      PROVE  IInv'
  BY <1>1, <1>2, <1>7, RetFacts, LeaveScopeKeeps
<1>8. CASE Top.at = 4 /\ LeaveScope("return", Slot(ret.val), <<>>)
  BY <1>1, <1>2, <1>3, <1>8, RetFacts, LeaveScopeKeeps
<1>9. CASE Top.at = 4 /\ CallNode(fns, 3, Kid(3), <<Slot(ret.val)>>)
           /\ Heap(Null, <<Slot(ret.val)>>) /\ Intact
  BY <1>1, <1>2, <1>3, <1>9, ReleaseKept, CallChild
<1>10. ASSUME Top.at = 3, Call(fns, 2), NEW vs, Heap(Null, vs), Intact
       PROVE  IInv'
  BY <1>1, <1>2, <1>10, ReleaseKept, CallChild DEF Call
<1> QED  BY <1>4, <1>5, <1>6, <1>7, <1>8, <1>9, <1>10 DEF For, Starting

LEMMA BreakContinueKeep ==
  ASSUME IInv, Break \/ Continue
  PROVE  IInv'
<1>1. Running /\ N.type \in {"BREAK", "CONTINUE"} /\ ~InCallee(Top) /\ OpenNow = 0
      /\ "stop" \in Actions /\ "next" \in Actions
  BY ScopeOfTop DEF Break, Continue, Starting, Running, OpenNow, Actions
<1>2. Ret("stop", Unwritten) # NoRet /\ Ret("next", Unwritten) # NoRet
  BY RetFacts
<1>3. CASE Break
  BY <1>1, <1>2, <1>3, NoHeapKept, LeavePlain DEF Break
<1>4. CASE Continue
  BY <1>1, <1>2, <1>4, NoHeapKept, LeavePlain DEF Continue
<1> QED  BY <1>3, <1>4

LEMMA BlockKeeps ==
  ASSUME IInv, Block
  PROVE  IInv'
<1>1. Running /\ N.type = "BLOCK" /\ ~InCallee(Top) /\ Arity \in Nat /\ Top.at \in Nat
  BY ScopeOfTop, TopFacts DEF Block, Starting, Resuming, Running, FrameRecord
<1>2. (\A k \in Nat : OpenAt(k) = 1)
      /\ (Top.at = 0 => OpenNow = 0) /\ (Top.at > 0 => OpenNow = 1)
      /\ <<>> \in Seq(Value) /\ Unwritten \in Value \union {Unwritten}
      /\ {"none", "return", "next", "stop"} \subseteq Actions
  BY <1>1 DEF OpenNow, OpenAt, Actions
<1>3. Slot(ret.val) \in Value \union {Unwritten}
  BY RetFacts, ValueFacts
<1>w. ret # NoRet => Top.at > 0
  <2>1. Len(cstk) \in DOMAIN cstk
    BY <1>1, TopFacts
  <2> QED  BY <2>1 DEF IInv, Suspended, Waiting, Top
<1>4. CASE Top.at = 0 /\ Arity > 0 /\ Call(Opened, 1) /\ NoHeap /\ Intact
  <2>1. 1 \in 1..Arity /\ OpenAt(1) = OpenNow + 1
    BY <1>1, <1>2, <1>4
  <2> QED  BY <1>1, <1>2, <1>4, <2>1, NoHeapKept, CallOpened DEF Call
<1>5. CASE Top.at = 0 /\ Leave("none", Unwritten) /\ UNCHANGED fns /\ NoHeap /\ Intact
  BY <1>1, <1>2, <1>5, NoHeapKept, RetFacts, LeavePlain
<1>6. ASSUME Top.at > 0, NEW act \in {"none", "return", "next", "stop"},
             NEW val \in Value \union {Unwritten}, NEW vs, LeaveScope(act, val, vs)
      PROVE  IInv'
  <2>1. act \in Actions /\ Ret(act, val) # NoRet /\ OpenNow = 1
    BY <1>2, <1>6, RetFacts
  <2> QED  BY <1>1, <1>6, <2>1, LeaveScopeKeeps
<1>7. CASE Top.at > 0 /\ Top.at < Arity /\ Call(fns, Top.at + 1)
           /\ Heap(Null, <<Slot(ret.val)>>) /\ Intact
  <2>1. Top.at + 1 \in 1..Arity /\ OpenAt(Top.at + 1) = OpenNow
    BY <1>1, <1>2, <1>7
  <2> QED  BY <1>1, <1>2, <1>7, <2>1, ReleaseKept, CallChild DEF Call
<1>8. CASE Resuming({"BLOCK"})
           /\ LET v == Slot(ret.val)
              IN \/ ret.act = "return" /\ LeaveScope("return", v, <<>>)
                 \/ /\ ret.act \in {"next", "stop"}
                    /\ LeaveScope(ret.act, Unwritten, <<v>>)
                 \/ /\ ret.act = "none" /\ Top.at = Arity
                    /\ LeaveScope("none", Unwritten, <<v>>)
                 \/ /\ ret.act = "none" /\ Top.at < Arity
                    /\ Heap(Null, <<v>>)
                    /\ Call(fns, Top.at + 1)
                    /\ Intact
  <2>1. Top.at > 0
    BY <1>8, <1>w DEF Resuming
  <2>2. CASE LeaveScope("return", Slot(ret.val), <<>>)
    BY <2>1, <2>2, <1>3, <1>6
  <2>3. CASE ret.act \in {"next", "stop"} /\ LeaveScope(ret.act, Unwritten, <<Slot(ret.val)>>)
    BY <2>1, <2>3, <1>2, <1>6
  <2>4. CASE LeaveScope("none", Unwritten, <<Slot(ret.val)>>)
    BY <2>1, <2>4, <1>2, <1>6
  <2> QED  BY <1>7, <1>8, <2>1, <2>2, <2>3, <2>4
<1> QED  BY <1>4, <1>5, <1>8 DEF Block, Starting

-----------------------------------------------------------------------------
(* Operands, calls and expressions. *)

\* The function a call names is in the program, with its parameters and its body.
LEMMA CalleeFacts ==
  ASSUME IInv, NEW f, CalleeOk(f)
  PROVE  /\ CalleeIdx(f) \in 1..Len(globals)
         /\ Callee(f).mod \in DOMAIN prog /\ Callee(f).mod \in Nat
         /\ Callee(f).node \in DOMAIN prog[Callee(f).mod]
         /\ ParamNodes(f) \in Seq(Nat)
         /\ \A i \in 1..Len(ParamNodes(f)) : ParamNodes(f)[i] \in DOMAIN prog[Callee(f).mod]
<1> DEFINE m == Callee(f).mod
           n == Callee(f).node
<1>1. CalleeIdx(f) \in 1..Len(globals)
  BY Shapes, FindSymIndex DEF CalleeOk, CalleeIdx, GlobalIdx
<1>2. /\ m \in DOMAIN prog /\ n \in DOMAIN prog[m] /\ Node(m, n).type = "FUNCDECL"
  BY <1>1, Shapes DEF CalleeOk, Callee, IInv, Placed
<1> HIDE DEF m, n
<1>3. /\ m \in Nat /\ Node(m, n) \in NodeRecord /\ NodeOk(prog[m], n)
      /\ \A k \in 1..Len(Node(m, n).kids) : Node(m, n).kids[k] \in DOMAIN prog[m]
  BY <1>2, NodeFacts DEF IInv, TypeOK
<1>4. Len(Node(m, n).kids) = 3
  <2>1. Arities("FUNCDECL") = {3}
    BY DEF Arities, Arithmetics, Comparisons, Logicals, Assigns
  <2> QED  BY <2>1, <1>2, <1>3 DEF NodeOk, Node
<1>5. Node(m, n).kids[2] \in DOMAIN prog[m]
  BY <1>3, <1>4
<1>6. /\ Node(m, Node(m, n).kids[2]) \in NodeRecord
      /\ \A k \in 1..Len(Node(m, Node(m, n).kids[2]).kids) :
           Node(m, Node(m, n).kids[2]).kids[k] \in DOMAIN prog[m]
  BY <1>2, <1>5, NodeFacts DEF IInv, TypeOK
<1>7. ParamNodes(f) = Node(m, Node(m, n).kids[2]).kids
  BY DEF ParamNodes, m, n
<1> QED  BY <1>1, <1>2, <1>3, <1>6, <1>7 DEF m, n, NodeRecord

LEMMA OperandFacts ==
  ASSUME IInv, Running, N.type \in OperandTypes
  PROVE  /\ FirstOperand \in Nat /\ LastOperand \in Nat
         /\ FirstOperand >= 1 /\ LastOperand <= Arity
         /\ (N.type \in {"ECALL", "ESYSTEM"} => Operands = Arity - 1)
         /\ (N.type = "RETURN" => Operands = Arity /\ Arity \in {0, 1})
         /\ (N.type \in {"LOCALDECL", "ENEG", "ENOT", "ECAST"} \union Assigns => Operands = 1)
         /\ (N.type \in Binaries => Operands = 2)
         /\ (N.type = "EACCESS" => Operands \in {2, 3})
<1>1. FirstOperand \in {1, 2} /\ Arity \in Nat
  BY TopFacts DEF FirstOperand
<1>2. CASE N.type \in {"ECALL", "ESYSTEM"}
  <2>1. FirstOperand = 2 /\ LastOperand = Arity /\ Arity > 0
    BY <1>2, KidCounts DEF FirstOperand, LastOperand, Assigns, Binaries, Arithmetics, Comparisons, Logicals
  <2> QED  BY <1>1, <1>2, <2>1 DEF Operands, Assigns, Binaries, Arithmetics, Comparisons, Logicals
<1>3. CASE N.type = "RETURN"
  <2>1. FirstOperand = 1 /\ LastOperand = Arity /\ Arity \in {0, 1}
    BY <1>3, KidCounts DEF FirstOperand, LastOperand, Assigns, Binaries, Arithmetics, Comparisons, Logicals
  <2> QED  BY <1>1, <1>3, <2>1 DEF Operands, Assigns, Binaries, Arithmetics, Comparisons, Logicals
<1>4. CASE N.type = "EACCESS"
  <2>1. FirstOperand = 1 /\ LastOperand = Arity /\ Arity \in {2, 3}
    BY <1>4, KidCounts DEF FirstOperand, LastOperand, Assigns, Binaries, Arithmetics, Comparisons, Logicals
  <2> QED  BY <1>1, <1>4, <2>1 DEF Operands, Assigns, Binaries, Arithmetics, Comparisons, Logicals
<1>5. CASE N.type \in {"ENEG", "ENOT", "ECAST"}
  <2>1. FirstOperand = 1 /\ LastOperand = 1 /\ Arity \in {1, 2}
    BY <1>5, KidCounts DEF FirstOperand, LastOperand, Assigns
  <2> QED  BY <1>1, <1>5, <2>1 DEF Operands, Assigns, Binaries, Arithmetics, Comparisons, Logicals
<1>6. CASE N.type \in Binaries
  <2>1. FirstOperand = 1 /\ LastOperand = 2 /\ Arity = 2
    BY <1>6, KidCounts DEF FirstOperand, LastOperand, Assigns, Binaries, Arithmetics, Comparisons, Logicals
  <2> QED  BY <1>1, <1>6, <2>1 DEF Operands, Assigns, Binaries, Arithmetics, Comparisons, Logicals
<1>7. CASE N.type \in Assigns \union {"LOCALDECL"}
  <2>1. FirstOperand = 2 /\ LastOperand = 2 /\ Arity = 2
    BY <1>7, KidCounts DEF FirstOperand, LastOperand, Assigns, Binaries, Arithmetics, Comparisons, Logicals
  <2> QED  BY <1>1, <1>7, <2>1 DEF Operands, Assigns, Binaries, Arithmetics, Comparisons, Logicals
<1> QED  BY <1>2, <1>3, <1>4, <1>5, <1>6, <1>7 DEF OperandTypes

\* A handler without a scope of its own that runs and has not called a function.
LEMMA PlainFacts ==
  ASSUME IInv, Running, N.type \notin {"WHILE", "FOR", "BLOCK", "CTREE"}
  PROVE  /\ ret = NoRet => ~InCallee(Top)
         /\ OpenNow = 0 /\ \A k : OpenAt(k) = 0
         /\ Top.vals \in Seq(Value)
         /\ \A i \in 1..Len(Top.vals) : Top.vals[i] \in Value
BY ScopeOfTop, TopFacts DEF OpenNow, OpenAt, FrameRecord

LEMMA EvalOperandKeeps ==
  ASSUME IInv, EvalOperand
  PROVE  IInv'
<1> DEFINE k == FirstOperand + Len(Top.vals)
<1>1. /\ Running /\ ret = NoRet /\ N.type \in OperandTypes /\ Len(Top.vals) < Operands
      /\ N.type = "ECALL" => NextParamOk(Top)
      /\ CallNode(fns, k, Kid(k), Top.vals) /\ NoHeap /\ Intact
  BY DEF EvalOperand
<1>2. /\ ~InCallee(Top) /\ OpenNow = 0 /\ OpenAt(k) = 0
      /\ Top.vals \in Seq(Value)
  BY <1>1, PlainFacts DEF OperandTypes, Assigns, Binaries, Arithmetics, Comparisons, Logicals
<1>3. k \in 1..Arity
  BY <1>1, <1>2, OperandFacts, TopFacts DEF Operands
<1>4. N.type = "ECALL" => CalleeOk(Top) /\ Len(Top.vals) < Len(ParamNodes(Top))
  BY <1>1 DEF NextParamOk
<1> HIDE DEF k
<1> QED  BY <1>1, <1>2, <1>3, <1>4, NoHeapKept, CallChild

\* An expression that writes its value.
LEMMA YieldKeeps ==
  ASSUME IInv, Running, ret = NoRet, N.type \notin {"WHILE", "FOR", "BLOCK", "CTREE"},
         NEW made \in Value, made.type = "string" => made.str = NewBlock,
         NEW vs, Yield(made, vs)
  PROVE  IInv'
<1>1. live' \subseteq Blocks /\ fault' \in Faults
  BY RetFacts, HeapTypes DEF Yield
<1>2. ~InCallee(Top) /\ OpenNow = 0 /\ "none" \in Actions /\ Ret("none", made) # NoRet
  BY PlainFacts, RetFacts DEF Actions
<1>3. UNCHANGED fns /\ Intact /\ Leave("none", made)
  BY DEF Yield
<1> QED  BY <1>1, <1>2, <1>3, LeavePlain

\* A handler that gives back an operand.
LEMMA HandBackKeeps ==
  ASSUME IInv, Running, ret = NoRet, N.type \notin {"WHILE", "FOR", "BLOCK", "CTREE"},
         NEW act \in {"none", "return"}, NEW val \in Value \union {Unwritten}, Leave(act, val),
         UNCHANGED fns, NoHeap, Intact
  PROVE  IInv'
<1>1. ~InCallee(Top) /\ OpenNow = 0 /\ act \in Actions /\ Ret(act, val) # NoRet
  BY PlainFacts, RetFacts DEF Actions
<1> QED  BY <1>1, NoHeapKept, LeavePlain

\* A step that is undefined changes fault only.
LEMMA UndefinedKeeps ==
  ASSUME IInv, NEW kind \in Faults, Undefined(kind)
  PROVE  IInv'
<1>1. UNCHANGED <<prog, phase, walk, globals, fns, cstk, ret, live>> /\ fault' = kind
  BY DEF Undefined
<1>2. TypeOK'
  BY <1>1 DEF IInv, TypeOK
<1>3. StackDiscipline'
  BY <1>1 DEF IInv, StackDiscipline, InCallee, OpenScopes, Node, Top, Env
<1>4. Placed'
  BY <1>1 DEF IInv, Placed, Node
<1>5. Suspended'
  <2>1. GlobalsKept
    BY <1>1 DEF IInv, TypeOK, GlobalsKept
  <2>2. \A i \in DOMAIN cstk : /\ InCallee(cstk[i])' <=> InCallee(cstk[i])
                               /\ ArgsFit(cstk[i]) => ArgsFit(cstk[i])'
                               /\ Waiting(cstk[i]) => Waiting(cstk[i])'
    BY <1>1, <2>1, ArgsKept
  <2> QED  BY <1>1, <2>2 DEF IInv, Suspended
<1> QED  BY <1>2, <1>3, <1>4, <1>5 DEF IInv

\* Only the symbols of the innermost environment change.
LEMMA SymsChanged ==
  ASSUME IInv, Running, ~InCallee(Top), NEW st \in Seq(SymRecord),
         fns' = [fns EXCEPT ![Len(fns)].syms = st]
  PROVE  EnvsKept(fns') /\ fns'[Top.fn].scope = Env.scope
<1> DEFINE e == [Env EXCEPT !.syms = st]
<1>1. /\ Len(fns) = Top.fn /\ fns \in Seq(EnvRecord) /\ Len(fns) \in DOMAIN fns
      /\ Env = fns[Len(fns)] /\ Env \in EnvRecord /\ DOMAIN fns = 1..Len(fns) /\ Len(fns) \in Nat
  BY ScopeOfTop, TopFacts, Shapes DEF IInv, TypeOK
<1>2. e \in EnvRecord /\ e.mod = Env.mod /\ e.scope = Env.scope
  BY <1>1 DEF EnvRecord
<1>3. fns' = [fns EXCEPT ![Len(fns)] = e]
  BY <1>1
<1> HIDE DEF e
<1>4. fns' \in Seq(EnvRecord) /\ Len(fns') = Len(fns)
  BY <1>1, <1>2, <1>3, ExceptSeq
<1>5. /\ fns'[Len(fns)] = e
      /\ \A d \in 1..Len(fns) : d # Len(fns) => fns'[d] = fns[d]
  BY <1>1, <1>3
<1>6. \A d \in 1..(Len(fns) - 1) : d \in 1..Len(fns) /\ d # Len(fns)
  BY <1>1
<1> QED  BY <1>1, <1>2, <1>4, <1>5, <1>6 DEF EnvsKept

\* A symbol takes a new value.
LEMMA ValueStored ==
  ASSUME NEW st \in Seq(SymRecord), NEW i \in 1..Len(st), NEW v \in Value
  PROVE  /\ [st EXCEPT ![i].val = v] \in Seq(SymRecord)
         /\ Len([st EXCEPT ![i].val = v]) = Len(st)
         /\ \A j \in 1..Len(st) :
              /\ [st EXCEPT ![i].val = v][j].sym = st[j].sym
              /\ [st EXCEPT ![i].val = v][j].type = st[j].type
              /\ [st EXCEPT ![i].val = v][j].mod = st[j].mod
              /\ [st EXCEPT ![i].val = v][j].node = st[j].node
<1> DEFINE s == [st[i] EXCEPT !.val = v]
<1>1. st[i] \in SymRecord /\ i \in DOMAIN st /\ DOMAIN st = 1..Len(st)
  OBVIOUS
<1>2. /\ s \in SymRecord /\ s.sym = st[i].sym /\ s.type = st[i].type
      /\ s.mod = st[i].mod /\ s.node = st[i].node
  BY <1>1 DEF SymRecord
<1>3. [st EXCEPT ![i].val = v] = [st EXCEPT ![i] = s]
  OBVIOUS
<1> HIDE DEF s
<1>4. [st EXCEPT ![i] = s] \in Seq(SymRecord) /\ Len([st EXCEPT ![i] = s]) = Len(st)
  BY <1>1, <1>2, ExceptSeq
<1>5. \A j \in 1..Len(st) : [st EXCEPT ![i] = s][j] = IF j = i THEN s ELSE st[j]
  BY <1>1
<1> QED  BY <1>2, <1>3, <1>4, <1>5

\* A name that is found is a symbol of one of the two tables.
LEMMA LookupFacts ==
  ASSUME IInv, Running, NEW sym
  PROVE  /\ Env.syms \in Seq(SymRecord)
         /\ LocalIdx(sym) # 0 => LocalIdx(sym) \in 1..Len(Env.syms)
         /\ GlobalIdx(sym) # 0 => GlobalIdx(sym) \in 1..Len(globals)
         /\ Found(sym) => Lookup(sym).val \in Value
<1>1. Env.syms \in Seq(SymRecord) /\ globals \in Seq(SymRecord)
  BY TopFacts DEF EnvRecord, IInv, TypeOK
<1>2. /\ Len(Env.syms) \in Nat /\ DOMAIN Env.syms = 1..Len(Env.syms)
      /\ Len(globals) \in Nat /\ DOMAIN globals = 1..Len(globals)
  BY <1>1
<1>3. LocalIdx(sym) # 0 => LocalIdx(sym) \in 1..Len(Env.syms)
  BY <1>2, FindSymIndex DEF LocalIdx
<1>4. GlobalIdx(sym) # 0 => GlobalIdx(sym) \in 1..Len(globals)
  BY <1>2, FindSymIndex DEF GlobalIdx
<1>5. Found(sym) => Lookup(sym) \in SymRecord
  BY <1>1, <1>3, <1>4 DEF Found, Lookup
<1> QED  BY <1>1, <1>3, <1>4, <1>5 DEF SymRecord

LEMMA ReturnKeeps ==
  ASSUME IInv, Return
  PROVE  IInv'
<1>1. Running /\ ret = NoRet /\ N.type = "RETURN" /\ Len(Top.vals) = Operands
  BY DEF Return, Ready
<1>2. (IF Arity = 0 THEN Val("void") ELSE Top.vals[1]) \in Value \union {Unwritten}
  <2>1. Arity # 0 => 1 \in 1..Len(Top.vals)
    BY <1>1, OperandFacts DEF OperandTypes
  <2>2. Val("void") \in Value
    BY RetFacts, ValueFacts DEF ValTypes, PrimTypes
  <2> QED  BY <1>1, <2>1, <2>2, PlainFacts
<1> QED  BY <1>1, <1>2, HandBackKeeps DEF Return

LEMMA NegNotKeeps ==
  ASSUME IInv, NegNot
  PROVE  IInv'
<1>1. Running /\ ret = NoRet /\ N.type \in {"ENEG", "ENOT"} /\ Len(Top.vals) = Operands
  BY DEF NegNot, Ready
<1>2. Top.vals[1] \in Value
  <2>1. 1 \in 1..Len(Top.vals)
    BY <1>1, OperandFacts DEF OperandTypes
  <2> QED  BY <1>1, <2>1, PlainFacts
<1>3. Val(Top.vals[1].type) \in Value
  BY <1>2, PlainValues DEF Value
<1>4. CASE Undefined("bad operand")
  BY <1>4, UndefinedKeeps DEF Faults
<1> QED  BY <1>1, <1>3, <1>4, HandBackKeeps DEF NegNot

LEMMA LocalDeclKeeps ==
  ASSUME IInv, LocalDecl
  PROVE  IInv'
<1> DEFINE s == Symbol(N.sym, Prim(Top.mod, Kid(1)), Top.mod, Top.node, Top.scope, Top.vals[1])
<1>1. /\ Running /\ ret = NoRet /\ N.type = "LOCALDECL" /\ Len(Top.vals) = Operands
      /\ Leave("none", Unwritten) /\ NoHeap /\ Intact
  BY DEF LocalDecl, Ready
<1>2. s \in SymRecord
  <2>1. 1 \in 1..Len(Top.vals)
    BY <1>1, OperandFacts DEF OperandTypes
  <2>2. Top.vals[1] \in Value
    BY <1>1, <2>1, PlainFacts
  <2>3. Prim(Top.mod, Kid(1)) \in SymTypes
    BY <1>1, TypedKids DEF SymTypes
  <2>4. N.sym \in STRING /\ Top.mod \in Nat /\ Top.node \in Nat /\ Top.scope \in Nat
    BY <1>1, TopFacts DEF NodeRecord, FrameRecord
  <2> QED  BY <2>2, <2>3, <2>4 DEF Symbol, SymRecord
<1>3. Env.syms \in Seq(SymRecord) /\ Len(fns) \in DOMAIN fns /\ Env = fns[Len(fns)]
  BY <1>1, LookupFacts, TopFacts, Shapes
<1>4. Append(Env.syms, s) \in Seq(SymRecord)
  BY <1>2, <1>3, AppendProperties
<1>5. fns' = [fns EXCEPT ![Len(fns)].syms = Append(Env.syms, s)]
  BY <1>3 DEF LocalDecl
<1> HIDE DEF s
<1>6. ~InCallee(Top) /\ OpenNow = 0 /\ "none" \in Actions /\ Ret("none", Unwritten) # NoRet
  BY <1>1, PlainFacts, RetFacts DEF Actions
<1>7. EnvsKept(fns') /\ fns'[Top.fn].scope = Env.scope
  BY <1>1, <1>4, <1>5, <1>6, SymsChanged
<1> QED  BY <1>1, <1>6, <1>7, IntactKept, NoHeapKept, LeaveChild

LEMMA EatomKeeps ==
  ASSUME IInv, Eatom
  PROVE  IInv'
<1>1. Running /\ ret = NoRet /\ N.type = "EATOM"
  BY DEF Eatom, Starting
<1>2. CASE N.tok # "IDENT" /\ Yield(NewVal(LitTypes[N.tok]), <<>>)
  <2>1. N.tok \in DOMAIN LitTypes
    BY <1>1, <1>2, TopFacts, NodeFacts DEF IInv, TypeOK, NodeOk, Node, N
  <2>2. LitTypes[N.tok] \in ValTypes
    BY <2>1 DEF LitTypes, ValTypes, PrimTypes
  <2> QED  BY <1>1, <1>2, <2>2, RetFacts, ValueFacts, YieldKeeps
<1>3. CASE Found(N.sym) /\ Yield(CopyVal(Lookup(N.sym).val), <<>>)
  <2>1. Lookup(N.sym).val \in Value
    BY <1>1, <1>3, LookupFacts
  <2>2. /\ CopyVal(Lookup(N.sym).val) \in Value
        /\ CopyVal(Lookup(N.sym).val).type = "string" => CopyVal(Lookup(N.sym).val).str = NewBlock
    BY <2>1, RetFacts, ValueFacts
  <2> QED  BY <1>1, <1>3, <2>2, YieldKeeps
<1>4. ASSUME NEW kind \in Faults, Undefined(kind)
      PROVE  IInv'
  BY <1>4, UndefinedKeeps
<1> QED  BY <1>2, <1>3, <1>4 DEF Eatom, Faults

LEMMA SysRejectKeeps ==
  ASSUME IInv, SysReject
  PROVE  IInv'
<1>1. Running /\ ret = NoRet /\ N.type = "ESYSTEM"
  BY DEF SysReject
<1>2. PICK vs : Yield(NewVal(Prim(Top.mod, Kid(1))), vs)
  BY DEF SysReject
<1>3. Prim(Top.mod, Kid(1)) \in ValTypes
  BY <1>1, TypedKids DEF ValTypes
<1> QED  BY <1>1, <1>2, <1>3, RetFacts, ValueFacts, YieldKeeps

LEMMA SysCallKeeps ==
  ASSUME IInv, SysCall
  PROVE  IInv'
<1>1. Running /\ ret = NoRet /\ N.type = "ESYSTEM"
      /\ Yield(NewVal(SysFns[N.sym].rettype), Top.vals)
  BY DEF SysCall, Ready
<1>2. SysFns[N.sym].rettype = Prim(Top.mod, Kid(1))
  BY DEF SysCall, SysCallable
<1>3. Prim(Top.mod, Kid(1)) \in ValTypes
  BY <1>1, TypedKids DEF ValTypes
<1> QED  BY <1>1, <1>2, <1>3, RetFacts, ValueFacts, YieldKeeps

LEMMA SysShellKeeps ==
  ASSUME IInv, SysShell
  PROVE  IInv'
<1>1. Running /\ ret = NoRet /\ N.type = "ESYSTEM"
  BY DEF SysShell, Ready
<1>2. /\ Val("bool") \in Value /\ Val("bool").type = "bool"
      /\ StrVal(NewBlock) \in Value /\ StrVal(NewBlock).type = "string"
      /\ StrVal(NewBlock).str = NewBlock
  BY RetFacts, ValueFacts DEF ValTypes, PrimTypes
<1>3. CASE Yield(Val("bool"), Top.vals)
  BY <1>1, <1>2, <1>3, YieldKeeps
<1>4. CASE /\ ShellReady
           /\ Heap(StrVal(NewBlock), Append(Top.vals, Env.syms[ShellOut].val))
           /\ fns' = [fns EXCEPT ![Len(fns)].syms[ShellOut].val = StrVal(NewBlock)]
           /\ Leave("none", Val("bool"))
           /\ Intact
  <2>1. ShellOut \in 1..Len(Env.syms) /\ Env.syms \in Seq(SymRecord)
    BY <1>1, <1>4, LookupFacts DEF ShellReady, ShellOut
  <2>2. [Env.syms EXCEPT ![ShellOut].val = StrVal(NewBlock)] \in Seq(SymRecord)
    BY <1>2, <2>1, ValueStored
  <2>3. fns' = [fns EXCEPT ![Len(fns)].syms = [Env.syms EXCEPT ![ShellOut].val = StrVal(NewBlock)]]
    BY <1>4 DEF Env
  <2>4. ~InCallee(Top) /\ OpenNow = 0 /\ "none" \in Actions /\ Ret("none", Val("bool")) # NoRet
    BY <1>1, PlainFacts, RetFacts DEF Actions
  <2>5. EnvsKept(fns') /\ fns'[Top.fn].scope = Env.scope
    BY <1>1, <2>2, <2>3, <2>4, SymsChanged
  <2>6. live' \subseteq Blocks /\ fault' \in Faults
    BY <1>2, <1>4, RetFacts, HeapTypes
  <2> QED  BY <1>1, <1>2, <1>4, <2>4, <2>5, <2>6, IntactKept, LeaveChild
<1> QED  BY <1>3, <1>4 DEF SysShell

\* The parameters of a call.
LEMMA ParamsFacts ==
  ASSUME IInv, Running, ret = NoRet, N.type = "ECALL", CalleeOk(Top)
  PROVE  Params \in Seq(SymRecord)
<1>1. ~InCallee(Top) /\ Top.vals \in Seq(Value) /\ Len(cstk) \in DOMAIN cstk /\ Top = cstk[Len(cstk)]
  BY PlainFacts, TopFacts DEF Top
<1>2. Top.vals # <<>> => Len(Top.vals) <= Len(ParamNodes(Top))
  BY <1>1 DEF IInv, Suspended, ArgsFit, Arguing, N
<1>3. \A i \in 1..Len(Top.vals) : i \in 1..Len(ParamNodes(Top)) /\ Top.vals[i] \in Value
  <2> TAKE i \in 1..Len(Top.vals)
  <2>1. Top.vals # <<>> /\ Len(ParamNodes(Top)) \in Nat
    BY <1>1, CalleeFacts
  <2> QED  BY <1>1, <1>2, <2>1
<1>4. \A i \in 1..Len(Top.vals) :
        Symbol(Node(Callee(Top).mod, ParamNodes(Top)[i]).sym, Top.vals[i].type,
               Callee(Top).mod, ParamNodes(Top)[i], 0, Top.vals[i]) \in SymRecord
  <2> TAKE i \in 1..Len(Top.vals)
  <2>1. ParamNodes(Top)[i] \in DOMAIN prog[Callee(Top).mod] /\ Callee(Top).mod \in DOMAIN prog
    BY <1>3, CalleeFacts
  <2>2. /\ ParamNodes(Top)[i] \in Nat /\ Callee(Top).mod \in Nat
        /\ Node(Callee(Top).mod, ParamNodes(Top)[i]) \in NodeRecord
    BY <2>1, NodeFacts DEF IInv, TypeOK
  <2>3. /\ Node(Callee(Top).mod, ParamNodes(Top)[i]).sym \in STRING
    BY <2>2 DEF NodeRecord
  <2>4. Top.vals[i].type \in SymTypes \union {"null"}
    BY <1>3 DEF Value, ValTypes, SymTypes
  <2> QED  BY <1>3, <2>2, <2>3, <2>4 DEF Symbol, SymRecord
<1>5. DOMAIN Top.vals = 1..Len(Top.vals) /\ Len(Top.vals) \in Nat
  BY <1>1
<1> QED  BY <1>4, <1>5 DEF Params

LEMMA EnterKeeps ==
  ASSUME IInv, Ready({"ECALL"}), CalleeOk(Top),
         CallNode(Append(fns, CalleeEnv), Arity + 1, Callee(Top).node, <<>>), NoHeap, Intact
  PROVE  IInv'
<1>1. Running /\ ret = NoRet /\ N.type = "ECALL" /\ Arity + 1 > Arity
      /\ Arity + 1 \in Nat /\ Arity + 1 > 0
  BY TopFacts DEF Ready
<1>2. /\ ~InCallee(Top) /\ Len(fns) = Top.fn /\ Env.scope = Top.scope /\ Env = fns[Len(fns)]
      /\ Len(fns) \in Nat /\ fns \in Seq(EnvRecord) /\ Top.scope \in Nat
  <2>1. ~InCallee(Top) /\ OpenAt(Top.at) = 0
    BY <1>1, PlainFacts
  <2>2. Top.scope \in Nat
    BY <1>1, TopFacts DEF FrameRecord
  <2>3. Len(fns) = Top.fn /\ Env.scope = Top.scope
    BY <1>1, <2>1, <2>2, ScopeOfTop
  <2> QED  BY <1>1, <2>1, <2>2, <2>3, TopFacts DEF IInv, TypeOK
<1>3. /\ Callee(Top).mod \in Nat /\ Callee(Top).mod \in DOMAIN prog
      /\ Callee(Top).node \in DOMAIN prog[Callee(Top).mod]
  BY CalleeFacts
<1>4. /\ CalleeEnv \in EnvRecord /\ CalleeEnv.mod = Callee(Top).mod /\ CalleeEnv.scope = 0
  BY <1>1, <1>3, ParamsFacts DEF CalleeEnv, EnvRecord
<1> DEFINE env == Append(fns, CalleeEnv)
<1>5. /\ env \in Seq(EnvRecord) /\ Len(env) = Len(fns) + 1
      /\ \A d \in 1..Len(fns) : env[d] = fns[d]
      /\ env[Len(fns) + 1] = CalleeEnv
  BY <1>2, <1>4, AppendProperties
<1> HIDE DEF env
<1>6. /\ \A d \in 1..Top.fn : env[d].mod = fns[d].mod
      /\ \A d \in 1..(Top.fn - 1) : env[d].scope = fns[d].scope
      /\ Len(env) = Top.fn + 1 /\ env[Len(env)].mod \in DOMAIN prog
      /\ env[Len(env)].scope = 0 /\ env[Top.fn].scope = Top.scope
      /\ Callee(Top).node \in DOMAIN prog[env[Len(env)].mod]
  <2>1. Top.fn \in 1..Len(fns)
    BY <1>1, TopFacts
  <2>2. \A d \in 1..Top.fn : env[d] = fns[d]
    BY <1>2, <1>5
  <2>3. \A d \in 1..(Top.fn - 1) : d \in 1..Top.fn
    BY <1>2
  <2>4. env[Len(env)] = CalleeEnv
    BY <1>5
  <2>5. env[Top.fn] = Env
    BY <1>2, <2>1, <2>2
  <2> QED  BY <1>2, <1>3, <1>4, <1>5, <2>2, <2>3, <2>4, <2>5
<1>7. CallNode(env, Arity + 1, Callee(Top).node, <<>>) /\ <<>> \in Seq(Value)
  BY DEF env
<1>8. UNCHANGED <<prog, phase, walk, globals>> /\ ~(Arity + 1 <= Arity)
  BY TopFacts, <1>1 DEF Intact
<1> QED  BY <1>1, <1>5, <1>6, <1>7, <1>8, NoHeapKept, CallKeeps

LEMMA EcallKeeps ==
  ASSUME IInv, Ecall
  PROVE  IInv'
<1>1. CASE /\ Ready({"ECALL"}) /\ CalleeOk(Top)
           /\ CallNode(Append(fns, CalleeEnv), Arity + 1, Callee(Top).node, <<>>)
           /\ NoHeap /\ Intact
  BY <1>1, EnterKeeps
<1>2. CASE /\ Resuming({"ECALL"}) /\ Top.at > Arity
           /\ Heap(Null, ValsAfter(Env.syms, 0))
           /\ fns' = SubSeq(fns, 1, Len(fns) - 1)
           /\ Leave("none", ret.val)
           /\ Intact
  <2>1. Running /\ InCallee(Top)
    BY <1>2 DEF Resuming, InCallee, N, Arity
  <2>2. Len(fns) = Top.fn + 1 /\ fns[Top.fn].scope = Top.scope
    BY <2>1, ScopeOfTop
  <2>3. fns \in Seq(EnvRecord) /\ Len(fns) \in Nat /\ Top.fn \in 1..Len(fns)
    BY <2>1, TopFacts DEF IInv, TypeOK
  <2>4. PICK t \in Nat : t = Top.fn /\ t > 0
    BY <2>3
  <2>5. fns' = SubSeq(fns, 1, t) /\ t < Len(fns)
    BY <1>2, <2>2, <2>3, <2>4
  <2>6. /\ fns' \in Seq(EnvRecord) /\ Len(fns') = t
        /\ \A d \in 1..t : fns'[d] = fns[d]
    BY <2>3, <2>4, <2>5
  <2>7. EnvsKept(fns') /\ fns'[Top.fn].scope = Top.scope
    <3>1. \A d \in 1..(t - 1) : d \in 1..t
      OBVIOUS
    <3>2. /\ \A d \in 1..t : fns'[d].mod = fns[d].mod
          /\ \A d \in 1..(t - 1) : fns'[d].scope = fns[d].scope
      BY <2>6, <3>1
    <3>3. t \in 1..t
      BY <2>4
    <3>4. fns'[t] = fns[t]
      BY <2>6, <3>3
    <3> QED  BY <2>2, <2>4, <2>6, <3>2, <3>4 DEF EnvsKept
  <2>8. /\ ret' \in [act : Actions, val : Value \union {Unwritten}] /\ ret' # NoRet
        /\ cstk' = SubSeq(cstk, 1, Len(cstk) - 1)
    <3>1. ret' = [act |-> "none", val |-> ret.val]
      BY <1>2 DEF Leave, Ret
    <3> QED  BY <1>2, <3>1, RetFacts DEF Leave, Ret, Actions
  <2>9. live' \subseteq Blocks /\ fault' \in Faults
    BY <1>2, ReleaseKept
  <2>10. GlobalsKept /\ UNCHANGED <<prog, phase, walk>>
    BY <1>2, IntactKept
  <2> QED  BY <2>1, <2>7, <2>8, <2>9, <2>10, LeaveKeeps
<1>3. CASE Undefined("bad symbol")
  BY <1>3, UndefinedKeeps DEF Faults
<1> QED  BY <1>1, <1>2, <1>3 DEF Ecall

\* The operands of an expression are values.
LEMMA OperandVals ==
  ASSUME IInv, Running, ret = NoRet, N.type \in OperandTypes, Len(Top.vals) = Operands
  PROVE  /\ Operands >= 1 => Top.vals[1] \in Value
         /\ N.type \notin {"WHILE", "FOR", "BLOCK", "CTREE"}
<1>1. N.type \notin {"WHILE", "FOR", "BLOCK", "CTREE"}
  BY DEF OperandTypes, Binaries, Assigns, Arithmetics, Comparisons, Logicals
<1>2. Operands \in Int /\ Top.vals \in Seq(Value)
  BY <1>1, OperandFacts, PlainFacts DEF Operands
<1>3. Operands >= 1 => 1 \in 1..Len(Top.vals)
  BY <1>2
<1> QED  BY <1>1, <1>3, PlainFacts

LEMMA EaccessKeeps ==
  ASSUME IInv, Eaccess
  PROVE  IInv'
<1>1. Running /\ ret = NoRet /\ N.type = "EACCESS"
  BY DEF Eaccess, Ready
<1>2. NewVal("string") \in Value /\ NewVal("string").str = NewBlock
  BY RetFacts, ValueFacts DEF ValTypes, PrimTypes
<1>3. CASE Yield(NewVal("string"), <<Top.vals[1]>>)
  BY <1>1, <1>2, <1>3, YieldKeeps
<1>4. CASE Undefined("bad operand")
  BY <1>4, UndefinedKeeps DEF Faults
<1> QED  BY <1>3, <1>4 DEF Eaccess

LEMMA EcastKeeps ==
  ASSUME IInv, Ecast
  PROVE  IInv'
<1>1. Running /\ ret = NoRet /\ N.type = "ECAST"
  BY DEF Ecast, Ready
<1>2. \A from : CastType(from, Prim(Top.mod, Kid(2))) \in ValTypes
  BY <1>1, TypedKids DEF CastType, ValTypes, PrimTypes
<1>3. ASSUME NEW t \in ValTypes, NEW vs, Yield(NewVal(t), vs)
      PROVE  IInv'
  BY <1>1, <1>3, RetFacts, ValueFacts, YieldKeeps
<1>4. ASSUME NEW kind \in {"bad operand", "overflow"}, Undefined(kind)
      PROVE  IInv'
  BY <1>4, UndefinedKeeps DEF Faults
<1> QED  BY <1>2, <1>3, <1>4 DEF Ecast

LEMMA ArithmeticKeeps ==
  ASSUME IInv, Arithmetic \/ Logical \/ Comparison \/ Eadd
  PROVE  IInv'
<1>1. Running /\ ret = NoRet /\ N.type \in OperandTypes
      /\ N.type \notin {"WHILE", "FOR", "BLOCK", "CTREE"} /\ Len(Top.vals) = Operands
      /\ N.type \in Binaries
  BY DEF Arithmetic, Logical, Comparison, Eadd, Ready, OperandTypes, Binaries,
         Arithmetics, Comparisons, Logicals
<1>2. ASSUME NEW t \in {"int", "real", "bool", "string"}, NEW vs, Yield(NewVal(t), vs)
      PROVE  IInv'
  <2>1. t \in ValTypes
    BY DEF ValTypes, PrimTypes
  <2> QED  BY <1>1, <1>2, <2>1, RetFacts, ValueFacts, YieldKeeps
<1>3. \A t \in {"int", "real", "bool"} : Val(t) = NewVal(t)
  BY DEF NewVal
<1>4. ASSUME NEW kind \in {"bad operand", "trap"}, Undefined(kind)
      PROVE  IInv'
  BY <1>4, UndefinedKeeps DEF Faults
<1>5. CASE Arithmetic
  <2>1. CASE MayTrap({"EDIV", "EMOD"})
    BY <2>1, <1>4 DEF MayTrap
  <2>2. CASE Yield(Val(IF Top.vals[1].type = "int" THEN "int" ELSE "real"), <<>>)
    BY <2>2, <1>2, <1>3
  <2> QED  BY <1>5, <2>1, <2>2 DEF Arithmetic
<1>6. CASE Logical
  BY <1>2, <1>3, <1>6 DEF Logical
<1>7. CASE Comparison
  BY <1>2, <1>3, <1>4, <1>7 DEF Comparison
<1>8. CASE Eadd
  <2>1. CASE Yield(RealSum, <<>>)
    BY <1>1, <2>1, PlainValues, YieldKeeps
  <2> QED  BY <1>2, <1>3, <1>4, <1>8, <2>1 DEF Eadd
<1> QED  BY <1>5, <1>6, <1>7, <1>8

LEMMA EternaryKeeps ==
  ASSUME IInv, Eternary
  PROVE  IInv'
<1>1. Running /\ N.type = "ETERNARY" /\ ~InCallee(Top) /\ OpenNow = 0 /\ Arity = 3
      /\ (\A k : OpenAt(k) = 0) /\ <<>> \in Seq(Value) /\ "none" \in Actions
      /\ NoHeap /\ Intact
  BY ScopeOfTop, PlainFacts, KidCounts DEF Eternary, Starting, Resuming, Running, Actions
<1>2. ASSUME NEW k \in {1, 2, 3}, Call(fns, k)
      PROVE  IInv'
  <2>1. k \in 1..Arity
    BY <1>1
  <2> QED  BY <1>1, <1>2, <2>1, NoHeapKept, CallChild DEF Call
<1>3. CASE Leave("none", ret.val) /\ UNCHANGED fns
  BY <1>1, <1>3, NoHeapKept, RetFacts, LeavePlain
<1> QED  BY <1>2, <1>3 DEF Eternary

LEMMA CollectKeeps ==
  ASSUME IInv, Collect
  PROVE  IInv'
<1>n. PICK n \in Nat : n = Len(cstk) /\ n > 0
  BY TopFacts DEF Collect, Resuming
<1>0. TypeOK /\ StackDiscipline /\ Placed /\ Suspended
  BY DEF IInv
<1> DEFINE vals == Append(Top.vals, Slot(ret.val))
           f == [Top EXCEPT !.vals = vals]
<1>1. /\ Running /\ ret # NoRet /\ N.type \in OperandTypes /\ Top.at <= Arity
      /\ ret' = NoRet /\ UNCHANGED fns /\ NoHeap /\ Intact
  BY DEF Collect, Resuming
<1>2. /\ DOMAIN cstk = 1..n /\ Top = cstk[n] /\ n \in DOMAIN cstk
      /\ cstk \in Seq(FrameRecord) /\ Top \in FrameRecord
  BY <1>n, <1>0, <1>1, TopFacts, Shapes DEF Top, TypeOK
<1>3. /\ vals \in Seq(Value) /\ Len(vals) = Len(Top.vals) + 1 /\ Len(Top.vals) \in Nat
  <2>1. Top.vals \in Seq(Value) /\ Slot(ret.val) \in Value
    BY <1>2, RetFacts, ValueFacts DEF FrameRecord
  <2> QED  BY <2>1
<1> HIDE DEF vals
<1>4. /\ f \in FrameRecord /\ f.fn = Top.fn /\ f.mod = Top.mod /\ f.scope = Top.scope
      /\ f.node = Top.node /\ f.at = Top.at /\ f.vals = vals
  BY <1>2, <1>3 DEF FrameRecord
<1>5. cstk' = [cstk EXCEPT ![n] = f]
  BY <1>n, <1>2 DEF Collect, vals
<1> HIDE DEF f
<1>6. cstk' \in Seq(FrameRecord) /\ Len(cstk') = n /\ DOMAIN cstk' = 1..n
  BY <1>n, <1>2, <1>4, <1>5, ExceptSeq
<1>7. /\ cstk'[n] = f /\ Top' = f
      /\ \A i \in 1..n : i # n => cstk'[i] = cstk[i]
  BY <1>2, <1>5, <1>6 DEF Top
<1>8. UNCHANGED <<prog, phase, walk, globals, fns, live, fault>> /\ ret' = NoRet
  BY <1>1 DEF Intact, NoHeap
<1>9. /\ \A i \in 1..n : /\ cstk'[i].fn = cstk[i].fn /\ cstk'[i].mod = cstk[i].mod
                         /\ cstk'[i].scope = cstk[i].scope /\ cstk'[i].node = cstk[i].node
                         /\ cstk'[i].at = cstk[i].at
  BY <1>2, <1>4, <1>7
<1>10. \A i \in 1..n : /\ InCallee(cstk[i])' <=> InCallee(cstk[i])
                       /\ OpenScopes(cstk[i])' = OpenScopes(cstk[i])
  BY <1>8, <1>9 DEF InCallee, OpenScopes, Node
<1>11. GlobalsKept
  BY <1>0, <1>8 DEF TypeOK, GlobalsKept
<1>12. \A i \in 1..n : i # n => ArgsFit(cstk[i])' /\ Waiting(cstk[i])'
  <2> SUFFICES ASSUME NEW i \in 1..n, i # n
               PROVE  ArgsFit(cstk[i])' /\ Waiting(cstk[i])'
    OBVIOUS
  <2>1. i \in DOMAIN cstk /\ i \in DOMAIN cstk' /\ i < Len(cstk) /\ cstk'[i] = cstk[i]
    BY <1>n, <1>2, <1>6, <1>7
  <2>2. ArgsFit(cstk[i]) /\ Waiting(cstk[i])
    BY <1>0, <2>1 DEF Suspended
  <2> QED  BY <1>8, <1>11, <2>1, <2>2, ArgsKept
<1>13. ~InCallee(Top) /\ (N.type = "ECALL" => NextParamOk(Top))
  <2>1. ~InCallee(Top)
    BY <1>1, <1>2, TopFacts DEF InCallee, N, Arity, FrameRecord
  <2>2. Waiting(Top)
    BY <1>0, <1>1, <1>2 DEF Suspended
  <2> QED  BY <2>1, <2>2 DEF Waiting, Arguing, N
<1>14. ArgsFit(cstk[n])' /\ ~InCallee(cstk[n])'
  <2>1. CalleeIdx(cstk[n])' = CalleeIdx(Top)
    BY <1>4, <1>7, <1>8 DEF CalleeIdx, GlobalIdx, Node
  <2>2. Callee(cstk[n])' = Callee(Top)
    BY <1>8, <2>1 DEF Callee
  <2>3. ParamNodes(cstk[n])' = ParamNodes(Top)
    BY <1>8, <2>2 DEF ParamNodes, Node
  <2>4. CalleeOk(cstk[n])' = CalleeOk(Top)
    BY <2>1, <2>2 DEF CalleeOk
  <2>5. Arguing(cstk[n])' => N.type = "ECALL"
    BY <1>4, <1>7, <1>8 DEF Arguing, Node, N
  <2>6. ASSUME N.type = "ECALL"
        PROVE  CalleeOk(Top) /\ Len(vals) <= Len(ParamNodes(Top))
    <3>1. CalleeOk(Top) /\ Len(Top.vals) < Len(ParamNodes(Top))
      BY <1>13, <2>6 DEF NextParamOk
    <3>2. Len(ParamNodes(Top)) \in Nat
      BY <3>1, CalleeFacts
    <3> QED  BY <1>3, <3>1, <3>2
  <2>7. cstk'[n].vals = vals
    BY <1>4, <1>7
  <2>8. ~InCallee(cstk[n])'
    BY <1>2, <1>10, <1>13
  <2> QED  BY <2>3, <2>4, <2>5, <2>6, <2>7, <2>8 DEF ArgsFit
<1>15. TypeOK'
  BY <1>0, <1>6, <1>8, PlainValues DEF TypeOK
<1>16. StackDiscipline'
  <2>1. \A i \in DOMAIN cstk' : /\ cstk'[i].fn \in DOMAIN fns'
                                /\ cstk'[i].mod = fns'[cstk'[i].fn].mod
    BY <1>0, <1>2, <1>6, <1>8, <1>9 DEF StackDiscipline
  <2>2. \A i \in DOMAIN cstk' : i + 1 \in DOMAIN cstk' =>
          IF InCallee(cstk[i])'
          THEN cstk'[i + 1].fn = cstk'[i].fn + 1 /\ cstk'[i + 1].scope = 0
          ELSE /\ cstk'[i + 1].fn = cstk'[i].fn
               /\ cstk'[i + 1].scope = cstk'[i].scope + OpenScopes(cstk[i])'
    BY <1>0, <1>2, <1>6, <1>9, <1>10 DEF StackDiscipline
  <2>3. /\ InCallee(Top)' <=> InCallee(Top)
        /\ OpenScopes(Top)' = OpenScopes(Top)
        /\ Env' = Env
    BY <1>4, <1>7, <1>8 DEF InCallee, OpenScopes, Node, Env
  <2>4. IF InCallee(Top)'
        THEN Len(fns') = Top.fn' + 1 /\ Env.scope' = 0
        ELSE Len(fns') = Top.fn' /\ Env.scope' = Top.scope' + OpenScopes(Top)'
    BY <1>0, <1>1, <1>4, <1>7, <1>8, <2>3 DEF StackDiscipline, Running
  <2> QED  BY <2>1, <2>2, <2>4 DEF StackDiscipline
<1>17. Placed'
  <2>1. \A i \in DOMAIN cstk' : cstk'[i].node \in DOMAIN prog[cstk'[i].mod]
    BY <1>0, <1>2, <1>6, <1>9 DEF Placed
  <2> QED  BY <1>0, <1>8, <2>1 DEF Placed, Node
<1>18. Suspended'
  <2>1. \A i \in DOMAIN cstk' : ArgsFit(cstk[i])'
    BY <1>6, <1>12, <1>14
  <2>2. \A i \in DOMAIN cstk' : i < Len(cstk') => Waiting(cstk[i])'
    BY <1>6, <1>12
  <2>3. \A i, j \in DOMAIN cstk' : i <= j => cstk'[i].fn <= cstk'[j].fn
    BY <1>0, <1>2, <1>6, <1>9 DEF Suspended
  <2>4. \A i \in DOMAIN cstk' : InCallee(cstk[i])' => fns'[cstk'[i].fn].scope = cstk'[i].scope
    BY <1>0, <1>2, <1>6, <1>8, <1>9, <1>10 DEF Suspended
  <2>5. phase' = "run"
    BY <1>1, <1>8 DEF Running
  <2> QED  BY <1>6, <1>8, <1>14, <2>1, <2>2, <2>3, <2>4, <2>5 DEF Suspended
<1> QED  BY <1>15, <1>16, <1>17, <1>18 DEF IInv

\* An assignment changes the value of one symbol.
LEMMA StoreKeeps ==
  ASSUME IInv, Ready(Assigns), Found(Target), NEW v \in Value, Store(v),
         live' \subseteq Blocks, fault' \in Faults
  PROVE  IInv'
<1>1. /\ Running /\ ret = NoRet /\ N.type \in Assigns /\ Leave("none", Unwritten)
      /\ UNCHANGED <<prog, phase, walk>>
  BY DEF Ready, Store
<1>2. /\ ~InCallee(Top) /\ OpenNow = 0 /\ "none" \in Actions
      /\ Ret("none", Unwritten) # NoRet /\ Unwritten \in Value \union {Unwritten}
  BY <1>1, PlainFacts, RetFacts DEF Actions, Assigns
<1>3. CASE LocalIdx(Target) # 0
  <2>1. LocalIdx(Target) \in 1..Len(Env.syms) /\ Env.syms \in Seq(SymRecord)
    BY <1>1, <1>3, LookupFacts
  <2>2. [Env.syms EXCEPT ![LocalIdx(Target)].val = v] \in Seq(SymRecord)
    BY <2>1, ValueStored
  <2>3. fns' = [fns EXCEPT ![Len(fns)].syms = [Env.syms EXCEPT ![LocalIdx(Target)].val = v]]
    BY <1>3 DEF Store, Env
  <2>4. EnvsKept(fns') /\ fns'[Top.fn].scope = Env.scope
    BY <1>1, <1>2, <2>2, <2>3, SymsChanged
  <2>5. GlobalsKept
    BY <1>3 DEF Store, GlobalsKept, IInv, TypeOK
  <2> QED  BY <1>1, <1>2, <2>4, <2>5, LeaveChild
<1>4. CASE LocalIdx(Target) = 0
  <2>1. GlobalIdx(Target) \in 1..Len(globals) /\ globals \in Seq(SymRecord)
    BY <1>1, <1>4, LookupFacts DEF Found, IInv, TypeOK
  <2>2. globals' = [globals EXCEPT ![GlobalIdx(Target)].val = v] /\ UNCHANGED fns
    BY <1>4 DEF Store
  <2>3. GlobalsKept
    BY <2>1, <2>2, ValueStored DEF GlobalsKept
  <2>4. EnvsKept(fns') /\ fns'[Top.fn].scope = Env.scope
    BY <1>1, <1>2, <2>2, OpenedFacts
  <2> QED  BY <1>1, <1>2, <2>3, <2>4, LeaveChild
<1> QED  BY <1>3, <1>4

LEMMA AssignKeeps ==
  ASSUME IInv, Assignment
  PROVE  IInv'
<1>1. CASE ~Found(Target)
  BY <1>1, UndefinedKeeps DEF Assignment, Faults
<1>2. CASE Found(Target)
  <2>1. Ready(Assigns) /\ Found(Target)
    BY <1>2 DEF Assignment
  <2>2. Running /\ ret = NoRet /\ N.type \in Assigns /\ Len(Top.vals) = Operands
    BY <2>1 DEF Ready
  <2>3. Top.vals[1] \in Value
    BY <2>2, OperandFacts, OperandVals DEF OperandTypes
  <2>4. StrVal(NewBlock) \in Value /\ StrVal(NewBlock).str = NewBlock
    BY RetFacts, ValueFacts
  <2>5. ASSUME NEW v \in Value, Store(v), NoHeap
        PROVE  IInv'
    BY <2>1, <2>5, NoHeapKept, StoreKeeps
  <2>6. ASSUME NEW v \in Value, Store(v), NEW vs, Heap(Null, vs)
        PROVE  IInv'
    BY <2>1, <2>6, ReleaseKept, StoreKeeps
  <2>7. ASSUME Store(StrVal(NewBlock)), NEW vs, Heap(StrVal(NewBlock), vs)
        PROVE  IInv'
    <3>1. live' \subseteq Blocks /\ fault' \in Faults
      BY <2>4, <2>7, RetFacts, HeapTypes
    <3> QED  BY <2>1, <2>4, <2>7, <3>1, StoreKeeps
  <2>8. ASSUME NEW kind \in {"bad operand", "trap"}, Undefined(kind)
        PROVE  IInv'
    BY <2>8, UndefinedKeeps DEF Faults
  <2>9. CASE InPlace
    <3>1. Val(Top.vals[1].type) \in Value
      BY <2>3, PlainValues DEF Value
    <3> QED  BY <2>5, <2>8, <2>9, <3>1 DEF InPlace
  <2>10. CASE Eassign
    BY <2>3, <2>6, <2>9, <2>10 DEF Eassign
  <2>11. CASE Eaddassign
    BY <2>7, <2>8, <2>9, <2>11 DEF Eaddassign
  <2>12. CASE ArithAssign
    BY <2>8, <2>9, <2>12 DEF ArithAssign, MayTrap
  <2> QED  BY <1>2, <2>10, <2>11, <2>12 DEF Assignment
<1> QED  BY <1>1, <1>2

-----------------------------------------------------------------------------
(* Before and after the program runs. *)

\* Outside the run there are no handlers, and an environment only at the end.
LEMMA OutsideKeeps ==
  ASSUME IInv, phase # "run", phase' # "run", UNCHANGED <<prog, fns, cstk, ret>>,
         phase' \in Phases, walk' \in [mod : Nat, node : Nat], walk'.mod > 0, walk'.node > 0,
         globals' \in Seq(SymRecord),
         \A i \in DOMAIN globals' : globals'[i].type = "func" =>
           /\ globals'[i].mod \in DOMAIN prog
           /\ globals'[i].node \in DOMAIN prog[globals'[i].mod]
           /\ Node(globals'[i].mod, globals'[i].node).type = "FUNCDECL",
         live' \subseteq Blocks, fault' \in Faults
  PROVE  IInv'
<1>1. cstk = <<>> /\ ret = NoRet /\ DOMAIN cstk = {} /\ DOMAIN cstk' = {}
  BY DEF IInv, Suspended
<1>2. TypeOK'
  BY DEF IInv, TypeOK
<1>3. StackDiscipline'
  BY <1>1 DEF StackDiscipline
<1>4. Placed'
  BY <1>1 DEF IInv, Placed, Node
<1>5. Suspended'
  BY <1>1 DEF Suspended
<1> QED  BY <1>2, <1>3, <1>4, <1>5 DEF IInv

LEMMA WalkFacts ==
  ASSUME IInv
  PROVE  /\ walk \in [mod : Nat, node : Nat] /\ walk.mod > 0 /\ walk.node > 0
         /\ walk.mod \in Nat /\ walk.node \in Nat
         /\ NextNode => walk' \in [mod : Nat, node : Nat] /\ walk'.mod > 0 /\ walk'.node > 0
BY DEF IInv, TypeOK, Placed, NextNode

\* A global is declared with a primitive type.
LEMMA GlobalTypes ==
  ASSUME IInv, NEW m \in DOMAIN prog, NEW n \in DOMAIN prog[m],
         Node(m, n).type = "GLOBALDECL"
  PROVE  Prim(m, Node(m, n).kids[1]) \in PrimTypes
<1>1. /\ NodeOk(prog[m], n)
      /\ \A k \in 1..Len(Node(m, n).kids) : Node(m, n).kids[k] \in DOMAIN prog[m]
  BY NodeFacts DEF IInv, TypeOK
<1>2. Len(Node(m, n).kids) = 1
  <2>1. Arities("GLOBALDECL") = {1}
    BY DEF Arities, Arithmetics, Comparisons, Logicals, Assigns
  <2> QED  BY <2>1, <1>1 DEF NodeOk, Node
<1>3. Node(m, n).kids[1] \in DOMAIN prog[m]
  BY <1>1, <1>2
<1>4. NodeOk(prog[m], Node(m, n).kids[1])
  BY <1>3, NodeFacts DEF IInv, TypeOK
<1>5. prog[m][Node(m, n).kids[1]].type = "TYPE"
  BY <1>2, ChildFacts, TypeChildren DEF IInv, TypeOK, Node
<1> QED  BY <1>4, <1>5 DEF NodeOk, Prim, Node

LEMMA GlobalSymtabKeeps ==
  ASSUME IInv, GlobalSymtab
  PROVE  IInv'
<1> DEFINE n == Node(walk.mod, walk.node)
           type == IF n.type = "FUNCDECL" THEN "func" ELSE Prim(walk.mod, n.kids[1])
           s == Symbol(n.sym, type, walk.mod, walk.node, 0, Null)
<1>1. phase = "symtab" /\ walk.mod <= Len(prog) /\ walk.node <= Len(prog[walk.mod])
  BY DEF GlobalSymtab, Walking
<1>2. walk.mod \in DOMAIN prog /\ walk.node \in DOMAIN prog[walk.mod]
  <2>1. prog \in Seq(Seq(NodeRecord))
    BY ProgramsAssumption DEF IInv, TypeOK
  <2>2. walk.mod \in DOMAIN prog
    BY <1>1, <2>1, WalkFacts
  <2>3. prog[walk.mod] \in Seq(NodeRecord)
    BY <2>1, <2>2
  <2> QED  BY <1>1, <2>2, <2>3, WalkFacts
<1>3. /\ n \in NodeRecord /\ NodeOk(prog[walk.mod], walk.node)
      /\ \A k \in 1..Len(n.kids) : n.kids[k] \in DOMAIN prog[walk.mod]
  BY <1>2, NodeFacts DEF IInv, TypeOK
<1>4. CASE n.type \notin {"FUNCDECL", "GLOBALDECL"}
  <2>1. NextNode /\ UNCHANGED <<prog, phase, globals, fns, cstk, ret, live, fault>>
    BY <1>4 DEF GlobalSymtab
  <2> QED  BY <1>1, <2>1, WalkFacts, OutsideKeeps, RetFacts DEF IInv, TypeOK, Placed
<1>5. CASE Undefined("bad symbol")
  BY <1>5, UndefinedKeeps DEF Faults
<1>6. CASE /\ n.type \in {"FUNCDECL", "GLOBALDECL"}
           /\ globals' = Append(globals, s) /\ NextNode
           /\ UNCHANGED <<prog, phase, fns, cstk, ret, live, fault>>
  <2>0. n.type = "GLOBALDECL" => type \in PrimTypes
    BY <1>2, GlobalTypes
  <2>1. type \in SymTypes
    BY <1>6, <2>0 DEF SymTypes
  <2>2. type = "func" => n.type = "FUNCDECL"
    BY <1>6, <2>0 DEF PrimTypes
  <2> HIDE DEF type
  <2>3. n.sym \in STRING /\ Null \in Value
    BY <1>3, RetFacts, ValueFacts DEF NodeRecord
  <2> HIDE DEF n
  <2>4. s \in SymRecord /\ s.type = type /\ s.mod = walk.mod /\ s.node = walk.node
    BY <2>1, <2>3, WalkFacts DEF Symbol, SymRecord
  <2> HIDE DEF s
  <2>5. /\ globals' \in Seq(SymRecord) /\ Len(globals') = Len(globals) + 1
        /\ \A i \in 1..Len(globals) : globals'[i] = globals[i]
        /\ globals'[Len(globals) + 1] = s /\ DOMAIN globals = 1..Len(globals)
        /\ Len(globals) \in Nat /\ DOMAIN globals' = 1..(Len(globals) + 1)
    BY <1>6, <2>4, AppendProperties DEF IInv, TypeOK
  <2>6. ASSUME NEW i \in DOMAIN globals', globals'[i].type = "func"
        PROVE  /\ globals'[i].mod \in DOMAIN prog
               /\ globals'[i].node \in DOMAIN prog[globals'[i].mod]
               /\ Node(globals'[i].mod, globals'[i].node).type = "FUNCDECL"
    <3>1. CASE i = Len(globals) + 1
      BY <3>1, <2>2, <2>4, <2>5, <2>6, <1>2 DEF n
    <3>2. CASE i \in 1..Len(globals)
      BY <3>2, <2>5, <2>6 DEF IInv, Placed
    <3> QED  BY <2>5, <3>1, <3>2
  <2> QED  BY <1>1, <1>6, <2>5, <2>6, WalkFacts, RetFacts, OutsideKeeps DEF Phases
<1> QED  BY <1>4, <1>5, <1>6 DEF GlobalSymtab

LEMMA InitGlobalKeeps ==
  ASSUME IInv, InitGlobal
  PROVE  IInv'
<1> DEFINE v == NewVal(globals[walk.node].type)
<1>1. /\ phase = "globals" /\ walk.node <= Len(globals) /\ NextNode
      /\ UNCHANGED <<prog, phase, fns, cstk, ret>>
      /\ globals \in Seq(SymRecord) /\ Len(globals) \in Nat /\ DOMAIN globals = 1..Len(globals)
  BY DEF InitGlobal, Walking, IInv, TypeOK
<1>2. walk.node \in 1..Len(globals) /\ globals[walk.node] \in SymRecord
  BY <1>1, WalkFacts
<1>3. CASE UNCHANGED <<globals, live, fault>>
  BY <1>1, <1>3, WalkFacts, RetFacts, OutsideKeeps DEF IInv, Placed, TypeOK
<1>4. CASE /\ globals[walk.node].type # "func" /\ Heap(v, <<>>)
           /\ globals' = [globals EXCEPT ![walk.node].val = v]
  <2>1. globals[walk.node].type \in ValTypes
    BY <1>2, <1>4 DEF SymRecord, SymTypes, ValTypes
  <2>2. v \in Value /\ (v.type = "string" => v.str = NewBlock)
    BY <2>1, RetFacts, ValueFacts
  <2>3. live' \subseteq Blocks /\ fault' \in Faults
    BY <2>2, <1>4, RetFacts, HeapTypes
  <2> HIDE DEF v
  <2>4. /\ globals' \in Seq(SymRecord) /\ Len(globals') = Len(globals)
        /\ \A i \in 1..Len(globals) :
             /\ globals'[i].type = globals[i].type /\ globals'[i].mod = globals[i].mod
             /\ globals'[i].node = globals[i].node
    BY <1>1, <1>2, <1>4, <2>2, ValueStored
  <2>5. \A i \in DOMAIN globals' : globals'[i].type = "func" =>
          /\ globals'[i].mod \in DOMAIN prog
          /\ globals'[i].node \in DOMAIN prog[globals'[i].mod]
          /\ Node(globals'[i].mod, globals'[i].node).type = "FUNCDECL"
    BY <1>1, <2>4 DEF IInv, Placed
  <2> QED  BY <1>1, <2>3, <2>4, <2>5, WalkFacts, OutsideKeeps DEF Phases
<1> QED  BY <1>3, <1>4 DEF InitGlobal

LEMMA EnterEntryKeeps ==
  ASSUME IInv, EnterEntry
  PROVE  IInv'
<1> DEFINE m == EntryDecl.mod
           n == EntryDecl.node
           e == [mod |-> m, scope |-> 0, syms |-> <<>>]
           f == [fn |-> 1, mod |-> m, scope |-> 0, node |-> n, at |-> 0, vals |-> <<>>]
<1>1. /\ phase = "lookup" /\ phase' = "run" /\ GlobalIdx(Entry) # 0 /\ EntryDecl.type = "func"
      /\ UNCHANGED <<prog, walk, globals, ret, live, fault>>
      /\ fns' = <<e>> /\ cstk' = <<Frame(fns', n)>>
  BY DEF EnterEntry, Walking, EntryOk
<1>2. ret = NoRet /\ TypeOK /\ Placed
  BY <1>1 DEF IInv, Suspended
<1>3. m \in DOMAIN prog /\ n \in DOMAIN prog[m] /\ Node(m, n).type = "FUNCDECL"
  <2>1. GlobalIdx(Entry) \in DOMAIN globals
    BY <1>1, Shapes, FindSymIndex DEF GlobalIdx
  <2> QED  BY <1>1, <1>2, <2>1 DEF EntryDecl, Placed
<1>4. m \in Nat /\ n \in Nat
  BY <1>2, <1>3, NodeFacts DEF TypeOK
<1> HIDE DEF m, n
<1>5. /\ e \in EnvRecord /\ e.mod = m /\ e.scope = 0
      /\ f \in FrameRecord /\ f.fn = 1 /\ f.mod = m /\ f.scope = 0 /\ f.node = n
      /\ f.at = 0 /\ f.vals = <<>>
  <2>1. <<>> \in Seq(Value) /\ <<>> \in Seq(SymRecord)
    OBVIOUS
  <2> QED  BY <1>4, <2>1 DEF EnvRecord, FrameRecord
<1>6. Frame(fns', n) = f
  BY <1>1 DEF Frame
<1> HIDE DEF e, f
<1>7. /\ fns' \in Seq(EnvRecord) /\ Len(fns') = 1 /\ DOMAIN fns' = {1} /\ fns'[1] = e
      /\ cstk' \in Seq(FrameRecord) /\ Len(cstk') = 1 /\ DOMAIN cstk' = {1} /\ cstk'[1] = f
      /\ Top' = f /\ Env' = e
  BY <1>1, <1>5, <1>6 DEF Top, Env
<1>8. /\ ~InCallee(cstk[1])' /\ OpenScopes(cstk[1])' = 0 /\ ArgsFit(cstk[1])'
      /\ ~InCallee(Top)' /\ OpenScopes(Top)' = 0
  BY <1>1, <1>3, <1>5, <1>7 DEF InCallee, OpenScopes, ArgsFit, Arguing, Node
<1>9. TypeOK'
  BY <1>1, <1>2, <1>7 DEF TypeOK, Phases
<1>10. StackDiscipline'
  BY <1>5, <1>7, <1>8 DEF StackDiscipline
<1>11. Placed'
  BY <1>1, <1>2, <1>3, <1>5, <1>7 DEF Placed, Node
<1>12. Suspended'
  BY <1>1, <1>2, <1>5, <1>7, <1>8 DEF Suspended
<1> QED  BY <1>9, <1>10, <1>11, <1>12 DEF IInv

LEMMA PrologueKeeps ==
  ASSUME IInv, Prologue
  PROVE  IInv'
<1>1. CASE NextModule
  <2>1. /\ phase = "symtab" /\ phase' \in {"symtab", "globals"}
        /\ UNCHANGED <<prog, globals, fns, cstk, ret, live, fault>>
    BY <1>1 DEF NextModule, Walking
  <2>2. walk' \in [mod : Nat, node : Nat] /\ walk'.mod > 0 /\ walk'.node > 0
    BY <1>1, WalkFacts DEF NextModule
  <2> QED  BY <2>1, <2>2, RetFacts, OutsideKeeps DEF Phases, IInv, TypeOK, Placed
<1>2. CASE GlobalSymtab
  BY <1>2, GlobalSymtabKeeps
<1>3. CASE InitGlobal
  BY <1>3, InitGlobalKeeps
<1>4. CASE GlobalsDone
  <2>1. /\ phase = "globals" /\ phase' = "lookup"
        /\ UNCHANGED <<prog, walk, globals, fns, cstk, ret, live, fault>>
    BY <1>4 DEF GlobalsDone, Walking
  <2> QED  BY <2>1, WalkFacts, RetFacts, OutsideKeeps DEF Phases, IInv, TypeOK, Placed
<1>5. CASE EntryError
  <2>1. /\ phase = "lookup" /\ phase' = "error" /\ globals' = <<>>
        /\ UNCHANGED <<prog, walk, fns, cstk, ret, live, fault>>
    BY <1>5 DEF EntryError, Walking
  <2> QED  BY <2>1, WalkFacts, RetFacts, OutsideKeeps DEF Phases
<1>6. CASE EnterEntry
  BY <1>6, EnterEntryKeeps
<1> QED  BY <1>1, <1>2, <1>3, <1>4, <1>5, <1>6 DEF Prologue

LEMMA FinishKeeps ==
  ASSUME IInv, Finish
  PROVE  IInv'
<1>1. /\ phase' = "done" /\ fns' = <<>> /\ globals' = <<>> /\ ret' = NoRet /\ cstk' = <<>>
      /\ UNCHANGED <<prog, walk>>
  BY DEF Finish
<1>2. live' \subseteq Blocks /\ fault' \in Faults
  BY ReleaseKept DEF Finish
<1>3. TypeOK'
  BY <1>1, <1>2, PlainValues DEF IInv, TypeOK, Phases
<1>4. StackDiscipline' /\ Placed' /\ Suspended'
  BY <1>1 DEF StackDiscipline, IInv, Placed, Suspended
<1> QED  BY <1>3, <1>4 DEF IInv

LEMMA StutterKeeps ==
  ASSUME IInv, UNCHANGED vars
  PROVE  IInv'
<1>1. Undefined(fault) /\ fault \in Faults
  BY RetFacts DEF vars, Undefined
<1> QED  BY <1>1, UndefinedKeeps

-----------------------------------------------------------------------------
(* The theorems. *)

LEMMA InitIInv == Init => IInv
<1> SUFFICES ASSUME Init
             PROVE  IInv
  OBVIOUS
<1>1. TypeOK
  BY PlainValues DEF Init, TypeOK, Phases, Faults
<1>2. StackDiscipline /\ Placed /\ Suspended
  BY DEF Init, StackDiscipline, Placed, Suspended
<1> QED  BY <1>1, <1>2 DEF IInv

\* Every step keeps the inductive invariant.
LEMMA NextIInv == IInv /\ [Next]_vars => IInv'
<1> SUFFICES ASSUME IInv, [Next]_vars
             PROVE  IInv'
  OBVIOUS
<1>1. CASE Prologue
  BY <1>1, PrologueKeeps
<1>2. CASE Statement
  BY <1>2, FuncDeclKeeps, LocalDeclKeeps, ReturnKeeps, CtreeKeeps, WhileKeeps, ForKeeps,
     BreakContinueKeep, BlockKeeps DEF Statement
<1>3. CASE Expression
  BY <1>3, EvalOperandKeeps, CollectKeeps, EatomKeeps, SysRejectKeeps, SysCallKeeps,
     SysShellKeeps, EcallKeeps, EaccessKeeps, NegNotKeeps, EcastKeeps, ArithmeticKeeps,
     EternaryKeeps, AssignKeeps DEF Expression
<1>4. CASE Finish
  BY <1>4, FinishKeeps
<1>5. CASE UNCHANGED vars
  BY <1>5, StutterKeeps
<1> QED  BY <1>1, <1>2, <1>3, <1>4, <1>5 DEF Next, Stopped

\* The interpreter keeps the types of its state, for every parsed program: no
\* scope counter of ls_exec_t goes below zero, and no out parameter that a handler
\* left unwritten ends in a symbol table or in a local of a handler.
THEOREM TypeCorrect == Spec => []TypeOK
<1>1. IInv => TypeOK
  BY DEF IInv
<1> QED  BY InitIInv, NextIInv, <1>1, PTL DEF Spec

\* In every run of every parsed program the handlers, the environments of
\* ls_exec_t and the scope counters stay in step, whatever mixture of returns,
\* breaks, continues and calls leaves the scopes, and however deep they nest.
THEOREM StackDisciplined == Spec => []StackDiscipline
<1>1. IInv => StackDiscipline
  BY DEF IInv
<1> QED  BY InitIInv, NextIInv, <1>1, PTL DEF Spec
=============================================================================

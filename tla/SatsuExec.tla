----------------------------- MODULE SatsuExec -----------------------------
(***************************************************************************)
(* The tree-walking interpreter of libsatsu (ls_exec.c) as a machine.      *)
(*                                                                         *)
(* The C handlers ls_exec* recurse on the C stack; here that stack is the  *)
(* variable cstk, one frame per active handler, and a step runs one        *)
(* handler from one recursive call to the next.  A frame keeps what the    *)
(* handler read on entry (the environment index, the module, the scope     *)
(* counter), the child it is evaluating and the values it holds in local   *)
(* variables.  fns is the stack of function environments of ls_exec_t.     *)
(*                                                                         *)
(* Data is abstract: a number or a boolean is its type, a string is its    *)
(* type and the heap block that holds it.  A branch on a boolean may go    *)
(* either way.  live is the set of allocated blocks, and fault names the   *)
(* first step whose effect C leaves undefined; the machine stops there.    *)
(***************************************************************************)
EXTENDS SatsuProgram

CONSTANTS
  Programs,  \* the parsed programs: a sequence of modules, each a sequence of nodes
  Entry,     \* the name of the entry function
  Blocks,    \* heap blocks for strings: bounds the number alive at once
  MaxDepth,  \* bound on the depth of calls
  MaxSyms    \* bound on the symbols of one environment

VARIABLES
  prog,      \* e->m: the program being run, never written
  phase,     \* where ls_exec is: "symtab", "globals", "lookup", "run", "done", "error"
  walk,      \* the counters of the loops of ls_globalsymtab and ls_exec
  globals,   \* e->globalst
  fns,       \* e->localsts, e->scopes and e->mods, up to e->fndepth
  cstk,      \* the active handlers, innermost last
  ret,       \* what the handler that just returned gave back, or NoRet
  live,      \* allocated string blocks
  fault      \* "none", or the first undefined or trapping step

vars == <<prog, phase, walk, globals, fns, cstk, ret, live, fault>>

Actions == {"none", "return", "stop", "next", "running"}
Phases == {"symtab", "globals", "lookup", "run", "done", "error"}
Faults ==
  {"none", "trap", "overflow", "double free", "dangling read", "bad symbol", "bad operand"}

\* The values the run can hold.
Value ==
  {v \in [type : ValTypes, str : Blocks \union {NoBlock}, member : ValTypes] : AsWritten(v)}

\* An out parameter the handler did not write.
Unwritten == Val("unwritten")
Ret(act, val) == [act |-> act, val |-> val]
NoRet == Ret("running", Null)
\* A local initialised to {0} whose address was passed as the out parameter.
\* Mutant: the local is read as if it had been written.
SlotRaw(val) == val
Slot(val) == IF val = Unwritten THEN Null ELSE val

-----------------------------------------------------------------------------
(* The program. *)

ASSUME ProgramsAssumption ==
  \A p \in Programs :
    /\ p \in Seq(Seq(NodeRecord))
    /\ \A m \in DOMAIN p : \A n \in DOMAIN p[m] : NodeOk(p[m], n)

Node(m, n) == prog[m][n]
\* ls_toktoprim of the token of a type node.
Prim(m, n) == Node(m, n).tok

-----------------------------------------------------------------------------
(* The heap.  ls_destroyval on each of vs, in order. *)

StrIdx(vs) == {i \in DOMAIN vs : vs[i].type = "string"}
BlocksOf(vs) == {vs[i].str : i \in StrIdx(vs)}
Releasable(vs) ==
  /\ BlocksOf(vs) \subseteq live
  /\ \A i, j \in StrIdx(vs) : vs[i].str = vs[j].str => i = j

HasRoom == live # Blocks
NewBlock == IF HasRoom THEN CHOOSE b \in Blocks : b \notin live ELSE NoBlock

\* A new value of the type: ls_defaultval, a literal, the result of an operator.
NewVal(type) == IF type = "string" THEN StrVal(NewBlock) ELSE Val(type)
\* ls_copyval.
CopyVal(v) == IF v.type = "string" THEN StrVal(NewBlock) ELSE v
\* The blocks a freshly made value takes.
Taken(v) == IF v.type = "string" THEN {v.str} ELSE {}

\* The step makes the value made and releases the values vs.
Heap(made, vs) ==
  /\ made.type = "string" => HasRoom
  /\ live' = (live \ BlocksOf(vs)) \union Taken(made)
  /\ fault' = IF Releasable(vs) THEN fault ELSE "double free"

\* A step C leaves undefined, or that traps.
Undefined(kind) ==
  /\ fault' = kind
  /\ UNCHANGED <<prog, phase, walk, globals, fns, cstk, ret, live>>

-----------------------------------------------------------------------------
(* Handlers and environments. *)

Top == cstk[Len(cstk)]
Env == fns[Len(fns)]
N == Node(Top.mod, Top.node)
Kid(k) == N.kids[k]
Arity == Len(N.kids)

Running == phase = "run" /\ fault = "none" /\ cstk # <<>>
\* Top has just been called, or goes on from a call it made.
Starting(types) == Running /\ ret = NoRet /\ N.type \in types /\ Top.at = 0
Resuming(types) == Running /\ ret # NoRet /\ N.type \in types

\* The frame of a handler called on node n: what it reads on entry.
Frame(env, n) ==
  [fn |-> Len(env), mod |-> env[Len(env)].mod, scope |-> env[Len(env)].scope,
   node |-> n, at |-> 0, vals |-> <<>>]

\* Top, holding vals, calls the handler of node n as its k-th child, in the
\* environments env.
CallNode(env, k, n, vals) ==
  /\ fns' = env
  /\ cstk' = Append([cstk EXCEPT ![Len(cstk)].at = k, ![Len(cstk)].vals = vals],
                    Frame(env, n))
  /\ ret' = NoRet
Call(env, k) == CallNode(env, k, Kid(k), <<>>)

\* Top returns.
Leave(act, val) ==
  /\ cstk' = SubSeq(cstk, 1, Len(cstk) - 1)
  /\ ret' = Ret(act, val)

\* ++e->scopes[e->fndepth - 1]
Opened == [fns EXCEPT ![Len(fns)].scope = @ + 1]
\* ls_popsymscope(&e->localsts[e->fndepth - 1], e->scopes[e->fndepth - 1]--)
KeptHere == Kept(Env.syms, Env.scope)
\* Mutants: the counter is not decremented; the symbols are left; the values are
\* not destroyed.
ClosedNoCount == [fns EXCEPT ![Len(fns)].syms = Prefix(@, KeptHere)]
ClosedNoPop == [fns EXCEPT ![Len(fns)].scope = @ - 1]
DroppedNone == <<>>

Closed == [fns EXCEPT ![Len(fns)] =
             [mod |-> Env.mod, scope |-> Env.scope - 1, syms |-> Prefix(Env.syms, KeptHere)]]
Dropped == ValsAfter(Env.syms, KeptHere)

\* Where ls_assignmentdst and ls_execeatom find a name: the local table first.
LocalIdx(sym) == FindSym(Env.syms, sym)
GlobalIdx(sym) == FindSym(globals, sym)
Found(sym) == LocalIdx(sym) # 0 \/ GlobalIdx(sym) # 0
Lookup(sym) ==
  IF LocalIdx(sym) # 0 THEN Env.syms[LocalIdx(sym)] ELSE globals[GlobalIdx(sym)]

Intact == UNCHANGED <<prog, phase, walk, globals>>
NoHeap == UNCHANGED <<live, fault>>

-----------------------------------------------------------------------------
(* ls_exec up to the call of the entry function. *)

Init ==
  /\ prog \in Programs
  /\ phase = "symtab" /\ walk = [mod |-> 1, node |-> 1]
  /\ globals = <<>> /\ fns = <<>> /\ cstk = <<>> /\ ret = NoRet
  /\ live = {} /\ fault = "none"

Walking(ph) == phase = ph /\ fault = "none"
NextNode == walk' = [walk EXCEPT !.node = @ + 1]

\* The end of a module, and of the walk, in ls_globalsymtab.
NextModule ==
  /\ Walking("symtab")
  /\ IF walk.mod > Len(prog)
     THEN phase' = "globals" /\ walk' = [walk EXCEPT !.node = 1]
     ELSE /\ walk.node > Len(prog[walk.mod])
          /\ phase' = phase /\ walk' = [mod |-> walk.mod + 1, node |-> 1]
  /\ UNCHANGED <<prog, globals, fns, cstk, ret, live, fault>>

\* One node of a module in ls_globalsymtab.  ls_exec does not look at the error
\* it returns and goes on with a table that was never written.
GlobalSymtab ==
  /\ Walking("symtab")
  /\ walk.mod <= Len(prog) /\ walk.node <= Len(prog[walk.mod])
  /\ LET n == Node(walk.mod, walk.node)
         type == IF n.type = "FUNCDECL" THEN "func" ELSE Prim(walk.mod, n.kids[1])
     IN IF n.type \notin {"FUNCDECL", "GLOBALDECL"}
        THEN NextNode /\ UNCHANGED <<prog, phase, globals, fns, cstk, ret, live, fault>>
        ELSE IF FindSym(globals, n.sym) # 0 \/ type = "void"
        THEN Undefined("bad symbol")
        ELSE /\ globals' = Append(globals,
                             Symbol(n.sym, type, walk.mod, walk.node, 0, Null))
             /\ NextNode
             /\ UNCHANGED <<prog, phase, fns, cstk, ret, live, fault>>

\* One global gets its default value.
InitGlobal ==
  /\ Walking("globals")
  /\ walk.node <= Len(globals)
  /\ IF globals[walk.node].type = "func"
     THEN UNCHANGED <<globals, live, fault>>
     ELSE LET v == NewVal(globals[walk.node].type)
          IN /\ Heap(v, <<>>)
             /\ globals' = [globals EXCEPT ![walk.node].val = v]
  /\ NextNode
  /\ UNCHANGED <<prog, phase, fns, cstk, ret>>

GlobalsDone ==
  /\ Walking("globals")
  /\ walk.node > Len(globals)
  /\ phase' = "lookup"
  /\ UNCHANGED <<prog, walk, globals, fns, cstk, ret, live, fault>>

EntryDecl == globals[GlobalIdx(Entry)]
EntryNode == Node(EntryDecl.mod, EntryDecl.node)
EntryOk ==
  /\ GlobalIdx(Entry) # 0
  /\ EntryDecl.type = "func"
  /\ Prim(EntryDecl.mod, EntryNode.kids[1]) = "void"
  /\ Node(EntryDecl.mod, EntryNode.kids[2]).kids = <<>>

\* The early returns: no symbol, not a function, not void, or with parameters.
\* The table of globals is a local of ls_exec.
EntryError ==
  /\ Walking("lookup")
  /\ ~EntryOk
  /\ phase' = "error" /\ globals' = <<>>
  /\ UNCHANGED <<prog, walk, fns, cstk, ret, live, fault>>

\* ls_createexec, ls_pushexecfn and the call of ls_execfuncdecl.
EnterEntry ==
  /\ Walking("lookup")
  /\ EntryOk
  /\ phase' = "run"
  /\ fns' = <<[mod |-> EntryDecl.mod, scope |-> 0, syms |-> <<>>]>>
  /\ cstk' = <<Frame(fns', EntryDecl.node)>>
  /\ UNCHANGED <<prog, walk, globals, ret, live, fault>>

\* The places where values are: a local symbol, a global, a local of a handler, and
\* what the handler that just returned gave back.
LocalPlaces == UNION {{<<"local", d, i>> : i \in DOMAIN fns[d].syms} : d \in DOMAIN fns}
GlobalPlaces == {<<"global", 1, i>> : i \in DOMAIN globals}
RetPlace == <<"ret", 1, 1>>
ValAt(p) ==
  CASE p[1] = "local" -> fns[p[2]].syms[p[3]].val
    [] p[1] = "global" -> globals[p[3]].val
    [] p[1] = "frame" -> cstk[p[2]].vals[p[3]]
    [] OTHER -> ret.val

\* What is left to release when the entry function is back.
Remaining == [p \in LocalPlaces \union GlobalPlaces \union {RetPlace} |-> ValAt(p)]

\* The entry function is back: ls_destroyval, ls_destroyexec, ls_destroysymtab.
Finish ==
  /\ phase = "run" /\ fault = "none" /\ cstk = <<>>
  /\ phase' = "done"
  /\ Heap(Null, Remaining)
  /\ fns' = <<>> /\ globals' = <<>> /\ ret' = NoRet
  /\ UNCHANGED <<prog, walk, cstk>>

-----------------------------------------------------------------------------
(* Functions and statements. *)

\* Mutant: every function without a return gives back void.
FallThroughVoid == Val("void")

\* The value of a function whose body ended without a return.
FallThrough == NewVal(Prim(Top.mod, Kid(1)))

FuncDecl ==
  \/ /\ Starting({"FUNCDECL"})
     /\ Call(fns, 3)
     /\ NoHeap /\ Intact
  \/ /\ Resuming({"FUNCDECL"})
     /\ LET v == IF ret.act = "return" THEN ret.val ELSE FallThrough
        IN /\ IF ret.act = "return" THEN NoHeap ELSE Heap(v, <<>>)
           /\ Leave("none", v)
     /\ UNCHANGED fns /\ Intact

Ctree ==
  \/ /\ Starting({"CTREE"})
     /\ Call(fns, 1)
     /\ NoHeap /\ Intact
  \/ /\ Resuming({"CTREE"}) /\ Top.at = 1
     /\ \/ Call(Opened, 2)
        \/ Arity = 3 /\ Call(Opened, 3)
        \/ Arity # 3 /\ Leave("none", Unwritten) /\ UNCHANGED fns
     /\ NoHeap /\ Intact
  \/ /\ Resuming({"CTREE"}) /\ Top.at \in {2, 3}
     /\ Heap(Null, Dropped)
     /\ fns' = Closed
     /\ Leave(ret.act, ret.val)
     /\ Intact

\* Mutant: the caller is not told of the return.
LeaveScopeQuiet(act, val, vs) ==
  /\ Heap(Null, vs \o Dropped)
  /\ fns' = Closed
  /\ Leave(IF act = "return" THEN "none" ELSE act, val)
  /\ Intact

\* Mutant: a loop that was broken tells its caller to break too.
LeaveScopeBroken(act, val, vs) ==
  /\ Heap(Null, vs \o Dropped)
  /\ fns' = Closed
  /\ Leave(IF ret.act = "stop" THEN "stop" ELSE act, val)
  /\ Intact

\* A loop or a block ends: the scope is closed and the handler returns.
LeaveScope(act, val, vs) ==
  /\ Heap(Null, vs \o Dropped)
  /\ fns' = Closed
  /\ Leave(act, val)
  /\ Intact

While ==
  \/ /\ Starting({"WHILE"})
     /\ Call(Opened, 1)
     /\ NoHeap /\ Intact
  \/ /\ Resuming({"WHILE"}) /\ Top.at = 1
     /\ \/ Call(fns, 2) /\ NoHeap /\ Intact
        \/ LeaveScope("none", Unwritten, <<>>)
  \/ /\ Resuming({"WHILE"}) /\ Top.at = 2
     /\ LET v == Slot(ret.val)
        IN \/ ret.act = "return" /\ LeaveScope("return", v, <<>>)
           \/ ret.act = "stop" /\ LeaveScope("none", Unwritten, <<v>>)
           \/ /\ ret.act \in {"none", "next"}
              /\ Heap(Null, <<v>>)
              /\ Call(fns, 1)
              /\ Intact

\* Children: 1 init, 2 condition, 3 increment, 4 body.  The increment is given
\* the v that the body was, after it has been destroyed.
For ==
  \/ /\ Starting({"FOR"})
     /\ Call(Opened, 1)
     /\ NoHeap /\ Intact
  \/ /\ Resuming({"FOR"}) /\ Top.at = 1
     /\ Heap(Null, <<Slot(ret.val)>>)
     /\ Call(fns, 2)
     /\ Intact
  \/ /\ Resuming({"FOR"}) /\ Top.at = 2
     /\ \/ Call(fns, 4) /\ NoHeap /\ Intact
        \/ LeaveScope("none", Unwritten, <<>>)
  \/ /\ Resuming({"FOR"}) /\ Top.at = 4
     /\ LET v == Slot(ret.val)
        IN \/ ret.act = "return" /\ LeaveScope("return", v, <<>>)
           \/ ret.act = "stop" /\ LeaveScope("none", Unwritten, <<v>>)
           \/ /\ ret.act \in {"none", "next"}
              /\ Heap(Null, <<v>>)
              /\ CallNode(fns, 3, Kid(3), <<v>>)
              /\ Intact
  \/ /\ Resuming({"FOR"}) /\ Top.at = 3
     /\ Heap(Null, IF ret.val = Unwritten THEN Top.vals ELSE <<ret.val>>)
     /\ Call(fns, 2)
     /\ Intact

Break ==
  /\ Starting({"BREAK"})
  /\ Leave("stop", Unwritten)
  /\ UNCHANGED fns /\ NoHeap /\ Intact

Continue ==
  /\ Starting({"CONTINUE"})
  /\ Leave("next", Unwritten)
  /\ UNCHANGED fns /\ NoHeap /\ Intact

Block ==
  \/ /\ Starting({"BLOCK"}) /\ Arity > 0
     /\ Call(Opened, 1)
     /\ NoHeap /\ Intact
  \/ /\ Starting({"BLOCK"}) /\ Arity = 0
     /\ Leave("none", Unwritten)
     /\ UNCHANGED fns /\ NoHeap /\ Intact
  \/ /\ Resuming({"BLOCK"})
     /\ LET v == Slot(ret.val)
        IN \/ ret.act = "return" /\ LeaveScope("return", v, <<>>)
           \/ /\ ret.act \in {"next", "stop"}
              /\ LeaveScope(ret.act, Unwritten, <<v>>)
           \/ /\ ret.act = "none" /\ Top.at = Arity
              /\ LeaveScope("none", Unwritten, <<v>>)
           \/ /\ ret.act = "none" /\ Top.at < Arity
              /\ Heap(Null, <<v>>)
              /\ Call(fns, Top.at + 1)
              /\ Intact

-----------------------------------------------------------------------------
(* Operands: the children a handler evaluates, in order, into its locals. *)

OperandTypes ==
  {"LOCALDECL", "RETURN", "ESYSTEM", "ECALL", "EACCESS", "ENEG", "ENOT", "ECAST"}
    \union Binaries \union Assigns
FirstOperand == IF N.type \in Assigns \union {"LOCALDECL", "ECALL", "ESYSTEM"} THEN 2 ELSE 1
LastOperand ==
  IF N.type \in {"ENEG", "ENOT", "ECAST"} THEN 1
  ELSE IF N.type \in Assigns \union Binaries \union {"LOCALDECL"} THEN 2
  ELSE Arity
Operands == LastOperand - FirstOperand + 1

\* ls_basesysfns.
SysFns ==
  [print   |-> [rettype |-> "void",   argtypes |-> <<"int", "string">>],
   cprint  |-> [rettype |-> "void",   argtypes |-> <<"string">>],
   readln  |-> [rettype |-> "string", argtypes |-> <<"int">>],
   creadln |-> [rettype |-> "string", argtypes |-> <<>>],
   shell   |-> [rettype |-> "bool",   argtypes |-> <<"string">>]]

\* The checks of ls_execesystem before it evaluates an argument, and after each.
SysCallable ==
  /\ N.sym \in DOMAIN SysFns
  /\ SysFns[N.sym].rettype = Prim(Top.mod, Kid(1))
  /\ Len(SysFns[N.sym].argtypes) = Arity - 1
SysArgsOk ==
  \A i \in DOMAIN Top.vals : Top.vals[i].type = SysFns[N.sym].argtypes[i]

\* The function a call node names: looked up among the globals only.
CalleeIdx(f) == GlobalIdx(Node(f.mod, Node(f.mod, f.node).kids[1]).sym)
Callee(f) == globals[CalleeIdx(f)]
CalleeOk(f) == CalleeIdx(f) # 0 /\ Callee(f).type = "func"
ParamNodes(f) == Node(Callee(f).mod, Node(Callee(f).mod, Callee(f).node).kids[2]).kids
\* The parameter of the next argument is there to be read.
NextParamOk(f) == CalleeOk(f) /\ Len(f.vals) < Len(ParamNodes(f))

EvalOperand ==
  /\ Running /\ ret = NoRet /\ N.type \in OperandTypes
  /\ Len(Top.vals) < Operands
  /\ N.type = "ESYSTEM" => SysCallable /\ SysArgsOk
  /\ N.type = "ECALL" => NextParamOk(Top)
  /\ LET k == FirstOperand + Len(Top.vals)
     IN CallNode(fns, k, Kid(k), Top.vals)
  /\ NoHeap /\ Intact

Collect ==
  /\ Resuming(OperandTypes) /\ Top.at <= Arity
  /\ cstk' = [cstk EXCEPT ![Len(cstk)].vals = Append(@, Slot(ret.val))]
  /\ ret' = NoRet
  /\ UNCHANGED fns /\ NoHeap /\ Intact

\* Every operand is evaluated.
Ready(types) ==
  Running /\ ret = NoRet /\ N.type \in types /\ Len(Top.vals) = Operands

\* An expression writes the value made to *out after it has released vs.
Yield(made, vs) ==
  /\ Heap(made, vs)
  /\ Leave("none", made)
  /\ UNCHANGED fns /\ Intact

\* Values whose characters can be read.
Readable(vs) == \A i \in DOMAIN vs : vs[i].type = "string" /\ vs[i].str \in live

Return ==
  /\ Ready({"RETURN"})
  /\ Leave("return", IF Arity = 0 THEN Val("void") ELSE Top.vals[1])
  /\ UNCHANGED fns /\ NoHeap /\ Intact

LocalDecl ==
  /\ Ready({"LOCALDECL"})
  /\ Len(Env.syms) < MaxSyms
  /\ fns' = [fns EXCEPT ![Len(fns)].syms =
               Append(@, Symbol(N.sym, Prim(Top.mod, Kid(1)), Top.mod, Top.node,
                                Top.scope, Top.vals[1]))]
  /\ Leave("none", Unwritten)
  /\ NoHeap /\ Intact

-----------------------------------------------------------------------------
(* Expressions. *)

Eatom ==
  /\ Starting({"EATOM"})
  /\ \/ N.tok # "IDENT" /\ Yield(NewVal(LitTypes[N.tok]), <<>>)
     \/ /\ N.tok = "IDENT" /\ Found(N.sym)
        /\ LET v == Lookup(N.sym).val
           IN IF v.type = "string" => v.str \in live
              THEN Yield(CopyVal(v), <<>>)
              ELSE Undefined("dangling read")
     \/ N.tok = "IDENT" /\ ~Found(N.sym) /\ Undefined("bad symbol")

\* A failed check: *out gets the default value of the type the call names.  The
\* loop that destroys the arguments returns after the first of them.
SysReject ==
  /\ Running /\ ret = NoRet /\ N.type = "ESYSTEM"
  /\ \/ ~SysCallable /\ Yield(NewVal(Prim(Top.mod, Kid(1))), <<>>)
     \/ /\ SysCallable /\ ~SysArgsOk
        /\ Yield(NewVal(Prim(Top.mod, Kid(1))), <<Top.vals[1]>>)

\* print, cprint, readln and creadln.
SysCall ==
  /\ Ready({"ESYSTEM"}) /\ SysCallable /\ SysArgsOk
  /\ N.sym # "shell"
  /\ Yield(NewVal(SysFns[N.sym].rettype), Top.vals)

ShellOut == LocalIdx("__out")
ShellReady ==
  /\ ShellOut # 0 /\ Env.syms[ShellOut].val.type = "string"
  /\ LocalIdx("__rc") # 0 /\ Env.syms[LocalIdx("__rc")].val.type = "int"

\* shell fails without its two locals, or when popen fails; else it replaces the
\* string in __out (and the number in __rc).
SysShell ==
  /\ Ready({"ESYSTEM"}) /\ SysCallable /\ SysArgsOk
  /\ N.sym = "shell"
  /\ \/ Yield(Val("bool"), Top.vals)
     \/ /\ ShellReady
        /\ Heap(StrVal(NewBlock), Append(Top.vals, Env.syms[ShellOut].val))
        /\ fns' = [fns EXCEPT ![Len(fns)].syms[ShellOut].val = StrVal(NewBlock)]
        /\ Leave("none", Val("bool"))
        /\ Intact

\* The environment of the callee.  The parameters take the arguments, and their
\* types from the values.
Params ==
  [i \in DOMAIN Top.vals |->
     Symbol(Node(Callee(Top).mod, ParamNodes(Top)[i]).sym, Top.vals[i].type,
            Callee(Top).mod, ParamNodes(Top)[i], 0, Top.vals[i])]
\* Mutant: the callee stays in the module of the caller.
CalleeEnvHere == [mod |-> Env.mod, scope |-> 0, syms |-> Params]
CalleeEnv == [mod |-> Callee(Top).mod, scope |-> 0, syms |-> Params]

Ecall ==
  \/ /\ Ready({"ECALL"}) /\ CalleeOk(Top)
     /\ Len(fns) < MaxDepth
     /\ CallNode(Append(fns, CalleeEnv), Arity + 1, Callee(Top).node, <<>>)
     /\ NoHeap /\ Intact
  \/ /\ Resuming({"ECALL"}) /\ Top.at > Arity
     /\ Heap(Null, ValsAfter(Env.syms, 0))
     /\ fns' = SubSeq(fns, 1, Len(fns) - 1)
     /\ Leave("none", ret.val)
     /\ Intact
  \/ /\ Running /\ ret = NoRet /\ N.type = "ECALL"
     /\ ~CalleeOk(Top) \/ (Len(Top.vals) < Operands /\ ~NextParamOk(Top))
     /\ Undefined("bad symbol")

\* Both the slice and the failed access make a string; the operand is released.
Eaccess ==
  /\ Ready({"EACCESS"})
  /\ IF Readable(<<Top.vals[1]>>)
     THEN Yield(NewVal("string"), <<Top.vals[1]>>)
     ELSE Undefined("bad operand")

\* The operand itself is the result; its number or truth value is changed in place.
NegNot ==
  /\ Ready({"ENEG", "ENOT"})
  /\ LET type == Top.vals[1].type
     IN IF type \in (IF N.type = "ENEG" THEN {"int", "real"} ELSE {"bool"})
        THEN Leave("none", Val(type)) /\ UNCHANGED fns /\ NoHeap /\ Intact
        ELSE Undefined("bad operand")

\* Mutant: a string is always read as a real.
CastTypeReal(from, to) ==
  CASE from = "int" -> IF to \in {"real", "string"} THEN to ELSE "bool"
    [] from = "real" -> IF to = "int" THEN to ELSE "string"
    [] from = "string" -> "real"
    [] OTHER -> IF to = "int" THEN to ELSE "string"

\* The type ls_exececast gives: each branch ends in an else that takes the rest.
CastType(from, to) ==
  CASE from = "int" -> IF to \in {"real", "string"} THEN to ELSE "bool"
    [] from = "real" -> IF to = "int" THEN to ELSE "string"
    [] from = "string" -> IF to = "int" THEN to ELSE "real"
    [] OTHER -> IF to = "int" THEN to ELSE "string"

\* The digits of a real that is large enough do not fit into the 64 characters
\* sprintf writes them to.
Ecast ==
  /\ Ready({"ECAST"})
  /\ LET v == Top.vals[1]
         to == CastType(v.type, Prim(Top.mod, Kid(2)))
     IN IF v.type = "string" => v.str \in live
        THEN \/ Yield(NewVal(to), <<v>>)
             \/ v.type = "real" /\ to = "string" /\ Undefined("overflow")
        ELSE Undefined("bad operand")

\* Division by the integer 0 traps.
MayTrap(types) ==
  N.type \in types /\ Top.vals[1].type = "int" /\ Undefined("trap")

Arithmetic ==
  /\ Ready(Arithmetics)
  /\ \/ Yield(Val(IF Top.vals[1].type = "int" THEN "int" ELSE "real"), <<>>)
     \/ MayTrap({"EDIV", "EMOD"})

Eadd ==
  /\ Ready({"EADD"})
  /\ IF Top.vals[1].type \in {"int", "real"}
     THEN Yield(IF Top.vals[1].type = "int" THEN Val("int") ELSE RealSum, <<>>)
     ELSE IF Readable(Top.vals)
     THEN Yield(NewVal("string"), Top.vals)
     ELSE Undefined("bad operand")

Comparison ==
  /\ Ready(Comparisons)
  /\ IF Top.vals[1].type \in {"int", "real"}
     THEN Yield(Val("bool"), <<>>)
     ELSE IF Readable(Top.vals)
     THEN Yield(Val("bool"), Top.vals)
     ELSE Undefined("bad operand")

Logical ==
  /\ Ready(Logicals)
  /\ Yield(Val("bool"), <<>>)

Eternary ==
  \/ /\ Starting({"ETERNARY"})
     /\ Call(fns, 1)
     /\ NoHeap /\ Intact
  \/ /\ Resuming({"ETERNARY"}) /\ Top.at = 1
     /\ \E k \in {2, 3} : Call(fns, k)
     /\ NoHeap /\ Intact
  \/ /\ Resuming({"ETERNARY"}) /\ Top.at \in {2, 3}
     /\ Leave("none", ret.val)
     /\ UNCHANGED fns /\ NoHeap /\ Intact

-----------------------------------------------------------------------------
(* Assignments.  *out is not written. *)

Target == Node(Top.mod, Kid(1)).sym

\* The value of the target becomes v.
Store(v) ==
  /\ IF LocalIdx(Target) # 0
     THEN /\ fns' = [fns EXCEPT ![Len(fns)].syms[LocalIdx(Target)].val = v]
          /\ UNCHANGED globals
     ELSE /\ globals' = [globals EXCEPT ![GlobalIdx(Target)].val = v]
          /\ UNCHANGED fns
  /\ Leave("none", Unwritten)
  /\ UNCHANGED <<prog, phase, walk>>

\* Mutant: every number is written as a real.
InPlaceReal ==
  LET type == Top.vals[1].type
  IN IF type \in {"int", "real"} /\ Lookup(Target).val.type = type
     THEN Store([Val(type) EXCEPT !.member = "real"]) /\ NoHeap
     ELSE Undefined("bad operand")

\* A number is worked into the union of the target, which keeps its tag: the
\* target has to hold a number of that type.
InPlace ==
  LET type == Top.vals[1].type
  IN IF type \in {"int", "real"} /\ Lookup(Target).val.type = type
     THEN Store(Val(type)) /\ NoHeap
     ELSE Undefined("bad operand")

Eassign ==
  /\ Ready({"EASSIGN"})
  /\ LET v == Top.vals[1]
         old == Lookup(Target).val
     IN IF v.type \in {"int", "real"}
        THEN InPlace
        ELSE Store(v) /\ Heap(Null, <<old>>)

Eaddassign ==
  /\ Ready({"EADDASSIGN"})
  /\ LET v == Top.vals[1]
         old == Lookup(Target).val
     IN IF v.type \in {"int", "real"}
        THEN InPlace
        ELSE IF Readable(<<old, v>>)
        THEN Store(StrVal(NewBlock)) /\ Heap(StrVal(NewBlock), <<old, v>>)
        ELSE Undefined("bad operand")

ArithAssign ==
  /\ Ready(Assigns \ {"EASSIGN", "EADDASSIGN"})
  /\ \/ InPlace
     \/ MayTrap({"EDIVASSIGN", "EMODASSIGN"})

\* ls_assignmentdst does not ask whether there is such a name.
Assignment ==
  /\ Ready(Assigns)
  /\ IF Found(Target)
     THEN Eassign \/ Eaddassign \/ ArithAssign
     ELSE Undefined("bad symbol")

-----------------------------------------------------------------------------
Prologue ==
  NextModule \/ GlobalSymtab \/ InitGlobal \/ GlobalsDone \/ EntryError \/ EnterEntry

Statement ==
  \/ FuncDecl \/ LocalDecl \/ Return \/ Ctree \/ While \/ For
  \/ Break \/ Continue \/ Block

Expression ==
  \/ EvalOperand \/ Collect \/ Eatom \/ SysReject \/ SysCall \/ SysShell \/ Ecall
  \/ Eaccess \/ NegNot \/ Ecast \/ Arithmetic \/ Eadd \/ Comparison \/ Logical
  \/ Eternary \/ Assignment

\* The program is over, stopped by a fault, or at a bound of the model.
AtBound ==
  \/ ~HasRoom
  \/ fns # <<>> /\ (Len(fns) >= MaxDepth \/ Len(Env.syms) >= MaxSyms)
Stopped ==
  /\ phase \in {"done", "error"} \/ fault # "none" \/ AtBound
  /\ UNCHANGED vars

Next == Prologue \/ Statement \/ Expression \/ Finish \/ Stopped

Spec == Init /\ [][Next]_vars

-----------------------------------------------------------------------------
(* Types. *)

SymRecord ==
  [sym : STRING, type : SymTypes \union {"null"}, mod : Nat, node : Nat, scope : Nat,
   val : Value]
EnvRecord == [mod : Nat, scope : Nat, syms : Seq(SymRecord)]
FrameRecord ==
  [fn : Nat, mod : Nat, scope : Nat, node : Nat, at : Nat, vals : Seq(Value)]

\* Every variable keeps its type; in particular no scope counter goes below zero
\* and no out parameter that was never written ends in a table or a local.
TypeOK ==
  /\ prog \in Programs
  /\ phase \in Phases
  /\ walk \in [mod : Nat, node : Nat]
  /\ globals \in Seq(SymRecord)
  /\ fns \in Seq(EnvRecord)
  /\ cstk \in Seq(FrameRecord)
  /\ ret \in [act : Actions, val : Value \union {Unwritten}]
  /\ live \subseteq Blocks
  /\ fault \in Faults

-----------------------------------------------------------------------------
(* Properties. *)

\* The scopes a handler has opened and not yet closed.
OpenScopes(f) ==
  IF \/ Node(f.mod, f.node).type \in {"WHILE", "FOR", "BLOCK"} /\ f.at > 0
     \/ Node(f.mod, f.node).type = "CTREE" /\ f.at > 1
  THEN 1 ELSE 0

\* A frame whose call goes on in an environment of its own.
InCallee(f) ==
  Node(f.mod, f.node).type = "ECALL" /\ f.at > Len(Node(f.mod, f.node).kids)

\* Handlers and environments stay in step.  A handler runs in the module of its
\* environment; the handler it calls is in the same environment, at the scope the
\* two have opened, except that a call of a function goes on in the next
\* environment, at scope 0.  The innermost handler is in the last environment, and
\* its scope counter counts the scopes that are open: what an early return, a
\* break or a continue out of nested scopes could leave wrong.
StackDiscipline ==
  /\ \A i \in DOMAIN cstk :
       /\ cstk[i].fn \in DOMAIN fns
       /\ cstk[i].mod = fns[cstk[i].fn].mod
  /\ \A i \in DOMAIN cstk : i + 1 \in DOMAIN cstk =>
       IF InCallee(cstk[i])
       THEN cstk[i + 1].fn = cstk[i].fn + 1 /\ cstk[i + 1].scope = 0
       ELSE /\ cstk[i + 1].fn = cstk[i].fn
            /\ cstk[i + 1].scope = cstk[i].scope + OpenScopes(cstk[i])
  /\ cstk # <<>> => IF InCallee(Top)
                    THEN Len(fns) = Top.fn + 1 /\ Env.scope = 0
                    ELSE Len(fns) = Top.fn /\ Env.scope = Top.scope + OpenScopes(Top)

\* What StackDiscipline and TypeOK rest on.  The places a declaration, an
\* environment or a handler names are in the program.
Placed ==
  /\ walk.mod > 0 /\ walk.node > 0
  /\ \A i \in DOMAIN globals : globals[i].type = "func" =>
       /\ globals[i].mod \in DOMAIN prog
       /\ globals[i].node \in DOMAIN prog[globals[i].mod]
       /\ Node(globals[i].mod, globals[i].node).type = "FUNCDECL"
  /\ \A d \in DOMAIN fns : fns[d].mod \in DOMAIN prog
  /\ \A i \in DOMAIN cstk : cstk[i].node \in DOMAIN prog[cstk[i].mod]

\* The arguments a call has evaluated have parameters to go to.
Arguing(f) == Node(f.mod, f.node).type = "ECALL" /\ ~InCallee(f)
ArgsFit(f) ==
  Arguing(f) /\ f.vals # <<>> => CalleeOk(f) /\ Len(f.vals) <= Len(ParamNodes(f))
\* A handler that waits for a call it made.
Waiting(f) == f.at > 0 /\ (Arguing(f) => NextParamOk(f))

\* Handlers below the top wait for the one above them; the environment of a
\* handler that called a function keeps the scope of that handler.
Suspended ==
  /\ phase # "run" => cstk = <<>> /\ ret = NoRet
  /\ \A i \in DOMAIN cstk : ArgsFit(cstk[i])
  /\ \A i \in DOMAIN cstk : i < Len(cstk) \/ ret # NoRet => Waiting(cstk[i])
  /\ \A i \in DOMAIN cstk : i = Len(cstk) /\ ret = NoRet => ~InCallee(cstk[i])
  /\ \A i, j \in DOMAIN cstk : i <= j => cstk[i].fn <= cstk[j].fn
  /\ \A i \in DOMAIN cstk : InCallee(cstk[i]) => fns[cstk[i].fn].scope = cstk[i].scope

IInv == TypeOK /\ StackDiscipline /\ Placed /\ Suspended

\* A table holds its symbols by scope, none deeper than its scope counter, so
\* that ls_popsymscope, which stops at the first older symbol, removes all of a
\* scope and nothing else.
ScopesSorted ==
  \A d \in DOMAIN fns :
    LET st == fns[d].syms
    IN /\ \A i, j \in DOMAIN st : i <= j => st[i].scope <= st[j].scope
       /\ \A i \in DOMAIN st : st[i].scope <= fns[d].scope

\* A call enters the function it names, in the module that declares it.
CallReachesDeclaration ==
  \A i \in DOMAIN cstk :
    i + 1 \in DOMAIN cstk /\ InCallee(cstk[i]) =>
      LET f == cstk[i]
          g == cstk[i + 1]
      IN /\ Node(g.mod, g.node).type = "FUNCDECL"
         /\ Node(g.mod, g.node).sym = Node(f.mod, Node(f.mod, f.node).kids[1]).sym

\* Where a live value can be.  The v of a for loop is dead while the increment
\* runs, and the arguments of a call in progress are its parameters.
FrameVals(f) ==
  IF Node(f.mod, f.node).type = "FOR" \/ InCallee(f) THEN <<>> ELSE f.vals
FramePlaces == UNION {{<<"frame", j, i>> : i \in DOMAIN FrameVals(cstk[j])} : j \in DOMAIN cstk}
Held ==
  [p \in LocalPlaces \union GlobalPlaces \union FramePlaces \union {RetPlace} |-> ValAt(p)]

\* Every string block has exactly one owner: no place holds a block that was
\* released, no two hold the same one, and none is forgotten while the program
\* runs.  Blocks move between handlers through out parameters, return values,
\* arguments and assignments.
OwnedOnce ==
  fault = "none" /\ phase # "error" => Releasable(Held) /\ BlocksOf(Held) = live

\* A program that passed semantic analysis reads no string after its release and
\* releases none twice, finds every symbol, and gives no handler an operand of a
\* type it is not made for.  What it can still do is left to the sizes of its
\* numbers: divide by the integer 0, or cast a real to a string that is longer
\* than the buffer of ls_exececast.
NoFault == fault \in {"none", "trap", "overflow"}

\* The value of a symbol has the type the symbol was declared with, and stands in
\* the member of the union that the users of ls_findsym read for that type.  The
\* one exception is a sum of reals that nothing has worked on since.
SymbolsTyped ==
  /\ \A d \in DOMAIN fns : \A i \in DOMAIN fns[d].syms :
       /\ fns[d].syms[i].val.type = fns[d].syms[i].type
       /\ AsWritten(fns[d].syms[i].val)
  /\ phase \in {"lookup", "run"} =>
       \A i \in DOMAIN globals : globals[i].type # "func" =>
         globals[i].val.type = globals[i].type /\ AsWritten(globals[i].val)

\* A variable of type real holds real-valued data: what was written last is the
\* real that its readers take.
RealsAreReal ==
  \A x \in Range(globals) \union UNION {Range(fns[d].syms) : d \in DOMAIN fns} :
    x.val.type = "real" => x.val.member = "real"

\* What a call gives back has the type the function was declared with, even when
\* its body ends without a return, and is written as that type, sums of reals aside.
ReturnsDeclaredType ==
  Resuming({"ECALL"}) /\ InCallee(Top) =>
    /\ ret.val.type = Prim(Callee(Top).mod, Node(Callee(Top).mod, Callee(Top).node).kids[1])
    /\ AsWritten(ret.val)

\* A break or a continue is on its way to a loop of the same function.
BreakInLoop ==
  Running /\ ret.act \in {"stop", "next"} =>
    \E i \in DOMAIN cstk :
      cstk[i].fn = Len(fns) /\ Node(cstk[i].mod, cstk[i].node).type \in {"WHILE", "FOR"}

\* A return leaves one handler after the other, up to its function: it runs no
\* other node on the way and its value arrives unchanged.
ReturnUnwinds ==
  [][Running /\ ret.act = "return" /\ N.type # "FUNCDECL" =>
       ret' = ret /\ cstk' = SubSeq(cstk, 1, Len(cstk) - 1)]_vars
=============================================================================

--------------------------- MODULE MCSatsuChecked ---------------------------
(***************************************************************************)
(* Families of programs for SatsuChecked: every program of a family that   *)
(* semantic analysis accepts is run.                                       *)
(***************************************************************************)
EXTENDS SatsuChecked, SatsuTrees

\* A string, an integer and a boolean; a function of each kind in another module.
Prelude == <<New("string", "s", Str), New("int", "n", Int1), New("bool", "b", True)>>
Library ==
  Module(<<
    Global("string", "k"),
    Func("string", "f", <<Arg("string", "p")>>, ReturnVal(Id("p"))),
    Func("void", "v", <<Arg("int", "p")>>, Do(<<Set("k", Cast(Id("p"), "string"))>>))>>)
Using(stmts) ==
  <<Module(<<Import("lib"), Func("void", "start", <<>>, Do(Prelude \o stmts))>>), Library>>

Names == {Id("s"), Id("n"), Id("b")}
Atoms == Names \union {Str, Int1, Real1, True, Id("k"), Id("p"), Id("f"), Id("nowhere")}
Results == {"string", "int", "bool", "real"}

Compound ==
  {Bin(op, x, y) : op \in {"EADD", "ELESS", "EDIV", "EXOR", "EASSIGN", "EADDASSIGN", "EMODASSIGN"},
                   x \in Names, y \in Names}
    \union {Bin(op, Str, Str) : op \in {"EASSIGN", "EADDASSIGN"}}
    \union {Bin("EADD", Real1, Real1)}
    \union {Un(op, x) : op \in {"ENEG", "ENOT"}, x \in Names}
    \union {Cast(x, t) : x \in Names \union {Real1}, t \in Results \union {"void"}}
    \union {At(x, y) : x \in Names, y \in Names}
    \union {Slice(Id("s"), Id("n"), x) : x \in Names}
    \union {Cond(x, y, Id("s")) : x \in Names, y \in Names}
    \union {Cond(True, Apply("v", <<Id("n")>>), Set("n", Int1))}
    \union {Apply(f, <<x>>) : f \in {"f", "v", "nowhere", "s", "k"}, x \in Names}
    \union {Apply("f", <<>>), Apply("v", <<Int1, Int1>>)}
    \union {System(t, "cprint", <<x>>) : t \in {"void", "string"}, x \in Names}
    \union {System("void", "cprint", <<Set("n", Int1)>>)}
    \union {System("void", "cprint", <<Str, Str, Str, Str, Str, Str, Str>>)}

\* An expression as a statement, and as the value of a declaration of each type.
ExpressionPrograms ==
  {Using(<<e>>) : e \in Compound}
    \union {Using(<<New(t, "x", e)>>) : t \in Results, e \in Atoms \union Compound}

\* Jumps and declarations under two levels of control.
Leaves ==
  {BreakStmt, ContinueStmt, ReturnVoid, ReturnVal(Int1), New("string", "x", Id("s")),
   Set("s", Id("s")), Set("x", Int1)}
Wrapped(stmt) ==
  {If(True, stmt), IfElse(True, Do(<<>>), stmt), Do(<<stmt, Set("n", Int1)>>), WhileDo(True, stmt),
   ForDo(New("int", "x", Int1), True, Set("x", Id("n")), stmt)}
ControlPrograms ==
  {Using(<<stmt>>) : stmt \in UNION {Wrapped(w) : w \in UNION {Wrapped(leaf) : leaf \in Leaves}}}

\* A name declared and used in every order, as a local, a parameter or a global.
Steps ==
  {New("int", "x", Int1), New("string", "x", Str), Do(<<New("int", "x", Int1), Set("x", Int1)>>),
   Set("x", Int1), WhileDo(True, New("string", "x", Str)), Apply("f", <<Str>>)}
ScopePrograms ==
  {Using(<<i, j, k>>) : i \in Steps, j \in Steps, k \in Steps}
    \union {<<Module(<<g, Func("void", "start", <<>>, i)>>), Library>> :
              g \in {Global("int", "x"), Global("string", "f"), Global("void", "z"),
                     Func("int", "h", <<Arg("int", "x")>>, ReturnVal(Id("x"))),
                     Func("int", "h", <<Arg("void", "x")>>, Do(<<>>)),
                     Func("int", "h", <<Arg("int", "k")>>, Do(<<>>)),
                     Func("string", "h", <<>>, ReturnVoid)},
              i \in (Steps \ {Apply("f", <<Str>>)}) \union {Apply("h", <<Int1>>)}}

\* A file that has no function ls_exec could start.
NoEntryPrograms ==
  {<<Module(<<Global("string", "g")>> \o decls)>> :
     decls \in {<<>>, <<Global("int", "start")>>,
               <<Func("int", "start", <<>>, Do(<<>>))>>,
               <<Func("void", "start", <<Arg("int", "x")>>, Do(<<>>))>>}}

MCCandidates ==
  ExpressionPrograms \union ControlPrograms \union ScopePrograms \union NoEntryPrograms

\* The nodes below the loops of a module.
InLoops(ast) ==
  LET Below(ns) == UNION {Range(ast[n].kids) : n \in ns}
      down[d \in 0..Len(ast)] ==
        IF d = 0 THEN Below({n \in DOMAIN ast : ast[n].type \in {"WHILE", "FOR"}})
        ELSE LET ns == down[d - 1] IN ns \union Below(ns)
  IN down[Len(ast)]

\* What semantic analysis accepts is what the theorem about jumps asks for.
ASSUME AcceptedJumpsInLoops ==
  \A p \in MCCandidates :
    Sema(p).out = "ok" => \A m \in DOMAIN p : JumpsInLoops(p[m], InLoops(p[m]))

-----------------------------------------------------------------------------
(* Programs for the disagreements. *)

\* new int x = 1; x();
MCCallVariable == {Using(<<New("int", "x", Int1), Apply("x", <<>>)>>)}

\* new real r = 1.0 + 1.0;
MCRealSum == {Using(<<New("real", "r", Bin("EADD", Real1, Real1))>>)}
=============================================================================

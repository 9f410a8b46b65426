---------------------------- MODULE MCSatsuExec ----------------------------
(***************************************************************************)
(* Programs for SatsuExec.                                                 *)
(***************************************************************************)
EXTENDS SatsuExec, SatsuTrees

\* Two modules; a global; a string passed to a function of the other module, which
\* may return it, a copy, or fall off its end; a loop left in every way.
Calls ==
  <<Module(<<
      Import("lib"),
      Global("string", "g"),
      Func("void", "start", <<>>, Do(<<
        New("string", "s", Str),
        Set("g", Apply("f", <<Id("s"), Int1>>)),
        WhileDo(True, Do(<<
          New("string", "t", Id("g")),
          If(True, ContinueStmt),
          IfElse(True, BreakStmt, Do(<<New("int", "k", Int1), If(False, ReturnVoid)>>)),
          Bin("EADDASSIGN", Id("t"), Apply("f", <<Str, Int1>>))>>))>>))>>),
    Module(<<
      Global("int", "n"),
      Func("string", "f", <<Arg("string", "p"), Arg("int", "q")>>, Do(<<
        If(Bin("EEQUAL", Id("q"), Id("n")), ReturnVal(Bin("EADD", Id("p"), Str))),
        ForDo(New("int", "i", Int1), Bin("ELESS", Id("i"), Id("q")),
              Bin("EADDASSIGN", Id("i"), Int1),
          Do(<<New("string", "u", Id("p")),
               If(True, ReturnVal(Apply("f", <<Id("u"), Id("i")>>)))>>))>>))>>)>>

\* Every expression, on strings where they are allowed.
Expressions ==
  <<Module(<<
      Func("bool", "h", <<>>, ReturnVal(Bin("EXOR", True, Un("ENOT", False)))),
      Func("void", "start", <<>>, Do(<<
        New("string", "s", Cond(Bin("ELESS", Str, Str), Str, Cast(Real1, "string"))),
        New("int", "n", Cast(Bin("EADD", Id("s"), Str), "int")),
        New("real", "r", Bin("EMUL", Cast(Id("n"), "real"), Un("ENEG", Real1))),
        New("bool", "b", Bin("EOR", Apply("h", <<>>), Bin("ENEQUAL", Id("r"), Real1))),
        At(Id("s"), Id("n")),
        Slice(Id("s"), Int1, Bin("EMOD", Id("n"), Int1)),
        Set("b", Id("b")), Set("s", Id("s")), Set("n", Bin("ESUB", Id("n"), Int1)),
        Bin("EADDASSIGN", Id("s"), Cast(Id("b"), "string")),
        Bin("EDIVASSIGN", Id("n"), Int1),
        Set("r", Bin("EADD", Id("r"), Real1)),
        Bin("EMODASSIGN", Id("r"), Bin("EADD", Real1, Real1))>>))>>)>>

\* System calls, right and wrong, and shell with and without its locals.
SystemCalls ==
  <<Module(<<
      Func("string", "shell", <<Arg("string", "cmd")>>, Do(<<
        New("string", "__out", Str),
        New("int", "__rc", Int1),
        If(System("bool", "shell", <<Id("cmd")>>), ReturnVal(Id("__out"))),
        ReturnVal(Str)>>)),
      Func("void", "start", <<>>, Do(<<
        System("void", "cprint", <<Apply("shell", <<Str>>)>>),
        System("bool", "shell", <<Str>>),
        New("string", "s", System("string", "creadln", <<>>)),
        New("string", "t", System("string", "nosuch", <<Str, Str>>)),
        New("string", "u", System("string", "cprint", <<Id("s")>>)),
        New("int", "n", Int1),
        System("void", "print", <<Set("n", Int1), Str>>),
        New("string", "v", System("string", "creadln", <<Id("s")>>)),
        New("string", "w", System("string", "readln", <<Id("s")>>)),
        System("void", "print", <<Int1, Id("t")>>)>>))>>)>>

\* Loops whose bodies are single statements, nested, with early exits.
Loops ==
  <<Module(<<
      Global("string", "g"),
      Func("void", "start", <<>>,
        WhileDo(True,
          ForDo(Set("g", Str), True, Bin("EADDASSIGN", Id("g"), Id("g")),
            IfElse(True,
              Do(<<New("string", "x", Id("g")),
                   WhileDo(False, IfElse(True, BreakStmt, ContinueStmt)),
                   If(True, Do(<<ContinueStmt>>)),
                   If(True, Do(<<>>)),
                   BreakStmt>>),
              If(True, ReturnVoid)))))>>)>>

\* A variable where a function is called: ls_semaecall takes a local variable whose
\* value has as many operands as the call has arguments for a function.
CallOfVariable ==
  <<Module(<<
      Func("void", "start", <<>>, Do(<<
        New("string", "s", Str),
        New("int", "x", Int1),
        If(True, Do(<<New("string", "t", Id("s")), Apply("x", <<>>)>>))>>))>>)>>

\* No entry function: none of that name, a variable, one that gives a value, one with
\* a parameter.
NoEntry ==
  {<<Module(<<Global("string", "g"), d>>)>> :
     d \in {Func("void", "begin", <<>>, Do(<<>>)),
            Global("int", "start"),
            Func("int", "start", <<>>, Do(<<ReturnVal(Int1)>>)),
            Func("void", "start", <<Arg("int", "p")>>, Do(<<>>))}}

\* Each of these passes ls_sema; CallOfVariable runs into an undefined step.
MCPrograms == {Calls, Expressions, SystemCalls, Loops, CallOfVariable} \union NoEntry

-----------------------------------------------------------------------------
(* Programs for the disagreements. *)

\* for (; true; g = g) g + g;  the body leaves a string that is destroyed twice.
MCBareForBody ==
  {<<Module(<<
       Global("string", "g"),
       Func("void", "start", <<>>,
         ForDo(Set("g", Str), True, Set("g", Id("g")), Bin("EADD", Id("g"), Id("g"))))>>)>>}
=============================================================================

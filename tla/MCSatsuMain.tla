---------------------------- MODULE MCSatsuMain ----------------------------
(***************************************************************************)
(* A small file system: two directories, a name in both, a file with two   *)
(* names, a file that imports itself, a name without a file, and as many   *)
(* modules as make the table grow three times.                             *)
(***************************************************************************)
EXTENDS SatsuMain, TLC

\* In words of four bytes: char *, uint64_t, char *, uint32_t, ls_lex_t, ls_ast_t.
MCSizes == <<2, 2, 2, 1, 8, 8>>
MCAlign == 4

MCFiles == {"main", "console", "shell", "other shell", "text", "tree"}
MCInode ==
  [main |-> 1, console |-> 2, shell |-> 3, text |-> 5, tree |-> 6] @@ ("other shell" :> 4)
MCDirs == {"std", "own"}
MCIn ==
  [std |-> [console |-> "console", shell |-> "shell", text |-> "text", term |-> "console"],
   own |-> [shell |-> "other shell", self |-> "main", tree |-> "tree"]]
MCNames == {"console", "shell", "text", "term", "self", "tree", "none"}
MCImports ==
  UNION {[1..n -> MCNames] : n \in 0..2}
    \union {<<"tree", "text", "tree">>, <<"console", "self", "none">>,
             <<"tree", "text", "shell", "console", "term">>}
MCPathLists == {<<>>, <<"std">>, <<"std", "own">>, <<"own", "std">>, <<"std", "std", "std">>}
=============================================================================

---------------------------- MODULE SatsuTokens ----------------------------
(***************************************************************************)
(* The types of tokens (ls_toktype_t), shared by the lexer and the parser. *)
(* NULL is LS_NULL: the token ls_lex puts in front of the others, and what *)
(* the parser reads at the end.                                            *)
(***************************************************************************)

Literals == {"LITINT", "LITREAL", "LITSTR"}
TypeKeywords == {"KWBOOL", "KWINT", "KWREAL", "KWSTRING", "KWVOID"}
Keywords ==
  TypeKeywords \union
  {"KWBREAK", "KWCONTINUE", "KWELSE", "KWFALSE", "KWFOR", "KWFUNC", "KWIF", "KWIMPORT",
   "KWNEW", "KWRETURN", "KWSYSTEM", "KWTRUE", "KWWHILE"}
Punctuation ==
  {"LBRACE", "RBRACE", "COMMA", "SEMICOLON", "LPAREN", "RPAREN", "LBRACKET", "RBRACKET",
   "QUESTION", "COLON"}
Operators ==
  {"MINUS", "BANG", "EQUALGREATER", "STAR", "SLASH", "PERCENT", "PLUS", "LESS", "LESSEQUAL",
   "GREATER", "GREATEREQUAL", "EQUAL2", "BANGEQUAL", "AMPERSAND2", "PIPE2", "CARET2", "EQUAL",
   "PLUSEQUAL", "MINUSEQUAL", "STAREQUAL", "SLASHEQUAL", "PERCENTEQUAL"}
TokTypes == {"IDENT"} \union Literals \union Keywords \union Punctuation \union Operators
=============================================================================

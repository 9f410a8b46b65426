------------------------------ MODULE SatsuLex ------------------------------
(***************************************************************************)
(* The lexer (ls_lex.c): one step for each turn of its loops.  The text is *)
(* as long as ls_readfile says and has no terminator: the tests for two    *)
(* characters read, at the last one, whatever lies behind it.              *)
(***************************************************************************)
EXTENDS SatsuTokens, Naturals, Sequences, FiniteSets

CONSTANTS
  Texts,     \* what a file holds, as sequences of characters
  Letters,   \* the characters of words, the underscore among them
  Digits,
  Behind,    \* what may lie behind the text
  Keyword,   \* from the words that are keywords to their types
  MaxIdent,  \* LS_MAXIDENT
  MaxString  \* LS_MAXSTRING

\* Characters with a name.
Newline == "\n"
Quote == "\""
Backslash == "\\"
Comma == ","
Semicolon == ";"
LBrace == "{"
RBrace == "}"
Spaces == {" ", Newline}
\* The tests of the main loop, of two characters and of one.  Those of two come first.
Pair ==
  {<<"-", "=", "MINUSEQUAL">>, <<"!", "=", "BANGEQUAL">>, <<"*", "=", "STAREQUAL">>,
   <<"=", ">", "EQUALGREATER">>, <<"/", "=", "SLASHEQUAL">>, <<"%", "=", "PERCENTEQUAL">>,
   <<"+", "=", "PLUSEQUAL">>, <<"<", "=", "LESSEQUAL">>, <<">", "=", "GREATEREQUAL">>,
   <<"=", "=", "EQUAL2">>, <<"&", "&", "AMPERSAND2">>, <<"|", "|", "PIPE2">>,
   <<"^", "^", "CARET2">>}
Single ==
  {<<"(", "LPAREN">>, <<")", "RPAREN">>, <<"[", "LBRACKET">>, <<"]", "RBRACKET">>,
   <<"-", "MINUS">>, <<"!", "BANG">>, <<"*", "STAR">>, <<"/", "SLASH">>, <<"%", "PERCENT">>,
   <<"+", "PLUS">>, <<"<", "LESS">>, <<">", "GREATER">>, <<"=", "EQUAL">>, <<"?", "QUESTION">>,
   <<":", "COLON">>, <<Semicolon, "SEMICOLON">>, <<LBrace, "LBRACE">>, <<RBrace, "RBRACE">>, <<Comma, "COMMA">>}

ASSUME LexAssumption ==
  /\ \A t \in Texts : t \in Seq(STRING)
  /\ DOMAIN Keyword \subseteq Seq(Letters) /\ \A w \in DOMAIN Keyword : Keyword[w] \in Keywords
  /\ MaxIdent \in Nat /\ MaxString \in Nat
  /\ Letters \intersect Digits = {}
  /\ (Letters \union Digits) \intersect
       (Spaces \union {Quote, "."} \union {p[1] : p \in Pair} \union {s[1] : s \in Single}) = {}

VARIABLES
  text,   \* data
  at,     \* i of ls_lex; the text begins at 1
  in,     \* the function that is active: "main" (ls_lex), "word", "string", "number", "comment"
  end,    \* its end
  ndp,    \* its decimal points
  toks,   \* l->toks and l->types
  out,    \* what ls_lex gives: "pending", "ok" or an error
  errpos  \* where the error is

vars == <<text, at, in, end, ndp, toks, out, errpos>>

Init ==
  /\ text \in Texts
  /\ at = 1 /\ in = "main" /\ end = 1 /\ ndp = 0
  /\ toks = <<[type |-> "NULL", pos |-> 1, len |-> 0]>>
  /\ out = "pending" /\ errpos = 0

Scanning(fn) == out = "pending" /\ in = fn
Here(S) == at <= Len(text) /\ text[at] \in S
Within(S) == end <= Len(text) /\ text[end] \in S

AddTok(type, n) == toks' = Append(toks, [type |-> type, pos |-> at, len |-> n])
Resume(i) == at' = i /\ in' = "main" /\ UNCHANGED <<text, end, ndp, out, errpos>>
Further(n) == end' = end + n /\ UNCHANGED <<text, at, in, toks, out, errpos>>
Enter(fn, i) ==
  in' = fn /\ end' = i /\ ndp' = 0 /\ UNCHANGED <<text, at, toks, out, errpos>>
Reject(why, i) ==
  out' = why /\ errpos' = i /\ UNCHANGED <<text, at, in, end, ndp, toks>>

-----------------------------------------------------------------------------
(* ls_lex.  The pair at the last character ends with a c from behind the text. *)

PairAt(c) == <<text[at], IF at < Len(text) THEN text[at + 1] ELSE c>>
IsPair(p, c) == PairAt(c) = <<p[1], p[2]>>

Blank == Scanning("main") /\ Here(Spaces) /\ Resume(at + 1) /\ UNCHANGED toks
StartWord == Scanning("main") /\ Here(Letters) /\ Enter("word", at)
StartStr == Scanning("main") /\ Here({Quote}) /\ Enter("string", at + 1)
StartNum == Scanning("main") /\ Here(Digits) /\ Enter("number", at)

\* Mutant: the characters that make a pair are taken one by one.
OperatorSingly(c) ==
  IF \E s \in Single : text[at] = s[1]
  THEN \E s \in Single : text[at] = s[1] /\ AddTok(s[2], 1) /\ Resume(at + 1)
  ELSE \E p \in Pair : IsPair(p, c) /\ AddTok(p[3], 2) /\ Resume(at + 2)

Operator(c) ==
  IF \E p \in Pair : IsPair(p, c)
  THEN \E p \in Pair : IsPair(p, c) /\ AddTok(p[3], 2) /\ Resume(at + 2)
  ELSE \E s \in Single : text[at] = s[1] /\ AddTok(s[2], 1) /\ Resume(at + 1)

\* Comments, operators and the rest.
Other ==
  /\ Scanning("main") /\ at <= Len(text)
  /\ ~Here(Spaces \union Letters \union {Quote} \union Digits)
  /\ \E c \in Behind :
       \/ PairAt(c) = <<"/", "/">> /\ Enter("comment", at)
       \/ PairAt(c) # <<"/", "/">> /\ Operator(c)
       \/ /\ ~\E p \in Pair : IsPair(p, c)
          /\ ~\E s \in Single : text[at] = s[1]
          /\ Reject("unrecognized", at)

Finish ==
  Scanning("main") /\ at > Len(text) /\ out' = "ok"
  /\ UNCHANGED <<text, at, in, end, ndp, toks, errpos>>

-----------------------------------------------------------------------------
(* ls_lexword, ls_lexstr, ls_lexnum, ls_lexcomment *)

Word == SubSeq(text, at, end - 1)

WordOn == Scanning("word") /\ Within(Letters \union Digits) /\ Further(1) /\ UNCHANGED ndp
WordEnd ==
  /\ Scanning("word") /\ ~Within(Letters \union Digits)
  /\ IF Word \in DOMAIN Keyword THEN AddTok(Keyword[Word], end - at) /\ Resume(end)
     ELSE IF end - at > MaxIdent THEN Reject("too-long", at)
     ELSE AddTok("IDENT", end - at) /\ Resume(end)

StrOn ==
  /\ Scanning("string") /\ end <= Len(text) /\ text[end] # Quote
  /\ IF text[end] # Backslash THEN Further(1) /\ UNCHANGED ndp
     ELSE IF end + 1 > Len(text) THEN Reject("no-escape", end + 1)
     ELSE Further(2) /\ UNCHANGED ndp

\* Mutant: the closing quote is read again.
StrEndShort ==
  /\ Scanning("string")
  /\ \/ end > Len(text) /\ Reject("unterminated", at)
     \/ Within({Quote}) /\ AddTok("LITSTR", end - at + 1) /\ Resume(end)

StrEnd ==
  /\ Scanning("string")
  /\ \/ end > Len(text) /\ Reject("unterminated", at)
     \/ Within({Quote}) /\ AddTok("LITSTR", end - at + 1) /\ Resume(end + 1)

NumOn ==
  /\ Scanning("number") /\ Within(Digits \union {"."})
  /\ ndp' = ndp + (IF text[end] = "." THEN 1 ELSE 0) /\ Further(1)

\* Mutant: a number has no point.
NumEndStrict ==
  /\ Scanning("number") /\ ~Within(Digits \union {"."})
  /\ IF ndp > 0 THEN Reject("two-points", at)
     ELSE AddTok("LITINT", end - at) /\ Resume(end)

NumEnd ==
  /\ Scanning("number") /\ ~Within(Digits \union {"."})
  /\ IF ndp > 1 THEN Reject("two-points", at)
     ELSE AddTok(IF ndp = 0 THEN "LITINT" ELSE "LITREAL", end - at) /\ Resume(end)

CommentOn ==
  /\ Scanning("comment") /\ end <= Len(text) /\ text[end] # Newline /\ Further(1) /\ UNCHANGED ndp

\* Mutants: a comment ends a character too late, or is left where it began.
CommentEndLate ==
  /\ Scanning("comment") /\ ~(end <= Len(text) /\ text[end] # Newline)
  /\ Resume(end + 2) /\ UNCHANGED toks
CommentEndAgain ==
  /\ Scanning("comment") /\ ~(end <= Len(text) /\ text[end] # Newline)
  /\ Resume(at) /\ UNCHANGED toks

CommentEnd ==
  /\ Scanning("comment") /\ ~(end <= Len(text) /\ text[end] # Newline)
  /\ Resume(end + 1) /\ UNCHANGED toks

Stopped == out # "pending" /\ UNCHANGED vars

Step ==
  \/ Blank \/ StartWord \/ StartStr \/ StartNum \/ Other \/ Finish
  \/ WordOn \/ WordEnd \/ StrOn \/ StrEnd \/ NumOn \/ NumEnd \/ CommentOn \/ CommentEnd

Next == Step \/ Stopped

Spec == Init /\ [][Next]_vars

\* The lexer is one sequential call: as long as it can go on, it does.
FairSpec == Spec /\ WF_vars(Step)

-----------------------------------------------------------------------------
(* ls_readtokstr: what a string literal stands for. *)

\* Mutant: the character behind a backslash is read again.
AfterEscapeNext(i) == i + 1
AfterEscape(i) == i + 2

Escape(c) == IF c = "n" THEN Newline ELSE IF c = "t" THEN "\t" ELSE c

\* The characters it reads from the i-th of the literal on, when it has got n.
ReadTokStr(tok) ==
  LET read[i \in 1..(tok.len + 2), n \in 0..tok.len] ==
        IF n >= MaxString \/ i + 1 >= tok.len THEN <<>>
        ELSE IF text[tok.pos + i] = Backslash
          THEN <<Escape(text[tok.pos + i + 1])>> \o read[AfterEscape(i), n + 1]
        ELSE <<text[tok.pos + i]>> \o read[i + 1, n + 1]
  IN read[1, 0]

-----------------------------------------------------------------------------
(* The lexemes of the language: which texts are a token, whatever the lexer does. *)

All(s, from, to, S) == \A k \in from..to : s[k] \in S
\* An odd number of backslashes stands before k.
Escaped(s, k) ==
  \E j \in 2..(k - 1) :
    All(s, j, k - 1, {Backslash}) /\ (j = 2 \/ s[j - 1] # Backslash) /\ (k - j) % 2 = 1
IsWord(s) == s[1] \in Letters /\ All(s, 2, Len(s), Letters \union Digits)
Points(s) == {k \in DOMAIN s : s[k] = "."}
IsNumber(s) == s[1] \in Digits /\ All(s, 2, Len(s), Digits \union {"."})
IsString(s) ==
  /\ Len(s) > 1 /\ s[1] = Quote /\ s[Len(s)] = Quote /\ ~Escaped(s, Len(s))
  /\ \A k \in 2..(Len(s) - 1) : s[k] = Quote => Escaped(s, k)

\* The types the text s is a token of; s is not empty.
LexemeOf(s) ==
  IF IsWord(s)
    THEN IF s \in DOMAIN Keyword THEN {Keyword[s]}
         ELSE IF Len(s) <= MaxIdent THEN {"IDENT"} ELSE {}
  ELSE IF IsNumber(s) THEN {t \in {"LITINT"} : Points(s) = {}}
                            \union {t \in {"LITREAL"} : \E k \in DOMAIN s : Points(s) = {k}}
  ELSE IF IsString(s) THEN {"LITSTR"}
  ELSE {p[3] : p \in {q \in Pair : s = <<q[1], q[2]>>}}
         \union {o[2] : o \in {q \in Single : s = <<q[1]>>}}

Stop(tok) == tok.pos + tok.len
Part(i, j) == SubSeq(text, i, j)
IsComment(i, j) ==
  /\ text[i] = "/" /\ IF i < Len(text) THEN text[i + 1] = "/" ELSE "/" \in Behind
  /\ \A k \in i..j : text[k] # Newline

-----------------------------------------------------------------------------
(* Properties. *)

TokRecord == [type : TokTypes \union {"NULL"}, pos : Nat \ {0}, len : Nat]
Errors ==
  {"unrecognized", "too-long", "no-escape",
   "unterminated", "two-points"}

TypeOK ==
  /\ text \in Seq(STRING)
  /\ at \in Nat \ {0} /\ end \in Nat \ {0} /\ ndp \in Nat /\ errpos \in Nat
  /\ in \in {"main", "word", "string", "number", "comment"}
  /\ toks \in Seq(TokRecord)
  /\ out \in {"pending", "ok"} \union Errors

\* Tokens stand in the order of the text and never overlap, and none reaches out of the
\* text, except that the last one may by one character: ls_lex completes a pair with
\* what lies behind.
TokensOrdered ==
  /\ Len(toks) > 0 /\ toks[1] = [type |-> "NULL", pos |-> 1, len |-> 0]
  /\ \A k \in 2..Len(toks) : toks[k].len > 0
  /\ \A k \in 2..Len(toks) : Stop(toks[k - 1]) <= toks[k].pos
  /\ \A k \in 1..(Len(toks) - 1) : Stop(toks[k]) <= Len(text)
  /\ Stop(toks[Len(toks)]) <= Len(text) + 2
  /\ Stop(toks[Len(toks)]) = Len(text) + 2 => \E p \in Pair : toks[Len(toks)].type = p[3]

\* Every token is the longest lexeme that begins where it does, and has its type: no
\* order of the tests, and no function that stops early, cuts a token in two.
TokensAreLongest ==
  \A k \in 2..Len(toks) :
    Stop(toks[k]) <= Len(text) + 1 =>
      /\ LexemeOf(Part(toks[k].pos, Stop(toks[k]) - 1)) = {toks[k].type}
      /\ \A e \in Stop(toks[k])..Len(text) : LexemeOf(Part(toks[k].pos, e)) = {}

\* What lies between the tokens of an accepted text is white space or a comment: no
\* character of the program is passed over.
NothingSkipped ==
  out = "ok" =>
    \A p \in DOMAIN text :
      \/ text[p] \in Spaces
      \/ \E k \in DOMAIN toks : toks[k].pos <= p /\ p < Stop(toks[k])
      \/ \E c \in 1..p :
           IsComment(c, p) /\ \A k \in DOMAIN toks : Stop(toks[k]) <= c \/ p < toks[k].pos

\* An error is no refusal of a good text: no lexeme begins where the lexer gave up, but
\* for one that the next character would make too long or a number of two points.
RejectedForNothing ==
  out \notin {"pending", "ok"} =>
    /\ errpos <= Len(text) + 1
    /\ \A e \in at..Len(text) :
         LexemeOf(Part(at, e)) # {} =>
           e < Len(text) /\ text[e + 1] \in Letters \union Digits \union {"."}

\* ls_readtokstr finds in a literal what the lexer took it for: every character between
\* the quotes that is not the backslash of an escape, up to LS_MAXSTRING, and nothing
\* behind the closing quote.
StringsReadWhole ==
  \A k \in DOMAIN toks :
    toks[k].type = "LITSTR" =>
      LET s == Part(toks[k].pos, Stop(toks[k]) - 1)
          meant == {j \in 2..(Len(s) - 1) : Escaped(s, j) \/ s[j] # Backslash}
          Nth(n) == CHOOSE j \in meant : Cardinality({m \in meant : m < j}) = n - 1
          read == ReadTokStr(toks[k])
      IN /\ Len(read) = (IF Cardinality(meant) < MaxString THEN Cardinality(meant) ELSE MaxString)
         /\ \A n \in DOMAIN read :
              read[n] = IF Escaped(s, Nth(n)) THEN Escape(s[Nth(n)]) ELSE s[Nth(n)]

\* The lexer ends, whatever the text.
Ends == <>(out # "pending")
=============================================================================

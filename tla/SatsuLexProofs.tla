--------------------------- MODULE SatsuLexProofs ---------------------------
(***************************************************************************)
(* Proofs about SatsuLex, for every text, every alphabet and whatever lies *)
(* behind the text: the types are kept, the tokens stand in order, each is *)
(* the longest lexeme where it begins, what lies between them is white     *)
(* space or a comment, and an error refuses no lexeme.                     *)
(***************************************************************************)
EXTENDS SatsuLex, WellFoundedInduction, TLAPS

\* What the function that is active knows of the text between at and end.
Underway ==
  /\ in # "main" => at <= Len(text) /\ end <= Len(text) + 1
  /\ in = "word" => at <= end /\ text[at] \in Letters
  /\ in = "number" => at <= end /\ text[at] \in Digits
  /\ in = "string" => at < end
  /\ in = "comment" => at <= end

\* The next token begins behind the last one.
Behindhand == Stop(toks[Len(toks)]) <= at

LexInv == TypeOK /\ TokensOrdered /\ Underway /\ Behindhand

-----------------------------------------------------------------------------
(* What the invariant says of the variables, and of the tables. *)

LEMMA Typed ==
  ASSUME LexInv
  PROVE  /\ text \in Seq(STRING) /\ Len(text) \in Nat
         /\ at \in Nat /\ at > 0 /\ end \in Nat /\ end > 0 /\ ndp \in Nat /\ errpos \in Nat
         /\ in \in {"main", "word", "string", "number", "comment"}
         /\ out \in {"pending", "ok"} \union Errors
         /\ toks \in Seq(TokRecord) /\ Len(toks) \in Nat /\ Len(toks) > 0
         /\ \A k \in 1..Len(toks) :
              toks[k].pos \in Nat /\ toks[k].len \in Nat /\ Stop(toks[k]) \in Nat
<1>1. /\ text \in Seq(STRING) /\ Len(text) \in Nat
      /\ at \in Nat /\ at > 0 /\ end \in Nat /\ end > 0 /\ ndp \in Nat /\ errpos \in Nat
      /\ in \in {"main", "word", "string", "number", "comment"}
      /\ out \in {"pending", "ok"} \union Errors
      /\ toks \in Seq(TokRecord) /\ Len(toks) \in Nat /\ Len(toks) > 0
  BY DEF LexInv, TypeOK, TokensOrdered
<1>2. ASSUME NEW k \in 1..Len(toks)
      PROVE  toks[k].pos \in Nat /\ toks[k].len \in Nat /\ Stop(toks[k]) \in Nat
  <2>1. toks[k] \in TokRecord
    BY <1>1, <1>2
  <2> QED  BY <2>1 DEF TokRecord, Stop
<1> QED  BY <1>1, <1>2

\* What the tests of the main loop give is a token type.
LEMMA OperatorTypes ==
  /\ \A p \in Pair : p[3] \in TokTypes
  /\ \A s \in Single : s[2] \in TokTypes
<1>1. \A p \in Pair : p[3] \in Operators
  BY DEF Pair, Operators
<1>2. \A s \in Single : s[2] \in Operators \union Punctuation
  <2> SUFFICES ASSUME NEW s \in Single PROVE s[2] \in Operators \union Punctuation
    OBVIOUS
  <2> QED  BY DEF Single, Operators, Punctuation
<1> QED  BY <1>1, <1>2 DEF TokTypes

-----------------------------------------------------------------------------
(* Steps. *)

\* A step of ls_lex or of a function that adds nothing keeps the invariant when it
\* keeps what is underway.
LEMMA NoTokenKeeps ==
  ASSUME LexInv, UNCHANGED text, UNCHANGED toks, at <= at', Underway',
         at' \in Nat, end' \in Nat, end' > 0, ndp' \in Nat, errpos' \in Nat,
         in' \in {"main", "word", "string", "number", "comment"},
         out' \in {"pending", "ok"} \union Errors
  PROVE  LexInv'
<1>1. Behindhand'
  <2>1. Stop(toks[Len(toks)]) \in Nat /\ Stop(toks[Len(toks)]) <= at /\ at \in Nat
    BY Typed DEF LexInv, Behindhand
  <2> QED  BY <2>1 DEF Behindhand
<1>2. TypeOK'
  BY Typed DEF TypeOK
<1>3. TokensOrdered'
  BY DEF LexInv, TokensOrdered, Stop
<1> QED  BY <1>1, <1>2, <1>3 DEF LexInv

\* A token that begins where the last one may not reach and is not empty keeps the order.
LEMMA TokenKeeps ==
  ASSUME LexInv, at <= Len(text), NEW type \in TokTypes, NEW n \in Nat, n > 0, AddTok(type, n),
         at + n <= Len(text) + 2,
         at + n = Len(text) + 2 => \E p \in Pair : type = p[3],
         Resume(at + n)
  PROVE  LexInv'
<1> DEFINE tok == [type |-> type, pos |-> at, len |-> n]
<1>1. tok \in TokRecord /\ tok.pos = at /\ tok.len = n /\ tok.type = type
  BY Typed DEF TokRecord
<1>2. /\ toks' = Append(toks, tok) /\ Len(toks') = Len(toks) + 1 /\ toks' \in Seq(TokRecord)
      /\ \A k \in 1..Len(toks) : toks'[k] = toks[k]
      /\ toks'[Len(toks) + 1] = tok
  BY <1>1, Typed DEF AddTok
<1> HIDE DEF tok
<1>3. text' = text /\ at' = at + n /\ in' = "main" /\ UNCHANGED <<end, ndp, out, errpos>>
  BY DEF Resume
<1>4. TypeOK'
  BY <1>2, <1>3, Typed DEF TypeOK
<1>5. Stop(tok) = at + n
  BY <1>1 DEF Stop
<1>6. Behindhand'
  <2>1. Stop(toks'[Len(toks')]) = at + n
    BY <1>2, <1>5
  <2>2. Stop(toks[Len(toks)])' = Stop(toks'[Len(toks')])
    BY DEF Stop
  <2> QED  BY <1>3, <2>1, <2>2, Typed DEF Behindhand
<1>7. Underway'
  BY <1>3 DEF Underway
<1>8. Stop(toks[Len(toks)]) <= at
  BY DEF LexInv, Behindhand
<1>9. TokensOrdered'
  <2> DEFINE new == toks'
  <2>1. \A k \in 2..Len(new) : new[k].len > 0
    BY <1>1, <1>2, Typed DEF LexInv, TokensOrdered
  <2>2. \A k \in 2..Len(new) : Stop(new[k - 1]) <= new[k].pos
    <3> SUFFICES ASSUME NEW k \in 2..Len(new) PROVE Stop(new[k - 1]) <= new[k].pos
      OBVIOUS
    <3>1. CASE k <= Len(toks)
      <4>1. k \in 2..Len(toks) /\ new[k] = toks[k] /\ new[k - 1] = toks[k - 1]
        BY <1>2, <3>1, Typed
      <4> QED  BY <4>1 DEF LexInv, TokensOrdered
    <3>2. CASE k = Len(toks) + 1
      <4>1. new[k] = tok /\ new[k - 1] = toks[Len(toks)]
        BY <1>2, <3>2, Typed
      <4> QED  BY <1>1, <1>8, <4>1
    <3> QED  BY <1>2, <3>1, <3>2, Typed
  <2>3. \A k \in 1..Len(toks) : Stop(new[k]) <= Len(text)
    <3> SUFFICES ASSUME NEW k \in 1..Len(toks) PROVE Stop(new[k]) <= Len(text)
      OBVIOUS
    <3>1. new[k] = toks[k]
      BY <1>2
    <3>2. CASE k \in 1..(Len(toks) - 1)
      BY <3>1, <3>2 DEF LexInv, TokensOrdered
    <3>3. CASE k = Len(toks)
      BY <1>8, <3>1, <3>3, Typed
    <3> QED  BY <3>2, <3>3, Typed
  <2>4. new[1] = [type |-> "NULL", pos |-> 1, len |-> 0]
    BY <1>2, Typed DEF LexInv, TokensOrdered
  <2>5. /\ Stop(new[Len(new)]) <= Len(text) + 2
        /\ Stop(new[Len(new)]) = Len(text) + 2 => \E p \in Pair : new[Len(new)].type = p[3]
    BY <1>1, <1>2, <1>5
  <2>6. Len(new) - 1 = Len(toks) /\ Len(new) > 0
    BY <1>2, Typed
  <2>7. \A k : Stop(toks[k])' = Stop(toks'[k])
    BY DEF Stop
  <2>8. \A k : Stop(toks[k - 1])' = Stop(toks'[k - 1])
    BY DEF Stop
  <2>9. Stop(toks[Len(toks)])' = Stop(toks'[Len(toks')])
    BY DEF Stop
  <2> QED  BY <1>3, <2>1, <2>2, <2>3, <2>4, <2>5, <2>6, <2>7, <2>8, <2>9 DEF TokensOrdered
<1> QED  BY <1>4, <1>6, <1>7, <1>9 DEF LexInv

\* An error keeps the invariant.
LEMMA RejectKeeps ==
  ASSUME LexInv, NEW why \in Errors, NEW p \in Nat, Reject(why, p)
  PROVE  LexInv'
BY DEF LexInv, Reject, TypeOK, TokensOrdered, Stop, Underway, Behindhand

\* The active function goes on, or is entered.
LEMMA FurtherKeeps ==
  ASSUME LexInv, NEW n \in Nat, Further(n), ndp' \in Nat, end + n <= Len(text) + 1
  PROVE  LexInv'
<1>1. text \in Seq(STRING) /\ at \in Nat /\ end \in Nat
  BY DEF LexInv, TypeOK
<1>2. Underway'
  BY <1>1 DEF LexInv, Further, Underway
<1> QED  BY <1>1, <1>2, NoTokenKeeps DEF LexInv, TypeOK, Further, Behindhand

-----------------------------------------------------------------------------
(* The invariant. *)

LEMMA InitHolds == Init => LexInv
<1> SUFFICES ASSUME Init PROVE LexInv
  OBVIOUS
<1> DEFINE first == [type |-> "NULL", pos |-> 1, len |-> 0]
<1>1. text \in Seq(STRING) /\ Len(text) \in Nat
  BY LexAssumption DEF Init
<1>2. first \in TokRecord /\ Stop(first) = 1
  BY DEF TokRecord, Stop
<1>3. toks = <<first>> /\ Len(toks) = 1 /\ toks[1] = first /\ toks \in Seq(TokRecord)
  BY <1>2 DEF Init
<1>4. TypeOK
  BY <1>1, <1>3 DEF Init, TypeOK
<1>5. TokensOrdered
  BY <1>1, <1>2, <1>3 DEF TokensOrdered
<1> QED  BY <1>2, <1>3, <1>4, <1>5 DEF Init, LexInv, Underway, Behindhand

LEMMA MainKeeps ==
  ASSUME LexInv, Blank \/ StartWord \/ StartStr \/ StartNum \/ Finish
  PROVE  LexInv'
<1>1. CASE Blank
  <2>1. at' = at + 1 /\ in' = "main" /\ UNCHANGED <<text, toks, end, ndp, out, errpos>>
    BY <1>1 DEF Blank, Resume
  <2> QED  BY <2>1, Typed, NoTokenKeeps DEF Underway
<1>2. CASE StartWord
  <2>1. /\ in' = "word" /\ end' = at /\ ndp' = 0 /\ UNCHANGED <<text, at, toks, out, errpos>>
        /\ at <= Len(text) /\ text[at] \in Letters
    BY <1>2 DEF StartWord, Enter, Here
  <2> QED  BY <2>1, Typed, NoTokenKeeps DEF Underway
<1>3. CASE StartStr
  <2>1. /\ in' = "string" /\ end' = at + 1 /\ ndp' = 0 /\ UNCHANGED <<text, at, toks, out, errpos>>
        /\ at <= Len(text)
    BY <1>3 DEF StartStr, Enter, Here
  <2> QED  BY <2>1, Typed, NoTokenKeeps DEF Underway
<1>4. CASE StartNum
  <2>1. /\ in' = "number" /\ end' = at /\ ndp' = 0 /\ UNCHANGED <<text, at, toks, out, errpos>>
        /\ at <= Len(text) /\ text[at] \in Digits
    BY <1>4 DEF StartNum, Enter, Here
  <2> QED  BY <2>1, Typed, NoTokenKeeps DEF Underway
<1>5. CASE Finish
  <2>1. in = "main" /\ out' = "ok" /\ UNCHANGED <<text, at, in, end, ndp, toks, errpos>>
    BY <1>5 DEF Finish, Scanning
  <2> QED  BY <2>1, Typed, NoTokenKeeps DEF Underway
<1> QED  BY <1>1, <1>2, <1>3, <1>4, <1>5

LEMMA OtherKeeps ==
  ASSUME LexInv, Other
  PROVE  LexInv'
<1>1. at <= Len(text)
  BY DEF Other
<1>2. PICK c \in Behind :
        \/ Enter("comment", at)
        \/ Operator(c)
        \/ Reject("unrecognized", at)
  BY DEF Other
<1>3. CASE Enter("comment", at)
  <2>1. in' = "comment" /\ end' = at /\ ndp' = 0 /\ UNCHANGED <<text, at, toks, out, errpos>>
    BY <1>3 DEF Enter
  <2> QED  BY <1>1, <2>1, Typed, NoTokenKeeps DEF Underway
<1>4. CASE Operator(c)
  <2>1. CASE \E p \in Pair : IsPair(p, c)
    <3>1. PICK p \in Pair : AddTok(p[3], 2) /\ Resume(at + 2)
      BY <1>4, <2>1 DEF Operator
    <3> DEFINE type == p[3]
    <3>2. type \in TokTypes /\ \E q \in Pair : type = q[3]
      BY OperatorTypes
    <3>3. AddTok(type, 2) /\ Resume(at + 2) /\ at + 2 <= Len(text) + 2
      BY <1>1, <3>1, Typed
    <3> HIDE DEF type
    <3> QED  BY <1>1, <3>2, <3>3, TokenKeeps
  <2>2. CASE ~\E p \in Pair : IsPair(p, c)
    <3>1. PICK s \in Single : AddTok(s[2], 1) /\ Resume(at + 1)
      BY <1>4, <2>2 DEF Operator
    <3> DEFINE type == s[2]
    <3>2. type \in TokTypes
      BY OperatorTypes
    <3>3. AddTok(type, 1) /\ Resume(at + 1) /\ at + 1 <= Len(text) + 2 /\ at + 1 # Len(text) + 2
      BY <1>1, <3>1, Typed
    <3> HIDE DEF type
    <3> QED  BY <1>1, <3>2, <3>3, TokenKeeps
  <2> QED  BY <2>1, <2>2
<1>5. CASE Reject("unrecognized", at)
  BY <1>5, Typed, RejectKeeps DEF Errors
<1> QED  BY <1>2, <1>3, <1>4, <1>5

LEMMA WordKeeps ==
  ASSUME LexInv, WordOn \/ WordEnd
  PROVE  LexInv'
<1>1. text \in Seq(STRING) /\ at \in Nat \ {0} /\ end \in Nat \ {0} /\ ndp \in Nat
  BY DEF LexInv, TypeOK
<1>2. in = "word" /\ at <= Len(text) /\ end <= Len(text) + 1 /\ at <= end /\ text[at] \in Letters
  BY DEF LexInv, WordOn, WordEnd, Scanning, Underway
<1>3. CASE WordOn
  BY <1>1, <1>3, FurtherKeeps DEF WordOn, Within
<1>4. CASE WordEnd
  <2>1. at < end
    BY <1>1, <1>2, <1>4 DEF WordEnd, Within
  <2>2. end - at \in Nat \ {0} /\ at + (end - at) = end
    BY <1>1, <2>1
  <2>3. CASE Word \in DOMAIN Keyword
    <3>1. Keyword[Word] \in TokTypes
      BY <2>3, LexAssumption DEF TokTypes
    <3>2. AddTok(Keyword[Word], end - at) /\ Resume(at + (end - at))
      BY <1>4, <2>2, <2>3 DEF WordEnd
    <3> DEFINE type == Keyword[Word]
    <3>3. type \in TokTypes /\ AddTok(type, end - at)
      BY <3>1, <3>2
    <3> HIDE DEF type
    <3> QED  BY <1>1, <1>2, <2>2, <3>2, <3>3, TokenKeeps
  <2>4. CASE AddTok("IDENT", end - at) /\ Resume(end)
    <3>1. "IDENT" \in TokTypes
      BY DEF TokTypes
    <3> QED  BY <1>1, <1>2, <2>2, <2>4, <3>1, TokenKeeps
  <2>5. CASE Reject("too-long", at)
    BY <1>1, <2>5, RejectKeeps DEF Errors
  <2> QED  BY <1>4, <2>3, <2>4, <2>5 DEF WordEnd
<1> QED  BY <1>3, <1>4

LEMMA StrKeeps ==
  ASSUME LexInv, StrOn \/ StrEnd
  PROVE  LexInv'
<1>1. text \in Seq(STRING) /\ at \in Nat \ {0} /\ end \in Nat \ {0} /\ ndp \in Nat
  BY DEF LexInv, TypeOK
<1>2. in = "string" /\ at <= Len(text) /\ end <= Len(text) + 1 /\ at < end
  BY DEF LexInv, StrOn, StrEnd, Scanning, Underway
<1>3. CASE Further(1) /\ UNCHANGED ndp /\ end <= Len(text)
  BY <1>1, <1>3, FurtherKeeps
<1>4. CASE Further(2) /\ UNCHANGED ndp /\ end + 1 <= Len(text)
  BY <1>1, <1>4, FurtherKeeps
<1>5. CASE Reject("no-escape", end + 1)
  BY <1>1, <1>5, RejectKeeps DEF Errors
<1>6. CASE Reject("unterminated", at)
  BY <1>1, <1>6, RejectKeeps DEF Errors
<1>7. CASE Within({Quote}) /\ AddTok("LITSTR", end - at + 1) /\ Resume(end + 1)
  <2>1. "LITSTR" \in TokTypes
    BY DEF TokTypes, Literals
  <2>2. end - at + 1 \in Nat \ {0} /\ at + (end - at + 1) = end + 1 /\ end <= Len(text)
    BY <1>1, <1>2, <1>7 DEF Within
  <2> QED  BY <1>1, <1>2, <1>7, <2>1, <2>2, TokenKeeps
<1> QED  BY <1>1, <1>3, <1>4, <1>5, <1>6, <1>7 DEF StrOn, StrEnd

LEMMA NumKeeps ==
  ASSUME LexInv, NumOn \/ NumEnd
  PROVE  LexInv'
<1>1. text \in Seq(STRING) /\ at \in Nat \ {0} /\ end \in Nat \ {0} /\ ndp \in Nat
  BY DEF LexInv, TypeOK
<1>2. in = "number" /\ at <= Len(text) /\ end <= Len(text) + 1 /\ at <= end /\ text[at] \in Digits
  BY DEF LexInv, NumOn, NumEnd, Scanning, Underway
<1>3. CASE NumOn
  <2>1. Further(1) /\ ndp' \in Nat /\ end <= Len(text)
    BY <1>1, <1>3 DEF NumOn, Within
  <2> QED  BY <1>1, <2>1, FurtherKeeps
<1>4. CASE NumEnd
  <2>1. at < end
    BY <1>1, <1>2, <1>4 DEF NumEnd, Within
  <2>2. end - at \in Nat \ {0} /\ at + (end - at) = end
    BY <1>1, <2>1
  <2>3. CASE Reject("two-points", at)
    BY <1>1, <2>3, RejectKeeps DEF Errors
  <2>4. CASE AddTok(IF ndp = 0 THEN "LITINT" ELSE "LITREAL", end - at) /\ Resume(end)
    <3>1. (IF ndp = 0 THEN "LITINT" ELSE "LITREAL") \in TokTypes
      BY DEF TokTypes, Literals
    <3> QED  BY <1>1, <1>2, <2>2, <2>4, <3>1, TokenKeeps
  <2> QED  BY <1>4, <2>3, <2>4 DEF NumEnd
<1> QED  BY <1>3, <1>4

LEMMA CommentKeeps ==
  ASSUME LexInv, CommentOn \/ CommentEnd
  PROVE  LexInv'
<1>1. in = "comment" /\ at <= end
  BY DEF LexInv, CommentOn, CommentEnd, Scanning, Underway
<1>2. CASE CommentOn
  BY <1>2, Typed, FurtherKeeps DEF CommentOn
<1>3. CASE CommentEnd
  <2>1. at' = end + 1 /\ in' = "main" /\ UNCHANGED <<text, toks, end, ndp, out, errpos>>
    BY <1>3 DEF CommentEnd, Resume
  <2> QED  BY <1>1, <2>1, Typed, NoTokenKeeps DEF Underway
<1> QED  BY <1>2, <1>3

LEMMA StepKeeps == LexInv /\ [Next]_vars => LexInv'
<1> SUFFICES ASSUME LexInv, [Next]_vars PROVE LexInv'
  OBVIOUS
<1>1. CASE Step
  BY <1>1, MainKeeps, OtherKeeps, WordKeeps, StrKeeps, NumKeeps, CommentKeeps DEF Step
<1>2. CASE UNCHANGED vars
  BY <1>2 DEF vars, LexInv, TypeOK, TokensOrdered, Underway, Behindhand, Stop
<1> QED  BY <1>1, <1>2 DEF Next, Stopped

\* TypeOK, for every set of texts and every alphabet: the positions of ls_lex stay
\* natural and every token has a type of ls_toktype_t.
THEOREM LexerTyped == Spec => []TypeOK
<1>1. LexInv => TypeOK
  BY DEF LexInv
<1> QED  BY <1>1, InitHolds, StepKeeps, PTL DEF Spec

\* TokensOrdered, for every set of texts, every alphabet and whatever lies behind the
\* text: the tokens of ls_lex stand in order, do not overlap, and only a pair of
\* characters that ends the text can reach out of it.
THEOREM LexerOrdered == Spec => []TokensOrdered
<1>1. LexInv => TokensOrdered
  BY DEF LexInv
<1> QED  BY <1>1, InitHolds, StepKeeps, PTL DEF Spec
-----------------------------------------------------------------------------
(* What the lexer has read: nothing between the tokens but white space and *)
(* comments, and no token cut short.                                       *)

\* The literal that begins at `at`, as far as the text goes.
Rest == Part(at, Len(text))

\* What the function that is active has found between at and end.
Reading ==
  /\ in = "word" => \A k \in at..(end - 1) : text[k] \in Letters \union Digits
  /\ in = "number" =>
       /\ \A k \in at..(end - 1) : text[k] \in Digits \union {"."}
       /\ ndp = 0 => \A k \in at..(end - 1) : text[k] # "."
       /\ ndp = 1 => \E k \in at..(end - 1) :
                       text[k] = "." /\ \A j \in at..(end - 1) : text[j] = "." => j = k
       /\ ndp > 1 => \E j, k \in at..(end - 1) : j # k /\ text[j] = "." /\ text[k] = "."
  /\ in = "string" =>
       /\ text[at] = Quote /\ ~Escaped(Rest, end - at + 1)
       /\ \A k \in 2..(end - at) : Rest[k] = Quote => Escaped(Rest, k)
  /\ in = "comment" =>
       /\ text[at] = "/" /\ IF at < Len(text) THEN text[at + 1] = "/" ELSE "/" \in Behind
       /\ \A k \in at..(end - 1) : text[k] # Newline

Accounted(p) ==
  \/ text[p] \in Spaces
  \/ \E k \in DOMAIN toks : toks[k].pos <= p /\ p < Stop(toks[k])
  \/ \E c \in 1..p :
       IsComment(c, p) /\ \A k \in DOMAIN toks : Stop(toks[k]) <= c \/ p < toks[k].pos

\* Everything before at is accounted for, and no token reaches behind it.
Passed ==
  /\ \A p \in DOMAIN text : p < at => Accounted(p)
  /\ \A k \in DOMAIN toks : Stop(toks[k]) <= at
  /\ out = "ok" => at > Len(text)

LexemeInv == LexInv /\ Reading /\ Passed /\ TokensAreLongest /\ RejectedForNothing

-----------------------------------------------------------------------------
(* The lexemes, by their first character. *)

LEMMA Alphabets ==
  /\ Quote \notin Letters \union Digits /\ "." \notin Letters \union Digits
  /\ "/" \notin Letters \union Digits
  /\ \A p \in Pair : p[1] \notin Letters \union Digits
  /\ \A s \in Single : s[1] \notin Letters \union Digits
<1>1. \A c : c \in Spaces \union {Quote, "."} \union {p[1] : p \in Pair} \union {s[1] : s \in Single}
        => c \notin Letters \union Digits
  BY LexAssumption
<1>2. \A p \in Pair : p[1] \in {q[1] : q \in Pair}
  OBVIOUS
<1>3. \A s \in Single : s[1] \in {o[1] : o \in Single}
  OBVIOUS
<1>4. "/" \in {s[1] : s \in Single}
  <2>1. <<"/", "SLASH">> \in Single
    BY DEF Single
  <2>2. <<"/", "SLASH">>[1] = "/"
    OBVIOUS
  <2> QED  BY <2>1, <2>2
<1> QED  BY <1>1, <1>2, <1>3, <1>4

\* No test of the main loop is for a quote.
LEMMA NoQuote ==
  /\ \A p \in Pair : p[1] # Quote
  /\ \A s \in Single : s[1] # Quote
<1>1. \A c \in {"-", "!", "*", "=", "/", "%", "+", "<", ">", "&", "|", "^", "(", ")", "[", "]",
               "?", ":"} : c # Quote
  BY Zenon DEF Quote
<1>2. Semicolon # Quote /\ LBrace # Quote /\ RBrace # Quote /\ Comma # Quote
  BY Zenon DEF Quote, Semicolon, LBrace, RBrace, Comma
<1>3. \A p \in Pair : p[1] # Quote
  BY <1>1 DEF Pair
<1>4. \A s \in Single : s[1] # Quote
  BY <1>1, <1>2 DEF Single
<1> QED  BY <1>3, <1>4

\* The characters of a pair, and the character of one alone, say which token it is.
LEMMA PairTells ==
  \A p, q \in Pair : p[1] = q[1] /\ p[2] = q[2] => p[3] = q[3]
BY DEF Pair

LEMMA SingleTells ==
  \A s, o \in Single : s[1] = o[1] => s[2] = o[2]
<1>1. Semicolon # LBrace /\ Semicolon # RBrace /\ Semicolon # Comma
      /\ LBrace # RBrace /\ LBrace # Comma /\ RBrace # Comma
  BY Zenon DEF Semicolon, LBrace, RBrace, Comma
<1>2. \A c \in {"(", ")", "[", "]", "-", "!", "*", "/", "%", "+", "<", ">", "=", "?", ":"} :
        c # Semicolon /\ c # LBrace /\ c # RBrace /\ c # Comma
  BY Zenon DEF Semicolon, LBrace, RBrace, Comma
<1> QED  BY <1>1, <1>2 DEF Single

\* Which kind of lexeme a text may be, by its first character.
LEMMA ByFirst ==
  ASSUME NEW s \in Seq(STRING), Len(s) > 0
  PROVE  /\ s[1] \in Letters =>
              LexemeOf(s) = IF ~IsWord(s) THEN {}
                            ELSE IF s \in DOMAIN Keyword THEN {Keyword[s]}
                            ELSE IF Len(s) <= MaxIdent THEN {"IDENT"} ELSE {}
         /\ s[1] \in Digits =>
              LexemeOf(s) = IF ~IsNumber(s) THEN {}
                            ELSE {t \in {"LITINT"} : Points(s) = {}}
                                   \union {t \in {"LITREAL"} : \E k \in DOMAIN s : Points(s) = {k}}
         /\ s[1] = Quote => LexemeOf(s) = IF IsString(s) THEN {"LITSTR"} ELSE {}
         /\ s[1] \notin Letters \union Digits \union {Quote} =>
              LexemeOf(s) = {p[3] : p \in {q \in Pair : s = <<q[1], q[2]>>}}
                              \union {o[2] : o \in {q \in Single : s = <<q[1]>>}}
<1> DEFINE pairs == {q \in Pair : s = <<q[1], q[2]>>}
           ones == {q \in Single : s = <<q[1]>>}
<1>1. ASSUME s[1] \in Letters \union Digits \union {Quote}
      PROVE  pairs = {} /\ ones = {}
  <2>1. \A q \in Pair : s[1] # q[1]
    BY <1>1, Alphabets, NoQuote
  <2>2. \A q \in Single : s[1] # q[1]
    BY <1>1, Alphabets, NoQuote
  <2> QED  BY <2>1, <2>2
<1>2. ASSUME s[1] \in Letters \union Digits \union {Quote}
      PROVE  {p[3] : p \in pairs} \union {o[2] : o \in ones} = {}
  BY <1>1, <1>2
<1>3. LexemeOf(s) =
        IF IsWord(s)
          THEN IF s \in DOMAIN Keyword THEN {Keyword[s]}
               ELSE IF Len(s) <= MaxIdent THEN {"IDENT"} ELSE {}
        ELSE IF IsNumber(s) THEN {t \in {"LITINT"} : Points(s) = {}}
                                  \union {t \in {"LITREAL"} : \E k \in DOMAIN s : Points(s) = {k}}
        ELSE IF IsString(s) THEN {"LITSTR"}
        ELSE {p[3] : p \in pairs} \union {o[2] : o \in ones}
  BY DEF LexemeOf
<1> DEFINE ops == {p[3] : p \in pairs} \union {o[2] : o \in ones}
           word == IF s \in DOMAIN Keyword THEN {Keyword[s]}
                   ELSE IF Len(s) <= MaxIdent THEN {"IDENT"} ELSE {}
           number == {t \in {"LITINT"} : Points(s) = {}}
                       \union {t \in {"LITREAL"} : \E k \in DOMAIN s : Points(s) = {k}}
<1>4. /\ IsWord(s) => s[1] \in Letters
      /\ IsNumber(s) => s[1] \in Digits
      /\ IsString(s) => s[1] = Quote
  BY DEF IsWord, IsNumber, IsString
<1>5. LexemeOf(s) = IF IsWord(s) THEN word ELSE IF IsNumber(s) THEN number
                    ELSE IF IsString(s) THEN {"LITSTR"} ELSE ops
  BY <1>3
<1>6. s[1] \in Letters \union Digits \union {Quote} => ops = {}
  BY <1>2
<1>7. Quote \notin Letters \union Digits /\ Letters \intersect Digits = {}
  BY Alphabets, LexAssumption
<1> HIDE DEF pairs, ones, ops, word, number
<1>8. /\ s[1] \in Letters => LexemeOf(s) = IF ~IsWord(s) THEN {} ELSE word
      /\ s[1] \in Digits => LexemeOf(s) = IF ~IsNumber(s) THEN {} ELSE number
      /\ s[1] = Quote => LexemeOf(s) = IF IsString(s) THEN {"LITSTR"} ELSE {}
      /\ s[1] \notin Letters \union Digits \union {Quote} => LexemeOf(s) = ops
  BY <1>4, <1>5, <1>6, <1>7
<1> QED  BY <1>8 DEF word, number, ops, pairs, ones

-----------------------------------------------------------------------------
(* Parts of the text. *)

LEMMA PartIs ==
  ASSUME text \in Seq(STRING), NEW i \in Nat, i > 0, NEW j \in Nat, i <= j + 1, j <= Len(text)
  PROVE  /\ Part(i, j) \in Seq(STRING) /\ Len(Part(i, j)) = j - i + 1
         /\ DOMAIN Part(i, j) = 1..(j - i + 1)
         /\ \A k \in 1..(j - i + 1) : Part(i, j)[k] = text[i + k - 1]
<1>1. \A k \in i..j : text[k] \in STRING
  OBVIOUS
<1> QED  BY <1>1 DEF Part

\* An escape depends on what stands before it.
LEMMA EscapedBefore ==
  ASSUME NEW s, NEW u, NEW k \in Nat, \A j \in 2..(k - 1) : s[j] = u[j]
  PROVE  Escaped(s, k) <=> Escaped(u, k)
<1>1. \A j \in 2..(k - 1) : \A h \in j..(k - 1) : s[h] = u[h]
  OBVIOUS
<1>2. \A j \in 2..(k - 1) : j = 2 \/ s[j - 1] = u[j - 1]
  OBVIOUS
<1> QED  BY <1>1, <1>2 DEF Escaped, All

\* Behind a character that is no backslash nothing is escaped.
LEMMA EscapedNot ==
  ASSUME NEW s, NEW k \in Nat, k > 2, s[k - 1] # Backslash
  PROVE  ~Escaped(s, k)
BY DEF Escaped, All

\* A backslash that is not escaped escapes what follows it, and that escapes nothing.
LEMMA EscapedNext ==
  ASSUME NEW s, NEW k \in Nat, k >= 2, s[k] = Backslash, ~Escaped(s, k)
  PROVE  Escaped(s, k + 1) /\ ~Escaped(s, k + 2)
<1>1. Escaped(s, k + 1)
  <2> DEFINE runs == {j \in Nat : 2 <= j /\ j <= k /\ All(s, j, k, {Backslash})}
  <2>1. k \in runs
    BY DEF All
  <2>2. PICK j \in runs : \A i \in runs : ~(<<i, j>> \in OpToRel(<, Nat))
    <3>1. runs \in SUBSET Nat /\ runs # {}
      BY <2>1
    <3> QED  BY <3>1, NatLessThanWellFounded, WFMin
  <2>3. \A i \in runs : j <= i
    <3> SUFFICES ASSUME NEW i \in runs, i < j PROVE FALSE
      OBVIOUS
    <3>1. <<i, j>> \in OpToRel(<, Nat)
      BY DEF OpToRel
    <3> QED  BY <2>2, <3>1
  <2>4. j = 2 \/ s[j - 1] # Backslash
    <3> SUFFICES ASSUME j # 2, s[j - 1] = Backslash PROVE FALSE
      OBVIOUS
    <3>1. j - 1 \in runs
      BY DEF All
    <3> QED  BY <2>3, <3>1
  <2>5. (k - j) % 2 = 0
    <3>1. CASE j = k
      BY <3>1
    <3>2. CASE j # k
      <4>1. j \in 2..(k - 1) /\ All(s, j, k - 1, {Backslash})
        BY <3>2 DEF All
      <4>2. (k - j) % 2 # 1
        BY <2>4, <4>1 DEF Escaped
      <4> QED  BY <4>2
    <3> QED  BY <3>1, <3>2
  <2>6. (k + 1 - j) % 2 = 1
    BY <2>5
  <2>7. j \in 2..(k + 1 - 1) /\ All(s, j, k + 1 - 1, {Backslash})
    BY DEF All
  <2> QED  BY <2>4, <2>6, <2>7 DEF Escaped
<1>2. ~Escaped(s, k + 2)
  <2> SUFFICES ASSUME NEW j \in 2..(k + 2 - 1), All(s, j, k + 2 - 1, {Backslash}),
                      j = 2 \/ s[j - 1] # Backslash, (k + 2 - j) % 2 = 1
               PROVE  FALSE
    BY DEF Escaped
  <2>1. CASE j = k + 1
    BY <2>1
  <2>2. CASE j = k
    BY <2>2
  <2>3. CASE j < k
    <3>1. j \in 2..(k - 1) /\ All(s, j, k - 1, {Backslash}) /\ (k - j) % 2 = 1
      BY <2>3 DEF All
    <3> QED  BY <3>1 DEF Escaped
  <2> QED  BY <2>1, <2>2, <2>3
<1> QED  BY <1>1, <1>2

-----------------------------------------------------------------------------
(* Steps of the lexer, by what they add. *)

\* A step that adds no token accounts for what it passes over.
LEMMA PassKeeps ==
  ASSUME LexemeInv, LexInv', UNCHANGED <<text, toks>>, at <= at', Reading',
         \A p \in DOMAIN text : at <= p /\ p < at' => Accounted(p),
         out' = "ok" => at' > Len(text), RejectedForNothing'
  PROVE  LexemeInv'
<1>1. /\ text \in Seq(STRING) /\ at \in Nat /\ at' \in Nat
  BY DEF LexemeInv, LexInv, TypeOK
<1>2. DOMAIN text = 1..Len(text)
  BY <1>1
<1>3. \A p \in DOMAIN text : p < at' => Accounted(p)
  BY <1>1, <1>2 DEF LexemeInv, Passed
<1>4. \A p : Accounted(p)' <=> Accounted(p)
  BY DEF Accounted, IsComment, Stop
<1>5. Passed'
  <2>1. ASSUME NEW k \in DOMAIN toks PROVE Stop(toks[k]) <= at'
    <3>1. Stop(toks[k]) \in Nat /\ Stop(toks[k]) <= at
      BY Typed DEF LexemeInv, Passed
    <3> QED  BY <1>1, <3>1
  <2>2. (\A k \in DOMAIN toks : Stop(toks[k]) <= at)' <=> \A k \in DOMAIN toks : Stop(toks[k]) <= at'
    BY DEF Stop
  <2> QED  BY <1>3, <1>4, <2>1, <2>2 DEF Passed
<1>6. TokensAreLongest'
  BY DEF LexemeInv, TokensAreLongest, Stop, Part
<1> QED  BY <1>5, <1>6 DEF LexemeInv

\* A token that is the longest lexeme from at on accounts for its characters.
LEMMA TokenAdds ==
  ASSUME LexemeInv, LexInv', at <= Len(text), NEW type, NEW n \in Nat, n > 0,
         AddTok(type, n), Resume(at + n), out = "pending",
         at + n <= Len(text) + 1 =>
           /\ LexemeOf(Part(at, at + n - 1)) = {type}
           /\ \A e \in (at + n)..Len(text) : LexemeOf(Part(at, e)) = {}
  PROVE  LexemeInv'
<1> DEFINE tok == [type |-> type, pos |-> at, len |-> n]
<1>1. tok.pos = at /\ tok.len = n /\ tok.type = type
  OBVIOUS
<1>2. /\ text \in Seq(STRING) /\ Len(text) \in Nat /\ at \in Nat /\ at > 0
      /\ toks \in Seq(TokRecord) /\ Len(toks) \in Nat
  BY Typed DEF LexemeInv
<1>3. /\ text' = text /\ at' = at + n /\ in' = "main" /\ out' = "pending"
      /\ toks' = Append(toks, tok)
  BY DEF Resume, AddTok
<1>4. /\ Len(toks') = Len(toks) + 1 /\ DOMAIN toks' = 1..(Len(toks) + 1)
      /\ DOMAIN toks = 1..Len(toks)
      /\ \A k \in 1..Len(toks) : toks'[k] = toks[k]
      /\ toks'[Len(toks) + 1] = tok
  <2>1. toks' \in Seq(TokRecord)
    BY DEF LexInv, TypeOK
  <2> HIDE DEF tok
  <2> QED  BY <1>2, <1>3, <2>1
<1> HIDE DEF tok
<1>5. Stop(tok) = at + n
  BY <1>1 DEF Stop
<1>6. Reading' /\ RejectedForNothing'
  BY <1>3 DEF Reading, RejectedForNothing
<1> DEFINE new == toks'
<1>7. \A p : Accounted(p)' <=>
        \/ text[p] \in Spaces
        \/ \E k \in DOMAIN new : new[k].pos <= p /\ p < Stop(new[k])
        \/ \E c \in 1..p :
             IsComment(c, p) /\ \A k \in DOMAIN new : Stop(new[k]) <= c \/ p < new[k].pos
  BY <1>3 DEF Accounted, IsComment, Stop
<1>8. \A k \in DOMAIN toks : k \in DOMAIN new /\ new[k] = toks[k]
  BY <1>4
<1>9. \A k \in DOMAIN new : (k \in DOMAIN toks /\ new[k] = toks[k]) \/ new[k] = tok
  BY <1>2, <1>4
<1>10. ASSUME NEW p \in DOMAIN text, p < at + n
       PROVE  Accounted(p)'
  <2>1. CASE p < at
    <3>1. CASE text[p] \in Spaces
      BY <1>7, <3>1
    <3>2. CASE \E k \in DOMAIN toks : toks[k].pos <= p /\ p < Stop(toks[k])
      BY <1>7, <1>8, <3>2
    <3>3. ASSUME NEW c \in 1..p, IsComment(c, p),
                 \A k \in DOMAIN toks : Stop(toks[k]) <= c \/ p < toks[k].pos
          PROVE  Accounted(p)'
      <4>1. \A k \in DOMAIN new : Stop(new[k]) <= c \/ p < new[k].pos
        BY <1>1, <1>9, <2>1, <3>3
      <4> QED  BY <1>7, <3>3, <4>1
    <3> QED  BY <2>1, <3>1, <3>2, <3>3 DEF LexemeInv, Passed, Accounted
  <2>2. CASE ~(p < at)
    <3>1. p \in Nat
      BY <1>2
    <3>2. Len(toks) + 1 \in DOMAIN new /\ new[Len(toks) + 1] = tok
      BY <1>2, <1>4
    <3>3. tok.pos <= p /\ p < Stop(tok)
      BY <1>1, <1>2, <1>5, <1>10, <2>2, <3>1
    <3> HIDE DEF new
    <3> QED  BY <1>7, <3>2, <3>3
  <2> QED  BY <2>1, <2>2
<1>11. Passed'
  <2>1. ASSUME NEW k \in DOMAIN new PROVE Stop(new[k]) <= at + n
    <3>1. CASE k \in DOMAIN toks /\ new[k] = toks[k]
      <4>1. Stop(toks[k]) \in Nat /\ Stop(toks[k]) <= at
        BY <3>1, Typed DEF LexemeInv, Passed
      <4>2. Stop(new[k]) = Stop(toks[k])
        BY <3>1
      <4> HIDE DEF new
      <4> QED  BY <1>2, <4>1, <4>2
    <3>2. CASE new[k] = tok
      <4>1. Stop(new[k]) = at + n
        BY <1>5, <3>2
      <4> HIDE DEF new
      <4> QED  BY <1>2, <4>1
    <3> QED  BY <1>9, <2>1, <3>1, <3>2
  <2>2. (\A k \in DOMAIN toks : Stop(toks[k]) <= at)' <=> \A k \in DOMAIN new : Stop(new[k]) <= at'
    BY DEF Stop
  <2> QED  BY <1>3, <1>10, <2>1, <2>2 DEF Passed
<1>12. TokensAreLongest'
  <2>1. TokensAreLongest' <=>
          \A k \in 2..Len(new) :
            Stop(new[k]) <= Len(text) + 1 =>
              /\ LexemeOf(Part(new[k].pos, Stop(new[k]) - 1)) = {new[k].type}
              /\ \A e \in Stop(new[k])..Len(text) : LexemeOf(Part(new[k].pos, e)) = {}
    BY <1>3 DEF TokensAreLongest, Stop, Part
  <2> SUFFICES ASSUME NEW k \in 2..Len(new), Stop(new[k]) <= Len(text) + 1
               PROVE  /\ LexemeOf(Part(new[k].pos, Stop(new[k]) - 1)) = {new[k].type}
                      /\ \A e \in Stop(new[k])..Len(text) : LexemeOf(Part(new[k].pos, e)) = {}
    BY <2>1
  <2>2. CASE k \in 2..Len(toks)
    <3>1. new[k] = toks[k]
      BY <1>4, <2>2
    <3> HIDE DEF new
    <3> QED  BY <2>2, <3>1 DEF LexemeInv, TokensAreLongest
  <2>3. CASE k = Len(toks) + 1
    <3>1. new[k] = tok
      BY <1>4, <2>3
    <3>2. Stop(new[k]) = at + n /\ new[k].pos = at /\ new[k].type = type
      BY <1>1, <1>5, <3>1
    <3>3. at + n <= Len(text) + 1
      BY <3>2
    <3> HIDE DEF new
    <3> QED  BY <1>2, <3>2, <3>3
  <2> QED  BY <1>2, <1>4, <2>2, <2>3
<1> QED  BY <1>6, <1>11, <1>12 DEF LexemeInv

\* An error is for what is no lexeme.
LEMMA RefuseKeeps ==
  ASSUME LexemeInv, LexInv', NEW why \in Errors, NEW i, Reject(why, i), i <= Len(text) + 1,
         \A e \in at..Len(text) :
           LexemeOf(Part(at, e)) # {} =>
             e < Len(text) /\ text[e + 1] \in Letters \union Digits \union {"."}
  PROVE  LexemeInv'
<1>1. UNCHANGED <<text, at, in, end, ndp, toks>> /\ out' = why /\ errpos' = i
  BY DEF Reject
<1>2. Reading'
  BY <1>1 DEF LexemeInv, Reading, Rest, Part
<1>3. RejectedForNothing'
  BY <1>1 DEF RejectedForNothing, Part
<1>4. out' # "ok"
  BY <1>1 DEF Errors
<1>5. at \in Nat
  BY Typed DEF LexemeInv
<1>6. at <= at' /\ \A p \in DOMAIN text : ~(at <= p /\ p < at')
  BY <1>1, <1>5, Typed DEF LexemeInv
<1> QED  BY <1>1, <1>2, <1>3, <1>4, <1>6, PassKeeps

\* The functions of ls_lex begin with nothing read.
LEMMA MainReads ==
  ASSUME LexemeInv, Blank \/ StartWord \/ StartStr \/ StartNum \/ Finish
  PROVE  LexemeInv'
<1>1. LexInv'
  BY MainKeeps DEF LexemeInv
<1>2. text \in Seq(STRING) /\ Len(text) \in Nat /\ at \in Nat /\ at > 0
  BY Typed DEF LexemeInv
<1>3. out = "pending" /\ UNCHANGED <<text, toks>>
  BY DEF Blank, StartWord, StartStr, StartNum, Finish, Scanning, Resume, Enter
<1>4. CASE Blank
  <2>1. at' = at + 1 /\ in' = "main" /\ out' = "pending" /\ at <= Len(text) /\ text[at] \in Spaces
    BY <1>3, <1>4 DEF Blank, Resume, Here
  <2>2. \A p \in DOMAIN text : at <= p /\ p < at' => Accounted(p)
    BY <1>2, <2>1 DEF Accounted
  <2>3. at <= at' /\ Reading' /\ RejectedForNothing'
    BY <1>2, <2>1 DEF Reading, RejectedForNothing
  <2> QED  BY <1>1, <1>3, <2>1, <2>2, <2>3, PassKeeps
<1>5. CASE StartWord \/ StartStr \/ StartNum
  <2>1. /\ at' = at /\ at <= Len(text) /\ out' = "pending" /\ ndp' = 0
        /\ \/ in' = "word" /\ end' = at
           \/ in' = "number" /\ end' = at
           \/ in' = "string" /\ end' = at + 1 /\ text[at] = Quote
    BY <1>3, <1>5 DEF StartWord, StartStr, StartNum, Enter, Here
  <2>2. at <= at' /\ \A p \in DOMAIN text : ~(at <= p /\ p < at')
    BY <1>2, <2>1
  <2>3. CASE in' = "word" \/ in' = "number"
    <3>1. end' = at /\ in' \notin {"string", "comment"}
      BY <2>1, <2>3
    <3>2. \A k \in at'..(end' - 1) : FALSE
      BY <1>2, <2>1, <3>1
    <3> QED  BY <1>1, <1>3, <2>1, <2>2, <3>1, <3>2, PassKeeps DEF Reading, RejectedForNothing
  <2>4. CASE in' = "string" /\ end' = at + 1 /\ text[at] = Quote
    <3>1. end' - at' + 1 = 2 /\ end' - at' = 1
      BY <1>2, <2>1, <2>4
    <3>2. \A u : ~Escaped(u, 2)
      BY DEF Escaped
    <3>3. Reading'
      BY <1>3, <2>1, <2>4, <3>1, <3>2 DEF Reading
    <3> QED  BY <1>1, <1>3, <2>1, <2>2, <3>3, PassKeeps DEF RejectedForNothing
  <2> QED  BY <2>1, <2>3, <2>4
<1>6. CASE Finish
  <2>1. at' = at /\ in' = "main" /\ out' = "ok" /\ at > Len(text)
    BY <1>6 DEF Finish, Scanning
  <2>2. at <= at' /\ \A p \in DOMAIN text : ~(at <= p /\ p < at')
    BY <1>2, <2>1
  <2> QED  BY <1>1, <1>3, <2>1, <2>2, PassKeeps DEF Reading, RejectedForNothing
<1> QED  BY <1>4, <1>5, <1>6

\* A lexeme of the operators has one character or two.
LEMMA OperatorLexeme ==
  ASSUME text \in Seq(STRING), at \in Nat, at > 0, at <= Len(text),
         text[at] \notin Letters \union Digits \union {Quote}
  PROVE  /\ LexemeOf(Part(at, at)) = {s[2] : s \in {o \in Single : text[at] = o[1]}}
         /\ at < Len(text) =>
              LexemeOf(Part(at, at + 1)) =
                {p[3] : p \in {q \in Pair : text[at] = q[1] /\ text[at + 1] = q[2]}}
         /\ \A e \in (at + 2)..Len(text) : LexemeOf(Part(at, e)) = {}
<1>1. ASSUME NEW e \in at..Len(text)
      PROVE  /\ Part(at, e) \in Seq(STRING) /\ Len(Part(at, e)) = e - at + 1
             /\ \A k \in 1..(e - at + 1) : Part(at, e)[k] = text[at + k - 1]
             /\ LexemeOf(Part(at, e)) =
                  {p[3] : p \in {q \in Pair : Part(at, e) = <<q[1], q[2]>>}}
                    \union {o[2] : o \in {q \in Single : Part(at, e) = <<q[1]>>}}
  <2>1. /\ Part(at, e) \in Seq(STRING) /\ Len(Part(at, e)) = e - at + 1
        /\ \A k \in 1..(e - at + 1) : Part(at, e)[k] = text[at + k - 1]
    <3>1. e \in Nat /\ at <= e + 1 /\ e <= Len(text)
      OBVIOUS
    <3> QED  BY <3>1, PartIs
  <2>2. Part(at, e)[1] = text[at] /\ Len(Part(at, e)) > 0
    BY <2>1
  <2> QED  BY <2>1, <2>2, ByFirst
<1>2. /\ Len(Part(at, at)) = 1 /\ Part(at, at)[1] = text[at] /\ Part(at, at) \in Seq(STRING)
  <2>1. at \in at..Len(text) /\ at - at + 1 = 1 /\ 1 \in 1..1 /\ at + 1 - 1 = at
    OBVIOUS
  <2>2. /\ Part(at, at) \in Seq(STRING) /\ Len(Part(at, at)) = at - at + 1
        /\ \A k \in 1..(at - at + 1) : Part(at, at)[k] = text[at + k - 1]
    BY <1>1, <2>1
  <2> QED  BY <2>1, <2>2
<1>3. /\ \A q \in Pair : Part(at, at) # <<q[1], q[2]>>
      /\ \A o \in Single : Part(at, at) = <<o[1]>> <=> text[at] = o[1]
  BY <1>2
<1>4. LexemeOf(Part(at, at)) = {s[2] : s \in {o \in Single : text[at] = o[1]}}
  <2>1. at \in at..Len(text)
    OBVIOUS
  <2>2. LexemeOf(Part(at, at)) =
          {p[3] : p \in {q \in Pair : Part(at, at) = <<q[1], q[2]>>}}
            \union {o[2] : o \in {q \in Single : Part(at, at) = <<q[1]>>}}
    BY <1>1, <2>1
  <2>3. /\ {q \in Pair : Part(at, at) = <<q[1], q[2]>>} = {}
        /\ {q \in Single : Part(at, at) = <<q[1]>>} = {o \in Single : text[at] = o[1]}
    BY <1>3
  <2> QED  BY <2>2, <2>3
<1>5. ASSUME at < Len(text)
      PROVE  LexemeOf(Part(at, at + 1)) =
               {p[3] : p \in {q \in Pair : text[at] = q[1] /\ text[at + 1] = q[2]}}
  <2>1. /\ Len(Part(at, at + 1)) = 2 /\ Part(at, at + 1)[1] = text[at]
        /\ Part(at, at + 1)[2] = text[at + 1] /\ Part(at, at + 1) \in Seq(STRING)
    <3>1. /\ at + 1 \in at..Len(text) /\ at + 1 - at + 1 = 2 /\ 1 \in 1..2 /\ 2 \in 1..2
          /\ at + 1 - 1 = at /\ at + 2 - 1 = at + 1
      BY <1>5
    <3>2. /\ Part(at, at + 1) \in Seq(STRING) /\ Len(Part(at, at + 1)) = at + 1 - at + 1
          /\ \A k \in 1..(at + 1 - at + 1) : Part(at, at + 1)[k] = text[at + k - 1]
      <4> DEFINE next == at + 1
      <4>1. next \in at..Len(text)
        BY <3>1
      <4> HIDE DEF next
      <4>2. /\ Part(at, next) \in Seq(STRING) /\ Len(Part(at, next)) = next - at + 1
            /\ \A k \in 1..(next - at + 1) : Part(at, next)[k] = text[at + k - 1]
        BY <1>1, <4>1
      <4> QED  BY <4>2 DEF next
    <3> QED  BY <3>1, <3>2
  <2>2. /\ \A o \in Single : Part(at, at + 1) # <<o[1]>>
        /\ \A q \in Pair : Part(at, at + 1) = <<q[1], q[2]>>
                             <=> text[at] = q[1] /\ text[at + 1] = q[2]
    BY <2>1
  <2>3. at + 1 \in at..Len(text)
    BY <1>5
  <2>4. LexemeOf(Part(at, at + 1)) =
          {p[3] : p \in {q \in Pair : Part(at, at + 1) = <<q[1], q[2]>>}}
            \union {o[2] : o \in {q \in Single : Part(at, at + 1) = <<q[1]>>}}
    BY <1>1, <2>3
  <2>5. /\ {q \in Single : Part(at, at + 1) = <<q[1]>>} = {}
        /\ {q \in Pair : Part(at, at + 1) = <<q[1], q[2]>>} =
             {q \in Pair : text[at] = q[1] /\ text[at + 1] = q[2]}
    BY <2>2
  <2> QED  BY <2>4, <2>5
<1>6. ASSUME NEW e \in (at + 2)..Len(text)
      PROVE  LexemeOf(Part(at, e)) = {}
  <2>1. e \in at..Len(text) /\ Len(Part(at, e)) > 2
    BY <1>1
  <2>2. /\ \A o \in Single : Part(at, e) # <<o[1]>>
        /\ \A q \in Pair : Part(at, e) # <<q[1], q[2]>>
    <3>1. \A a, b : Len(<<a>>) = 1 /\ Len(<<a, b>>) = 2
      OBVIOUS
    <3>2. Len(Part(at, e)) # 1 /\ Len(Part(at, e)) # 2
      BY <1>1, <2>1
    <3> QED  BY <3>1, <3>2, Zenon
  <2>3. LexemeOf(Part(at, e)) =
          {p[3] : p \in {q \in Pair : Part(at, e) = <<q[1], q[2]>>}}
            \union {o[2] : o \in {q \in Single : Part(at, e) = <<q[1]>>}}
    BY <1>1, <2>1
  <2>4. /\ {q \in Single : Part(at, e) = <<q[1]>>} = {}
        /\ {q \in Pair : Part(at, e) = <<q[1], q[2]>>} = {}
    BY <2>2
  <2> QED  BY <2>3, <2>4
<1> QED  BY <1>4, <1>5, <1>6

LEMMA OtherReads ==
  ASSUME LexemeInv, Other
  PROVE  LexemeInv'
<1>1. LexInv'
  BY OtherKeeps DEF LexemeInv
<1>2. text \in Seq(STRING) /\ Len(text) \in Nat /\ at \in Nat /\ at > 0 /\ at <= Len(text)
  BY Typed DEF LexemeInv, Other
<1>3. out = "pending" /\ text[at] \notin Letters \union Digits \union {Quote}
  BY DEF Other, Scanning, Here
<1>4. PICK c \in Behind :
        \/ PairAt(c) = <<"/", "/">> /\ Enter("comment", at)
        \/ PairAt(c) # <<"/", "/">> /\ Operator(c)
        \/ /\ ~\E p \in Pair : IsPair(p, c)
           /\ ~\E s \in Single : text[at] = s[1]
           /\ Reject("unrecognized", at)
  BY DEF Other
<1>5. \A p : IsPair(p, c) <=> text[at] = p[1] /\ (IF at < Len(text) THEN text[at + 1] ELSE c) = p[2]
  BY DEF IsPair, PairAt
<1>6. CASE PairAt(c) = <<"/", "/">> /\ Enter("comment", at)
  <2>1. /\ in' = "comment" /\ end' = at /\ at' = at /\ out' = "pending"
        /\ UNCHANGED <<text, toks>>
    BY <1>3, <1>6 DEF Enter
  <2>2. text[at] = "/" /\ IF at < Len(text) THEN text[at + 1] = "/" ELSE "/" \in Behind
    BY <1>6 DEF PairAt
  <2>3. \A k \in at'..(end' - 1) : FALSE
    BY <1>2, <2>1
  <2>4. Reading' /\ RejectedForNothing'
    BY <2>1, <2>2, <2>3 DEF Reading, RejectedForNothing
  <2>5. at <= at' /\ \A p \in DOMAIN text : ~(at <= p /\ p < at')
    BY <1>2, <2>1
  <2> QED  BY <1>1, <2>1, <2>4, <2>5, PassKeeps
<1>7. CASE Operator(c) /\ \E p \in Pair : IsPair(p, c)
  <2>1. PICK p \in Pair : IsPair(p, c) /\ AddTok(p[3], 2) /\ Resume(at + 2)
    BY <1>7 DEF Operator
  <2>2. ASSUME at + 2 <= Len(text) + 1
        PROVE  /\ LexemeOf(Part(at, at + 2 - 1)) = {p[3]}
               /\ \A e \in (at + 2)..Len(text) : LexemeOf(Part(at, e)) = {}
    <3>1. at < Len(text) /\ at + 2 - 1 = at + 1
      BY <1>2, <2>2
    <3>2. text[at] = p[1] /\ text[at + 1] = p[2]
      BY <1>5, <2>1, <3>1
    <3>3. {q[3] : q \in {r \in Pair : text[at] = r[1] /\ text[at + 1] = r[2]}} = {p[3]}
      BY <3>2, PairTells
    <3> QED  BY <1>2, <1>3, <3>1, <3>3, OperatorLexeme
  <2> DEFINE type == p[3]
  <2>3. AddTok(type, 2) /\ (at + 2 <= Len(text) + 1 =>
          /\ LexemeOf(Part(at, at + 2 - 1)) = {type}
          /\ \A e \in (at + 2)..Len(text) : LexemeOf(Part(at, e)) = {})
    BY <2>1, <2>2
  <2> HIDE DEF type
  <2> QED  BY <1>1, <1>2, <1>3, <2>1, <2>3, TokenAdds
<1>8. CASE Operator(c) /\ ~\E p \in Pair : IsPair(p, c)
  <2>1. PICK s \in Single : text[at] = s[1] /\ AddTok(s[2], 1) /\ Resume(at + 1)
    BY <1>8 DEF Operator
  <2>2. LexemeOf(Part(at, at)) = {s[2]}
    <3>1. {o[2] : o \in {r \in Single : text[at] = r[1]}} = {s[2]}
      BY <2>1, SingleTells
    <3> QED  BY <1>2, <1>3, <3>1, OperatorLexeme
  <2>3. ASSUME NEW e \in (at + 1)..Len(text) PROVE LexemeOf(Part(at, e)) = {}
    <3>1. CASE e = at + 1
      <4>1. at < Len(text)
        BY <1>2, <3>1
      <4>2. {q[3] : q \in {r \in Pair : text[at] = r[1] /\ text[at + 1] = r[2]}} = {}
        BY <1>5, <1>8, <4>1
      <4> QED  BY <1>2, <1>3, <3>1, <4>1, <4>2, OperatorLexeme
    <3>2. CASE e # at + 1
      <4>1. e \in (at + 2)..Len(text)
        BY <1>2, <3>2
      <4> QED  BY <1>2, <1>3, <4>1, OperatorLexeme
    <3> QED  BY <3>1, <3>2
  <2>4. at + 1 - 1 = at
    BY <1>2
  <2> DEFINE type == s[2]
  <2>5. /\ AddTok(type, 1) /\ LexemeOf(Part(at, at + 1 - 1)) = {type}
        /\ \A e \in (at + 1)..Len(text) : LexemeOf(Part(at, e)) = {}
    BY <2>1, <2>2, <2>3, <2>4
  <2> HIDE DEF type
  <2> QED  BY <1>1, <1>2, <1>3, <2>1, <2>5, TokenAdds
<1>9. CASE /\ ~\E p \in Pair : IsPair(p, c)
           /\ ~\E s \in Single : text[at] = s[1]
           /\ Reject("unrecognized", at)
  <2>1. ASSUME NEW e \in at..Len(text) PROVE LexemeOf(Part(at, e)) = {}
    <3>1. CASE e = at
      <4>1. {o[2] : o \in {r \in Single : text[at] = r[1]}} = {}
        BY <1>9
      <4> QED  BY <1>2, <1>3, <3>1, <4>1, OperatorLexeme
    <3>2. CASE e = at + 1
      <4>1. at < Len(text)
        BY <1>2, <3>2
      <4>2. {q[3] : q \in {r \in Pair : text[at] = r[1] /\ text[at + 1] = r[2]}} = {}
        BY <1>5, <1>9, <4>1
      <4> QED  BY <1>2, <1>3, <3>2, <4>1, <4>2, OperatorLexeme
    <3>3. CASE e # at /\ e # at + 1
      <4>1. e \in (at + 2)..Len(text)
        BY <1>2, <3>3
      <4> QED  BY <1>2, <1>3, <4>1, OperatorLexeme
    <3> QED  BY <3>1, <3>2, <3>3
  <2>2. at <= Len(text) + 1 /\ "unrecognized" \in Errors
    BY <1>2 DEF Errors
  <2> QED  BY <1>1, <1>9, <2>1, <2>2, RefuseKeeps
<1> QED  BY <1>4, <1>6, <1>7, <1>8, <1>9

\* The parts of the text that begin at `at`.
LEMMA FromAt ==
  ASSUME LexemeInv, NEW e \in at..Len(text)
  PROVE  /\ Part(at, e) \in Seq(STRING) /\ Len(Part(at, e)) = e - at + 1 /\ Len(Part(at, e)) > 0
         /\ DOMAIN Part(at, e) = 1..(e - at + 1)
         /\ \A k \in 1..(e - at + 1) : Part(at, e)[k] = text[at + k - 1]
         /\ Part(at, e)[1] = text[at]
<1>1. text \in Seq(STRING) /\ Len(text) \in Nat /\ at \in Nat /\ at > 0
  BY Typed DEF LexemeInv
<1>2. e \in Nat /\ at <= e + 1 /\ e <= Len(text) /\ 1 \in 1..(e - at + 1) /\ at + 1 - 1 = at
  BY <1>1
<1>3. /\ Part(at, e) \in Seq(STRING) /\ Len(Part(at, e)) = e - at + 1
      /\ DOMAIN Part(at, e) = 1..(e - at + 1)
      /\ \A k \in 1..(e - at + 1) : Part(at, e)[k] = text[at + k - 1]
  BY <1>1, <1>2, PartIs
<1> QED  BY <1>1, <1>2, <1>3

\* What is read of a word, and what the character behind it means.
LEMMA WordReads ==
  ASSUME LexemeInv, WordOn \/ WordEnd
  PROVE  LexemeInv'
<1>1. LexInv'
  BY WordKeeps DEF LexemeInv
<1>2. /\ text \in Seq(STRING) /\ Len(text) \in Nat /\ at \in Nat /\ at > 0 /\ end \in Nat
      /\ MaxIdent \in Nat
  BY Typed, LexAssumption DEF LexemeInv
<1>3. in = "word" /\ out = "pending"
  BY DEF WordOn, WordEnd, Scanning
<1>4. /\ at <= Len(text) /\ end <= Len(text) + 1 /\ at <= end /\ text[at] \in Letters
      /\ \A k \in at..(end - 1) : text[k] \in Letters \union Digits
  BY <1>3 DEF LexemeInv, LexInv, Underway, Reading
<1>5. CASE WordOn
  <2>1. /\ UNCHANGED <<text, at, in, toks, out>> /\ end' = end + 1
        /\ text[end] \in Letters \union Digits
    BY <1>5 DEF WordOn, Further, Within
  <2>2. \A k \in at'..(end' - 1) : text'[k] \in Letters \union Digits
    BY <1>2, <1>4, <2>1
  <2>3. in' = "word" /\ out' = "pending"
    BY <1>3, <2>1
  <2>4. Reading' /\ RejectedForNothing' /\ out' # "ok"
    BY <2>2, <2>3 DEF Reading, RejectedForNothing
  <2>5. at <= at' /\ \A p \in DOMAIN text : ~(at <= p /\ p < at')
    BY <1>2, <2>1
  <2> QED  BY <1>1, <2>1, <2>4, <2>5, PassKeeps
<1>6. CASE WordEnd
  <2>1. end > Len(text) \/ text[end] \notin Letters \union Digits
    BY <1>2, <1>6 DEF WordEnd, Within
  <2>2. at < end /\ end - at \in Nat /\ end - at > 0 /\ at + (end - at) = end
    BY <1>2, <1>4, <2>1
  <2>3. ASSUME NEW e \in at..Len(text)
        PROVE  /\ Part(at, e) \in Seq(STRING) /\ Len(Part(at, e)) = e - at + 1
               /\ \A k \in 1..(e - at + 1) : Part(at, e)[k] = text[at + k - 1]
               /\ LexemeOf(Part(at, e)) =
                    IF ~IsWord(Part(at, e)) THEN {}
                    ELSE IF Part(at, e) \in DOMAIN Keyword THEN {Keyword[Part(at, e)]}
                    ELSE IF Len(Part(at, e)) <= MaxIdent THEN {"IDENT"} ELSE {}
    <3> QED  BY <1>4, FromAt, ByFirst
  <2>4. ASSUME NEW e \in end..Len(text) PROVE LexemeOf(Part(at, e)) = {}
    <3>1. /\ e \in at..Len(text) /\ end - at + 1 \in 2..(e - at + 1) /\ at + (end - at + 1) - 1 = end
          /\ text[end] \notin Letters \union Digits
      BY <1>2, <1>4, <2>1, <2>2
    <3>2. Part(at, e)[end - at + 1] = text[end] /\ Len(Part(at, e)) = e - at + 1
      BY <1>2, <2>3, <3>1
    <3>3. ~IsWord(Part(at, e))
      BY <3>1, <3>2 DEF IsWord, All
    <3> QED  BY <2>3, <3>1, <3>3
  <2>5. end - 1 \in at..Len(text) /\ end - 1 - at + 1 = end - at
    BY <1>2, <1>4, <2>2
  <2>6. IsWord(Word) /\ Len(Word) = end - at /\ Word = Part(at, end - 1)
    <3> DEFINE last == end - 1
    <3>1. last \in at..Len(text) /\ last - at + 1 = end - at
      BY <2>5
    <3>2. Word = Part(at, last)
      BY DEF Word, Part
    <3> HIDE DEF last
    <3>3. /\ Len(Part(at, last)) = last - at + 1
          /\ \A k \in 1..(last - at + 1) : Part(at, last)[k] = text[at + k - 1]
      BY <2>3, <3>1
    <3>4. \A k \in 1..(end - at) : at + k - 1 \in at..(end - 1) /\ (k = 1 => at + k - 1 = at)
      BY <1>2
    <3>5. Word[1] = text[at] /\ \A k \in 2..(end - at) : Word[k] \in Letters \union Digits
      BY <1>2, <1>4, <2>2, <3>1, <3>2, <3>3, <3>4
    <3> QED  BY <1>4, <3>1, <3>2, <3>3, <3>5 DEF IsWord, All, last
  <2>7. LexemeOf(Word) = IF Word \in DOMAIN Keyword THEN {Keyword[Word]}
                         ELSE IF end - at <= MaxIdent THEN {"IDENT"} ELSE {}
    <3> DEFINE last == end - 1
    <3>1. last \in at..Len(text)
      BY <2>5
    <3>2. Word = Part(at, last)
      BY <2>6
    <3> HIDE DEF last
    <3> QED  BY <2>3, <2>6, <3>1, <3>2
  <2>8. CASE Word \in DOMAIN Keyword
    <3> DEFINE type == Keyword[Word]
    <3>1. AddTok(type, end - at) /\ Resume(at + (end - at)) /\ LexemeOf(Part(at, end - 1)) = {type}
      BY <1>6, <2>2, <2>6, <2>7, <2>8 DEF WordEnd
    <3>2. at + (end - at) - 1 = end - 1
      BY <1>2, <2>2
    <3> HIDE DEF type
    <3> QED  BY <1>1, <1>3, <1>4, <2>2, <2>4, <3>1, <3>2, TokenAdds
  <2>9. CASE Word \notin DOMAIN Keyword /\ ~(end - at > MaxIdent)
    <3>1. /\ AddTok("IDENT", end - at) /\ Resume(at + (end - at))
          /\ LexemeOf(Part(at, end - 1)) = {"IDENT"}
      BY <1>2, <1>6, <2>2, <2>6, <2>7, <2>9 DEF WordEnd
    <3>2. at + (end - at) - 1 = end - 1
      BY <1>2, <2>2
    <3> QED  BY <1>1, <1>3, <1>4, <2>2, <2>4, <3>1, <3>2, TokenAdds
  <2>10. CASE Word \notin DOMAIN Keyword /\ end - at > MaxIdent
    <3>1. Reject("too-long", at) /\ LexemeOf(Part(at, end - 1)) = {}
      BY <1>2, <1>6, <2>2, <2>6, <2>7, <2>10 DEF WordEnd
    <3>2. ASSUME NEW e \in at..Len(text), LexemeOf(Part(at, e)) # {}
          PROVE  e < Len(text) /\ text[e + 1] \in Letters \union Digits \union {"."}
      <4>1. e \notin end..Len(text) /\ e # end - 1
        BY <2>4, <3>1, <3>2
      <4>2. e + 1 \in at..(end - 1)
        BY <1>2, <1>4, <4>1
      <4> QED  BY <1>2, <1>4, <4>2
    <3>3. "too-long" \in Errors /\ at <= Len(text) + 1
      BY <1>2, <1>4 DEF Errors
    <3> QED  BY <1>1, <3>1, <3>2, <3>3, RefuseKeeps
  <2> QED  BY <2>8, <2>9, <2>10
<1> QED  BY <1>5, <1>6

\* What is read of a number: its points are counted.
LEMMA NumReads ==
  ASSUME LexemeInv, NumOn \/ NumEnd
  PROVE  LexemeInv'
<1>1. LexInv'
  BY NumKeeps DEF LexemeInv
<1>2. /\ text \in Seq(STRING) /\ Len(text) \in Nat /\ at \in Nat /\ at > 0 /\ end \in Nat
      /\ ndp \in Nat
  BY Typed DEF LexemeInv
<1>3. in = "number" /\ out = "pending"
  BY DEF NumOn, NumEnd, Scanning
<1>4. /\ at <= Len(text) /\ end <= Len(text) + 1 /\ at <= end /\ text[at] \in Digits
      /\ \A k \in at..(end - 1) : text[k] \in Digits \union {"."}
      /\ ndp = 0 => \A k \in at..(end - 1) : text[k] # "."
      /\ ndp = 1 => \E k \in at..(end - 1) :
                      text[k] = "." /\ \A j \in at..(end - 1) : text[j] = "." => j = k
      /\ ndp > 1 => \E j, k \in at..(end - 1) : j # k /\ text[j] = "." /\ text[k] = "."
  BY <1>3 DEF LexemeInv, LexInv, Underway, Reading
<1>5. CASE NumOn
  <2>1. /\ UNCHANGED <<text, at, in, toks, out>> /\ end' = end + 1
        /\ text[end] \in Digits \union {"."} /\ ndp' = ndp + (IF text[end] = "." THEN 1 ELSE 0)
    BY <1>5 DEF NumOn, Further, Within
  <2>2. \A k : k \in at..(end + 1 - 1) <=> k \in at..(end - 1) \/ k = end
    BY <1>2, <1>4
  <2>3. \A k \in at..(end + 1 - 1) : text[k] \in Digits \union {"."}
    BY <1>4, <2>1, <2>2
  <2>4. end \notin at..(end - 1)
    BY <1>2
  <2>5. /\ ndp' = 0 => \A k \in at..(end + 1 - 1) : text[k] # "."
        /\ ndp' = 1 => \E k \in at..(end + 1 - 1) :
                         text[k] = "." /\ \A j \in at..(end + 1 - 1) : text[j] = "." => j = k
        /\ ndp' > 1 => \E j, k \in at..(end + 1 - 1) : j # k /\ text[j] = "." /\ text[k] = "."
    <3>1. CASE text[end] # "."
      <4>1. ndp' = ndp
        BY <1>2, <2>1, <3>1
      <4> QED  BY <1>4, <2>2, <3>1, <4>1
    <3>2. CASE text[end] = "."
      <4>1. ndp' = ndp + 1
        BY <2>1, <3>2
      <4>2. CASE ndp = 0
        <5>1. ndp' = 1
          BY <4>1, <4>2
        <5> QED  BY <1>4, <2>2, <3>2, <4>2, <5>1
      <4>3. CASE ndp > 0
        <5>1. ndp' > 1 /\ (ndp = 1 \/ ndp > 1)
          BY <1>2, <4>1, <4>3
        <5>2. PICK k \in at..(end - 1) : text[k] = "."
          BY <1>4, <5>1
        <5> QED  BY <2>2, <2>4, <3>2, <5>1, <5>2
      <4> QED  BY <1>2, <4>2, <4>3
    <3> QED  BY <3>1, <3>2
  <2>6. in' = "number" /\ out' = "pending"
    BY <1>3, <2>1
  <2>7. Reading' /\ RejectedForNothing' /\ out' # "ok"
    <3> DEFINE read == at..(end + 1 - 1)
    <3>1. at'..(end' - 1) = read /\ text' = text
      BY <1>2, <2>1
    <3>2. /\ \A k \in read : text[k] \in Digits \union {"."}
          /\ ndp' = 0 => \A k \in read : text[k] # "."
          /\ ndp' = 1 => \E k \in read : text[k] = "." /\ \A j \in read : text[j] = "." => j = k
          /\ ndp' > 1 => \E j, k \in read : j # k /\ text[j] = "." /\ text[k] = "."
      BY <2>3, <2>5
    <3> HIDE DEF read
    <3> QED  BY <2>6, <3>1, <3>2 DEF Reading, RejectedForNothing
  <2>8. at <= at' /\ \A p \in DOMAIN text : ~(at <= p /\ p < at')
    BY <1>2, <2>1
  <2> QED  BY <1>1, <2>1, <2>7, <2>8, PassKeeps
<1>6. CASE NumEnd
  <2>1. end > Len(text) \/ text[end] \notin Digits \union {"."}
    BY <1>2, <1>6 DEF NumEnd, Within
  <2>2. at < end /\ end - at \in Nat /\ end - at > 0 /\ at + (end - at) = end
    BY <1>2, <1>4, <2>1
  <2>3. ASSUME NEW e \in at..Len(text)
        PROVE  LexemeOf(Part(at, e)) =
                 IF ~IsNumber(Part(at, e)) THEN {}
                 ELSE {t \in {"LITINT"} : Points(Part(at, e)) = {}}
                        \union {t \in {"LITREAL"} :
                                  \E k \in DOMAIN Part(at, e) : Points(Part(at, e)) = {k}}
    BY <1>4, FromAt, ByFirst
  <2>4. ASSUME NEW e \in end..Len(text) PROVE LexemeOf(Part(at, e)) = {}
    <3>1. /\ e \in at..Len(text) /\ end - at + 1 \in 2..(e - at + 1) /\ at + (end - at + 1) - 1 = end
          /\ text[end] \notin Digits \union {"."}
      BY <1>2, <1>4, <2>1, <2>2
    <3>2. Part(at, e)[end - at + 1] = text[end] /\ Len(Part(at, e)) = e - at + 1
      <4> DEFINE k == end - at + 1
      <4>1. k \in 1..(e - at + 1) /\ at + k - 1 = end
        BY <1>2, <3>1
      <4> HIDE DEF k
      <4>2. Part(at, e)[k] = text[at + k - 1] /\ Len(Part(at, e)) = e - at + 1
        BY <3>1, <4>1, FromAt
      <4> QED  BY <4>1, <4>2 DEF k
    <3>3. ~IsNumber(Part(at, e))
      BY <3>1, <3>2 DEF IsNumber, All
    <3> QED  BY <2>3, <3>1, <3>3
  <2> DEFINE last == end - 1
  <2>5. last \in at..Len(text) /\ last - at + 1 = end - at
    BY <1>2, <1>4, <2>2
  <2> DEFINE s == Part(at, last)
  <2>6. /\ Len(s) = end - at /\ DOMAIN s = 1..(end - at) /\ s[1] = text[at]
        /\ \A k \in 1..(end - at) : s[k] = text[at + k - 1]
    <3> HIDE DEF last
    <3> QED  BY <2>5, FromAt
  <2>7. LexemeOf(s) =
          IF ~IsNumber(s) THEN {}
          ELSE {t \in {"LITINT"} : Points(s) = {}}
                 \union {t \in {"LITREAL"} : \E k \in DOMAIN s : Points(s) = {k}}
    BY <2>3, <2>5
  <2>8. at + (end - at) - 1 = last
    BY <1>2, <2>2
  <2> HIDE DEF last, s
  <2>9. \A k \in 1..(end - at) : at + k - 1 \in at..(end - 1)
    BY <1>2
  <2>10. \A k \in at..(end - 1) : k - at + 1 \in 1..(end - at) /\ at + (k - at + 1) - 1 = k
    BY <1>2
  <2>11. \A k \in at..(end - 1) : k - at + 1 \in 1..(end - at) /\ s[k - at + 1] = text[k]
    BY <2>6, <2>10
  <2>12. IsNumber(s)
    BY <1>2, <1>4, <2>2, <2>6, <2>9 DEF IsNumber, All
  <2>13. CASE ndp = 0
    <3>1. Points(s) = {}
      BY <1>4, <2>6, <2>9, <2>13 DEF Points
    <3>2. ~\E k \in DOMAIN s : Points(s) = {k}
      BY <3>1
    <3>3. LexemeOf(s) = {"LITINT"}
      BY <2>7, <2>12, <3>1, <3>2
    <3>4. AddTok("LITINT", end - at) /\ Resume(at + (end - at))
      BY <1>6, <2>2, <2>13 DEF NumEnd
    <3>5. LexemeOf(Part(at, at + (end - at) - 1)) = {"LITINT"}
      BY <2>8, <3>3 DEF s
    <3> QED  BY <1>1, <1>3, <1>4, <2>2, <2>4, <3>4, <3>5, TokenAdds
  <2>14. CASE ndp = 1
    <3>1. PICK k \in at..(end - 1) : text[k] = "." /\ \A j \in at..(end - 1) : text[j] = "." => j = k
      BY <1>4, <2>14
    <3>2. \A j \in 1..(end - at) : at + j - 1 = k => j = k - at + 1
      BY <1>2
    <3>3. Points(s) = {k - at + 1}
      <4>1. \A j \in 1..(end - at) : s[j] = "." => j = k - at + 1
        BY <2>6, <2>9, <3>1, <3>2
      <4>2. k - at + 1 \in 1..(end - at) /\ s[k - at + 1] = "."
        BY <2>11, <3>1
      <4> DEFINE i == k - at + 1
      <4> HIDE DEF i
      <4>3. \A j \in 1..(end - at) : s[j] = "." <=> j = i
        BY <4>1, <4>2 DEF i
      <4>4. Points(s) = {i}
        BY <2>6, <4>2, <4>3 DEF Points, i
      <4> QED  BY <4>4 DEF i
    <3>4. k - at + 1 \in DOMAIN s
      BY <2>6, <2>11
    <3>5. LexemeOf(s) = {"LITREAL"}
      <4>1. Points(s) # {} /\ \E j \in DOMAIN s : Points(s) = {j}
        BY <3>3, <3>4
      <4> QED  BY <2>7, <2>12, <4>1
    <3>6. AddTok("LITREAL", end - at) /\ Resume(at + (end - at))
      BY <1>6, <2>2, <2>14 DEF NumEnd
    <3>7. LexemeOf(Part(at, at + (end - at) - 1)) = {"LITREAL"}
      BY <2>8, <3>5 DEF s
    <3> QED  BY <1>1, <1>3, <1>4, <2>2, <2>4, <3>6, <3>7, TokenAdds
  <2>15. CASE ndp > 1
    <3>1. PICK j, k \in at..(end - 1) : j # k /\ text[j] = "." /\ text[k] = "."
      BY <1>4, <2>15
    <3>2. /\ j - at + 1 \in Points(s) /\ k - at + 1 \in Points(s) /\ j - at + 1 # k - at + 1
      BY <1>2, <2>6, <2>11, <3>1 DEF Points
    <3>3. LexemeOf(s) = {}
      <4>1. Points(s) # {} /\ \A i : Points(s) # {i}
        BY <3>2
      <4> QED  BY <2>7, <4>1
    <3>4. Reject("two-points", at)
      BY <1>6, <2>15 DEF NumEnd
    <3>5. ASSUME NEW e \in at..Len(text), LexemeOf(Part(at, e)) # {}
          PROVE  e < Len(text) /\ text[e + 1] \in Letters \union Digits \union {"."}
      <4>1. e \notin end..Len(text) /\ e # end - 1
        BY <2>4, <3>3, <3>5 DEF s, last
      <4>2. e + 1 \in at..(end - 1)
        BY <1>2, <1>4, <4>1
      <4> QED  BY <1>2, <1>4, <4>2
    <3>6. "two-points" \in Errors /\ at <= Len(text) + 1
      BY <1>2, <1>4 DEF Errors
    <3> QED  BY <1>1, <3>4, <3>5, <3>6, RefuseKeeps
  <2> QED  BY <1>2, <2>13, <2>14, <2>15
<1> QED  BY <1>5, <1>6

\* What is read of a string: every quote so far is escaped, and what comes next is not.
LEMMA StrReads ==
  ASSUME LexemeInv, StrOn \/ StrEnd
  PROVE  LexemeInv'
<1>1. LexInv'
  BY StrKeeps DEF LexemeInv
<1>2. text \in Seq(STRING) /\ Len(text) \in Nat /\ at \in Nat /\ at > 0 /\ end \in Nat
  BY Typed DEF LexemeInv
<1>3. in = "string" /\ out = "pending"
  BY DEF StrOn, StrEnd, Scanning
<1>4. /\ at <= Len(text) /\ end <= Len(text) + 1 /\ at < end
      /\ text[at] = Quote /\ ~Escaped(Rest, end - at + 1)
      /\ \A k \in 2..(end - at) : Rest[k] = Quote => Escaped(Rest, k)
  BY <1>3 DEF LexemeInv, LexInv, Underway, Reading
<1> DEFINE n == end - at + 1
           size == Len(text) - at + 1
<1>5. n \in Nat /\ n >= 2 /\ n <= size + 1 /\ size \in Nat /\ end - at = n - 1 /\ at + n - 1 = end
  BY <1>2, <1>4
<1>6. Len(Rest) = size /\ \A k \in 1..size : Rest[k] = text[at + k - 1]
  BY <1>2, <1>4, FromAt DEF Rest
<1>7. end <= Len(text) => n \in 1..size /\ Rest[n] = text[end]
  <2> SUFFICES ASSUME end <= Len(text) PROVE n \in 1..size /\ Rest[n] = text[end]
    OBVIOUS
  <2>1. n \in 1..size
    BY <1>2, <1>4
  <2> HIDE DEF n, size
  <2> QED  BY <1>5, <1>6, <2>1
<1>8. ~Escaped(Rest, n) /\ \A k \in 2..(n - 1) : Rest[k] = Quote => Escaped(Rest, k)
  BY <1>4, <1>5
\* Any literal that begins here agrees with the rest of the text.
<1>9. ASSUME NEW e \in at..Len(text)
      PROVE  /\ LexemeOf(Part(at, e)) = IF IsString(Part(at, e)) THEN {"LITSTR"} ELSE {}
             /\ \A k \in 1..(e - at + 1) : Part(at, e)[k] = Rest[k]
             /\ \A k \in 1..(e - at + 2) : Escaped(Part(at, e), k) <=> Escaped(Rest, k)
             /\ Len(Part(at, e)) = e - at + 1 /\ Part(at, e)[1] = Quote
  <2>1. /\ Part(at, e) \in Seq(STRING) /\ Len(Part(at, e)) = e - at + 1 /\ Len(Part(at, e)) > 0
        /\ \A k \in 1..(e - at + 1) : Part(at, e)[k] = text[at + k - 1]
        /\ Part(at, e)[1] = text[at]
    BY FromAt
  <2>2. \A k \in 1..(e - at + 1) : k \in 1..size
    BY <1>2
  <2>3. \A k \in 1..(e - at + 1) : Part(at, e)[k] = Rest[k]
    BY <1>6, <2>1, <2>2
  <2>4. ASSUME NEW k \in 1..(e - at + 2)
        PROVE  Escaped(Part(at, e), k) <=> Escaped(Rest, k)
    <3>1. k \in Nat /\ \A j \in 2..(k - 1) : j \in 1..(e - at + 1)
      BY <1>2
    <3>2. \A j \in 2..(k - 1) : Part(at, e)[j] = Rest[j]
      BY <2>3, <3>1
    <3> QED  BY <3>1, <3>2, EscapedBefore
  <2> QED  BY <1>4, <2>1, <2>3, <2>4, ByFirst
\* A literal that would end before end has no quote there, or an escaped one.
<1>10. ASSUME NEW e \in at..Len(text), e < end
       PROVE  LexemeOf(Part(at, e)) = {}
  <2> SUFFICES ASSUME IsString(Part(at, e)) PROVE FALSE
    BY <1>9
  <2> DEFINE m == e - at + 1
  <2>1. m \in 1..(e - at + 1) /\ m \in 1..(e - at + 2) /\ m <= n - 1 /\ m \in Nat
    BY <1>2, <1>10
  <2>2. m > 1 /\ Part(at, e)[m] = Quote /\ ~Escaped(Part(at, e), m)
    BY <1>9 DEF IsString
  <2> HIDE DEF m
  <2>3. Rest[m] = Quote /\ ~Escaped(Rest, m)
    BY <1>9, <2>1, <2>2
  <2>4. m \in 2..(n - 1)
    BY <1>5, <2>1, <2>2
  <2> QED  BY <1>8, <2>3, <2>4
<1> HIDE DEF n, size
<1>11. CASE end <= Len(text) /\ text[end] # Quote /\ text[end] # Backslash
            /\ Further(1) /\ UNCHANGED ndp
  <2>1. UNCHANGED <<text, at, in, toks, out>> /\ end' = end + 1
    BY <1>11 DEF Further
  <2>2. Rest' = Rest
    BY <2>1 DEF Rest, Part
  <2>3. end' - at' + 1 = n + 1 /\ end' - at' = n
    BY <1>2, <1>5, <2>1
  <2>4. Rest[n] # Quote /\ ~Escaped(Rest, n + 1)
    <3>1. n + 1 \in Nat /\ n + 1 > 2 /\ n + 1 - 1 = n
      BY <1>5
    <3> QED  BY <1>7, <1>11, <3>1, EscapedNot
  <2>5. \A k \in 2..n : Rest[k] = Quote => Escaped(Rest, k)
    <3> SUFFICES ASSUME NEW k \in 2..n, Rest[k] = Quote PROVE Escaped(Rest, k)
      OBVIOUS
    <3>1. k # n
      BY <2>4
    <3>2. k \in 2..(n - 1)
      BY <1>5, <3>1
    <3> QED  BY <1>8, <3>2
  <2>6. in' = "string" /\ out' = "pending"
    BY <1>3, <2>1
  <2>7. Reading' /\ RejectedForNothing' /\ out' # "ok"
    BY <1>4, <2>1, <2>2, <2>3, <2>4, <2>5, <2>6 DEF Reading, RejectedForNothing
  <2>8. at <= at' /\ \A p \in DOMAIN text : ~(at <= p /\ p < at')
    BY <1>2, <2>1
  <2> QED  BY <1>1, <2>1, <2>7, <2>8, PassKeeps
<1>12. CASE end + 1 <= Len(text) /\ text[end] = Backslash /\ Further(2) /\ UNCHANGED ndp
  <2>1. UNCHANGED <<text, at, in, toks, out>> /\ end' = end + 2
    BY <1>12 DEF Further
  <2>2. Rest' = Rest
    BY <2>1 DEF Rest, Part
  <2>3. end' - at' + 1 = n + 2 /\ end' - at' = n + 1
    BY <1>2, <1>5, <2>1
  <2>4. end <= Len(text) /\ Rest[n] = Backslash
    BY <1>2, <1>7, <1>12
  <2>5. Escaped(Rest, n + 1) /\ ~Escaped(Rest, n + 2) /\ Rest[n] # Quote
    <3>1. Backslash # Quote
      BY Zenon DEF Backslash, Quote
    <3> QED  BY <1>5, <1>8, <2>4, <3>1, EscapedNext
  <2>6. \A k \in 2..(n + 1) : Rest[k] = Quote => Escaped(Rest, k)
    <3> SUFFICES ASSUME NEW k \in 2..(n + 1), Rest[k] = Quote PROVE Escaped(Rest, k)
      OBVIOUS
    <3>1. k # n
      BY <2>5
    <3>2. k = n + 1 \/ k \in 2..(n - 1)
      BY <1>5, <3>1
    <3> QED  BY <1>8, <2>5, <3>2
  <2>7. in' = "string" /\ out' = "pending"
    BY <1>3, <2>1
  <2>8. Reading' /\ RejectedForNothing' /\ out' # "ok"
    BY <1>4, <2>1, <2>2, <2>3, <2>5, <2>6, <2>7 DEF Reading, RejectedForNothing
  <2>9. at <= at' /\ \A p \in DOMAIN text : ~(at <= p /\ p < at')
    BY <1>2, <2>1
  <2> QED  BY <1>1, <2>1, <2>8, <2>9, PassKeeps
<1>13. CASE end <= Len(text) /\ end + 1 > Len(text) /\ text[end] = Backslash
            /\ Reject("no-escape", end + 1)
  <2>1. end = Len(text) /\ end + 1 <= Len(text) + 1 /\ "no-escape" \in Errors
    BY <1>2, <1>13 DEF Errors
  <2>2. LexemeOf(Part(at, end)) = {}
    <3>1. end \in at..Len(text)
      BY <1>2, <1>4, <2>1
    <3>2. Part(at, end)[Len(Part(at, end))] = Backslash
      <4>1. n \in 1..(end - at + 1) /\ Len(Part(at, end)) = n
        BY <1>5, <1>9, <3>1 DEF n
      <4> QED  BY <1>7, <1>9, <1>13, <3>1, <4>1
    <3>3. ~IsString(Part(at, end))
      <4>1. Backslash # Quote
        BY Zenon DEF Backslash, Quote
      <4> QED  BY <3>2, <4>1 DEF IsString
    <3> QED  BY <1>9, <3>1, <3>3
  <2>3. \A e \in at..Len(text) : LexemeOf(Part(at, e)) = {}
    <3> SUFFICES ASSUME NEW e \in at..Len(text) PROVE LexemeOf(Part(at, e)) = {}
      OBVIOUS
    <3>1. e < end \/ e = end
      BY <1>2, <2>1
    <3> QED  BY <1>10, <2>2, <3>1
  <2> QED  BY <1>1, <1>13, <2>1, <2>3, RefuseKeeps
<1>14. CASE end > Len(text) /\ Reject("unterminated", at)
  <2>1. at <= Len(text) + 1 /\ "unterminated" \in Errors
    BY <1>2, <1>4 DEF Errors
  <2>2. \A e \in at..Len(text) : e < end
    BY <1>2, <1>14
  <2>3. \A e \in at..Len(text) : LexemeOf(Part(at, e)) = {}
    BY <1>10, <2>2
  <2> QED  BY <1>1, <1>14, <2>1, <2>3, RefuseKeeps
<1>15. CASE Within({Quote}) /\ AddTok("LITSTR", end - at + 1) /\ Resume(end + 1)
  <2>1. end <= Len(text) /\ text[end] = Quote /\ end \in at..Len(text)
    BY <1>2, <1>4, <1>15 DEF Within
  <2>2. Rest[n] = Quote /\ n \in Nat /\ n > 1 /\ end - at + 1 = n
    BY <1>5, <1>7, <2>1 DEF n
  <2>3. IsString(Part(at, end))
    <3>1. /\ Len(Part(at, end)) = n /\ Part(at, end)[1] = Quote
          /\ \A k \in 1..n : Part(at, end)[k] = Rest[k]
          /\ \A k \in 1..n : Escaped(Part(at, end), k) <=> Escaped(Rest, k)
      <4>1. end - at + 1 = n /\ end - at + 2 = n + 1
        BY <1>2, <2>2
      <4>2. \A k \in 1..n : k \in 1..(n + 1)
        BY <2>2
      <4> QED  BY <1>9, <2>1, <4>1, <4>2
    <3>2. n \in 1..n
      BY <2>2
    <3>3. Part(at, end)[n] = Quote /\ ~Escaped(Part(at, end), n)
      BY <1>8, <2>2, <3>1, <3>2
    <3>4. \A k \in 2..(n - 1) : Part(at, end)[k] = Quote => Escaped(Part(at, end), k)
      <4>1. \A k \in 2..(n - 1) : k \in 1..n
        BY <2>2
      <4> QED  BY <1>8, <3>1, <4>1
    <3> QED  BY <2>2, <3>1, <3>3, <3>4 DEF IsString
  <2>4. ASSUME NEW e \in (end + 1)..Len(text) PROVE LexemeOf(Part(at, e)) = {}
    <3>1. e \in at..Len(text) /\ n \in 2..(e - at + 1 - 1) /\ n \in 1..(e - at + 1)
          /\ n \in 1..(e - at + 2)
      BY <1>2, <1>4, <2>2
    <3>2. Part(at, e)[n] = Quote /\ ~Escaped(Part(at, e), n) /\ Len(Part(at, e)) = e - at + 1
      BY <1>8, <1>9, <2>2, <3>1
    <3>3. ~IsString(Part(at, e))
      <4> DEFINE s == Part(at, e)
      <4>1. n \in 2..(Len(s) - 1) /\ s[n] = Quote /\ ~Escaped(s, n)
        BY <1>2, <3>1, <3>2
      <4> HIDE DEF s
      <4>2. ~IsString(s)
        BY <4>1 DEF IsString
      <4> QED  BY <4>2 DEF s
    <3> QED  BY <1>9, <3>1, <3>3
  <2>5. /\ at + n = end + 1 /\ at + n - 1 = end
    BY <1>2, <2>2
  <2>6. LexemeOf(Part(at, at + n - 1)) = {"LITSTR"}
    BY <1>9, <2>1, <2>3, <2>5
  <2>7. AddTok("LITSTR", n) /\ Resume(at + n)
    BY <1>15, <2>2, <2>5
  <2>8. \A e \in (at + n)..Len(text) : LexemeOf(Part(at, e)) = {}
    BY <2>4, <2>5
  <2> QED  BY <1>1, <1>3, <1>4, <2>2, <2>6, <2>7, <2>8, TokenAdds
<1> QED  BY <1>2, <1>11, <1>12, <1>13, <1>14, <1>15 DEF StrOn, StrEnd

\* A comment ends where its line does.
LEMMA CommentReads ==
  ASSUME LexemeInv, CommentOn \/ CommentEnd
  PROVE  LexemeInv'
<1>1. LexInv'
  BY CommentKeeps DEF LexemeInv
<1>2. text \in Seq(STRING) /\ Len(text) \in Nat /\ at \in Nat /\ at > 0 /\ end \in Nat
  BY Typed DEF LexemeInv
<1>3. in = "comment" /\ out = "pending"
  BY DEF CommentOn, CommentEnd, Scanning
<1>4. /\ at <= Len(text) /\ end <= Len(text) + 1 /\ at <= end
      /\ text[at] = "/" /\ IF at < Len(text) THEN text[at + 1] = "/" ELSE "/" \in Behind
      /\ \A k \in at..(end - 1) : text[k] # Newline
  BY <1>3 DEF LexemeInv, LexInv, Underway, Reading
<1>5. CASE CommentOn
  <2>1. UNCHANGED <<text, at, in, toks, out>> /\ end' = end + 1 /\ text[end] # Newline
    BY <1>5 DEF CommentOn, Further
  <2>2. \A k \in at'..(end' - 1) : text[k] # Newline
    BY <1>2, <1>4, <2>1
  <2>3. in' = "comment" /\ out' = "pending" /\ text' = text /\ at' = at
    BY <1>3, <2>1
  <2>4. Reading' /\ RejectedForNothing' /\ out' # "ok"
    BY <1>4, <2>2, <2>3 DEF Reading, RejectedForNothing
  <2>5. at <= at' /\ \A p \in DOMAIN text : ~(at <= p /\ p < at')
    BY <1>2, <2>1
  <2> QED  BY <1>1, <2>1, <2>4, <2>5, PassKeeps
<1>6. CASE CommentEnd
  <2>1. /\ at' = end + 1 /\ in' = "main" /\ UNCHANGED <<text, toks, out>>
        /\ end > Len(text) \/ text[end] = Newline
    BY <1>2, <1>6 DEF CommentEnd, Resume
  <2>2. ASSUME NEW p \in DOMAIN text, at <= p, p < at'
        PROVE  Accounted(p)
    <3>1. p \in Nat /\ p <= Len(text) /\ at \in 1..p
      BY <1>2, <2>2
    <3>2. CASE p < end
      <4>1. IsComment(at, p)
        BY <1>2, <1>4, <3>1, <3>2 DEF IsComment
      <4>2. \A k \in DOMAIN toks : Stop(toks[k]) <= at
        BY DEF LexemeInv, Passed
      <4> QED  BY <3>1, <4>1, <4>2 DEF Accounted
    <3>3. CASE p = end
      <4>1. text[p] = Newline
        BY <1>2, <2>1, <3>1, <3>3
      <4> QED  BY <4>1 DEF Accounted, Spaces
    <3> QED  BY <1>2, <2>1, <2>2, <3>1, <3>2, <3>3
  <2>3. at <= at' /\ Reading' /\ RejectedForNothing' /\ out' # "ok"
    BY <1>2, <1>3, <1>4, <2>1 DEF Reading, RejectedForNothing
  <2> QED  BY <1>1, <2>1, <2>2, <2>3, PassKeeps
<1> QED  BY <1>5, <1>6

LEMMA InitReads == Init => LexemeInv
<1> SUFFICES ASSUME Init PROVE LexemeInv
  OBVIOUS
<1>1. LexInv
  BY InitHolds
<1>2. /\ at = 1 /\ in = "main" /\ out = "pending"
      /\ toks = <<[type |-> "NULL", pos |-> 1, len |-> 0]>> /\ text \in Seq(STRING)
  BY LexAssumption DEF Init
<1>3. DOMAIN toks = {1} /\ Stop(toks[1]) = 1 /\ Len(toks) = 1
  BY <1>2 DEF Stop
<1>4. \A p \in DOMAIN text : ~(p < at)
  BY <1>2
<1>5. Passed
  BY <1>2, <1>3, <1>4 DEF Passed
<1>6. TokensAreLongest
  BY <1>3 DEF TokensAreLongest
<1> QED  BY <1>1, <1>2, <1>5, <1>6 DEF LexemeInv, Reading, RejectedForNothing

LEMMA StepReads == LexemeInv /\ [Next]_vars => LexemeInv'
<1> SUFFICES ASSUME LexemeInv, [Next]_vars PROVE LexemeInv'
  OBVIOUS
<1>1. CASE Step
  BY <1>1, MainReads, OtherReads, WordReads, StrReads, NumReads, CommentReads DEF Step
<1>2. CASE UNCHANGED vars
  <2>1. LexInv'
    BY <1>2, StepKeeps DEF LexemeInv
  <2>2. UNCHANGED <<text, at, in, end, ndp, toks, out, errpos>>
    BY <1>2 DEF vars
  <2>3. at <= at' /\ \A p \in DOMAIN text : ~(at <= p /\ p < at')
    BY <2>2, Typed DEF LexemeInv
  <2>4. Reading' /\ RejectedForNothing'
    BY <2>2 DEF LexemeInv, Reading, RejectedForNothing, Rest, Part
  <2>5. out' = "ok" => at' > Len(text)
    BY <2>2 DEF LexemeInv, Passed
  <2> QED  BY <2>1, <2>2, <2>3, <2>4, <2>5, PassKeeps
<1> QED  BY <1>1, <1>2 DEF Next, Stopped

\* NothingSkipped, for every set of texts, every alphabet and whatever lies behind the
\* text: when ls_lex accepts, what lies between its tokens is white space or a comment.
THEOREM NothingIsSkipped == Spec => []NothingSkipped
<1>1. LexemeInv => NothingSkipped
  <2> SUFFICES ASSUME LexemeInv, out = "ok", NEW p \in DOMAIN text PROVE Accounted(p)
    BY DEF NothingSkipped, Accounted
  <2>1. text \in Seq(STRING) /\ Len(text) \in Nat /\ at \in Nat /\ at > Len(text)
    BY Typed DEF LexemeInv, Passed
  <2>2. p < at
    BY <2>1
  <2> QED  BY <2>2 DEF LexemeInv, Passed
<1> QED  BY <1>1, InitReads, StepReads, PTL DEF Spec

\* TokensAreLongest, likewise: every token that ls_lex, ls_lexword, ls_lexnum and
\* ls_lexstr add is the longest lexeme that begins where it does, and has its type.
THEOREM TokensLongest == Spec => []TokensAreLongest
<1>1. LexemeInv => TokensAreLongest
  BY DEF LexemeInv
<1> QED  BY <1>1, InitReads, StepReads, PTL DEF Spec

\* RejectedForNothing, likewise: where ls_lex gives up no lexeme begins, but for one that
\* the next character would make too long or a number of two points.
THEOREM RejectsRightly == Spec => []RejectedForNothing
<1>1. LexemeInv => RejectedForNothing
  BY DEF LexemeInv
<1> QED  BY <1>1, InitReads, StepReads, PTL DEF Spec
=============================================================================

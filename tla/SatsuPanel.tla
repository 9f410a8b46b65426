----------------------------- MODULE SatsuPanel -----------------------------
(***************************************************************************)
(* The panel of gsatsu (p_panel.c): the thread of the user interface, the  *)
(* thread a program runs in, the buffers they share and the one mutex,     *)
(* which p_cget and the Send button take and p_cput does not.              *)
(*                                                                         *)
(* Each thread is a record: where it is, the characters it has still to    *)
(* give to p_cput, where it goes when they are out, an index, and the      *)
(* array p_pushoutput copies from.  A step is one access to shared memory. *)
(* The program is any sequence of console operations.  A write outside of  *)
(* cputbuf is a fault, and the model stops there.                          *)
(***************************************************************************)
EXTENDS Integers, Sequences, FiniteSets

CONSTANTS
  MaxLine,     \* O_MAXIOLINE
  NLines,      \* O_NOUTPUTLINES
  ProgChars,   \* characters a program may print
  InputLines,  \* lines the user may type
  Patient,     \* the user sends only while a program waits for a line
  MaxRuns,     \* bound on the uses of Execute and of the other buttons
  MaxPuts,     \* bound on the characters printed by programs
  MaxReads,    \* bound on the lines read by programs
  MaxSends     \* bound on the uses of Send input

NL == "newline"
NUL == "nul"
Chars == ProgChars \union {NL, NUL, "error", "done"}
           \union UNION {{l[i] : i \in DOMAIN l} : l \in InputLines}

ASSUME PanelAssumption ==
  /\ MaxLine \in Nat \ {0} /\ NLines \in Nat \ {0, 1}
  /\ {MaxRuns, MaxPuts, MaxReads, MaxSends} \subseteq Nat
  /\ Patient \in BOOLEAN
  /\ InputLines \subseteq Seq(STRING \ {NL, NUL}) /\ ProgChars \subseteq STRING \ {NL, NUL}

VARIABLES
  mutex,        \* cgetmutex: the thread that holds it, or "free"
  cputbuf, cputlen,
  cgetbuf, cgetlen, cgetidx,
  inputline, outputlines, running,
  th,           \* the two threads
  line,         \* buf of ls_syscreadln, empty between its calls
  fault,        \* "none", or "overflow" of cputbuf
  count,        \* how often each bounded operation was used
  con           \* history: the terminal as the calls of p_cput should have left it

cput == <<cputbuf, cputlen>>
cget == <<cgetbuf, cgetlen, cgetidx>>
vars == <<mutex, cput, cget, inputline, outputlines, running, th, line, fault, count, con>>

Threads == {"ui", "exe"}
Rows == 0..(NLines - 1)
Blank == [k \in 0..(MaxLine - 1) |-> NUL]
\* A text as an array of characters that ends in NUL.
Array(text) == [k \in 0..MaxLine |-> IF k < Len(text) THEN text[k + 1] ELSE NUL]
\* The text an array of characters holds.
Text(a) ==
  LET n == CHOOSE k \in 0..MaxLine :
             (k = MaxLine \/ a[k] = NUL) /\ \A j \in 0..(k - 1) : a[j] # NUL
  IN [k \in 1..n |-> a[k - 1]]

-----------------------------------------------------------------------------
(* The terminal, as one writer at a time would leave it. *)

ShowLine(c, text) ==
  [c EXCEPT !.lines = [k \in Rows |-> IF k = 0 THEN text ELSE c.lines[k - 1]]]
ShowChar(c, ch) ==
  IF ch = NL THEN [ShowLine(c, c.cur) EXCEPT !.cur = <<>>]
  ELSE IF Len(c.cur) = MaxLine THEN [ShowLine(c, c.cur) EXCEPT !.cur = <<ch>>]
  ELSE [c EXCEPT !.cur = Append(c.cur, ch)]
\* A prompt that p_cget puts again is there already, without its newline.
Show(ch, from) == con' = IF from = "take" /\ ch # NL THEN con ELSE ShowChar(con, ch)

-----------------------------------------------------------------------------
Init ==
  /\ mutex = "free"
  /\ cputbuf = [k \in 0..MaxLine |-> NUL] /\ cputlen = 0
  /\ cgetbuf = <<>> /\ cgetlen = 0 /\ cgetidx = 0
  /\ inputline = <<>> /\ outputlines = [k \in Rows |-> Blank] /\ running = FALSE
  /\ th = [t \in Threads |-> [at |-> IF t = "ui" THEN "idle" ELSE "none", msg |-> <<>>,
                              from |-> "none", i |-> 0, src |-> <<>>]]
  /\ line = <<>> /\ fault = "none"
  /\ count = [runs |-> 0, puts |-> 0, reads |-> 0, sends |-> 0]
  /\ con = [lines |-> [k \in Rows |-> <<>>], cur |-> <<>>]

At(t, place) == th[t].at = place /\ fault = "none"
Go(t, place) == th' = [th EXCEPT ![t].at = place]
\* The thread gives the characters to p_cput one after the other, then goes on.
Say(t, msg, from) == th' = [th EXCEPT ![t].at = "cput", ![t].msg = msg, ![t].from = from]
Used(what, max) == count[what] < max /\ count' = [count EXCEPT ![what] = @ + 1]

\* Where the thread goes after the character it has put.
AfterChar(t, r) ==
  [r EXCEPT !.msg = Tail(@), !.at = IF Len(r.msg) = 1 THEN r.from ELSE "cput"]

-----------------------------------------------------------------------------
(* p_cput and p_pushoutput, in either thread. *)

\* Mutant: one character too late.
FullLate(len) == len > MaxLine
Full(len) == len >= MaxLine

\* cputlen is read once, for the test, the terminator and the store.
Cput(t) ==
  /\ At(t, "cput")
  /\ th' = [th EXCEPT ![t].i = cputlen,
              ![t].at = IF Head(th[t].msg) = NL \/ Full(cputlen) THEN "terminate" ELSE "store"]
  /\ Show(Head(th[t].msg), th[t].from)
  /\ UNCHANGED <<mutex, cput, cget, inputline, outputlines, running, line, fault, count>>

\* A write to cputbuf[k].
Write(k, ch) ==
  IF k \in 0..MaxLine
  THEN cputbuf' = [cputbuf EXCEPT ![k] = ch] /\ UNCHANGED fault
  ELSE fault' = "overflow" /\ UNCHANGED cputbuf

Terminate(t) ==
  /\ At(t, "terminate")
  /\ Write(th[t].i, NUL)
  /\ Go(t, "reset")
  /\ UNCHANGED <<mutex, cputlen, cget, inputline, outputlines, running, line, count, con>>

Reset(t) ==
  /\ At(t, "reset")
  /\ cputlen' = 0
  /\ th' = [th EXCEPT ![t].at = "shift", ![t].i = NLines - 1, ![t].src = <<>>]
  /\ UNCHANGED <<mutex, cputbuf, cget, inputline, outputlines, running, line, fault, count, con>>

\* Mutant: from the first line on, as a loop of strcpy would.
ShiftForward(t) ==
  /\ At(t, "shift")
  /\ LET k == NLines - th[t].i
     IN /\ outputlines' = [outputlines EXCEPT ![k] = outputlines[k - 1]]
        /\ th' = [th EXCEPT ![t].i = @ - 1, ![t].at = IF th[t].i = 1 THEN "clear" ELSE "shift"]
  /\ UNCHANGED <<mutex, cput, cget, inputline, running, line, fault, count, con>>
\* The memmove of p_pushoutput, line by line from the last.
Shift(t) ==
  /\ At(t, "shift")
  /\ LET k == th[t].i
     IN /\ outputlines' = [outputlines EXCEPT ![k] = outputlines[k - 1]]
        /\ th' = [th EXCEPT ![t].i = k - 1, ![t].at = IF k = 1 THEN "clear" ELSE "shift"]
  /\ UNCHANGED <<mutex, cput, cget, inputline, running, line, fault, count, con>>

Clear(t) ==
  /\ At(t, "clear")
  /\ outputlines' = [outputlines EXCEPT ![0] = Blank]
  /\ th' = [th EXCEPT ![t].at = "copy", ![t].i = 0]
  /\ UNCHANGED <<mutex, cput, cget, inputline, running, line, fault, count, con>>

\* The line is cputbuf, or a constant of the caller's own.
Source(t) == IF th[t].src = <<>> THEN cputbuf ELSE Array(th[t].src)

\* After a newline the character is done; after a full line it is still to be
\* stored, where cputlen says, which the compiler may know to be 0.
Copy(t) ==
  /\ At(t, "copy")
  /\ LET k == th[t].i
     IN IF k < MaxLine /\ Source(t)[k] # NUL
        THEN /\ outputlines' = [outputlines EXCEPT ![0][k] = Source(t)[k]]
             /\ th' = [th EXCEPT ![t].i = k + 1]
        ELSE /\ \E n \in {0, cputlen} :
                  th' = [th EXCEPT ![t] =
                    IF th[t].src # <<>> THEN [@ EXCEPT !.at = th[t].from]
                    ELSE IF Head(th[t].msg) = NL THEN AfterChar(t, @)
                    ELSE [@ EXCEPT !.at = "store", !.i = n]]
             /\ UNCHANGED outputlines
  /\ UNCHANGED <<mutex, cput, cget, inputline, running, line, fault, count, con>>

Store(t) ==
  /\ At(t, "store")
  /\ Write(th[t].i, Head(th[t].msg))
  /\ Go(t, "bump")
  /\ UNCHANGED <<mutex, cputlen, cget, inputline, outputlines, running, line, count, con>>

Bump(t) ==
  /\ At(t, "bump")
  /\ cputlen' = th[t].i + 1
  /\ th' = [th EXCEPT ![t] = AfterChar(t, @)]
  /\ UNCHANGED <<mutex, cputbuf, cget, inputline, outputlines, running, line, fault, count, con>>

Putting(t) ==
  Cput(t) \/ Terminate(t) \/ Reset(t) \/ Shift(t) \/ Clear(t) \/ Copy(t)
    \/ Store(t) \/ Bump(t)

-----------------------------------------------------------------------------
(* p_cget, called by ls_syscreadln in the thread of the program. *)

\* Mutant: the return with LS_CIGNORE keeps the mutex.
ReleaseUnlessIgnored ==
  mutex' = IF th["exe"].at = "give" /\ th["exe"].msg = <<>> THEN mutex ELSE "free"
Release == mutex' = "free"

Lock ==
  /\ At("exe", "read") /\ mutex = "free"
  /\ mutex' = "exe"
  /\ Go("exe", "peek")
  /\ UNCHANGED <<cput, cget, inputline, outputlines, running, line, fault, count, con>>

\* Is a prompt pending?
Peek ==
  /\ At("exe", "peek")
  /\ th' = [th EXCEPT !["exe"].i = cputlen, !["exe"].at = IF cputlen # 0 THEN "fterm" ELSE "take"]
  /\ UNCHANGED <<mutex, cput, cget, inputline, outputlines, running, line, fault, count, con>>

FlushTerminate ==
  /\ At("exe", "fterm")
  /\ Write(th["exe"].i, NUL)
  /\ Go("exe", "fzero")
  /\ UNCHANGED <<mutex, cputlen, cget, inputline, outputlines, running, line, count, con>>

FlushReset ==
  /\ At("exe", "fzero")
  /\ cputlen' = 0
  /\ Go("exe", "fread")
  /\ UNCHANGED <<mutex, cputbuf, cget, inputline, outputlines, running, line, fault, count, con>>

\* The pending characters are put again, now with a newline.
FlushAgain ==
  /\ At("exe", "fread")
  /\ Say("exe", Append(Text(cputbuf), NL), "take")
  /\ UNCHANGED <<mutex, cput, cget, inputline, outputlines, running, line, fault, count, con>>

AtEnd == cgetidx >= cgetlen

\* Mutant: the end of a line empties the buffer without giving the newline.
EndOfLineIgnored == <<>>
EndOfLine == <<NL>>

\* cgetbuf[k]; the rest of the buffer, copied with the line, is zero.
InputAt(k) == IF k < Len(cgetbuf) THEN cgetbuf[k + 1] ELSE NUL

\* Mutant: p_cget waits for input instead of returning.
NoInputWait == "take"
NoInput == "give"

\* What p_cget gives: nothing (LS_CIGNORE), a newline, or the next character.
Take ==
  /\ At("exe", "take")
  /\ LET give(msg) == th' = [th EXCEPT !["exe"].at = "give", !["exe"].msg = msg]
     IN \/ /\ cgetlen = 0
           /\ th' = [th EXCEPT !["exe"].at = NoInput, !["exe"].msg = <<>>]
           /\ UNCHANGED cget
        \/ /\ cgetlen # 0 /\ AtEnd
           /\ cgetidx' = 0 /\ cgetlen' = 0 /\ UNCHANGED cgetbuf
           /\ give(EndOfLine)
        \/ /\ cgetlen # 0 /\ ~AtEnd
           /\ cgetidx' = cgetidx + 1 /\ UNCHANGED <<cgetbuf, cgetlen>>
           /\ give(<<InputAt(cgetidx)>>)
  /\ UNCHANGED <<mutex, cput, inputline, outputlines, running, line, fault, count, con>>

\* p_cget returns; ls_syscreadln asks again until it has a newline.
Give ==
  /\ At("exe", "give")
  /\ Release
  /\ LET msg == th["exe"].msg
     IN /\ line' = IF msg = <<NL>> THEN <<>> ELSE line \o msg
        /\ th' = [th EXCEPT !["exe"].msg = <<>>,
                            !["exe"].at = IF msg = <<NL>> THEN "run" ELSE "read"]
  /\ UNCHANGED <<cput, cget, inputline, outputlines, running, fault, count, con>>

-----------------------------------------------------------------------------
(* The program: p_execmodule and the console operations of what it executes. *)

PrintChar ==
  /\ At("exe", "run") /\ Used("puts", MaxPuts)
  /\ \E c \in ProgChars \union {NL} : Say("exe", <<c>>, "run")
  /\ UNCHANGED <<mutex, cput, cget, inputline, outputlines, running, line, fault, con>>

Readln ==
  /\ At("exe", "run") /\ Used("reads", MaxReads)
  /\ Go("exe", "read")
  /\ UNCHANGED <<mutex, cput, cget, inputline, outputlines, running, line, fault, con>>

\* A direct p_pushoutput of a constant line.
Push(t, text, from) ==
  /\ th' = [th EXCEPT ![t].at = "shift", ![t].i = NLines - 1, ![t].src = text, ![t].from = from]
  /\ con' = ShowLine(con, text)

\* ls_exec returns: a message either way.
Finish ==
  /\ At("exe", "run")
  /\ \/ Push("exe", <<"done">>, "stop")
     \/ Say("exe", <<"error", NL>>, "stop") /\ UNCHANGED con
  /\ UNCHANGED <<mutex, cput, cget, inputline, outputlines, running, line, fault, count>>

Stop ==
  /\ At("exe", "stop")
  /\ running' = FALSE
  /\ Go("exe", "none")
  /\ UNCHANGED <<mutex, cput, cget, inputline, outputlines, line, fault, count, con>>

Exe ==
  \/ Putting("exe")
  \/ Lock \/ Peek \/ FlushTerminate \/ FlushReset \/ FlushAgain \/ Take \/ Give
  \/ PrintChar \/ Readln \/ Finish \/ Stop

-----------------------------------------------------------------------------
(* The user interface: the buttons of p_run. *)

\* p_clearoutput.  What p_cput has pending stays.
ClearOutput ==
  /\ outputlines' = [k \in Rows |-> Blank]
  /\ con' = [con EXCEPT !.lines = [k \in Rows |-> <<>>]]

\* Execute, Lex, Parse, Import and Sema are active while nothing runs.
ClickTool ==
  /\ At("ui", "idle") /\ ~running /\ Used("runs", MaxRuns)
  /\ ClearOutput
  /\ \E button \in {"execute", "inspect"} : Go("ui", button)
  /\ UNCHANGED <<mutex, cput, cget, inputline, running, line, fault>>

\* p_lex, p_parse, p_import, p_sema print, or push a constant line.
Inspect ==
  /\ At("ui", "inspect")
  /\ \/ Push("ui", <<"done">>, "idle")
     \/ Say("ui", <<"error", NL>>, "idle") /\ UNCHANGED con
  /\ UNCHANGED <<mutex, cput, cget, inputline, outputlines, running, line, fault, count>>

\* p_exec up to pthread_create: a stage fails, or the program may run.
Execute ==
  /\ At("ui", "execute")
  /\ \/ Say("ui", <<"error", NL>>, "idle") /\ UNCHANGED running
     \/ running' = TRUE /\ Go("ui", "create")
  /\ UNCHANGED <<mutex, cput, cget, inputline, outputlines, line, fault, count, con>>

\* pthread_create; when it fails, running stays TRUE.
Create ==
  /\ At("ui", "create")
  /\ \/ th' = [th EXCEPT !["ui"].at = "idle", !["exe"].at = "run"]
     \/ Say("ui", <<"error", NL>>, "idle")
  /\ UNCHANGED <<mutex, cput, cget, inputline, outputlines, running, line, fault, count, con>>

\* Send input is active while a program runs; what the user has typed is any line.
ClickSend ==
  /\ At("ui", "idle") /\ running /\ Used("sends", MaxSends)
  /\ Patient => At("exe", "read") /\ cgetlen = 0
  /\ inputline' \in InputLines
  /\ Go("ui", "lock")
  /\ UNCHANGED <<mutex, cput, cget, outputlines, running, line, fault, con>>

SendLock ==
  /\ At("ui", "lock") /\ mutex = "free"
  /\ mutex' = "ui"
  /\ Go("ui", "buf")
  /\ UNCHANGED <<cput, cget, inputline, outputlines, running, line, fault, count, con>>

SendBuf ==
  /\ At("ui", "buf")
  /\ cgetbuf' = inputline
  /\ Go("ui", "len")
  /\ UNCHANGED <<mutex, cput, cgetlen, cgetidx, inputline, outputlines, running, line, fault, count, con>>

SendLen ==
  /\ At("ui", "len")
  /\ cgetlen' = Len(inputline)
  /\ Go("ui", "idx")
  /\ UNCHANGED <<mutex, cput, cgetbuf, cgetidx, inputline, outputlines, running, line, fault, count, con>>

\* Mutant: the reading goes on where it was in the line before.
SentIdxKept == cgetidx
SentIdx == 0

\* The echo of the line, through the program's own cputbuf.
SendIdx ==
  /\ At("ui", "idx")
  /\ cgetidx' = SentIdx
  /\ Say("ui", Append(inputline, NL), "sent")
  /\ UNCHANGED <<mutex, cput, cgetbuf, cgetlen, inputline, outputlines, running, line, fault, count, con>>

SendDone ==
  /\ At("ui", "sent")
  /\ inputline' = <<>>
  /\ Release
  /\ Go("ui", "idle")
  /\ UNCHANGED <<cput, cget, outputlines, running, line, fault, count, con>>

\* What the thread does once a button is clicked.
Ui ==
  \/ Putting("ui")
  \/ Inspect \/ Execute \/ Create
  \/ SendLock \/ SendBuf \/ SendLen \/ SendIdx \/ SendDone

\* Nothing runs, or the program has written where C leaves the rest undefined.
Rest ==
  /\ fault # "none" \/ (At("ui", "idle") /\ At("exe", "none"))
  /\ UNCHANGED vars

-----------------------------------------------------------------------------
Next == Exe \/ Ui \/ ClickTool \/ ClickSend \/ Rest
Spec == Init /\ [][Next]_vars

\* Both threads are scheduled; the user need not click.
FairSpec == Spec /\ WF_vars(Exe) /\ WF_vars(Ui)

-----------------------------------------------------------------------------
PutPlaces == {"cput", "terminate", "reset", "shift", "clear", "copy", "store", "bump"}
FlushPlaces == {"fterm", "fzero", "fread"}
Places == PutPlaces \union FlushPlaces \union
          {"none", "run", "read", "peek", "take", "give", "stop", "idle", "inspect",
           "execute", "create", "lock", "buf", "len", "idx", "sent"}
LineLengths == {Len(l) : l \in InputLines}

\* The types of the variables.  cputlen may be one more than the last index of
\* cputbuf allows, after which the next write is the fault; the index into cgetbuf
\* never passes the end of the longest line.
TypeOK ==
  /\ mutex \in Threads \union {"free"}
  /\ cputbuf \in [0..MaxLine -> Chars] /\ cputlen \in 0..(MaxLine + 1)
  /\ cgetbuf \in InputLines \union {<<>>} /\ inputline \in InputLines \union {<<>>}
  /\ cgetlen \in LineLengths \union {0}
  /\ \E l \in LineLengths \union {0} : cgetidx \in 0..l
  /\ outputlines \in [Rows -> [0..(MaxLine - 1) -> Chars]]
  /\ running \in BOOLEAN
  /\ DOMAIN th = Threads
  /\ \A t \in Threads : /\ th[t].at \in Places /\ th[t].from \in Places
                        /\ th[t].i \in 0..(MaxLine + NLines)
                        /\ th[t].msg \in Seq(Chars)
  /\ line \in Seq(Chars)
  /\ fault \in {"none", "overflow"}

\* Whether the thread is between p_cget's, or Send's, lock and unlock.
Critical(t) ==
  \/ th[t].at \in {"peek", "take", "give", "buf", "len", "idx", "sent"} \union FlushPlaces
  \/ th[t].at \in PutPlaces /\ th[t].from \in {"take", "sent"}

\* The mutex is held by the thread that is between lock and unlock, and by no
\* other: each of the three returns of p_cget gives it back, so does Send input,
\* and what they print meanwhile, line by line, does not.
MutexHeld == \A t \in Threads : mutex = t <=> Critical(t)

\* No write of p_cput or p_cget is outside of cputbuf, whatever mix of full lines,
\* flushed prompts and echoed lines goes through it.
NoOverflow == fault = "none"

Quiet == \A t \in Threads : th[t].at \notin PutPlaces \union FlushPlaces

\* When nothing is being put, the terminal shows the newest lines in full and in
\* order, wherever they came from (the program, the echo of a line, a message of
\* the panel, a prompt flushed by p_cget), and cputbuf holds the unfinished line.
OutputComplete ==
  Quiet /\ fault = "none" =>
    /\ \A k \in Rows : Text(outputlines[k]) = con.lines[k]
    /\ cputlen = Len(con.cur) /\ \A k \in 1..cputlen : cputbuf[k - 1] = con.cur[k]

\* How often a character is on the terminal, and how often it should be.
Shown(c) == Cardinality({p \in Rows \X (0..(MaxLine - 1)) : outputlines[p[1]][p[2]] = c})
Printed(c) ==
  Cardinality({p \in Rows \X (1..MaxLine) :
                 p[2] \in DOMAIN con.lines[p[1]] /\ con.lines[p[1]][p[2]] = c})
    + Cardinality({k \in DOMAIN con.cur : con.cur[k] = c})

\* When a program waits for a line and nothing is pending, all it has printed, its
\* prompt at the end, is on the terminal (p_panel.c:300, "otherwise prompts won't
\* be visible").
PromptVisible ==
  Quiet /\ At("exe", "read") /\ cputlen = 0 => \A c \in ProgChars : Shown(c) >= Printed(c)

-----------------------------------------------------------------------------
(* The panel implements the mailbox. *)

\* What the program will be given: the new line from the moment it is copied.
Pending ==
  IF th["ui"].at \in {"len", "idx"}
  THEN IF inputline = <<>> THEN <<>> ELSE Append(inputline, NL)
  ELSE IF cgetlen = 0 THEN <<>>
  ELSE Append(SubSeq(cgetbuf, cgetidx + 1, cgetlen), NL)
\* What the program has of its line, the character p_cget is about to return included.
Taken ==
  LET msg == IF th["exe"].at = "give" THEN th["exe"].msg ELSE <<>>
  IN IF msg = <<NL>> THEN <<>> ELSE line \o msg

Mailbox == INSTANCE SatsuMailbox WITH box <- Pending, taken <- Taken

\* Each character of a sent line is read once and in order, and its newline after
\* them, also when lines are sent one upon the other, between any two steps of
\* p_cget: the mutex makes the copy of the line, its length and the index one step.
MailboxSpec == Mailbox!Spec

-----------------------------------------------------------------------------
(* Liveness, when both threads are scheduled. *)

\* Neither thread keeps the mutex: p_cput, which both call while they hold it,
\* never waits for it.
MutexFreed == mutex # "free" ~> mutex = "free"

\* Whether ls_syscreadln runs.
Reading ==
  \/ th["exe"].at \in {"read", "peek", "take", "give"} \union FlushPlaces
  \/ th["exe"].at \in PutPlaces /\ th["exe"].from = "take"

\* A line the program waits for and the user has sent arrives: ls_syscreadln returns.
\* Not so the empty line, whose length p_cget takes for no input.
LineArrives == cgetlen > 0 /\ Reading ~> ~Reading
=============================================================================

-------------------------- MODULE SatsuPanelProofs --------------------------
(***************************************************************************)
(* Proofs about SatsuPanel, for every size of the buffers, every set of    *)
(* lines and every number of runs, prints, reads and sends: the mutex has  *)
(* one holder, the panel is a mailbox of one line, every value has its     *)
(* type, and, while the user is patient, the terminal shows what was       *)
(* written and no write leaves its buffer.                                 *)
(***************************************************************************)
EXTENDS SatsuPanel, SequenceTheorems, WellFoundedInduction, TLAPS

ExePlaces ==
  PutPlaces \union FlushPlaces \union {"none", "run", "read", "peek", "take", "give", "stop"}
UiPlaces ==
  PutPlaces \union
    {"idle", "inspect", "execute", "create", "lock", "buf", "len", "idx", "sent"}

\* Each thread is at a place of its own code, and goes on, when it has put its
\* characters, where the caller of p_cput does.
Placed ==
  /\ DOMAIN th = Threads
  /\ \A t \in Threads : DOMAIN th[t] = {"at", "msg", "from", "i", "src"}
  /\ th["exe"].at \in ExePlaces /\ th["ui"].at \in UiPlaces
  /\ th["exe"].at \in PutPlaces => th["exe"].from \in {"run", "stop", "take"}
  /\ th["ui"].at \in PutPlaces => th["ui"].from \in {"idle", "sent"}

\* One program at a time: while the panel does not say that one runs, and while it
\* starts one, there is no thread of a program.
OneProgram ==
  /\ th["ui"].at = "create" => running = TRUE
  /\ running = FALSE \/ th["ui"].at \in {"inspect", "execute", "create"}
       => th["exe"].at = "none"

IInv == Placed /\ OneProgram /\ MutexHeld

\* How one thread moves, its caller of p_cput included.
Moves(t) ==
  /\ DOMAIN th' = Threads
  /\ \A u \in Threads : DOMAIN th'[u] = {"at", "msg", "from", "i", "src"}
  /\ \A u \in Threads \ {t} : th'[u] = th[u]

\* A thread that stays in p_cput, or returns from it, keeps what it holds.
LEMMA PutKeeps ==
  ASSUME IInv, NEW t \in Threads, Moves(t), th[t].at \in PutPlaces, mutex' = mutex,
         running' = running, th'[t].from = th[t].from,
         th'[t].at \in PutPlaces \union {th[t].from}
  PROVE  IInv'
<1>1. CASE t = "exe"
  BY <1>1 DEF IInv, Placed, OneProgram, MutexHeld, Critical, Moves, Threads, PutPlaces, FlushPlaces,
              ExePlaces, UiPlaces
<1>2. CASE t = "ui"
  BY <1>2 DEF IInv, Placed, OneProgram, MutexHeld, Critical, Moves, Threads, PutPlaces, FlushPlaces,
              ExePlaces, UiPlaces
<1>3. QED BY <1>1, <1>2 DEF Threads

\* What a step of p_cput or p_pushoutput leaves alone.
Aside(t) ==
  /\ mutex' = mutex /\ running' = running /\ Moves(t)
  /\ th'[t].from = th[t].from /\ th'[t].at \in PutPlaces \union {th[t].from}
  /\ UNCHANGED <<cgetbuf, cgetlen, cgetidx, inputline, line>>

LEMMA PuttingAside ==
  ASSUME IInv, NEW t \in Threads, Putting(t)
  PROVE  th[t].at \in PutPlaces /\ Aside(t)
<1>1. /\ DOMAIN th = Threads
      /\ \A u \in Threads : DOMAIN th[u] = {"at", "msg", "from", "i", "src"}
  BY DEF IInv, Placed
<1> USE DEF Aside, Moves, PutPlaces, Threads, cget
<1>3. CASE Cput(t) BY <1>1, <1>3 DEF Cput, At
<1>4. CASE Terminate(t) BY <1>1, <1>4 DEF Terminate, At, Go
<1>5. CASE Reset(t) BY <1>1, <1>5 DEF Reset, At
<1>6. CASE Shift(t) BY <1>1, <1>6 DEF Shift, At
<1>7. CASE Clear(t) BY <1>1, <1>7 DEF Clear, At
<1>8. CASE Copy(t)
  <2>1. /\ th[t].at = "copy" /\ mutex' = mutex /\ running' = running
        /\ UNCHANGED <<cgetbuf, cgetlen, cgetidx, inputline, line>>
    BY <1>8 DEF Copy, At
  <2>2. CASE th' = [th EXCEPT ![t].i = th[t].i + 1]
    BY <1>1, <2>1, <2>2
  <2>3. CASE \E n \in {0, cputlen} :
               th' = [th EXCEPT ![t] =
                  IF th[t].src # <<>> THEN [@ EXCEPT !.at = th[t].from]
                  ELSE IF Head(th[t].msg) = NL THEN AfterChar(t, @)
                  ELSE [@ EXCEPT !.at = "store", !.i = n]]
    <3>1. PICK n \in {0, cputlen} :
             th' = [th EXCEPT ![t] =
                  IF th[t].src # <<>> THEN [@ EXCEPT !.at = th[t].from]
                  ELSE IF Head(th[t].msg) = NL THEN AfterChar(t, @)
                  ELSE [@ EXCEPT !.at = "store", !.i = n]]
      BY <2>3
    <3>2. CASE th[t].src # <<>>
      BY <1>1, <2>1, <3>1, <3>2
    <3>3. CASE th[t].src = <<>> /\ Head(th[t].msg) = NL
      BY <1>1, <2>1, <3>1, <3>3 DEF AfterChar
    <3>4. CASE th[t].src = <<>> /\ Head(th[t].msg) # NL
      BY <1>1, <2>1, <3>1, <3>4
    <3>5. QED BY <3>2, <3>3, <3>4
  <2>4. QED BY <1>8, <2>2, <2>3 DEF Copy
<1>9. CASE Store(t) BY <1>1, <1>9 DEF Store, At, Go
<1>10. CASE Bump(t) BY <1>1, <1>10 DEF Bump, At, AfterChar
<1>11. QED
  BY <1>3, <1>4, <1>5, <1>6, <1>7, <1>8, <1>9, <1>10 DEF Putting

\* The steps of p_cput and p_pushoutput, in either thread.
LEMMA PuttingKeeps ==
  ASSUME IInv, NEW t \in Threads, Putting(t)
  PROVE  IInv'
BY PuttingAside, PutKeeps DEF Aside

\* The other steps of the program's thread: p_cget takes the mutex, moves inside of
\* it or gives it back; outside of p_cget the thread does not touch it.
LEMMA ExeKeeps ==
  ASSUME IInv, Exe
  PROVE  IInv'
<1> USE DEF IInv, Placed, OneProgram, MutexHeld, Critical, Threads, PutPlaces, FlushPlaces,
            ExePlaces, UiPlaces, At
<1>1. CASE Putting("exe") BY <1>1, PuttingKeeps
<1>2. CASE Lock BY <1>2 DEF Lock, Go
<1>3. CASE Peek BY <1>3 DEF Peek
<1>4. CASE FlushTerminate BY <1>4 DEF FlushTerminate, Go
<1>5. CASE FlushReset BY <1>5 DEF FlushReset, Go
<1>6. CASE FlushAgain BY <1>6 DEF FlushAgain, Say
<1>7. CASE Take BY <1>7 DEF Take, NoInput
<1>8. CASE Give BY <1>8 DEF Give, Release
<1>9. CASE PrintChar BY <1>9 DEF PrintChar, Say
<1>10. CASE Readln BY <1>10 DEF Readln, Go
<1>11. CASE Finish BY <1>11 DEF Finish, Push, Say
<1>12. CASE Stop BY <1>12 DEF Stop, Go
<1>13. QED
  BY <1>1, <1>2, <1>3, <1>4, <1>5, <1>6, <1>7, <1>8, <1>9, <1>10, <1>11, <1>12 DEF Exe

\* The steps of the user interface: Send input alone takes the mutex.
LEMMA UiKeeps ==
  ASSUME IInv, Ui \/ ClickTool \/ ClickSend
  PROVE  IInv'
<1> USE DEF IInv, Placed, OneProgram, MutexHeld, Critical, Threads, PutPlaces, FlushPlaces,
            ExePlaces, UiPlaces, At
<1>1. CASE Putting("ui") BY <1>1, PuttingKeeps
<1>2. CASE Inspect BY <1>2 DEF Inspect, Push, Say
<1>3. CASE Execute BY <1>3 DEF Execute, Say, Go
<1>4. CASE Create BY <1>4 DEF Create, Say
<1>5. CASE SendLock BY <1>5 DEF SendLock, Go
<1>6. CASE SendBuf BY <1>6 DEF SendBuf, Go
<1>7. CASE SendLen BY <1>7 DEF SendLen, Go
<1>8. CASE SendIdx BY <1>8 DEF SendIdx, Say
<1>9. CASE SendDone BY <1>9 DEF SendDone, Release, Go
<1>10. CASE ClickTool BY <1>10 DEF ClickTool, Go
<1>11. CASE ClickSend BY <1>11 DEF ClickSend, Go
<1>12. QED
  BY <1>1, <1>2, <1>3, <1>4, <1>5, <1>6, <1>7, <1>8, <1>9, <1>10, <1>11 DEF Ui

\* The invariant is inductive.
LEMMA InitIInv == ASSUME Init PROVE IInv
BY DEF Init, IInv, Placed, OneProgram, MutexHeld, Critical, Threads, PutPlaces, FlushPlaces,
       ExePlaces, UiPlaces

LEMMA NextIInv == ASSUME IInv, [Next]_vars PROVE IInv'
<1>1. CASE Exe BY <1>1, ExeKeeps
<1>2. CASE Ui \/ ClickTool \/ ClickSend BY <1>2, UiKeeps
<1>3. CASE Rest \/ UNCHANGED vars
  BY <1>3 DEF Rest, vars, IInv, Placed, OneProgram, MutexHeld, Critical
<1>4. QED BY <1>1, <1>2, <1>3 DEF Next

\* Whoever is between lock and unlock holds the mutex, so the two are never both
\* there: the copy of a line and the reading of a character exclude each other.
THEOREM MutexRight == Spec => []MutexHeld
<1>1. Init => IInv
  BY InitIInv
<1>2. IInv /\ [Next]_vars => IInv'
  BY NextIInv
<1>3. IInv => MutexHeld
  BY DEF IInv
<1>4. QED BY <1>1, <1>2, <1>3, PTL DEF Spec

-----------------------------------------------------------------------------
(* The refinement of the mailbox. *)

Characters == STRING \ {NL, NUL}
Readable == Characters \union {NL}

\* What the copy of a line, its length and the index have to do with each other:
\* outside of Send input they describe one line and a place in it, or nothing.
InputOK ==
  /\ cgetbuf \in Seq(Characters) /\ line \in Seq(Readable)
  /\ th["ui"].at \in {"lock", "buf", "len", "idx"} => inputline \in InputLines
  /\ th["ui"].at \in {"len", "idx"} => cgetbuf = inputline
  /\ th["ui"].at = "idx" => cgetlen = Len(inputline)
  /\ th["ui"].at \notin {"len", "idx"} =>
       cgetlen \in {0, Len(cgetbuf)} /\ cgetidx \in 0..cgetlen
  /\ th["exe"].at = "give" =>
       th["exe"].msg = <<>> \/ \E c \in Readable : th["exe"].msg = <<c>>

\* What is left of a line, character by character.
LEMMA RestOfLine ==
  ASSUME NEW S, NEW s \in Seq(S), NEW k \in 0..Len(s), NEW e
  PROVE  LET rest(j) == Append(SubSeq(s, j + 1, Len(s)), e)
         IN /\ rest(k) # <<>>
            /\ k = Len(s) => Head(rest(k)) = e /\ Tail(rest(k)) = <<>>
            /\ k < Len(s) => Head(rest(k)) = s[k + 1] /\ Tail(rest(k)) = rest(k + 1)
<1> DEFINE part(j) == SubSeq(s, j + 1, Len(s))
<1>1. Len(s) \in Nat /\ k \in Nat
  BY LenProperties
<1>2. part(k) \in Seq(S) /\ Len(part(k)) = Len(s) - k
  BY <1>1, SubSeqProperties, ElementOfSeq
<1>3. Append(part(k), e) # <<>>
  BY <1>2
<1>4. ASSUME k = Len(s)
      PROVE  Head(Append(part(k), e)) = e /\ Tail(Append(part(k), e)) = <<>>
  <2>1. part(k) = <<>>
    BY <1>1, <1>4, SubSeqEmpty
  <2>2. QED BY <2>1, <1>2, HeadTailAppend
<1>5. ASSUME k < Len(s)
      PROVE  /\ Head(Append(part(k), e)) = s[k + 1]
             /\ Tail(Append(part(k), e)) = Append(part(k + 1), e)
  <2>1. k + 1 \in 1..Len(s) /\ Len(s) \in (k + 1)..Len(s)
    BY <1>1, <1>5
  <2>2. Head(part(k)) = s[k + 1] /\ Tail(part(k)) = part(k + 1)
    BY <2>1, HeadTailOfSubSeq
  <2>3. part(k) # <<>>
    <3>1. Len(part(k)) # 0
      BY <1>1, <1>2, <1>5
    <3>2. QED BY <3>1, EmptySeq
  <2>4. QED BY <1>2, <2>2, <2>3, HeadTailAppend
<1>6. QED BY <1>3, <1>4, <1>5

\* A step that neither sends nor reads leaves the box and the line taken as they are.
LEMMA AsideKeeps ==
  ASSUME IInv, InputOK, UNCHANGED <<cgetbuf, cgetlen, cgetidx, line>>,
         \/ UNCHANGED inputline
         \/ {th["ui"].at, th'["ui"].at} \cap {"buf", "len", "idx"} = {},
         \/ th'["ui"].at = th["ui"].at
         \/ {th["ui"].at, th'["ui"].at} \cap {"len", "idx"} = {},
         th'["ui"].at \in {"lock", "buf"} => inputline' \in InputLines,
         \/ th'["exe"] = th["exe"]
         \/ th["exe"].at # "give" /\ th'["exe"].at # "give"
  PROVE  InputOK' /\ UNCHANGED <<Pending, Taken>>
<1>1. InputOK'
  BY DEF InputOK
<1>2. Pending' = Pending
  BY DEF InputOK, Pending
<1>3. Taken' = Taken
  BY DEF Taken
<1>4. QED BY <1>1, <1>2, <1>3

\* A step of the mailbox, seen from the panel, or none.
Maps == [Mailbox!Send \/ Mailbox!Take]_<<Pending, Taken>>

LEMMA PuttingMaps ==
  ASSUME IInv, InputOK, NEW t \in Threads, Putting(t)
  PROVE  InputOK' /\ Maps
<1>1. th[t].at \in PutPlaces /\ Aside(t)
  BY PuttingAside
<1>2. InputOK' /\ UNCHANGED <<Pending, Taken>>
  <2>1. CASE t = "exe"
    <3>1. th'["ui"] = th["ui"]
      BY <1>1, <2>1 DEF Aside, Moves, Threads
    <3>2. th["exe"].at # "give" /\ th'["exe"].at # "give"
      BY <1>1, <2>1 DEF Aside, PutPlaces, IInv, Placed
    <3>3. th["ui"].at \in {"lock", "buf"} => inputline' \in InputLines
      BY <1>1 DEF Aside, InputOK
    <3>4. QED BY <1>1, <3>1, <3>2, <3>3, AsideKeeps DEF Aside
  <2>2. CASE t = "ui"
    <3>1. th'["exe"] = th["exe"]
      BY <1>1, <2>2 DEF Aside, Moves, Threads
    <3>2. {th["ui"].at, th'["ui"].at} \cap {"lock", "buf", "len", "idx"} = {}
      BY <1>1, <2>2 DEF Aside, PutPlaces, IInv, Placed
    <3>3. QED BY <1>1, <3>1, <3>2, AsideKeeps DEF Aside
  <2>3. QED BY <2>1, <2>2 DEF Threads
<1>3. QED BY <1>2 DEF Maps

\* p_cget gives a character: the program takes it out of the box.
LEMMA TakeMaps ==
  ASSUME IInv, InputOK, Take
  PROVE  InputOK' /\ Maps
<1> DEFINE rest(k) == Append(SubSeq(cgetbuf, k + 1, Len(cgetbuf)), NL)
<1>1. /\ th["exe"].at = "take" /\ DOMAIN th = Threads
      /\ DOMAIN th["exe"] = {"at", "msg", "from", "i", "src"}
  BY DEF Take, At, IInv, Placed, Threads
<1>2. th["ui"].at \notin {"buf", "len", "idx"}
  BY <1>1 DEF IInv, MutexHeld, Critical, Threads
<1>3. /\ cgetlen \in {0, Len(cgetbuf)} /\ cgetidx \in 0..cgetlen
      /\ cgetbuf \in Seq(Characters) /\ line \in Seq(Readable) /\ Len(cgetbuf) \in Nat
  BY <1>2, LenProperties DEF InputOK
<1>4. /\ th'["exe"].at = "give" /\ th'["ui"] = th["ui"]
      /\ UNCHANGED <<cgetbuf, inputline, line>>
  BY <1>1 DEF Take, Threads, NoInput, cget
<1>5. /\ Pending = IF cgetlen = 0 THEN <<>> ELSE rest(cgetidx)
      /\ Taken = line
  BY <1>1, <1>2, <1>3, ConcatEmptySeq DEF Pending, Taken
<1>6. Pending' = IF cgetlen' = 0 THEN <<>>
                 ELSE Append(SubSeq(cgetbuf, cgetidx' + 1, cgetlen'), NL)
  BY <1>2, <1>4 DEF Pending
<1>7. CASE cgetlen = 0
  <2>1. th'["exe"].msg = <<>> /\ UNCHANGED <<cgetlen, cgetidx>>
    BY <1>1, <1>7 DEF Take, Threads, cget
  <2>2. UNCHANGED <<Pending, Taken>>
    BY <1>3, <1>4, <1>5, <1>6, <1>7, <2>1, ConcatEmptySeq DEF Taken
  <2>3. InputOK'
    BY <1>3, <1>4, <2>1 DEF InputOK
  <2>4. QED BY <2>2, <2>3 DEF Maps
<1>8. CASE cgetlen # 0 /\ cgetidx >= cgetlen
  <2>1. th'["exe"].msg = <<NL>> /\ cgetlen' = 0 /\ cgetidx' = 0
    BY <1>1, <1>8 DEF Take, Threads, AtEnd, EndOfLine
  <2>2. cgetlen = Len(cgetbuf) /\ cgetidx = Len(cgetbuf) /\ cgetidx \in 0..Len(cgetbuf)
    <3>1. cgetlen = Len(cgetbuf) /\ cgetidx \in 0..Len(cgetbuf)
      BY <1>3, <1>8
    <3>2. QED BY <1>3, <1>8, <3>1
  <2>3. Pending # <<>> /\ Head(Pending) = NL /\ Tail(Pending) = <<>>
    BY <1>3, <1>5, <1>8, <2>2, RestOfLine
  <2>4. Pending' = <<>> /\ Taken' = <<>>
    BY <1>4, <1>6, <2>1 DEF Taken
  <2>5. InputOK'
    <3>1. \E c \in Readable : th'["exe"].msg = <<c>>
      BY <2>1 DEF Readable
    <3>2. QED BY <1>2, <1>3, <1>4, <2>1, <3>1 DEF InputOK
  <2>6. QED BY <2>3, <2>4, <2>5 DEF Maps, Mailbox!Take
<1>9. CASE cgetlen # 0 /\ cgetidx < cgetlen
  <2>1. /\ cgetlen = Len(cgetbuf) /\ cgetidx \in 0..Len(cgetbuf) /\ cgetidx < Len(cgetbuf)
        /\ cgetidx \in Nat /\ ~AtEnd
    BY <1>3, <1>9 DEF AtEnd
  <2>2. /\ th'["exe"].msg = <<cgetbuf[cgetidx + 1]>>
        /\ cgetlen' = cgetlen /\ cgetidx' = cgetidx + 1
    BY <1>1, <1>9, <2>1 DEF Take, Threads, InputAt
  <2>3. cgetbuf[cgetidx + 1] \in Readable /\ cgetbuf[cgetidx + 1] # NL
    BY <1>3, <2>1, ElementOfSeq DEF Characters, Readable
  <2>4. /\ Pending # <<>> /\ Head(Pending) = cgetbuf[cgetidx + 1]
        /\ Tail(Pending) = rest(cgetidx + 1)
    BY <1>3, <1>5, <1>9, <2>1, RestOfLine
  <2>5. Pending' = rest(cgetidx + 1)
    BY <1>6, <1>9, <2>1, <2>2
  <2>6. Taken' = Append(line, cgetbuf[cgetidx + 1])
    <3>1. <<cgetbuf[cgetidx + 1]>> # <<NL>>
      BY <2>3
    <3>2. QED BY <1>3, <1>4, <2>2, <2>3, <3>1, AppendIsConcat DEF Taken
  <2>7. InputOK'
    <3>1. cgetidx' \in 0..cgetlen' /\ cgetlen' \in {0, Len(cgetbuf')}
      BY <1>3, <1>4, <2>1, <2>2
    <3>2. QED BY <1>2, <1>3, <1>4, <2>2, <2>3, <3>1 DEF InputOK
  <2>8. QED BY <1>5, <2>3, <2>4, <2>5, <2>6, <2>7 DEF Maps, Mailbox!Take
<1>10. QED BY <1>3, <1>7, <1>8, <1>9

\* p_cget returns: what it gives is already taken.
LEMMA GiveMaps ==
  ASSUME IInv, InputOK, Give
  PROVE  InputOK' /\ Maps
<1>1. /\ th["exe"].at = "give" /\ DOMAIN th = Threads
      /\ DOMAIN th["exe"] = {"at", "msg", "from", "i", "src"}
  BY DEF Give, At, IInv, Placed, Threads
<1>2. /\ th'["exe"].at # "give" /\ th'["ui"] = th["ui"]
      /\ line' = Taken
      /\ UNCHANGED <<cgetbuf, cgetlen, cgetidx, inputline>>
  BY <1>1 DEF Give, Threads, Taken, cget
<1>3. line \in Seq(Readable) /\ line' \in Seq(Readable)
  <2>1. line \in Seq(Readable)
    BY DEF InputOK
  <2>2. CASE th["exe"].msg = <<>> \/ th["exe"].msg = <<NL>>
    BY <1>1, <1>2, <2>1, <2>2, ConcatEmptySeq, EmptySeq DEF Taken
  <2>3. CASE \E c \in Readable : th["exe"].msg = <<c>>
    <3>1. PICK c \in Readable : th["exe"].msg = <<c>>
      BY <2>3
    <3>2. <<c>> \in Seq(Readable)
      BY <3>1
    <3>3. line \o <<c>> \in Seq(Readable)
      BY <2>1, <3>2, ConcatProperties
    <3>4. QED BY <1>1, <1>2, <2>1, <3>1, <3>3, EmptySeq DEF Taken
  <2>4. QED BY <1>1, <2>2, <2>3 DEF InputOK
<1>4. Taken' = Taken
  BY <1>2, <1>3, ConcatEmptySeq, EmptySeq DEF Taken
<1>5. Pending' = Pending
  BY <1>2 DEF Pending
<1>6. InputOK'
  BY <1>2, <1>3 DEF InputOK
<1>7. QED BY <1>4, <1>5, <1>6 DEF Maps

\* The steps of the program's thread.
LEMMA ExeMaps ==
  ASSUME IInv, InputOK, Exe
  PROVE  InputOK' /\ Maps
<1>1. /\ DOMAIN th = Threads /\ DOMAIN th["exe"] = {"at", "msg", "from", "i", "src"}
  BY DEF IInv, Placed, Threads
<1>2. CASE Putting("exe") BY <1>2, PuttingMaps DEF Threads
<1>3. CASE Take BY <1>3, TakeMaps
<1>4. CASE Give BY <1>4, GiveMaps
<1>5. CASE Lock \/ Peek \/ FlushTerminate \/ FlushReset \/ FlushAgain
             \/ PrintChar \/ Readln \/ Finish \/ Stop
  <2>1. /\ th["exe"].at # "give" /\ th'["exe"].at # "give" /\ th'["ui"] = th["ui"]
        /\ UNCHANGED <<cgetbuf, cgetlen, cgetidx, inputline, line>>
    <3>1. CASE Lock \/ Peek \/ FlushTerminate \/ FlushReset \/ FlushAgain
      BY <1>1, <3>1 DEF Lock, Peek, FlushTerminate, FlushReset, FlushAgain, Say, At, Go, Threads,
                        cget
    <3>2. CASE PrintChar
      <4>1. PICK c : Say("exe", <<c>>, "run")
        BY <3>2 DEF PrintChar
      <4>2. QED BY <1>1, <3>2, <4>1 DEF PrintChar, At, Say, Threads, cget
    <3>3. CASE Finish
      BY <1>1, <3>3 DEF Finish, At, Say, Push, Threads, cget
    <3>4. CASE Readln \/ Stop
      BY <1>1, <3>4 DEF Readln, Stop, At, Go, Threads, cget
    <3>5. QED BY <1>5, <3>1, <3>2, <3>3, <3>4
  <2>2. th["ui"].at \in {"lock", "buf"} => inputline' \in InputLines
    BY <2>1 DEF InputOK
  <2>3. QED BY <2>1, <2>2, AsideKeeps DEF Maps
<1>6. QED BY <1>2, <1>3, <1>4, <1>5 DEF Exe

\* Send input: the new line is in the box once it is copied, while the length and
\* the index still are those of the line before.
LEMMA SendMaps ==
  ASSUME IInv, InputOK, SendBuf \/ SendLen \/ SendIdx
  PROVE  InputOK' /\ Maps
<1>1. /\ DOMAIN th = Threads /\ DOMAIN th["ui"] = {"at", "msg", "from", "i", "src"}
      /\ th["exe"].at # "give"
  BY DEF SendBuf, SendLen, SendIdx, At, IInv, Placed, MutexHeld, Critical, Threads
<1>2. th'["exe"] = th["exe"] /\ UNCHANGED <<inputline, line>>
  BY <1>1 DEF SendBuf, SendLen, SendIdx, Go, Say, Threads
<1>3. inputline \in InputLines /\ inputline \in Seq(Characters)
  BY PanelAssumption DEF SendBuf, SendLen, SendIdx, At, InputOK, Characters
<1>4. Taken' = Taken
  BY <1>1, <1>2 DEF Taken
<1>5. CASE SendBuf
  <2>1. /\ th["ui"].at = "buf" /\ th'["ui"].at = "len" /\ cgetbuf' = inputline
    BY <1>1, <1>5 DEF SendBuf, At, Go, Threads
  <2>2. Pending' = Mailbox!Delivered(inputline)
    BY <1>2, <2>1 DEF Pending, Mailbox!Delivered
  <2>3. InputOK'
    BY <1>1, <1>2, <1>3, <2>1 DEF InputOK
  <2>4. QED BY <1>3, <1>4, <2>2, <2>3 DEF Maps, Mailbox!Send
<1>6. CASE SendLen
  <2>1. /\ th["ui"].at = "len" /\ th'["ui"].at = "idx" /\ cgetlen' = Len(inputline)
        /\ cgetbuf' = cgetbuf
    BY <1>1, <1>6 DEF SendLen, At, Go, Threads
  <2>2. Pending' = Pending
    BY <1>2, <2>1 DEF Pending
  <2>3. InputOK'
    BY <1>1, <1>2, <1>3, <2>1 DEF InputOK
  <2>4. QED BY <1>4, <2>2, <2>3 DEF Maps
<1>7. CASE SendIdx
  <2>1. /\ th["ui"].at = "idx" /\ th'["ui"].at = "cput" /\ cgetidx' = 0
        /\ UNCHANGED <<cgetbuf, cgetlen>>
    BY <1>1, <1>7 DEF SendIdx, SentIdx, At, Say, Threads
  <2>2. cgetbuf = inputline /\ cgetlen = Len(inputline) /\ Len(inputline) \in Nat
    BY <1>3, <2>1, LenProperties DEF InputOK
  <2>3. Pending' = Pending
    <3>1. SubSeq(cgetbuf, 0 + 1, cgetlen) = inputline
      BY <1>3, <2>2, SubSeqFull
    <3>2. Len(inputline) = 0 <=> inputline = <<>>
      BY <1>3, EmptySeq
    <3>3. QED BY <1>2, <2>1, <2>2, <3>1, <3>2 DEF Pending
  <2>4. InputOK'
    BY <1>1, <1>2, <1>3, <2>1, <2>2 DEF InputOK
  <2>5. QED BY <1>4, <2>3, <2>4 DEF Maps
<1>8. QED BY <1>5, <1>6, <1>7

\* The steps of the user interface.
LEMMA UiMaps ==
  ASSUME IInv, InputOK, Ui \/ ClickTool \/ ClickSend
  PROVE  InputOK' /\ Maps
<1>1. /\ DOMAIN th = Threads
      /\ \A u \in Threads : DOMAIN th[u] = {"at", "msg", "from", "i", "src"}
  BY DEF IInv, Placed
<1>2. CASE Putting("ui") BY <1>2, PuttingMaps DEF Threads
<1>3. CASE SendBuf \/ SendLen \/ SendIdx BY <1>3, SendMaps
<1>4. CASE Inspect \/ Execute \/ Create \/ SendLock \/ SendDone \/ ClickTool \/ ClickSend
  <2>1. /\ {th["ui"].at, th'["ui"].at} \cap {"len", "idx"} = {}
        /\ UNCHANGED <<cgetbuf, cgetlen, cgetidx, line>>
    BY <1>1, <1>4 DEF Inspect, Execute, Create, SendLock, SendDone, ClickTool, ClickSend,
                      At, Go, Say, Push, Threads, cget
  <2>2. \/ th'["exe"] = th["exe"]
        \/ th["exe"].at # "give" /\ th'["exe"].at # "give"
    BY <1>1, <1>4 DEF Inspect, Execute, Create, SendLock, SendDone, ClickTool, ClickSend,
                      At, Go, Say, Push, Threads, IInv, OneProgram
  <2>3. \/ UNCHANGED inputline
        \/ {th["ui"].at, th'["ui"].at} \cap {"buf", "len", "idx"} = {}
    BY <1>1, <1>4 DEF Inspect, Execute, Create, SendLock, SendDone, ClickTool, ClickSend,
                      At, Go, Threads
  <2>4. th'["ui"].at \in {"lock", "buf"} => inputline' \in InputLines
    BY <1>1, <1>4 DEF Inspect, Execute, Create, SendLock, SendDone, ClickTool, ClickSend,
                      At, Go, Say, Push, Threads, InputOK
  <2>5. QED BY <2>1, <2>2, <2>3, <2>4, AsideKeeps DEF Maps
<1>5. QED BY <1>2, <1>3, <1>4 DEF Ui

\* The panel implements the mailbox: whatever the two threads do, a program reads
\* the lines that were sent, each character once and in order.
THEOREM PanelIsMailbox == Spec => MailboxSpec
<1>1. Init => IInv /\ InputOK /\ Mailbox!Init
  <2> SUFFICES ASSUME Init PROVE IInv /\ InputOK /\ Mailbox!Init
    OBVIOUS
  <2>1. IInv
    BY InitIInv
  <2>2. InputOK
    BY EmptySeq DEF Init, InputOK, Threads
  <2>3. Mailbox!Init
    BY ConcatEmptySeq, EmptySeq DEF Init, Mailbox!Init, Pending, Taken, Threads
  <2>4. QED BY <2>1, <2>2, <2>3
<1>2. IInv /\ InputOK /\ [Next]_vars => IInv' /\ InputOK' /\ Maps
  <2> SUFFICES ASSUME IInv, InputOK, [Next]_vars PROVE IInv' /\ InputOK' /\ Maps
    OBVIOUS
  <2>1. IInv'
    BY NextIInv
  <2>2. CASE Exe BY <2>1, <2>2, ExeMaps
  <2>3. CASE Ui \/ ClickTool \/ ClickSend BY <2>1, <2>3, UiMaps
  <2>4. CASE Rest \/ UNCHANGED vars
    <3>1. UNCHANGED <<th, cgetbuf, cgetlen, cgetidx, inputline, line>>
      BY <2>4 DEF Rest, vars, cget
    <3>2. InputOK' /\ UNCHANGED <<Pending, Taken>>
      BY <3>1 DEF InputOK, Pending, Taken
    <3>3. QED BY <2>1, <3>2 DEF Maps
  <2>5. QED BY <2>2, <2>3, <2>4 DEF Next
<1>3. QED BY <1>1, <1>2, PTL DEF Spec, MailboxSpec, Mailbox!Spec, Maps

-----------------------------------------------------------------------------
(* The terminal, while the user sends only to a program that waits. *)

\* Whether the thread writes to cputbuf or to the terminal.
Writes(t) == th[t].at \in PutPlaces \union FlushPlaces

\* Where the program is while the user sends, and while a button prints: the one
\* waits for the mutex, the other is not there.
OneWriter ==
  /\ th["ui"].at = "lock" =>
       Reading /\ cgetlen = 0 /\ (th["exe"].at = "give" => th["exe"].msg = <<>>)
  /\ th["ui"].at \in {"buf", "len", "idx", "sent"} => th["exe"].at = "read"
  /\ th["ui"].at \in PutPlaces /\ th["ui"].from = "sent" => th["exe"].at = "read"
  /\ th["ui"].at \in PutPlaces /\ th["ui"].from = "idle" => th["exe"].at = "none"

Glyphs == Chars \ {NUL}
Marks == Chars \ {NL, NUL}
\* The lines of a terminal: at most MaxLine characters, none of which ends them.
Lines == {l \in Seq(Marks) : Len(l) <= MaxLine}

\* An array begins with a text.
Begins(a, text) == \A k \in 1..Len(text) : a[k - 1] = text[k]

\* The types the terminal relies on.
Shapes ==
  /\ cputbuf \in [0..MaxLine -> Chars] /\ cputlen \in 0..MaxLine
  /\ outputlines \in [Rows -> [0..(MaxLine - 1) -> Chars]]
  /\ con.lines \in [Rows -> Lines] /\ con.cur \in Lines
  /\ DOMAIN con = {"lines", "cur"}
  /\ \A t \in Threads : th[t].msg \in Seq(Glyphs)

\* The rows from first to last show what they should, shifted by one or not.
RowsShow(first, last) == \A k \in first..last : Text(outputlines[k]) = con.lines[k]
RowsLag(first, last) == \A k \in first..last : Text(outputlines[k - 1]) = con.lines[k]

\* The unfinished line is in cputbuf.
Still ==
  /\ RowsShow(0, NLines - 1)
  /\ cputlen = Len(con.cur) /\ Begins(cputbuf, con.cur)

\* How many characters the terminal should show and cputbuf has not yet: those of
\* the prompt that is put again, or the one p_cput was called with.
Ahead(t) ==
  IF th[t].from = "take" THEN Len(th[t].msg) - 1
  ELSE IF th[t].at \in {"store", "bump"} THEN 1 ELSE 0

\* A thread that puts characters of a line.
Filling(t) ==
  /\ RowsShow(0, NLines - 1)
  /\ Len(con.cur) = cputlen + Ahead(t)
  /\ \A k \in 1..cputlen : cputbuf[k - 1] = con.cur[k]
  /\ \A j \in 1..Ahead(t) : con.cur[cputlen + j] = th[t].msg[j]
  /\ th[t].at \in {"store", "bump"} =>
       th[t].i = cputlen /\ cputlen < MaxLine /\ th[t].msg[1] # NL
  /\ th[t].at = "bump" => cputbuf[cputlen] = th[t].msg[1]

\* What comes after a line that has ended: nothing, or the character that found the
\* line full.  A prompt that is put again never fills its line.
After(t) ==
  /\ con.cur = IF th[t].msg[1] = NL THEN <<>> ELSE <<th[t].msg[1]>>
  /\ th[t].from = "take" => Len(th[t].msg) = 1

\* A thread that ends a line in cputbuf, because it is full or at a newline.
Ending(t) ==
  /\ RowsLag(1, NLines - 1)
  /\ Begins(cputbuf, con.lines[0]) /\ cputlen = Len(con.lines[0]) /\ After(t)
  /\ th[t].at = "terminate" => th[t].i = cputlen
  /\ th[t].at = "reset" => cputbuf[cputlen] = NUL

\* The line p_pushoutput is called with is in cputbuf, or it is the caller's.
Pushed(t) ==
  /\ th[t].src # <<>> =>
       con.lines[0] = th[t].src /\ cputlen = Len(con.cur) /\ Begins(cputbuf, con.cur)
  /\ th[t].src = <<>> =>
       /\ cputlen = 0 /\ Begins(cputbuf, con.lines[0]) /\ cputbuf[Len(con.lines[0])] = NUL
       /\ th[t].msg # <<>> /\ After(t)

\* A thread that shifts the terminal and puts the line on top.
Pushing(t) ==
  /\ Pushed(t)
  /\ th[t].at = "shift" =>
       /\ th[t].i \in 1..(NLines - 1)
       /\ RowsShow(th[t].i + 1, NLines - 1) /\ RowsLag(1, th[t].i)
  /\ th[t].at \in {"clear", "copy"} => RowsShow(1, NLines - 1)
  /\ th[t].at = "copy" =>
       /\ th[t].i \in 0..Len(con.lines[0])
       /\ \A k \in 0..(MaxLine - 1) :
            outputlines[0][k] = IF k < th[t].i THEN con.lines[0][k + 1] ELSE NUL

\* The program's thread, before it puts a prompt again.
Flushing(t) ==
  /\ RowsShow(0, NLines - 1) /\ Begins(cputbuf, con.cur)
  /\ th[t].at = "fread" => cputlen = 0
  /\ th[t].at # "fread" => cputlen = Len(con.cur)
  /\ th[t].at = "fterm" => th[t].i = cputlen
  /\ th[t].at # "fterm" => cputbuf[Len(con.cur)] = NUL

\* The characters a thread has still to put.
Messages(t) ==
  /\ th[t].at \in {"cput", "terminate", "reset", "store", "bump"} => th[t].msg # <<>>
  /\ th[t].at \in PutPlaces /\ th[t].from = "take" =>
       th[t].msg # <<>> /\ th[t].msg[Len(th[t].msg)] = NL

Writing(t) ==
  /\ Messages(t)
  /\ th[t].at \in {"cput", "store", "bump"} => Filling(t)
  /\ th[t].at \in {"terminate", "reset"} => Ending(t)
  /\ th[t].at \in {"shift", "clear", "copy"} => Pushing(t)
  /\ th[t].at \in FlushPlaces => Flushing(t)

\* The terminal is complete, or one thread is about to complete it.
Screen ==
  /\ (\A t \in Threads : ~Writes(t)) => Still
  /\ \A t \in Threads : Writes(t) => Writing(t)

\* The line in cgetbuf is one the user has sent.
Sent == cgetbuf \in InputLines \union {<<>>}

ScreenInv == IInv /\ InputOK /\ OneWriter /\ Sent /\ Shapes /\ Screen /\ fault = "none"

\* An array that begins with a text and then ends holds that text.
LEMMA TextIs ==
  ASSUME NEW a, NEW text \in Lines, Begins(a, text), Len(text) = MaxLine \/ a[Len(text)] = NUL
  PROVE  Text(a) = text
<1> DEFINE Ends(k) == (k = MaxLine \/ a[k] = NUL) /\ \A j \in 0..(k - 1) : a[j] # NUL
           n == Len(text)
<1>1. text \in Seq(Marks) /\ n \in 0..MaxLine /\ MaxLine \in Nat
  BY PanelAssumption DEF Lines
<1>2. \A j \in 0..(n - 1) : a[j] # NUL
  <2> SUFFICES ASSUME NEW j \in 0..(n - 1) PROVE a[j] # NUL
    OBVIOUS
  <2>1. j + 1 \in 1..n /\ (j + 1) - 1 = j
    BY <1>1
  <2>2. a[j] = text[j + 1]
    BY <2>1 DEF Begins
  <2>3. QED BY <1>1, <2>1, <2>2, ElementOfSeq DEF Marks
<1>3. Ends(n)
  BY <1>2
<1>4. ASSUME NEW k \in 0..MaxLine, Ends(k)
      PROVE  k = n
  <2>1. CASE k < n BY <1>1, <1>2, <1>4, <2>1
  <2>2. CASE k > n BY <1>1, <1>3, <1>4, <2>2
  <2>3. QED BY <1>1, <2>1, <2>2
<1>5. (CHOOSE k \in 0..MaxLine : Ends(k)) = n
  BY <1>1, <1>3, <1>4
<1>6. Text(a) = [k \in 1..n |-> a[k - 1]]
  BY <1>5 DEF Text
<1>7. [k \in 1..n |-> a[k - 1]] = [k \in 1..n |-> text[k]]
  BY DEF Begins
<1>8. QED BY <1>1, <1>6, <1>7

\* While one thread writes, the other does not, and it cannot begin to.
LEMMA Alone ==
  ASSUME IInv, OneWriter, NEW t \in Threads, NEW u \in Threads, u # t, Writes(t)
  PROVE  ~Writes(u)
BY DEF IInv, Placed, OneWriter, Writes, Threads, PutPlaces, FlushPlaces, ExePlaces, UiPlaces

LEMMA UiWrites ==
  ASSUME IInv, OneWriter, Writes("ui")
  PROVE  th["exe"].at \in {"read", "none"}
BY DEF IInv, Placed, OneWriter, Writes, Threads, PutPlaces, FlushPlaces, UiPlaces

\* The user sends only to a program that waits: nobody else writes meanwhile.
LEMMA OneWriterPuts ==
  ASSUME IInv, OneWriter, NEW t \in Threads, Putting(t)
  PROVE  OneWriter'
<1>1. th[t].at \in PutPlaces /\ Aside(t)
  BY PuttingAside
<1>2. UNCHANGED cgetlen /\ \A u \in Threads \ {t} : th'[u] = th[u]
  BY <1>1 DEF Aside, Moves
<1>3. th'[t].from = th[t].from /\ th'[t].at \in PutPlaces \union {th[t].from}
  BY <1>1 DEF Aside
<1>4. CASE t = "exe"
  <2>1. th'["ui"] = th["ui"]
    BY <1>2, <1>4 DEF Threads
  <2>2. th["ui"].at = "lock" => Reading' /\ th'["exe"].at # "give"
    BY <1>1, <1>3, <1>4 DEF OneWriter, Reading, PutPlaces, FlushPlaces, IInv, Placed
  <2>3. QED BY <1>1, <1>2, <1>4, <2>1, <2>2 DEF OneWriter, PutPlaces
<1>5. CASE t = "ui"
  <2>1. th'["exe"] = th["exe"]
    BY <1>2, <1>5 DEF Threads
  <2>2. QED
    BY <1>1, <1>3, <1>5, <2>1 DEF OneWriter, PutPlaces, IInv, Placed
<1>6. QED BY <1>4, <1>5 DEF Threads

LEMMA OneWriterKept ==
  ASSUME Patient, IInv, OneWriter, [Next]_vars
  PROVE  OneWriter'
<1>1. /\ DOMAIN th = Threads
      /\ \A u \in Threads : DOMAIN th[u] = {"at", "msg", "from", "i", "src"}
  BY DEF IInv, Placed
<1>2. CASE \E t \in Threads : Putting(t)
  BY <1>2, OneWriterPuts
<1>3. CASE Lock \/ Peek \/ FlushTerminate \/ FlushReset \/ FlushAgain \/ Take \/ Give
  <2>1. /\ th'["ui"] = th["ui"] /\ th["exe"].at # "none"
        /\ th["exe"].at = "read" => mutex = "free"
    BY <1>1, <1>3 DEF Lock, Peek, FlushTerminate, FlushReset, FlushAgain, Take, Give,
                      At, Go, Say, Threads
  <2>2. /\ th["ui"].at \in {"buf", "len", "idx", "sent"} => th["exe"].at # "read"
        /\ th["ui"].at \in PutPlaces /\ th["ui"].from = "sent" => th["exe"].at # "read"
    BY <2>1 DEF IInv, MutexHeld, Critical, Threads
  <2>3. ASSUME th["ui"].at = "lock"
        PROVE  Reading' /\ cgetlen' = 0 /\ (th'["exe"].at = "give" => th'["exe"].msg = <<>>)
    <3>1. CASE Lock \/ Peek \/ FlushTerminate \/ FlushReset \/ FlushAgain
      BY <1>1, <2>3, <3>1 DEF Lock, Peek, FlushTerminate, FlushReset, FlushAgain, cget,
                      At, Go, Say, Threads, Reading, PutPlaces, FlushPlaces, OneWriter
    <3>2. CASE Take
      BY <1>1, <2>3, <3>2 DEF Take, NoInput, cget, At, Threads, Reading, OneWriter
    <3>3. CASE Give
      BY <1>1, <2>3, <3>3 DEF Give, cget, At, Threads, Reading, OneWriter
    <3>4. QED BY <1>3, <3>1, <3>2, <3>3
  <2>4. th["ui"].at \notin {"buf", "len", "idx", "sent"}
        /\ (th["ui"].at \in PutPlaces => th["ui"].from \notin {"sent", "idle"})
    BY <2>1, <2>2 DEF OneWriter
  <2>5. QED BY <2>1, <2>3, <2>4 DEF OneWriter
<1>4. CASE PrintChar \/ Readln \/ Finish \/ Stop
  <2>1. th'["ui"] = th["ui"] /\ th["exe"].at \in {"run", "stop"}
    BY <1>1, <1>4 DEF PrintChar, Readln, Finish, Stop, At, Go, Say, Push, Threads
  <2>2. th["ui"].at # "lock"
    BY <2>1 DEF OneWriter, Reading, PutPlaces, FlushPlaces
  <2>3. QED BY <2>1, <2>2 DEF OneWriter
<1>5. CASE Inspect \/ Execute \/ Create \/ ClickTool
  <2>1. th["ui"].at \in {"idle", "inspect", "execute", "create"} /\ th["exe"].at = "none"
    BY <1>1, <1>5 DEF Inspect, Execute, Create, ClickTool, At, IInv, OneProgram
  <2>2. \/ th'["ui"].at \in {"idle", "create", "execute", "inspect"}
        \/ th'["ui"].at \in PutPlaces /\ th'["ui"].from = "idle" /\ th'["exe"] = th["exe"]
    <3>1. CASE Inspect
      BY <1>1, <3>1 DEF Inspect, Say, Push, Threads, PutPlaces
    <3>2. CASE Execute
      BY <1>1, <3>2 DEF Execute, Go, Say, Threads, PutPlaces
    <3>3. CASE Create
      BY <1>1, <3>3 DEF Create, Say, Threads, PutPlaces
    <3>4. CASE ClickTool
      BY <1>1, <3>4 DEF ClickTool, Go, Threads
    <3>5. QED BY <1>5, <3>1, <3>2, <3>3, <3>4
  <2>3. QED BY <2>1, <2>2 DEF OneWriter, PutPlaces
<1>6. CASE ClickSend \/ SendLock \/ SendBuf \/ SendLen \/ SendIdx \/ SendDone
  <2>1. th'["exe"] = th["exe"]
    BY <1>1, <1>6 DEF ClickSend, SendLock, SendBuf, SendLen, SendIdx, SendDone, Go, Say, Threads
  <2>2. CASE ClickSend
    BY <1>1, <2>1, <2>2 DEF ClickSend, Go, At, cget, Threads, OneWriter, Reading, PutPlaces
  <2>3. CASE SendLock
    <3>1. th["exe"].at = "read"
      BY <2>3 DEF SendLock, At, OneWriter, Reading, IInv, MutexHeld, Critical, Threads
    <3>2. QED BY <1>1, <2>1, <2>3, <3>1 DEF SendLock, Go, Threads, OneWriter, PutPlaces
  <2>4. CASE SendBuf \/ SendLen \/ SendIdx \/ SendDone
    <3>1. th["exe"].at = "read"
      BY <2>4 DEF SendBuf, SendLen, SendIdx, SendDone, At, OneWriter
    <3>2. th'["ui"].at # "lock" /\ (th'["ui"].at \in PutPlaces => th'["ui"].from = "sent")
      BY <1>1, <2>4 DEF SendBuf, SendLen, SendIdx, SendDone, Go, Say, Threads, PutPlaces
    <3>3. QED BY <2>1, <3>1, <3>2 DEF OneWriter
  <2>5. QED BY <1>6, <2>2, <2>3, <2>4
<1>7. CASE Rest \/ UNCHANGED vars
  BY <1>7 DEF Rest, vars, cget, OneWriter, Reading
<1>8. QED BY <1>2, <1>3, <1>4, <1>5, <1>6, <1>7 DEF Next, Exe, Ui, Threads

-----------------------------------------------------------------------------
(* The terminal, character by character. *)

\* What the shapes say of one thread and of the terminal.
LEMMA Shaped ==
  ASSUME IInv, Shapes, NEW t \in Threads
  PROVE  /\ DOMAIN th = Threads /\ DOMAIN th[t] = {"at", "msg", "from", "i", "src"}
         /\ th[t].msg \in Seq(Glyphs) /\ Len(th[t].msg) \in Nat
         /\ th[t].msg # <<>> => Len(th[t].msg) > 0 /\ Head(th[t].msg) = th[t].msg[1]
         /\ MaxLine \in Nat /\ MaxLine > 0 /\ NLines \in Nat /\ NLines > 1
         /\ cputlen \in 0..MaxLine /\ con.cur \in Seq(Marks)
         /\ Len(con.cur) \in 0..MaxLine /\ con.cur \in Lines
         /\ \A k \in Rows : con.lines[k] \in Lines /\ Len(con.lines[k]) \in 0..MaxLine
<1>1. th[t].msg \in Seq(Glyphs) /\ con.cur \in Lines /\ \A k \in Rows : con.lines[k] \in Lines
  BY DEF Shapes
<1>2. ASSUME NEW l \in Lines PROVE l \in Seq(Marks) /\ Len(l) \in 0..MaxLine
  BY PanelAssumption DEF Lines
<1>3. Len(th[t].msg) \in Nat
      /\ (th[t].msg # <<>> => Len(th[t].msg) > 0 /\ Head(th[t].msg) = th[t].msg[1])
  BY <1>1, EmptySeq
<1>4. QED BY <1>1, <1>2, <1>3, PanelAssumption DEF IInv, Placed, Shapes

LEMMA TailOf ==
  ASSUME NEW S, NEW s \in Seq(S), s # <<>>
  PROVE  /\ Tail(s) \in Seq(S) /\ Len(Tail(s)) = Len(s) - 1
         /\ \A k \in 1..(Len(s) - 1) : Tail(s)[k] = s[k + 1]
         /\ Len(s) # 1 => Tail(s) # <<>>
<1>1. PICK n \in Nat : n = Len(s) /\ n > 0
  BY EmptySeq, LenProperties
<1>2. Tail(s) \in Seq(S) /\ Len(Tail(s)) = n - 1
  BY <1>1, HeadTailProperties
<1>3. \A k \in 1..(n - 1) : Tail(s)[k] = s[k + 1]
  BY <1>1
<1>4. n # 1 => Tail(s) # <<>>
  <2>1. n # 1 => Len(Tail(s)) # 0
    BY <1>1, <1>2
  <2>2. QED BY <2>1, EmptySeq
<1>5. QED BY <1>1, <1>2, <1>3, <1>4

\* A line is put on top: the rows are now one behind.
LEMMA OnTop ==
  ASSUME Shapes, NEW text \in Lines, NEW cur \in Lines,
         con' = [ShowLine(con, text) EXCEPT !.cur = cur]
  PROVE  /\ DOMAIN con' = {"lines", "cur"} /\ con'.cur = cur
         /\ con'.lines \in [Rows -> Lines] /\ con'.lines[0] = text
         /\ outputlines' = outputlines /\ RowsShow(0, NLines - 1) => RowsLag(1, NLines - 1)'
<1>1. NLines \in Nat /\ NLines > 1 /\ 0 \in Rows
  BY PanelAssumption DEF Rows
<1>2. /\ DOMAIN con' = {"lines", "cur"} /\ con'.cur = cur
      /\ con'.lines = [k \in Rows |-> IF k = 0 THEN text ELSE con.lines[k - 1]]
  BY DEF Shapes, ShowLine
<1>3. ASSUME NEW k \in Rows, k # 0 PROVE k - 1 \in Rows
  BY <1>1, <1>3 DEF Rows
<1>4. con'.lines \in [Rows -> Lines]
  BY <1>2, <1>3 DEF Shapes
<1>5. ASSUME outputlines' = outputlines, RowsShow(0, NLines - 1)
      PROVE  RowsLag(1, NLines - 1)'
  <2> SUFFICES ASSUME NEW k \in 1..(NLines - 1) PROVE Text(outputlines[k - 1]) = con'.lines[k]
    BY <1>5 DEF RowsLag
  <2>1. k \in Rows /\ k # 0 /\ k - 1 \in 0..(NLines - 1)
    BY <1>1 DEF Rows
  <2>2. QED BY <1>2, <1>5, <2>1 DEF RowsShow
<1>6. QED BY <1>1, <1>2, <1>4, <1>5

\* p_cput looks at cputlen: the character ends the line, finds it full or goes on it.
LEMMA CputWrites ==
  ASSUME ScreenInv, NEW t \in Threads, Cput(t)
  PROVE  Shapes' /\ Writing(t)'
<1> DEFINE msg == th[t].msg  cur == con.cur
<1>1. /\ IInv /\ Shapes /\ th[t].at = "cput"
      /\ Messages(t) /\ Filling(t)
  BY DEF ScreenInv, Screen, Cput, At, Writes, Writing, PutPlaces
<1>2. /\ DOMAIN th = Threads /\ DOMAIN th[t] = {"at", "msg", "from", "i", "src"}
      /\ msg \in Seq(Glyphs) /\ Len(msg) \in Nat /\ Len(msg) > 0 /\ Head(msg) = msg[1]
      /\ MaxLine \in Nat /\ MaxLine > 0 /\ cputlen \in 0..MaxLine /\ cputlen \in Nat
      /\ cur \in Seq(Marks) /\ Len(cur) \in 0..MaxLine /\ cur \in Lines
  BY <1>1, Shaped DEF Messages
<1>3. /\ th'[t].i = cputlen /\ th'[t].msg = msg /\ th'[t].from = th[t].from
      /\ th'[t].at = IF msg[1] = NL \/ cputlen >= MaxLine THEN "terminate" ELSE "store"
      /\ \A u \in Threads : th'[u].msg = th[u].msg
      /\ UNCHANGED <<cputbuf, cputlen, outputlines>>
  BY <1>2 DEF Cput, Full, cput
<1>4. msg[1] \in Glyphs
  BY <1>2, ElementOfSeq
<1>5. con' = IF th[t].from = "take" /\ msg[1] # NL THEN con ELSE ShowChar(con, msg[1])
  BY <1>2 DEF Cput, Show
<1>6. /\ RowsShow(0, NLines - 1) /\ Len(cur) = cputlen + Ahead(t)
      /\ \A k \in 1..cputlen : cputbuf[k - 1] = cur[k]
      /\ \A j \in 1..Ahead(t) : cur[cputlen + j] = msg[j]
  BY <1>1 DEF Filling
<1>7. \A k \in 1..Len(cur) : cur[k] # NL /\ cur[k] # NUL
  BY <1>2, ElementOfSeq DEF Marks
<1>8. Messages(t)'
  BY <1>1, <1>2, <1>3, EmptySeq DEF Messages, PutPlaces
<1>9. CASE th[t].from = "take" /\ msg[1] # NL
  <2>1. Len(msg) >= 2 /\ Ahead(t) = Len(msg) - 1
    BY <1>1, <1>2, <1>9 DEF Messages, Ahead, PutPlaces
  <2>2. cputlen < MaxLine
    BY <1>2, <1>6, <2>1
  <2>3. /\ th'[t].at = "store" /\ con' = con /\ Ahead(t)' = Ahead(t)
    BY <1>2, <1>3, <1>5, <1>9, <2>1, <2>2 DEF Ahead
  <2>4. Filling(t)'
    BY <1>3, <1>6, <1>9, <2>2, <2>3 DEF Filling, RowsShow
  <2>5. Shapes'
    BY <1>1, <1>3, <2>3 DEF Shapes
  <2>6. QED BY <1>8, <2>3, <2>4, <2>5 DEF Writing, FlushPlaces
<1>10. CASE msg[1] = NL
  <2>1. Ahead(t) = 0 /\ (th[t].from = "take" => Len(msg) = 1)
    <3>1. CASE th[t].from = "take"
      <4>1. Ahead(t) = Len(msg) - 1
        BY <3>1 DEF Ahead
      <4>2. ~(Len(msg) > 1)
        <5> SUFFICES ASSUME Len(msg) > 1 PROVE FALSE
          OBVIOUS
        <5>1. 1 \in 1..Ahead(t) /\ cputlen + 1 \in 1..Len(cur)
          BY <1>2, <1>6, <4>1
        <5>2. QED BY <1>6, <1>7, <1>10, <5>1
      <4>3. \A n \in Nat : n > 0 /\ ~(n > 1) => n = 1 /\ n - 1 = 0
        OBVIOUS
      <4>4. Len(msg) = 1 /\ Len(msg) - 1 = 0
        BY <1>2, <4>2, <4>3, Zenon
      <4>5. QED BY <4>1, <4>4
    <3>2. QED BY <1>1, <3>1 DEF Ahead
  <2>2. con' = [ShowLine(con, cur) EXCEPT !.cur = <<>>] /\ <<>> \in Lines
    BY <1>2, <1>5, <1>10 DEF ShowChar, Lines
  <2>3. /\ DOMAIN con' = {"lines", "cur"} /\ con'.cur = <<>>
        /\ con'.lines \in [Rows -> Lines] /\ con'.lines[0] = cur
        /\ RowsLag(1, NLines - 1)'
    BY <1>1, <1>2, <1>3, <1>6, <2>2, OnTop
  <2>4. Shapes'
    BY <1>1, <1>3, <2>2, <2>3 DEF Shapes
  <2>5. cputlen = Len(cur) /\ th'[t].at = "terminate"
    BY <1>2, <1>3, <1>6, <1>10, <2>1
  <2>6. Begins(cputbuf', con'.lines[0])
    BY <1>3, <1>6, <2>3, <2>5 DEF Begins
  <2>7. Ending(t)'
    BY <1>3, <1>10, <2>1, <2>3, <2>5, <2>6 DEF Ending, After
  <2>8. QED BY <1>8, <2>4, <2>5, <2>7 DEF Writing, FlushPlaces
<1>11. CASE th[t].from # "take" /\ msg[1] # NL
  <2>1. Ahead(t) = 0 /\ cputlen = Len(cur)
    BY <1>1, <1>2, <1>6, <1>11 DEF Ahead
  <2>2. CASE Len(cur) = MaxLine
    <3>1. <<msg[1]>> \in Lines
      BY <1>2, <1>4, <1>11 DEF Lines, Marks, Glyphs
    <3>2. con' = [ShowLine(con, cur) EXCEPT !.cur = <<msg[1]>>]
      BY <1>5, <1>11, <2>2 DEF ShowChar
    <3>3. /\ DOMAIN con' = {"lines", "cur"} /\ con'.cur = <<msg[1]>>
          /\ con'.lines \in [Rows -> Lines] /\ con'.lines[0] = cur
          /\ RowsLag(1, NLines - 1)'
      BY <1>1, <1>2, <1>3, <1>6, <3>1, <3>2, OnTop
    <3>4. Shapes'
      BY <1>1, <1>3, <3>1, <3>3 DEF Shapes
    <3>5. th'[t].at = "terminate"
      BY <1>2, <1>3, <2>1, <2>2
    <3>6. Begins(cputbuf', con'.lines[0])
      BY <1>3, <1>6, <2>1, <3>3 DEF Begins
    <3>7. Ending(t)'
      BY <1>3, <1>11, <2>1, <3>3, <3>5, <3>6 DEF Ending, After
    <3>8. QED BY <1>8, <3>4, <3>5, <3>7 DEF Writing, FlushPlaces
  <2>3. CASE Len(cur) < MaxLine
    <3>1. /\ con' = [con EXCEPT !.cur = Append(cur, msg[1])]
          /\ th'[t].at = "store"
      BY <1>2, <1>3, <1>5, <1>11, <2>1, <2>3 DEF ShowChar
    <3>2. /\ con'.cur = Append(cur, msg[1]) /\ con'.lines = con.lines
          /\ DOMAIN con' = {"lines", "cur"}
      BY <1>1, <3>1 DEF Shapes
    <3>3. /\ con'.cur \in Lines /\ Len(con'.cur) = cputlen + 1
          /\ \A k \in 1..cputlen : con'.cur[k] = cur[k]
          /\ con'.cur[cputlen + 1] = msg[1]
      BY <1>2, <1>4, <1>11, <2>1, <2>3, <3>2 DEF Lines, Marks, Glyphs
    <3>4. Shapes'
      BY <1>1, <1>3, <3>2, <3>3 DEF Shapes
    <3>5. Ahead(t)' = 1
      BY <1>3, <1>11, <3>1 DEF Ahead
    <3>6. Filling(t)'
      BY <1>2, <1>3, <1>6, <1>11, <2>1, <2>3, <3>1, <3>2, <3>3, <3>5 DEF Filling, RowsShow
    <3>7. QED BY <1>8, <3>1, <3>4, <3>6 DEF Writing, FlushPlaces
  <2>4. QED BY <1>2, <2>2, <2>3
<1>12. QED BY <1>9, <1>10, <1>11

\* The line is terminated and cputlen reset, the rows are shifted and the first one
\* cleared.
LEMMA TerminateWrites ==
  ASSUME ScreenInv, NEW t \in Threads, Terminate(t)
  PROVE  Shapes' /\ Writing(t)' /\ fault' = fault
<1>1. /\ IInv /\ Shapes /\ th[t].at = "terminate" /\ Messages(t) /\ Ending(t)
  BY DEF ScreenInv, Screen, Terminate, At, Writes, Writing, PutPlaces
<1>2. /\ DOMAIN th = Threads /\ DOMAIN th[t] = {"at", "msg", "from", "i", "src"}
      /\ MaxLine \in Nat /\ cputlen \in 0..MaxLine /\ th[t].i = cputlen
  BY <1>1, Shaped DEF Ending
<1>3. /\ cputbuf' = [cputbuf EXCEPT ![cputlen] = NUL] /\ fault' = fault
      /\ UNCHANGED <<cputlen, outputlines, con>>
  BY <1>2 DEF Terminate, Write
<1>4. /\ th'[t].at = "reset" /\ th'[t].msg = th[t].msg /\ th'[t].from = th[t].from
      /\ \A u \in Threads : th'[u].msg = th[u].msg
  BY <1>2 DEF Terminate, Go
<1>5. cputbuf' \in [0..MaxLine -> Chars] /\ cputbuf'[cputlen] = NUL
  BY <1>1, <1>2, <1>3 DEF Shapes, Chars
<1>6. Shapes'
  BY <1>1, <1>3, <1>4, <1>5 DEF Shapes
<1>7. Begins(cputbuf', con.lines[0])
  BY <1>1, <1>2, <1>3 DEF Begins, Ending, Shapes
<1>8. Ending(t)'
  BY <1>1, <1>3, <1>4, <1>5, <1>7 DEF Ending, After, RowsLag
<1>9. Messages(t)'
  BY <1>1, <1>4 DEF Messages, PutPlaces
<1>10. QED BY <1>3, <1>4, <1>6, <1>8, <1>9 DEF Writing, FlushPlaces

LEMMA ResetWrites ==
  ASSUME ScreenInv, NEW t \in Threads, Reset(t)
  PROVE  Shapes' /\ Writing(t)'
<1>1. /\ IInv /\ Shapes /\ th[t].at = "reset" /\ Messages(t) /\ Ending(t)
  BY DEF ScreenInv, Screen, Reset, At, Writes, Writing, PutPlaces
<1>2. /\ DOMAIN th = Threads /\ DOMAIN th[t] = {"at", "msg", "from", "i", "src"}
      /\ MaxLine \in Nat /\ NLines \in Nat /\ NLines > 1
  BY <1>1, Shaped
<1>3. cputlen' = 0 /\ UNCHANGED <<cputbuf, outputlines, con>>
  BY DEF Reset
<1>4. /\ th'[t].at = "shift" /\ th'[t].msg = th[t].msg /\ th'[t].from = th[t].from
      /\ th'[t].i = NLines - 1 /\ th'[t].src = <<>>
      /\ \A u \in Threads : th'[u].msg = th[u].msg
  BY <1>2 DEF Reset
<1>5. Shapes'
  <2>1. cputlen' \in 0..MaxLine
    BY <1>2, <1>3
  <2>2. QED BY <1>1, <1>3, <1>4, <2>1 DEF Shapes
<1>6. Pushed(t)'
  BY <1>1, <1>3, <1>4 DEF Pushed, Ending, After, Messages
<1>7. NLines - 1 \in 1..(NLines - 1) /\ RowsShow(NLines, NLines - 1)
  BY <1>2 DEF RowsShow
<1>8. Pushing(t)'
  BY <1>1, <1>2, <1>3, <1>4, <1>6, <1>7 DEF Pushing, Ending, RowsLag, RowsShow
<1>9. Messages(t)'
  BY <1>1, <1>4 DEF Messages, PutPlaces
<1>10. QED BY <1>4, <1>5, <1>8, <1>9 DEF Writing, FlushPlaces

LEMMA ShiftWrites ==
  ASSUME ScreenInv, NEW t \in Threads, Shift(t)
  PROVE  Shapes' /\ Writing(t)'
<1>0. PICK i : i = th[t].i
  OBVIOUS
<1>1. /\ IInv /\ Shapes /\ th[t].at = "shift" /\ Messages(t) /\ Pushing(t)
  BY DEF ScreenInv, Screen, Shift, At, Writes, Writing, PutPlaces
<1>2. /\ DOMAIN th = Threads /\ DOMAIN th[t] = {"at", "msg", "from", "i", "src"}
      /\ MaxLine \in Nat /\ NLines \in Nat /\ NLines > 1
      /\ i \in 1..(NLines - 1) /\ RowsShow(i + 1, NLines - 1) /\ RowsLag(1, i)
  BY <1>0, <1>1, Shaped DEF Pushing
<1>3. /\ outputlines' = [outputlines EXCEPT ![i] = outputlines[i - 1]]
      /\ UNCHANGED <<cputbuf, cputlen, con>>
  BY <1>0 DEF Shift, cput
<1>4. /\ th'[t].at = IF i = 1 THEN "clear" ELSE "shift"
      /\ th'[t].msg = th[t].msg /\ th'[t].from = th[t].from
      /\ th'[t].i = i - 1 /\ th'[t].src = th[t].src
      /\ \A u \in Threads : th'[u].msg = th[u].msg
  BY <1>0, <1>2 DEF Shift
<1>5. i \in Rows /\ i - 1 \in Rows
  BY <1>2 DEF Rows
<1>6. /\ outputlines'[i] = outputlines[i - 1]
      /\ \A k \in Rows : k # i => outputlines'[k] = outputlines[k]
  BY <1>1, <1>3, <1>5 DEF Shapes
<1>7. Shapes'
  <2>1. outputlines' \in [Rows -> [0..(MaxLine - 1) -> Chars]]
    BY <1>1, <1>3, <1>5 DEF Shapes
  <2>2. QED BY <1>1, <1>3, <1>4, <2>1 DEF Shapes
<1>8. RowsShow(i, NLines - 1)'
  <2> SUFFICES ASSUME NEW k \in i..(NLines - 1) PROVE Text(outputlines'[k]) = con.lines[k]
    BY <1>3 DEF RowsShow
  <2>1. CASE k = i
    BY <1>2, <1>6, <2>1 DEF RowsLag
  <2>2. CASE k # i
    <3>1. k \in Rows /\ k \in (i + 1)..(NLines - 1)
      BY <1>2, <2>2 DEF Rows
    <3>2. QED BY <1>2, <1>6, <2>2, <3>1 DEF RowsShow
  <2>3. QED BY <2>1, <2>2
<1>9. RowsLag(1, i - 1)'
  <2> SUFFICES ASSUME NEW k \in 1..(i - 1) PROVE Text(outputlines'[k - 1]) = con.lines[k]
    BY <1>3 DEF RowsLag
  <2>1. k - 1 \in Rows /\ k - 1 # i /\ k \in 1..i
    BY <1>2 DEF Rows
  <2>2. QED BY <1>2, <1>6, <2>1 DEF RowsLag
<1>10. Pushed(t)'
  BY <1>1, <1>3, <1>4 DEF Pushed, Pushing, After
<1>11. Pushing(t)'
  <2>1. CASE i = 1
    BY <1>4, <1>8, <1>10, <2>1 DEF Pushing
  <2>2. CASE i # 1
    <3>1. i - 1 \in 1..(NLines - 1) /\ i - 1 + 1 = i
      BY <1>2, <2>2
    <3>2. th'[t].at = "shift" /\ th'[t].i = i - 1
      BY <1>4, <2>2
    <3>3. RowsShow(i - 1 + 1, NLines - 1)'
      BY <1>8, <3>1
    <3>4. QED BY <1>9, <1>10, <3>1, <3>2, <3>3 DEF Pushing
  <2>3. QED BY <2>1, <2>2
<1>12. Messages(t)'
  BY <1>1, <1>4 DEF Messages, PutPlaces
<1>13. QED BY <1>4, <1>7, <1>11, <1>12 DEF Writing, FlushPlaces

LEMMA ClearWrites ==
  ASSUME ScreenInv, NEW t \in Threads, Clear(t)
  PROVE  Shapes' /\ Writing(t)'
<1>1. /\ IInv /\ Shapes /\ th[t].at = "clear" /\ Messages(t) /\ Pushing(t)
  BY DEF ScreenInv, Screen, Clear, At, Writes, Writing, PutPlaces
<1>2. /\ DOMAIN th = Threads /\ DOMAIN th[t] = {"at", "msg", "from", "i", "src"}
      /\ MaxLine \in Nat /\ NLines \in Nat /\ NLines > 1 /\ 0 \in Rows
      /\ Len(con.lines[0]) \in 0..MaxLine
  BY <1>1, PanelAssumption, Shaped DEF Rows
<1>3. /\ outputlines' = [outputlines EXCEPT ![0] = Blank]
      /\ UNCHANGED <<cputbuf, cputlen, con>>
  BY DEF Clear, cput
<1>4. /\ th'[t].at = "copy" /\ th'[t].msg = th[t].msg /\ th'[t].from = th[t].from
      /\ th'[t].i = 0 /\ th'[t].src = th[t].src
      /\ \A u \in Threads : th'[u].msg = th[u].msg
  BY <1>2 DEF Clear
<1>5. Blank \in [0..(MaxLine - 1) -> Chars]
  BY DEF Blank, Chars
<1>6. /\ outputlines' \in [Rows -> [0..(MaxLine - 1) -> Chars]]
      /\ outputlines'[0] = Blank
      /\ \A k \in Rows \ {0} : outputlines'[k] = outputlines[k]
  BY <1>1, <1>2, <1>3, <1>5 DEF Shapes
<1>7. Shapes'
  BY <1>1, <1>3, <1>4, <1>6 DEF Shapes
<1>8. RowsShow(1, NLines - 1)'
  <2> SUFFICES ASSUME NEW k \in 1..(NLines - 1) PROVE Text(outputlines'[k]) = con.lines[k]
    BY <1>3 DEF RowsShow
  <2>1. k \in Rows \ {0}
    BY <1>2 DEF Rows
  <2>2. QED BY <1>1, <1>6, <2>1 DEF Pushing, RowsShow
<1>9. Pushed(t)'
  BY <1>1, <1>3, <1>4 DEF Pushed, Pushing, After
<1>10. \A k \in 0..(MaxLine - 1) : outputlines'[0][k] = NUL /\ ~(k < 0)
  BY <1>2, <1>6 DEF Blank
<1>11. 0 \in 0..Len(con.lines[0])
  BY <1>2
<1>12. Pushing(t)'
  BY <1>3, <1>4, <1>8, <1>9, <1>10, <1>11 DEF Pushing
<1>13. Messages(t)'
  BY <1>1, <1>4 DEF Messages, PutPlaces
<1>14. QED BY <1>4, <1>7, <1>12, <1>13 DEF Writing, FlushPlaces

\* A line is copied to the top of the terminal; then p_pushoutput returns, to p_cput
\* or to its other callers.
LEMMA CopyWrites ==
  ASSUME ScreenInv, NEW t \in Threads, Copy(t)
  PROVE  Shapes' /\ (IF Writes(t)' THEN Writing(t)' ELSE Still')
<1>0. PICK i, P : i = th[t].i /\ P = con.lines[0]
  OBVIOUS
<1>1. /\ IInv /\ Shapes /\ th[t].at = "copy" /\ Messages(t) /\ Pushing(t)
  BY DEF ScreenInv, Screen, Copy, At, Writes, Writing, PutPlaces
<1>2. /\ DOMAIN th = Threads /\ DOMAIN th[t] = {"at", "msg", "from", "i", "src"}
      /\ MaxLine \in Nat /\ MaxLine > 0 /\ NLines \in Nat /\ NLines > 1 /\ 0 \in Rows
      /\ P \in Lines /\ P \in Seq(Marks) /\ Len(P) \in 0..MaxLine
  BY <1>0, <1>1, PanelAssumption, Shaped DEF Rows, Lines
<1>3. /\ RowsShow(1, NLines - 1) /\ i \in 0..Len(P) /\ i \in Nat
      /\ \A k \in 0..(MaxLine - 1) : outputlines[0][k] = IF k < i THEN P[k + 1] ELSE NUL
  BY <1>0, <1>1, <1>2 DEF Pushing
<1>4. \A k \in 1..Len(P) : P[k] \in Marks /\ P[k] # NUL
  BY <1>2, ElementOfSeq DEF Marks
<1>5. /\ i < Len(P) => Source(t)[i] = P[i + 1]
      /\ i = Len(P) => Source(t)[i] = NUL
  <2>1. i + 1 - 1 = i /\ i \in 0..MaxLine
    BY <1>2, <1>3
  <2>2. CASE th[t].src = <<>>
    <3>1. Begins(cputbuf, P) /\ cputbuf[Len(P)] = NUL
      BY <1>0, <1>1, <2>2 DEF Pushing, Pushed
    <3>2. i < Len(P) => i + 1 \in 1..Len(P)
      BY <1>2, <1>3
    <3>3. QED BY <2>1, <2>2, <3>1, <3>2 DEF Source, Begins
  <2>3. CASE th[t].src # <<>>
    <3>1. th[t].src = P
      BY <1>0, <1>1, <2>3 DEF Pushing, Pushed
    <3>2. QED BY <1>2, <1>3, <2>1, <2>3, <3>1 DEF Source, Array
  <2>4. QED BY <2>2, <2>3
<1>6. UNCHANGED <<cputbuf, cputlen, con>>
  BY DEF Copy, cput
<1>7. CASE i < MaxLine /\ Source(t)[i] # NUL
  <2>1. i < Len(P) /\ Source(t)[i] = P[i + 1] /\ i + 1 \in 1..Len(P) /\ i \in 0..(MaxLine - 1)
    BY <1>2, <1>3, <1>5, <1>7
  <2>2. /\ outputlines' = [outputlines EXCEPT ![0][i] = P[i + 1]]
        /\ th'[t].at = "copy" /\ th'[t].msg = th[t].msg /\ th'[t].from = th[t].from
        /\ th'[t].i = i + 1 /\ th'[t].src = th[t].src
        /\ \A u \in Threads : th'[u].msg = th[u].msg
    BY <1>0, <1>1, <1>2, <1>7, <2>1 DEF Copy
  <2>3. P[i + 1] \in Chars
    BY <1>4, <2>1 DEF Marks
  <2>4. /\ outputlines' \in [Rows -> [0..(MaxLine - 1) -> Chars]]
        /\ outputlines'[0] = [outputlines[0] EXCEPT ![i] = P[i + 1]]
        /\ \A k \in Rows \ {0} : outputlines'[k] = outputlines[k]
    BY <1>1, <1>2, <2>1, <2>2, <2>3 DEF Shapes
  <2>5. Shapes'
    BY <1>1, <1>6, <2>2, <2>4 DEF Shapes
  <2>6. RowsShow(1, NLines - 1)'
    <3> SUFFICES ASSUME NEW k \in 1..(NLines - 1) PROVE Text(outputlines'[k]) = con.lines[k]
      BY <1>6 DEF RowsShow
    <3>1. k \in Rows \ {0}
      BY <1>2 DEF Rows
    <3>2. QED BY <1>3, <2>4, <3>1 DEF RowsShow
  <2>7. \A k \in 0..(MaxLine - 1) : outputlines'[0][k] = IF k < i + 1 THEN P[k + 1] ELSE NUL
    <3> SUFFICES ASSUME NEW k \in 0..(MaxLine - 1)
                 PROVE  outputlines'[0][k] = IF k < i + 1 THEN P[k + 1] ELSE NUL
      OBVIOUS
    <3>1. outputlines[0] \in [0..(MaxLine - 1) -> Chars]
      BY <1>1, <1>2 DEF Shapes
    <3>2. CASE k = i
      <4>1. i < i + 1
        BY <1>3
      <4>2. outputlines'[0][i] = P[i + 1]
        BY <2>1, <2>4, <3>1
      <4>3. QED BY <3>2, <4>1, <4>2
    <3>3. CASE k # i
      BY <1>3, <2>4, <3>1, <3>3
    <3>4. QED BY <3>2, <3>3
  <2>8. i + 1 \in 0..Len(P)
    BY <1>2, <1>3, <2>1
  <2>9. Pushed(t)'
    BY <1>1, <1>6, <2>2 DEF Pushed, Pushing, After
  <2>10. Pushing(t)'
    BY <1>0, <1>6, <2>2, <2>6, <2>7, <2>8, <2>9 DEF Pushing
  <2>11. Messages(t)'
    BY <1>1, <2>2 DEF Messages, PutPlaces
  <2>12. QED BY <2>2, <2>5, <2>10, <2>11 DEF Writing, Writes, PutPlaces, FlushPlaces
<1>8. CASE ~(i < MaxLine /\ Source(t)[i] # NUL)
  <2>1. i = Len(P)
    <3>1. CASE i < Len(P)
      <4>1. i + 1 \in 1..Len(P) /\ i < MaxLine
        BY <1>2, <1>3, <3>1
      <4>2. QED BY <1>4, <1>5, <1>8, <3>1, <4>1
    <3>2. QED BY <1>2, <1>3, <3>1
  <2>2. UNCHANGED outputlines
    BY <1>0, <1>8 DEF Copy
  <2>3. Text(outputlines[0]) = P
    <3>1. ASSUME NEW k \in 1..Len(P) PROVE outputlines[0][k - 1] = P[k]
      <4>1. k - 1 \in 0..(MaxLine - 1) /\ k - 1 < i /\ k - 1 + 1 = k
        BY <1>2, <2>1
      <4>2. QED BY <1>3, <4>1
    <3>2. Len(P) = MaxLine \/ outputlines[0][Len(P)] = NUL
      <4>1. CASE Len(P) # MaxLine
        <5>1. Len(P) \in 0..(MaxLine - 1) /\ ~(Len(P) < i)
          BY <1>2, <2>1, <4>1
        <5>2. QED BY <1>3, <5>1
      <4>2. QED BY <4>1
    <3>3. QED BY <1>2, <3>1, <3>2, TextIs DEF Begins
  <2>4. RowsShow(0, NLines - 1) /\ RowsShow(0, NLines - 1)'
    <3>1. RowsShow(0, NLines - 1)
      <4> SUFFICES ASSUME NEW k \in 0..(NLines - 1) PROVE Text(outputlines[k]) = con.lines[k]
        BY DEF RowsShow
      <4>1. CASE k = 0 BY <1>0, <2>3, <4>1
      <4>2. CASE k # 0
        <5>1. k \in 1..(NLines - 1)
          BY <1>2, <4>2
        <5>2. QED BY <1>3, <5>1 DEF RowsShow
      <4>3. QED BY <4>1, <4>2
    <3>2. QED BY <1>6, <2>2, <3>1 DEF RowsShow
  <2>5. PICK n \in {0, cputlen} :
          th' = [th EXCEPT ![t] =
                    IF th[t].src # <<>> THEN [@ EXCEPT !.at = th[t].from]
                    ELSE IF Head(th[t].msg) = NL THEN AfterChar(t, @)
                    ELSE [@ EXCEPT !.at = "store", !.i = n]]
    BY <1>0, <1>8 DEF Copy
  <2>6. CASE th[t].src # <<>>
    <3>1. /\ th'[t].at = th[t].from /\ \A u \in Threads : th'[u].msg = th[u].msg
      BY <1>2, <2>5, <2>6
    <3>2. ~Writes(t)'
      BY <1>1, <3>1 DEF Writes, IInv, Placed, Threads, PutPlaces, FlushPlaces
    <3>3. cputlen = Len(con.cur) /\ Begins(cputbuf, con.cur)
      BY <1>1, <2>6 DEF Pushing, Pushed
    <3>4. Still'
      BY <1>6, <2>4, <3>3 DEF Still, Begins
    <3>5. Shapes'
      BY <1>1, <1>6, <2>2, <3>1 DEF Shapes
    <3>6. QED BY <3>2, <3>4, <3>5
  <2>7. CASE th[t].src = <<>>
    <3> DEFINE msg == th[t].msg
    <3>1. /\ cputlen = 0 /\ msg # <<>> /\ After(t)
      BY <1>1, <2>7 DEF Pushing, Pushed
    <3>2. msg \in Seq(Glyphs) /\ Len(msg) \in Nat /\ Len(msg) > 0 /\ Head(msg) = msg[1]
      BY <1>1, <3>1, Shaped
    <3>3. CASE msg[1] = NL
      <4>1. /\ th'[t].msg = Tail(msg) /\ th'[t].from = th[t].from
            /\ th'[t].at = IF Len(msg) = 1 THEN th[t].from ELSE "cput"
            /\ \A u \in Threads : u # t => th'[u].msg = th[u].msg
        BY <1>2, <2>5, <2>7, <3>2, <3>3 DEF AfterChar
      <4>2. Tail(msg) \in Seq(Glyphs) /\ (Len(msg) # 1 => Tail(msg) # <<>>)
        BY <3>1, <3>2, TailOf
      <4>3. Shapes'
        BY <1>1, <1>6, <2>2, <4>1, <4>2 DEF Shapes
      <4>4. con.cur = <<>> /\ Len(con.cur) = 0
        BY <3>1, <3>3 DEF After
      <4>5. CASE Len(msg) = 1
        <5>1. ~Writes(t)'
          BY <1>1, <4>1, <4>5 DEF Writes, IInv, Placed, Threads, PutPlaces, FlushPlaces
        <5>2. Still'
          BY <1>6, <2>4, <3>1, <4>4 DEF Still, Begins
        <5>3. QED BY <4>3, <5>1, <5>2
      <4>6. CASE Len(msg) # 1
        <5>1. th'[t].at = "cput" /\ th[t].from # "take"
          BY <3>1, <4>1, <4>6 DEF After
        <5>2. Ahead(t)' = 0
          BY <4>1, <5>1 DEF Ahead
        <5>3. Filling(t)'
          BY <1>6, <2>4, <3>1, <4>4, <5>1, <5>2 DEF Filling
        <5>4. Messages(t)'
          BY <4>1, <4>2, <4>6, <5>1 DEF Messages
        <5>5. QED BY <4>3, <5>1, <5>3, <5>4 DEF Writing, Writes, PutPlaces, FlushPlaces
      <4>7. QED BY <4>5, <4>6
    <3>4. CASE msg[1] # NL
      <4>1. /\ th'[t].msg = msg /\ th'[t].from = th[t].from
            /\ th'[t].at = "store" /\ th'[t].i = 0
            /\ \A u \in Threads : th'[u].msg = th[u].msg
        BY <1>2, <2>5, <2>7, <3>1, <3>2, <3>4
      <4>2. Shapes'
        BY <1>1, <1>6, <2>2, <4>1 DEF Shapes
      <4>3. con.cur = <<msg[1]>> /\ th[t].from # "take"
        BY <1>1, <3>1, <3>2, <3>4 DEF After, Messages, PutPlaces
      <4>4. Ahead(t)' = 1
        BY <4>1, <4>3 DEF Ahead
      <4>5. Len(con.cur) = 1 /\ con.cur[1] = msg[1]
        BY <4>3
      <4>6. Filling(t)'
        BY <1>2, <1>6, <2>4, <3>1, <3>4, <4>1, <4>4, <4>5 DEF Filling
      <4>7. Messages(t)'
        BY <3>1, <4>1, <4>3 DEF Messages
      <4>8. QED BY <4>1, <4>2, <4>6, <4>7 DEF Writing, Writes, PutPlaces, FlushPlaces
    <3>5. QED BY <3>3, <3>4
  <2>8. QED BY <2>6, <2>7
<1>9. QED BY <1>7, <1>8

\* The character is stored where cputlen says, which is in cputbuf, and counted.
LEMMA StoreWrites ==
  ASSUME ScreenInv, NEW t \in Threads, Store(t)
  PROVE  Shapes' /\ Writing(t)' /\ fault' = fault
<1>1. /\ IInv /\ Shapes /\ th[t].at = "store" /\ Messages(t) /\ Filling(t)
  BY DEF ScreenInv, Screen, Store, At, Writes, Writing, PutPlaces
<1>2. /\ DOMAIN th = Threads /\ DOMAIN th[t] = {"at", "msg", "from", "i", "src"}
      /\ MaxLine \in Nat /\ cputlen \in 0..MaxLine /\ th[t].i = cputlen /\ cputlen < MaxLine
      /\ th[t].msg \in Seq(Glyphs) /\ th[t].msg # <<>> /\ Head(th[t].msg) = th[t].msg[1]
      /\ Len(th[t].msg) > 0
  BY <1>1, Shaped DEF Filling, Messages
<1>3. th[t].msg[1] \in Chars
  BY <1>2, ElementOfSeq DEF Glyphs
<1>4. /\ cputbuf' = [cputbuf EXCEPT ![cputlen] = th[t].msg[1]] /\ fault' = fault
      /\ UNCHANGED <<cputlen, outputlines, con>>
  BY <1>2 DEF Store, Write
<1>5. /\ th'[t].at = "bump" /\ th'[t].msg = th[t].msg /\ th'[t].from = th[t].from
      /\ th'[t].i = th[t].i /\ \A u \in Threads : th'[u].msg = th[u].msg
  BY <1>2 DEF Store, Go
<1>6. /\ cputbuf' \in [0..MaxLine -> Chars] /\ cputbuf'[cputlen] = th[t].msg[1]
      /\ \A k \in 1..cputlen : cputbuf'[k - 1] = cputbuf[k - 1]
  BY <1>1, <1>2, <1>3, <1>4 DEF Shapes
<1>7. Shapes'
  BY <1>1, <1>4, <1>5, <1>6 DEF Shapes
<1>8. Ahead(t)' = Ahead(t)
  BY <1>1, <1>5 DEF Ahead
<1>9. Filling(t)'
  BY <1>1, <1>2, <1>4, <1>5, <1>6, <1>8 DEF Filling, RowsShow
<1>10. Messages(t)'
  BY <1>1, <1>5 DEF Messages, PutPlaces
<1>11. QED BY <1>4, <1>5, <1>7, <1>9, <1>10 DEF Writing, FlushPlaces

LEMMA BumpWrites ==
  ASSUME ScreenInv, NEW t \in Threads, Bump(t)
  PROVE  Shapes' /\ (IF Writes(t)' THEN Writing(t)' ELSE Still')
<1>0. PICK msg, cur, len, size :
          msg = th[t].msg /\ cur = con.cur /\ len = cputlen /\ size = Len(msg)
  OBVIOUS
<1>1. /\ IInv /\ Shapes /\ th[t].at = "bump" /\ Messages(t) /\ Filling(t)
  BY DEF ScreenInv, Screen, Bump, At, Writes, Writing, PutPlaces
<1>2. /\ DOMAIN th = Threads /\ DOMAIN th[t] = {"at", "msg", "from", "i", "src"}
      /\ MaxLine \in Nat /\ len \in 0..MaxLine /\ len \in Nat /\ len < MaxLine /\ th[t].i = len
      /\ msg \in Seq(Glyphs) /\ msg # <<>> /\ size \in Nat /\ size > 0
  BY <1>0, <1>1, Shaped DEF Filling, Messages
<1>3. /\ RowsShow(0, NLines - 1) /\ Len(cur) = len + Ahead(t)
      /\ \A k \in 1..len : cputbuf[k - 1] = cur[k]
      /\ \A j \in 1..Ahead(t) : cur[len + j] = msg[j]
      /\ msg[1] # NL /\ cputbuf[len] = msg[1]
  BY <1>0, <1>1 DEF Filling
<1>4. cputlen' = len + 1 /\ UNCHANGED <<cputbuf, outputlines, con>>
  BY <1>2 DEF Bump
<1>5. /\ th'[t].msg = Tail(msg) /\ th'[t].from = th[t].from
      /\ th'[t].at = IF size = 1 THEN th[t].from ELSE "cput"
      /\ \A u \in Threads : u # t => th'[u].msg = th[u].msg
  BY <1>0, <1>2 DEF Bump, AfterChar
<1>6. /\ Tail(msg) \in Seq(Glyphs) /\ Len(Tail(msg)) = size - 1
      /\ \A k \in 1..(size - 1) : Tail(msg)[k] = msg[k + 1]
      /\ size # 1 => Tail(msg) # <<>>
  BY <1>0, <1>2, TailOf
<1>7. Shapes'
  <2>1. cputlen' \in 0..MaxLine
    BY <1>2, <1>4
  <2>2. \A u \in Threads : th'[u].msg \in Seq(Glyphs)
    BY <1>1, <1>5, <1>6 DEF Shapes
  <2>3. QED BY <1>1, <1>4, <2>1, <2>2 DEF Shapes
<1>8. Ahead(t) >= 1 /\ Ahead(t) \in Nat /\ 1 \in 1..Ahead(t)
      /\ (th[t].from = "take" => Ahead(t) = size - 1 /\ size # 1)
      /\ (th[t].from # "take" => Ahead(t) = 1)
  <2>1. CASE th[t].from = "take"
    <3>1. Ahead(t) = size - 1 /\ msg[size] = NL
      BY <1>0, <1>1, <2>1 DEF Ahead, Messages, PutPlaces
    <3>2. size # 1
      BY <1>3, <3>1
    <3>3. size - 1 >= 1 /\ size - 1 \in Nat
      BY <1>2, <3>2
    <3>4. QED BY <2>1, <3>1, <3>2, <3>3
  <2>2. CASE th[t].from # "take"
    BY <1>1, <2>2 DEF Ahead
  <2>3. QED BY <2>1, <2>2
<1>9. \A k \in 1..(len + 1) : cputbuf[k - 1] = cur[k]
  <2> SUFFICES ASSUME NEW k \in 1..(len + 1) PROVE cputbuf[k - 1] = cur[k]
    OBVIOUS
  <2>1. CASE k = len + 1
    <3>1. cur[len + 1] = msg[1]
      BY <1>3, <1>8
    <3>2. k - 1 = len
      BY <1>2, <2>1
    <3>3. QED BY <1>3, <2>1, <3>1, <3>2
  <2>2. CASE k # len + 1
    BY <1>2, <1>3, <2>2
  <2>3. QED BY <2>1, <2>2
<1>10. CASE size = 1
  <2>1. th[t].from # "take" /\ Len(cur) = len + 1
    BY <1>3, <1>8, <1>10
  <2>2. ~Writes(t)'
    BY <1>1, <1>5, <1>10 DEF Writes, IInv, Placed, Threads, PutPlaces, FlushPlaces
  <2>3. Still'
    BY <1>0, <1>3, <1>4, <1>9, <2>1 DEF Still, Begins, RowsShow
  <2>4. QED BY <1>7, <2>2, <2>3
<1>11. CASE size # 1
  <2>1. th'[t].at = "cput" /\ th'[t].msg # <<>>
    BY <1>5, <1>6, <1>11
  <2>2. Ahead(t)' = Ahead(t) - 1
    <3>1. CASE th[t].from = "take"
      BY <1>2, <1>5, <1>6, <1>8, <3>1 DEF Ahead
    <3>2. CASE th[t].from # "take"
      BY <1>5, <1>8, <2>1, <3>2 DEF Ahead
    <3>3. QED BY <3>1, <3>2
  <2>3. \A j \in 1..(Ahead(t) - 1) : cur[len + 1 + j] = Tail(msg)[j]
    <3> SUFFICES ASSUME NEW j \in 1..(Ahead(t) - 1) PROVE cur[len + 1 + j] = Tail(msg)[j]
      OBVIOUS
    <3>1. th[t].from = "take" /\ Ahead(t) = size - 1
      BY <1>8
    <3>2. j + 1 \in 1..Ahead(t) /\ len + (j + 1) = len + 1 + j /\ j \in 1..(size - 1)
      BY <1>2, <1>8, <3>1
    <3>3. QED BY <1>3, <1>6, <3>2
  <2>4. Len(cur) = len + 1 + (Ahead(t) - 1)
    BY <1>2, <1>3, <1>8
  <2>5. Filling(t)'
    BY <1>0, <1>3, <1>4, <1>5, <1>9, <2>1, <2>2, <2>3, <2>4 DEF Filling, RowsShow
  <2>6. Messages(t)'
    <3>1. ASSUME th[t].from = "take"
          PROVE  Tail(msg)[Len(Tail(msg))] = NL
      <4>1. msg[size] = NL
        BY <1>0, <1>1, <3>1 DEF Messages, PutPlaces
      <4>2. size - 1 \in 1..(size - 1) /\ size - 1 + 1 = size
        BY <1>2, <1>11
      <4>3. QED BY <1>6, <4>1, <4>2
    <3>2. QED BY <1>5, <2>1, <3>1 DEF Messages
  <2>7. QED BY <1>7, <2>1, <2>5, <2>6 DEF Writing, Writes, PutPlaces, FlushPlaces
<1>12. QED BY <1>10, <1>11

\* p_cput and p_pushoutput, in either thread.
LEMMA PuttingWrites ==
  ASSUME ScreenInv, NEW t \in Threads, Putting(t)
  PROVE  Shapes' /\ fault' = fault /\ (IF Writes(t)' THEN Writing(t)' ELSE Still')
<1> USE DEF Writes, PutPlaces
<1>1. /\ DOMAIN th = Threads /\ DOMAIN th[t] = {"at", "msg", "from", "i", "src"}
  BY Shaped DEF ScreenInv
<1>2. CASE Cput(t)
  <2>1. th'[t].at \in {"terminate", "store"} /\ fault' = fault
    BY <1>1, <1>2 DEF Cput
  <2>2. QED BY <1>2, <2>1, CputWrites
<1>3. CASE Terminate(t)
  <2>1. th'[t].at = "reset"
    BY <1>1, <1>3 DEF Terminate, Go
  <2>2. QED BY <1>3, <2>1, TerminateWrites
<1>4. CASE Reset(t)
  <2>1. th'[t].at = "shift" /\ fault' = fault
    BY <1>1, <1>4 DEF Reset
  <2>2. QED BY <1>4, <2>1, ResetWrites
<1>5. CASE Shift(t)
  <2>1. th'[t].at \in {"shift", "clear"} /\ fault' = fault
    BY <1>1, <1>5 DEF Shift
  <2>2. QED BY <1>5, <2>1, ShiftWrites
<1>6. CASE Clear(t)
  <2>1. th'[t].at = "copy" /\ fault' = fault
    BY <1>1, <1>6 DEF Clear
  <2>2. QED BY <1>6, <2>1, ClearWrites
<1>7. CASE Copy(t)
  BY <1>7, CopyWrites DEF Copy
<1>8. CASE Store(t)
  <2>1. th'[t].at = "bump"
    BY <1>1, <1>8 DEF Store, Go
  <2>2. QED BY <1>8, <2>1, StoreWrites
<1>9. CASE Bump(t)
  BY <1>9, BumpWrites DEF Bump
<1>10. QED
  BY <1>2, <1>3, <1>4, <1>5, <1>6, <1>7, <1>8, <1>9 DEF Putting

-----------------------------------------------------------------------------
(* The other steps. *)

\* A thread begins to put characters while the terminal is complete.
LEMMA BeginsToPut ==
  ASSUME IInv, Shapes, Still, NEW t \in Threads, UNCHANGED <<cput, outputlines, con>>,
         th'[t].at = "cput", th'[t].from # "take", th'[t].msg # <<>>
  PROVE  Writing(t)'
<1>1. Ahead(t)' = 0 /\ cputlen \in Nat
  BY Shaped DEF Ahead
<1>2. Filling(t)'
  BY <1>1 DEF Still, Filling, RowsShow, Begins, cput
<1>3. QED BY <1>2 DEF Writing, Messages, FlushPlaces

\* A thread begins to push a line of its own.
LEMMA BeginsToPush ==
  ASSUME IInv, Shapes, Still, NEW t \in Threads, NEW text \in Lines, text # <<>>,
         UNCHANGED <<cput, outputlines>>, con' = ShowLine(con, text),
         th'[t].at = "shift", th'[t].from # "take", th'[t].i = NLines - 1, th'[t].src = text
  PROVE  Writing(t)' /\ con'.lines \in [Rows -> Lines] /\ con'.cur = con.cur
         /\ DOMAIN con' = {"lines", "cur"}
<1>1. con.cur \in Lines /\ NLines \in Nat /\ NLines > 1
  BY Shaped
<1>2. con' = [ShowLine(con, text) EXCEPT !.cur = con.cur]
  BY DEF Shapes, ShowLine
<1>3. /\ DOMAIN con' = {"lines", "cur"} /\ con'.cur = con.cur
      /\ con'.lines \in [Rows -> Lines] /\ con'.lines[0] = text
      /\ RowsLag(1, NLines - 1)'
  BY <1>1, <1>2, OnTop DEF Still
<1>4. Pushed(t)'
  BY <1>3 DEF Pushed, Still, Begins, cput
<1>5. NLines - 1 \in 1..(NLines - 1) /\ RowsShow(NLines - 1 + 1, NLines - 1)'
  BY <1>1 DEF RowsShow
<1>6. Pushing(t)'
  BY <1>3, <1>4, <1>5 DEF Pushing
<1>7. QED BY <1>3, <1>6 DEF Writing, Messages, FlushPlaces

\* p_cget terminates a prompt that is pending, resets cputlen and puts the prompt
\* again, with a newline.
LEMMA FlushWrites ==
  ASSUME ScreenInv, NEW t \in Threads, t = "exe",
         FlushTerminate \/ FlushReset \/ FlushAgain
  PROVE  Shapes' /\ Writing(t)' /\ Writes(t)' /\ fault' = fault
<1> USE DEF FlushPlaces
<1>1. /\ IInv /\ Shapes /\ th[t].at \in FlushPlaces /\ Flushing(t) /\ Messages(t)
  BY DEF ScreenInv, Screen, FlushTerminate, FlushReset, FlushAgain, At, Writes, Writing
<1>2. /\ DOMAIN th = Threads /\ DOMAIN th[t] = {"at", "msg", "from", "i", "src"}
      /\ MaxLine \in Nat /\ con.cur \in Seq(Marks) /\ con.cur \in Lines
      /\ Len(con.cur) \in 0..MaxLine /\ cputlen \in 0..MaxLine
  BY <1>1, Shaped
<1>3. CASE FlushTerminate
  <2>1. th[t].at = "fterm" /\ th[t].i = cputlen /\ cputlen = Len(con.cur)
    BY <1>1, <1>3 DEF FlushTerminate, At, Flushing
  <2>2. /\ cputbuf' = [cputbuf EXCEPT ![cputlen] = NUL] /\ fault' = fault
        /\ UNCHANGED <<cputlen, outputlines, con>>
    BY <1>2, <1>3, <2>1 DEF FlushTerminate, Write
  <2>3. th'[t].at = "fzero" /\ \A u \in Threads : th'[u].msg = th[u].msg
    BY <1>2, <1>3 DEF FlushTerminate, Go
  <2>4. /\ cputbuf' \in [0..MaxLine -> Chars] /\ cputbuf'[cputlen] = NUL
    BY <1>1, <1>2, <2>2 DEF Shapes, Chars
  <2>5. Shapes'
    BY <1>1, <2>2, <2>3, <2>4 DEF Shapes
  <2>6. Begins(cputbuf', con.cur)
    BY <1>1, <1>2, <2>1, <2>2 DEF Begins, Flushing, Shapes
  <2>7. Flushing(t)'
    BY <1>1, <2>1, <2>2, <2>3, <2>4, <2>6 DEF Flushing, RowsShow
  <2>8. QED BY <2>2, <2>3, <2>5, <2>7 DEF Writing, Messages, Writes, PutPlaces
<1>4. CASE FlushReset
  <2>1. th[t].at = "fzero"
    BY <1>4 DEF FlushReset, At
  <2>2. /\ cputlen' = 0 /\ UNCHANGED <<cputbuf, outputlines, con, fault>>
    BY <1>4 DEF FlushReset
  <2>3. th'[t].at = "fread" /\ \A u \in Threads : th'[u].msg = th[u].msg
    BY <1>2, <1>4 DEF FlushReset, Go
  <2>4. cputlen' \in 0..MaxLine
    BY <1>2, <2>2
  <2>5. Shapes'
    BY <1>1, <2>2, <2>3, <2>4 DEF Shapes
  <2>6. Flushing(t)'
    BY <1>1, <2>1, <2>2, <2>3 DEF Flushing, RowsShow, Begins
  <2>7. QED BY <2>2, <2>3, <2>5, <2>6 DEF Writing, Messages, Writes, PutPlaces
<1>5. CASE FlushAgain
  <2>1. th[t].at = "fread" /\ cputlen = 0 /\ Begins(cputbuf, con.cur)
        /\ cputbuf[Len(con.cur)] = NUL
    BY <1>1, <1>5 DEF FlushAgain, At, Flushing
  <2>2. Text(cputbuf) = con.cur
    BY <1>2, <2>1, TextIs
  <2>3. /\ UNCHANGED <<cputbuf, cputlen, outputlines, con, fault>>
        /\ th'[t].at = "cput" /\ th'[t].msg = Append(con.cur, NL) /\ th'[t].from = "take"
        /\ \A u \in Threads : u # t => th'[u].msg = th[u].msg
    BY <1>2, <1>5, <2>2 DEF FlushAgain, Say, cput
  <2>4. con.cur \in Seq(Glyphs) /\ NL \in Glyphs
    <3>1. NL \in Glyphs
      BY DEF Glyphs, Chars, NL, NUL
    <3>2. \A k \in 1..Len(con.cur) : con.cur[k] \in Glyphs
      BY <1>2, ElementOfSeq DEF Marks, Glyphs
    <3>3. QED BY <1>2, <3>1, <3>2
  <2>5. /\ Append(con.cur, NL) \in Seq(Glyphs) /\ Append(con.cur, NL) # <<>>
        /\ Len(Append(con.cur, NL)) = Len(con.cur) + 1
        /\ Append(con.cur, NL)[Len(con.cur) + 1] = NL
        /\ \A k \in 1..Len(con.cur) : Append(con.cur, NL)[k] = con.cur[k]
    BY <1>2, <2>4
  <2>6. Shapes'
    <3>1. \A u \in Threads : th'[u].msg \in Seq(Glyphs)
      BY <1>1, <2>3, <2>5 DEF Shapes
    <3>2. QED BY <1>1, <2>3, <3>1 DEF Shapes
  <2>7. Ahead(t)' = Len(con.cur)
    BY <1>2, <2>3, <2>5 DEF Ahead
  <2>8. Filling(t)'
    <3>1. RowsShow(0, NLines - 1)'
      BY <1>1, <2>3 DEF Flushing, RowsShow
    <3>2. Len(con.cur) = 0 + Len(con.cur) /\ \A j \in 1..Len(con.cur) : 0 + j = j
      BY <1>2
    <3>3. QED BY <2>1, <2>3, <2>5, <2>7, <3>1, <3>2 DEF Filling
  <2>9. Messages(t)'
    BY <2>3, <2>5 DEF Messages
  <2>10. QED BY <2>3, <2>6, <2>8, <2>9 DEF Writing, Writes, PutPlaces
<1>6. QED BY <1>3, <1>4, <1>5

\* What a step has to keep.
Complete == Shapes /\ Screen /\ fault = "none"

\* One thread has moved and the other does not write.
LEMMA OfOne ==
  ASSUME NEW t \in Threads, \A u \in Threads \ {t} : ~Writes(u)',
         IF Writes(t)' THEN Writing(t)' ELSE Still'
  PROVE  Screen'
BY DEF Screen

\* A step that touches neither cputbuf nor the terminal.
LEMMA Bystander ==
  ASSUME ScreenInv, UNCHANGED <<cputbuf, cputlen, outputlines, con, fault>>,
         \A u \in Threads : th'[u] = th[u] \/ (~Writes(u) /\ ~Writes(u)'),
         \A u \in Threads : th'[u].msg \in Seq(Glyphs)
  PROVE  Complete'
<1>1. Shapes'
  BY DEF ScreenInv, Shapes
<1>2. Still => Still'
  BY DEF Still, RowsShow, Begins
<1>3. ASSUME NEW u \in Threads, Writes(u)'
      PROVE  Writes(u) /\ Writing(u)'
  <2>1. th'[u] = th[u] /\ Writes(u)
    BY <1>3 DEF Writes
  <2>2. Writing(u)
    BY <2>1 DEF ScreenInv, Screen
  <2>3. (Messages(u) => Messages(u)') /\ (Filling(u) => Filling(u)')
    BY <2>1 DEF Messages, Filling, Ahead, RowsShow
  <2>4. Ending(u) => Ending(u)'
    BY <2>1 DEF Ending, After, RowsLag, Begins
  <2>5. Pushing(u) => Pushing(u)'
    BY <2>1 DEF Pushing, Pushed, After, RowsShow, RowsLag, Begins
  <2>6. Flushing(u) => Flushing(u)'
    BY <2>1 DEF Flushing, RowsShow, Begins
  <2>7. QED BY <2>1, <2>2, <2>3, <2>4, <2>5, <2>6 DEF Writing
<1>4. ASSUME \A u \in Threads : ~Writes(u)'
      PROVE  \A u \in Threads : ~Writes(u)
  BY <1>4 DEF Writes
<1>5. Screen'
  BY <1>2, <1>3, <1>4 DEF ScreenInv, Screen
<1>6. QED BY <1>1, <1>5 DEF ScreenInv, Complete

\* A button prints, or the program does: a thread begins to put or to push.
LEMMA PutsNext ==
  ASSUME ScreenInv, NEW t \in Threads, \A u \in Threads : ~Writes(u),
         \A u \in Threads \ {t} : th'[u] = th[u],
         UNCHANGED <<cputbuf, cputlen, outputlines, fault>>,
         \/ /\ UNCHANGED con /\ th'[t].at = "cput" /\ th'[t].from # "take"
            /\ th'[t].msg \in Seq(Glyphs) /\ th'[t].msg # <<>>
         \/ \E text \in Lines \ {<<>>} :
              /\ con' = ShowLine(con, text) /\ th'[t].at = "shift" /\ th'[t].from # "take"
              /\ th'[t].i = NLines - 1 /\ th'[t].src = text /\ th'[t].msg = th[t].msg
  PROVE  Complete'
<1>1. IInv /\ Shapes /\ Still
  BY DEF ScreenInv, Screen
<1>2. \A u \in Threads \ {t} : ~Writes(u)'
  BY DEF Writes
<1>3. CASE /\ UNCHANGED con /\ th'[t].at = "cput" /\ th'[t].from # "take"
           /\ th'[t].msg \in Seq(Glyphs) /\ th'[t].msg # <<>>
  <2>1. Writing(t)'
    BY <1>1, <1>3, BeginsToPut DEF cput
  <2>2. Shapes'
    BY <1>1, <1>3 DEF Shapes
  <2>3. Screen'
    BY <1>2, <1>3, <2>1, OfOne DEF Writes, PutPlaces
  <2>4. QED BY <2>2, <2>3 DEF ScreenInv, Complete
<1>4. ASSUME NEW text \in Lines \ {<<>>},
             con' = ShowLine(con, text), th'[t].at = "shift", th'[t].from # "take",
             th'[t].i = NLines - 1, th'[t].src = text, th'[t].msg = th[t].msg
      PROVE  Complete'
  <2>1. /\ Writing(t)' /\ con'.lines \in [Rows -> Lines] /\ con'.cur = con.cur
        /\ DOMAIN con' = {"lines", "cur"}
    BY <1>1, <1>4, BeginsToPush DEF cput
  <2>2. Shapes'
    BY <1>1, <1>4, <2>1 DEF Shapes
  <2>3. Screen'
    BY <1>2, <1>4, <2>1, OfOne DEF Writes, PutPlaces
  <2>4. QED BY <2>2, <2>3 DEF ScreenInv, Complete
<1>5. QED BY <1>3, <1>4

\* What the panel prints of its own: no character of it is a NUL.
LEMMA Constants ==
  /\ <<>> \in Seq(Glyphs) /\ <<NL>> \in Seq(Glyphs)
  /\ <<"done">> \in Lines \ {<<>>}
  /\ <<"error", NL>> \in Seq(Glyphs) /\ <<"error", NL>> # <<>>
  /\ \A c \in ProgChars \union {NL} : <<c>> \in Seq(Glyphs) /\ <<c>> # <<>>
  /\ \A l \in InputLines : /\ Append(l, NL) \in Seq(Glyphs) /\ Append(l, NL) # <<>>
                           /\ \A k \in 1..Len(l) : <<l[k]>> \in Seq(Glyphs)
<1>1. {"done", "error", NL} \subseteq Glyphs /\ "done" \in Marks /\ ProgChars \subseteq Glyphs
  BY PanelAssumption DEF Glyphs, Marks, Chars, NL, NUL
<1>2. ASSUME NEW l \in InputLines
      PROVE  /\ Append(l, NL) \in Seq(Glyphs) /\ Append(l, NL) # <<>>
             /\ \A k \in 1..Len(l) : <<l[k]>> \in Seq(Glyphs)
  <2>1. l \in Seq(STRING \ {NL, NUL})
    BY PanelAssumption
  <2>2. ASSUME NEW k \in 1..Len(l) PROVE l[k] \in Glyphs
    <3>1. l[k] # NUL
      BY <2>1, <2>2, ElementOfSeq
    <3>2. k \in DOMAIN l
      BY <2>1, <2>2
    <3>3. QED BY <3>1, <3>2 DEF Glyphs, Chars
  <2>3. l \in Seq(Glyphs)
    BY <2>1, <2>2
  <2>4. Append(l, NL) \in Seq(Glyphs) /\ Len(Append(l, NL)) # 0
    BY <1>1, <2>3
  <2>5. Append(l, NL) # <<>>
    BY <2>4, EmptySeq
  <2>6. \A k \in 1..Len(l) : <<l[k]>> \in Seq(Glyphs)
    BY <2>2
  <2>7. QED BY <2>4, <2>5, <2>6
<1>3. <<"done">> \in Lines \ {<<>>}
  BY <1>1, PanelAssumption DEF Lines
<1>4. QED BY <1>1, <1>2, <1>3

LEMMA ExeCompletes ==
  ASSUME ScreenInv, OneWriter', Exe
  PROVE  Complete'
<1>1. /\ DOMAIN th = Threads /\ "exe" \in Threads
      /\ \A u \in Threads : DOMAIN th[u] = {"at", "msg", "from", "i", "src"}
      /\ \A u \in Threads : th[u].msg \in Seq(Glyphs)
  BY DEF ScreenInv, IInv, Placed, Threads, Shapes
<1>2. CASE Putting("exe")
  <2>1. Writes("exe") /\ \A u \in Threads \ {"exe"} : th'[u] = th[u]
    BY <1>1, <1>2, PuttingAside DEF ScreenInv, Aside, Moves, Writes
  <2>2. \A u \in Threads \ {"exe"} : ~Writes(u) /\ ~Writes(u)'
    BY <1>1, <2>1, Alone DEF ScreenInv, Writes
  <2>3. QED BY <1>1, <1>2, <2>2, PuttingWrites, OfOne DEF ScreenInv, Complete
<1>3. CASE FlushTerminate \/ FlushReset \/ FlushAgain
  <2>1. Writes("exe") /\ \A u \in Threads \ {"exe"} : th'[u] = th[u]
    BY <1>1, <1>3 DEF FlushTerminate, FlushReset, FlushAgain, At, Go, Say, Writes, FlushPlaces
  <2>2. \A u \in Threads \ {"exe"} : ~Writes(u) /\ ~Writes(u)'
    BY <1>1, <2>1, Alone DEF ScreenInv, Writes
  <2>3. QED BY <1>1, <1>3, <2>2, FlushWrites, OfOne DEF ScreenInv, Complete
<1>4. CASE Lock \/ Give \/ Readln \/ Stop
  <2>1. /\ th'["ui"] = th["ui"] /\ ~Writes("exe") /\ ~Writes("exe")'
        /\ UNCHANGED <<cputbuf, cputlen, outputlines, con, fault>>
        /\ th'["exe"].msg \in {th["exe"].msg, <<>>}
    BY <1>1, <1>4 DEF Lock, Give, Readln, Stop, At, Go, Writes, PutPlaces, FlushPlaces, cput,
                      Threads
  <2>2. \A u \in Threads : th'[u].msg \in Seq(Glyphs)
    BY <1>1, <2>1, Constants DEF Threads
  <2>3. QED BY <2>1, <2>2, Bystander DEF Threads
<1>5. CASE Take
  <2>1. /\ th'["ui"] = th["ui"] /\ ~Writes("exe") /\ ~Writes("exe")'
        /\ UNCHANGED <<cputbuf, cputlen, outputlines, con, fault>>
    BY <1>1, <1>5 DEF Take, NoInput, At, Writes, PutPlaces, FlushPlaces, cput, Threads
  <2>2. th'["exe"].msg \in Seq(Glyphs)
    <3>1. th'["exe"].msg \in {<<>>, <<NL>>} \/ (cgetlen # 0 /\ ~AtEnd /\ th'["exe"].msg = <<InputAt(cgetidx)>>)
      BY <1>1, <1>5 DEF Take, EndOfLine, Threads
    <3>2. ASSUME cgetlen # 0, ~AtEnd
          PROVE  <<InputAt(cgetidx)>> \in Seq(Glyphs)
      <4>1. th["exe"].at = "take" /\ th["ui"].at \notin {"len", "idx"}
        BY <1>5 DEF Take, At, ScreenInv, IInv, MutexHeld, Critical, Threads
      <4>2. cgetlen = Len(cgetbuf) /\ cgetidx \in 0..cgetlen /\ Len(cgetbuf) \in Nat
        BY <3>2, <4>1, LenProperties DEF ScreenInv, InputOK
      <4>3. cgetidx < Len(cgetbuf) /\ cgetidx + 1 \in 1..Len(cgetbuf)
        BY <3>2, <4>2 DEF AtEnd
      <4>4. cgetbuf \in InputLines
        <5>1. Len(cgetbuf) # 0
          BY <3>2, <4>2
        <5>2. cgetbuf # <<>>
          BY <5>1, EmptySeq
        <5>3. QED BY <5>2 DEF ScreenInv, Sent
      <4>5. InputAt(cgetidx) = cgetbuf[cgetidx + 1]
        BY <4>3 DEF InputAt
      <4>6. QED BY <4>3, <4>4, <4>5, Constants
    <3>3. QED BY <3>1, <3>2, Constants
  <2>3. \A u \in Threads : th'[u].msg \in Seq(Glyphs)
    BY <1>1, <2>1, <2>2 DEF Threads
  <2>4. QED BY <2>1, <2>3, Bystander DEF Threads
<1>6. CASE Peek
  <2>1. th["exe"].at = "peek"
    BY <1>6 DEF Peek, At
  <2>2. \A u \in Threads : ~Writes(u)
    BY <2>1, UiWrites DEF ScreenInv, Threads, Writes, PutPlaces, FlushPlaces
  <2>3. /\ th'["ui"] = th["ui"] /\ th'["exe"].i = cputlen
        /\ th'["exe"].at \in {"fterm", "take"} /\ th'["exe"].msg = th["exe"].msg
        /\ UNCHANGED <<cputbuf, cputlen, outputlines, con, fault>>
    BY <1>1, <1>6 DEF Peek, cput, Threads
  <2>4. \A u \in Threads : th'[u].msg \in Seq(Glyphs)
    BY <1>1, <2>3 DEF Threads
  <2>5. CASE th'["exe"].at = "take"
    BY <2>2, <2>3, <2>4, <2>5, Bystander DEF Threads, Writes, PutPlaces, FlushPlaces
  <2>6. CASE th'["exe"].at = "fterm"
    <3>1. Still
      BY <2>2 DEF ScreenInv, Screen
    <3>2. Flushing("exe")'
      BY <2>3, <2>6, <3>1 DEF Still, Flushing, RowsShow, Begins
    <3>3. Writing("exe")' /\ Writes("exe")'
      BY <2>6, <3>2 DEF Writing, Messages, Writes, PutPlaces, FlushPlaces
    <3>4. \A u \in Threads \ {"exe"} : ~Writes(u)'
      BY <2>2, <2>3 DEF Threads, Writes
    <3>5. Shapes'
      BY <2>3, <2>4 DEF ScreenInv, Shapes
    <3>6. QED BY <1>1, <2>3, <3>3, <3>4, <3>5, OfOne DEF ScreenInv, Complete
  <2>7. QED BY <2>3, <2>5, <2>6
<1>7. CASE PrintChar \/ Finish
  <2>1. th["exe"].at = "run"
    BY <1>7 DEF PrintChar, Finish, At
  <2>2. \A u \in Threads : ~Writes(u)
    BY <2>1, UiWrites DEF ScreenInv, Threads, Writes, PutPlaces, FlushPlaces
  <2>3. /\ \A u \in Threads \ {"exe"} : th'[u] = th[u]
        /\ UNCHANGED <<cputbuf, cputlen, outputlines, fault>>
    <3>1. CASE PrintChar
      <4>1. PICK c \in ProgChars \union {NL} : Say("exe", <<c>>, "run")
        BY <3>1 DEF PrintChar
      <4>2. QED BY <1>1, <3>1, <4>1 DEF PrintChar, Say, cput
    <3>2. CASE Finish
      BY <1>1, <3>2 DEF Finish, Say, Push, cput
    <3>3. QED BY <1>7, <3>1, <3>2
  <2>4. \/ /\ UNCHANGED con /\ th'["exe"].at = "cput" /\ th'["exe"].from # "take"
           /\ th'["exe"].msg \in Seq(Glyphs) /\ th'["exe"].msg # <<>>
        \/ \E text \in Lines \ {<<>>} :
             /\ con' = ShowLine(con, text) /\ th'["exe"].at = "shift" /\ th'["exe"].from # "take"
             /\ th'["exe"].i = NLines - 1 /\ th'["exe"].src = text /\ th'["exe"].msg = th["exe"].msg
    <3>1. CASE PrintChar
      <4>1. PICK c \in ProgChars \union {NL} : Say("exe", <<c>>, "run")
        BY <3>1 DEF PrintChar
      <4>2. QED BY <1>1, <3>1, <4>1, Constants DEF PrintChar, Say
    <3>2. CASE Finish
      <4>1. CASE Say("exe", <<"error", NL>>, "stop") /\ UNCHANGED con
        BY <1>1, <4>1, Constants DEF Say
      <4>2. CASE Push("exe", <<"done">>, "stop")
        BY <1>1, <4>2, Constants DEF Push
      <4>3. QED BY <3>2, <4>1, <4>2 DEF Finish
    <3>3. QED BY <1>7, <3>1, <3>2
  <2>5. QED BY <1>1, <2>2, <2>3, <2>4, PutsNext
<1>8. QED
  BY <1>2, <1>3, <1>4, <1>5, <1>6, <1>7 DEF Exe

LEMMA UiCompletes ==
  ASSUME ScreenInv, Ui \/ ClickTool \/ ClickSend
  PROVE  Complete'
<1>1. /\ DOMAIN th = Threads /\ "ui" \in Threads
      /\ \A u \in Threads : DOMAIN th[u] = {"at", "msg", "from", "i", "src"}
      /\ \A u \in Threads : th[u].msg \in Seq(Glyphs)
  BY DEF ScreenInv, IInv, Placed, Threads, Shapes
<1>2. CASE Putting("ui")
  <2>1. Writes("ui") /\ \A u \in Threads \ {"ui"} : th'[u] = th[u]
    BY <1>1, <1>2, PuttingAside DEF ScreenInv, Aside, Moves, Writes
  <2>2. \A u \in Threads \ {"ui"} : ~Writes(u) /\ ~Writes(u)'
    BY <1>1, <2>1, Alone DEF ScreenInv, Writes
  <2>3. QED BY <1>1, <1>2, <2>2, PuttingWrites, OfOne DEF ScreenInv, Complete
<1>3. CASE ClickSend \/ SendLock \/ SendBuf \/ SendLen \/ SendDone
  <2>1. /\ th'["exe"] = th["exe"] /\ ~Writes("ui") /\ ~Writes("ui")'
        /\ UNCHANGED <<cputbuf, cputlen, outputlines, con, fault>>
        /\ th'["ui"].msg = th["ui"].msg
    BY <1>1, <1>3 DEF ClickSend, SendLock, SendBuf, SendLen, SendDone, At, Go, Writes,
                      PutPlaces, FlushPlaces, cput, Threads
  <2>2. \A u \in Threads : th'[u].msg \in Seq(Glyphs)
    BY <1>1, <2>1 DEF Threads
  <2>3. QED BY <2>1, <2>2, Bystander DEF Threads
<1>4. CASE SendIdx
  <2>1. th["ui"].at = "idx" /\ th["exe"].at = "read" /\ inputline \in InputLines
    BY <1>4 DEF SendIdx, At, ScreenInv, OneWriter, InputOK
  <2>2. \A u \in Threads : ~Writes(u)
    BY <2>1 DEF Threads, Writes, PutPlaces, FlushPlaces
  <2>3. /\ \A u \in Threads \ {"ui"} : th'[u] = th[u]
        /\ UNCHANGED <<cputbuf, cputlen, outputlines, fault, con>>
        /\ th'["ui"].at = "cput" /\ th'["ui"].from = "sent"
        /\ th'["ui"].msg = Append(inputline, NL)
    BY <1>1, <1>4 DEF SendIdx, Say, cput
  <2>4. QED BY <1>1, <2>1, <2>2, <2>3, Constants, PutsNext
<1>5. CASE Inspect \/ Execute \/ Create
  <2>1. th["ui"].at \in {"inspect", "execute", "create"} /\ th["exe"].at = "none"
    BY <1>5 DEF Inspect, Execute, Create, At, ScreenInv, IInv, OneProgram
  <2>2. \A u \in Threads : ~Writes(u)
    BY <2>1 DEF Threads, Writes, PutPlaces, FlushPlaces
  <2>3. UNCHANGED <<cputbuf, cputlen, outputlines, fault>>
    BY <1>5 DEF Inspect, Execute, Create, cput
  <2>4. CASE \/ Execute /\ Go("ui", "create")
             \/ Create /\ th' = [th EXCEPT !["ui"].at = "idle", !["exe"].at = "run"]
    <3>1. /\ \A u \in Threads : ~Writes(u)' /\ th'[u].msg = th[u].msg
      BY <1>1, <2>1, <2>4 DEF Go, Threads, Writes, PutPlaces, FlushPlaces
    <3>2. UNCHANGED con
      BY <2>4 DEF Execute, Create
    <3>3. QED BY <1>1, <2>2, <2>3, <3>1, <3>2, Bystander
  <2>5. CASE Say("ui", <<"error", NL>>, "idle") /\ UNCHANGED con
    <3>1. /\ \A u \in Threads \ {"ui"} : th'[u] = th[u]
          /\ th'["ui"].at = "cput" /\ th'["ui"].from = "idle"
          /\ th'["ui"].msg = <<"error", NL>>
      BY <1>1, <2>5 DEF Say
    <3>2. QED BY <1>1, <2>2, <2>3, <2>5, <3>1, Constants, PutsNext
  <2>6. CASE Push("ui", <<"done">>, "idle")
    <3>1. /\ \A u \in Threads \ {"ui"} : th'[u] = th[u]
          /\ th'["ui"].at = "shift" /\ th'["ui"].from = "idle" /\ th'["ui"].i = NLines - 1
          /\ th'["ui"].src = <<"done">> /\ th'["ui"].msg = th["ui"].msg
          /\ con' = ShowLine(con, <<"done">>)
      BY <1>1, <2>6 DEF Push
    <3>2. QED BY <1>1, <2>2, <2>3, <3>1, Constants, PutsNext
  <2>7. QED BY <1>5, <2>4, <2>5, <2>6 DEF Inspect, Execute, Create
<1>6. CASE ClickTool
  <2>1. th["ui"].at = "idle" /\ th["exe"].at = "none"
    BY <1>6 DEF ClickTool, At, ScreenInv, IInv, OneProgram
  <2>2. \A u \in Threads : ~Writes(u)
    BY <2>1 DEF Threads, Writes, PutPlaces, FlushPlaces
  <2>3. \A u \in Threads : ~Writes(u)' /\ th'[u].msg = th[u].msg
    BY <1>1, <1>6, <2>1 DEF ClickTool, Go, Threads, Writes, PutPlaces, FlushPlaces
  <2>4. /\ UNCHANGED <<cputbuf, cputlen, fault>>
        /\ outputlines' = [k \in Rows |-> Blank]
        /\ con' = [con EXCEPT !.lines = [k \in Rows |-> <<>>]]
    BY <1>6 DEF ClickTool, ClearOutput, cput
  <2>5. /\ con'.cur = con.cur /\ con'.lines = [k \in Rows |-> <<>>]
        /\ DOMAIN con' = {"lines", "cur"}
    BY <2>4 DEF ScreenInv, Shapes
  <2>6. <<>> \in Lines /\ Blank \in [0..(MaxLine - 1) -> Chars] /\ Text(Blank) = <<>>
    <3>1. MaxLine \in Nat /\ MaxLine > 0
      BY PanelAssumption
    <3>2. <<>> \in Lines
      BY <3>1 DEF Lines
    <3>3. Blank \in [0..(MaxLine - 1) -> Chars] /\ Blank[0] = NUL
      BY <3>1 DEF Blank, Chars
    <3>4. Begins(Blank, <<>>) /\ Len(<<>>) = 0
      BY DEF Begins
    <3>5. QED BY <3>2, <3>3, <3>4, TextIs
  <2>7. Shapes'
    BY <1>1, <2>3, <2>4, <2>5, <2>6 DEF ScreenInv, Shapes
  <2>8. Still'
    <3>1. RowsShow(0, NLines - 1)'
      BY <2>4, <2>5, <2>6 DEF RowsShow, Rows
    <3>2. Still
      BY <2>2 DEF ScreenInv, Screen
    <3>3. QED BY <2>4, <2>5, <3>1, <3>2 DEF Still, Begins
  <2>9. QED BY <2>3, <2>4, <2>7, <2>8 DEF ScreenInv, Screen, Complete
<1>7. QED BY <1>2, <1>3, <1>4, <1>5, <1>6 DEF Ui

\* The invariant of the terminal is inductive.
LEMMA InitScreen == ASSUME Init PROVE ScreenInv
<1>1. IInv
  BY InitIInv
<1>2. InputOK
  BY EmptySeq DEF Init, InputOK, Threads
<1>3. MaxLine \in Nat /\ MaxLine > 0 /\ NLines \in Nat /\ NLines > 1
  BY PanelAssumption
<1>4. <<>> \in Lines /\ Len(<<>>) = 0 /\ Blank \in [0..(MaxLine - 1) -> Chars] /\ Text(Blank) = <<>>
  <2>1. <<>> \in Lines /\ Len(<<>>) = 0
    BY <1>3 DEF Lines
  <2>2. Blank \in [0..(MaxLine - 1) -> Chars] /\ Blank[0] = NUL
    BY <1>3 DEF Blank, Chars
  <2>3. Begins(Blank, <<>>)
    BY DEF Begins
  <2>4. QED BY <2>1, <2>2, <2>3, TextIs
<1>5. \A t \in Threads : th[t].at \in {"idle", "none"} /\ th[t].msg = <<>>
  BY DEF Init
<1>6. Shapes
  <2>1. cputbuf \in [0..MaxLine -> Chars] /\ cputlen \in 0..MaxLine
    BY <1>3 DEF Init, Chars
  <2>2. outputlines \in [Rows -> [0..(MaxLine - 1) -> Chars]]
    BY <1>4 DEF Init
  <2>3. con.lines \in [Rows -> Lines] /\ con.cur \in Lines /\ DOMAIN con = {"lines", "cur"}
    BY <1>4 DEF Init
  <2>4. \A t \in Threads : th[t].msg \in Seq(Glyphs)
    BY <1>5, Constants
  <2>5. QED BY <2>1, <2>2, <2>3, <2>4 DEF Shapes
<1>7. \A t \in Threads : ~Writes(t)
  BY <1>5 DEF Writes, PutPlaces, FlushPlaces
<1>8. Still
  BY <1>4 DEF Init, Still, RowsShow, Begins, Rows
<1>9. OneWriter
  BY <1>5 DEF OneWriter, Threads, PutPlaces, Init
<1>10. QED BY <1>1, <1>2, <1>6, <1>7, <1>8, <1>9 DEF ScreenInv, Screen, Sent, Init

LEMMA NextScreen ==
  ASSUME Patient, ScreenInv, [Next]_vars
  PROVE  ScreenInv'
<1>1. IInv' /\ OneWriter'
  BY NextIInv, OneWriterKept DEF ScreenInv
<1>2. CASE Exe
  <2>1. InputOK' /\ Complete'
    BY <1>1, <1>2, ExeMaps, ExeCompletes DEF ScreenInv
  <2>2. cgetbuf' = cgetbuf
    BY <1>2, PuttingAside DEF ScreenInv, Exe, Aside, Lock, Peek, FlushTerminate, FlushReset, FlushAgain,
       Take, Give, PrintChar, Readln, Finish, Stop, cget, Threads
  <2>3. QED BY <1>1, <2>1, <2>2 DEF ScreenInv, Complete, Sent
<1>3. CASE Ui \/ ClickTool \/ ClickSend
  <2>1. InputOK' /\ Complete'
    BY <1>3, UiMaps, UiCompletes DEF ScreenInv
  <2>2. Sent'
    <3>1. CASE SendBuf
      BY <3>1 DEF SendBuf, At, ScreenInv, InputOK, Sent
    <3>2. CASE ~SendBuf
      <4>1. cgetbuf' = cgetbuf
        BY <1>3, <3>2, PuttingAside DEF ScreenInv, Ui, Aside, Inspect, Execute, Create, SendLock,
           SendLen, SendIdx, SendDone, ClickTool, ClickSend, cget, Threads
      <4>2. QED BY <4>1 DEF ScreenInv, Sent
    <3>3. QED BY <3>1, <3>2
  <2>3. QED BY <1>1, <2>1, <2>2 DEF ScreenInv, Complete
<1>4. CASE Rest \/ UNCHANGED vars
  <2>1. UNCHANGED <<cputbuf, cputlen, cgetbuf, cgetlen, cgetidx, inputline, outputlines, th, line,
                    fault, con>>
    BY <1>4 DEF Rest, vars, cput, cget
  <2>2. InputOK' /\ Sent'
    BY <2>1 DEF ScreenInv, InputOK, Sent
  <2>3. \A u \in Threads : th'[u].msg \in Seq(Glyphs)
    BY <2>1 DEF ScreenInv, Shapes
  <2>4. Complete'
    BY <2>1, <2>3, Bystander
  <2>5. QED BY <1>1, <2>2, <2>4 DEF ScreenInv, Complete
<1>5. QED BY <1>2, <1>3, <1>4 DEF Next

\* While the user sends only to a program that waits, no write of p_cput or p_cget is
\* outside of cputbuf, whatever is printed, flushed and echoed.
THEOREM WritesInside ==
  ASSUME Patient
  PROVE  Spec => []NoOverflow
<1>1. Init => ScreenInv
  BY InitScreen
<1>2. ScreenInv /\ [Next]_vars => ScreenInv'
  BY NextScreen
<1>3. ScreenInv => NoOverflow
  BY DEF ScreenInv, NoOverflow
<1>4. QED BY <1>1, <1>2, <1>3, PTL DEF Spec

\* And when nothing is being put, the terminal shows the newest lines in full and in
\* order, and cputbuf holds the unfinished line.
THEOREM TerminalComplete ==
  ASSUME Patient
  PROVE  Spec => []OutputComplete
<1>1. Init => ScreenInv
  BY InitScreen
<1>2. ScreenInv /\ [Next]_vars => ScreenInv'
  BY NextScreen
<1>3. ScreenInv => OutputComplete
  <2> SUFFICES ASSUME ScreenInv, Quiet PROVE OutputComplete
    BY DEF OutputComplete
  <2>1. Still
    BY DEF ScreenInv, Screen, Quiet, Writes
  <2>2. \A k \in Rows : Text(outputlines[k]) = con.lines[k]
    BY <2>1 DEF Still, RowsShow, Rows
  <2>3. QED BY <2>1, <2>2 DEF Still, Begins, OutputComplete
<1>4. QED BY <1>1, <1>2, <1>3, PTL DEF Spec

-----------------------------------------------------------------------------
(* The types, whatever the user does. *)

\* What a thread counts and keeps, by where it is.
Ranges(t) ==
  /\ th[t].src \in {<<>>, <<"done">>}
  /\ th[t].at \in {"cput", "terminate", "reset", "store", "bump"} => th[t].msg # <<>>
  /\ th[t].at \in {"shift", "clear", "copy"} /\ th[t].src = <<>> => th[t].msg # <<>>
  /\ th[t].at \in {"terminate", "fterm", "store"} => th[t].i \in 0..(MaxLine + 1)
  /\ th[t].at = "shift" => th[t].i \in 1..(NLines - 1)
  /\ th[t].at = "copy" => th[t].i \in 0..MaxLine
  /\ th[t].at = "bump" /\ fault = "none" => th[t].i \in 0..MaxLine

TypeInv == IInv /\ InputOK /\ TypeOK /\ \A t \in Threads : Ranges(t)

\* The text an array holds is made of its characters.
LEMMA TextTyped ==
  ASSUME NEW a \in [0..MaxLine -> Chars]
  PROVE  Text(a) \in Seq(Chars)
<1> DEFINE Ends(k) == (k = MaxLine \/ a[k] = NUL) /\ \A j \in 0..(k - 1) : a[j] # NUL
           Stops == {k \in 0..MaxLine : k = MaxLine \/ a[k] = NUL}
           n == CHOOSE k \in 0..MaxLine : Ends(k)
<1>1. MaxLine \in Nat
  BY PanelAssumption
<1>2. PICK m \in Stops : \A k \in Stops : ~(k < m)
  <2>1. Stops \in SUBSET Nat /\ MaxLine \in Stops
    BY <1>1
  <2>2. PICK m \in Stops : \A k \in Stops : ~(<<k, m>> \in OpToRel(<, Nat))
    <3> HIDE DEF Stops
    <3>1. QED BY <2>1, NatLessThanWellFounded, WFMin
  <2>3. QED BY <2>1, <2>2 DEF OpToRel
<1>3. Ends(m) /\ m \in 0..MaxLine
  <2>1. \A j \in 0..(m - 1) : j \in 0..MaxLine /\ j < m
    BY <1>1
  <2>2. QED BY <1>2, <2>1
<1>4. n \in 0..MaxLine
  BY <1>3
<1>5. \A k \in 1..n : a[k - 1] \in Chars
  <2> HIDE DEF n
  <2> SUFFICES ASSUME NEW k \in 1..n PROVE a[k - 1] \in Chars
    OBVIOUS
  <2>1. k - 1 \in 0..MaxLine
    BY <1>1, <1>4
  <2>2. QED BY <2>1
<1>6. [k \in 1..n |-> a[k - 1]] \in Seq(Chars)
  <2> HIDE DEF n
  <2>1. n \in Nat
    BY <1>1, <1>4
  <2>2. QED BY <1>5, <2>1
<1>7. QED BY <1>6 DEF Text

\* What a step of one thread leaves as it is keeps its types.
LEMMA OthersTyped ==
  ASSUME TypeInv, NEW t \in Threads, \A u \in Threads \ {t} : th'[u] = th[u], fault = "none",
         th[t].at # "bump" \/ fault' = fault, DOMAIN th' = Threads, IInv', InputOK',
         cputbuf' \in [0..MaxLine -> Chars], cputlen' \in 0..(MaxLine + 1),
         outputlines' \in [Rows -> [0..(MaxLine - 1) -> Chars]],
         fault' \in {"none", "overflow"}, running' \in BOOLEAN, mutex' \in Threads \union {"free"},
         UNCHANGED <<cgetbuf, cgetlen, cgetidx, inputline>>, line' \in Seq(Chars),
         th'[t].at \in Places, th'[t].from \in Places, th'[t].i \in 0..(MaxLine + NLines),
         th'[t].msg \in Seq(Chars), Ranges(t)'
  PROVE  TypeInv'
<1>1. \A u \in Threads \ {t} : Ranges(u)'
  BY DEF TypeInv, Ranges
<1>2. TypeOK'
  BY DEF TypeInv, TypeOK
<1>3. QED BY <1>1, <1>2 DEF TypeInv

LEMMA PuttingTyped ==
  ASSUME TypeInv, NEW t \in Threads, Putting(t), IInv', InputOK'
  PROVE  TypeInv'
<1> DEFINE msg == th[t].msg
<1>1. /\ th[t].at \in PutPlaces /\ Aside(t)
      /\ DOMAIN th = Threads /\ DOMAIN th[t] = {"at", "msg", "from", "i", "src"}
  BY PuttingAside DEF TypeInv, IInv, Placed
<1>2. /\ \A u \in Threads \ {t} : th'[u] = th[u]
      /\ DOMAIN th' = Threads /\ th'[t].from = th[t].from
      /\ th'[t].at \in PutPlaces \union {th[t].from}
      /\ UNCHANGED <<mutex, running, cgetbuf, cgetlen, cgetidx, inputline, line>>
  BY <1>1 DEF Aside, Moves
<1>3. th'[t].at \in Places /\ th'[t].from \in Places
  BY <1>2 DEF TypeInv, TypeOK, Places
<1>4. /\ cputbuf \in [0..MaxLine -> Chars] /\ cputlen \in 0..(MaxLine + 1)
      /\ outputlines \in [Rows -> [0..(MaxLine - 1) -> Chars]]
      /\ th[t].i \in 0..(MaxLine + NLines) /\ msg \in Seq(Chars)
      /\ running' \in BOOLEAN /\ mutex' \in Threads \union {"free"} /\ line' \in Seq(Chars)
      /\ fault \in {"none", "overflow"} /\ Ranges(t)
  BY <1>2 DEF TypeInv, TypeOK
<1>5. MaxLine \in Nat /\ MaxLine > 0 /\ NLines \in Nat /\ NLines > 1
  BY PanelAssumption
<1>6. fault = "none"
  BY DEF Putting, Cput, Terminate, Reset, Shift, Clear, Copy, Store, Bump, At
<1>7. SUFFICES /\ th[t].at # "bump" \/ fault' = fault
               /\ cputbuf' \in [0..MaxLine -> Chars] /\ cputlen' \in 0..(MaxLine + 1)
               /\ outputlines' \in [Rows -> [0..(MaxLine - 1) -> Chars]]
               /\ fault' \in {"none", "overflow"}
               /\ th'[t].i \in 0..(MaxLine + NLines)
               /\ th'[t].msg \in Seq(Chars) /\ Ranges(t)'
  BY <1>2, <1>3, <1>4, <1>6, OthersTyped
<1>8. CASE Cput(t)
  <2>1. /\ th'[t].i = cputlen /\ th'[t].msg = msg /\ th'[t].src = th[t].src
        /\ th'[t].at \in {"terminate", "store"} /\ th[t].at = "cput"
        /\ UNCHANGED <<cputbuf, cputlen, outputlines, fault>>
    BY <1>1, <1>8 DEF Cput, At, cput
  <2>2. Ranges(t)'
    BY <1>4, <2>1 DEF Ranges
  <2>3. cputlen \in 0..(MaxLine + NLines)
    BY <1>4, <1>5
  <2>4. QED BY <1>4, <2>1, <2>2, <2>3
<1>9. CASE Terminate(t) \/ Store(t)
  <2>1. PICK ch \in Chars : Write(th[t].i, ch)
    <3>1. CASE Terminate(t)
      BY <3>1 DEF Terminate, Chars
    <3>2. CASE Store(t)
      <4>1. msg # <<>>
        BY <1>4, <3>2 DEF Store, At, Ranges
      <4>2. Head(msg) \in Chars
        BY <1>4, <4>1, HeadTailProperties
      <4>3. QED BY <3>2, <4>2 DEF Store
    <3>3. QED BY <1>9, <3>1, <3>2
  <2>2. /\ th'[t].i = th[t].i /\ th'[t].msg = msg /\ th'[t].src = th[t].src
        /\ \/ th[t].at = "terminate" /\ th'[t].at = "reset"
           \/ th[t].at = "store" /\ th'[t].at = "bump"
        /\ UNCHANGED <<cputlen, outputlines>>
    BY <1>1, <1>9 DEF Terminate, Store, At, Go
  <2>3. CASE th[t].i \in 0..MaxLine
    <3>1. cputbuf' = [cputbuf EXCEPT ![th[t].i] = ch] /\ fault' = fault
      BY <2>1, <2>3 DEF Write
    <3>2. cputbuf' \in [0..MaxLine -> Chars]
      BY <1>4, <2>1, <3>1
    <3>3. Ranges(t)'
      BY <1>4, <2>2, <2>3 DEF Ranges
    <3>4. QED BY <1>4, <2>2, <3>1, <3>2, <3>3
  <2>4. CASE th[t].i \notin 0..MaxLine
    <3>1. fault' = "overflow" /\ cputbuf' = cputbuf
      BY <2>1, <2>4 DEF Write
    <3>2. Ranges(t)'
      BY <1>4, <2>2, <3>1 DEF Ranges
    <3>3. QED BY <1>4, <2>2, <3>1, <3>2
  <2>5. QED BY <2>3, <2>4
<1>10. CASE Reset(t)
  <2>1. /\ th'[t].i = NLines - 1 /\ th'[t].msg = msg /\ th'[t].src = <<>>
        /\ th'[t].at = "shift" /\ th[t].at = "reset" /\ cputlen' = 0
        /\ UNCHANGED <<cputbuf, outputlines, fault>>
    BY <1>1, <1>10 DEF Reset, At
  <2>2. NLines - 1 \in 1..(NLines - 1) /\ NLines - 1 \in 0..(MaxLine + NLines)
        /\ 0 \in 0..(MaxLine + 1)
    BY <1>5
  <2>3. Ranges(t)'
    BY <1>4, <2>1, <2>2 DEF Ranges
  <2>4. QED BY <1>4, <2>1, <2>2, <2>3
<1>11. CASE Shift(t)
  <2> DEFINE i == th[t].i
  <2>1. th[t].at = "shift" /\ i \in 1..(NLines - 1)
    BY <1>4, <1>11 DEF Shift, At, Ranges
  <2>2. /\ th'[t].i = i - 1 /\ th'[t].msg = msg /\ th'[t].src = th[t].src
        /\ th'[t].at = IF i = 1 THEN "clear" ELSE "shift"
        /\ outputlines' = [outputlines EXCEPT ![i] = outputlines[i - 1]]
        /\ UNCHANGED <<cputbuf, cputlen, fault>>
    BY <1>1, <1>11 DEF Shift, cput
  <2>3. i \in Rows /\ i - 1 \in Rows /\ i - 1 \in 0..(MaxLine + NLines)
        /\ (i # 1 => i - 1 \in 1..(NLines - 1))
    BY <1>5, <2>1 DEF Rows
  <2>4. outputlines' \in [Rows -> [0..(MaxLine - 1) -> Chars]]
    BY <1>4, <2>2, <2>3
  <2>5. Ranges(t)'
    BY <1>4, <2>1, <2>2, <2>3 DEF Ranges
  <2>6. QED BY <1>4, <2>2, <2>3, <2>4, <2>5
<1>12. CASE Clear(t)
  <2>1. /\ th'[t].i = 0 /\ th'[t].msg = msg /\ th'[t].src = th[t].src
        /\ th'[t].at = "copy" /\ th[t].at = "clear"
        /\ outputlines' = [outputlines EXCEPT ![0] = Blank]
        /\ UNCHANGED <<cputbuf, cputlen, fault>>
    BY <1>1, <1>12 DEF Clear, At, cput
  <2>2. 0 \in Rows /\ 0 \in 0..(MaxLine + NLines) /\ 0 \in 0..MaxLine
        /\ Blank \in [0..(MaxLine - 1) -> Chars]
    BY <1>5 DEF Rows, Blank, Chars
  <2>3. outputlines' \in [Rows -> [0..(MaxLine - 1) -> Chars]]
    BY <1>4, <2>1, <2>2
  <2>4. Ranges(t)'
    BY <1>4, <2>1, <2>2 DEF Ranges
  <2>5. QED BY <1>4, <2>1, <2>2, <2>3, <2>4
<1>13. CASE Copy(t)
  <2> DEFINE i == th[t].i
  <2>1. th[t].at = "copy" /\ i \in 0..MaxLine /\ UNCHANGED <<cputbuf, cputlen, fault>>
    BY <1>4, <1>13 DEF Copy, At, Ranges, cput
  <2>2. CASE i < MaxLine /\ Source(t)[i] # NUL
    <3>1. /\ th'[t].i = i + 1 /\ th'[t].msg = msg /\ th'[t].src = th[t].src /\ th'[t].at = "copy"
          /\ outputlines' = [outputlines EXCEPT ![0][i] = Source(t)[i]]
      BY <1>1, <1>13, <2>1, <2>2 DEF Copy
    <3>2. Source(t)[i] \in Chars
      <4>1. CASE th[t].src = <<>>
        BY <1>4, <2>1, <4>1 DEF Source
      <4>2. CASE th[t].src = <<"done">>
        <5>1. Source(t) = Array(<<"done">>) /\ NUL \in Chars /\ "done" \in Chars
          BY <4>2 DEF Source, Chars
        <5>2. Array(<<"done">>)[i] = IF i < 1 THEN <<"done">>[i + 1] ELSE NUL
          BY <2>1 DEF Array
        <5>3. i < 1 => <<"done">>[i + 1] = "done"
          BY <1>5, <2>1
        <5>4. QED BY <5>1, <5>2, <5>3
      <4>3. QED BY <1>4, <4>1, <4>2 DEF Ranges
    <3>3. 0 \in Rows /\ i \in 0..(MaxLine - 1) /\ i + 1 \in 0..MaxLine
          /\ i + 1 \in 0..(MaxLine + NLines)
      BY <1>5, <2>1, <2>2 DEF Rows
    <3>4. outputlines' \in [Rows -> [0..(MaxLine - 1) -> Chars]]
      BY <1>4, <3>1, <3>2, <3>3
    <3>5. Ranges(t)'
      BY <1>4, <2>1, <3>1, <3>3 DEF Ranges
    <3>6. QED BY <1>4, <2>1, <3>1, <3>3, <3>4, <3>5
  <2>3. CASE ~(i < MaxLine /\ Source(t)[i] # NUL)
    <3>1. outputlines' = outputlines
      BY <1>13, <2>3 DEF Copy
    <3>2. PICK n \in {0, cputlen} :
          th' = [th EXCEPT ![t] =
                    IF th[t].src # <<>> THEN [@ EXCEPT !.at = th[t].from]
                    ELSE IF Head(th[t].msg) = NL THEN AfterChar(t, @)
                    ELSE [@ EXCEPT !.at = "store", !.i = n]]
      BY <1>13, <2>3 DEF Copy
    <3>3. n \in 0..(MaxLine + 1) /\ n \in 0..(MaxLine + NLines)
      BY <1>4, <1>5
    <3>4. CASE th[t].src # <<>>
      <4>1. /\ th'[t].i = i /\ th'[t].msg = msg /\ th'[t].src = th[t].src
            /\ th'[t].at = th[t].from
        BY <1>1, <3>2, <3>4
      <4>2. th[t].from \in {"run", "stop", "take", "idle", "sent"}
        BY <1>1 DEF TypeInv, IInv, Placed, Threads
      <4>3. Ranges(t)'
        BY <1>4, <4>1, <4>2 DEF Ranges
      <4>4. QED BY <1>4, <2>1, <3>1, <4>1, <4>3
    <3>5. CASE th[t].src = <<>> /\ Head(msg) = NL
      <4>1. /\ th'[t].i = i /\ th'[t].msg = Tail(msg) /\ th'[t].src = th[t].src
            /\ th'[t].at = IF Len(msg) = 1 THEN th[t].from ELSE "cput"
        BY <1>1, <3>2, <3>5 DEF AfterChar
      <4>2. th[t].from \in {"run", "stop", "take", "idle", "sent"}
        BY <1>1 DEF TypeInv, IInv, Placed, Threads
      <4>3. msg # <<>>
        BY <1>4, <2>1, <3>5 DEF Ranges
      <4>4. Tail(msg) \in Seq(Chars) /\ (Len(msg) # 1 => Tail(msg) # <<>>)
        BY <1>4, <4>3, TailOf
      <4>5. Ranges(t)'
        BY <1>4, <4>1, <4>2, <4>4 DEF Ranges
      <4>6. QED BY <1>4, <2>1, <3>1, <4>1, <4>4, <4>5
    <3>6. CASE th[t].src = <<>> /\ Head(msg) # NL
      <4>1. /\ th'[t].i = n /\ th'[t].msg = msg /\ th'[t].src = th[t].src /\ th'[t].at = "store"
        BY <1>1, <3>2, <3>6
      <4>2. Ranges(t)'
        BY <1>4, <2>1, <3>3, <3>6, <4>1 DEF Ranges
      <4>3. QED BY <1>4, <2>1, <3>1, <3>3, <4>1, <4>2
    <3>7. QED BY <3>4, <3>5, <3>6
  <2>4. QED BY <2>2, <2>3
<1>14. CASE Bump(t)
  <2>1. /\ th'[t].i = th[t].i /\ th'[t].msg = Tail(msg) /\ th'[t].src = th[t].src
        /\ th'[t].at = IF Len(msg) = 1 THEN th[t].from ELSE "cput"
        /\ th[t].at = "bump" /\ cputlen' = th[t].i + 1 /\ UNCHANGED <<cputbuf, outputlines, fault>>
    BY <1>1, <1>14 DEF Bump, At, AfterChar
  <2>2. th[t].from \in {"run", "stop", "take", "idle", "sent"}
    BY <1>1 DEF TypeInv, IInv, Placed, Threads
  <2>3. msg # <<>> /\ th[t].i \in 0..MaxLine
    BY <1>4, <1>6, <2>1 DEF Ranges
  <2>4. Tail(msg) \in Seq(Chars) /\ (Len(msg) # 1 => Tail(msg) # <<>>)
    BY <1>4, <2>3, TailOf
  <2>5. th[t].i + 1 \in 0..(MaxLine + 1)
    BY <1>5, <2>3
  <2>6. Ranges(t)'
    BY <1>4, <2>1, <2>2, <2>4 DEF Ranges
  <2>7. QED BY <1>4, <2>1, <2>4, <2>5, <2>6
<1>15. QED
  BY <1>8, <1>9, <1>10, <1>11, <1>12, <1>13, <1>14 DEF Putting

\* What a thread may be given when it goes to another place.
Sound(r) ==
  /\ r.at \in Places /\ r.from \in Places /\ r.i \in 0..(MaxLine + NLines)
  /\ r.msg \in Seq(Chars) /\ r.src \in {<<>>, <<"done">>}
  /\ r.at \notin {"terminate", "reset", "clear", "copy", "store", "bump"}
  /\ r.at = "cput" => r.msg # <<>>
  /\ r.at = "shift" => r.i \in 1..(NLines - 1) /\ r.src # <<>>
  /\ r.at = "fterm" => r.i \in 0..(MaxLine + 1)

\* A step outside of p_cput and p_pushoutput, of one thread or of both.
LEMMA MovesTyped ==
  ASSUME TypeInv, IInv', InputOK', \A u \in Threads : th'[u] = th[u] \/ Sound(th'[u]),
         cputbuf' \in [0..MaxLine -> Chars], cputlen' \in 0..(MaxLine + 1),
         outputlines' \in [Rows -> [0..(MaxLine - 1) -> Chars]],
         fault' \in {fault, "overflow"}, running' \in BOOLEAN, mutex' \in Threads \union {"free"}, line' \in Seq(Chars),
         cgetbuf' \in InputLines \union {<<>>}, inputline' \in InputLines \union {<<>>},
         cgetlen' \in LineLengths \union {0}, \E l \in LineLengths \union {0} : cgetidx' \in 0..l
  PROVE  TypeInv'
<1>1. \A u \in Threads : Ranges(u)'
  BY DEF TypeInv, Ranges, Sound
<1>2. DOMAIN th' = Threads
  BY DEF IInv, Placed
<1>3. TypeOK'
  BY <1>2 DEF TypeInv, TypeOK, Sound
<1>4. QED BY <1>1, <1>3 DEF TypeInv

LEMMA Printable ==
  /\ <<>> \in Seq(Chars) /\ <<NL>> \in Seq(Chars) /\ <<"error", NL>> \in Seq(Chars)
  /\ \A c \in ProgChars \union {NL} : <<c>> \in Seq(Chars)
  /\ \A l \in InputLines : /\ Append(l, NL) \in Seq(Chars) /\ Len(l) \in Nat
                           /\ \A k \in 1..Len(l) : l[k] \in Chars
<1>1. /\ <<>> \in Seq(Chars) /\ <<NL>> \in Seq(Chars) /\ <<"error", NL>> \in Seq(Chars)
      /\ \A c \in ProgChars \union {NL} : <<c>> \in Seq(Chars)
  BY DEF Chars
<1>2. ASSUME NEW l \in InputLines
      PROVE  /\ Append(l, NL) \in Seq(Chars) /\ Len(l) \in Nat
             /\ \A k \in 1..Len(l) : l[k] \in Chars
  <2>1. l \in Seq(STRING \ {NL, NUL})
    BY PanelAssumption
  <2>2. ASSUME NEW k \in 1..Len(l) PROVE l[k] \in Chars
    BY <2>1 DEF Chars
  <2>3. l \in Seq(Chars) /\ NL \in Chars
    BY <2>1, <2>2 DEF Chars
  <2>4. QED BY <2>1, <2>2, <2>3
<1>3. QED BY <1>1, <1>2

LEMMA ExeTyped ==
  ASSUME TypeInv, IInv', InputOK', Exe
  PROVE  TypeInv'
<1> DEFINE e == th["exe"]  f == th'["exe"]
<1>1. /\ DOMAIN th = Threads /\ DOMAIN e = {"at", "msg", "from", "i", "src"}
      /\ e.at \in Places /\ e.from \in Places /\ e.i \in 0..(MaxLine + NLines)
      /\ e.msg \in Seq(Chars) /\ Ranges("exe")
  BY DEF TypeInv, IInv, Placed, TypeOK, Threads
<1>2. /\ cputbuf \in [0..MaxLine -> Chars] /\ cputlen \in 0..(MaxLine + 1)
      /\ outputlines \in [Rows -> [0..(MaxLine - 1) -> Chars]]
      /\ running \in BOOLEAN /\ mutex \in Threads \union {"free"} /\ line \in Seq(Chars)
      /\ cgetbuf \in InputLines \union {<<>>} /\ inputline \in InputLines \union {<<>>}
      /\ cgetlen \in LineLengths \union {0} /\ \E l \in LineLengths \union {0} : cgetidx \in 0..l
  BY DEF TypeInv, TypeOK
<1>3. MaxLine \in Nat /\ MaxLine > 0 /\ NLines \in Nat /\ NLines > 1
  BY PanelAssumption
<1>4. CASE Putting("exe")
  BY <1>4, PuttingTyped DEF Threads
<1>5. CASE Lock \/ Give \/ Readln \/ Stop
  <2>1. /\ th'["ui"] = th["ui"] /\ f.at \in {"peek", "run", "read", "none"}
        /\ f.from = e.from /\ f.i = e.i /\ f.src = e.src /\ f.msg \in {e.msg, <<>>}
        /\ UNCHANGED <<cputbuf, cputlen, outputlines, fault, cgetbuf, cgetlen, cgetidx, inputline>>
    BY <1>1, <1>5 DEF Lock, Give, Readln, Stop, Go, cput, cget, Threads
  <2>2. mutex' \in Threads \union {"free"} /\ running' \in BOOLEAN
    BY <1>2, <1>5 DEF Lock, Give, Readln, Stop, Release, Threads
  <2>3. line' \in Seq(Chars)
    <3>1. CASE Give
      BY <1>1, <1>2, <3>1, Printable, ConcatProperties DEF Give
    <3>2. CASE Lock \/ Readln \/ Stop
      BY <1>2, <3>2 DEF Lock, Readln, Stop
    <3>3. QED BY <1>5, <3>1, <3>2
  <2>4. Sound(f)
    BY <1>1, <2>1, Printable DEF Sound, Places, Ranges
  <2>5. QED BY <1>2, <2>1, <2>2, <2>3, <2>4, MovesTyped DEF Threads
<1>6. CASE Peek \/ FlushReset
  <2>1. /\ th'["ui"] = th["ui"] /\ f.at \in {"fterm", "take", "fread"}
        /\ f.from = e.from /\ f.i \in {e.i, cputlen} /\ f.src = e.src /\ f.msg = e.msg
        /\ f.at = "fterm" => f.i = cputlen
        /\ cputlen' \in {cputlen, 0}
        /\ UNCHANGED <<cputbuf, outputlines, fault, cgetbuf, cgetlen, cgetidx, inputline,
                       mutex, running, line>>
    BY <1>1, <1>6 DEF Peek, FlushReset, Go, cput, cget, Threads
  <2>2. cputlen \in 0..(MaxLine + NLines) /\ cputlen' \in 0..(MaxLine + 1)
    BY <1>2, <1>3, <2>1
  <2>3. Sound(f)
    BY <1>1, <1>2, <2>1, <2>2 DEF Sound, Places, FlushPlaces, Ranges
  <2>4. QED BY <1>2, <2>1, <2>2, <2>3, MovesTyped DEF Threads
<1>7. CASE FlushTerminate
  <2>1. /\ th'["ui"] = th["ui"] /\ f.at = "fzero"
        /\ f.from = e.from /\ f.i = e.i /\ f.src = e.src /\ f.msg = e.msg
        /\ UNCHANGED <<cputlen, outputlines, cgetbuf, cgetlen, cgetidx, inputline,
                       mutex, running, line>>
    BY <1>1, <1>7 DEF FlushTerminate, Go, cget, Threads
  <2>2. Write(e.i, NUL) /\ fault = "none" /\ NUL \in Chars
    BY <1>7 DEF FlushTerminate, At, Chars
  <2>3. cputbuf' \in [0..MaxLine -> Chars] /\ fault' \in {fault, "overflow"}
    BY <1>2, <2>2 DEF Write
  <2>4. Sound(f)
    BY <1>1, <2>1 DEF Sound, Places, FlushPlaces, Ranges
  <2>5. QED BY <1>2, <2>1, <2>3, <2>4, MovesTyped DEF Threads
<1>8. CASE FlushAgain
  <2>1. /\ th'["ui"] = th["ui"] /\ f.at = "cput"
        /\ f.from = "take" /\ f.i = e.i /\ f.src = e.src /\ f.msg = Append(Text(cputbuf), NL)
        /\ UNCHANGED <<cputbuf, cputlen, outputlines, fault, cgetbuf, cgetlen, cgetidx, inputline,
                       mutex, running, line>>
    BY <1>1, <1>8 DEF FlushAgain, Say, cput, cget, Threads
  <2>2. Text(cputbuf) \in Seq(Chars) /\ NL \in Chars
    BY <1>2, TextTyped DEF Chars
  <2>3. f.msg \in Seq(Chars) /\ Len(f.msg) # 0
    BY <2>1, <2>2
  <2>4. Sound(f)
    BY <1>1, <2>1, <2>3, EmptySeq DEF Sound, Places, PutPlaces, Ranges
  <2>5. QED BY <1>2, <2>1, <2>4, MovesTyped DEF Threads
<1>9. CASE Take
  <2>1. /\ th'["ui"] = th["ui"] /\ f.at = "give"
        /\ f.from = e.from /\ f.i = e.i /\ f.src = e.src
        /\ f.msg \in {<<>>, <<NL>>, <<InputAt(cgetidx)>>}
        /\ UNCHANGED <<cputbuf, cputlen, outputlines, fault, cgetbuf, inputline,
                       mutex, running, line>>
    BY <1>1, <1>9 DEF Take, NoInput, EndOfLine, cput, cget, Threads
  <2>2. InputAt(cgetidx) \in Chars
    <3>1. e.at = "take" /\ th["ui"].at \notin {"len", "idx"}
      BY <1>9 DEF Take, At, TypeInv, IInv, MutexHeld, Critical, Threads
    <3>2. cgetidx \in Nat /\ Len(cgetbuf) \in Nat
      BY <3>1, LenProperties DEF TypeInv, InputOK
    <3>3. CASE cgetidx < Len(cgetbuf)
      <4>1. cgetidx + 1 \in 1..Len(cgetbuf) /\ Len(cgetbuf) # 0
        BY <3>2, <3>3
      <4>2. cgetbuf # <<>>
        BY <4>1
      <4>3. QED BY <1>2, <3>3, <4>1, <4>2, Printable DEF InputAt
    <3>4. QED BY <3>2, <3>3 DEF InputAt, Chars
  <2>3. cgetlen' \in LineLengths \union {0} /\ \E l \in LineLengths \union {0} : cgetidx' \in 0..l
    <3>1. \A l \in LineLengths \union {0} : l \in Nat
      BY Printable DEF LineLengths
    <3>2. CASE cgetlen # 0 /\ ~AtEnd
      <4>1. cgetlen' = cgetlen /\ cgetidx' = cgetidx + 1
        BY <1>9, <3>2 DEF Take
      <4>2. cgetidx + 1 \in 0..cgetlen
        BY <1>2, <3>1, <3>2 DEF AtEnd
      <4>3. QED BY <1>2, <4>1, <4>2
    <3>3. CASE cgetlen # 0 /\ AtEnd
      <4>1. cgetlen' = 0 /\ cgetidx' = 0
        BY <1>9, <3>3 DEF Take
      <4>2. 0 \in 0..0 /\ 0 \in LineLengths \union {0}
        OBVIOUS
      <4>3. QED BY <4>1, <4>2
    <3>4. CASE cgetlen = 0
      BY <1>2, <1>9, <3>4 DEF Take, cget
    <3>5. QED BY <3>2, <3>3, <3>4
  <2>4. f.msg \in Seq(Chars)
    <3>1. <<InputAt(cgetidx)>> \in Seq(Chars)
      BY <2>2
    <3>2. QED BY <2>1, <3>1, Printable
  <2>5. Sound(f)
    BY <1>1, <2>1, <2>4 DEF Sound, Places, Ranges
  <2>6. QED BY <1>2, <2>1, <2>3, <2>5, MovesTyped DEF Threads
<1>10. CASE PrintChar \/ Finish
  <2>1. /\ th'["ui"] = th["ui"]
        /\ UNCHANGED <<cputbuf, cputlen, outputlines, fault, cgetbuf, cgetlen, cgetidx, inputline,
                       mutex, running, line>>
    <3>1. CASE PrintChar
      BY <1>1, <3>1 DEF PrintChar, Say, cput, cget, Threads
    <3>2. CASE Finish
      BY <1>1, <3>2 DEF Finish, Say, Push, cput, cget, Threads
    <3>3. QED BY <1>10, <3>1, <3>2
  <2>2. Sound(f)
    <3>1. CASE PrintChar
      <4>1. PICK c \in ProgChars \union {NL} : Say("exe", <<c>>, "run")
        BY <3>1 DEF PrintChar
      <4>2. /\ f.at = "cput" /\ f.from = "run" /\ f.i = e.i /\ f.src = e.src /\ f.msg = <<c>>
        BY <1>1, <4>1 DEF Say, Threads
      <4>3. f.msg \in Seq(Chars) /\ f.msg # <<>>
        BY <4>2, Printable
      <4>4. QED BY <1>1, <4>2, <4>3 DEF Sound, Places, PutPlaces, Ranges
    <3>2. CASE Finish
      <4>1. CASE Say("exe", <<"error", NL>>, "stop")
        <5>1. /\ f.at = "cput" /\ f.from = "stop" /\ f.i = e.i /\ f.src = e.src
              /\ f.msg = <<"error", NL>>
          BY <1>1, <4>1 DEF Say, Threads
        <5>2. QED BY <1>1, <5>1, Printable DEF Sound, Places, PutPlaces, Ranges
      <4>2. CASE Push("exe", <<"done">>, "stop")
        <5>1. NLines - 1 \in 1..(NLines - 1) /\ NLines - 1 \in 0..(MaxLine + NLines)
          BY <1>3
        <5>2. /\ f.at = "shift" /\ f.from = "stop" /\ f.i = NLines - 1
              /\ f.src = <<"done">> /\ f.msg = e.msg
          BY <1>1, <4>2 DEF Push, Threads
        <5>3. QED BY <1>1, <5>1, <5>2 DEF Sound, Places, PutPlaces
      <4>3. QED BY <3>2, <4>1, <4>2 DEF Finish
    <3>3. QED BY <1>10, <3>1, <3>2
  <2>3. QED BY <1>2, <2>1, <2>2, MovesTyped DEF Threads
<1>11. QED
  BY <1>4, <1>5, <1>6, <1>7, <1>8, <1>9, <1>10 DEF Exe

LEMMA UiTyped ==
  ASSUME TypeInv, IInv', InputOK', Ui \/ ClickTool \/ ClickSend
  PROVE  TypeInv'
<1> DEFINE e == th["ui"]  f == th'["ui"]
<1>1. /\ DOMAIN th = Threads /\ \A u \in Threads : DOMAIN th[u] = {"at", "msg", "from", "i", "src"}
      /\ \A u \in Threads : /\ th[u].at \in Places /\ th[u].from \in Places
                            /\ th[u].i \in 0..(MaxLine + NLines)
                            /\ th[u].msg \in Seq(Chars) /\ Ranges(u)
  BY DEF TypeInv, IInv, Placed, TypeOK
<1>2. /\ cputbuf \in [0..MaxLine -> Chars] /\ cputlen \in 0..(MaxLine + 1)
      /\ outputlines \in [Rows -> [0..(MaxLine - 1) -> Chars]]
      /\ running \in BOOLEAN /\ mutex \in Threads \union {"free"} /\ line \in Seq(Chars)
      /\ cgetbuf \in InputLines \union {<<>>} /\ inputline \in InputLines \union {<<>>}
      /\ cgetlen \in LineLengths \union {0} /\ \E l \in LineLengths \union {0} : cgetidx \in 0..l
  BY DEF TypeInv, TypeOK
<1>3. MaxLine \in Nat /\ MaxLine > 0 /\ NLines \in Nat /\ NLines > 1
  BY PanelAssumption
<1>4. CASE Putting("ui")
  BY <1>4, PuttingTyped DEF Threads
<1>5. CASE ClickSend \/ SendLock \/ SendBuf \/ SendLen \/ SendDone
  <2>1. /\ th'["exe"] = th["exe"] /\ f.at \in {"lock", "buf", "len", "idx", "idle"}
        /\ f.from = e.from /\ f.i = e.i /\ f.src = e.src /\ f.msg = e.msg
        /\ UNCHANGED <<cputbuf, cputlen, outputlines, fault, cgetidx, running, line>>
    BY <1>1, <1>5 DEF ClickSend, SendLock, SendBuf, SendLen, SendDone, Go, cput, cget, Threads
  <2>2. mutex' \in Threads \union {"free"}
    BY <1>2, <1>5 DEF ClickSend, SendLock, SendBuf, SendLen, SendDone, Release, Threads
  <2>3. /\ cgetbuf' \in InputLines \union {<<>>} /\ inputline' \in InputLines \union {<<>>}
        /\ cgetlen' \in LineLengths \union {0}
    <3>1. CASE SendLen
      <4>1. inputline \in InputLines
        BY <3>1 DEF SendLen, At, TypeInv, InputOK
      <4>2. QED BY <1>2, <3>1, <4>1 DEF SendLen, LineLengths
    <3>2. CASE ClickSend \/ SendLock \/ SendBuf \/ SendDone
      BY <1>2, <3>2 DEF ClickSend, SendLock, SendBuf, SendDone, cget
    <3>3. QED BY <1>5, <3>1, <3>2
  <2>4. Sound(f)
    BY <1>1, <2>1 DEF Sound, Places, Ranges, Threads
  <2>5. QED BY <1>2, <2>1, <2>2, <2>3, <2>4, MovesTyped DEF Threads
<1>6. CASE SendIdx
  <2>1. /\ th'["exe"] = th["exe"] /\ f.at = "cput" /\ f.from = "sent"
        /\ f.i = e.i /\ f.src = e.src /\ f.msg = Append(inputline, NL)
        /\ UNCHANGED <<cputbuf, cputlen, outputlines, fault, cgetbuf, cgetlen, inputline,
                       mutex, running, line>>
        /\ cgetidx' = 0
    BY <1>1, <1>6 DEF SendIdx, SentIdx, Say, cput, Threads
  <2>2. inputline \in InputLines
    BY <1>6 DEF SendIdx, At, TypeInv, InputOK
  <2>3. f.msg \in Seq(Chars) /\ f.msg # <<>>
    BY <2>1, <2>2, Printable, Constants
  <2>4. Sound(f)
    BY <1>1, <2>1, <2>3 DEF Sound, Places, PutPlaces, Ranges, Threads
  <2>5. 0 \in 0..0 /\ 0 \in LineLengths \union {0}
    OBVIOUS
  <2>6. \E l \in LineLengths \union {0} : cgetidx' \in 0..l
    BY <2>1, <2>5
  <2>7. QED BY <1>2, <2>1, <2>4, <2>6, MovesTyped DEF Threads
<1>7. CASE Inspect \/ Execute \/ Create \/ ClickTool
  <2>1. /\ UNCHANGED <<cputbuf, cputlen, fault, cgetbuf, cgetlen, cgetidx, inputline, mutex, line>>
        /\ running' \in BOOLEAN
    BY <1>2, <1>7 DEF Inspect, Execute, Create, ClickTool, cput, cget
  <2>2. outputlines' \in [Rows -> [0..(MaxLine - 1) -> Chars]]
    <3>1. CASE ClickTool
      <4>1. Blank \in [0..(MaxLine - 1) -> Chars]
        BY <1>3 DEF Blank, Chars
      <4>2. QED BY <3>1, <4>1 DEF ClickTool, ClearOutput
    <3>2. CASE ~ClickTool
      BY <1>2, <1>7, <3>2 DEF Inspect, Execute, Create
    <3>3. QED BY <3>1, <3>2
  <2>3. \A u \in Threads : th'[u] = th[u] \/ Sound(th'[u])
    <3>1. CASE Say("ui", <<"error", NL>>, "idle")
      <4>1. /\ th'["exe"] = th["exe"] /\ f.at = "cput" /\ f.from = "idle"
            /\ f.i = e.i /\ f.src = e.src /\ f.msg = <<"error", NL>>
        BY <1>1, <3>1 DEF Say, Threads
      <4>2. Sound(f)
        BY <1>1, <4>1, Printable DEF Sound, Places, PutPlaces, Ranges, Threads
      <4>3. QED BY <4>1, <4>2 DEF Threads
    <3>2. CASE Push("ui", <<"done">>, "idle")
      <4>1. NLines - 1 \in 1..(NLines - 1) /\ NLines - 1 \in 0..(MaxLine + NLines)
        BY <1>3
      <4>2. /\ th'["exe"] = th["exe"] /\ f.at = "shift" /\ f.from = "idle"
            /\ f.i = NLines - 1 /\ f.src = <<"done">> /\ f.msg = e.msg
        BY <1>1, <3>2 DEF Push, Threads
      <4>3. Sound(f)
        BY <1>1, <4>1, <4>2 DEF Sound, Places, PutPlaces, Threads
      <4>4. QED BY <4>2, <4>3 DEF Threads
    <3>3. CASE \E place \in {"create", "execute", "inspect"} : Go("ui", place)
      BY <1>1, <3>3 DEF Go, Sound, Places, Ranges, Threads
    <3>4. CASE th' = [th EXCEPT !["ui"].at = "idle", !["exe"].at = "run"]
      BY <1>1, <3>4 DEF Sound, Places, Ranges, Threads
    <3>5. QED
      BY <1>7, <3>1, <3>2, <3>3, <3>4 DEF Inspect, Execute, Create, ClickTool
  <2>4. QED BY <1>2, <2>1, <2>2, <2>3, MovesTyped
<1>8. QED BY <1>4, <1>5, <1>6, <1>7 DEF Ui

LEMMA InitTyped == ASSUME Init PROVE TypeInv
<1>1. IInv
  BY InitIInv
<1>2. InputOK
  BY EmptySeq DEF Init, InputOK, Threads
<1>3. MaxLine \in Nat /\ MaxLine > 0 /\ NLines \in Nat /\ NLines > 1
  BY PanelAssumption
<1>4. /\ DOMAIN th = Threads
      /\ \A t \in Threads : /\ th[t].at \in {"idle", "none"} /\ th[t].msg = <<>> /\ th[t].src = <<>>
                            /\ th[t].from = "none" /\ th[t].i = 0
  BY DEF Init, Threads
<1>5. \A t \in Threads : Ranges(t)
  BY <1>4 DEF Ranges
<1>6. cputbuf \in [0..MaxLine -> Chars] /\ cputlen \in 0..(MaxLine + 1)
  BY <1>3 DEF Init, Chars
<1>7. outputlines \in [Rows -> [0..(MaxLine - 1) -> Chars]]
  BY DEF Init, Blank, Chars
<1>8. 0 \in 0..0 /\ 0 \in LineLengths \union {0} /\ 0 \in 0..(MaxLine + NLines)
  BY <1>3
<1>9. \E l \in LineLengths \union {0} : cgetidx \in 0..l
  BY <1>8 DEF Init
<1>10. TypeOK
  BY <1>4, <1>6, <1>7, <1>8, <1>9, Printable DEF Init, TypeOK, Places
<1>11. QED BY <1>1, <1>2, <1>5, <1>10 DEF TypeInv

\* Whatever the user does, cputlen is at most one more than cputbuf has room for and
\* the index into the line that is read never passes the longest line.
THEOREM PanelTyped == Spec => []TypeOK
<1>1. Init => TypeInv
  BY InitTyped
<1>2. TypeInv /\ [Next]_vars => TypeInv'
  <2> SUFFICES ASSUME TypeInv, [Next]_vars PROVE TypeInv'
    OBVIOUS
  <2>1. IInv'
    BY NextIInv DEF TypeInv
  <2>2. CASE Exe
    BY <2>1, <2>2, ExeMaps, ExeTyped DEF TypeInv
  <2>3. CASE Ui \/ ClickTool \/ ClickSend
    BY <2>1, <2>3, UiMaps, UiTyped DEF TypeInv
  <2>4. CASE Rest \/ UNCHANGED vars
    <3>1. UNCHANGED vars
      BY <2>4 DEF Rest
    <3>2. InputOK'
      BY <3>1 DEF vars, cget, TypeInv, InputOK
    <3>3. TypeOK' /\ \A t \in Threads : Ranges(t)'
      BY <3>1 DEF vars, cput, cget, TypeInv, TypeOK, Ranges
    <3>4. QED BY <2>1, <3>2, <3>3 DEF TypeInv
  <2>5. QED BY <2>2, <2>3, <2>4 DEF Next
<1>3. TypeInv => TypeOK
  BY DEF TypeInv
<1>4. QED BY <1>1, <1>2, <1>3, PTL DEF Spec

=============================================================================

------------------------- MODULE SatsuMemoryProofs -------------------------
(***************************************************************************)
(* Proofs about the memory of SatsuExec on programs that have a typing and *)
(* use the strings they make: each string block is at one place, no step   *)
(* releases a block twice, reads one that is gone or finds a symbol        *)
(* missing, and none is forgotten.                                         *)
(*                                                                         *)
(* A step moves strings between four kinds of places.  What goes from each *)
(* and what comes to it is found first; one lemma, Exchange, then says     *)
(* that every block still has one owner.                                   *)
(***************************************************************************)
EXTENDS SatsuSoundProofs

-----------------------------------------------------------------------------
(* The strings and their places. *)

\* The places that hold a string, and the block there.
Strs == {p \in DOMAIN Held : ValAt(p).type = "string"}
Blk(p) == ValAt(p).str
LocalStrs == {p \in LocalPlaces : ValAt(p).type = "string"}
GlobalStrs == {p \in GlobalPlaces : ValAt(p).type = "string"}
FrameStrs == {p \in FramePlaces : ValAt(p).type = "string"}
RetStrs == IF ret.val.type = "string" THEN {RetPlace} ELSE {}
\* The strings that the handler that runs holds.
TopStrs == {p \in FrameStrs : p[2] = Len(cstk)}
BlksOf(P) == {Blk(p) : p \in P}

\* Where the strings are, in this state and in the next.
LocalPlaced ==
  /\ \A p : p \in LocalStrs <=>
       \E d \in DOMAIN fns : \E i \in DOMAIN fns[d].syms :
         p = <<"local", d, i>> /\ fns[d].syms[i].val.type = "string"
  /\ \A d, i : Blk(<<"local", d, i>>) = fns[d].syms[i].val.str
  /\ \A d, i : <<"local", d, i>> \in LocalStrs <=>
       d \in DOMAIN fns /\ i \in DOMAIN fns[d].syms /\ fns[d].syms[i].val.type = "string"
GlobalPlaced ==
  /\ \A p : p \in GlobalStrs <=>
       \E i \in DOMAIN globals : p = <<"global", 1, i>> /\ globals[i].val.type = "string"
  /\ \A i : Blk(<<"global", 1, i>>) = globals[i].val.str
  /\ \A i : <<"global", 1, i>> \in GlobalStrs <=>
       i \in DOMAIN globals /\ globals[i].val.type = "string"
FramePlaced ==
  /\ \A p : p \in FrameStrs <=>
       \E j \in DOMAIN cstk : \E i \in DOMAIN FrameVals(cstk[j]) :
         p = <<"frame", j, i>> /\ cstk[j].vals[i].type = "string"
  /\ \A j, i : Blk(<<"frame", j, i>>) = cstk[j].vals[i].str
  /\ \A j, i : <<"frame", j, i>> \in FrameStrs <=>
       j \in DOMAIN cstk /\ i \in DOMAIN FrameVals(cstk[j]) /\ cstk[j].vals[i].type = "string"
RetPlaced ==
  /\ \A p : p \in RetStrs <=> p = RetPlace /\ ret.val.type = "string"
  /\ Blk(RetPlace) = ret.val.str
\* Every string is of one of four kinds.
StrsApart ==
  /\ Strs = LocalStrs \union GlobalStrs \union FrameStrs \union RetStrs
  /\ \A p \in LocalStrs : p[1] = "local"
  /\ \A p \in GlobalStrs : p[1] = "global"
  /\ \A p \in FrameStrs : p[1] = "frame"
  /\ \A p \in RetStrs : p[1] = "ret"
  /\ TopStrs \subseteq FrameStrs

LEMMA LocalPlace == LocalPlaced /\ LocalPlaced'
<1>1. \A d, i : ValAt(<<"local", d, i>>) = fns[d].syms[i].val
  BY DEF ValAt
<1>2. LocalPlaced
  BY <1>1 DEF LocalPlaced, LocalStrs, LocalPlaces, Blk
<1> QED  BY <1>2, PTL

LEMMA GlobalPlace == GlobalPlaced /\ GlobalPlaced'
<1>1. \A i : ValAt(<<"global", 1, i>>) = globals[i].val
  BY DEF ValAt
<1>2. GlobalPlaced
  BY <1>1 DEF GlobalPlaced, GlobalStrs, GlobalPlaces, Blk
<1> QED  BY <1>2, PTL

LEMMA FramePlace == FramePlaced /\ FramePlaced'
<1>1. \A j, i : ValAt(<<"frame", j, i>>) = cstk[j].vals[i]
  BY DEF ValAt
<1>2. FramePlaced
  BY <1>1 DEF FramePlaced, FrameStrs, FramePlaces, Blk
<1> QED  BY <1>2, PTL

LEMMA RetOnly == RetPlaced /\ RetPlaced'
<1>1. RetPlaced
  BY DEF RetPlaced, RetStrs, RetPlace, Blk, ValAt
<1> QED  BY <1>1, PTL

LEMMA StrParts == StrsApart /\ StrsApart'
<1>1. DOMAIN Held = LocalPlaces \union GlobalPlaces \union FramePlaces \union {RetPlace}
  BY DEF Held
<1>2. ValAt(RetPlace) = ret.val
  BY DEF ValAt, RetPlace
<1>3. Strs = LocalStrs \union GlobalStrs \union FrameStrs \union RetStrs
  BY <1>1, <1>2 DEF Strs, LocalStrs, GlobalStrs, FrameStrs, RetStrs
<1>4. StrsApart
  BY <1>3, LocalPlace, GlobalPlace, FramePlace, RetOnly
     DEF LocalPlaced, GlobalPlaced, FramePlaced, RetPlaced, StrsApart, RetPlace, TopStrs
<1> QED  BY <1>4, PTL

\* Every block is where one string is.
OneOwner ==
  /\ \A p \in Strs : Blk(p) \in live
  /\ \A p, q \in Strs : Blk(p) = Blk(q) => p = q
  /\ \A b \in live : \E p \in Strs : Blk(p) = b

\* The strings of D are gone or have moved, those of A are there instead.
LEMMA Exchange ==
  ASSUME OneOwner, NEW D \in SUBSET Strs, NEW A \in SUBSET Strs',
         \A p \in Strs : p \notin D => p \in Strs' /\ Blk(p)' = Blk(p),
         \A p \in Strs' : p \in A \/ (p \in Strs /\ p \notin D),
         \A p \in A : Blk(p)' \notin live \/ Blk(p)' \in BlksOf(D),
         \A p, q \in A : Blk(p)' = Blk(q)' => p = q,
         live' = (live \ BlksOf(D)) \union {Blk(p)' : p \in A}
  PROVE  OneOwner'
<1>1. ASSUME NEW p \in Strs', p \notin A PROVE p \in Strs /\ p \notin D /\ Blk(p)' = Blk(p)
  BY <1>1
<1>2. \A p \in Strs' : Blk(p)' \in live'
  <2> TAKE p \in Strs'
  <2>1. CASE p \in A
    BY <2>1
  <2>2. CASE p \notin A
    BY <1>1, <2>2 DEF OneOwner, BlksOf
  <2> QED  BY <2>1, <2>2
<1>3. ASSUME NEW p \in Strs', NEW q \in Strs', Blk(p)' = Blk(q)' PROVE p = q
  <2>1. ASSUME NEW x \in Strs', NEW y \in Strs', Blk(x)' = Blk(y)', x \notin A, y \in A PROVE FALSE
    <3>1. x \in Strs /\ x \notin D /\ Blk(x)' = Blk(x) /\ Blk(x) \in live
      BY <1>1, <2>1 DEF OneOwner
    <3>2. Blk(x) \in BlksOf(D)
      BY <2>1, <3>1
    <3> QED  BY <3>1, <3>2 DEF BlksOf, OneOwner
  <2>2. CASE p \notin A /\ q \notin A
    BY <1>1, <1>3, <2>2 DEF OneOwner
  <2> QED  BY <1>3, <2>1, <2>2
<1>4. ASSUME NEW b \in live' PROVE \E p \in Strs' : Blk(p)' = b
  <2>1. CASE b \in live /\ b \notin BlksOf(D)
    <3>1. PICK p \in Strs : Blk(p) = b
      BY <2>1 DEF OneOwner
    <3> QED  BY <2>1, <3>1 DEF BlksOf
  <2>2. CASE \E p \in A : b = Blk(p)'
    BY <2>2
  <2> QED  BY <1>4, <2>1, <2>2
<1> QED  BY <1>2, <1>3, <1>4 DEF OneOwner

\* What OwnedOnce says.
LEMMA OwnedAsPlaces ==
  OneOwner <=> Releasable(Held) /\ BlocksOf(Held) = live
<1>1. StrIdx(Held) = Strs
  BY DEF StrIdx, Strs, Held
<1>2. \A p \in Strs : Held[p].str = Blk(p)
  BY DEF Held, Strs, Blk
<1>3. BlocksOf(Held) = {Blk(p) : p \in Strs}
  BY <1>1, <1>2 DEF BlocksOf
<1> QED  BY <1>1, <1>2, <1>3 DEF Releasable, OneOwner

\* The strings of vs are at the places P, each at a place of its own.
StandAt(vs, P) ==
  \E s \in [StrIdx(vs) -> Strs] :
    /\ P = {s[i] : i \in StrIdx(vs)}
    /\ \A i \in StrIdx(vs) : Blk(s[i]) = vs[i].str
    /\ \A i, j \in StrIdx(vs) : s[i] = s[j] => i = j

\* Such values can be released.
LEMMA Freed ==
  ASSUME OneOwner, NEW vs, NEW P, StandAt(vs, P)
  PROVE  Releasable(vs) /\ BlocksOf(vs) = BlksOf(P) /\ P \subseteq Strs
<1>1. PICK s \in [StrIdx(vs) -> Strs] :
        /\ P = {s[i] : i \in StrIdx(vs)}
        /\ \A i \in StrIdx(vs) : Blk(s[i]) = vs[i].str
        /\ \A i, j \in StrIdx(vs) : s[i] = s[j] => i = j
  BY DEF StandAt
<1>2. BlocksOf(vs) = BlksOf(P)
  BY <1>1 DEF BlocksOf, BlksOf
<1>3. \A i \in StrIdx(vs) : s[i] \in Strs /\ vs[i].str \in live
  BY <1>1 DEF OneOwner
<1>4. \A i, j \in StrIdx(vs) : vs[i].str = vs[j].str => i = j
  BY <1>1, <1>3 DEF OneOwner
<1> QED  BY <1>1, <1>2, <1>3, <1>4 DEF Releasable, BlocksOf

LEMMA HeapFreed ==
  ASSUME OneOwner, NEW made, NEW vs, NEW P, StandAt(vs, P), Heap(made, vs)
  PROVE  /\ UNCHANGED fault /\ live' = (live \ BlksOf(P)) \union Taken(made)
         /\ P \subseteq Strs
BY Freed DEF Heap

\* No strings.
LEMMA StandNowhere ==
  ASSUME NEW vs, \A i \in DOMAIN vs : vs[i].type # "string"
  PROVE  StandAt(vs, {})
<1>1. StrIdx(vs) = {}
  BY DEF StrIdx
<1>2. PICK s \in [StrIdx(vs) -> Strs] : TRUE
  <2>1. [i \in StrIdx(vs) |-> {}] \in [StrIdx(vs) -> Strs]
    BY <1>1
  <2> QED  BY <2>1
<1> QED  BY <1>1, <1>2 DEF StandAt

\* One value, at the place p.
LEMMA StandOne ==
  ASSUME NEW v, NEW p, v.type = "string" => p \in Strs /\ Blk(p) = v.str
  PROVE  StandAt(<<v>>, IF v.type = "string" THEN {p} ELSE {})
<1>1. CASE v.type = "string"
  <2>1. PICK vs : vs = <<v>>
    OBVIOUS
  <2>2. StrIdx(vs) = {1} /\ vs[1] = v
    BY <1>1, <2>1 DEF StrIdx
  <2>3. PICK s : s = [i \in {1} |-> p]
    OBVIOUS
  <2>4. /\ s \in [StrIdx(vs) -> Strs] /\ {p} = {s[i] : i \in StrIdx(vs)}
        /\ \A i \in StrIdx(vs) : Blk(s[i]) = vs[i].str
        /\ \A i, j \in StrIdx(vs) : s[i] = s[j] => i = j
    BY <1>1, <2>2, <2>3
  <2> QED  BY <1>1, <2>1, <2>4 DEF StandAt
<1>2. CASE v.type # "string"
  <2>1. StandAt(<<v>>, {})
    BY <1>2, StandNowhere
  <2> QED  BY <1>2, <2>1
<1> QED  BY <1>1, <1>2

\* One sequence of values after another.
LEMMA StandBoth ==
  ASSUME NEW S, NEW vs \in Seq(S), NEW ws \in Seq(S), NEW P, NEW Q,
         StandAt(vs, P), StandAt(ws, Q), P \cap Q = {}
  PROVE  StandAt(vs \o ws, P \union Q)
<1>1. PICK m \in Nat : m = Len(vs) /\ DOMAIN vs = 1..m
  OBVIOUS
<1>2. PICK n \in Nat : n = Len(ws) /\ DOMAIN ws = 1..n
  OBVIOUS
<1>3. PICK xs : xs = vs \o ws
  OBVIOUS
<1>4. /\ DOMAIN xs = 1..(m + n)
      /\ \A i \in 1..(m + n) : xs[i] = IF i <= m THEN vs[i] ELSE ws[i - m]
  BY <1>1, <1>2, <1>3
<1>5. PICK s \in [StrIdx(vs) -> Strs] :
        /\ P = {s[i] : i \in StrIdx(vs)}
        /\ \A i \in StrIdx(vs) : Blk(s[i]) = vs[i].str
        /\ \A i, j \in StrIdx(vs) : s[i] = s[j] => i = j
  BY DEF StandAt
<1>6. PICK u \in [StrIdx(ws) -> Strs] :
        /\ Q = {u[i] : i \in StrIdx(ws)}
        /\ \A i \in StrIdx(ws) : Blk(u[i]) = ws[i].str
        /\ \A i, j \in StrIdx(ws) : u[i] = u[j] => i = j
  BY DEF StandAt
<1>7. PICK I : I = StrIdx(xs)
  OBVIOUS
<1>8. /\ I \subseteq 1..(m + n)
      /\ \A i \in I : i <= m => i \in StrIdx(vs) /\ xs[i] = vs[i]
      /\ \A i \in I : i > m => i - m \in StrIdx(ws) /\ xs[i] = ws[i - m]
      /\ \A i \in StrIdx(vs) : i \in I /\ i <= m
      /\ \A i \in StrIdx(ws) : i + m \in I /\ i + m > m
      /\ \A i \in StrIdx(ws) : i \in Nat
  <2>1. /\ StrIdx(vs) = {i \in 1..m : vs[i].type = "string"}
        /\ StrIdx(ws) = {i \in 1..n : ws[i].type = "string"}
        /\ I = {i \in 1..(m + n) : xs[i].type = "string"}
    BY <1>1, <1>2, <1>4, <1>7 DEF StrIdx
  <2>2. \A i \in 1..(m + n) : i <= m => i \in 1..m /\ xs[i] = vs[i]
    BY <1>4
  <2>3. \A i \in 1..(m + n) : i > m => i - m \in 1..n /\ xs[i] = ws[i - m]
    BY <1>4
  <2>4. \A i \in 1..m : i \in 1..(m + n) /\ i <= m /\ xs[i] = vs[i]
    BY <1>4
  <2>5. \A i \in 1..n : i \in Nat /\ i + m \in 1..(m + n) /\ i + m > m /\ xs[i + m] = ws[i]
    <3> TAKE i \in 1..n
    <3>1. i + m \in 1..(m + n) /\ i + m > m /\ (i + m) - m = i
      OBVIOUS
    <3> QED  BY <3>1, <1>4
  <2> HIDE <1>1, <1>2, <1>4
  <2> QED  BY <2>1, <2>2, <2>3, <2>4, <2>5
<1>9. PICK r : r = [i \in I |-> IF i <= m THEN s[i] ELSE u[i - m]]
  OBVIOUS
<1>10. /\ \A i \in I : i <= m => r[i] = s[i] /\ r[i] \in P /\ r[i] \in Strs
       /\ \A i \in I : i > m => r[i] = u[i - m] /\ r[i] \in Q /\ r[i] \in Strs
  BY <1>5, <1>6, <1>8, <1>9
<1>11. r \in [I -> Strs]
  BY <1>8, <1>9, <1>10
<1>12. \A i \in I : Blk(r[i]) = xs[i].str
  <2> TAKE i \in I
  <2>1. CASE i <= m
    <3>1. i \in StrIdx(vs) /\ xs[i] = vs[i] /\ r[i] = s[i]
      BY <1>8, <1>10, <2>1
    <3> QED  BY <1>5, <3>1
  <2>2. CASE i > m
    <3>1. i - m \in StrIdx(ws) /\ xs[i] = ws[i - m] /\ r[i] = u[i - m]
      BY <1>8, <1>10, <2>2
    <3> QED  BY <1>6, <3>1
  <2> QED  BY <1>8, <2>1, <2>2
<1>13. \A i, j \in I : r[i] = r[j] => i = j
  <2> SUFFICES ASSUME NEW i \in I, NEW j \in I, r[i] = r[j] PROVE i = j
    OBVIOUS
  <2>1. CASE i <= m /\ j <= m
    BY <1>5, <1>8, <1>10, <2>1
  <2>2. CASE i > m /\ j > m
    <3>1. i - m = j - m
      BY <1>6, <1>8, <1>10, <2>2
    <3> QED  BY <3>1, <1>8
  <2> QED  BY <1>8, <1>10, <2>1, <2>2
<1>14. P \union Q = {r[i] : i \in I}
  <2>1. ASSUME NEW p \in P PROVE \E i \in I : p = r[i]
    BY <1>5, <1>8, <1>10, <2>1
  <2>2. ASSUME NEW p \in Q PROVE \E i \in I : p = r[i]
    <3>1. PICK i \in StrIdx(ws) : p = u[i]
      BY <1>6, <2>2
    <3>2. i + m \in I /\ i + m > m /\ (i + m) - m = i
      BY <3>1, <1>8
    <3> QED  BY <3>1, <3>2, <1>10
  <2>3. \A i \in I : r[i] \in P \union Q
    BY <1>8, <1>10
  <2> QED  BY <2>1, <2>2, <2>3
<1> QED  BY <1>3, <1>7, <1>11, <1>12, <1>13, <1>14 DEF StandAt

-----------------------------------------------------------------------------
(* What a step leaves of the strings of the environments and of the handlers. *)

\* Those of P are gone.
LocalsKept(P) ==
  P \subseteq LocalStrs /\ LocalStrs' = LocalStrs \ P /\ \A p \in LocalStrs' : Blk(p)' = Blk(p)
FramesKept(P) ==
  P \subseteq FrameStrs /\ FrameStrs' = FrameStrs \ P /\ \A p \in FrameStrs' : Blk(p)' = Blk(p)
\* The strings of the innermost environment behind the first k symbols.
StrsAfter(k) == {p \in LocalStrs : p[2] = Len(fns) /\ p[3] > k}

LEMMA TableStrs ==
  ASSUME \A d \in DOMAIN fns' : d \in DOMAIN fns /\
           \A j \in DOMAIN fns'[d].syms :
             j \in DOMAIN fns[d].syms /\ fns'[d].syms[j].val = fns[d].syms[j].val,
         NEW P, P \subseteq LocalStrs,
         \A d \in DOMAIN fns : \A j \in DOMAIN fns[d].syms :
           fns[d].syms[j].val.type = "string" =>
             (<<"local", d, j>> \in P <=> ~(d \in DOMAIN fns' /\ j \in DOMAIN fns'[d].syms))
  PROVE  LocalsKept(P)
<1>1. ASSUME NEW p \in LocalStrs' PROVE p \in LocalStrs /\ p \notin P /\ Blk(p)' = Blk(p)
  <2>1. PICK d \in DOMAIN fns' : \E j \in DOMAIN fns'[d].syms :
          p = <<"local", d, j>> /\ fns'[d].syms[j].val.type = "string"
    BY <1>1, LocalPlace DEF LocalPlaced
  <2>2. PICK j \in DOMAIN fns'[d].syms : p = <<"local", d, j>> /\ fns'[d].syms[j].val.type = "string"
    BY <2>1
  <2>3. d \in DOMAIN fns /\ j \in DOMAIN fns[d].syms /\ fns'[d].syms[j].val = fns[d].syms[j].val
    OBVIOUS
  <2>4. Blk(<<"local", d, j>>)' = fns'[d].syms[j].val.str /\ Blk(<<"local", d, j>>) = fns[d].syms[j].val.str
    BY LocalPlace DEF LocalPlaced
  <2>5. <<"local", d, j>> \in LocalStrs
    BY <2>2, <2>3, LocalPlace DEF LocalPlaced
  <2> QED  BY <2>2, <2>3, <2>4, <2>5
<1>2. ASSUME NEW p \in LocalStrs, p \notin P PROVE p \in LocalStrs'
  <2>1. PICK d \in DOMAIN fns : \E j \in DOMAIN fns[d].syms :
          p = <<"local", d, j>> /\ fns[d].syms[j].val.type = "string"
    BY <1>2, LocalPlace DEF LocalPlaced
  <2>2. PICK j \in DOMAIN fns[d].syms : p = <<"local", d, j>> /\ fns[d].syms[j].val.type = "string"
    BY <2>1
  <2>3. d \in DOMAIN fns' /\ j \in DOMAIN fns'[d].syms
    BY <1>2, <2>2
  <2>4. fns'[d].syms[j].val.type = "string"
    BY <2>2, <2>3
  <2> QED  BY <2>2, <2>3, <2>4, LocalPlace DEF LocalPlaced
<1> QED  BY <1>1, <1>2 DEF LocalsKept

LEMMA SameLocalStrs ==
  ASSUME UNCHANGED fns
  PROVE  LocalsKept({})
BY TableStrs

\* What is known of the environments of a handler that runs.
LEMMA EnvShape ==
  ASSUME NEW t, TInv(t), Running
  PROVE  /\ Len(fns) \in Nat /\ Len(fns) > 0 /\ DOMAIN fns = 1..Len(fns) /\ Env = fns[Len(fns)]
         /\ \A d \in 1..Len(fns) :
              /\ fns[d] \in EnvRecord /\ fns[d].syms \in Seq(SymRecord)
              /\ Len(fns[d].syms) \in Nat /\ DOMAIN fns[d].syms = 1..Len(fns[d].syms)
<1>1. IInv
  BY DEF TInv, CInv
<1> QED  BY <1>1, TopFacts, Shapes DEF EnvRecord

LEMMA OpenedLocalStrs ==
  ASSUME NEW t, TInv(t), Running, fns' = Opened
  PROVE  LocalsKept({})
<1>1. DOMAIN fns' = DOMAIN fns /\ \A d \in DOMAIN fns : fns'[d].syms = fns[d].syms
  BY EnvShape DEF Opened, EnvRecord
<1> QED  BY <1>1, TableStrs

\* The values behind the first k symbols of the innermost environment.
LEMMA StandAfter ==
  ASSUME NEW t, TInv(t), Running, NEW k \in 0..Len(Env.syms)
  PROVE  /\ StandAt(ValsAfter(Env.syms, k), StrsAfter(k))
         /\ ValsAfter(Env.syms, k) \in Seq(Value)
<1>1. PICK d \in Nat : d = Len(fns) /\ d \in DOMAIN fns /\ Env = fns[d]
  BY EnvShape
<1>2. PICK st \in Seq(SymRecord) : st = Env.syms /\ fns[d].syms = st
  BY <1>1, EnvShape
<1>3. PICK n \in Nat : n = Len(st) /\ DOMAIN st = 1..n
  BY <1>2
<1>k. k \in 0..n
  <2>1. Len(Env.syms) = n
    BY <1>2, <1>3, Zenon
  <2> QED  BY <2>1
<1>4. PICK m \in Nat : m = n - k
  <2>1. n - k \in Nat
    BY <1>k
  <2> QED  BY <2>1
<1>5. \A i \in 1..m : k + i \in 1..n /\ st[k + i].val \in Value
  <2> TAKE i \in 1..m
  <2>1. k + i \in 1..n
    BY <1>k, <1>3, <1>4
  <2>2. st[k + i] \in SymRecord
    BY <2>1, <1>2, <1>3
  <2> QED  BY <2>1, <2>2 DEF SymRecord
<1>6. PICK vs : vs = ValsAfter(Env.syms, k)
  OBVIOUS
<1>7. vs = [i \in 1..m |-> st[k + i].val]
  BY <1>2, <1>3, <1>4, <1>6 DEF ValsAfter
<1>8. vs \in Seq(Value)
  <2>1. vs \in [1..m -> Value]
    BY <1>5, <1>7
  <2> QED  BY <2>1
<1>9. \A i \in StrIdx(vs) : i \in 1..m /\ st[k + i].val = vs[i] /\ vs[i].type = "string"
  BY <1>7 DEF StrIdx
<1>10. PICK s : s = [i \in StrIdx(vs) |-> <<"local", d, k + i>>]
  OBVIOUS
<1>11. \A i \in StrIdx(vs) : s[i] = <<"local", d, k + i>> /\ s[i] \in LocalStrs /\ Blk(s[i]) = vs[i].str
  <2> TAKE i \in StrIdx(vs)
  <2>1. k + i \in DOMAIN st /\ st[k + i].val = vs[i] /\ vs[i].type = "string"
    BY <1>3, <1>5, <1>9
  <2> QED  BY <2>1, <1>1, <1>2, <1>10, LocalPlace DEF LocalPlaced
<1>12. s \in [StrIdx(vs) -> Strs]
  BY <1>10, <1>11, StrParts DEF StrsApart
<1>13. \A i, j \in StrIdx(vs) : s[i] = s[j] => i = j
  <2> SUFFICES ASSUME NEW i \in StrIdx(vs), NEW j \in StrIdx(vs), s[i] = s[j] PROVE i = j
    OBVIOUS
  <2>1. k + i = k + j
    BY <1>11
  <2> QED  BY <2>1, <1>9
<1>14. \A i \in StrIdx(vs) : s[i] \in StrsAfter(k)
  <2> TAKE i \in StrIdx(vs)
  <2>1. k + i > k
    BY <1>9
  <2> QED  BY <2>1, <1>1, <1>11 DEF StrsAfter
<1>15. ASSUME NEW p \in StrsAfter(k) PROVE \E i \in StrIdx(vs) : p = s[i]
  <2>1. p \in LocalStrs /\ p[2] = d /\ p[3] > k
    BY <1>1, <1>15 DEF StrsAfter
  <2>2. PICK e \in DOMAIN fns : \E j \in DOMAIN fns[e].syms :
          p = <<"local", e, j>> /\ fns[e].syms[j].val.type = "string"
    BY <2>1, LocalPlace DEF LocalPlaced
  <2>3. PICK j \in DOMAIN st : p = <<"local", d, j>> /\ st[j].val.type = "string" /\ j > k
    BY <1>2, <2>1, <2>2
  <2>4. PICK i \in 1..m : i = j - k
    BY <2>3, <1>3, <1>4
  <2>5. k + i = j
    BY <2>3, <2>4, <1>3
  <2>6. i \in StrIdx(vs)
    BY <2>3, <2>5, <1>7 DEF StrIdx
  <2> QED  BY <2>3, <2>5, <2>6, <1>11
<1>16. StrsAfter(k) = {s[i] : i \in StrIdx(vs)}
  BY <1>14, <1>15
<1>17. StandAt(vs, StrsAfter(k))
  BY <1>11, <1>12, <1>13, <1>16 DEF StandAt
<1> QED  BY <1>6, <1>8, <1>17

LEMMA ClosedLocalStrs ==
  ASSUME NEW t, TInv(t), Running, ~InCallee(Top), Env.scope > 0, fns' = Closed
  PROVE  /\ LocalsKept(StrsAfter(KeptHere)) /\ StandAt(Dropped, StrsAfter(KeptHere))
         /\ Dropped \in Seq(Value)
<1>1. IInv /\ ScopesSorted
  BY DEF TInv, CInv
<1>2. Env.syms \in Seq(SymRecord) /\ Len(Env.syms) \in Nat /\ DOMAIN Env.syms = 1..Len(Env.syms)
      /\ Env.scope \in Nat /\ \A i \in 1..Len(Env.syms) : Env.syms[i].scope \in Nat
  BY <1>1, EnvFacts
<1>3. KeptHere \in 0..Len(Env.syms)
  BY <1>2, KeptIndex DEF KeptHere
<1>4. PICK d \in Nat : d = Len(fns)
  BY EnvShape
<1>5. PICK k \in Nat : k = KeptHere
  BY <1>3
<1>6. /\ DOMAIN fns' = 1..d /\ DOMAIN fns = 1..d /\ d \in 1..d /\ fns[d] = Env
      /\ \A e \in 1..(d - 1) : fns'[e] = fns[e]
      /\ fns'[d].syms = Prefix(Env.syms, k)
  BY <1>1, <1>4, <1>5, ClosedFacts, EnvShape DEF EnvsKept
<1>7. /\ DOMAIN fns'[d].syms = 1..k /\ \A j \in 1..k : j \in DOMAIN fns[d].syms /\ fns'[d].syms[j] = fns[d].syms[j]
  BY <1>2, <1>3, <1>5, <1>6 DEF Prefix
<1>8. \A e \in 1..d : e = d \/ e \in 1..(d - 1)
  BY <1>4
<1>9. PICK P : P = StrsAfter(KeptHere)
  OBVIOUS
<1>10. P \subseteq LocalStrs
  BY <1>9 DEF StrsAfter
<1>11. \A e \in DOMAIN fns' : e \in DOMAIN fns /\
         \A j \in DOMAIN fns'[e].syms : j \in DOMAIN fns[e].syms /\ fns'[e].syms[j].val = fns[e].syms[j].val
  BY <1>6, <1>7, <1>8
<1>12. ASSUME NEW e \in DOMAIN fns, NEW j \in DOMAIN fns[e].syms, fns[e].syms[j].val.type = "string"
       PROVE  <<"local", e, j>> \in P <=> ~(e \in DOMAIN fns' /\ j \in DOMAIN fns'[e].syms)
  <2>1. <<"local", e, j>> \in LocalStrs
    BY <1>12, LocalPlace DEF LocalPlaced
  <2>2. <<"local", e, j>> \in P <=> e = d /\ j > k
    BY <2>1, <1>4, <1>5, <1>9 DEF StrsAfter
  <2>3. CASE e = d
    <3>1. j \in 1..Len(Env.syms)
      BY <1>2, <1>6, <2>3
    <3>2. j > k <=> j \notin 1..k
      BY <1>5, <3>1
    <3> QED  BY <1>6, <1>7, <2>2, <2>3, <3>2
  <2>4. CASE e # d
    <3>1. fns'[e] = fns[e]
      BY <1>6, <1>8, <2>4
    <3> QED  BY <1>6, <2>2, <2>4, <3>1
  <2> QED  BY <2>3, <2>4
<1>13. LocalsKept(P)
  BY <1>10, <1>11, <1>12, TableStrs
<1> QED  BY <1>3, <1>9, <1>13, StandAfter DEF Dropped

LEMMA PoppedLocalStrs ==
  ASSUME NEW t, TInv(t), Running, fns' = SubSeq(fns, 1, Len(fns) - 1)
  PROVE  /\ LocalsKept(StrsAfter(0)) /\ StandAt(ValsAfter(Env.syms, 0), StrsAfter(0))
         /\ ValsAfter(Env.syms, 0) \in Seq(Value)
<1>1. fns \in Seq(EnvRecord)
  BY DEF TInv, CInv, IInv, TypeOK
<1>2. PICK d \in Nat : d = Len(fns) /\ d > 0 /\ DOMAIN fns = 1..d
  BY EnvShape
<1>3. DOMAIN fns' = 1..(d - 1) /\ \A e \in 1..(d - 1) : fns'[e] = fns[e] /\ e \in DOMAIN fns
  BY <1>1, <1>2
<1>4. PICK P : P = StrsAfter(0)
  OBVIOUS
<1>5. P \subseteq LocalStrs
  BY <1>4 DEF StrsAfter
<1>6. \A e \in DOMAIN fns' : e \in DOMAIN fns /\
         \A j \in DOMAIN fns'[e].syms : j \in DOMAIN fns[e].syms /\ fns'[e].syms[j].val = fns[e].syms[j].val
  BY <1>3
<1>7. ASSUME NEW e \in DOMAIN fns, NEW j \in DOMAIN fns[e].syms, fns[e].syms[j].val.type = "string"
      PROVE  <<"local", e, j>> \in P <=> ~(e \in DOMAIN fns' /\ j \in DOMAIN fns'[e].syms)
  <2>1. <<"local", e, j>> \in LocalStrs
    BY <1>7, LocalPlace DEF LocalPlaced
  <2>2. e \in 1..d /\ j \in Nat /\ j > 0
    BY <1>2, EnvShape
  <2>3. <<"local", e, j>> \in P <=> e = d
    BY <2>1, <2>2, <1>2, <1>4 DEF StrsAfter
  <2>4. e = d <=> e \notin 1..(d - 1)
    BY <2>2
  <2> QED  BY <1>3, <2>3, <2>4
<1>8. LocalsKept(P)
  BY <1>5, <1>6, <1>7, TableStrs
<1>9. 0 \in 0..Len(Env.syms)
  BY EnvShape
<1> QED  BY <1>4, <1>8, <1>9, StandAfter

-----------------------------------------------------------------------------
(* The strings that handlers hold. *)

LEMMA FrameValsKept ==
  ASSUME UNCHANGED prog, NEW f
  PROVE  FrameVals(f)' = FrameVals(f)
BY DEF FrameVals, Node, InCallee

\* The handlers below stay, the one that runs holds the values of g, and one that it
\* calls holds none.
LEMMA FrameStrsAre ==
  ASSUME UNCHANGED prog, NEW n \in Nat, n = Len(cstk), n > 0, DOMAIN cstk = 1..n,
         \A i \in 1..(n - 1) : i \in DOMAIN cstk' /\ cstk'[i] = cstk[i],
         DOMAIN cstk' \subseteq 1..(n + 1),
         n + 1 \in DOMAIN cstk' => cstk'[n + 1].vals = <<>>
  PROVE  /\ \A p \in FrameStrs : p \in TopStrs \/ (p \in FrameStrs' /\ p[2] # n /\ Blk(p)' = Blk(p))
         /\ \A p \in FrameStrs' : (p \in FrameStrs /\ p \notin TopStrs /\ Blk(p)' = Blk(p)) \/ p[2] = n
<1>1. \A j \in DOMAIN cstk' : j \in 1..(n - 1) \/ j = n \/ j = n + 1
  OBVIOUS
<1>2. \A f : FrameVals(f)' = FrameVals(f)
  BY FrameValsKept
<1>3. \A i \in 1..(n - 1) : i \in DOMAIN cstk /\ i # n
  OBVIOUS
<1>4. ASSUME NEW j \in 1..(n - 1)
      PROVE  /\ j \in DOMAIN cstk /\ j \in DOMAIN cstk' /\ j # n
             /\ FrameVals(cstk[j])' = FrameVals(cstk[j])
             /\ \A i : cstk'[j].vals[i] = cstk[j].vals[i]
  <2>1. PICK f : f = cstk[j] /\ f = cstk'[j]
    BY <1>4
  <2>2. FrameVals(f)' = FrameVals(f)
    BY <1>2
  <2>3. FrameVals(cstk[j])' = FrameVals(cstk[j])
    BY <2>1, <2>2
  <2> QED  BY <1>3, <1>4, <2>1, <2>3
<1>5. ASSUME NEW p \in FrameStrs, p \notin TopStrs
      PROVE  p \in FrameStrs' /\ p[2] # n /\ Blk(p)' = Blk(p)
  <2>1. PICK j \in DOMAIN cstk : \E i \in DOMAIN FrameVals(cstk[j]) :
          p = <<"frame", j, i>> /\ cstk[j].vals[i].type = "string"
    BY <1>5, FramePlace DEF FramePlaced
  <2>2. PICK i \in DOMAIN FrameVals(cstk[j]) : p = <<"frame", j, i>> /\ cstk[j].vals[i].type = "string"
    BY <2>1
  <2>3. j # n
    BY <1>5, <2>2 DEF TopStrs
  <2>4. j \in 1..(n - 1)
    BY <2>3
  <2>5. i \in DOMAIN FrameVals(cstk[j])' /\ cstk'[j].vals[i] = cstk[j].vals[i] /\ j \in DOMAIN cstk'
    BY <1>4, <2>2, <2>4
  <2>6. p \in FrameStrs'
    BY <2>2, <2>5, FramePlace DEF FramePlaced
  <2>7. Blk(p) = cstk[j].vals[i].str /\ Blk(p)' = cstk'[j].vals[i].str
    BY <2>2, FramePlace DEF FramePlaced
  <2> QED  BY <2>2, <2>3, <2>5, <2>6, <2>7
<1>6. ASSUME NEW p \in FrameStrs', p[2] # n
      PROVE  p \in FrameStrs /\ p \notin TopStrs /\ Blk(p)' = Blk(p)
  <2>1. PICK j \in DOMAIN cstk' : \E i \in DOMAIN FrameVals(cstk[j])' :
          p = <<"frame", j, i>> /\ cstk'[j].vals[i].type = "string"
    BY <1>6, FramePlace DEF FramePlaced
  <2>2. PICK i \in DOMAIN FrameVals(cstk[j])' : p = <<"frame", j, i>> /\ cstk'[j].vals[i].type = "string"
    BY <2>1
  <2>3. j # n + 1
    <3>1. SUFFICES ASSUME j = n + 1 PROVE FALSE
      OBVIOUS
    <3>2. PICK f : f = cstk'[j] /\ f.vals = <<>>
      BY <3>1
    <3>3. DOMAIN FrameVals(f) = {}
      BY <3>2 DEF FrameVals
    <3>4. FrameVals(f)' = FrameVals(f)
      BY <1>2
    <3>5. FrameVals(cstk[j])' = FrameVals(f)
      BY <3>2, <3>4
    <3> QED  BY <3>3, <3>5
  <2>4. j \in 1..(n - 1)
    BY <1>1, <1>6, <2>2, <2>3
  <2>5. i \in DOMAIN FrameVals(cstk[j]) /\ cstk'[j].vals[i] = cstk[j].vals[i] /\ j \in DOMAIN cstk
    BY <1>4, <2>2, <2>4
  <2>6. p \in FrameStrs
    BY <2>2, <2>5, FramePlace DEF FramePlaced
  <2>7. Blk(p) = cstk[j].vals[i].str /\ Blk(p)' = cstk'[j].vals[i].str
    BY <2>2, FramePlace DEF FramePlaced
  <2> QED  BY <1>6, <2>2, <2>5, <2>6, <2>7 DEF TopStrs
<1> QED  BY <1>5, <1>6

-----------------------------------------------------------------------------
(* How a step may move strings: those of P go, those of A come. *)

LocalsMoved(P, A) ==
  /\ P \subseteq LocalStrs /\ LocalStrs' = (LocalStrs \ P) \union A
  /\ \A p \in LocalStrs : p \notin P => Blk(p)' = Blk(p)
GlobalsMoved(P, A) ==
  /\ P \subseteq GlobalStrs /\ GlobalStrs' = (GlobalStrs \ P) \union A
  /\ \A p \in GlobalStrs : p \notin P => Blk(p)' = Blk(p)
FramesMoved(P, A) ==
  /\ P \subseteq FrameStrs /\ FrameStrs' = (FrameStrs \ P) \union A
  /\ \A p \in FrameStrs : p \notin P => Blk(p)' = Blk(p)

LEMMA LocalsKeptMoved ==
  ASSUME NEW P, LocalsKept(P)
  PROVE  LocalsMoved(P, {})
BY DEF LocalsKept, LocalsMoved

LEMMA FramesKeptMoved ==
  ASSUME NEW P, FramesKept(P)
  PROVE  FramesMoved(P, {})
BY DEF FramesKept, FramesMoved

LEMMA SameGlobalStrs ==
  ASSUME UNCHANGED globals
  PROVE  GlobalsMoved({}, {})
<1>1. \A p : p \in GlobalStrs' <=> p \in GlobalStrs
  BY GlobalPlace DEF GlobalPlaced
<1>2. ASSUME NEW p \in GlobalStrs PROVE Blk(p)' = Blk(p)
  <2>1. PICK i \in DOMAIN globals : p = <<"global", 1, i>>
    BY <1>2, GlobalPlace DEF GlobalPlaced
  <2>2. Blk(<<"global", 1, i>>)' = globals'[i].val.str /\ Blk(<<"global", 1, i>>) = globals[i].val.str
    BY GlobalPlace DEF GlobalPlaced
  <2> QED  BY <2>1, <2>2
<1> QED  BY <1>1, <1>2 DEF GlobalsMoved

LEMMA SameFrameStrs ==
  ASSUME UNCHANGED <<prog, cstk>>
  PROVE  FramesKept({})
<1>1. \A j \in DOMAIN cstk : FrameVals(cstk[j])' = FrameVals(cstk[j])
  <2> SUFFICES ASSUME NEW j \in DOMAIN cstk PROVE FrameVals(cstk[j])' = FrameVals(cstk[j])
    OBVIOUS
  <2>1. PICK f : f = cstk[j] /\ f = cstk'[j]
    OBVIOUS
  <2>2. FrameVals(f)' = FrameVals(f)
    BY FrameValsKept
  <2> QED  BY <2>1, <2>2
<1>2. \A j, i : Blk(<<"frame", j, i>>) = cstk[j].vals[i].str /\ Blk(<<"frame", j, i>>)' = cstk'[j].vals[i].str
  BY FramePlace DEF FramePlaced
<1>3. \A p : p \in FrameStrs' => p \in FrameStrs /\ Blk(p)' = Blk(p)
  BY <1>1, <1>2, FramePlace DEF FramePlaced
<1>4. \A p : p \in FrameStrs => p \in FrameStrs'
  BY <1>1, <1>2, FramePlace DEF FramePlaced
<1> QED  BY <1>3, <1>4 DEF FramesKept

\* All strings that go, and all that come.
Going(D, L, G, F) == D = L \union G \union F \union RetStrs
Coming(A, L, G, F) == A = L \union G \union F \union RetStrs'

\* Every block has one owner again when those that come have their blocks from those
\* that go, or new ones.
LEMMA Exchanged ==
  ASSUME OneOwner,
         NEW L, NEW AL, NEW G, NEW AG, NEW F, NEW AF, NEW D, NEW A,
         LocalsMoved(L, AL), GlobalsMoved(G, AG), FramesMoved(F, AF),
         Going(D, L, G, F), Coming(A, AL, AG, AF),
         \A p \in A : Blk(p)' \notin live \/ Blk(p)' \in BlksOf(D),
         \A p, q \in A : Blk(p)' = Blk(q)' => p = q,
         live' = (live \ BlksOf(D)) \union BlksOf(A)'
  PROVE  OneOwner'
<1>10. live' = (live \ BlksOf(D)) \union {Blk(p)' : p \in A}
  BY DEF BlksOf
<1>1. /\ Strs = LocalStrs \union GlobalStrs \union FrameStrs \union RetStrs
      /\ Strs' = LocalStrs' \union GlobalStrs' \union FrameStrs' \union RetStrs'
  BY StrParts DEF StrsApart
<1>2. /\ LocalStrs' = (LocalStrs \ L) \union AL /\ GlobalStrs' = (GlobalStrs \ G) \union AG
      /\ FrameStrs' = (FrameStrs \ F) \union AF
      /\ L \subseteq LocalStrs /\ G \subseteq GlobalStrs /\ F \subseteq FrameStrs
  BY DEF LocalsMoved, GlobalsMoved, FramesMoved
<1>11. D = L \union G \union F \union RetStrs /\ A = AL \union AG \union AF \union RetStrs'
  BY DEF Going, Coming
<1>3. D \subseteq Strs /\ A \subseteq Strs'
  BY <1>1, <1>2, <1>11
<1>7. D \in SUBSET Strs /\ A \in SUBSET Strs'
  BY <1>3
<1>4. /\ \A p \in LocalStrs : p[1] = "local"
      /\ \A p \in GlobalStrs : p[1] = "global"
      /\ \A p \in FrameStrs : p[1] = "frame"
      /\ \A p \in RetStrs : p[1] = "ret"
  BY StrParts DEF StrsApart
<1>5. ASSUME NEW p \in Strs, p \notin D PROVE p \in Strs' /\ Blk(p)' = Blk(p)
  <2>1. p \in LocalStrs \/ p \in GlobalStrs \/ p \in FrameStrs
    BY <1>1, <1>5, <1>11
  <2>2. p \notin L /\ p \notin G /\ p \notin F
    BY <1>5, <1>11
  <2>3. CASE p \in LocalStrs
    BY <1>1, <1>2, <2>2, <2>3 DEF LocalsMoved
  <2>4. CASE p \in GlobalStrs
    BY <1>1, <1>2, <2>2, <2>4 DEF GlobalsMoved
  <2>5. CASE p \in FrameStrs
    BY <1>1, <1>2, <2>2, <2>5 DEF FramesMoved
  <2> QED  BY <2>1, <2>3, <2>4, <2>5
<1>6. ASSUME NEW p \in Strs' PROVE p \in A \/ (p \in Strs /\ p \notin D)
  <2>1. \/ p \in A \/ (p \in LocalStrs /\ p \notin L) \/ (p \in GlobalStrs /\ p \notin G)
        \/ (p \in FrameStrs /\ p \notin F)
    BY <1>1, <1>2, <1>11
  <2>2. p \in L => p[1] = "local"
    BY <1>2, <1>4
  <2>3. p \in G => p[1] = "global"
    BY <1>2, <1>4
  <2>4. p \in F => p[1] = "frame"
    BY <1>2, <1>4
  <2>5. p \in RetStrs => p[1] = "ret"
    BY <1>4
  <2>6. CASE p \in LocalStrs /\ p \notin L
    <3>1. p[1] = "local"
      BY <1>4, <2>6
    <3> QED  BY <1>1, <1>11, <2>3, <2>4, <2>5, <2>6, <3>1
  <2>7. CASE p \in GlobalStrs /\ p \notin G
    <3>1. p[1] = "global"
      BY <1>4, <2>7
    <3> QED  BY <1>1, <1>11, <2>2, <2>4, <2>5, <2>7, <3>1
  <2>8. CASE p \in FrameStrs /\ p \notin F
    <3>1. p[1] = "frame"
      BY <1>4, <2>8
    <3> QED  BY <1>1, <1>11, <2>2, <2>3, <2>5, <2>8, <3>1
  <2> QED  BY <2>1, <2>6, <2>7, <2>8
<1>8. \A p \in Strs : p \notin D => p \in Strs' /\ Blk(p)' = Blk(p)
  BY <1>5
<1>9. \A p \in Strs' : p \in A \/ (p \in Strs /\ p \notin D)
  BY <1>6
<1> QED  BY <1>7, <1>8, <1>9, <1>10, Exchange, Zenon

\* The heap after the strings of D have gone and val has come, whose block is a new one
\* or one of theirs.
HeapMoved(D, val) ==
  /\ live' = (live \ BlksOf(D)) \union Taken(val)
  /\ val.type = "string" => val.str \notin live \/ val.str \in BlksOf(D)

\* The same when one value comes, to one place.
LEMMA OneComes ==
  ASSUME OneOwner,
         NEW L, NEW AL, NEW G, NEW AG, NEW F, NEW AF, NEW D, NEW A, NEW val,
         LocalsMoved(L, AL), GlobalsMoved(G, AG), FramesMoved(F, AF),
         Going(D, L, G, F), Coming(A, AL, AG, AF), HeapMoved(D, val),
         val.type = "string" => A # {},
         \A p \in A : Blk(p)' = val.str /\ val.type = "string",
         \A p, q \in A : p = q
  PROVE  OneOwner'
<1>1. BlksOf(A)' = Taken(val)
  BY DEF BlksOf, Taken
<1>2. live' = (live \ BlksOf(D)) \union BlksOf(A)'
  BY <1>1 DEF HeapMoved
<1>3. \A p \in A : Blk(p)' \notin live \/ Blk(p)' \in BlksOf(D)
  BY DEF HeapMoved
<1>4. \A p, q \in A : Blk(p)' = Blk(q)' => p = q
  OBVIOUS
<1> QED  BY <1>2, <1>3, <1>4, Exchanged, Zenon

\* The same when that is what is given back.
LEMMA Passes ==
  ASSUME OneOwner, NEW L, NEW F, NEW D, LocalsKept(L), FramesKept(F), UNCHANGED globals,
         D = L \union F \union RetStrs, HeapMoved(D, ret'.val)
  PROVE  OneOwner'
<1>1. PICK E : E = {}
  OBVIOUS
<1>2. PICK A : A = RetStrs'
  OBVIOUS
<1>3. PICK val : val = ret'.val
  OBVIOUS
<1>4. LocalsMoved(L, E) /\ FramesMoved(F, E) /\ GlobalsMoved(E, E)
  BY <1>1, LocalsKeptMoved, FramesKeptMoved, SameGlobalStrs
<1>5. Going(D, L, E, F) /\ Coming(A, E, E, E) /\ HeapMoved(D, val)
  BY <1>1, <1>2, <1>3 DEF Going, Coming
<1>6. \A p \in A : p = RetPlace /\ Blk(p)' = val.str /\ val.type = "string"
  BY <1>2, <1>3, RetOnly DEF RetPlaced
<1>7. val.type = "string" => A # {}
  BY <1>2, <1>3, RetOnly DEF RetPlaced
<1>8. \A p, q \in A : p = q
  BY <1>6
<1> QED  BY <1>4, <1>5, <1>6, <1>7, <1>8, OneComes, Zenon

\* How the heap moves: a new value is made, or one is handed on, while others are released.
LEMMA HeapMakes ==
  ASSUME OneOwner, live \subseteq Blocks, NEW made, NEW vs, NEW P, StandAt(vs, P), Heap(made, vs),
         made.type = "string" => made.str = NewBlock
  PROVE  HeapMoved(P, made) /\ UNCHANGED fault
<1>1. UNCHANGED fault /\ live' = (live \ BlksOf(P)) \union Taken(made)
  BY HeapFreed
<1>2. made.type = "string" => made.str \notin live
  BY DEF Heap, HasRoom, NewBlock
<1> QED  BY <1>1, <1>2 DEF HeapMoved

LEMMA HeapHands ==
  ASSUME OneOwner, NEW vs, NEW P, StandAt(vs, P), Heap(Null, vs),
         NEW val, NEW H, StandAt(<<val>>, H), P \cap H = {},
         NEW D, D = P \union H
  PROVE  HeapMoved(D, val) /\ UNCHANGED fault
<1>1. UNCHANGED fault /\ live' = live \ BlksOf(P) /\ P \subseteq Strs
  BY HeapFreed DEF Taken, Null, Val
<1>2. BlocksOf(<<val>>) = BlksOf(H) /\ H \subseteq Strs
  BY Freed
<1>3. BlocksOf(<<val>>) = Taken(val)
  BY DEF BlocksOf, StrIdx, Taken
<1>4. BlksOf(D) = BlksOf(P) \union BlksOf(H)
  BY DEF BlksOf
<1>5. BlksOf(H) \subseteq live
  BY <1>2 DEF BlksOf, OneOwner
<1>6. BlksOf(P) \cap BlksOf(H) = {}
  BY <1>1, <1>2 DEF BlksOf, OneOwner
<1>7. live' = (live \ BlksOf(D)) \union Taken(val)
  BY <1>1, <1>2, <1>3, <1>4, <1>5, <1>6
<1>8. val.type = "string" => val.str \in BlksOf(D)
  BY <1>2, <1>3, <1>4 DEF Taken
<1> QED  BY <1>1, <1>7, <1>8 DEF HeapMoved

\* One value is handed on and none released.
LEMMA HeapPasses ==
  ASSUME OneOwner, NoHeap, NEW val, NEW H, StandAt(<<val>>, H)
  PROVE  HeapMoved(H, val) /\ UNCHANGED fault
<1>1. BlocksOf(<<val>>) = BlksOf(H) /\ H \subseteq Strs
  BY Freed
<1>2. BlocksOf(<<val>>) = Taken(val)
  BY DEF BlocksOf, StrIdx, Taken
<1>3. BlksOf(H) \subseteq live
  BY <1>1 DEF BlksOf, OneOwner
<1> QED  BY <1>1, <1>2, <1>3 DEF HeapMoved, NoHeap, Taken

\* Strings are released, and what comes is none.
LEMMA HeapReleases ==
  ASSUME OneOwner, NEW vs, NEW P, StandAt(vs, P), Heap(Null, vs),
         NEW val, val.type # "string"
  PROVE  HeapMoved(P, val) /\ UNCHANGED fault
<1>1. UNCHANGED fault /\ live' = live \ BlksOf(P)
  BY HeapFreed DEF Taken, Null, Val
<1> QED  BY <1>1 DEF HeapMoved, Taken

LEMMA HeapStays ==
  ASSUME NoHeap, NEW val, val.type # "string"
  PROVE  HeapMoved({}, val) /\ UNCHANGED fault
BY DEF NoHeap, HeapMoved, Taken, BlksOf

-----------------------------------------------------------------------------
(* What the handlers hold before and after a step. *)

LEMMA LeftFrames ==
  ASSUME IInv, Running, UNCHANGED prog, NEW act, NEW val, Leave(act, val)
  PROVE  FramesKept(TopStrs)
<1>1. PICK n \in Nat : n = Len(cstk)
  BY Shapes
<1>2. /\ n > 0 /\ DOMAIN cstk = 1..n /\ DOMAIN cstk' = 1..(n - 1)
      /\ \A i \in 1..(n - 1) : cstk'[i] = cstk[i]
  BY <1>1, LeftStack
<1>3. DOMAIN cstk' \subseteq 1..(n + 1) /\ n + 1 \notin DOMAIN cstk' /\ n \notin DOMAIN cstk'
      /\ \A i \in 1..(n - 1) : i \in DOMAIN cstk'
  BY <1>1, <1>2
<1>4. /\ \A p \in FrameStrs : p \in TopStrs \/ (p \in FrameStrs' /\ p[2] # n /\ Blk(p)' = Blk(p))
      /\ \A p \in FrameStrs' : (p \in FrameStrs /\ p \notin TopStrs /\ Blk(p)' = Blk(p)) \/ p[2] = n
  BY <1>1, <1>2, <1>3, FrameStrsAre
<1>5. \A p \in FrameStrs' : p[2] # n
  <2>1. SUFFICES ASSUME NEW p \in FrameStrs' PROVE p[2] # n
    OBVIOUS
  <2>2. PICK j \in DOMAIN cstk' : \E i \in DOMAIN FrameVals(cstk[j])' : p = <<"frame", j, i>>
    BY <2>1, FramePlace DEF FramePlaced
  <2> QED  BY <1>3, <2>2
<1>6. TopStrs \subseteq FrameStrs /\ \A p \in TopStrs : p[2] = n
  BY <1>1 DEF TopStrs
<1>7. FrameStrs' = FrameStrs \ TopStrs
  BY <1>4, <1>5, <1>6
<1>8. \A p \in FrameStrs' : Blk(p)' = Blk(p)
  BY <1>4, <1>5
<1> QED  BY <1>6, <1>7, <1>8 DEF FramesKept

\* A handler that calls another and still holds what it held.
LEMMA CalledFrames ==
  ASSUME IInv, Running, UNCHANGED prog, ~InCallee(Top),
         NEW env, NEW k \in 1..Arity, NEW node, NEW vals \in Seq(Value),
         CallNode(env, k, node, vals), Frame(env, node) \in FrameRecord,
         N.type = "FOR" \/ vals = Top.vals
  PROVE  FramesKept({})
<1>1. PICK n \in Nat : n = Len(cstk)
  BY Shapes
<1>2. /\ n > 0 /\ DOMAIN cstk = 1..n /\ DOMAIN cstk' = 1..(n + 1) /\ Top = cstk[n]
      /\ \A i \in 1..(n - 1) : cstk'[i] = cstk[i]
      /\ cstk'[n].mod = Top.mod /\ cstk'[n].node = Top.node /\ cstk'[n].at = k
      /\ cstk'[n].vals = vals /\ cstk'[n + 1] = Frame(env, node)
      /\ k \in Nat
  BY <1>1, CallStack, TopFacts, Shapes DEF Top
<1>3. cstk'[n + 1].vals = <<>> /\ n \in DOMAIN cstk /\ n \in DOMAIN cstk'
      /\ \A i \in 1..(n - 1) : i \in DOMAIN cstk'
  BY <1>2 DEF Frame
<1>4. /\ \A p \in FrameStrs : p \in TopStrs \/ (p \in FrameStrs' /\ p[2] # n /\ Blk(p)' = Blk(p))
      /\ \A p \in FrameStrs' : (p \in FrameStrs /\ p \notin TopStrs /\ Blk(p)' = Blk(p)) \/ p[2] = n
  BY <1>1, <1>2, <1>3, FrameStrsAre
<1>5. FrameVals(cstk[n])' = FrameVals(cstk[n]) /\ (FrameVals(cstk[n]) # <<>> => vals = Top.vals)
  <2>1. PICK f : f = cstk'[n]
    OBVIOUS
  <2>2. FrameVals(cstk[n])' = FrameVals(f)' /\ FrameVals(f)' = FrameVals(f)
    BY <2>1, FrameValsKept
  <2>3. N = Node(Top.mod, Top.node) /\ Node(f.mod, f.node) = N /\ Arity \in Nat
    BY <1>2, <2>1, TopFacts
  <2>4. ~InCallee(f)
    BY <1>2, <2>1, <2>3 DEF InCallee, Arity
  <2>5. FrameVals(f) = IF N.type = "FOR" THEN <<>> ELSE vals
    BY <1>2, <2>1, <2>3, <2>4 DEF FrameVals
  <2>6. FrameVals(cstk[n]) = IF N.type = "FOR" THEN <<>> ELSE Top.vals
    BY <1>2, <2>3 DEF FrameVals
  <2> QED  BY <2>2, <2>5, <2>6
<1>6. FrameVals(cstk[n]) # <<>> => \A i : cstk'[n].vals[i] = cstk[n].vals[i]
  BY <1>2, <1>5
<1>7. \A i \in DOMAIN FrameVals(cstk[n]) : cstk'[n].vals[i] = cstk[n].vals[i]
  BY <1>6
<1>8. \A i : Blk(<<"frame", n, i>>) = cstk[n].vals[i].str /\ Blk(<<"frame", n, i>>)' = cstk'[n].vals[i].str
  BY FramePlace DEF FramePlaced
<1>9. ASSUME NEW p \in FrameStrs, p[2] = n
      PROVE  p \in FrameStrs' /\ Blk(p)' = Blk(p)
  <2>1. PICK j \in DOMAIN cstk : \E i \in DOMAIN FrameVals(cstk[j]) :
          p = <<"frame", j, i>> /\ cstk[j].vals[i].type = "string"
    BY <1>9, FramePlace DEF FramePlaced
  <2>2. PICK i \in DOMAIN FrameVals(cstk[j]) : p = <<"frame", j, i>> /\ cstk[j].vals[i].type = "string"
    BY <2>1
  <2>3. j = n
    BY <1>9, <2>2
  <2>4. i \in DOMAIN FrameVals(cstk[n])' /\ cstk'[n].vals[i].type = "string" /\ p = <<"frame", n, i>>
        /\ cstk'[n].vals[i] = cstk[n].vals[i]
    BY <1>5, <1>7, <2>2, <2>3
  <2>5. p \in FrameStrs'
    BY <1>3, <2>4, FramePlace DEF FramePlaced
  <2> QED  BY <1>8, <2>4, <2>5
<1>10. ASSUME NEW p \in FrameStrs', p[2] = n
       PROVE  p \in FrameStrs /\ Blk(p)' = Blk(p)
  <2>1. PICK j \in DOMAIN cstk' : \E i \in DOMAIN FrameVals(cstk[j])' :
          p = <<"frame", j, i>> /\ cstk'[j].vals[i].type = "string"
    BY <1>10, FramePlace DEF FramePlaced
  <2>2. PICK i \in DOMAIN FrameVals(cstk[j])' : p = <<"frame", j, i>> /\ cstk'[j].vals[i].type = "string"
    BY <2>1
  <2>3. j = n
    BY <1>10, <2>2
  <2>4. i \in DOMAIN FrameVals(cstk[n]) /\ cstk[n].vals[i].type = "string" /\ p = <<"frame", n, i>>
        /\ cstk'[n].vals[i] = cstk[n].vals[i]
    BY <1>5, <1>7, <2>2, <2>3
  <2>5. p \in FrameStrs
    BY <1>3, <2>4, FramePlace DEF FramePlaced
  <2> QED  BY <1>8, <2>4, <2>5
<1>11. \A p \in TopStrs : p[2] = n /\ p \in FrameStrs
  BY <1>1 DEF TopStrs
<1>12. \A p \in FrameStrs : p \in FrameStrs'
  BY <1>4, <1>9, <1>11
<1>13. \A p \in FrameStrs' : p \in FrameStrs /\ Blk(p)' = Blk(p)
  BY <1>4, <1>10
<1> QED  BY <1>12, <1>13 DEF FramesKept

\* A call that goes on in its function holds nothing any more: its arguments are there.
LEMMA InvokedFrames ==
  ASSUME IInv, Running, UNCHANGED prog, N.type = "ECALL",
         NEW env, NEW node, CallNode(env, Arity + 1, node, <<>>), Frame(env, node) \in FrameRecord
  PROVE  FramesKept(TopStrs)
<1>1. PICK n \in Nat : n = Len(cstk)
  BY Shapes
<1>2. PICK k \in Nat : k = Arity + 1
  BY TopFacts
<1>3. /\ n > 0 /\ DOMAIN cstk = 1..n /\ DOMAIN cstk' = 1..(n + 1) /\ Top = cstk[n]
      /\ \A i \in 1..(n - 1) : cstk'[i] = cstk[i]
      /\ cstk'[n].mod = Top.mod /\ cstk'[n].node = Top.node /\ cstk'[n].at = k
      /\ cstk'[n + 1] = Frame(env, node)
  <2>1. <<>> \in Seq(Value)
    OBVIOUS
  <2>2. CallNode(env, k, node, <<>>)
    BY <1>2
  <2> QED  BY <1>1, <1>2, <2>1, <2>2, CallStack, TopFacts, Shapes DEF Top
<1>4. cstk'[n + 1].vals = <<>> /\ n \in DOMAIN cstk /\ n \in DOMAIN cstk'
      /\ \A i \in 1..(n - 1) : i \in DOMAIN cstk'
  BY <1>3 DEF Frame
<1>5. /\ \A p \in FrameStrs : p \in TopStrs \/ (p \in FrameStrs' /\ p[2] # n /\ Blk(p)' = Blk(p))
      /\ \A p \in FrameStrs' : (p \in FrameStrs /\ p \notin TopStrs /\ Blk(p)' = Blk(p)) \/ p[2] = n
  BY <1>1, <1>3, <1>4, FrameStrsAre
<1>6. FrameVals(cstk[n])' = <<>>
  <2>1. PICK f : f = cstk'[n]
    OBVIOUS
  <2>2. FrameVals(cstk[n])' = FrameVals(f)' /\ FrameVals(f)' = FrameVals(f)
    BY <2>1, FrameValsKept
  <2>3. N = Node(Top.mod, Top.node) /\ Node(f.mod, f.node) = N /\ Arity \in Nat
    BY <1>3, <2>1, TopFacts
  <2>4. f.at > Arity
    BY <1>2, <1>3, <2>1, <2>3
  <2>5. InCallee(f)
    BY <2>3, <2>4 DEF InCallee, Arity
  <2> QED  BY <2>2, <2>5 DEF FrameVals
<1>7. \A p \in FrameStrs' : p[2] # n
  <2>1. SUFFICES ASSUME NEW p \in FrameStrs', p[2] = n PROVE FALSE
    OBVIOUS
  <2>2. PICK j \in DOMAIN cstk' : \E i \in DOMAIN FrameVals(cstk[j])' : p = <<"frame", j, i>>
    BY <2>1, FramePlace DEF FramePlaced
  <2>3. j = n
    BY <2>1, <2>2
  <2> QED  BY <1>6, <2>2, <2>3
<1>8. TopStrs \subseteq FrameStrs /\ \A p \in TopStrs : p[2] = n
  BY <1>1 DEF TopStrs
<1>9. FrameStrs' = FrameStrs \ TopStrs
  BY <1>5, <1>7, <1>8
<1>10. \A p \in FrameStrs' : Blk(p)' = Blk(p)
  BY <1>5, <1>7
<1> QED  BY <1>8, <1>9, <1>10 DEF FramesKept

\* The values of the handler that runs are at their places.
LEMMA TopStands ==
  ASSUME IInv, Running, ~InCallee(Top), N.type # "FOR"
  PROVE  StandAt(Top.vals, TopStrs) /\ Top.vals \in Seq(Value)
<1>1. PICK n \in Nat : n = Len(cstk)
  BY Shapes
<1>2. /\ n \in DOMAIN cstk /\ Top = cstk[n] /\ N = Node(Top.mod, Top.node) /\ Top.vals \in Seq(Value)
  BY <1>1, TopFacts DEF Top, FrameRecord
<1>3. FrameVals(cstk[n]) = Top.vals
  BY <1>2 DEF FrameVals
<1>4. \A i \in StrIdx(Top.vals) : /\ i \in DOMAIN Top.vals /\ Top.vals[i].type = "string"
  BY DEF StrIdx
<1>5. \A i \in StrIdx(Top.vals) : <<"frame", n, i>> \in FrameStrs /\ <<"frame", n, i>>[2] = n
                                 /\ Blk(<<"frame", n, i>>) = Top.vals[i].str
  BY <1>2, <1>3, <1>4, FramePlace DEF FramePlaced
<1>6. FrameStrs \subseteq Strs
  BY StrParts DEF StrsApart
<1>7. PICK s : s = [i \in StrIdx(Top.vals) |-> <<"frame", n, i>>]
  OBVIOUS
<1>8. \A i \in StrIdx(Top.vals) : s[i] = <<"frame", n, i>>
  BY <1>7
<1>9. s \in [StrIdx(Top.vals) -> Strs]
  BY <1>5, <1>6, <1>7
<1>10. \A i \in StrIdx(Top.vals) : Blk(s[i]) = Top.vals[i].str
  BY <1>5, <1>8
<1>11. \A i, j \in StrIdx(Top.vals) : s[i] = s[j] => i = j
  BY <1>8
<1>12. \A i \in StrIdx(Top.vals) : s[i] \in TopStrs
  BY <1>1, <1>5, <1>8 DEF TopStrs
<1>13. ASSUME NEW p \in TopStrs PROVE \E i \in StrIdx(Top.vals) : p = s[i]
  <2>1. p \in FrameStrs /\ p[2] = n
    BY <1>1, <1>13 DEF TopStrs
  <2>2. PICK j \in DOMAIN cstk : \E i \in DOMAIN FrameVals(cstk[j]) :
          p = <<"frame", j, i>> /\ cstk[j].vals[i].type = "string"
    BY <2>1, FramePlace DEF FramePlaced
  <2>3. PICK i \in DOMAIN FrameVals(cstk[j]) : p = <<"frame", j, i>> /\ cstk[j].vals[i].type = "string"
    BY <2>2
  <2>4. j = n
    BY <2>1, <2>3
  <2>5. i \in StrIdx(Top.vals)
    BY <1>2, <1>3, <2>3, <2>4 DEF StrIdx
  <2> QED  BY <1>8, <2>3, <2>4, <2>5
<1>14. TopStrs = {s[i] : i \in StrIdx(Top.vals)}
  BY <1>12, <1>13
<1> QED  BY <1>2, <1>9, <1>10, <1>11, <1>14 DEF StandAt

\* It holds none.
LEMMA TopNone ==
  ASSUME IInv, Running,
         \/ InCallee(Top) \/ N.type = "FOR"
         \/ \A i \in DOMAIN Top.vals : Top.vals[i].type # "string"
  PROVE  TopStrs = {}
<1>1. PICK n \in Nat : n = Len(cstk)
  BY Shapes
<1>2. Top = cstk[n] /\ N = Node(Top.mod, Top.node)
  BY <1>1, TopFacts DEF Top
<1>3. FrameVals(Top) = <<>> \/ FrameVals(Top) = Top.vals
  BY DEF FrameVals
<1>4. InCallee(Top) \/ N.type = "FOR" => FrameVals(Top) = <<>>
  BY <1>2 DEF FrameVals
<1> SUFFICES ASSUME NEW p \in TopStrs PROVE FALSE
  OBVIOUS
<1>5. p \in FrameStrs /\ p[2] = n
  BY <1>1 DEF TopStrs
<1>6. PICK j \in DOMAIN cstk : \E i \in DOMAIN FrameVals(cstk[j]) :
        p = <<"frame", j, i>> /\ cstk[j].vals[i].type = "string"
  BY <1>5, FramePlace DEF FramePlaced
<1>7. PICK i \in DOMAIN FrameVals(cstk[j]) : p = <<"frame", j, i>> /\ cstk[j].vals[i].type = "string"
  BY <1>6
<1>8. j = n
  BY <1>5, <1>7
<1>9. i \in DOMAIN FrameVals(Top) /\ Top.vals[i].type = "string"
  BY <1>2, <1>7, <1>8
<1> QED  BY <1>3, <1>4, <1>9

\* What has been given back is at its place.
LEMMA RetStands ==
  ASSUME IInv
  PROVE  /\ StandAt(<<ret.val>>, RetStrs) /\ StandAt(<<Slot(ret.val)>>, RetStrs)
         /\ <<Slot(ret.val)>> \in Seq(Value)
         /\ Slot(ret.val).type = "string" <=> ret.val.type = "string"
<1>1. RetStrs \subseteq Strs
  BY StrParts DEF StrsApart
<1>2. ret.val.type = "string" => RetPlace \in Strs /\ Blk(RetPlace) = ret.val.str
  BY <1>1, RetOnly DEF RetPlaced
<1>3. StandAt(<<ret.val>>, RetStrs)
  BY <1>2, StandOne DEF RetStrs
<1>4. ret.val.type = "string" => Slot(ret.val) = ret.val
  BY DEF Slot, Unwritten, Val
<1>5. Slot(ret.val).type = "string" => ret.val.type = "string"
  BY DEF Slot, Null, Val
<1>6. StandAt(<<Slot(ret.val)>>, IF Slot(ret.val).type = "string" THEN {RetPlace} ELSE {})
  BY <1>2, <1>4, <1>5, StandOne
<1>7. Slot(ret.val) \in Value
  BY RetFacts, ValueFacts
<1> QED  BY <1>3, <1>4, <1>5, <1>6, <1>7 DEF RetStrs

-----------------------------------------------------------------------------
(* Steps that leave every block with one owner. *)

\* A handler returns.
LEMMA OwnedLeft ==
  ASSUME IInv, Running, OneOwner, UNCHANGED <<prog, globals>>, NEW act, NEW val, Leave(act, val),
         NEW L, NEW D, LocalsKept(L), D = L \union TopStrs \union RetStrs, HeapMoved(D, val)
  PROVE  OneOwner'
<1>1. FramesKept(TopStrs)
  BY LeftFrames
<1>2. ret'.val = val
  BY DEF Leave, Ret
<1>3. HeapMoved(D, ret'.val)
  BY <1>2
<1> QED  BY <1>1, <1>3, Passes

\* A handler calls another for a child.
LEMMA OwnedCalled ==
  ASSUME IInv, Running, OneOwner, UNCHANGED <<prog, globals>>, ~InCallee(Top),
         NEW env \in {fns, Opened}, NEW k \in 1..Arity, NEW vals \in Seq(Value),
         CallNode(env, k, Kid(k), vals), N.type = "FOR" \/ vals = Top.vals,
         NEW L, LocalsKept(L), HeapMoved(L \union RetStrs, Null)
  PROVE  OneOwner'
<1>1. Frame(env, Kid(k)) \in FrameRecord
  <2>1. Kid(k) \in Nat
    BY TopFacts
  <2>2. env \in Seq(EnvRecord) /\ env # <<>>
    BY OpenedFacts, TopFacts DEF EnvsKept
  <2> QED  BY <2>1, <2>2, FrameType
<1>2. FramesKept({})
  BY <1>1, CalledFrames
<1>3. ret'.val = Null
  BY DEF CallNode, NoRet, Ret
<1>4. PICK D : D = L \union {} \union RetStrs
  OBVIOUS
<1>5. HeapMoved(D, ret'.val)
  BY <1>3, <1>4
<1> QED  BY <1>2, <1>4, <1>5, Passes

-----------------------------------------------------------------------------
(* What else holds of the values that handlers have and give back. *)

\* The value a for loop keeps after it has been released is a string only if its body may
\* leave one; ls_execesystem evaluates no more arguments than the call has.
FrameTidy(f, leaving) ==
  LET node == Node(f.mod, f.node)
  IN /\ node.type = "FOR" /\ f.at = 3 =>
          /\ Len(f.vals) = 1
          /\ f.vals[1].type = "string" => node.kids[4] \in leaving[f.mod]
     /\ node.type = "ESYSTEM" => Len(f.vals) < Len(node.kids)
FramesTidy(leaving) == \A i \in DOMAIN cstk : FrameTidy(cstk[i], leaving)
\* A string a handler gives back is one its node may leave.
StringLeft(leaving) ==
  ret # NoRet /\ cstk # <<>> /\ ~InCallee(Top) /\ ret.act = "none" /\ ret.val.type = "string" =>
    Called(Top) \in leaving[Top.mod]

\* Nothing is lost, released twice or read after its release.
Safe(leaving) == OneOwner /\ FramesTidy(leaving) /\ StringLeft(leaving) /\ NoFault

\* There are no locals before the entry function is called.
NoLocalsYet == phase \in {"symtab", "globals", "lookup"} => fns = <<>>

\* What holds of the memory between two steps of a well-typed program.
MInv(t, leaving) ==
  /\ TInv(t) /\ StringsUsed(prog, t, leaving)
  /\ phase # "error" => OneOwner
  /\ FramesTidy(leaving) /\ StringLeft(leaving) /\ NoFault /\ NoLocalsYet

LEMMA MInvFacts ==
  ASSUME NEW t, NEW leaving, MInv(t, leaving), Running
  PROVE  /\ TInv(t) /\ IInv /\ CInv /\ StringsUsed(prog, t, leaving)
         /\ OneOwner /\ FramesTidy(leaving) /\ StringLeft(leaving) /\ NoFault /\ live \subseteq Blocks
         /\ FrameTidy(Top, leaving) /\ fault = "none"
<1>1. TInv(t) /\ IInv /\ CInv /\ live \subseteq Blocks
  BY TInvFacts, RetFacts DEF MInv
<1>2. OneOwner
  BY DEF MInv, Running
<1>3. FrameTidy(Top, leaving)
  BY <1>1, TopFacts DEF MInv, FramesTidy, Top
<1> QED  BY <1>1, <1>2, <1>3 DEF MInv, Running

LEMMA TidyKept ==
  ASSUME UNCHANGED prog, NEW f, NEW leaving
  PROVE  FrameTidy(f, leaving)' <=> FrameTidy(f, leaving)
BY DEF FrameTidy, Node

LEMMA LeftTidy ==
  ASSUME IInv, Running, UNCHANGED prog, NEW act, NEW val, Leave(act, val),
         NEW leaving, FramesTidy(leaving)
  PROVE  FramesTidy(leaving)'
<1>1. PICK n \in Nat : n = Len(cstk)
  BY Shapes
<1>2. DOMAIN cstk = 1..n /\ DOMAIN cstk' = 1..(n - 1) /\ \A i \in 1..(n - 1) : cstk'[i] = cstk[i]
  BY <1>1, LeftStack
<1> SUFFICES ASSUME NEW i \in 1..(n - 1) PROVE FrameTidy(cstk[i], leaving)'
  BY <1>2 DEF FramesTidy
<1>3. PICK f : f = cstk[i] /\ f = cstk'[i]
  BY <1>2
<1>4. i \in DOMAIN cstk
  BY <1>1, <1>2
<1>5. FrameTidy(f, leaving)
  BY <1>3, <1>4 DEF FramesTidy
<1>6. FrameTidy(f, leaving)'
  BY <1>5, TidyKept
<1> QED  BY <1>3, <1>6

LEMMA CalledTidy ==
  ASSUME IInv, IInv', Running, UNCHANGED prog, NEW leaving, FramesTidy(leaving),
         NEW env, NEW k \in Nat, NEW node, NEW vals \in Seq(Value),
         CallNode(env, k, node, vals), Frame(env, node) \in FrameRecord,
         N.type = "FOR" /\ k = 3 =>
           Len(vals) = 1 /\ (vals[1].type = "string" => Kid(4) \in leaving[Top.mod]),
         N.type = "ESYSTEM" => Len(vals) < Arity
  PROVE  FramesTidy(leaving)'
<1>1. PICK n \in Nat : n = Len(cstk)
  BY Shapes
<1>2. /\ n > 0 /\ DOMAIN cstk = 1..n /\ DOMAIN cstk' = 1..(n + 1) /\ Top = cstk[n]
      /\ \A i \in 1..(n - 1) : cstk'[i] = cstk[i]
      /\ cstk'[n].mod = Top.mod /\ cstk'[n].node = Top.node /\ cstk'[n].at = k
      /\ cstk'[n].vals = vals /\ cstk'[n + 1] = Frame(env, node)
  BY <1>1, CallStack, TopFacts, Shapes DEF Top
<1>3. prog \in Programs
  BY DEF IInv, TypeOK
<1>4. ASSUME NEW i \in 1..(n + 1) PROVE FrameTidy(cstk[i], leaving)'
  <2>1. PICK f : f = cstk'[i]
    OBVIOUS
  <2>2. SUFFICES FrameTidy(f, leaving)
    <3>1. FrameTidy(f, leaving)' = FrameTidy(cstk[i], leaving)'
      BY <2>1
    <3> QED  BY <3>1, TidyKept
  <2>3. CASE i \in 1..(n - 1)
    <3>1. f = cstk[i] /\ i \in DOMAIN cstk
      BY <1>2, <2>1, <2>3
    <3> QED  BY <3>1 DEF FramesTidy
  <2>4. CASE i = n
    <3>1. f.mod = Top.mod /\ f.node = Top.node /\ f.at = k /\ f.vals = vals /\ N = Node(Top.mod, Top.node)
      BY <1>2, <2>1, <2>4, TopFacts
    <3> QED  BY <3>1 DEF FrameTidy, Arity, Kid
  <2>5. CASE i = n + 1
    <3>1. f.at = 0 /\ f.vals = <<>>
      BY <1>2, <2>1, <2>5 DEF Frame
    <3>2. f.mod \in DOMAIN prog' /\ f.node \in DOMAIN prog'[f.mod]
      <4>2. i \in DOMAIN cstk'
        BY <1>1, <1>2, <1>4
      <4> QED  BY <2>1, <4>2 DEF IInv, Placed, StackDiscipline
    <3>3. NodeOk(prog[f.mod], f.node) /\ Node(f.mod, f.node) \in NodeRecord /\ Node(f.mod, f.node) = prog[f.mod][f.node]
      BY <1>3, <3>2, NodeFacts DEF Node
    <3>4. Node(f.mod, f.node).type = "ESYSTEM" => Len(Node(f.mod, f.node).kids) \in Nat \ {0}
      BY <3>3 DEF NodeOk, Arities
    <3> QED  BY <3>1, <3>4 DEF FrameTidy
  <2>6. i \in 1..(n - 1) \/ i = n \/ i = n + 1
    BY <1>1
  <2> QED  BY <2>3, <2>4, <2>5, <2>6
<1> QED  BY <1>2, <1>4 DEF FramesTidy

\* What a child gave back, as the typing has it.
GaveTyped(t) ==
  ret # NoRet /\ cstk # <<>> /\ ~InCallee(Top) =>
    Called(Top) \in DOMAIN t[Top.mod] /\ GivesTyped(t, Top.mod, Called(Top), ret.act, ret.val)

LEMMA ChildGiven ==
  ASSUME NEW t
  PROVE  TInv(t) => GaveTyped(t)
<1> SUFFICES ASSUME TInv(t), ret # NoRet, cstk # <<>>, ~InCallee(Top)
             PROVE  Called(Top) \in DOMAIN t[Top.mod] /\ GivesTyped(t, Top.mod, Called(Top), ret.act, ret.val)
  BY DEF GaveTyped
<1>1. ChildGave(t)
  BY TInvFacts DEF Returned
<1> QED  BY <1>1, Zenon DEF ChildGave

\* A string that comes from an expression, or from a statement that may leave it, or with
\* a return.
LEMMA LeftString ==
  ASSUME NEW t, TInv(t), TInv(t)', Running, UNCHANGED prog, NEW leaving, StringsUsed(prog, t, leaving),
         NEW act, NEW val, Leave(act, val),
         \/ N.type \in ExprTypes \union {"FUNCDECL"}
         \/ act # "none" \/ val.type # "string" \/ Top.node \in leaving[Top.mod]
  PROVE  StringLeft(leaving)'
<1>1. PICK n \in Nat : n = Len(cstk)
  BY TInvFacts, Shapes
<1>2. /\ n > 0 /\ DOMAIN cstk = 1..n /\ Top = cstk[n]
      /\ \A i \in 1..(n - 1) : cstk'[i] = cstk[i]
      /\ ret' = Ret(act, val) /\ (cstk' # <<>> => n > 1 /\ Top' = cstk[n - 1])
  BY <1>1, TInvFacts, LeftStack
<1>3. SUFFICES ASSUME ret' # NoRet, cstk' # <<>>, ~InCallee(Top)', act = "none", val.type = "string"
               PROVE  Called(Top)' \in leaving[Top'.mod]
  BY <1>2 DEF StringLeft, Ret
<1>4. PICK f : f = Top' /\ f = cstk[n - 1]
  BY <1>2, <1>3
<1>5. PICK i \in Nat : i = n - 1
  <2>1. n > 1
    BY <1>2, <1>3
  <2>2. n - 1 \in Nat
    BY <2>1, <1>1
  <2> QED  BY <2>2
<1>6. i \in DOMAIN cstk /\ i + 1 \in DOMAIN cstk /\ i + 1 = n /\ cstk[i] = f /\ cstk[i + 1] = Top
  BY <1>1, <1>2, <1>3, <1>4, <1>5
<1>7. ~InCallee(f)
  <2>1. InCallee(Top)' = InCallee(f)'
    BY <1>4
  <2>2. InCallee(f)' = InCallee(f)
    BY DEF InCallee, Node
  <2> QED  BY <1>3, <2>1, <2>2
<1>8. /\ Top.mod = f.mod /\ Top.node = Node(f.mod, f.node).kids[f.at]
      /\ Node(Top.mod, Top.node).type # "FUNCDECL"
  BY <1>6, <1>7, CallerFacts
<1>9. Called(Top)' = Top.node
  <2>1. Called(Top)' = Called(f)'
    BY <1>4
  <2>2. Called(f)' = Node(f.mod, f.node).kids[f.at]
    <3>1. ~InCallee(f)'
      BY <1>7 DEF InCallee, Node
    <3> QED  BY <3>1 DEF Called, Node
  <2> QED  BY <1>8, <2>1, <2>2
<1>10. N = Node(Top.mod, Top.node) /\ Top.mod \in DOMAIN prog /\ Top.node \in DOMAIN prog[Top.mod]
       /\ N = prog[Top.mod][Top.node]
  BY TInvFacts, TopFacts DEF Node
<1>11. Top.node \in leaving[Top.mod]
  <2>1. CASE N.type \in ExprTypes
    <3>1. GaveTyped(t)'
      BY ChildGiven, PTL
    <3>2. PICK g : g = Top.node
      OBVIOUS
    <3>3. g \in DOMAIN t[f.mod] /\ prog[f.mod][g].type \in ExprTypes
      BY <1>3, <1>4, <1>8, <1>9, <1>10, <2>1, <3>1, <3>2 DEF GaveTyped
    <3>4. GivesTyped(t, Top.mod, Called(Top), ret.act, ret.val)'
      BY <1>3, <3>1 DEF GaveTyped
    <3>6. prog'[Top'.mod][Called(Top)'].type \in ExprTypes
      BY <1>4, <1>9, <3>2, <3>3
    <3>7. Fits(ret'.val, t[Top'.mod][Called(Top)'].type)
      BY <3>4, <3>6 DEF GivesTyped, Node, Fits
    <3>8. Fits(val, t[f.mod][g].type)
      BY <1>2, <1>4, <1>9, <3>2, <3>7 DEF Ret
    <3>5. t[Top.mod][Top.node].type = "string" /\ Top.node \in DOMAIN t[Top.mod]
      BY <1>3, <1>8, <3>2, <3>3, <3>8 DEF Fits
    <3> QED  BY <1>10, <2>1, <3>5 DEF StringsUsed
  <2> QED  BY <1>3, <1>8, <1>10, <2>1
<1> QED  BY <1>4, <1>8, <1>9, <1>11

-----------------------------------------------------------------------------
(* Steps of the usual kinds. *)

LEMMA LeftSafe ==
  ASSUME NEW t, NEW leaving, MInv(t, leaving), TInv(t)', Running, UNCHANGED <<prog, globals, fault>>,
         NEW act, NEW val, Leave(act, val),
         NEW L, NEW D, LocalsKept(L), D = L \union TopStrs \union RetStrs, HeapMoved(D, val),
         \/ N.type \in ExprTypes \union {"FUNCDECL"}
         \/ act # "none" \/ val.type # "string" \/ Top.node \in leaving[Top.mod]
  PROVE  Safe(leaving)'
<1>1. /\ TInv(t) /\ IInv /\ StringsUsed(prog, t, leaving) /\ OneOwner /\ FramesTidy(leaving) /\ NoFault
  BY MInvFacts
<1>2. OneOwner'
  BY <1>1, OwnedLeft
<1>3. FramesTidy(leaving)' /\ StringLeft(leaving)'
  BY <1>1, LeftTidy, LeftString
<1>4. NoFault'
  BY <1>1 DEF NoFault
<1> QED  BY <1>2, <1>3, <1>4 DEF Safe

LEMMA CalledSafe ==
  ASSUME NEW t, NEW leaving, MInv(t, leaving), TInv(t)', Running, UNCHANGED <<prog, globals, fault>>,
         ~InCallee(Top),
         NEW env \in {fns, Opened}, NEW k \in 1..Arity, NEW vals \in Seq(Value),
         CallNode(env, k, Kid(k), vals), N.type = "FOR" \/ vals = Top.vals,
         N.type = "FOR" /\ k = 3 =>
           Len(vals) = 1 /\ (vals[1].type = "string" => Kid(4) \in leaving[Top.mod]),
         HeapMoved(RetStrs, Null)
  PROVE  Safe(leaving)'
<1>1. /\ TInv(t) /\ IInv /\ OneOwner /\ FramesTidy(leaving) /\ NoFault /\ FrameTidy(Top, leaving)
  BY MInvFacts
<1>2. IInv'
  BY DEF TInv, CInv
<1>3. LocalsKept({})
  <2>1. fns' = env
    BY DEF CallNode
  <2> QED  BY <1>1, <2>1, SameLocalStrs, OpenedLocalStrs
<1>4. OneOwner'
  <2>1. PICK L : L = {}
    OBVIOUS
  <2>2. LocalsKept(L) /\ HeapMoved(L \union RetStrs, Null)
    <3>1. L \union RetStrs = RetStrs
      BY <2>1
    <3> QED  BY <1>3, <2>1, <3>1
  <2> QED  BY <1>1, <2>2, OwnedCalled
<1>5. Frame(env, Kid(k)) \in FrameRecord
  <2>1. Kid(k) \in Nat
    BY <1>1, TopFacts
  <2>2. env \in Seq(EnvRecord) /\ env # <<>>
    BY <1>1, OpenedFacts, TopFacts DEF EnvsKept
  <2> QED  BY <2>1, <2>2, FrameType
<1>6. N.type = "ESYSTEM" => Len(vals) < Arity
  BY <1>1, TopFacts DEF FrameTidy, Arity
<1>7. k \in Nat
  BY <1>1, TopFacts
<1>8. FramesTidy(leaving)'
  BY <1>1, <1>2, <1>5, <1>6, <1>7, CalledTidy
<1>9. StringLeft(leaving)'
  BY DEF CallNode, StringLeft
<1>10. NoFault'
  BY <1>1 DEF NoFault
<1> QED  BY <1>4, <1>8, <1>9, <1>10 DEF Safe

\* A statement or an expression without operands calls a child.
LEMMA ChildSafe ==
  ASSUME NEW t, NEW leaving, MInv(t, leaving), TInv(t)', Running, Intact, ~InCallee(Top),
         NEW env \in {fns, Opened}, NEW k \in 1..Arity, Call(env, k),
         N.type \notin OperandTypes, N.type = "FOR" => k # 3,
         HeapMoved(RetStrs, Null), UNCHANGED fault
  PROVE  Safe(leaving)'
<1>1. UNCHANGED <<prog, globals, fault>> /\ CallNode(env, k, Kid(k), <<>>) /\ <<>> \in Seq(Value)
  BY DEF Intact, Call
<1>2. N.type = "FOR" \/ <<>> = Top.vals
  <2>1. HeldTyped(t, Top, ret # NoRet) /\ N = Node(Top.mod, Top.node)
    BY MInvFacts, TopTyped, TopFacts
  <2> QED  BY <2>1 DEF HeldTyped
<1> QED  BY <1>1, <1>2, CalledSafe

\* The first child, when nothing has been given back.
LEMMA FirstSafe ==
  ASSUME NEW t, NEW leaving, MInv(t, leaving), TInv(t)', Running, Intact, ~InCallee(Top),
         NEW env \in {fns, Opened}, NEW k \in 1..Arity, Call(env, k),
         N.type \notin OperandTypes, N.type = "FOR" => k # 3, NoHeap, ret.val.type # "string"
  PROVE  Safe(leaving)'
<1>1. RetStrs = {} /\ Null.type # "string"
  BY DEF RetStrs, Null, Val
<1>2. HeapMoved({}, Null) /\ UNCHANGED fault
  BY <1>1, HeapStays
<1> QED  BY <1>1, <1>2, ChildSafe

\* What the child before has left is released first.
LEMMA ReleasedSafe ==
  ASSUME NEW t, NEW leaving, MInv(t, leaving), TInv(t)', Running, Intact, ~InCallee(Top),
         NEW k \in 1..Arity, Call(fns, k),
         N.type \notin OperandTypes, N.type = "FOR" => k # 3, Heap(Null, <<Slot(ret.val)>>)
  PROVE  Safe(leaving)'
<1>1. Null.type # "string" /\ IInv /\ OneOwner
  BY MInvFacts DEF Null, Val
<1>2. StandAt(<<Slot(ret.val)>>, RetStrs)
  BY <1>1, RetStands
<1>3. HeapMoved(RetStrs, Null) /\ UNCHANGED fault
  BY <1>1, <1>2, HeapReleases
<1> QED  BY <1>3, ChildSafe

\* A value goes on from where it is.
LEMMA HandedSafe ==
  ASSUME NEW t, NEW leaving, MInv(t, leaving), TInv(t)', Running, Intact, UNCHANGED fns, NoHeap,
         NEW act, NEW val, Leave(act, val), StandAt(<<val>>, TopStrs \union RetStrs),
         \/ N.type \in ExprTypes \union {"FUNCDECL"}
         \/ act # "none" \/ val.type # "string" \/ Top.node \in leaving[Top.mod]
  PROVE  Safe(leaving)'
<1>1. IInv /\ OneOwner /\ UNCHANGED <<prog, globals>>
  BY MInvFacts DEF Intact
<1>2. PICK D : D = TopStrs \union RetStrs
  OBVIOUS
<1>3. HeapMoved(D, val) /\ UNCHANGED fault
  BY <1>1, <1>2, HeapPasses
<1>4. LocalsKept({}) /\ D = {} \union TopStrs \union RetStrs
  BY <1>2, SameLocalStrs
<1> QED  BY <1>1, <1>3, <1>4, LeftSafe

\* A handler that holds no string gives back none.
LEMMA PlainSafe ==
  ASSUME NEW t, NEW leaving, MInv(t, leaving), TInv(t)', Running, Intact, UNCHANGED fns, NoHeap,
         NEW act, NEW val, Leave(act, val), val.type # "string", TopStrs = {}, RetStrs = {}
  PROVE  Safe(leaving)'
<1>1. StandAt(<<val>>, {})
  BY StandNowhere
<1>2. StandAt(<<val>>, TopStrs \union RetStrs)
  BY <1>1
<1> QED  BY <1>2, HandedSafe

\* An expression makes its value and releases all the strings it holds.
LEMMA YieldSafe ==
  ASSUME NEW t, NEW leaving, MInv(t, leaving), TInv(t)', Running, ret = NoRet, N.type \in ExprTypes,
         NEW made, NEW vs, Yield(made, vs), StandAt(vs, TopStrs),
         made.type = "string" => made.str = NewBlock
  PROVE  Safe(leaving)'
<1>1. /\ Heap(made, vs) /\ Leave("none", made) /\ UNCHANGED <<prog, globals>> /\ UNCHANGED fns
      /\ OneOwner /\ live \subseteq Blocks
  BY MInvFacts DEF Yield, Intact
<1>2. RetStrs = {}
  BY DEF RetStrs, NoRet, Ret, Null, Val
<1>3. PICK D : D = TopStrs
  OBVIOUS
<1>4. HeapMoved(D, made) /\ UNCHANGED fault
  BY <1>1, <1>3, HeapMakes
<1>5. LocalsKept({}) /\ D = {} \union TopStrs \union RetStrs
  BY <1>1, <1>2, <1>3, SameLocalStrs
<1> QED  BY <1>1, <1>4, <1>5, LeftSafe

\* A loop or a block ends and releases what its last child gave back.
LEMMA ScopeSafe ==
  ASSUME NEW t, NEW leaving, MInv(t, leaving), TInv(t)', Running, N.type \in {"WHILE", "FOR", "BLOCK"},
         Top.at > 0, NEW act, NEW vs \in Seq(Value), LeaveScope(act, Unwritten, vs), StandAt(vs, RetStrs)
  PROVE  Safe(leaving)'
<1>1. IInv /\ OneOwner /\ TInv(t) /\ ~InCallee(Top) /\ Env.scope > 0 /\ TopStrs = {}
  <2>1. IInv /\ OneOwner /\ TInv(t) /\ N.type \in Carriers
    BY MInvFacts DEF Carriers
  <2>2. ~InCallee(Top) /\ N.type \notin OperandTypes
    BY <2>1, CarrierTyped
  <2>3. HeldTyped(t, Top, ret # NoRet) /\ N = Node(Top.mod, Top.node)
    BY <2>1, TopTyped, TopFacts
  <2>4. N.type = "FOR" \/ Top.vals = <<>>
    BY <2>2, <2>3 DEF HeldTyped
  <2>5. TopStrs = {}
    BY <2>1, <2>4, TopNone
  <2>6. Env.scope > 0
    BY <2>1, <2>2, HereFacts, TopFacts DEF OpenNow, OpenAt, FrameRecord
  <2> QED  BY <2>1, <2>2, <2>5, <2>6
<1>2. /\ Heap(Null, vs \o Dropped) /\ fns' = Closed /\ Leave(act, Unwritten)
      /\ UNCHANGED <<prog, globals>>
  BY DEF LeaveScope, Intact
<1>3. PICK L : L = StrsAfter(KeptHere)
  OBVIOUS
<1>4. LocalsKept(L) /\ StandAt(Dropped, L) /\ Dropped \in Seq(Value)
  BY <1>1, <1>2, <1>3, ClosedLocalStrs
<1>5. RetStrs \cap L = {}
  BY <1>4, StrParts DEF StrsApart, LocalsKept
<1>6. StandAt(vs \o Dropped, RetStrs \union L)
  BY <1>4, <1>5, StandBoth
<1>7. PICK D : D = RetStrs \union L
  OBVIOUS
<1>8. HeapMoved(D, Unwritten) /\ UNCHANGED fault
  <2>1. Unwritten.type # "string"
    BY DEF Unwritten, Val
  <2> QED  BY <1>1, <1>2, <1>6, <1>7, <2>1, HeapReleases
<1>9. D = L \union TopStrs \union RetStrs /\ Unwritten.type # "string"
  BY <1>1, <1>7 DEF Unwritten, Val
<1> QED  BY <1>2, <1>4, <1>8, <1>9, LeftSafe

\* A handler that has a scope open closes it and hands on what it was given.
LEMMA ScopeHandsSafe ==
  ASSUME NEW t, NEW leaving, MInv(t, leaving), TInv(t)', Running, N.type \in Carriers,
         OpenNow = 1, NEW act, NEW val, val \in {ret.val, Slot(ret.val)},
         Heap(Null, Dropped), fns' = Closed, Leave(act, val), Intact,
         act # "none" \/ val.type # "string" \/ Top.node \in leaving[Top.mod]
  PROVE  Safe(leaving)'
<1>1. IInv /\ OneOwner /\ TInv(t) /\ ~InCallee(Top) /\ Env.scope > 0 /\ TopStrs = {}
  <2>1. IInv /\ OneOwner /\ TInv(t)
    BY MInvFacts
  <2>2. ~InCallee(Top) /\ N.type \notin OperandTypes
    BY <2>1, CarrierTyped
  <2>3. HeldTyped(t, Top, ret # NoRet) /\ N = Node(Top.mod, Top.node)
    BY <2>1, TopTyped, TopFacts
  <2>4. N.type = "FOR" \/ Top.vals = <<>>
    BY <2>2, <2>3 DEF HeldTyped
  <2>5. TopStrs = {}
    BY <2>1, <2>4, TopNone
  <2>6. Env.scope > 0
    BY <2>1, <2>2, HereFacts
  <2> QED  BY <2>1, <2>2, <2>5, <2>6
<1>2. UNCHANGED <<prog, globals>>
  BY DEF Intact
<1>3. PICK L : L = StrsAfter(KeptHere)
  OBVIOUS
<1>4. LocalsKept(L) /\ StandAt(Dropped, L)
  BY <1>1, <1>3, ClosedLocalStrs
<1>5. L \cap RetStrs = {}
  BY <1>4, StrParts DEF StrsApart, LocalsKept
<1>6. StandAt(<<val>>, RetStrs)
  BY <1>1, RetStands
<1>7. PICK D : D = L \union RetStrs
  OBVIOUS
<1>8. HeapMoved(D, val) /\ UNCHANGED fault
  BY <1>1, <1>4, <1>5, <1>6, <1>7, HeapHands
<1>9. D = L \union TopStrs \union RetStrs
  BY <1>1, <1>7
<1> QED  BY <1>2, <1>4, <1>8, <1>9, LeftSafe

-----------------------------------------------------------------------------
(* Statements. *)

\* A handler without operands holds nothing, and has called no function.
LEMMA CarrierNone ==
  ASSUME NEW t, TInv(t), Running, N.type \notin OperandTypes
  PROVE  ~InCallee(Top) /\ TopStrs = {} /\ Top.at \in Nat
<1>1. IInv /\ HeldTyped(t, Top, ret # NoRet) /\ N = Node(Top.mod, Top.node) /\ Top.at \in Nat
  BY TInvFacts, TopTyped, TopFacts DEF FrameRecord
<1>2. ~InCallee(Top)
  BY <1>1 DEF InCallee, OperandTypes
<1>3. N.type = "FOR" \/ Top.vals = <<>>
  BY <1>1 DEF HeldTyped
<1> QED  BY <1>1, <1>2, <1>3, TopNone

\* A condition gives back no string.
LEMMA ConditionGiven ==
  ASSUME NEW t, TInv(t), Running, ret # NoRet,
         \/ N.type \in {"CTREE", "WHILE", "ETERNARY"} /\ Top.at = 1
         \/ N.type = "FOR" /\ Top.at = 2
  PROVE  RetStrs = {} /\ ret.val.type # "string"
<1>1. N.type \in {"CTREE", "WHILE", "FOR", "ETERNARY"} /\ IInv /\ prog \in Programs
  BY TInvFacts
<1>2. N.type \notin OperandTypes
  BY <1>1 DEF OperandTypes, Binaries, Arithmetics, Comparisons, Logicals, Assigns
<1>3. ~InCallee(Top) /\ N = Node(Top.mod, Top.node) /\ Top.at \in 1..Arity
      /\ Top.mod \in DOMAIN prog /\ Top.node \in DOMAIN prog[Top.mod]
  BY <1>1, <1>2, CarrierNone, TopFacts, GivenValue
<1>4. t[Top.mod][Kid(Top.at)].type = "bool"
  <2>1. CASE N.type = "ETERNARY"
    <3>1. N.type \in ExprTypes
      BY <2>1 DEF ExprTypes
    <3> QED  BY <2>1, <3>1, <1>3, ExprTyped DEF TernaryTyped, OfKid, Kid, Node
  <2>2. CASE N.type \in {"CTREE", "WHILE", "FOR"}
    <3>1. N.type \in Carriers
      BY <2>2 DEF Carriers
    <3> QED  BY <2>2, <3>1, <1>3, CarrierTyped DEF CtreeTyped, WhileTyped, ForTyped, OfKid, Kid, Node
  <2> QED  BY <1>1, <2>1, <2>2
<1>5. prog[Top.mod][Kid(Top.at)].type \in ExprTypes
  <2>1. Node(Top.mod, Kid(Top.at)).type \in ChildTypes(N.type, Top.at)
    BY <1>1, <1>3, ChildFacts DEF Kid, Arity
  <2>2. ChildTypes(N.type, Top.at) = ExprTypes
    BY <1>1 DEF ChildTypes
  <2> QED  BY <2>1, <2>2 DEF Node
<1>6. ret.val.type = "bool"
  BY <1>3, <1>4, <1>5, GivenValue
<1> QED  BY <1>6 DEF RetStrs

\* A string that a child gives back comes with a return, or the child may leave it.
LEMMA StringGiven ==
  ASSUME NEW t, NEW leaving, MInv(t, leaving), Running, ret # NoRet, ~InCallee(Top),
         ret.val.type = "string"
  PROVE  ret.act = "return" \/ (ret.act = "none" /\ Kid(Top.at) \in leaving[Top.mod])
<1>1. CInv /\ StringLeft(leaving) /\ N = Node(Top.mod, Top.node)
  BY MInvFacts, TopFacts
<1>2. ret.act \in Actions /\ cstk # <<>>
  BY <1>1, RetFacts DEF CInv, Running
<1>3. ret.act # "running" /\ (ret.act \in Jumps => ret.val.type # "string")
  BY <1>1 DEF CInv, Given, Unwritten, Val
<1>4. Called(Top) = Kid(Top.at)
  BY <1>1 DEF Called, Kid
<1> QED  BY <1>1, <1>2, <1>3, <1>4 DEF StringLeft, Actions, Jumps

LEMMA NothingGiven ==
  ASSUME ret = NoRet
  PROVE  ret.val.type # "string" /\ RetStrs = {}
BY DEF NoRet, Ret, Null, Val, RetStrs

\* Nothing is lost with the value of a function: its body leaves no string.
LEMMA FuncDeclSafe ==
  ASSUME NEW t, NEW leaving, MInv(t, leaving), TInv(t)', FuncDecl
  PROVE  Safe(leaving)'
<1>1. Running /\ N.type = "FUNCDECL" /\ Intact
  BY DEF FuncDecl, Starting, Resuming
<1>2. /\ TInv(t) /\ IInv /\ CInv /\ OneOwner /\ live \subseteq Blocks /\ StringsUsed(prog, t, leaving)
      /\ fault = "none"
  BY <1>1, MInvFacts
<1>3. N.type \notin OperandTypes
  BY <1>1 DEF OperandTypes, Binaries, Arithmetics, Comparisons, Logicals, Assigns
<1>4. ~InCallee(Top) /\ TopStrs = {} /\ Arity = 3
  BY <1>1, <1>2, <1>3, CarrierNone, KidCounts
<1>5. CASE Starting({"FUNCDECL"}) /\ Call(fns, 3) /\ NoHeap
  BY <1>1, <1>3, <1>4, <1>5, NothingGiven, FirstSafe DEF Starting
<1>6. CASE ret # NoRet /\ ret.act = "return" /\ NoHeap /\ Leave("none", ret.val) /\ UNCHANGED fns
  <2>1. StandAt(<<ret.val>>, TopStrs \union RetStrs)
    BY <1>2, <1>4, RetStands
  <2> QED  BY <1>1, <1>6, <2>1, HandedSafe
<1>7. CASE /\ ret # NoRet /\ ret.act # "return" /\ Heap(FallThrough, <<>>)
           /\ Leave("none", FallThrough) /\ UNCHANGED fns
  <2>1. Kid(3) \notin leaving[Top.mod] /\ Kid(1) \in DOMAIN prog[Top.mod]
    BY <1>1, <1>2, <1>4, TopFacts DEF StringsUsed, Node, Kid
  <2>2. Top.at = 3
    <3>1. Top.at \in 1..3 /\ NodeTyped(prog, t, Top.mod, Kid(Top.at))
      BY <1>1, <1>2, <1>4, <1>7, GivenValue
    <3>2. Node(Top.mod, Kid(Top.at)).type \in ChildTypes("FUNCDECL", Top.at)
      BY <1>1, <1>2, <1>4, <3>1, TopFacts, ChildFacts DEF Kid, Arity, IInv, TypeOK
    <3>3. ChildTypes("FUNCDECL", 1) = {"TYPE"} /\ ChildTypes("FUNCDECL", 2) = {"ARGLIST"}
      BY DEF ChildTypes
    <3>4. Node(Top.mod, Kid(Top.at)).type \in StmtTypes \union ExprTypes
      BY <3>1, NodeTypedKinds DEF Node
    <3>5. "TYPE" \notin StmtTypes \union ExprTypes /\ "ARGLIST" \notin StmtTypes \union ExprTypes
      BY DEF StmtTypes, ExprTypes, Binaries, Arithmetics, Comparisons, Logicals, Assigns
    <3> QED  BY <3>1, <3>2, <3>3, <3>4, <3>5
  <2>3. RetStrs = {}
    BY <1>1, <1>4, <1>7, <2>1, <2>2, StringGiven DEF RetStrs
  <2>4. FallThrough.type = "string" => FallThrough.str = NewBlock
    BY <1>1, <1>2, TypedKids, ValueFacts DEF FallThrough, ValTypes
  <2>5. StandAt(<<>>, {})
    BY StandNowhere
  <2>6. HeapMoved({}, FallThrough) /\ UNCHANGED fault
    BY <1>2, <1>7, <2>4, <2>5, HeapMakes
  <2>7. LocalsKept({}) /\ {} = {} \union TopStrs \union RetStrs /\ UNCHANGED <<prog, globals>>
    BY <1>1, <1>4, <1>7, <2>3, SameLocalStrs DEF Intact
  <2> QED  BY <1>1, <1>7, <2>6, <2>7, LeftSafe
<1> QED  BY <1>5, <1>6, <1>7 DEF FuncDecl, Resuming

\* A branch of a condition hands its value on.
LEMMA CtreeSafe ==
  ASSUME NEW t, NEW leaving, MInv(t, leaving), TInv(t)', Ctree
  PROVE  Safe(leaving)'
<1>1. Running /\ N.type = "CTREE" /\ Intact /\ N.type \in Carriers
  BY DEF Ctree, Starting, Resuming, Carriers
<1>2. /\ TInv(t) /\ IInv /\ OneOwner /\ StringsUsed(prog, t, leaving) /\ fault = "none"
  BY <1>1, MInvFacts
<1>3. N.type \notin OperandTypes
  BY <1>1 DEF OperandTypes, Binaries, Arithmetics, Comparisons, Logicals, Assigns
<1>4. ~InCallee(Top) /\ TopStrs = {} /\ Arity \in {2, 3} /\ 1 \in 1..Arity /\ 2 \in 1..Arity
  BY <1>1, <1>2, <1>3, CarrierNone, KidCounts
<1>5. CASE Starting({"CTREE"}) /\ Call(fns, 1) /\ NoHeap
  BY <1>1, <1>3, <1>4, <1>5, NothingGiven, FirstSafe DEF Starting
<1>6. CASE /\ ret # NoRet /\ Top.at = 1 /\ NoHeap
           /\ \/ Call(Opened, 2)
              \/ Arity = 3 /\ Call(Opened, 3)
              \/ Arity # 3 /\ Leave("none", Unwritten) /\ UNCHANGED fns
  <2>1. RetStrs = {} /\ ret.val.type # "string"
    <3>1. N.type \in {"CTREE", "WHILE", "ETERNARY"} /\ Top.at = 1 /\ ret # NoRet /\ TInv(t) /\ Running
      BY <1>1, <1>2, <1>6
    <3> QED  BY <3>1, ConditionGiven
  <2>2. CASE Call(Opened, 2)
    BY <1>1, <1>3, <1>4, <1>6, <2>1, <2>2, FirstSafe
  <2>3. CASE Arity = 3 /\ Call(Opened, 3)
    <3>1. 3 \in 1..Arity
      BY <2>3
    <3> QED  BY <1>1, <1>3, <1>4, <1>6, <2>1, <2>3, <3>1, FirstSafe
  <2>4. CASE Leave("none", Unwritten) /\ UNCHANGED fns
    <3>1. Unwritten.type # "string"
      BY DEF Unwritten, Val
    <3> QED  BY <1>1, <1>4, <1>6, <2>1, <2>4, <3>1, PlainSafe
  <2> QED  BY <1>6, <2>2, <2>3, <2>4
<1>7. CASE /\ ret # NoRet /\ Top.at \in {2, 3} /\ Heap(Null, Dropped) /\ fns' = Closed
           /\ Leave(ret.act, ret.val)
  <2>1. OpenNow = 1
    BY <1>1, <1>7 DEF OpenNow, OpenAt
  <2>2. ret.act # "none" \/ ret.val.type # "string" \/ Top.node \in leaving[Top.mod]
    <3> SUFFICES ASSUME ret.act = "none", ret.val.type = "string" PROVE Top.node \in leaving[Top.mod]
      OBVIOUS
    <3>1. Kid(Top.at) \in leaving[Top.mod]
      BY <1>1, <1>4, <1>7, StringGiven
    <3>2. Top.at \in 2..Arity
      <4>1. Top.at \in 1..Arity
        BY <1>1, <1>2, <1>4, <1>7, GivenValue
      <4> QED  BY <1>4, <1>7, <4>1
    <3>3. /\ Top.mod \in DOMAIN prog /\ Top.node \in DOMAIN prog[Top.mod]
          /\ N = prog[Top.mod][Top.node]
      BY <1>1, <1>2, TopFacts DEF Node
    <3>4. Top.at \in 2..Len(prog[Top.mod][Top.node].kids)
          /\ prog[Top.mod][Top.node].kids[Top.at] \in leaving[Top.mod]
      BY <3>1, <3>2, <3>3 DEF Kid, Arity
    <3> QED  BY <1>1, <1>2, <3>3, <3>4 DEF StringsUsed
  <2>3. ret.val \in {ret.val, Slot(ret.val)}
    OBVIOUS
  <2> QED  BY <1>1, <1>7, <2>1, <2>2, <2>3, ScopeHandsSafe
<1> QED  BY <1>5, <1>6, <1>7 DEF Ctree, Resuming

\* A loop or a block hands a return on.
LEMMA ReturnScopeSafe ==
  ASSUME NEW t, NEW leaving, MInv(t, leaving), TInv(t)', Running, N.type \in {"WHILE", "FOR", "BLOCK"},
         Top.at > 0, LeaveScope("return", Slot(ret.val), <<>>)
  PROVE  Safe(leaving)'
<1>1. IInv /\ TInv(t) /\ N.type \in Carriers
  BY MInvFacts DEF Carriers
<1>2. ~InCallee(Top) /\ Top.at \in Nat
  BY <1>1, CarrierTyped, TopFacts DEF FrameRecord
<1>3. OpenNow = 1
  BY <1>2 DEF OpenNow, OpenAt
<1>4. Env.scope > 0
  BY <1>1, <1>2, <1>3, HereFacts
<1>5. /\ Heap(Null, <<>> \o Dropped) /\ fns' = Closed /\ Leave("return", Slot(ret.val)) /\ Intact
  BY DEF LeaveScope
<1>6. Dropped \in Seq(Value)
  BY <1>1, <1>2, <1>4, <1>5, ClosedLocalStrs
<1>7. <<>> \o Dropped = Dropped
  BY <1>6
<1>8. Heap(Null, Dropped)
  BY <1>5, <1>7
<1>9. Slot(ret.val) \in {ret.val, Slot(ret.val)} /\ "return" # "none"
  OBVIOUS
<1> QED  BY <1>1, <1>3, <1>5, <1>8, <1>9, ScopeHandsSafe

\* One ends when what its last child gave back is released.
LEMMA LastScopeSafe ==
  ASSUME NEW t, NEW leaving, MInv(t, leaving), TInv(t)', Running, N.type \in {"WHILE", "FOR", "BLOCK"},
         Top.at > 0, NEW act, LeaveScope(act, Unwritten, <<Slot(ret.val)>>)
  PROVE  Safe(leaving)'
<1>1. IInv
  BY MInvFacts
<1> QED  BY <1>1, RetStands, ScopeSafe

\* One ends at its condition.
LEMMA ConditionScopeSafe ==
  ASSUME NEW t, NEW leaving, MInv(t, leaving), TInv(t)', Running, N.type \in {"WHILE", "FOR", "BLOCK"},
         Top.at > 0, NEW act, LeaveScope(act, Unwritten, <<>>), RetStrs = {}
  PROVE  Safe(leaving)'
<1>1. StandAt(<<>>, {}) /\ <<>> \in Seq(Value)
  BY StandNowhere
<1>2. StandAt(<<>>, RetStrs)
  BY <1>1
<1> QED  BY <1>1, <1>2, ScopeSafe

LEMMA WhileSafe ==
  ASSUME NEW t, NEW leaving, MInv(t, leaving), TInv(t)', While
  PROVE  Safe(leaving)'
<1>1. Running /\ N.type = "WHILE" /\ N.type \in {"WHILE", "FOR", "BLOCK"} /\ Intact
  BY DEF While, Starting, Resuming, LeaveScope
<1>2. TInv(t) /\ IInv /\ OneOwner
  BY <1>1, MInvFacts
<1>3. N.type \notin OperandTypes
  BY <1>1 DEF OperandTypes, Binaries, Arithmetics, Comparisons, Logicals, Assigns
<1>4. ~InCallee(Top) /\ TopStrs = {} /\ Arity = 2 /\ 1 \in 1..Arity /\ 2 \in 1..Arity
  BY <1>1, <1>2, <1>3, CarrierNone, KidCounts
<1>5. CASE Starting({"WHILE"}) /\ Call(Opened, 1) /\ NoHeap
  BY <1>1, <1>3, <1>4, <1>5, NothingGiven, FirstSafe DEF Starting
<1>6. CASE ret # NoRet /\ Top.at = 1 /\ ((Call(fns, 2) /\ NoHeap) \/ LeaveScope("none", Unwritten, <<>>))
  <2>1. RetStrs = {} /\ ret.val.type # "string"
    <3>1. N.type \in {"CTREE", "WHILE", "ETERNARY"} /\ Top.at = 1 /\ ret # NoRet /\ TInv(t) /\ Running
      BY <1>1, <1>2, <1>6
    <3> QED  BY <3>1, ConditionGiven
  <2>2. CASE Call(fns, 2) /\ NoHeap
    BY <1>1, <1>3, <1>4, <2>1, <2>2, FirstSafe
  <2>3. CASE LeaveScope("none", Unwritten, <<>>)
    <3>1. Top.at > 0
      BY <1>6
    <3> QED  BY <1>1, <2>1, <2>3, <3>1, ConditionScopeSafe
  <2> QED  BY <1>6, <2>2, <2>3
<1>7. CASE Top.at = 2 /\ LeaveScope("return", Slot(ret.val), <<>>)
  <2>1. Top.at > 0
    BY <1>7
  <2> QED  BY <1>1, <1>7, <2>1, ReturnScopeSafe
<1>8. CASE Top.at = 2 /\ LeaveScope("none", Unwritten, <<Slot(ret.val)>>)
  <2>1. Top.at > 0
    BY <1>8
  <2> QED  BY <1>1, <1>8, <2>1, LastScopeSafe
<1>9. CASE Heap(Null, <<Slot(ret.val)>>) /\ Call(fns, 1)
  BY <1>1, <1>3, <1>4, <1>9, ReleasedSafe
<1> QED  BY <1>5, <1>6, <1>7, <1>8, <1>9 DEF While, Resuming

\* The value of the body is kept while the increment runs, and is not released again: when
\* the increment writes nothing the body has left no string.
LEMMA ForSafe ==
  ASSUME NEW t, NEW leaving, MInv(t, leaving), TInv(t)', For
  PROVE  Safe(leaving)'
<1>1. Running /\ N.type = "FOR" /\ N.type \in {"WHILE", "FOR", "BLOCK"} /\ Intact
  BY DEF For, Starting, Resuming, LeaveScope
<1>2. /\ TInv(t) /\ IInv /\ OneOwner /\ StringsUsed(prog, t, leaving) /\ FrameTidy(Top, leaving)
      /\ prog \in Programs
  BY <1>1, MInvFacts, TInvFacts
<1>3. N.type \notin OperandTypes
  BY <1>1 DEF OperandTypes, Binaries, Arithmetics, Comparisons, Logicals, Assigns
<1>4. /\ ~InCallee(Top) /\ TopStrs = {} /\ Arity = 4 /\ \A k \in {1, 2, 3, 4} : k \in 1..Arity
      /\ Null.type # "string"
  BY <1>1, <1>2, <1>3, CarrierNone, KidCounts DEF Null, Val
<1>5. CASE Starting({"FOR"}) /\ Call(Opened, 1) /\ NoHeap
  BY <1>1, <1>3, <1>4, <1>5, NothingGiven, FirstSafe DEF Starting
<1>6. CASE Heap(Null, <<Slot(ret.val)>>) /\ Call(fns, 2)
  BY <1>1, <1>3, <1>4, <1>6, ReleasedSafe
<1>7. CASE ret # NoRet /\ Top.at = 2 /\ ((Call(fns, 4) /\ NoHeap) \/ LeaveScope("none", Unwritten, <<>>))
  <2>1. RetStrs = {} /\ ret.val.type # "string"
    <3>1. N.type = "FOR" /\ Top.at = 2 /\ ret # NoRet /\ TInv(t) /\ Running
      BY <1>1, <1>2, <1>7
    <3> QED  BY <3>1, ConditionGiven
  <2>2. CASE Call(fns, 4) /\ NoHeap
    BY <1>1, <1>3, <1>4, <2>1, <2>2, FirstSafe
  <2>3. CASE LeaveScope("none", Unwritten, <<>>)
    <3>1. Top.at > 0
      BY <1>7
    <3> QED  BY <1>1, <2>1, <2>3, <3>1, ConditionScopeSafe
  <2> QED  BY <1>7, <2>2, <2>3
<1>8. CASE Top.at = 4 /\ LeaveScope("return", Slot(ret.val), <<>>)
  <2>1. Top.at > 0
    BY <1>8
  <2> QED  BY <1>1, <1>8, <2>1, ReturnScopeSafe
<1>9. CASE Top.at = 4 /\ LeaveScope("none", Unwritten, <<Slot(ret.val)>>)
  <2>1. Top.at > 0
    BY <1>9
  <2> QED  BY <1>1, <1>9, <2>1, LastScopeSafe
<1>10. CASE /\ ret # NoRet /\ Top.at = 4 /\ ret.act \in {"none", "next"} /\ Heap(Null, <<Slot(ret.val)>>)
            /\ CallNode(fns, 3, Kid(3), <<Slot(ret.val)>>)
  <2>1. PICK vs : vs = <<Slot(ret.val)>>
    OBVIOUS
  <2>2. vs \in Seq(Value) /\ Len(vs) = 1 /\ vs[1] = Slot(ret.val)
    BY <1>2, <2>1, RetStands
  <2>3. vs[1].type = "string" => Kid(4) \in leaving[Top.mod]
    BY <1>1, <1>2, <1>4, <1>10, <2>2, RetStands, StringGiven
  <2>4. HeapMoved(RetStrs, Null) /\ UNCHANGED fault
    BY <1>2, <1>4, <1>10, RetStands, HeapReleases
  <2>5. UNCHANGED <<prog, globals, fault>> /\ CallNode(fns, 3, Kid(3), vs)
    BY <1>1, <1>10, <2>1, <2>4 DEF Intact
  <2> QED  BY <1>1, <1>4, <2>2, <2>3, <2>4, <2>5, CalledSafe
<1>11. CASE /\ ret # NoRet /\ Top.at = 3 /\ ret.val = Unwritten /\ Heap(Null, Top.vals) /\ Call(fns, 2)
  <2>1. /\ Top.mod \in DOMAIN prog /\ Top.node \in DOMAIN prog[Top.mod] /\ N = prog[Top.mod][Top.node]
        /\ N = Node(Top.mod, Top.node)
    BY <1>1, <1>2, TopFacts DEF Node
  <2>2. Node(Top.mod, Kid(3)).type \in ExprTypes
    <3>1. Node(Top.mod, Kid(3)).type \in ChildTypes("FOR", 3)
      BY <1>1, <1>2, <1>4, <2>1, ChildFacts DEF Kid, Arity
    <3> QED  BY <3>1 DEF ChildTypes
  <2>3. Node(Top.mod, Kid(3)).type \in Assigns
    BY <1>1, <1>2, <1>4, <1>11, <2>2, GivenValue DEF GivesTyped
  <2>4. Kid(4) \notin leaving[Top.mod]
    BY <1>1, <1>2, <2>1, <2>3 DEF StringsUsed, Kid, Node
  <2>5. Len(Top.vals) = 1 /\ Top.vals[1].type # "string"
    BY <1>1, <1>2, <1>11, <2>1, <2>4 DEF FrameTidy, Kid
  <2>6. StandAt(Top.vals, {})
    <3>1. Top.vals \in Seq(Value)
      BY <1>1, <1>2, TopFacts DEF FrameRecord
    <3>2. \A i \in DOMAIN Top.vals : Top.vals[i].type # "string"
      BY <2>5, <3>1
    <3> QED  BY <3>2, StandNowhere
  <2>7. RetStrs = {}
    BY <1>11 DEF RetStrs, Unwritten, Val
  <2>8. HeapMoved({}, Null) /\ UNCHANGED fault
    BY <1>2, <1>4, <1>11, <2>6, HeapReleases
  <2> QED  BY <1>1, <1>3, <1>4, <1>11, <2>7, <2>8, ChildSafe
<1>12. CASE Top.at = 3 /\ ret.val # Unwritten /\ Heap(Null, <<ret.val>>) /\ Call(fns, 2)
  <2>1. Slot(ret.val) = ret.val
    BY <1>12 DEF Slot
  <2> QED  BY <1>6, <1>12, <2>1
<1> QED  BY <1>5, <1>6, <1>7, <1>8, <1>9, <1>10, <1>11, <1>12 DEF For, Resuming

LEMMA JumpSafe ==
  ASSUME NEW t, NEW leaving, MInv(t, leaving), TInv(t)', Break \/ Continue
  PROVE  Safe(leaving)'
<1>1. /\ Running /\ N.type \in {"BREAK", "CONTINUE"} /\ ret = NoRet /\ Intact /\ NoHeap /\ UNCHANGED fns
      /\ \E act : Leave(act, Unwritten)
  BY DEF Break, Continue, Starting
<1>2. TInv(t)
  BY <1>1, MInvFacts
<1>3. N.type \notin OperandTypes
  BY <1>1 DEF OperandTypes, Binaries, Arithmetics, Comparisons, Logicals, Assigns
<1>4. TopStrs = {} /\ RetStrs = {} /\ Unwritten.type # "string"
  BY <1>1, <1>2, <1>3, CarrierNone, NothingGiven DEF Unwritten, Val
<1> QED  BY <1>1, <1>4, PlainSafe

LEMMA BlockSafe ==
  ASSUME NEW t, NEW leaving, MInv(t, leaving), TInv(t)', Block
  PROVE  Safe(leaving)'
<1>1. Running /\ N.type = "BLOCK" /\ N.type \in {"WHILE", "FOR", "BLOCK"} /\ Intact
  BY DEF Block, Starting, Resuming, LeaveScope
<1>2. TInv(t) /\ IInv /\ OneOwner
  BY <1>1, MInvFacts
<1>3. N.type \notin OperandTypes
  BY <1>1 DEF OperandTypes, Binaries, Arithmetics, Comparisons, Logicals, Assigns
<1>4. ~InCallee(Top) /\ TopStrs = {} /\ Arity \in Nat /\ Top.at \in Nat
  BY <1>1, <1>2, <1>3, CarrierNone, TopFacts
<1>5. ret # NoRet => Top.at > 0 /\ (Top.at < Arity => Top.at + 1 \in 1..Arity)
  <2> SUFFICES ASSUME ret # NoRet PROVE Top.at > 0 /\ (Top.at < Arity => Top.at + 1 \in 1..Arity)
    OBVIOUS
  <2>1. Top.at \in 1..Arity
    BY <1>1, <1>2, <1>4, GivenValue
  <2> QED  BY <1>4, <2>1
<1>6. CASE Starting({"BLOCK"}) /\ Arity > 0 /\ Call(Opened, 1) /\ NoHeap
  <2>1. 1 \in 1..Arity
    BY <1>4, <1>6
  <2> QED  BY <1>1, <1>3, <1>4, <1>6, <2>1, NothingGiven, FirstSafe DEF Starting
<1>7. CASE Starting({"BLOCK"}) /\ Leave("none", Unwritten) /\ UNCHANGED fns /\ NoHeap
  <2>1. RetStrs = {} /\ Unwritten.type # "string"
    BY <1>7, NothingGiven DEF Starting, Unwritten, Val
  <2> QED  BY <1>1, <1>4, <1>7, <2>1, PlainSafe
<1>8. CASE ret # NoRet /\ LeaveScope("return", Slot(ret.val), <<>>)
  BY <1>1, <1>5, <1>8, ReturnScopeSafe
<1>9. CASE ret # NoRet /\ \E act : LeaveScope(act, Unwritten, <<Slot(ret.val)>>)
  BY <1>1, <1>5, <1>9, LastScopeSafe
<1>10. CASE ret # NoRet /\ Top.at < Arity /\ Heap(Null, <<Slot(ret.val)>>) /\ Call(fns, Top.at + 1)
  BY <1>1, <1>3, <1>4, <1>5, <1>10, ReleasedSafe
<1> QED  BY <1>6, <1>7, <1>8, <1>9, <1>10 DEF Block, Resuming

-----------------------------------------------------------------------------
(* Operands. *)

\* The operands are at their places when nothing has just been given back.
LEMMA OperandsStand ==
  ASSUME IInv, Running, ret = NoRet, N.type \in OperandTypes
  PROVE  /\ ~InCallee(Top) /\ StandAt(Top.vals, TopStrs) /\ Top.vals \in Seq(Value) /\ RetStrs = {}
         /\ Len(Top.vals) = 1 => StandAt(<<Top.vals[1]>>, TopStrs)
<1>1. N.type \notin {"WHILE", "FOR", "BLOCK", "CTREE"}
  BY DEF OperandTypes, Binaries, Arithmetics, Comparisons, Logicals, Assigns
<1>2. ~InCallee(Top) /\ StandAt(Top.vals, TopStrs) /\ Top.vals \in Seq(Value) /\ RetStrs = {}
  BY <1>1, PlainFacts, TopStands, NothingGiven
<1>3. Len(Top.vals) = 1 => <<Top.vals[1]>> = Top.vals
  BY <1>2
<1> QED  BY <1>2, <1>3

LEMMA ReturnSafe ==
  ASSUME NEW t, NEW leaving, MInv(t, leaving), TInv(t)', Return
  PROVE  Safe(leaving)'
<1>1. /\ Running /\ ret = NoRet /\ N.type = "RETURN" /\ Len(Top.vals) = Operands /\ Intact /\ NoHeap
      /\ UNCHANGED fns
  BY DEF Return, Ready
<1>2. IInv /\ N.type \in OperandTypes
  BY <1>1, MInvFacts DEF OperandTypes
<1>3. RetStrs = {} /\ Operands = Arity /\ Arity \in {0, 1} /\ StandAt(Top.vals, TopStrs)
      /\ Top.vals \in Seq(Value) /\ (Len(Top.vals) = 1 => StandAt(<<Top.vals[1]>>, TopStrs))
  BY <1>1, <1>2, OperandsStand, OperandFacts
<1>4. CASE Arity = 0
  <2>1. TopStrs = {}
    <3>1. \A i \in DOMAIN Top.vals : Top.vals[i].type # "string"
      BY <1>1, <1>3, <1>4
    <3> QED  BY <1>1, <1>2, <3>1, TopNone
  <2>2. Leave("return", Val("void")) /\ Val("void").type # "string"
    BY <1>4 DEF Return, Val
  <2> QED  BY <1>1, <1>3, <2>1, <2>2, PlainSafe
<1>5. CASE Arity = 1
  <2>1. Leave("return", Top.vals[1]) /\ "return" # "none"
    BY <1>5 DEF Return
  <2>2. StandAt(<<Top.vals[1]>>, TopStrs \union RetStrs)
    BY <1>1, <1>3, <1>5
  <2> QED  BY <1>1, <2>1, <2>2, HandedSafe
<1> QED  BY <1>3, <1>4, <1>5

LEMMA NegNotSafe ==
  ASSUME NEW t, NEW leaving, MInv(t, leaving), TInv(t)', NegNot
  PROVE  Safe(leaving)'
<1>1. Ready({"ENEG", "ENOT"}) /\ Running /\ ret = NoRet /\ N.type \in OperandTypes
      /\ N.type \in ExprTypes \ {"ESYSTEM", "ECALL"} /\ N.type \in {"ENEG", "ENOT"}
  BY DEF NegNot, Ready, ExprTypes, OperandTypes
<1>2. TInv(t) /\ IInv /\ Len(Top.vals) = Operands /\ Operands = 1 /\ Top.vals \in Seq(Value)
      /\ FirstOf(N.type) = 1 /\ RetStrs = {}
  BY <1>1, MInvFacts, OperandsStand, OperandFacts DEF Ready, FirstOf, Assigns
<1>3. PICK type \in {"int", "real", "bool"} :
        /\ type = t[Top.mod][Top.node].type
        /\ Leave("none", Val(type)) /\ UNCHANGED fns /\ NoHeap /\ Intact
  BY <1>2, NegNotHands
<1>4. Top.vals[1].type # "string"
  <2>1. Top.vals[1].type = OfKid(prog, t, Top.mod, Top.node, 1).type
    BY <1>1, <1>2, ReadyFacts
  <2>2. t[Top.mod][Top.node].type = OfKid(prog, t, Top.mod, Top.node, 1).type
    BY <1>1, <1>2, ExprTyped DEF UnaryTyped
  <2> QED  BY <1>3, <2>1, <2>2
<1>5. TopStrs = {}
  <2>1. \A i \in DOMAIN Top.vals : Top.vals[i].type # "string"
    BY <1>2, <1>4
  <2> QED  BY <1>1, <1>2, <2>1, TopNone
<1>6. Val(type).type # "string"
  BY DEF Val
<1> QED  BY <1>1, <1>2, <1>3, <1>5, <1>6, PlainSafe

LEMMA EvalOperandSafe ==
  ASSUME NEW t, NEW leaving, MInv(t, leaving), TInv(t)', EvalOperand
  PROVE  Safe(leaving)'
<1> DEFINE k == FirstOperand + Len(Top.vals)
<1>1. /\ Running /\ ret = NoRet /\ N.type \in OperandTypes /\ Len(Top.vals) < Operands
      /\ CallNode(fns, k, Kid(k), Top.vals) /\ Intact /\ NoHeap
  BY DEF EvalOperand
<1>2. IInv
  BY <1>1, MInvFacts
<1>3. ~InCallee(Top) /\ Top.vals \in Seq(Value) /\ RetStrs = {} /\ Null.type # "string"
  BY <1>1, <1>2, OperandsStand DEF Null, Val
<1>4. /\ FirstOperand \in Nat /\ LastOperand \in Nat /\ FirstOperand >= 1 /\ LastOperand <= Arity
      /\ Len(Top.vals) \in Nat /\ Arity \in Nat /\ Operands = LastOperand - FirstOperand + 1
  BY <1>1, <1>2, <1>3, OperandFacts, TopFacts DEF Operands
<1>5. k \in 1..Arity
  BY <1>1, <1>4
<1> HIDE DEF k
<1>6. N.type # "FOR"
  BY <1>1 DEF OperandTypes, Binaries, Arithmetics, Comparisons, Logicals, Assigns
<1>7. HeapMoved(RetStrs, Null) /\ UNCHANGED <<prog, globals, fault>>
  BY <1>1, <1>3, HeapStays DEF Intact
<1> QED  BY <1>1, <1>3, <1>5, <1>6, <1>7, CalledSafe

\* An operand goes from what was given back to the locals of the handler.
LEMMA CollectSafe ==
  ASSUME NEW t, NEW leaving, MInv(t, leaving), TInv(t)', Collect
  PROVE  Safe(leaving)'
<1>0. Running
  BY DEF Collect, Resuming
<1>1. /\ TInv(t) /\ IInv /\ OneOwner /\ FramesTidy(leaving) /\ NoFault /\ FrameTidy(Top, leaving)
      /\ NoHeap /\ Top.at <= Arity
  BY <1>0, MInvFacts DEF Collect
<1>2. PICK n \in Nat : n = Len(cstk)
  BY <1>1, Shapes
<1>3. PICK v : v = Slot(ret.val)
  OBVIOUS
<1>4. /\ n > 0 /\ DOMAIN cstk = 1..n /\ Top = cstk[n] /\ UNCHANGED <<prog, globals>>
      /\ N = Node(Top.mod, Top.node) /\ ret # NoRet /\ ~InCallee(Top)
      /\ N.type \in OperandTypes /\ fns' = fns /\ ret' = NoRet
      /\ DOMAIN cstk' = 1..n /\ \A i \in 1..(n - 1) : cstk'[i] = cstk[i]
      /\ cstk'[n].mod = Top.mod /\ cstk'[n].node = Top.node /\ cstk'[n].at = Top.at
      /\ cstk'[n].vals = Append(Top.vals, v)
  BY <1>1, <1>2, <1>3, CollectStack DEF Intact
<1>5. N.type # "FOR"
  BY <1>4 DEF OperandTypes, Binaries, Arithmetics, Comparisons, Logicals, Assigns
<1>6. PICK m \in Nat : m = Len(Top.vals) /\ Top.vals \in Seq(Value)
  BY <1>1, <1>0, TopFacts DEF FrameRecord
<1>7. /\ DOMAIN Top.vals = 1..m /\ DOMAIN cstk'[n].vals = 1..(m + 1) /\ cstk'[n].vals[m + 1] = v
      /\ \A i \in 1..m : cstk'[n].vals[i] = Top.vals[i]
      /\ Len(cstk'[n].vals) = m + 1
  BY <1>4, <1>6
<1>8. FrameVals(cstk[n])' = cstk'[n].vals /\ FrameVals(cstk[n]) = Top.vals
  <2>1. PICK f : f = cstk'[n]
    OBVIOUS
  <2>2. FrameVals(cstk[n])' = FrameVals(f)' /\ FrameVals(f)' = FrameVals(f)
    BY <1>4, <2>1, FrameValsKept
  <2>3. Node(f.mod, f.node) = N /\ ~InCallee(f)
    BY <1>4, <2>1 DEF InCallee
  <2> QED  BY <1>4, <1>5, <2>1, <2>2, <2>3 DEF FrameVals
<1>9. PICK A : A = IF v.type = "string" THEN {<<"frame", n, m + 1>>} ELSE {}
  OBVIOUS
<1>10. FramesMoved({}, A)
  <2>1. \A p \in FrameStrs : p \in FrameStrs' /\ Blk(p)' = Blk(p)
    <3> TAKE p \in FrameStrs
    <3>1. PICK j \in 1..n : \E i \in DOMAIN FrameVals(cstk[j]) :
            p = <<"frame", j, i>> /\ cstk[j].vals[i].type = "string"
      BY <1>4, FramePlace DEF FramePlaced
    <3>2. PICK i \in DOMAIN FrameVals(cstk[j]) : p = <<"frame", j, i>> /\ cstk[j].vals[i].type = "string"
      BY <3>1
    <3>3. i \in DOMAIN FrameVals(cstk[j])' /\ cstk'[j].vals[i] = cstk[j].vals[i]
      <4>1. CASE j = n
        <5>1. i \in 1..m
          BY <1>7, <1>8, <4>1
        <5>2. i \in 1..(m + 1)
          BY <5>1
        <5> QED  BY <1>4, <1>7, <1>8, <4>1, <5>1, <5>2
      <4>2. CASE j # n
        <5>1. cstk'[j] = cstk[j]
          BY <1>4, <4>2
        <5>2. FrameVals(cstk[j])' = FrameVals(cstk'[j])
          BY <1>4, <5>1, FrameValsKept
        <5> QED  BY <5>1, <5>2
      <4> QED  BY <4>1, <4>2
    <3> QED  BY <1>4, <3>2, <3>3, FramePlace DEF FramePlaced
  <2>2. \A p \in FrameStrs' : p \in FrameStrs \/ p \in A
    <3> TAKE p \in FrameStrs'
    <3>1. PICK j \in 1..n : \E i \in DOMAIN FrameVals(cstk[j])' :
            p = <<"frame", j, i>> /\ cstk'[j].vals[i].type = "string"
      BY <1>4, FramePlace DEF FramePlaced
    <3>2. PICK i \in DOMAIN FrameVals(cstk[j])' : p = <<"frame", j, i>> /\ cstk'[j].vals[i].type = "string"
      BY <3>1
    <3>3. CASE j = n
      <4>1. i \in 1..(m + 1)
        BY <1>7, <1>8, <3>3
      <4>2. i \in 1..m \/ i = m + 1
        BY <4>1
      <4> QED  BY <1>4, <1>7, <1>8, <1>9, <3>2, <3>3, <4>2, FramePlace DEF FramePlaced
    <3>4. CASE j # n
      <4>1. cstk'[j] = cstk[j]
        BY <1>4, <3>4
      <4>2. FrameVals(cstk[j])' = FrameVals(cstk'[j])
        BY <1>4, <4>1, FrameValsKept
      <4> QED  BY <1>4, <3>2, <4>1, <4>2, FramePlace DEF FramePlaced
    <3> QED  BY <3>3, <3>4
  <2>3. A \subseteq FrameStrs'
    <3>1. m + 1 \in 1..(m + 1) /\ n \in 1..n
      BY <1>4
    <3> QED  BY <1>4, <1>7, <1>8, <1>9, <3>1, FramePlace DEF FramePlaced
  <2> QED  BY <2>1, <2>2, <2>3 DEF FramesMoved
<1>11. \A p \in A : Blk(p)' = v.str /\ v.type = "string"
  BY <1>7, <1>9, FramePlace DEF FramePlaced
<1>12. OneOwner'
  <2>1. PICK E : E = {}
    OBVIOUS
  <2>2. LocalsMoved(E, E) /\ FramesMoved(E, A)
    BY <1>4, <1>10, <2>1, SameLocalStrs, LocalsKeptMoved
  <2>3. PICK D : D = RetStrs
    OBVIOUS
  <2>4. StandAt(<<v>>, D)
    BY <1>1, <1>3, <2>3, RetStands
  <2>5. RetStrs' = {}
    BY <1>4 DEF RetStrs, NoRet, Ret, Null, Val
  <2>6. Going(D, E, E, E) /\ Coming(A, E, E, A) /\ GlobalsMoved(E, E)
    BY <1>4, <2>1, <2>3, <2>5, SameGlobalStrs DEF Going, Coming
  <2>7. (v.type = "string" => A # {}) /\ \A p, q \in A : p = q
    BY <1>9
  <2>8. HeapMoved(D, v)
    BY <1>1, <2>4, HeapPasses
  <2> QED  BY <1>1, <1>11, <2>2, <2>6, <2>7, <2>8, OneComes, Zenon
<1>13. FramesTidy(leaving)'
  <2>1. ASSUME NEW i \in 1..n PROVE FrameTidy(cstk[i], leaving)'
    <3>1. PICK f : f = cstk'[i]
      OBVIOUS
    <3>2. FrameTidy(cstk[i], leaving)' <=> FrameTidy(f, leaving)
      BY <1>4, <3>1, TidyKept
    <3>3. CASE i = n
      <4>1. Top.at = FirstOf(N.type) + m
        BY <1>0, <1>1, <1>4, <1>6, OperandGiven
      <4>2. N.type = "ESYSTEM" => m + 1 < Arity
        <5>1. Arity \in Nat /\ (N.type = "ESYSTEM" => FirstOf(N.type) = 2)
          BY <1>0, <1>1, TopFacts DEF FirstOf
        <5> QED  BY <1>1, <4>1, <5>1
      <4> QED  BY <1>4, <1>5, <1>7, <3>1, <3>2, <3>3, <4>2 DEF FrameTidy, Arity
    <3>4. CASE i # n
      <4>1. f = cstk[i]
        BY <1>4, <2>1, <3>1, <3>4
      <4>2. FrameTidy(cstk[i], leaving)
        BY <1>1, <1>4 DEF FramesTidy
      <4> QED  BY <3>2, <4>1, <4>2
    <3> QED  BY <3>3, <3>4
  <2> QED  BY <1>4, <2>1 DEF FramesTidy
<1>14. StringLeft(leaving)'
  BY <1>4 DEF StringLeft
<1>15. NoFault'
  BY <1>1 DEF NoFault, NoHeap
<1> QED  BY <1>12, <1>13, <1>14, <1>15 DEF Safe

-----------------------------------------------------------------------------
(* Tables that take strings. *)

\* The strings of P are gone from the tables, and those of A are there.
LEMMA TableMoves ==
  ASSUME NEW P, NEW A, P \subseteq LocalStrs, A \subseteq LocalStrs',
         \A d \in DOMAIN fns' : \A j \in DOMAIN fns'[d].syms :
           \/ <<"local", d, j>> \in A \/ fns'[d].syms[j].val.type # "string"
           \/ /\ d \in DOMAIN fns /\ j \in DOMAIN fns[d].syms
              /\ fns'[d].syms[j].val = fns[d].syms[j].val /\ <<"local", d, j>> \notin P,
         \A d \in DOMAIN fns : \A j \in DOMAIN fns[d].syms :
           \/ <<"local", d, j>> \in P \/ fns[d].syms[j].val.type # "string"
           \/ /\ d \in DOMAIN fns' /\ j \in DOMAIN fns'[d].syms
              /\ fns'[d].syms[j].val = fns[d].syms[j].val
  PROVE  LocalsMoved(P, A)
<1>1. \A p \in LocalStrs' : p \in A \/ (p \in LocalStrs /\ p \notin P)
  <2> TAKE p \in LocalStrs'
  <2>1. PICK d \in DOMAIN fns' : \E j \in DOMAIN fns'[d].syms :
          p = <<"local", d, j>> /\ fns'[d].syms[j].val.type = "string"
    BY LocalPlace DEF LocalPlaced
  <2>2. PICK j \in DOMAIN fns'[d].syms : p = <<"local", d, j>> /\ fns'[d].syms[j].val.type = "string"
    BY <2>1
  <2> QED  BY <2>2, LocalPlace DEF LocalPlaced
<1>2. \A p \in LocalStrs : p \notin P => p \in LocalStrs' /\ Blk(p)' = Blk(p)
  <2> SUFFICES ASSUME NEW p \in LocalStrs, p \notin P PROVE p \in LocalStrs' /\ Blk(p)' = Blk(p)
    OBVIOUS
  <2>1. PICK d \in DOMAIN fns : \E j \in DOMAIN fns[d].syms :
          p = <<"local", d, j>> /\ fns[d].syms[j].val.type = "string"
    BY LocalPlace DEF LocalPlaced
  <2>2. PICK j \in DOMAIN fns[d].syms : p = <<"local", d, j>> /\ fns[d].syms[j].val.type = "string"
    BY <2>1
  <2>3. d \in DOMAIN fns' /\ j \in DOMAIN fns'[d].syms /\ fns'[d].syms[j].val = fns[d].syms[j].val
    BY <2>2
  <2> QED  BY <2>2, <2>3, LocalPlace DEF LocalPlaced
<1> QED  BY <1>1, <1>2 DEF LocalsMoved

\* A local is declared.
LEMMA DeclaredStrs ==
  ASSUME IInv, Running, ~InCallee(Top), NEW s, fns' = [fns EXCEPT ![Len(fns)].syms = Append(Env.syms, s)]
  PROVE  \E A : /\ LocalsMoved({}, A) /\ \A p, q \in A : p = q
                /\ \A p \in A : Blk(p)' = s.val.str /\ s.val.type = "string"
                /\ s.val.type = "string" => A # {}
<1>1. PICK st : st = Append(Env.syms, s)
  OBVIOUS
<1>2. PICK L \in Nat : L = Len(Env.syms) /\ DOMAIN Env.syms = 1..L
  BY EnvFacts
<1>3. DOMAIN st = 1..(L + 1) /\ st[L + 1] = s /\ \A j \in 1..L : st[j] = Env.syms[j]
  BY <1>1, <1>2, EnvFacts
<1>4. PICK e \in DOMAIN fns : /\ e = Top.fn /\ DOMAIN fns' = DOMAIN fns /\ fns'[e].syms = st
                              /\ Env = fns[e] /\ \A d \in DOMAIN fns : d # e => fns'[d] = fns[d]
  BY <1>1, InnermostTable
<1>5. PICK A : A = IF s.val.type = "string" THEN {<<"local", e, L + 1>>} ELSE {}
  OBVIOUS
<1>6. A \subseteq LocalStrs' /\ \A p \in A : Blk(p)' = s.val.str /\ s.val.type = "string"
  <2>1. L + 1 \in DOMAIN fns'[e].syms /\ fns'[e].syms[L + 1] = s /\ e \in DOMAIN fns'
    BY <1>3, <1>4
  <2>2. /\ s.val.type = "string" => <<"local", e, L + 1>> \in LocalStrs'
        /\ Blk(<<"local", e, L + 1>>)' = s.val.str
    BY <2>1, LocalPlace DEF LocalPlaced
  <2> QED  BY <1>5, <2>2
<1>7. LocalsMoved({}, A)
  <2>1. ASSUME NEW d \in DOMAIN fns', NEW j \in DOMAIN fns'[d].syms
        PROVE  \/ <<"local", d, j>> \in A \/ fns'[d].syms[j].val.type # "string"
               \/ /\ d \in DOMAIN fns /\ j \in DOMAIN fns[d].syms
                  /\ fns'[d].syms[j].val = fns[d].syms[j].val /\ <<"local", d, j>> \notin {}
    <3>1. CASE d = e
      <4>1. j \in 1..L \/ j = L + 1
        BY <1>3, <1>4, <2>1, <3>1
      <4> QED  BY <1>2, <1>3, <1>4, <1>5, <3>1, <4>1
    <3> QED  BY <1>4, <2>1, <3>1
  <2>2. ASSUME NEW d \in DOMAIN fns, NEW j \in DOMAIN fns[d].syms
        PROVE  /\ d \in DOMAIN fns' /\ j \in DOMAIN fns'[d].syms
               /\ fns'[d].syms[j].val = fns[d].syms[j].val
    <3>1. CASE d = e
      <4>1. j \in 1..L /\ j \in 1..(L + 1)
        BY <1>2, <1>4, <2>2, <3>1
      <4> QED  BY <1>3, <1>4, <3>1, <4>1
    <3> QED  BY <1>4, <2>2, <3>1
  <2> QED  BY <1>6, <2>1, <2>2, TableMoves
<1> QED  BY <1>5, <1>6, <1>7

\* A local takes another value of its type.
LEMMA SetStrs ==
  ASSUME IInv, Running, ~InCallee(Top), NEW i \in 1..Len(Env.syms), NEW v,
         v.type = "string" <=> Env.syms[i].val.type = "string",
         fns' = [fns EXCEPT ![Len(fns)].syms[i].val = v]
  PROVE  \E A : /\ LocalsMoved(A, A) /\ StandAt(<<Env.syms[i].val>>, A)
                /\ \A p, q \in A : p = q
                /\ \A p \in A : Blk(p)' = v.str /\ v.type = "string"
                /\ v.type = "string" => A # {}
<1>1. PICK L \in Nat : L = Len(Env.syms) /\ DOMAIN Env.syms = 1..L /\ Env.syms \in Seq(SymRecord)
  BY EnvFacts
<1>2. PICK st : st = [Env.syms EXCEPT ![i].val = v]
  OBVIOUS
<1>3. fns' = [fns EXCEPT ![Len(fns)].syms = st]
  BY <1>2 DEF Env
<1>4. DOMAIN st = 1..L /\ st[i].val = v /\ \A j \in 1..L : j # i => st[j] = Env.syms[j]
  <2>1. Env.syms[i] \in SymRecord
    BY <1>1
  <2>2. [Env.syms[i] EXCEPT !.val = v].val = v
    BY <2>1 DEF SymRecord
  <2> QED  BY <1>1, <1>2, <2>2
<1>5. PICK e \in DOMAIN fns : /\ e = Top.fn /\ DOMAIN fns' = DOMAIN fns /\ fns'[e].syms = st
                              /\ Env = fns[e] /\ \A d \in DOMAIN fns : d # e => fns'[d] = fns[d]
  BY <1>3, InnermostTable
<1>6. PICK p : p = <<"local", e, i>>
  OBVIOUS
<1>7. PICK A : A = IF v.type = "string" THEN {p} ELSE {}
  OBVIOUS
<1>8. A \subseteq LocalStrs /\ A \subseteq LocalStrs' /\ Blk(p)' = v.str /\ Blk(p) = Env.syms[i].val.str
  <2>1. /\ i \in DOMAIN fns'[e].syms /\ fns'[e].syms[i].val = v /\ e \in DOMAIN fns'
        /\ i \in DOMAIN fns[e].syms /\ fns[e].syms[i].val = Env.syms[i].val
    BY <1>1, <1>4, <1>5
  <2>2. /\ v.type = "string" => <<"local", e, i>> \in LocalStrs'
        /\ Blk(<<"local", e, i>>)' = v.str
    BY <2>1, LocalPlace DEF LocalPlaced
  <2>3. /\ v.type = "string" => <<"local", e, i>> \in LocalStrs
        /\ Blk(<<"local", e, i>>) = Env.syms[i].val.str
    BY <2>1, LocalPlace DEF LocalPlaced
  <2> QED  BY <1>6, <1>7, <2>2, <2>3
<1>9. LocalsMoved(A, A)
  <2>1. ASSUME NEW d \in DOMAIN fns, NEW j \in DOMAIN fns[d].syms
        PROVE  /\ d \in DOMAIN fns' /\ j \in DOMAIN fns'[d].syms
               /\ \/ d = e /\ j = i
                  \/ fns'[d].syms[j].val = fns[d].syms[j].val /\ <<"local", d, j>> \notin A
    <3>1. CASE d = e
      BY <1>1, <1>4, <1>5, <1>6, <1>7, <2>1, <3>1
    <3> QED  BY <1>5, <1>6, <1>7, <2>1, <3>1
  <2>2. <<"local", e, i>> \in A \/ (fns'[e].syms[i].val.type # "string" /\ fns[e].syms[i].val.type # "string")
    BY <1>4, <1>5, <1>6, <1>7
  <2>3. \A d \in DOMAIN fns' : d \in DOMAIN fns /\ DOMAIN fns'[d].syms = DOMAIN fns[d].syms
    BY <1>1, <1>4, <1>5
  <2>4. ASSUME NEW d \in DOMAIN fns', NEW j \in DOMAIN fns'[d].syms
        PROVE  \/ <<"local", d, j>> \in A \/ fns'[d].syms[j].val.type # "string"
               \/ /\ d \in DOMAIN fns /\ j \in DOMAIN fns[d].syms
                  /\ fns'[d].syms[j].val = fns[d].syms[j].val /\ <<"local", d, j>> \notin A
    <3>1. d \in DOMAIN fns /\ j \in DOMAIN fns[d].syms
      BY <2>3, <2>4
    <3>2. CASE d = e /\ j = i
      BY <2>2, <3>2
    <3>3. CASE ~(d = e /\ j = i)
      BY <2>1, <3>1, <3>3
    <3> QED  BY <3>2, <3>3
  <2>5. ASSUME NEW d \in DOMAIN fns, NEW j \in DOMAIN fns[d].syms
        PROVE  \/ <<"local", d, j>> \in A \/ fns[d].syms[j].val.type # "string"
               \/ /\ d \in DOMAIN fns' /\ j \in DOMAIN fns'[d].syms
                  /\ fns'[d].syms[j].val = fns[d].syms[j].val
    BY <2>1, <2>2, <2>5
  <2> QED  BY <1>8, <2>4, <2>5, TableMoves
<1>10. StandAt(<<Env.syms[i].val>>, A)
  <2>1. PICK old : old = Env.syms[i].val
    OBVIOUS
  <2>2. old.type = "string" => p \in Strs /\ Blk(p) = old.str
    BY <1>7, <1>8, <2>1, StrParts DEF StrsApart
  <2>3. A = IF old.type = "string" THEN {p} ELSE {}
    BY <1>7, <2>1
  <2> QED  BY <2>1, <2>2, <2>3, StandOne
<1> QED  BY <1>7, <1>8, <1>9, <1>10

\* A declaration takes the string that was evaluated for it.
LEMMA LocalDeclSafe ==
  ASSUME NEW t, NEW leaving, MInv(t, leaving), TInv(t)', LocalDecl
  PROVE  Safe(leaving)'
<1>1. /\ Running /\ ret = NoRet /\ N.type = "LOCALDECL" /\ Len(Top.vals) = Operands /\ Intact /\ NoHeap
      /\ Leave("none", Unwritten)
  BY DEF LocalDecl, Ready
<1>2. /\ IInv /\ TInv(t) /\ OneOwner /\ N.type \in OperandTypes /\ FramesTidy(leaving)
      /\ StringsUsed(prog, t, leaving) /\ NoFault
  BY <1>1, MInvFacts DEF OperandTypes
<1>3. /\ ~InCallee(Top) /\ RetStrs = {} /\ Operands = 1 /\ StandAt(<<Top.vals[1]>>, TopStrs)
  <2>1. Operands = 1
    BY <1>1, <1>2, OperandFacts
  <2> QED  BY <1>1, <1>2, <2>1, OperandsStand
<1>4. PICK v : v = Top.vals[1]
  OBVIOUS
<1>5. PICK s : /\ s = Symbol(N.sym, Prim(Top.mod, Kid(1)), Top.mod, Top.node, Top.scope, v)
  OBVIOUS
<1>6. s.val = v /\ fns' = [fns EXCEPT ![Len(fns)].syms = Append(Env.syms, s)]
  BY <1>4, <1>5 DEF LocalDecl, Symbol, Env
<1>7. PICK A : /\ LocalsMoved({}, A) /\ \A p, q \in A : p = q
               /\ \A p \in A : Blk(p)' = v.str /\ v.type = "string"
               /\ v.type = "string" => A # {}
  BY <1>1, <1>2, <1>3, <1>6, DeclaredStrs
<1>8. UNCHANGED <<prog, globals>> /\ Unwritten.type # "string"
  BY <1>1 DEF Intact, Unwritten, Val
<1>9. OneOwner'
  <2>1. PICK E : E = {}
    OBVIOUS
  <2>2. PICK D : D = TopStrs
    OBVIOUS
  <2>3. LocalsMoved(E, A) /\ GlobalsMoved(E, E) /\ FramesMoved(D, E)
    BY <1>1, <1>2, <1>7, <1>8, <2>1, <2>2, SameGlobalStrs, LeftFrames, FramesKeptMoved
  <2>4. RetStrs' = {}
    BY <1>1, <1>8 DEF Leave, Ret, RetStrs
  <2>5. Going(D, E, E, D) /\ Coming(A, A, E, E)
    BY <1>3, <2>1, <2>4 DEF Going, Coming
  <2>6. HeapMoved(D, v)
    BY <1>1, <1>2, <1>3, <1>4, <2>2, HeapPasses
  <2> QED  BY <1>2, <1>7, <2>3, <2>5, <2>6, OneComes, Zenon
<1>10. FramesTidy(leaving)' /\ StringLeft(leaving)'
  BY <1>1, <1>2, <1>8, LeftTidy, LeftString
<1>11. NoFault'
  BY <1>1, <1>2 DEF NoHeap, NoFault
<1> QED  BY <1>9, <1>10, <1>11 DEF Safe

-----------------------------------------------------------------------------
(* Expressions that read. *)

LEMMA MadeStrs ==
  \A x : /\ NewVal(x).type = "string" => NewVal(x).str = NewBlock
         /\ CopyVal(x).type = "string" => CopyVal(x).str = NewBlock
BY DEF NewVal, CopyVal, StrVal, Val

\* The value of a name that is found has not been released.
LEMMA FoundLive ==
  ASSUME IInv, Running, OneOwner, NEW sym, Found(sym), Lookup(sym).val.type = "string"
  PROVE  Lookup(sym).val.str \in live
<1>1. CASE LocalIdx(sym) # 0
  <2>1. PICK i : i = LocalIdx(sym)
    OBVIOUS
  <2>2. PICK d : d = Len(fns)
    OBVIOUS
  <2>3. i \in 1..Len(Env.syms) /\ Lookup(sym) = Env.syms[i]
    BY <1>1, <2>1, LookupFacts DEF Lookup
  <2>4. d \in DOMAIN fns /\ Env = fns[d]
    BY <2>2, TopFacts, Shapes
  <2>5. i \in DOMAIN fns[d].syms /\ fns[d].syms[i].val = Lookup(sym).val
    BY <2>3, <2>4, EnvFacts
  <2>6. <<"local", d, i>> \in Strs /\ Blk(<<"local", d, i>>) = Lookup(sym).val.str
    BY <2>4, <2>5, LocalPlace, StrParts DEF LocalPlaced, StrsApart
  <2> QED  BY <2>6 DEF OneOwner
<1>2. CASE LocalIdx(sym) = 0
  <2>1. PICK i : i = GlobalIdx(sym)
    OBVIOUS
  <2>2. i \in DOMAIN globals /\ Lookup(sym) = globals[i]
    BY <1>2, <2>1, LookupFacts, Shapes DEF Lookup, Found
  <2>3. <<"global", 1, i>> \in Strs /\ Blk(<<"global", 1, i>>) = Lookup(sym).val.str
    BY <2>2, GlobalPlace, StrParts DEF GlobalPlaced, StrsApart
  <2> QED  BY <2>3 DEF OneOwner
<1> QED  BY <1>1, <1>2

LEMMA EatomSafe ==
  ASSUME NEW t, NEW leaving, MInv(t, leaving), TInv(t)', Eatom
  PROVE  Safe(leaving)'
<1>1. /\ Running /\ ret = NoRet /\ N.type = "EATOM" /\ Top.at = 0 /\ N.type \in ExprTypes
      /\ N.type \notin OperandTypes
  BY DEF Eatom, Starting, ExprTypes, OperandTypes, Binaries, Arithmetics, Comparisons, Logicals, Assigns
<1>2. TInv(t) /\ IInv /\ OneOwner
  BY <1>1, MInvFacts
<1>3. ~InCallee(Top) /\ StandAt(<<>>, TopStrs)
  <2>1. StandAt(<<>>, {})
    BY StandNowhere
  <2> QED  BY <1>1, <1>2, <2>1, CarrierNone
<1>4. N = prog[Top.mod][Top.node] /\ AtomTyped(prog, t, Top.mod, Top.node)
      /\ Top.node \in DOMAIN t[Top.mod] /\ Top.node \in DOMAIN prog[Top.mod]
  BY <1>1, <1>2, ExprTyped, TopFacts
<1>5. CASE N.tok # "IDENT" /\ Yield(NewVal(LitTypes[N.tok]), <<>>)
  BY <1>1, <1>3, <1>5, MadeStrs, YieldSafe
<1>6. CASE N.tok = "IDENT"
  <2>1. Shows(Env.syms, Env.scope, t[Top.mod][Top.node].names, t[Top.mod][Top.node].known)
    BY <1>1, <1>2, <1>3, HereFacts, TopTyped DEF OpenNow
  <2>2. Found(N.sym)
    BY <1>1, <1>2, <1>4, <1>6, <2>1, VariableFound
  <2>3. Yield(CopyVal(Lookup(N.sym).val), <<>>)
    BY <1>1, <1>2, <1>6, <2>2, FoundLive DEF Eatom
  <2> QED  BY <1>1, <1>3, <2>3, MadeStrs, YieldSafe
<1> QED  BY <1>5, <1>6 DEF Eatom

-----------------------------------------------------------------------------
(* System functions. *)

LEMMA SysFnArgs ==
  \A sym \in DOMAIN SysFns :
    LET args == SysFns[sym].argtypes
    IN /\ Len(args) \in {0, 1, 2}
       /\ Len(args) = 2 => args[1] = "int" /\ args[2] = "string"
BY DEF SysFns

\* A call that is refused has at most one argument to release: the loop that releases
\* them stops after the first, and the others are no strings.
LEMMA SysRejectSafe ==
  ASSUME NEW t, NEW leaving, MInv(t, leaving), TInv(t)', SysReject
  PROVE  Safe(leaving)'
<1>1. Running /\ ret = NoRet /\ N.type = "ESYSTEM" /\ N.type \in ExprTypes /\ N.type \in OperandTypes
  BY DEF SysReject, ExprTypes, OperandTypes
<1>2. TInv(t) /\ IInv /\ FrameTidy(Top, leaving)
  BY <1>1, MInvFacts
<1>3. /\ ~InCallee(Top) /\ StandAt(Top.vals, TopStrs) /\ Top.vals \in Seq(Value)
      /\ Len(Top.vals) = 1 => StandAt(<<Top.vals[1]>>, TopStrs)
  BY <1>1, <1>2, OperandsStand
<1>4. PICK made : made = NewVal(Prim(Top.mod, Kid(1)))
  OBVIOUS
<1>5. made.type = "string" => made.str = NewBlock
  BY <1>4, MadeStrs
<1>6. PICK m \in Nat : m = Len(Top.vals) /\ DOMAIN Top.vals = 1..m
  BY <1>3
<1>7. /\ Top.vals # <<>> => SysCallable
      /\ \A j \in 1..m : j < m => Top.vals[j].type = SysFns[N.sym].argtypes[j]
  <2>1. HeldTyped(t, Top, FALSE) /\ N = Node(Top.mod, Top.node)
    BY <1>1, <1>2, TopTyped, TopFacts
  <2>2. Callable(Top) <=> SysCallable
    BY <2>1 DEF Callable, SysCallable, Kid, Arity
  <2> QED  BY <1>1, <1>3, <1>6, <2>1, <2>2 DEF HeldTyped
<1>8. CASE ~SysCallable /\ Yield(made, <<>>)
  <2>1. Top.vals = <<>>
    BY <1>7, <1>8
  <2> QED  BY <1>1, <1>3, <1>5, <1>8, <2>1, YieldSafe
<1>9. CASE SysCallable /\ ~SysArgsOk /\ Yield(made, <<Top.vals[1]>>)
  <2>1. m < Arity /\ Arity \in Nat
    BY <1>1, <1>2, <1>6, TopFacts DEF FrameTidy, Arity
  <2>2. PICK k \in {0, 1, 2} : /\ k = Len(SysFns[N.sym].argtypes) /\ k = Arity - 1
                               /\ k = 2 => /\ SysFns[N.sym].argtypes[1] = "int"
                                           /\ SysFns[N.sym].argtypes[2] = "string"
    BY <1>9, SysFnArgs DEF SysCallable
  <2>3. PICK j \in 1..m : Top.vals[j].type # SysFns[N.sym].argtypes[j]
    BY <1>6, <1>9 DEF SysArgsOk
  <2>4. j = m
    BY <1>7, <2>3
  <2>5. m = 1 \/ (m = 2 /\ k = 2)
    BY <2>1, <2>2, <2>3
  <2>6. CASE m = 1
    BY <1>1, <1>3, <1>5, <1>6, <1>9, <2>6, YieldSafe
  <2>7. CASE m = 2 /\ k = 2
    <3>1. 1 \in 1..m /\ 1 < m
      BY <2>7
    <3>2. Top.vals[1].type = "int"
      BY <1>7, <2>2, <2>7, <3>1
    <3>3. Top.vals[2].type # "string"
      BY <2>2, <2>3, <2>4, <2>7
    <3>4. \A i \in DOMAIN Top.vals : Top.vals[i].type # "string"
      <4>1. \A i \in 1..2 : i = 1 \/ i = 2
        OBVIOUS
      <4> QED  BY <1>6, <2>7, <3>2, <3>3, <4>1
    <3>5. TopStrs = {}
      BY <1>1, <1>2, <3>4, TopNone
    <3>6. StandAt(<<Top.vals[1]>>, TopStrs)
      <4>1. PICK v : v = Top.vals[1]
        OBVIOUS
      <4>2. \A i \in DOMAIN <<v>> : <<v>>[i].type # "string"
        BY <3>2, <4>1
      <4> QED  BY <3>5, <4>1, <4>2, StandNowhere
    <3> QED  BY <1>1, <1>5, <1>9, <3>6, YieldSafe
  <2> QED  BY <2>5, <2>6, <2>7
<1> QED  BY <1>4, <1>8, <1>9 DEF SysReject

LEMMA SysCallSafe ==
  ASSUME NEW t, NEW leaving, MInv(t, leaving), TInv(t)', SysCall
  PROVE  Safe(leaving)'
<1>1. /\ Running /\ ret = NoRet /\ N.type = "ESYSTEM" /\ N.type \in ExprTypes /\ N.type \in OperandTypes
      /\ Yield(NewVal(SysFns[N.sym].rettype), Top.vals)
  BY DEF SysCall, Ready, ExprTypes, OperandTypes
<1>2. StandAt(Top.vals, TopStrs)
  BY <1>1, MInvFacts, OperandsStand
<1> QED  BY <1>1, <1>2, MadeStrs, YieldSafe

-----------------------------------------------------------------------------
(* Variables that take values. *)

\* A global takes another value of its type.
LEMMA SetGlobalStrs ==
  ASSUME IInv, NEW i \in DOMAIN globals, NEW v,
         v.type = "string" <=> globals[i].val.type = "string",
         globals' = [globals EXCEPT ![i].val = v]
  PROVE  \E A : /\ GlobalsMoved(A, A) /\ StandAt(<<globals[i].val>>, A)
                /\ \A p, q \in A : p = q
                /\ \A p \in A : Blk(p)' = v.str /\ v.type = "string"
                /\ v.type = "string" => A # {}
<1>1. DOMAIN globals' = DOMAIN globals /\ \A j \in DOMAIN globals : j # i => globals'[j] = globals[j]
  OBVIOUS
<1>2. globals'[i].val = v
  <2>1. globals[i] \in SymRecord
    BY Shapes
  <2>2. [globals[i] EXCEPT !.val = v].val = v
    BY <2>1 DEF SymRecord
  <2> QED  BY <2>2
<1>3. PICK p : p = <<"global", 1, i>>
  OBVIOUS
<1>4. PICK A : A = IF v.type = "string" THEN {p} ELSE {}
  OBVIOUS
<1>5. PICK old : old = globals[i].val
  OBVIOUS
<1>6. /\ v.type = "string" => p \in GlobalStrs /\ p \in GlobalStrs'
      /\ Blk(p)' = v.str /\ Blk(p) = old.str
  BY <1>1, <1>2, <1>3, <1>5, GlobalPlace DEF GlobalPlaced
<1>7. GlobalsMoved(A, A)
  <2>1. A \subseteq GlobalStrs /\ A \subseteq GlobalStrs'
    BY <1>4, <1>6
  <2>2. \A q \in GlobalStrs : q \notin A => q \in GlobalStrs' /\ Blk(q)' = Blk(q)
    <3> SUFFICES ASSUME NEW q \in GlobalStrs, q \notin A PROVE q \in GlobalStrs' /\ Blk(q)' = Blk(q)
      OBVIOUS
    <3>1. PICK j \in DOMAIN globals : q = <<"global", 1, j>> /\ globals[j].val.type = "string"
      BY GlobalPlace DEF GlobalPlaced
    <3>2. j # i
      BY <1>3, <1>4, <3>1
    <3> QED  BY <1>1, <3>1, <3>2, GlobalPlace DEF GlobalPlaced
  <2>3. \A q \in GlobalStrs' : q \in A \/ q \in GlobalStrs
    <3> TAKE q \in GlobalStrs'
    <3>1. PICK j \in DOMAIN globals : q = <<"global", 1, j>> /\ globals'[j].val.type = "string"
      BY <1>1, GlobalPlace DEF GlobalPlaced
    <3>2. CASE j = i
      BY <1>2, <1>3, <1>4, <3>1, <3>2
    <3>3. CASE j # i
      BY <1>1, <3>1, <3>3, GlobalPlace DEF GlobalPlaced
    <3> QED  BY <3>2, <3>3
  <2> QED  BY <2>1, <2>2, <2>3 DEF GlobalsMoved
<1>8. StandAt(<<globals[i].val>>, A)
  <2>1. old.type = "string" => p \in Strs /\ Blk(p) = old.str
    BY <1>5, <1>6, StrParts DEF StrsApart
  <2>2. A = IF old.type = "string" THEN {p} ELSE {}
    BY <1>4, <1>5
  <2> QED  BY <1>5, <2>1, <2>2, StandOne
<1> QED  BY <1>4, <1>6, <1>7, <1>8

\* An expression leaves that has given a variable a new value.
LEMMA StoredSafe ==
  ASSUME NEW t, NEW leaving, NEW L, NEW G, NEW A, NEW D, NEW new, NEW val,
         MInv(t, leaving), TInv(t)', Running, ret = NoRet, N.type \in ExprTypes,
         UNCHANGED <<prog, fault>>, Leave("none", val), val.type # "string",
         LocalsMoved(L, L), GlobalsMoved(G, G), A = L \union G, D = A \union TopStrs,
         HeapMoved(D, new), new.type = "string" => A # {},
         \A p \in A : Blk(p)' = new.str /\ new.type = "string", \A p, q \in A : p = q
  PROVE  Safe(leaving)'
<1>1. IInv /\ OneOwner /\ TInv(t) /\ FramesTidy(leaving) /\ StringsUsed(prog, t, leaving) /\ NoFault
  BY MInvFacts
<1>2. PICK E : E = {}
  OBVIOUS
<1>3. PICK F : F = TopStrs
  OBVIOUS
<1>4. FramesMoved(F, E)
  BY <1>1, <1>2, <1>3, LeftFrames, FramesKeptMoved
<1>5. RetStrs = {} /\ RetStrs' = {}
  <2>1. ret'.val = val
    BY DEF Leave, Ret
  <2> QED  BY <2>1, NothingGiven DEF RetStrs
<1>6. Going(D, L, G, F) /\ Coming(A, L, G, E)
  BY <1>2, <1>3, <1>5 DEF Going, Coming
<1>7. OneOwner'
  BY <1>1, <1>4, <1>6, OneComes, Zenon
<1>8. FramesTidy(leaving)' /\ StringLeft(leaving)'
  BY <1>1, LeftTidy, LeftString
<1>9. NoFault'
  BY <1>1 DEF NoFault
<1> QED  BY <1>7, <1>8, <1>9 DEF Safe

\* The string in the variable shell writes to is released, and a new one is there.
LEMMA SysShellSafe ==
  ASSUME NEW t, NEW leaving, MInv(t, leaving), TInv(t)', SysShell
  PROVE  Safe(leaving)'
<1>1. Running /\ ret = NoRet /\ N.type = "ESYSTEM" /\ N.type \in ExprTypes /\ N.type \in OperandTypes
  BY DEF SysShell, Ready, ExprTypes, OperandTypes
<1>2. TInv(t) /\ IInv /\ OneOwner /\ live \subseteq Blocks
  BY <1>1, MInvFacts
<1>3. ~InCallee(Top) /\ StandAt(Top.vals, TopStrs) /\ Top.vals \in Seq(Value)
  BY <1>1, <1>2, OperandsStand
<1>4. Val("bool").type # "string"
  BY DEF Val
<1>5. CASE Yield(Val("bool"), Top.vals)
  BY <1>1, <1>3, <1>4, <1>5, YieldSafe
<1>6. CASE /\ ShellReady /\ Leave("none", Val("bool")) /\ Intact
           /\ Heap(StrVal(NewBlock), Append(Top.vals, Env.syms[ShellOut].val))
           /\ fns' = [fns EXCEPT ![Len(fns)].syms[ShellOut].val = StrVal(NewBlock)]
  <2>1. PICK i \in 1..Len(Env.syms) : i = ShellOut /\ Env.syms[i].val.type = "string"
    BY <1>1, <1>2, <1>6, LookupFacts DEF ShellReady, ShellOut
  <2>2. PICK new : new = StrVal(NewBlock)
    OBVIOUS
  <2>3. PICK old \in Value : old = Env.syms[i].val
    <3>1. Env.syms[i] \in SymRecord
      BY <1>1, <1>2, <2>1, EnvFacts
    <3> QED  BY <3>1 DEF SymRecord
  <2>4. /\ new.type = "string" /\ new.str = NewBlock
        /\ fns' = [fns EXCEPT ![Len(fns)].syms[i].val = new]
        /\ Heap(new, Append(Top.vals, old)) /\ UNCHANGED <<prog, globals>>
    BY <1>6, <2>1, <2>2, <2>3 DEF StrVal, Intact
  <2>5. PICK L : /\ LocalsMoved(L, L) /\ StandAt(<<old>>, L)
                 /\ \A p, q \in L : p = q
                 /\ \A p \in L : Blk(p)' = new.str /\ new.type = "string"
                 /\ new.type = "string" => L # {}
    <3>1. /\ IInv /\ Running /\ ~InCallee(Top) /\ (new.type = "string" <=> Env.syms[i].val.type = "string")
          /\ fns' = [fns EXCEPT ![Len(fns)].syms[i].val = new]
      BY <1>1, <1>2, <1>3, <2>1, <2>4
    <3>2. \E L : /\ LocalsMoved(L, L) /\ StandAt(<<Env.syms[i].val>>, L)
                 /\ \A p, q \in L : p = q
                 /\ \A p \in L : Blk(p)' = new.str /\ new.type = "string"
                 /\ new.type = "string" => L # {}
      BY <3>1, SetStrs, Zenon
    <3> QED  BY <2>3, <3>2, Zenon
  <2>6. PICK E : E = {}
    OBVIOUS
  <2>7. PICK D : D = L \union TopStrs
    OBVIOUS
  <2>8. TopStrs \cap L = {}
    <3>1. L \subseteq LocalStrs
      BY <2>5 DEF LocalsMoved
    <3>2. (\A p \in LocalStrs : p[1] = "local") /\ (\A p \in TopStrs : p[1] = "frame")
      BY StrParts DEF StrsApart
    <3>3. "local" # "frame"
      OBVIOUS
    <3> QED  BY <3>1, <3>2, <3>3
  <2>9. StandAt(Append(Top.vals, old), D)
    <3>1. <<old>> \in Seq(Value) /\ Append(Top.vals, old) = Top.vals \o <<old>>
      BY <1>3
    <3>2. StandAt(Top.vals \o <<old>>, TopStrs \union L)
      BY <1>3, <2>5, <2>8, <3>1, StandBoth
    <3>3. D = TopStrs \union L
      BY <2>7
    <3> QED  BY <3>1, <3>2, <3>3
  <2>10. HeapMoved(D, new) /\ UNCHANGED fault
    BY <1>2, <2>4, <2>9, HeapMakes
  <2>11. GlobalsMoved(E, E) /\ L = L \union E
    BY <2>4, <2>6, SameGlobalStrs
  <2> QED  BY <1>1, <1>4, <1>6, <2>4, <2>5, <2>7, <2>10, <2>11, StoredSafe
<1> QED  BY <1>5, <1>6 DEF SysShell

-----------------------------------------------------------------------------
(* Steps that move nothing. *)

LEMMA SameOwner ==
  ASSUME IInv, OneOwner, UNCHANGED <<prog, globals, fns, cstk, ret, live>>
  PROVE  OneOwner'
<1>1. PICK E : E = {}
  OBVIOUS
<1>2. PICK D : D = RetStrs
  OBVIOUS
<1>3. PICK v : v = ret.val
  OBVIOUS
<1>4. LocalsMoved(E, E) /\ GlobalsMoved(E, E) /\ FramesMoved(E, E)
  BY <1>1, SameLocalStrs, SameGlobalStrs, SameFrameStrs, LocalsKeptMoved, FramesKeptMoved
<1>5. RetStrs' = D /\ D = IF v.type = "string" THEN {RetPlace} ELSE {}
  BY <1>2, <1>3 DEF RetStrs, RetPlace
<1>6. Going(D, E, E, E) /\ Coming(D, E, E, E)
  BY <1>1, <1>2, <1>5 DEF Going, Coming
<1>7. Blk(RetPlace) = v.str /\ Blk(RetPlace)' = v.str
  <2>1. ret'.val = v
    BY <1>3
  <2> QED  BY <1>3, <2>1, RetOnly DEF RetPlaced
<1>8. HeapMoved(D, v)
  <2>1. BlksOf(D) = Taken(v)
    BY <1>5, <1>7 DEF BlksOf, Taken
  <2>2. Taken(v) \subseteq live
    <3>1. v.type = "string" => RetPlace \in Strs
      BY <1>2, <1>5, StrParts DEF StrsApart
    <3> QED  BY <1>7, <3>1 DEF Taken, OneOwner
  <2>3. v.type = "string" => v.str \in Taken(v)
    BY DEF Taken
  <2> QED  BY <2>1, <2>2, <2>3 DEF HeapMoved
<1>9. /\ v.type = "string" => D # {}
      /\ \A p \in D : Blk(p)' = v.str /\ v.type = "string"
      /\ \A p, q \in D : p = q
  BY <1>5, <1>7
<1> QED  BY <1>4, <1>6, <1>8, <1>9, OneComes, Zenon

LEMMA SameTidy ==
  ASSUME UNCHANGED <<prog, cstk, ret, globals>>, NEW leaving, FramesTidy(leaving), StringLeft(leaving)
  PROVE  FramesTidy(leaving)' /\ StringLeft(leaving)'
<1>1. FramesTidy(leaving)'
  <2>1. ASSUME NEW i \in DOMAIN cstk PROVE FrameTidy(cstk[i], leaving)'
    <3>1. PICK f : f = cstk[i]
      OBVIOUS
    <3>2. FrameTidy(cstk[i], leaving)' <=> FrameTidy(f, leaving)
      <4>1. cstk'[i] = f
        BY <3>1
      <4> QED  BY <4>1, TidyKept
    <3> QED  BY <3>1, <3>2 DEF FramesTidy
  <2> QED  BY <2>1 DEF FramesTidy
<1>2. StringLeft(leaving)'
  BY DEF StringLeft, Top, InCallee, Called, Node, Callee, CalleeIdx, GlobalIdx
<1> QED  BY <1>1, <1>2

\* A division that traps stops the program where it is.
LEMMA TrapSafe ==
  ASSUME NEW t, NEW leaving, MInv(t, leaving), Running,
         NEW kind \in {"trap", "overflow"}, Undefined(kind)
  PROVE  Safe(leaving)'
<1>1. /\ IInv /\ OneOwner /\ FramesTidy(leaving) /\ StringLeft(leaving)
      /\ UNCHANGED <<prog, globals, fns, cstk, ret, live>>
  BY MInvFacts DEF Undefined
<1>2. OneOwner' /\ FramesTidy(leaving)' /\ StringLeft(leaving)'
  BY <1>1, SameOwner, SameTidy
<1>3. NoFault'
  BY DEF Undefined, NoFault
<1> QED  BY <1>2, <1>3 DEF Safe

-----------------------------------------------------------------------------
(* Assignments. *)

\* The place of the string in the target of an assignment, if it holds one.
LEMMA TargetMoves ==
  ASSUME NEW t, TInv(t), Ready(Assigns), NEW old, old = Lookup(Target).val, NEW v, Store(v),
         v.type = "string" <=> old.type = "string"
  PROVE  \E L, G, A : /\ LocalsMoved(L, L) /\ GlobalsMoved(G, G) /\ A = L \union G
                      /\ StandAt(<<old>>, A) /\ A \cap TopStrs = {}
                      /\ \A p, q \in A : p = q
                      /\ \A p \in A : Blk(p)' = v.str /\ v.type = "string"
                      /\ v.type = "string" => A # {}
<1>1. Running /\ IInv /\ ~InCallee(Top)
  BY TargetFacts
<1>2. PICK E : E = {}
  OBVIOUS
<1>3. /\ \A p \in LocalStrs : p[1] = "local"
      /\ \A p \in GlobalStrs : p[1] = "global"
      /\ \A p \in TopStrs : p[1] = "frame"
      /\ "frame" # "local" /\ "frame" # "global"
  BY StrParts DEF StrsApart
<1>4. CASE LocalIdx(Target) # 0
  <2>1. PICK i \in 1..Len(Env.syms) : i = LocalIdx(Target)
    BY <1>4, TargetFacts
  <2>2. /\ fns' = [fns EXCEPT ![Len(fns)].syms[i].val = v] /\ UNCHANGED globals
        /\ Env.syms[i].val = old
    BY <1>4, <2>1 DEF Store, Lookup
  <2>3. \E L : /\ LocalsMoved(L, L) /\ StandAt(<<Env.syms[i].val>>, L)
               /\ \A p, q \in L : p = q
               /\ \A p \in L : Blk(p)' = v.str /\ v.type = "string"
               /\ v.type = "string" => L # {}
    <3>1. v.type = "string" <=> Env.syms[i].val.type = "string"
      BY <2>2
    <3> QED  BY <1>1, <2>2, <3>1, SetStrs, Zenon
  <2>4. PICK L : /\ LocalsMoved(L, L) /\ StandAt(<<old>>, L)
                 /\ \A p, q \in L : p = q
                 /\ \A p \in L : Blk(p)' = v.str /\ v.type = "string"
                 /\ v.type = "string" => L # {}
    BY <2>2, <2>3, Zenon
  <2>5. GlobalsMoved(E, E)
    BY <1>2, <2>2, SameGlobalStrs
  <2>6. L \cap TopStrs = {} /\ L = L \union E
    BY <1>2, <1>3, <2>4 DEF LocalsMoved
  <2> QED  BY <2>4, <2>5, <2>6, Zenon
<1>5. CASE LocalIdx(Target) = 0
  <2>1. PICK i \in DOMAIN globals : i = GlobalIdx(Target)
    BY <1>1, <1>5, TargetFacts, Shapes
  <2>2. /\ globals' = [globals EXCEPT ![i].val = v] /\ UNCHANGED fns
        /\ globals[i].val = old
    BY <1>5, <2>1 DEF Store, Lookup
  <2>3. \E G : /\ GlobalsMoved(G, G) /\ StandAt(<<globals[i].val>>, G)
               /\ \A p, q \in G : p = q
               /\ \A p \in G : Blk(p)' = v.str /\ v.type = "string"
               /\ v.type = "string" => G # {}
    <3>1. v.type = "string" <=> globals[i].val.type = "string"
      BY <2>2
    <3> QED  BY <1>1, <2>2, <3>1, SetGlobalStrs, Zenon
  <2>4. PICK G : /\ GlobalsMoved(G, G) /\ StandAt(<<old>>, G)
                 /\ \A p, q \in G : p = q
                 /\ \A p \in G : Blk(p)' = v.str /\ v.type = "string"
                 /\ v.type = "string" => G # {}
    BY <2>2, <2>3, Zenon
  <2>5. LocalsMoved(E, E)
    BY <1>2, <2>2, SameLocalStrs, LocalsKeptMoved
  <2>6. G \cap TopStrs = {} /\ G = E \union G
    BY <1>2, <1>3, <2>4 DEF GlobalsMoved
  <2> QED  BY <2>4, <2>5, <2>6, Zenon
<1> QED  BY <1>4, <1>5

\* An assignment is as good as what it does to the heap.
LEMMA AssignedSafe ==
  ASSUME NEW t, NEW leaving, MInv(t, leaving), TInv(t)', Ready(Assigns),
         NEW old, old = Lookup(Target).val, NEW v, Store(v), v.type = "string" <=> old.type = "string",
         UNCHANGED fault,
         \A A : StandAt(<<old>>, A) /\ A \cap TopStrs = {} => HeapMoved(A \union TopStrs, v)
  PROVE  Safe(leaving)'
<1>1. TInv(t) /\ Running /\ ret = NoRet /\ N.type \in ExprTypes
  BY MInvFacts DEF Ready, ExprTypes
<1>2. UNCHANGED prog /\ Leave("none", Unwritten) /\ Unwritten.type # "string"
  BY DEF Store, Unwritten, Val
<1>3. PICK L, G, A : /\ LocalsMoved(L, L) /\ GlobalsMoved(G, G) /\ A = L \union G
                     /\ StandAt(<<old>>, A) /\ A \cap TopStrs = {}
                     /\ \A p, q \in A : p = q
                     /\ \A p \in A : Blk(p)' = v.str /\ v.type = "string"
                     /\ v.type = "string" => A # {}
  BY <1>1, TargetMoves
<1>4. PICK D : D = A \union TopStrs
  OBVIOUS
<1>5. HeapMoved(D, v)
  BY <1>3, <1>4
<1> QED  BY <1>1, <1>2, <1>3, <1>4, <1>5, StoredSafe, Zenon

\* The operand of an assignment is at its place, and no string when it is a number.
LEMMA AssignOperand ==
  ASSUME NEW t, NEW leaving, MInv(t, leaving), Ready(Assigns)
  PROVE  /\ StandAt(<<Top.vals[1]>>, TopStrs)
         /\ Top.vals[1].type # "string" => TopStrs = {}
<1>1. Running /\ ret = NoRet /\ N.type \in OperandTypes /\ IInv /\ N.type \in Assigns
  BY MInvFacts DEF Ready, OperandTypes
<1>2. Operands = 1 /\ Len(Top.vals) = 1 /\ ~InCallee(Top) /\ Top.vals \in Seq(Value)
  BY <1>1, OperandFacts, OperandsStand DEF Ready
<1>3. ASSUME Top.vals[1].type # "string" PROVE TopStrs = {}
  <2>1. \A i \in DOMAIN Top.vals : i = 1
    BY <1>2
  <2>2. \A i \in DOMAIN Top.vals : Top.vals[i].type # "string"
    BY <1>3, <2>1
  <2> QED  BY <1>1, <2>2, TopNone
<1> QED  BY <1>1, <1>2, <1>3, OperandsStand

\* The number in a variable changes.
LEMMA NumberStored ==
  ASSUME NEW t, NEW leaving, MInv(t, leaving), TInv(t)', Ready(Assigns), InPlace,
         Top.vals[1].type \in {"int", "real"}
  PROVE  Safe(leaving)'
<1>1. PICK old : old = Lookup(Target).val
  OBVIOUS
<1>2. TopStrs = {} /\ OneOwner /\ TInv(t)
  BY AssignOperand, MInvFacts DEF Ready
<1>3. PICK new : new = Val(Top.vals[1].type)
  OBVIOUS
<1>4. old.type = Top.vals[1].type /\ old.type # "string" /\ new.type # "string"
  BY <1>1, <1>2, <1>3, TargetFacts DEF Val
<1>5. Store(new) /\ NoHeap
  BY <1>1, <1>3, <1>4 DEF InPlace
<1>6. ASSUME NEW A, StandAt(<<old>>, A), A \cap TopStrs = {} PROVE HeapMoved(A \union TopStrs, new)
  <2>1. A = {}
    BY <1>4, <1>6 DEF StandAt, StrIdx
  <2>2. HeapMoved({}, new)
    <3>1. StandAt(<<new>>, {})
      BY <1>4, StandNowhere
    <3> QED  BY <1>2, <1>5, <3>1, HeapPasses
  <2> QED  BY <1>2, <2>1, <2>2
<1>7. Store(new) /\ UNCHANGED fault
  BY <1>5 DEF NoHeap
<1> QED  BY <1>1, <1>4, <1>6, <1>7, AssignedSafe, Zenon

\* A string takes the place of one that is released.
LEMMA EassignSafe ==
  ASSUME NEW t, NEW leaving, MInv(t, leaving), TInv(t)', Ready(Assigns), Eassign
  PROVE  Safe(leaving)'
<1>1. PICK old : old = Lookup(Target).val
  OBVIOUS
<1>2. PICK v : v = Top.vals[1]
  OBVIOUS
<1>3. TInv(t) /\ OneOwner
  BY MInvFacts DEF Ready
<1>4. CASE v.type \in {"int", "real"}
  <2>1. InPlace
    BY <1>2, <1>4 DEF Eassign
  <2> QED  BY <1>2, <1>4, <2>1, NumberStored
<1>5. CASE v.type \notin {"int", "real"}
  <2>1. Store(v) /\ Heap(Null, <<old>>)
    BY <1>1, <1>2, <1>5 DEF Eassign
  <2>2. v.type = old.type
    BY <1>1, <1>2, <1>3, TargetFacts
  <2>3. StandAt(<<v>>, TopStrs)
    BY <1>2, AssignOperand
  <2>4. ASSUME NEW A, StandAt(<<old>>, A), A \cap TopStrs = {}
        PROVE  HeapMoved(A \union TopStrs, v) /\ UNCHANGED fault
    <3>1. PICK D : D = A \union TopStrs
      OBVIOUS
    <3> QED  BY <1>3, <2>1, <2>3, <2>4, <3>1, HeapHands, Zenon
  <2>5. UNCHANGED fault
    <3>1. v.type = "string" <=> old.type = "string"
      BY <2>2
    <3>2. PICK A : StandAt(<<old>>, A) /\ A \cap TopStrs = {}
      BY <1>1, <1>3, <2>1, <3>1, TargetMoves, Zenon
    <3> QED  BY <2>4, <3>2
  <2> QED  BY <1>1, <2>1, <2>2, <2>4, <2>5, AssignedSafe, Zenon
<1> QED  BY <1>4, <1>5

\* Both strings are released when a new one has been made of them.
LEMMA EaddassignSafe ==
  ASSUME NEW t, NEW leaving, MInv(t, leaving), TInv(t)', Ready(Assigns), Eaddassign
  PROVE  Safe(leaving)'
<1>1. PICK old : old = Lookup(Target).val
  OBVIOUS
<1>2. PICK v : v = Top.vals[1]
  OBVIOUS
<1>3. TInv(t) /\ OneOwner /\ IInv /\ Running /\ N.type = "EADDASSIGN" /\ live \subseteq Blocks
  BY MInvFacts DEF Ready, Eaddassign
<1>4. /\ v \in Value /\ old \in Value /\ v.type = old.type /\ Found(Target)
      /\ v.type \in {"int", "real", "string"}
  BY <1>1, <1>2, <1>3, TargetFacts
<1>5. CASE v.type \in {"int", "real"}
  <2>1. InPlace
    BY <1>2, <1>5 DEF Eaddassign
  <2> QED  BY <1>2, <1>5, <2>1, NumberStored
<1>6. CASE v.type = "string"
  <2>1. PICK new : new = StrVal(NewBlock)
    OBVIOUS
  <2>2. new.type = "string" /\ new.str = NewBlock
    BY <2>1 DEF StrVal
  <2>3. StandAt(<<v>>, TopStrs)
    BY <1>2, AssignOperand
  <2>4. Readable(<<old, v>>)
    <3>1. old.str \in live
      BY <1>1, <1>3, <1>4, <1>6, FoundLive
    <3>2. v.str \in live
      <4>1. BlocksOf(<<v>>) \subseteq live
        BY <1>3, <2>3, Freed DEF Releasable
      <4>2. 1 \in StrIdx(<<v>>)
        BY <1>6 DEF StrIdx
      <4>3. <<v>>[1].str \in BlocksOf(<<v>>)
        BY <4>2 DEF BlocksOf
      <4> QED  BY <4>1, <4>3
    <3>3. \A i \in DOMAIN <<old, v>> : i = 1 \/ i = 2
      OBVIOUS
    <3>4. <<old, v>>[1] = old /\ <<old, v>>[2] = v
      OBVIOUS
    <3> QED  BY <1>4, <1>6, <3>1, <3>2, <3>3, <3>4, Zenon DEF Readable
  <2>5. Store(new) /\ Heap(new, <<old, v>>)
    BY <1>1, <1>2, <1>6, <2>1, <2>4 DEF Eaddassign
  <2>6. ASSUME NEW A, StandAt(<<old>>, A), A \cap TopStrs = {}
        PROVE  HeapMoved(A \union TopStrs, new) /\ UNCHANGED fault
    <3>1. <<old>> \in Seq(Value) /\ <<v>> \in Seq(Value) /\ <<old>> \o <<v>> = <<old, v>>
      <4>1. <<old>> \in Seq(Value) /\ <<v>> \in Seq(Value)
        BY <1>4
      <4>2. Append(<<old>>, v) = <<old>> \o <<v>>
        BY <1>4, <4>1
      <4>3. Append(<<old>>, v) = <<old, v>>
        <5>1. PICK s : s = Append(<<old>>, v)
          OBVIOUS
        <5>2. PICK r : r = <<old, v>>
          OBVIOUS
        <5>3. s \in Seq(Value) /\ Len(s) = 2 /\ s[1] = old /\ s[2] = v
          BY <1>4, <4>1, <5>1
        <5>4. r \in Seq(Value) /\ Len(r) = 2 /\ r[1] = old /\ r[2] = v
          BY <1>4, <5>2
        <5>5. \A i \in 1..Len(s) : s[i] = r[i]
          <6>1. \A i \in 1..2 : i = 1 \/ i = 2
            OBVIOUS
          <6> QED  BY <5>3, <5>4, <6>1
        <5>6. s = r
          BY <5>3, <5>4, <5>5, SeqEqual
        <5> QED  BY <5>1, <5>2, <5>6
      <4> QED  BY <4>1, <4>2, <4>3
    <3>2. StandAt(<<old>> \o <<v>>, A \union TopStrs)
      BY <2>3, <2>6, <3>1, StandBoth
    <3>3. PICK D : D = A \union TopStrs
      OBVIOUS
    <3>4. StandAt(<<old, v>>, D)
      BY <3>1, <3>2, <3>3
    <3>5. HeapMoved(D, new) /\ UNCHANGED fault
      BY <1>3, <2>2, <2>5, <3>4, HeapMakes
    <3> QED  BY <3>3, <3>5
  <2>7. new.type = "string" <=> old.type = "string"
    BY <1>4, <1>6, <2>2
  <2>8. UNCHANGED fault
    <3>1. PICK A : StandAt(<<old>>, A) /\ A \cap TopStrs = {}
      BY <1>1, <1>3, <2>5, <2>7, TargetMoves, Zenon
    <3> QED  BY <2>6, <3>1
  <2> QED  BY <1>1, <2>5, <2>6, <2>7, <2>8, AssignedSafe, Zenon
<1> QED  BY <1>4, <1>5, <1>6

LEMMA AssignmentSafe ==
  ASSUME NEW t, NEW leaving, MInv(t, leaving), TInv(t)', Assignment
  PROVE  Safe(leaving)'
<1>1. Ready(Assigns) /\ Running /\ TInv(t)
  BY MInvFacts DEF Assignment, Ready
<1>2. Eassign \/ Eaddassign \/ ArithAssign
  BY <1>1, TargetFacts DEF Assignment
<1>3. CASE ArithAssign
  <2>1. CASE Undefined("trap")
    BY <1>1, <2>1, TrapSafe
  <2>2. CASE InPlace
    <3>1. N.type \in Assigns \ {"EASSIGN", "EADDASSIGN"} /\ N.type \in ExprTypes
      BY <1>3 DEF ArithAssign, Ready, ExprTypes
    <3>2. AssignTyped(prog, t, Top.mod, Top.node, Number)
      BY <1>1, <3>1, ExprTyped
    <3>3. OfKid(prog, t, Top.mod, Top.node, 1).type \in {"int", "real"}
      BY <3>2 DEF AssignTyped, SameOf, Number
    <3>4. Top.vals[1].type \in {"int", "real"}
      BY <1>1, <3>3, TargetFacts
    <3> QED  BY <1>1, <2>2, <3>4, NumberStored
  <2> QED  BY <1>3, <2>1, <2>2 DEF ArithAssign, MayTrap
<1> QED  BY <1>1, <1>2, <1>3, EassignSafe, EaddassignSafe

-----------------------------------------------------------------------------
(* Expressions with operands. *)

\* Values that stand at places can be read.
LEMMA StandLive ==
  ASSUME OneOwner, NEW vs, NEW P, StandAt(vs, P), NEW i \in DOMAIN vs, vs[i].type = "string"
  PROVE  vs[i].str \in live
<1>1. BlocksOf(vs) \subseteq live
  BY Freed DEF Releasable
<1> QED  BY <1>1 DEF BlocksOf, StrIdx

LEMMA FirstStands ==
  ASSUME NEW vs \in Seq(Value), Len(vs) > 0, NEW P, StandAt(vs, P),
         \A i \in 2..Len(vs) : vs[i].type # "string"
  PROVE  StandAt(<<vs[1]>>, P)
<1>1. PICK v : v = vs[1]
  OBVIOUS
<1>2. StrIdx(vs) = StrIdx(<<v>>)
  <2>1. \A i : i \in StrIdx(vs) <=> i = 1 /\ v.type = "string"
    <3>1. \A i \in DOMAIN vs : i = 1 \/ i \in 2..Len(vs)
      OBVIOUS
    <3>2. 1 \in DOMAIN vs
      OBVIOUS
    <3> QED  BY <1>1, <3>1, <3>2 DEF StrIdx
  <2>2. \A i : i \in StrIdx(<<v>>) <=> i = 1 /\ v.type = "string"
    BY DEF StrIdx
  <2> QED  BY <2>1, <2>2
<1>3. PICK s \in [StrIdx(vs) -> Strs] :
        /\ P = {s[i] : i \in StrIdx(vs)}
        /\ \A i \in StrIdx(vs) : Blk(s[i]) = vs[i].str
        /\ \A i, j \in StrIdx(vs) : s[i] = s[j] => i = j
  BY DEF StandAt
<1>4. \A i \in StrIdx(<<v>>) : i \in StrIdx(vs) /\ Blk(s[i]) = <<v>>[i].str
  <2>1. \A i \in StrIdx(<<v>>) : i = 1
    BY DEF StrIdx
  <2> QED  BY <1>1, <1>2, <1>3, <2>1
<1>5. /\ s \in [StrIdx(<<v>>) -> Strs] /\ P = {s[i] : i \in StrIdx(<<v>>)}
      /\ \A i, j \in StrIdx(<<v>>) : s[i] = s[j] => i = j
  BY <1>2, <1>3
<1>6. StandAt(<<v>>, P)
  BY <1>4, <1>5 DEF StandAt
<1> QED  BY <1>1, <1>6

\* The operands of an expression whose operands are evaluated.
LEMMA ReadyStand ==
  ASSUME NEW t, NEW leaving, MInv(t, leaving), NEW types, Ready(types),
         N.type \in OperandTypes, N.type \in ExprTypes \ {"ESYSTEM", "ECALL"}
  PROVE  /\ TInv(t) /\ IInv /\ Running /\ ret = NoRet /\ OneOwner /\ StandAt(Top.vals, TopStrs)
         /\ Top.vals \in Seq(Value) /\ Len(Top.vals) = Operands /\ Len(Top.vals) \in Nat
         /\ Len(Top.vals) = 1 => StandAt(<<Top.vals[1]>>, TopStrs)
         /\ FirstOf(N.type) = 1 =>
              \A j \in 1..Len(Top.vals) :
                Top.vals[j].type = OfKid(prog, t, Top.mod, Top.node, j).type
<1>1. Running /\ ret = NoRet /\ Len(Top.vals) = Operands
  BY DEF Ready
<1>2. TInv(t) /\ IInv /\ OneOwner
  BY <1>1, MInvFacts
<1>3. /\ ~InCallee(Top) /\ StandAt(Top.vals, TopStrs) /\ Top.vals \in Seq(Value)
      /\ Len(Top.vals) = 1 => StandAt(<<Top.vals[1]>>, TopStrs)
  BY <1>1, <1>2, OperandsStand
<1>4. ASSUME FirstOf(N.type) = 1, NEW j \in 1..Len(Top.vals)
      PROVE  Top.vals[j].type = OfKid(prog, t, Top.mod, Top.node, j).type
  <2>1. Top.vals[j].type = t[Top.mod][N.kids[FirstOf(N.type) + j - 1]].type
    BY <1>1, <1>2, <1>3, <1>4, HeldTop
  <2>2. N = prog[Top.mod][Top.node]
    BY <1>1, <1>2, TopTyped
  <2>3. FirstOf(N.type) + j - 1 = j
    BY <1>3, <1>4
  <2> QED  BY <2>1, <2>2, <2>3 DEF OfKid
<1> QED  BY <1>1, <1>2, <1>3, <1>4

LEMMA EaccessSafe ==
  ASSUME NEW t, NEW leaving, MInv(t, leaving), TInv(t)', Eaccess
  PROVE  Safe(leaving)'
<1>1. /\ Ready({"EACCESS"}) /\ N.type = "EACCESS" /\ N.type \in OperandTypes
      /\ N.type \in ExprTypes \ {"ESYSTEM", "ECALL"} /\ FirstOf(N.type) = 1
  BY DEF Eaccess, Ready, ExprTypes, OperandTypes, FirstOf, Assigns
<1>2. /\ TInv(t) /\ IInv /\ Running /\ ret = NoRet /\ OneOwner /\ StandAt(Top.vals, TopStrs)
      /\ Top.vals \in Seq(Value) /\ Len(Top.vals) = Operands /\ Operands \in {2, 3}
      /\ \A j \in 1..Len(Top.vals) : Top.vals[j].type = OfKid(prog, t, Top.mod, Top.node, j).type
  <2>1. /\ TInv(t) /\ IInv /\ Running /\ ret = NoRet /\ OneOwner /\ StandAt(Top.vals, TopStrs)
        /\ Top.vals \in Seq(Value) /\ Len(Top.vals) = Operands
        /\ \A j \in 1..Len(Top.vals) : Top.vals[j].type = OfKid(prog, t, Top.mod, Top.node, j).type
    BY <1>1, ReadyStand
  <2> QED  BY <1>1, <2>1, OperandFacts
<1>3. N = prog[Top.mod][Top.node] /\ AccessTyped(prog, t, Top.mod, Top.node)
  BY <1>1, <1>2, ExprTyped
<1>4. Operands = Arity /\ Arity = Len(prog[Top.mod][Top.node].kids)
  <2>1. Arity \in {2, 3} /\ FirstOperand = 1 /\ LastOperand = Arity
    BY <1>1, <1>2, KidCounts DEF FirstOperand, LastOperand, Assigns, Binaries, Arithmetics, Comparisons, Logicals
  <2> QED  BY <1>3, <2>1 DEF Operands, Arity
<1>5. Top.vals[1].type = "string" /\ \A i \in 2..Len(Top.vals) : Top.vals[i].type # "string"
  <2>1. 1 \in 1..Len(Top.vals)
    BY <1>2
  <2>2. \A i \in 2..Len(Top.vals) : i \in 1..Len(Top.vals) /\ i \in 2..Len(prog[Top.mod][Top.node].kids)
    BY <1>2, <1>4
  <2> QED  BY <1>2, <1>3, <2>1, <2>2 DEF AccessTyped
<1>6. StandAt(<<Top.vals[1]>>, TopStrs)
  BY <1>2, <1>5, FirstStands
<1>7. Readable(<<Top.vals[1]>>)
  <2>1. PICK v : v = Top.vals[1]
    OBVIOUS
  <2>2. 1 \in DOMAIN <<v>> /\ \A i \in DOMAIN <<v>> : <<v>>[i] = v
    OBVIOUS
  <2>3. v.str \in live
    BY <1>2, <1>5, <1>6, <2>1, <2>2, StandLive
  <2> QED  BY <1>5, <2>1, <2>2, <2>3 DEF Readable
<1>8. Yield(NewVal("string"), <<Top.vals[1]>>)
  BY <1>7 DEF Eaccess
<1> QED  BY <1>1, <1>2, <1>6, <1>8, MadeStrs, YieldSafe

LEMMA EcastSafe ==
  ASSUME NEW t, NEW leaving, MInv(t, leaving), TInv(t)', Ecast
  PROVE  Safe(leaving)'
<1>1. /\ Ready({"ECAST"}) /\ N.type = "ECAST" /\ N.type \in OperandTypes
      /\ N.type \in ExprTypes \ {"ESYSTEM", "ECALL"}
  BY DEF Ecast, Ready, ExprTypes, OperandTypes
<1>2. PICK v : v = Top.vals[1]
  OBVIOUS
<1>3. IInv /\ Running /\ ret = NoRet /\ OneOwner /\ StandAt(<<v>>, TopStrs)
  <2>1. IInv /\ Running /\ ret = NoRet /\ OneOwner /\ Len(Top.vals) = Operands
    BY <1>1, ReadyStand
  <2>2. Operands = 1
    BY <1>1, <2>1, OperandFacts
  <2> QED  BY <1>1, <1>2, <2>1, <2>2, ReadyStand
<1>4. v.type = "string" => v.str \in live
  <2>1. 1 \in DOMAIN <<v>> /\ <<v>>[1] = v
    OBVIOUS
  <2> QED  BY <1>3, <2>1, StandLive
<1>5. CASE Yield(NewVal(CastType(v.type, Prim(Top.mod, Kid(2)))), <<v>>)
  BY <1>1, <1>3, <1>5, MadeStrs, YieldSafe
<1>6. CASE Undefined("overflow")
  BY <1>3, <1>6, TrapSafe
<1> QED  BY <1>2, <1>4, <1>5, <1>6 DEF Ecast

\* The two operands of an operator are both strings or neither is.
LEMMA BinaryStand ==
  ASSUME NEW t, NEW leaving, MInv(t, leaving), NEW types, Ready(types), N.type \in Binaries
  PROVE  /\ N.type \in ExprTypes /\ Running /\ ret = NoRet /\ StandAt(Top.vals, TopStrs)
         /\ Top.vals[1].type \in {"int", "real", "string", "bool"}
         /\ N.type \in Arithmetics \union Logicals => Top.vals[1].type # "string"
         /\ Top.vals[1].type # "string" => StandAt(<<>>, TopStrs)
         /\ N.type \notin Logicals /\ Top.vals[1].type \notin {"int", "real"} => Readable(Top.vals)
<1>1. N.type \in OperandTypes /\ N.type \in ExprTypes \ {"ESYSTEM", "ECALL"} /\ FirstOf(N.type) = 1
  BY DEF ExprTypes, OperandTypes, FirstOf, Assigns, Binaries, Arithmetics, Comparisons, Logicals
<1>2. /\ TInv(t) /\ IInv /\ Running /\ ret = NoRet /\ OneOwner /\ StandAt(Top.vals, TopStrs)
      /\ Top.vals \in Seq(Value) /\ Len(Top.vals) = Operands
      /\ \A j \in 1..Len(Top.vals) : Top.vals[j].type = OfKid(prog, t, Top.mod, Top.node, j).type
  BY <1>1, ReadyStand
<1>3. Len(Top.vals) = 2
  BY <1>1, <1>2, OperandFacts
<1>4. /\ Top.vals[1].type = OfKid(prog, t, Top.mod, Top.node, 1).type
      /\ Top.vals[2].type = OfKid(prog, t, Top.mod, Top.node, 2).type
  <2>1. 1 \in 1..2 /\ 2 \in 1..2
    OBVIOUS
  <2> QED  BY <1>2, <1>3, <2>1
<1>5. /\ N.type \in Arithmetics => SameOf(prog, t, Top.mod, Top.node, Number)
      /\ N.type \in Comparisons \union {"EADD"} =>
           SameOf(prog, t, Top.mod, Top.node, Number \union {"string"})
      /\ N.type \in Logicals => SameOf(prog, t, Top.mod, Top.node, {"bool"})
  BY <1>1, <1>2, ExprTyped
<1>6. /\ Top.vals[1].type = Top.vals[2].type
      /\ Top.vals[1].type \in {"int", "real", "string", "bool"}
      /\ N.type \in Arithmetics \union Logicals => Top.vals[1].type # "string"
      /\ N.type \notin Logicals => Top.vals[1].type \in {"int", "real", "string"}
  <2>1. CASE N.type \in Arithmetics
    <3>1. SameOf(prog, t, Top.mod, Top.node, Number)
      BY <1>5, <2>1
    <3> QED  BY <1>4, <2>1, <3>1 DEF SameOf, Number
  <2>2. CASE N.type \in Comparisons \union {"EADD"}
    <3>1. SameOf(prog, t, Top.mod, Top.node, Number \union {"string"})
      BY <1>5, <2>2
    <3>2. N.type \notin Arithmetics \union Logicals
      BY <2>2 DEF Arithmetics, Comparisons, Logicals
    <3> QED  BY <1>4, <3>1, <3>2 DEF SameOf, Number
  <2>3. CASE N.type \in Logicals
    <3>1. SameOf(prog, t, Top.mod, Top.node, {"bool"})
      BY <1>5, <2>3
    <3> QED  BY <1>4, <2>3, <3>1 DEF SameOf
  <2> QED  BY <2>1, <2>2, <2>3 DEF Binaries
<1>7. \A i \in DOMAIN Top.vals : Top.vals[i].type = Top.vals[1].type
  <2>1. \A i \in DOMAIN Top.vals : i = 1 \/ i = 2
    BY <1>2, <1>3
  <2> QED  BY <1>6, <2>1
<1>8. ASSUME Top.vals[1].type # "string" PROVE StandAt(<<>>, TopStrs)
  <2>1. TopStrs = {}
    BY <1>2, <1>7, <1>8, TopNone
  <2>2. StandAt(<<>>, {})
    BY StandNowhere
  <2> QED  BY <2>1, <2>2
<1>9. ASSUME Top.vals[1].type = "string" PROVE Readable(Top.vals)
  <2>1. \A i \in DOMAIN Top.vals : Top.vals[i].str \in live
    BY <1>2, <1>7, <1>9, StandLive
  <2> QED  BY <1>7, <1>9, <2>1 DEF Readable
<1> QED  BY <1>1, <1>2, <1>6, <1>8, <1>9

LEMMA BinarySafe ==
  ASSUME NEW t, NEW leaving, MInv(t, leaving), TInv(t)', Arithmetic \/ Eadd \/ Comparison \/ Logical
  PROVE  Safe(leaving)'
<1>1. Ready(Binaries) /\ N.type \in Binaries
  BY DEF Arithmetic, Eadd, Comparison, Logical, Ready, Binaries
<1>2. /\ N.type \in ExprTypes /\ Running /\ ret = NoRet /\ StandAt(Top.vals, TopStrs)
      /\ Top.vals[1].type \in {"int", "real", "string", "bool"}
      /\ N.type \in Arithmetics \union Logicals => Top.vals[1].type # "string"
      /\ Top.vals[1].type # "string" => StandAt(<<>>, TopStrs)
      /\ N.type \notin Logicals /\ Top.vals[1].type \notin {"int", "real"} => Readable(Top.vals)
  BY <1>1, BinaryStand
<1>3. \A type : Val(type).type = type
  BY DEF Val
<1>4. CASE Arithmetic
  <2>1. N.type \in Arithmetics
    BY <1>4 DEF Arithmetic, Ready
  <2>2. CASE Undefined("trap")
    BY <1>2, <2>2, TrapSafe
  <2>3. CASE \E type \in {"int", "real"} : Yield(Val(type), <<>>)
    BY <1>2, <1>3, <2>1, <2>3, YieldSafe
  <2> QED  BY <1>4, <2>2, <2>3 DEF Arithmetic, MayTrap
<1>5. CASE Eadd
  <2>1. N.type \notin Logicals
    BY <1>5 DEF Eadd, Ready, Logicals
  <2>2. CASE Top.vals[1].type \in {"int", "real"}
    <3>1. PICK made : made \in {Val("int"), RealSum} /\ Yield(made, <<>>)
      BY <1>5, <2>2 DEF Eadd
    <3>2. made.type # "string"
      BY <1>3, <3>1 DEF RealSum
    <3> QED  BY <1>2, <2>2, <3>1, <3>2, YieldSafe
  <2>3. CASE Top.vals[1].type \notin {"int", "real"}
    <3>1. Yield(NewVal("string"), Top.vals)
      BY <1>2, <1>5, <2>1, <2>3 DEF Eadd
    <3> QED  BY <1>2, <3>1, MadeStrs, YieldSafe
  <2> QED  BY <2>2, <2>3
<1>6. CASE Comparison
  <2>1. N.type \notin Logicals
    BY <1>6 DEF Comparison, Ready, Comparisons, Logicals
  <2>2. CASE Top.vals[1].type \in {"int", "real"}
    <3>1. Yield(Val("bool"), <<>>)
      BY <1>6, <2>2 DEF Comparison
    <3> QED  BY <1>2, <1>3, <2>2, <3>1, YieldSafe
  <2>3. CASE Top.vals[1].type \notin {"int", "real"}
    <3>1. Yield(Val("bool"), Top.vals)
      BY <1>2, <1>6, <2>1, <2>3 DEF Comparison
    <3> QED  BY <1>2, <1>3, <3>1, YieldSafe
  <2> QED  BY <2>2, <2>3
<1>7. CASE Logical
  <2>1. N.type \in Logicals /\ Yield(Val("bool"), <<>>)
    BY <1>7 DEF Logical, Ready
  <2> QED  BY <1>2, <1>3, <2>1, YieldSafe
<1> QED  BY <1>4, <1>5, <1>6, <1>7

\* The value of the branch that was taken is handed on.
LEMMA EternarySafe ==
  ASSUME NEW t, NEW leaving, MInv(t, leaving), TInv(t)', Eternary
  PROVE  Safe(leaving)'
<1>1. /\ Running /\ N.type = "ETERNARY" /\ N.type \in ExprTypes /\ Intact /\ NoHeap
      /\ N.type \notin OperandTypes /\ N.type # "FOR"
  BY DEF Eternary, Starting, Resuming, ExprTypes, OperandTypes, Binaries, Arithmetics, Comparisons,
         Logicals, Assigns
<1>2. TInv(t) /\ IInv /\ Arity = 3
  BY <1>1, MInvFacts, KidCounts
<1>3. ~InCallee(Top) /\ TopStrs = {}
  BY <1>1, <1>2, CarrierNone
<1>4. \A k \in {1, 2, 3} : k \in 1..Arity
  BY <1>2
<1>5. CASE Starting({"ETERNARY"}) /\ Call(fns, 1)
  <2>1. ret.val.type # "string"
    BY <1>5, NothingGiven DEF Starting
  <2> QED  BY <1>1, <1>3, <1>4, <1>5, <2>1, FirstSafe
<1>6. CASE Resuming({"ETERNARY"}) /\ Top.at = 1 /\ \E k \in {2, 3} : Call(fns, k)
  <2>1. PICK k \in {2, 3} : Call(fns, k)
    BY <1>6
  <2>2. ret.val.type # "string"
    BY <1>1, <1>2, <1>6, ConditionGiven DEF Resuming
  <2>3. k \in 1..Arity
    BY <1>4
  <2> QED  BY <1>1, <1>3, <2>1, <2>2, <2>3, FirstSafe
<1>7. CASE Leave("none", ret.val) /\ UNCHANGED fns
  <2>1. StandAt(<<ret.val>>, TopStrs \union RetStrs)
    BY <1>2, <1>3, RetStands
  <2> QED  BY <1>1, <1>7, <2>1, HandedSafe
<1> QED  BY <1>5, <1>6, <1>7 DEF Eternary

-----------------------------------------------------------------------------
(* Calls. *)

\* The environments when a function is called: its table has the arguments.
LEMMA CalleeTable ==
  ASSUME NEW t, TInv(t), Ready({"ECALL"}), NEW e \in Nat, e = Len(fns),
         NEW env, env = Append(fns, CalleeEnv)
  PROVE  /\ DOMAIN fns = 1..e /\ env \in Seq(EnvRecord) /\ env # <<>> /\ DOMAIN env = 1..(e + 1)
         /\ \A d \in 1..e : env[d] = fns[d]
         /\ env[e + 1].syms = Params /\ DOMAIN Params = DOMAIN Top.vals
         /\ \A i \in DOMAIN Top.vals : Params[i].val = Top.vals[i]
         /\ Callee(Top).node \in Nat
<1>1. /\ Running /\ ret = NoRet /\ N.type = "ECALL" /\ IInv /\ prog \in Programs
      /\ fns \in Seq(EnvRecord)
  BY TInvFacts, Shapes DEF Ready, IInv, TypeOK
<1>2. PICK a : a = Callee(Top).mod
  OBVIOUS
<1>3. PICK b : b = Callee(Top).node
  OBVIOUS
<1>4. a \in DOMAIN prog /\ b \in DOMAIN prog[a] /\ ParamNodes(Top) \in Seq(Nat)
  BY <1>1, <1>2, <1>3, CalleeFound
<1>5. a \in Nat /\ b \in Nat
  BY <1>1, <1>4, NodeFacts
<1>8. DOMAIN Params = DOMAIN Top.vals /\ \A i \in DOMAIN Top.vals : Params[i].val = Top.vals[i]
  BY DEF Params, Symbol
<1>9. CalleeEnv \in EnvRecord /\ CalleeEnv.syms = Params
  <2>1. Params \in Seq(SymRecord)
    BY <1>1, CalleeFound, ParamsFacts
  <2> QED  BY <1>2, <1>5, <2>1 DEF CalleeEnv, EnvRecord
<1>10. PICK c \in EnvRecord : c = CalleeEnv
  BY <1>9
<1>11. /\ env \in Seq(EnvRecord) /\ env # <<>> /\ DOMAIN env = 1..(e + 1) /\ DOMAIN fns = 1..e
       /\ \A d \in 1..e : env[d] = fns[d]
       /\ env[e + 1] = c
  BY <1>1, <1>10, AppendProperties
<1> QED  BY <1>3, <1>5, <1>8, <1>9, <1>10, <1>11

\* The strings of the arguments go from the handler to the table.
LEMMA InvokedStrs ==
  ASSUME NEW t, NEW e \in Nat, NEW vs, e = Len(fns), vs = Top.vals,
         TInv(t), Ready({"ECALL"}), fns' = Append(fns, CalleeEnv)
  PROVE  \E A : /\ LocalsMoved({}, A)
                /\ \A p \in A : \E i \in StrIdx(vs) : p = <<"local", e + 1, i>>
                /\ \A i \in StrIdx(vs) : /\ <<"local", e + 1, i>> \in A
                                         /\ Blk(<<"local", e + 1, i>>)' = vs[i].str
<1>2. /\ DOMAIN fns = 1..e /\ DOMAIN fns' = 1..(e + 1)
      /\ \A d \in 1..e : fns'[d] = fns[d]
      /\ DOMAIN fns'[e + 1].syms = DOMAIN vs
      /\ \A i \in DOMAIN vs : fns'[e + 1].syms[i].val = vs[i]
  BY CalleeTable
<1>3. PICK A : A = {<<"local", e + 1, i>> : i \in StrIdx(vs)}
  OBVIOUS
<1>4. \A i \in StrIdx(vs) : /\ <<"local", e + 1, i>> \in LocalStrs'
                            /\ Blk(<<"local", e + 1, i>>)' = vs[i].str
  <2> TAKE i \in StrIdx(vs)
  <2>1. i \in DOMAIN vs /\ vs[i].type = "string" /\ e + 1 \in 1..(e + 1)
    BY DEF StrIdx
  <2>2. e + 1 \in DOMAIN fns' /\ i \in DOMAIN fns'[e + 1].syms /\ fns'[e + 1].syms[i].val = vs[i]
    BY <1>2, <2>1
  <2> QED  BY <2>1, <2>2, LocalPlace DEF LocalPlaced
<1>5. A \subseteq LocalStrs'
  BY <1>3, <1>4
<1>6. ASSUME NEW d \in DOMAIN fns', NEW j \in DOMAIN fns'[d].syms
      PROVE  \/ <<"local", d, j>> \in A \/ fns'[d].syms[j].val.type # "string"
             \/ /\ d \in DOMAIN fns /\ j \in DOMAIN fns[d].syms
                /\ fns'[d].syms[j].val = fns[d].syms[j].val /\ <<"local", d, j>> \notin {}
  <2>1. CASE d \in 1..e
    BY <1>2, <1>6, <2>1
  <2>2. CASE d = e + 1
    BY <1>2, <1>3, <1>6, <2>2 DEF StrIdx
  <2>3. d \in 1..e \/ d = e + 1
    BY <1>2, <1>6
  <2> QED  BY <2>1, <2>2, <2>3
<1>7. ASSUME NEW d \in DOMAIN fns, NEW j \in DOMAIN fns[d].syms
      PROVE  d \in DOMAIN fns' /\ j \in DOMAIN fns'[d].syms /\ fns'[d].syms[j].val = fns[d].syms[j].val
  BY <1>2, <1>7
<1>8. LocalsMoved({}, A)
  BY <1>5, <1>6, <1>7, TableMoves
<1>9. /\ \A p \in A : \E i \in StrIdx(vs) : p = <<"local", e + 1, i>>
      /\ \A i \in StrIdx(vs) : <<"local", e + 1, i>> \in A
  BY <1>3
<1> QED  BY <1>4, <1>8, <1>9

LEMMA InvokeSafe ==
  ASSUME NEW t, NEW leaving, MInv(t, leaving), TInv(t)', Ready({"ECALL"}), NoHeap, Intact,
         CallNode(Append(fns, CalleeEnv), Arity + 1, Callee(Top).node, <<>>)
  PROVE  Safe(leaving)'
<1>1. Running /\ ret = NoRet /\ N.type = "ECALL" /\ N.type \in OperandTypes
  BY DEF Ready, OperandTypes
<1>2. /\ IInv /\ TInv(t) /\ OneOwner /\ FramesTidy(leaving) /\ NoFault /\ UNCHANGED <<prog, globals>>
  BY <1>1, MInvFacts DEF Intact
<1>3. ~InCallee(Top) /\ RetStrs = {} /\ StandAt(Top.vals, TopStrs)
  BY <1>1, <1>2, OperandsStand
<1>v. PICK vs : vs = Top.vals
  OBVIOUS
<1>4. PICK e \in Nat : e = Len(fns)
  BY <1>1, <1>2, EnvShape
<1>5. PICK env : env = Append(fns, CalleeEnv)
  OBVIOUS
<1>6. PICK node \in Nat : node = Callee(Top).node
  BY <1>2, <1>4, <1>5, CalleeTable
<1>7. CallNode(env, Arity + 1, node, <<>>) /\ Frame(env, node) \in FrameRecord
  BY <1>2, <1>4, <1>5, <1>6, CalleeTable, FrameType
<1>8. fns' = Append(fns, CalleeEnv) /\ RetStrs' = {} /\ ret' = NoRet
  BY DEF CallNode, RetStrs, NoRet, Ret, Null, Val
<1>9. PICK A : /\ LocalsMoved({}, A)
               /\ \A p \in A : \E i \in StrIdx(vs) : p = <<"local", e + 1, i>>
               /\ \A i \in StrIdx(vs) : /\ <<"local", e + 1, i>> \in A
                                        /\ Blk(<<"local", e + 1, i>>)' = vs[i].str
  BY <1>2, <1>4, <1>v, <1>8, InvokedStrs
<1>10. PICK D : D = TopStrs
  OBVIOUS
<1>11. PICK E : E = {}
  OBVIOUS
<1>12. Releasable(vs) /\ BlocksOf(vs) = BlksOf(D)
  BY <1>2, <1>3, <1>10, <1>v, Freed
<1>13. \A p \in A : \E i \in StrIdx(vs) : p = <<"local", e + 1, i>> /\ Blk(p)' = vs[i].str
  BY <1>9
<1>14. \A p \in A : Blk(p)' \in BlksOf(D)
  BY <1>12, <1>13 DEF BlocksOf
<1>15. \A p, q \in A : Blk(p)' = Blk(q)' => p = q
  <2> SUFFICES ASSUME NEW p \in A, NEW q \in A, Blk(p)' = Blk(q)' PROVE p = q
    OBVIOUS
  <2>1. PICK i \in StrIdx(vs) : p = <<"local", e + 1, i>> /\ Blk(p)' = vs[i].str
    BY <1>13
  <2>2. PICK j \in StrIdx(vs) : q = <<"local", e + 1, j>> /\ Blk(q)' = vs[j].str
    BY <1>13
  <2>3. i = j
    BY <1>12, <2>1, <2>2 DEF Releasable
  <2> QED  BY <2>1, <2>2, <2>3
<1>16. BlksOf(A)' = BlksOf(D)
  <2>1. \A b : b \in BlksOf(A)' <=> \E p \in A : b = Blk(p)'
    BY DEF BlksOf
  <2>2. \A b : b \in BlocksOf(vs) <=> \E i \in StrIdx(vs) : b = vs[i].str
    BY DEF BlocksOf
  <2>3. \A b : b \in BlksOf(A)' => b \in BlksOf(D)
    BY <1>14, <2>1
  <2>4. \A b : b \in BlocksOf(vs) => b \in BlksOf(A)'
    BY <1>9, <2>1, <2>2
  <2> QED  BY <1>12, <2>3, <2>4
<1>17. live' = (live \ BlksOf(D)) \union BlksOf(A)'
  <2>1. live' = live /\ BlksOf(D) \subseteq live
    BY <1>12 DEF NoHeap, Releasable
  <2> QED  BY <1>16, <2>1
<1>18. LocalsMoved(E, A) /\ GlobalsMoved(E, E) /\ FramesMoved(D, E)
  BY <1>1, <1>2, <1>7, <1>9, <1>10, <1>11, SameGlobalStrs, InvokedFrames, FramesKeptMoved
<1>19. Going(D, E, E, D) /\ Coming(A, A, E, E)
  BY <1>3, <1>8, <1>11 DEF Going, Coming
<1>20. OneOwner'
  BY <1>2, <1>14, <1>15, <1>17, <1>18, <1>19, Exchanged, Zenon
<1>21. FramesTidy(leaving)'
  <2>1. PICK k \in Nat : k = Arity + 1
    BY <1>1, <1>2, TopFacts
  <2>2. PICK vals : vals = <<>>
    OBVIOUS
  <2>v. vals \in Seq(Value)
    BY <2>2
  <2>3. CallNode(env, k, node, vals)
    BY <1>7, <2>1, <2>2
  <2>4. IInv'
    BY DEF TInv, CInv
  <2>5. /\ N.type = "FOR" /\ k = 3 =>
             Len(vals) = 1 /\ (vals[1].type = "string" => Kid(4) \in leaving[Top.mod])
        /\ N.type = "ESYSTEM" => Len(vals) < Arity
    BY <1>1
  <2> QED  BY <1>1, <1>2, <1>7, <2>v, <2>3, <2>4, <2>5, CalledTidy, Zenon
<1>22. StringLeft(leaving)'
  BY <1>8 DEF StringLeft
<1>23. NoFault'
  BY <1>2 DEF NoHeap, NoFault
<1> QED  BY <1>20, <1>21, <1>22, <1>23 DEF Safe

\* A call that is over releases its table, and hands on what the function gave back.
LEMMA CallOverSafe ==
  ASSUME NEW t, NEW leaving, MInv(t, leaving), TInv(t)', Running, N.type = "ECALL", InCallee(Top), Intact,
         Heap(Null, ValsAfter(Env.syms, 0)), fns' = SubSeq(fns, 1, Len(fns) - 1), Leave("none", ret.val)
  PROVE  Safe(leaving)'
<1>1. /\ IInv /\ TInv(t) /\ OneOwner /\ UNCHANGED <<prog, globals>> /\ N.type \in ExprTypes
  BY MInvFacts DEF Intact, ExprTypes
<1>2. TopStrs = {}
  BY <1>1, TopNone
<1>3. PICK val : val = ret.val
  OBVIOUS
<1>4. PICK P : P = StrsAfter(0)
  OBVIOUS
<1>5. PICK H : H = RetStrs
  OBVIOUS
<1>6. PICK D : D = P \union H
  OBVIOUS
<1>7. LocalsKept(P) /\ StandAt(ValsAfter(Env.syms, 0), P)
  BY <1>1, <1>4, PoppedLocalStrs
<1>8. StandAt(<<val>>, H)
  BY <1>1, <1>3, <1>5, RetStands
<1>9. P \cap H = {}
  BY <1>4, <1>5, StrParts DEF StrsApart, StrsAfter
<1>10. HeapMoved(D, val) /\ UNCHANGED fault
  BY <1>1, <1>6, <1>7, <1>8, <1>9, HeapHands
<1>11. D = P \union TopStrs \union RetStrs /\ Leave("none", val)
  BY <1>2, <1>3, <1>5, <1>6
<1> QED  BY <1>1, <1>7, <1>10, <1>11, LeftSafe

\* A call always finds its function, and a parameter for each of its arguments.
LEMMA CallFound ==
  ASSUME NEW t, TInv(t), Running, ret = NoRet, N.type = "ECALL"
  PROVE  CalleeOk(Top) /\ (Len(Top.vals) < Operands => NextParamOk(Top))
<1>1. CalleeOk(Top) /\ Arity = Len(ParamNodes(Top)) + 1 /\ ParamNodes(Top) \in Seq(Nat)
  BY CalleeFound
<1>2. Operands = Arity - 1 /\ Arity \in Nat
  BY OperandFacts, TopFacts, TInvFacts DEF OperandTypes
<1>3. Len(ParamNodes(Top)) \in Nat /\ Operands = Len(ParamNodes(Top))
  BY <1>1, <1>2
<1> QED  BY <1>1, <1>3 DEF NextParamOk

LEMMA EcallSafe ==
  ASSUME NEW t, NEW leaving, MInv(t, leaving), TInv(t)', Ecall
  PROVE  Safe(leaving)'
<1>1. CASE /\ Ready({"ECALL"}) /\ NoHeap /\ Intact
           /\ CallNode(Append(fns, CalleeEnv), Arity + 1, Callee(Top).node, <<>>)
  BY <1>1, InvokeSafe
<1>2. CASE /\ Resuming({"ECALL"}) /\ Top.at > Arity
           /\ Heap(Null, ValsAfter(Env.syms, 0)) /\ fns' = SubSeq(fns, 1, Len(fns) - 1)
           /\ Leave("none", ret.val) /\ Intact
  <2>1. Running /\ N.type = "ECALL" /\ cstk # <<>>
    BY <1>2 DEF Resuming, Running
  <2>2. N = Node(Top.mod, Top.node)
    BY <2>1, MInvFacts, TopFacts
  <2>3. InCallee(Top)
    BY <1>2, <2>1, <2>2 DEF InCallee, Arity
  <2> QED  BY <1>2, <2>1, <2>3, CallOverSafe
<1>3. CASE /\ Running /\ ret = NoRet /\ N.type = "ECALL"
           /\ ~CalleeOk(Top) \/ (Len(Top.vals) < Operands /\ ~NextParamOk(Top))
  <2>1. TInv(t)
    BY <1>3, MInvFacts
  <2> QED  BY <1>3, <2>1, CallFound
<1> QED  BY <1>1, <1>2, <1>3 DEF Ecall

-----------------------------------------------------------------------------
(* Before and after the program runs. *)

\* Globals that hold no string are declared, or take one: those of A come.
LEMMA GlobalMoves ==
  ASSUME NEW A, A \subseteq GlobalStrs',
         \A j \in DOMAIN globals' :
           \/ <<"global", 1, j>> \in A \/ globals'[j].val.type # "string"
           \/ j \in DOMAIN globals /\ globals'[j].val = globals[j].val,
         \A j \in DOMAIN globals :
           \/ globals[j].val.type # "string"
           \/ j \in DOMAIN globals' /\ globals'[j].val = globals[j].val
  PROVE  GlobalsMoved({}, A)
<1>1. \A p \in GlobalStrs' : p \in A \/ p \in GlobalStrs
  <2> TAKE p \in GlobalStrs'
  <2>1. PICK j \in DOMAIN globals' : p = <<"global", 1, j>> /\ globals'[j].val.type = "string"
    BY GlobalPlace DEF GlobalPlaced
  <2> QED  BY <2>1, GlobalPlace DEF GlobalPlaced
<1>2. \A p \in GlobalStrs : p \in GlobalStrs' /\ Blk(p)' = Blk(p)
  <2> TAKE p \in GlobalStrs
  <2>1. PICK j \in DOMAIN globals : p = <<"global", 1, j>> /\ globals[j].val.type = "string"
    BY GlobalPlace DEF GlobalPlaced
  <2>2. j \in DOMAIN globals' /\ globals'[j].val = globals[j].val
    BY <2>1
  <2> QED  BY <2>1, <2>2, GlobalPlace DEF GlobalPlaced
<1> QED  BY <1>1, <1>2 DEF GlobalsMoved

\* A step before the program runs is as good as what it does to the globals.
LEMMA BeforeOwned ==
  ASSUME NEW A, NEW val, OneOwner, ret = NoRet, UNCHANGED <<prog, fns, cstk, ret>>,
         GlobalsMoved({}, A), HeapMoved({}, val),
         \A p, q \in A : p = q,
         \A p \in A : Blk(p)' = val.str /\ val.type = "string",
         val.type = "string" => A # {}
  PROVE  OneOwner'
<1>1. PICK E : E = {}
  OBVIOUS
<1>2. RetStrs = {} /\ RetStrs' = {}
  BY DEF RetStrs, NoRet, Ret, Null, Val
<1>3. LocalsMoved(E, E) /\ GlobalsMoved(E, A) /\ FramesMoved(E, E)
  BY <1>1, SameLocalStrs, SameFrameStrs, LocalsKeptMoved, FramesKeptMoved
<1>4. Going(E, E, E, E) /\ Coming(A, E, A, E)
  BY <1>1, <1>2 DEF Going, Coming
<1>5. HeapMoved(E, val)
  BY <1>1
<1> QED  BY <1>3, <1>4, <1>5, OneComes, Zenon

\* The entries of the table are declarations, each of a name of its own.
LEMMA DeclaredOnce ==
  ASSUME NEW t, TInv(t), phase = "symtab", Declares(prog, walk.mod, walk.node)
  PROVE  /\ FindSym(globals, Node(walk.mod, walk.node).sym) = 0
         /\ Node(walk.mod, walk.node).type = "GLOBALDECL" =>
              Prim(walk.mod, Node(walk.mod, walk.node).kids[1]) # "void"
<1>1. PICK m, n : m = walk.mod /\ n = walk.node
  OBVIOUS
<1>2. /\ m \in Nat /\ n \in Nat /\ m \in DOMAIN prog /\ n \in DOMAIN prog[m]
      /\ Len(globals) \in Nat /\ DOMAIN globals = 1..Len(globals)
      /\ GlobalsFound /\ GlobalsTyped(prog)
  BY <1>1, OutsideFacts, TInvFacts DEF Declares, WellTyped
<1>3. PICK sym : sym = Node(m, n).sym
  OBVIOUS
<1>4. ASSUME NEW i \in DOMAIN globals, globals[i].sym = sym PROVE FALSE
  <2>1. GlobalOk(globals[i])
    BY <1>2 DEF GlobalsFound
  <2>2. PICK a, b : a = globals[i].mod /\ b = globals[i].node
    OBVIOUS
  <2>3. Declares(prog, a, b) /\ Node(a, b).sym = sym /\ Passed(a, b)
    BY <1>4, <2>1, <2>2 DEF GlobalOk
  <2>4. a \in DOMAIN prog /\ b \in DOMAIN prog[a] /\ prog[a][b].sym = prog[m][n].sym
    BY <1>3, <2>3 DEF Declares, Node
  <2>5. a = m /\ b = n
    BY <1>1, <1>2, <2>3, <2>4 DEF GlobalsTyped
  <2> QED  BY <1>1, <1>2, <2>3, <2>5 DEF Passed
<1>5. FindSym(globals, sym) = 0
  BY <1>2, <1>4, FindSymIndex
<1>6. Node(m, n).type = "GLOBALDECL" => Prim(m, Node(m, n).kids[1]) # "void"
  BY <1>2 DEF GlobalsTyped, DeclType, Prim, Node
<1> QED  BY <1>1, <1>3, <1>5, <1>6

LEMMA GlobalSymtabOwned ==
  ASSUME NEW t, NEW leaving, MInv(t, leaving), GlobalSymtab
  PROVE  OneOwner' /\ NoFault' /\ NoLocalsYet'
<1>1. PICK m, n, node : m = walk.mod /\ n = walk.node /\ node = Node(m, n)
  OBVIOUS
<1>2. PICK type : type = IF node.type = "FUNCDECL" THEN "func" ELSE Prim(m, node.kids[1])
  OBVIOUS
<1>3. PICK g : g = Symbol(node.sym, type, m, n, 0, Null)
  OBVIOUS
<1>4. phase = "symtab" /\ m <= Len(prog) /\ n <= Len(prog[m]) /\ fault = "none" /\ TInv(t)
  BY <1>1 DEF GlobalSymtab, Walking, MInv
<1>5. /\ cstk = <<>> /\ ret = NoRet /\ m \in DOMAIN prog /\ n \in DOMAIN prog[m]
      /\ Len(globals) \in Nat /\ DOMAIN globals = 1..Len(globals) /\ OneOwner /\ IInv
  BY <1>1, <1>4, OutsideFacts, TInvFacts DEF MInv
<1>6. CASE NextNode /\ UNCHANGED <<prog, phase, globals, fns, cstk, ret, live, fault>>
  BY <1>5, <1>6, SameOwner DEF MInv, NoFault, NoLocalsYet
<1>7. CASE /\ globals' = Append(globals, g) /\ NextNode
           /\ UNCHANGED <<prog, phase, fns, cstk, ret, live, fault>>
  <2>1. PICK L \in Nat : L = Len(globals)
    BY <1>5
  <2>2. /\ DOMAIN globals = 1..L /\ DOMAIN globals' = 1..(L + 1) /\ globals'[L + 1] = g
        /\ \A i \in 1..L : i \in 1..(L + 1) /\ globals'[i] = globals[i]
        /\ \A i \in 1..(L + 1) : i \in 1..L \/ i = L + 1
    BY <1>5, <1>7, <2>1
  <2>3. g.val = Null /\ Null.type # "string"
    BY <1>3 DEF Symbol, Null, Val
  <2>4. GlobalsMoved({}, {})
    <3>1. \A j \in DOMAIN globals' :
            \/ globals'[j].val.type # "string"
            \/ j \in DOMAIN globals /\ globals'[j].val = globals[j].val
      BY <2>2, <2>3
    <3>2. \A j \in DOMAIN globals : j \in DOMAIN globals' /\ globals'[j].val = globals[j].val
      BY <2>2
    <3> QED  BY <3>1, <3>2, GlobalMoves
  <2>5. HeapMoved({}, Null)
    BY <1>7, <2>3, HeapStays DEF NoHeap
  <2>6. OneOwner'
    BY <1>5, <1>7, <2>3, <2>4, <2>5, BeforeOwned
  <2> QED  BY <1>7, <2>6 DEF MInv, NoFault, NoLocalsYet
<1>8. CASE /\ node.type \in {"FUNCDECL", "GLOBALDECL"}
           /\ FindSym(globals, node.sym) # 0 \/ type = "void"
  <2>1. Declares(prog, m, n)
    BY <1>1, <1>5, <1>8 DEF Declares, Node
  <2>2. /\ FindSym(globals, node.sym) = 0
        /\ node.type = "GLOBALDECL" => Prim(m, node.kids[1]) # "void"
    BY <1>1, <1>4, <2>1, DeclaredOnce
  <2>3. type = "void"
    BY <1>8, <2>2
  <2>4. node.type # "FUNCDECL"
    BY <1>2, <2>3
  <2>5. node.type = "GLOBALDECL" /\ type = Prim(m, node.kids[1])
    BY <1>2, <1>8, <2>4
  <2> QED  BY <2>2, <2>3, <2>5
<1> QED  BY <1>1, <1>2, <1>3, <1>6, <1>7, <1>8 DEF GlobalSymtab

LEMMA NextModuleOwned ==
  ASSUME NEW t, NEW leaving, MInv(t, leaving), NextModule \/ GlobalsDone
  PROVE  OneOwner' /\ NoFault' /\ NoLocalsYet'
<1>1. /\ phase \in {"symtab", "globals"} /\ UNCHANGED <<prog, globals, fns, cstk, ret, live, fault>>
      /\ phase' \in {"symtab", "globals", "lookup"}
  BY DEF NextModule, GlobalsDone, Walking
<1>2. IInv /\ OneOwner /\ NoFault /\ fns = <<>>
  BY <1>1, TInvFacts DEF MInv, NoLocalsYet
<1>3. OneOwner'
  BY <1>1, <1>2, SameOwner
<1> QED  BY <1>1, <1>2, <1>3 DEF NoFault, NoLocalsYet

\* A global takes the first value of its type.
LEMMA InitGlobalOwned ==
  ASSUME NEW t, NEW leaving, MInv(t, leaving), InitGlobal
  PROVE  OneOwner' /\ NoFault' /\ NoLocalsYet'
<1>1. PICK n, v : n = walk.node /\ v = NewVal(globals[n].type)
  OBVIOUS
<1>2. /\ phase = "globals" /\ phase' = "globals" /\ n <= Len(globals)
      /\ UNCHANGED <<prog, fns, cstk, ret>> /\ phase # "run"
  BY <1>1 DEF InitGlobal, Walking
<1>3. TInv(t) /\ OneOwner /\ NoFault /\ fns = <<>>
  BY <1>2 DEF MInv, NoLocalsYet
<1>4. /\ GlobalValues /\ n \in 1..Len(globals) /\ ret = NoRet /\ IInv
      /\ globals \in Seq(SymRecord) /\ Len(globals) \in Nat /\ DOMAIN globals = 1..Len(globals)
      /\ live \subseteq Blocks /\ globals[n] \in SymRecord
  BY <1>1, <1>2, <1>3, OutsideFacts, TInvFacts, RetFacts
<1>5. CASE globals[n].type = "func" /\ UNCHANGED <<globals, live, fault>>
  <2>1. OneOwner'
    BY <1>2, <1>3, <1>4, <1>5, SameOwner
  <2> QED  BY <1>2, <1>3, <1>5, <2>1 DEF NoFault, NoLocalsYet
<1>6. CASE /\ globals[n].type # "func" /\ Heap(v, <<>>)
           /\ globals' = [globals EXCEPT ![n].val = v]
  <2>1. v.type = "string" => v.str = NewBlock
    BY <1>1 DEF NewVal, StrVal, Val
  <2>2. StandAt(<<>>, {})
    <3>1. PICK vs : vs = <<>>
      OBVIOUS
    <3>2. \A i \in DOMAIN vs : vs[i].type # "string"
      BY <3>1
    <3> QED  BY <3>1, <3>2, StandNowhere
  <2>3. HeapMoved({}, v) /\ UNCHANGED fault
    <3>1. PICK vs, P : vs = <<>> /\ P = {}
      OBVIOUS
    <3>2. StandAt(vs, P) /\ Heap(v, vs)
      BY <1>6, <2>2, <3>1
    <3> QED  BY <1>3, <1>4, <2>1, <3>1, <3>2, HeapMakes
  <2>4. globals[n].val.type = "null"
    <3>1. n \in DOMAIN globals /\ n >= walk.node
      BY <1>1, <1>2, <1>4, OutsideFacts, <1>3
    <3> QED  BY <1>2, <1>4, <1>6, <3>1 DEF GlobalValues
  <2>5. /\ DOMAIN globals' = DOMAIN globals /\ globals'[n].val = v
        /\ \A i \in DOMAIN globals : i # n => globals'[i] = globals[i]
    BY <1>4, <1>6 DEF SymRecord
  <2>6. PICK A : A = IF v.type = "string" THEN {<<"global", 1, n>>} ELSE {}
    OBVIOUS
  <2>7. /\ A \subseteq GlobalStrs' /\ \A p, q \in A : p = q
        /\ \A p \in A : Blk(p)' = v.str /\ v.type = "string"
        /\ v.type = "string" => A # {}
    <3>1. \A p \in A : p = <<"global", 1, n>> /\ v.type = "string"
      BY <2>6
    <3>2. n \in DOMAIN globals'
      BY <1>4, <2>5
    <3>3. Blk(<<"global", 1, n>>)' = v.str /\ (v.type = "string" => <<"global", 1, n>> \in GlobalStrs')
      BY <2>5, <3>2, GlobalPlace DEF GlobalPlaced
    <3>4. \A p \in A : p \in GlobalStrs' /\ Blk(p)' = v.str /\ v.type = "string"
      <4> TAKE p \in A
      <4>1. p = <<"global", 1, n>> /\ v.type = "string"
        BY <3>1
      <4> QED  BY <3>3, <4>1
    <3>5. v.type = "string" => A # {}
      BY <2>6
    <3> QED  BY <3>1, <3>4, <3>5
  <2>8. GlobalsMoved({}, A)
    <3>1. \A j \in DOMAIN globals' :
            \/ <<"global", 1, j>> \in A \/ globals'[j].val.type # "string"
            \/ j \in DOMAIN globals /\ globals'[j].val = globals[j].val
      <4> TAKE j \in DOMAIN globals'
      <4>1. CASE j = n
        BY <2>5, <2>6, <4>1
      <4>2. CASE j # n
        BY <2>5, <4>2
      <4> QED  BY <4>1, <4>2
    <3>2. \A j \in DOMAIN globals :
            \/ globals[j].val.type # "string"
            \/ j \in DOMAIN globals' /\ globals'[j].val = globals[j].val
      BY <2>4, <2>5
    <3> QED  BY <2>7, <3>1, <3>2, GlobalMoves
  <2>9. OneOwner'
    BY <1>2, <1>3, <1>4, <2>3, <2>7, <2>8, BeforeOwned
  <2> QED  BY <1>2, <1>3, <2>3, <2>9 DEF NoFault, NoLocalsYet
<1> QED  BY <1>1, <1>5, <1>6 DEF InitGlobal

\* The entry function starts without a string of its own.
LEMMA EnterEntryOwned ==
  ASSUME NEW t, NEW leaving, MInv(t, leaving), EnterEntry
  PROVE  /\ OneOwner' /\ NoFault' /\ NoLocalsYet'
         /\ FramesTidy(leaving)' /\ StringLeft(leaving)'
<1>1. PICK m, n : m = EntryDecl.mod /\ n = EntryDecl.node
  OBVIOUS
<1>2. PICK e, f : /\ e = [mod |-> m, scope |-> 0, syms |-> <<>>]
                  /\ f = [fn |-> 1, mod |-> m, scope |-> 0, node |-> n, at |-> 0, vals |-> <<>>]
  OBVIOUS
<1>3. /\ phase = "lookup" /\ phase' = "run" /\ EntryOk
      /\ UNCHANGED <<prog, globals, ret, live, fault>>
      /\ fns' = <<e>> /\ cstk' = <<Frame(fns', n)>>
  BY <1>1, <1>2 DEF EnterEntry, Walking
<1>4. /\ TInv(t) /\ OneOwner /\ NoFault /\ fns = <<>>
  BY <1>3 DEF MInv, NoLocalsYet
<1>5. ret = NoRet /\ cstk = <<>> /\ IInv /\ GlobalsFound
  BY <1>3, <1>4, OutsideFacts, TInvFacts
<1>6. /\ m \in DOMAIN prog /\ n \in DOMAIN prog[m] /\ prog[m][n].type = "FUNCDECL"
  <2>1. GlobalIdx(Entry) \in DOMAIN globals /\ EntryDecl.type = "func"
    BY <1>3, <1>5, Shapes, FindSymIndex DEF GlobalIdx, EntryOk
  <2> QED  BY <1>1, <1>5, <2>1 DEF EntryDecl, IInv, Placed, Node
<1>7. Frame(fns', n) = f
  BY <1>2, <1>3 DEF Frame
<1>8. f.mod = m /\ f.node = n /\ f.at = 0 /\ f.vals = <<>> /\ e.syms = <<>>
  BY <1>2
<1>9. DOMAIN fns' = {1} /\ fns'[1] = e /\ DOMAIN cstk' = {1} /\ cstk'[1] = f
  BY <1>3, <1>7
<1>10. PICK E : E = {}
  OBVIOUS
<1>11. LocalsMoved(E, E)
  <2>1. LocalStrs = {}
    BY <1>4, LocalPlace DEF LocalPlaced
  <2>2. LocalStrs' = {}
    BY <1>8, <1>9, LocalPlace DEF LocalPlaced
  <2> QED  BY <1>10, <2>1, <2>2 DEF LocalsMoved
<1>12. FramesMoved(E, E)
  <2>1. FrameStrs = {}
    BY <1>5, FramePlace DEF FramePlaced
  <2>2. FrameVals(f) = <<>>
    BY <1>8 DEF FrameVals
  <2>3. FrameVals(f)' = <<>>
    BY <1>3, <2>2, FrameValsKept
  <2>4. FrameVals(cstk[1])' = <<>>
    BY <1>9, <2>3
  <2>5. FrameStrs' = {}
    BY <1>9, <2>4, FramePlace DEF FramePlaced
  <2> QED  BY <1>10, <2>1, <2>5 DEF FramesMoved
<1>13. GlobalsMoved(E, E)
  BY <1>3, <1>10, SameGlobalStrs
<1>14. RetStrs = {} /\ RetStrs' = {} /\ Null.type # "string"
  BY <1>3, <1>5 DEF RetStrs, NoRet, Ret, Null, Val
<1>15. Going(E, E, E, E) /\ Coming(E, E, E, E)
  BY <1>10, <1>14 DEF Going, Coming
<1>16. HeapMoved(E, Null)
  <2>1. HeapMoved({}, Null)
    BY <1>3, <1>14, HeapStays DEF NoHeap
  <2> QED  BY <1>10, <2>1
<1>17. OneOwner'
  <2>1. PICK val : val = Null
    OBVIOUS
  <2>2. HeapMoved(E, val) /\ val.type # "string"
    BY <1>14, <1>16, <2>1
  <2>3. \A p \in E : FALSE
    BY <1>10
  <2> QED  BY <1>4, <1>11, <1>12, <1>13, <1>15, <2>2, <2>3, OneComes
<1>18. FramesTidy(leaving)'
  <2>1. Node(m, n) = prog[m][n]
    BY DEF Node
  <2>2. FrameTidy(f, leaving)
    BY <1>6, <1>8, <2>1 DEF FrameTidy
  <2>3. FrameTidy(f, leaving)'
    BY <1>3, <2>2, TidyKept
  <2> QED  BY <1>9, <2>3 DEF FramesTidy
<1>19. StringLeft(leaving)'
  BY <1>3, <1>5 DEF StringLeft
<1> QED  BY <1>3, <1>4, <1>17, <1>18, <1>19 DEF NoFault, NoLocalsYet

\* ls_exec releases what is left, and that is everything.
LEMMA FinishOwned ==
  ASSUME NEW t, NEW leaving, MInv(t, leaving), Finish
  PROVE  OneOwner' /\ NoFault' /\ NoLocalsYet'
<1>1. /\ phase = "run" /\ phase' = "done" /\ cstk = <<>> /\ Heap(Null, Remaining)
      /\ fns' = <<>> /\ globals' = <<>> /\ ret' = NoRet /\ UNCHANGED <<prog, cstk>>
  BY DEF Finish
<1>2. OneOwner /\ NoFault
  BY <1>1 DEF MInv
<1>3. FrameStrs = {} /\ FrameStrs' = {}
  BY <1>1, FramePlace DEF FramePlaced
<1>4. Strs = LocalStrs \union GlobalStrs \union RetStrs
  BY <1>3, StrParts DEF StrsApart
<1>5. StrIdx(Remaining) = Strs
  <2>1. ValAt(RetPlace) = ret.val
    BY DEF ValAt, RetPlace
  <2>2. \A p \in DOMAIN Remaining : Remaining[p] = ValAt(p)
    BY DEF Remaining
  <2>3. DOMAIN Remaining = LocalPlaces \union GlobalPlaces \union {RetPlace}
    BY DEF Remaining
  <2>4. StrIdx(Remaining) = {p \in DOMAIN Remaining : ValAt(p).type = "string"}
    BY <2>2 DEF StrIdx
  <2> QED  BY <1>4, <2>1, <2>3, <2>4 DEF LocalStrs, GlobalStrs, RetStrs
<1>6. \A p \in Strs : Remaining[p].str = Blk(p)
  <2>1. Strs \subseteq DOMAIN Remaining
    BY <1>5 DEF StrIdx
  <2> QED  BY <2>1 DEF Remaining, Blk
<1>7. PICK R, P : R = Remaining /\ P = Strs
  OBVIOUS
<1>8. PICK s : s = [p \in P |-> p]
  OBVIOUS
<1>9. StandAt(R, P)
  <2>1. /\ s \in [StrIdx(R) -> Strs] /\ P = {s[i] : i \in StrIdx(R)}
        /\ \A i \in StrIdx(R) : Blk(s[i]) = R[i].str
        /\ \A i, j \in StrIdx(R) : s[i] = s[j] => i = j
    BY <1>5, <1>6, <1>7, <1>8
  <2> QED  BY <2>1 DEF StandAt
<1>10. UNCHANGED fault /\ live' = (live \ BlksOf(P)) \union Taken(Null)
  BY <1>1, <1>2, <1>7, <1>9, HeapFreed
<1>11. live' = {}
  <2>1. Taken(Null) = {}
    BY DEF Taken, Null, Val
  <2>2. live \subseteq BlksOf(P)
    BY <1>2, <1>7 DEF OneOwner, BlksOf
  <2> QED  BY <1>10, <2>1, <2>2
<1>12. Strs' = {}
  <2>1. LocalStrs' = {} /\ GlobalStrs' = {}
    BY <1>1, LocalPlace, GlobalPlace DEF LocalPlaced, GlobalPlaced
  <2>2. RetStrs' = {}
    BY <1>1 DEF RetStrs, NoRet, Ret, Null, Val
  <2> QED  BY <1>3, <2>1, <2>2, StrParts DEF StrsApart
<1>13. OneOwner'
  BY <1>11, <1>12 DEF OneOwner
<1> QED  BY <1>1, <1>2, <1>10, <1>13 DEF NoFault, NoLocalsYet

\* No handler runs before the entry function or after it.
LEMMA OutsideTidy ==
  ASSUME NEW leaving, cstk' = <<>>
  PROVE  FramesTidy(leaving)' /\ StringLeft(leaving)'
BY DEF FramesTidy, StringLeft

LEMMA PrologueOwned ==
  ASSUME NEW t, NEW leaving, MInv(t, leaving), Prologue
  PROVE  /\ phase' # "error" => OneOwner'
         /\ NoFault' /\ NoLocalsYet' /\ FramesTidy(leaving)' /\ StringLeft(leaving)'
<1>1. /\ Prologue => phase # "run"
      /\ (NextModule \/ GlobalSymtab \/ InitGlobal \/ GlobalsDone \/ EntryError) => UNCHANGED cstk
  BY DEF Prologue, NextModule, GlobalSymtab, InitGlobal, GlobalsDone, EntryError, EnterEntry,
         Walking, Undefined
<1>2. TInv(t) /\ NoFault
  BY DEF MInv
<1>3. cstk = <<>>
  BY <1>1, <1>2, OutsideFacts
<1>4. CASE NextModule \/ GlobalsDone
  BY <1>1, <1>3, <1>4, OutsideTidy, NextModuleOwned
<1>5. CASE GlobalSymtab
  BY <1>1, <1>3, <1>5, OutsideTidy, GlobalSymtabOwned
<1>6. CASE InitGlobal
  BY <1>1, <1>3, <1>6, OutsideTidy, InitGlobalOwned
<1>7. CASE EntryError
  <2>1. phase' = "error" /\ UNCHANGED fault
    BY <1>7 DEF EntryError
  <2> QED  BY <1>1, <1>2, <1>3, <1>7, <2>1, OutsideTidy DEF NoFault, NoLocalsYet
<1>8. CASE EnterEntry
  BY <1>8, EnterEntryOwned
<1> QED  BY <1>4, <1>5, <1>6, <1>7, <1>8 DEF Prologue

LEMMA StatementSafe ==
  ASSUME NEW t, NEW leaving, MInv(t, leaving), TInv(t)', Statement
  PROVE  Safe(leaving)'
BY FuncDeclSafe, LocalDeclSafe, ReturnSafe, CtreeSafe, WhileSafe, ForSafe, JumpSafe, BlockSafe, Zenon
   DEF Statement

LEMMA ExpressionSafe ==
  ASSUME NEW t, NEW leaving, MInv(t, leaving), TInv(t)', Expression
  PROVE  Safe(leaving)'
BY EvalOperandSafe, CollectSafe, EatomSafe, SysRejectSafe, SysCallSafe, SysShellSafe, EcallSafe,
   EaccessSafe, NegNotSafe, EcastSafe, BinarySafe, EternarySafe, AssignmentSafe, Zenon
   DEF Expression

-----------------------------------------------------------------------------
(* Every run. *)

LEMMA InitMInv ==
  ASSUME Init, NEW t, NEW leaving, WellTyped(prog, t), StringsUsed(prog, t, leaving)
  PROVE  MInv(t, leaving)
<1>1. /\ phase = "symtab" /\ globals = <<>> /\ fns = <<>> /\ cstk = <<>> /\ ret = NoRet
      /\ live = {} /\ fault = "none"
  BY DEF Init
<1>2. TInv(t)
  BY InitTInv
<1>3. Strs = {}
  <2>1. LocalStrs = {} /\ GlobalStrs = {} /\ FrameStrs = {}
    BY <1>1, LocalPlace, GlobalPlace, FramePlace DEF LocalPlaced, GlobalPlaced, FramePlaced
  <2>2. RetStrs = {}
    BY <1>1 DEF RetStrs, NoRet, Ret, Null, Val
  <2> QED  BY <2>1, <2>2, StrParts DEF StrsApart
<1>4. OneOwner
  BY <1>1, <1>3 DEF OneOwner
<1>5. FramesTidy(leaving) /\ StringLeft(leaving)
  BY <1>1 DEF FramesTidy, StringLeft
<1> QED  BY <1>1, <1>2, <1>4, <1>5 DEF MInv, NoFault, NoLocalsYet

LEMMA NextMInv ==
  ASSUME NEW t, NEW leaving, MInv(t, leaving), [Next]_vars
  PROVE  MInv(t, leaving)'
<1>1. /\ TInv(t) /\ CInv /\ IInv /\ Given /\ StringsUsed(prog, t, leaving)
      /\ NoFault /\ NoLocalsYet /\ FramesTidy(leaving) /\ StringLeft(leaving)
  BY TInvFacts DEF MInv, CInv
<1>2. TInv(t)'
  BY <1>1, NextTInv
<1>3. StringsUsed(prog, t, leaving)'
  <2>1. prog' = prog
    BY <1>1, ProgKept
  <2> QED  BY <1>1, <2>1 DEF StringsUsed
<1>4. /\ phase' # "error" => OneOwner'
      /\ NoFault' /\ NoLocalsYet' /\ FramesTidy(leaving)' /\ StringLeft(leaving)'
  <2>1. CASE Prologue
    BY <2>1, PrologueOwned
  <2>2. CASE Statement \/ Expression
    <3>1. Moves
      BY <1>1, <2>2, StatementMoves, ExpressionMoves
    <3>2. phase' = "run"
      BY <3>1 DEF Moves, Running
    <3>3. Safe(leaving)'
      BY <1>2, <2>2, StatementSafe, ExpressionSafe
    <3> QED  BY <3>2, <3>3 DEF Safe, NoLocalsYet
  <2>3. CASE Finish
    <3>1. cstk' = <<>>
      BY <2>3 DEF Finish
    <3> QED  BY <2>3, <3>1, FinishOwned, OutsideTidy
  <2>4. CASE UNCHANGED vars
    <3>1. UNCHANGED <<prog, phase, globals, fns, cstk, ret, live, fault>>
      BY <2>4 DEF vars
    <3>2. phase # "error" => OneOwner'
      BY <1>1, <3>1, SameOwner DEF MInv
    <3>3. FramesTidy(leaving)' /\ StringLeft(leaving)'
      BY <1>1, <3>1, SameTidy
    <3> QED  BY <1>1, <3>1, <3>2, <3>3 DEF NoFault, NoLocalsYet
  <2> QED  BY <2>1, <2>2, <2>3, <2>4 DEF Next, Stopped
<1> QED  BY <1>2, <1>3, <1>4 DEF MInv

\* The program is well typed and uses the strings it makes.
MemoryKept == \E t, leaving : MInv(t, leaving)

LEMMA KeptAlways ==
  ASSUME \A p \in Programs : \E t, leaving : WellTyped(p, t) /\ StringsUsed(p, t, leaving)
  PROVE  Spec => []MemoryKept
<1>1. Init => MemoryKept
  <2> SUFFICES ASSUME Init PROVE MemoryKept
    OBVIOUS
  <2>1. PICK t, leaving : WellTyped(prog, t) /\ StringsUsed(prog, t, leaving)
    BY DEF Init
  <2>2. MInv(t, leaving)
    BY <2>1, InitMInv
  <2> QED  BY <2>2 DEF MemoryKept
<1>2. MemoryKept /\ [Next]_vars => MemoryKept'
  <2> SUFFICES ASSUME MemoryKept, [Next]_vars PROVE MemoryKept'
    OBVIOUS
  <2>1. PICK t, leaving : MInv(t, leaving)
    BY DEF MemoryKept
  <2>2. MInv(t, leaving)'
    BY <2>1, NextMInv
  <2> QED  BY <2>2 DEF MemoryKept
<1> QED  BY <1>1, <1>2, PTL DEF Spec

\* In every run of programs that are well typed and use the strings they make, no string is
\* read after its release or released twice, no symbol is missing, and no handler is given
\* an operand of a type it is not made for.  What is left that C does not define is up to
\* the sizes of numbers: a division by the integer 0, and the cast of a real to a string
\* that is longer than the buffer it is written to.
THEOREM NothingUndefined ==
  ASSUME \A p \in Programs : \E t, leaving : WellTyped(p, t) /\ StringsUsed(p, t, leaving)
  PROVE  Spec => []NoFault
<1>1. MemoryKept => NoFault
  BY DEF MemoryKept, MInv
<1> QED  BY <1>1, KeptAlways, PTL

\* In every such run each string block is at exactly one place, a symbol, a local of a
\* handler or what was given back, and each of those places has a block that is there:
\* nothing leaks while the program runs, and nothing is used after its release.
THEOREM StringsOwnedOnce ==
  ASSUME \A p \in Programs : \E t, leaving : WellTyped(p, t) /\ StringsUsed(p, t, leaving)
  PROVE  Spec => []OwnedOnce
<1>1. MemoryKept => OwnedOnce
  <2> SUFFICES ASSUME MemoryKept, phase # "error" PROVE Releasable(Held) /\ BlocksOf(Held) = live
    BY DEF OwnedOnce
  <2>1. OneOwner
    BY DEF MemoryKept, MInv
  <2> QED  BY <2>1, OwnedAsPlaces
<1> QED  BY <1>1, KeptAlways, PTL
=============================================================================

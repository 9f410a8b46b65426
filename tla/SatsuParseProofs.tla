-------------------------- MODULE SatsuParseProofs --------------------------
(***************************************************************************)
(* Proofs about SatsuParse: for every set of texts, the types are kept, no *)
(* child is written outside of an array while no node has more than        *)
(* fifteen, and a text is not accepted when a token behind its last was    *)
(* read.  The second part shows that the trees of accepted texts are       *)
(* well-formed: a node lacks children only while a function that has it in *)
(* hand is active, and what the functions call and give back fits what     *)
(* their nodes may be given.  The third part shows that nothing of an      *)
(* accepted text is left out of its tree: at every step the nodes that are *)
(* nobody's children are those in the hands of active functions, and every *)
(* token read so far that means something has its node, but the one for    *)
(* which the innermost function is just about to add it.                   *)
(***************************************************************************)
EXTENDS SatsuParse, FiniteSetTheorems, TLAPS

Types == TokTypes \union {"NULL"}
Functions == DOMAIN NodeOf \union {"stmt", "expr", "nud", "led"}

\* What the parser passes on as terminators.
Terminators == {"SEMICOLON", "COMMA", "COLON", "RPAREN", "RBRACKET"}

\* The capacity of an array doubles with every child and is 0 at the sixteenth.
Doubled(len, cap) ==
  \/ len = 0 /\ cap = 1
  \/ len = 1 /\ cap = 2
  \/ len = 2 /\ cap = 4
  \/ len = 3 /\ cap = 8
  \/ len = 4 /\ cap = 16
  \/ len = 5 /\ cap = 32
  \/ len = 6 /\ cap = 64
  \/ len = 7 /\ cap = 128
  \/ len = 8 /\ cap = 256
  \/ len = 9 /\ cap = 2 * 256
  \/ len = 10 /\ cap = 4 * 256
  \/ len = 11 /\ cap = 8 * 256
  \/ len = 12 /\ cap = 16 * 256
  \/ len = 13 /\ cap = 32 * 256
  \/ len = 14 /\ cap = 64 * 256
  \/ len = 15 /\ cap = 128 * 256
  \/ len > 15
NodesDoubled(ns) == \A n \in 1..Len(ns) : Doubled(Len(ns[n].kids), ns[n].cap)

\* A frame among n nodes: it has the node it adds children to, an expression that passes
\* over a token when it goes on is one that began with a parenthesis, and none is called
\* with a binding power above that of a call.
FrameOk(f, n) ==
  /\ f.fn \in DOMAIN NodeOf \/ (f.fn \in {"nud", "led"} /\ f.at > 0) => f.node \in 1..n
  /\ f.term \subseteq Terminators
  /\ f.fn = "expr" /\ f.skip = 1 => f.type = "LPAREN"
  /\ f.fn = "led" /\ f.at > 0 => f.type \in DOMAIN LedNode
  /\ f.bp <= 21
FramesOk == \A d \in 1..Len(stk) : FrameOk(stk[d], Len(nodes))

\* A function that has called another, or has yet to take its result.
Waiting(f) ==
  /\ f.fn = "expr" => f.at = 2
  /\ f.fn \in {"nud", "led"} => f.at > 0
OthersWait == \A d \in 1..Len(stk) : d < Len(stk) \/ ret # NoRet => Waiting(stk[d])

Active == out = "parsing" /\ stk # <<>> /\ ret = NoRet

\* The active function of an expression knows the token it was called for.
Known(f, c, ts) ==
  /\ f.fn = "expr" /\ f.at = 1 => c \in 1..Len(ts) /\ f.type = ts[c]
  /\ f.fn = "expr" /\ f.at = 3 /\ c < Len(ts) => f.type = ts[c + 1]
  /\ f.fn = "nud" /\ f.at = 0 => c \in 1..Len(ts) /\ ts[c] \in DOMAIN NudNode
  /\ f.fn = "led" /\ f.at = 0 /\ c < Len(ts) => ts[c + 1] \in DOMAIN LedNode
TokenKnown == Active => Known(Top, cur, toks)

\* Where an error was dropped.
Dropped(f) ==
  \/ f.fn = "expr" /\ f.at \in {2, 3} /\ f.type = "LPAREN"
  \/ f.fn = "led" /\ f.at = 0

\* Behind the last token an error is on its way out, or was dropped by a parenthesis
\* whose expression takes itself for a call and ends in an error, too.
Overrun ==
  overread =>
    /\ cur >= Len(toks) /\ out # "ok"
    /\ out = "parsing" =>
         ret = Err \/ (ret = NoRet /\ stk # <<>> /\ Dropped(Top))

ParseInv ==
  /\ TypeOK /\ NodesDoubled(nodes) /\ FramesOk /\ OthersWait /\ TokenKnown
  /\ ChildrenFit /\ Overrun

-----------------------------------------------------------------------------
(* Nodes. *)

LEMMA CapModulusIs == CapModulus \in Nat /\ CapModulus > 1
BY DEF CapModulus

LEMMA RemainderFits ==
  ASSUME NEW n \in Nat
  PROVE  n % CapModulus \in 0..(CapModulus - 1)
BY CapModulusIs

LEMMA NodeRecFacts ==
  ASSUME NEW node \in NodeRec
  PROVE  /\ node.kids \in Seq(Nat) /\ Len(node.kids) \in Nat
         /\ node.cap \in Nat /\ node.cap < CapModulus
<1>1. node.kids \in Seq(Nat) /\ node.cap \in 0..(CapModulus - 1)
  BY DEF NodeRec
<1>2. \A c \in 0..(CapModulus - 1) : c \in Nat /\ c < CapModulus
  BY CapModulusIs
<1> QED  BY <1>1, <1>2

LEMMA AddNodeFacts ==
  ASSUME NEW ns \in Seq(NodeRec), NodesDoubled(ns), NEW type \in NodeTypes, NEW t \in Nat
  PROVE  /\ AddNode(ns, type, t) \in Seq(NodeRec) /\ NodesDoubled(AddNode(ns, type, t))
         /\ Len(AddNode(ns, type, t)) = Len(ns) + 1
         /\ \A n \in 1..Len(ns) : AddNode(ns, type, t)[n] = ns[n]
<1> DEFINE node == [type |-> type, tok |-> t, kids |-> <<>>, cap |-> 1]
           more == Append(ns, node)
<1>1. node \in NodeRec
  <2>1. 1 \in 0..(CapModulus - 1)
    BY CapModulusIs
  <2> QED  BY <2>1 DEF NodeRec
<1>2. Len(node.kids) = 0 /\ node.cap = 1
  OBVIOUS
<1> HIDE DEF node
<1>3. /\ more \in Seq(NodeRec) /\ Len(more) = Len(ns) + 1 /\ more[Len(ns) + 1] = node
      /\ \A n \in 1..Len(ns) : more[n] = ns[n]
  BY <1>1
<1> HIDE DEF more
<1>4. NodesDoubled(more)
  <2> SUFFICES ASSUME NEW n \in 1..Len(more) PROVE Doubled(Len(more[n].kids), more[n].cap)
    BY DEF NodesDoubled
  <2>1. CASE n \in 1..Len(ns)
    BY <1>3, <2>1 DEF NodesDoubled
  <2>2. CASE n = Len(ns) + 1
    BY <1>2, <1>3, <2>2 DEF Doubled
  <2> QED  BY <1>3, <2>1, <2>2
<1>5. AddNode(ns, type, t) = more
  BY DEF AddNode, more, node
<1> QED  BY <1>3, <1>4, <1>5

\* The capacity ls_parentnode leaves.
LEMMA DoubledNext ==
  ASSUME NEW len \in Nat, NEW cap \in Nat, Doubled(len, cap)
  PROVE  /\ cap >= len => Doubled(len + 1, (2 * cap) % CapModulus)
         /\ cap >= len /\ len < 15 => (2 * cap) % CapModulus > len
         /\ ~(cap >= len) => len > 15
BY DEF Doubled, CapModulus

\* ls_parentnode doubles the array, until it has sixteen children.
LEMMA GrownFacts ==
  ASSUME NEW node \in NodeRec, Doubled(Len(node.kids), node.cap)
  PROVE  /\ Grown(node) \in NodeRec /\ Grown(node).kids = node.kids
         /\ Doubled(Len(node.kids) + 1, Grown(node).cap)
         /\ Len(node.kids) < 15 => Grown(node).cap > Len(node.kids)
<1>1. node.cap \in Nat /\ Len(node.kids) \in Nat
  BY NodeRecFacts
<1>2. CASE node.cap >= Len(node.kids)
  <2> DEFINE twice == 2 * node.cap
             next == twice % CapModulus
  <2>1. Grown(node) = [node EXCEPT !.cap = next]
    BY <1>2 DEF Grown
  <2>2. twice \in Nat
    BY <1>1
  <2> HIDE DEF twice
  <2>3. next \in 0..(CapModulus - 1)
    BY <2>2, RemainderFits
  <2>4. next = (2 * node.cap) % CapModulus
    BY DEF twice
  <2> HIDE DEF next
  <2>5. Grown(node) \in NodeRec /\ Grown(node).kids = node.kids /\ Grown(node).cap = next
    BY <2>1, <2>3 DEF NodeRec
  <2> QED  BY <1>1, <1>2, <2>4, <2>5, DoubledNext
<1>3. CASE ~(node.cap >= Len(node.kids))
  <2>1. Len(node.kids) > 15
    BY <1>1, <1>3, DoubledNext
  <2>2. Grown(node) = node
    BY <1>3 DEF Grown
  <2> QED  BY <1>1, <2>1, <2>2 DEF Doubled
<1> QED  BY <1>2, <1>3

LEMMA ParentNodeFacts ==
  ASSUME NEW ns \in Seq(NodeRec), NodesDoubled(ns), NEW p \in 1..Len(ns), NEW c \in Nat
  PROVE  /\ ParentNode(ns, p, c) \in Seq(NodeRec) /\ NodesDoubled(ParentNode(ns, p, c))
         /\ Len(ParentNode(ns, p, c)) = Len(ns)
         /\ ~Fits(ns, p) => Len(ParentNode(ns, p, c)[p].kids) > 15
<1> DEFINE grown == Grown(ns[p])
           new == [grown EXCEPT !.kids = Append(@, c)]
           after == [ns EXCEPT ![p] = new]
<1>1. ns[p] \in NodeRec /\ Doubled(Len(ns[p].kids), ns[p].cap)
  BY DEF NodesDoubled
<1>2. /\ grown \in NodeRec /\ grown.kids = ns[p].kids /\ Doubled(Len(ns[p].kids) + 1, grown.cap)
      /\ Len(ns[p].kids) < 15 => grown.cap > Len(ns[p].kids)
  BY <1>1, GrownFacts
<1>3. ns[p].kids \in Seq(Nat) /\ Len(ns[p].kids) \in Nat /\ grown.cap \in Nat
  BY <1>1, <1>2, NodeRecFacts
<1>4. ParentNode(ns, p, c) = after
  BY DEF ParentNode
<1>10. Fits(ns, p) <=> grown.cap > Len(ns[p].kids)
  BY DEF Fits
<1> HIDE DEF grown
<1>5. new \in NodeRec /\ new.kids = Append(ns[p].kids, c) /\ new.cap = grown.cap
  <2>1. Append(ns[p].kids, c) \in Seq(Nat)
    BY <1>3
  <2>2. new = [grown EXCEPT !.kids = Append(ns[p].kids, c)]
    BY <1>2
  <2> QED  BY <1>2, <2>1, <2>2 DEF NodeRec
<1>6. Len(new.kids) = Len(ns[p].kids) + 1
  BY <1>3, <1>5
<1> HIDE DEF new
<1>7. /\ after \in Seq(NodeRec) /\ Len(after) = Len(ns) /\ after[p] = new
      /\ \A n \in 1..Len(ns) : n # p => after[n] = ns[n]
  BY <1>5
<1> HIDE DEF after
<1>8. NodesDoubled(after)
  <2> SUFFICES ASSUME NEW n \in 1..Len(after) PROVE Doubled(Len(after[n].kids), after[n].cap)
    BY DEF NodesDoubled
  <2>1. CASE n = p
    BY <1>2, <1>5, <1>6, <1>7, <2>1
  <2>2. CASE n # p
    BY <1>7, <2>2 DEF NodesDoubled
  <2> QED  BY <2>1, <2>2
<1>9. ASSUME ~Fits(ns, p) PROVE Len(after[p].kids) > 15
  BY <1>2, <1>3, <1>6, <1>7, <1>9, <1>10
<1> QED  BY <1>4, <1>7, <1>8, <1>9

-----------------------------------------------------------------------------
(* The stack. *)

LEMMA Typed ==
  ASSUME TypeOK
  PROVE  /\ toks \in Seq(Types) /\ Len(toks) \in Nat /\ Len(toks) > 0 /\ cur \in Nat
         /\ nodes \in Seq(NodeRec) /\ Len(nodes) \in Nat
         /\ stk \in Seq(FrameRecord) /\ Len(stk) \in Nat
         /\ ret \in [is : {"none", "ok", "error"}, node : Nat] /\ ret.node \in Nat
         /\ out \in {"parsing", "ok", "error", "overflow"}
         /\ \A d \in 1..Len(stk) : stk[d] \in FrameRecord
         /\ stk # <<>> => Len(stk) \in 1..Len(stk) /\ Top \in FrameRecord
<1>1. /\ toks \in Seq(Types) /\ Len(toks) \in Nat /\ Len(toks) > 0 /\ cur \in Nat
      /\ nodes \in Seq(NodeRec) /\ Len(nodes) \in Nat
      /\ stk \in Seq(FrameRecord) /\ Len(stk) \in Nat
      /\ ret \in [is : {"none", "ok", "error"}, node : Nat] /\ ret.node \in Nat
      /\ out \in {"parsing", "ok", "error", "overflow"}
  BY DEF TypeOK, Types
<1>2. \A d \in 1..Len(stk) : stk[d] \in FrameRecord
  BY <1>1
<1>3. stk # <<>> => Len(stk) \in 1..Len(stk)
  BY <1>1
<1> QED  BY <1>1, <1>2, <1>3 DEF Top

LEMMA FrameFacts ==
  ASSUME NEW f \in FrameRecord
  PROVE  /\ f.fn \in Functions /\ f.at \in 0..5 /\ f.skip \in {0, 1} /\ f.node \in Nat
         /\ f.term \in SUBSET TokTypes /\ f.bp \in Nat /\ f.type \in Types
BY DEF FrameRecord, Functions, Types

LEMMA MoreNodes ==
  ASSUME NEW f, NEW n \in Nat, NEW m \in Nat, n <= m, FrameOk(f, n)
  PROVE  FrameOk(f, m)
BY DEF FrameOk

\* The innermost frame goes on.
LEMMA TopReplaced ==
  ASSUME TypeOK, FramesOk, OthersWait, stk # <<>>, Len(nodes') \in Nat, Len(nodes) <= Len(nodes'),
         NEW f \in FrameRecord, FrameOk(f, Len(nodes')),
         stk' = [stk EXCEPT ![Len(stk)] = f], ret' = NoRet
  PROVE  /\ stk' \in Seq(FrameRecord) /\ stk' # <<>> /\ Len(stk') = Len(stk) /\ Top' = f
         /\ FramesOk' /\ OthersWait'
<1>1. stk \in Seq(FrameRecord) /\ Len(stk) \in Nat /\ Len(stk) \in 1..Len(stk) /\ Len(nodes) \in Nat
  BY Typed
<1>2. /\ stk' \in Seq(FrameRecord) /\ Len(stk') = Len(stk) /\ stk'[Len(stk)] = f
      /\ \A d \in 1..Len(stk) : d # Len(stk) => stk'[d] = stk[d]
  BY <1>1
<1>3. FramesOk'
  <2> SUFFICES ASSUME NEW d \in 1..Len(stk) PROVE FrameOk(stk'[d], Len(nodes'))
    BY <1>2 DEF FramesOk
  <2>1. CASE d = Len(stk)
    BY <1>2, <2>1
  <2>2. CASE d # Len(stk)
    <3>1. FrameOk(stk[d], Len(nodes))
      BY DEF FramesOk
    <3> QED  BY <1>1, <1>2, <2>2, <3>1, MoreNodes
  <2> QED  BY <2>1, <2>2
<1>4. OthersWait'
  <2> SUFFICES ASSUME NEW d \in 1..Len(stk), d < Len(stk) PROVE Waiting(stk'[d])
    BY <1>2 DEF OthersWait
  <2>1. Waiting(stk[d])
    BY DEF OthersWait
  <2>2. d # Len(stk)
    BY <1>1
  <2>3. stk'[d] = stk[d]
    BY <1>2, <2>2
  <2> QED  BY <2>1, <2>3
<1>5. Top' = f
  BY <1>2 DEF Top
<1>6. stk' # <<>>
  <2>1. Len(stk') = Len(stk) /\ stk' \in Seq(FrameRecord) /\ stk \in Seq(FrameRecord)
    BY <1>1, <1>2
  <2>2. Len(stk) # 0
    BY <2>1
  <2> QED  BY <2>1, <2>2
<1> QED  BY <1>2, <1>3, <1>4, <1>5, <1>6

\* The innermost frame waits for a new one.
LEMMA Pushed ==
  ASSUME TypeOK, FramesOk, OthersWait, stk # <<>>, Len(nodes') \in Nat, Len(nodes) <= Len(nodes'),
         NEW f \in FrameRecord, FrameOk(f, Len(nodes')), Waiting(f),
         NEW g \in FrameRecord, FrameOk(g, Len(nodes')),
         stk' = Append([stk EXCEPT ![Len(stk)] = f], g), ret' = NoRet
  PROVE  /\ stk' \in Seq(FrameRecord) /\ stk' # <<>> /\ Top' = g
         /\ FramesOk' /\ OthersWait'
<1>1. stk \in Seq(FrameRecord) /\ Len(stk) \in Nat /\ Len(stk) \in 1..Len(stk) /\ Len(nodes) \in Nat
  BY Typed
<1> DEFINE below == [stk EXCEPT ![Len(stk)] = f]
<1>2. /\ below \in Seq(FrameRecord) /\ Len(below) = Len(stk) /\ below[Len(stk)] = f
      /\ \A d \in 1..Len(stk) : d # Len(stk) => below[d] = stk[d]
  BY <1>1
<1>3. stk' = Append(below, g)
  OBVIOUS
<1> HIDE DEF below
<1>4. /\ stk' \in Seq(FrameRecord) /\ Len(stk') = Len(stk) + 1 /\ stk'[Len(stk) + 1] = g
      /\ \A d \in 1..Len(stk) : stk'[d] = below[d]
  BY <1>1, <1>2, <1>3
<1>5. ASSUME NEW d \in 1..Len(stk)
      PROVE  FrameOk(stk'[d], Len(nodes')) /\ Waiting(stk'[d])
  <2>1. CASE d = Len(stk)
    BY <1>2, <1>4, <2>1
  <2>2. CASE d # Len(stk)
    <3>1. FrameOk(stk[d], Len(nodes)) /\ Waiting(stk[d])
      BY <1>1, <2>2 DEF FramesOk, OthersWait
    <3>2. stk'[d] = stk[d]
      BY <1>2, <1>4, <2>2
    <3> QED  BY <1>1, <3>1, <3>2, MoreNodes
  <2> QED  BY <2>1, <2>2
<1>6. FramesOk'
  <2> SUFFICES ASSUME NEW d \in 1..Len(stk') PROVE FrameOk(stk'[d], Len(nodes'))
    BY DEF FramesOk
  <2>1. d \in 1..Len(stk) \/ d = Len(stk) + 1
    BY <1>1, <1>4
  <2> QED  BY <1>4, <1>5, <2>1
<1>7. OthersWait'
  <2> SUFFICES ASSUME NEW d \in 1..Len(stk'), d < Len(stk') PROVE Waiting(stk'[d])
    BY DEF OthersWait
  <2>1. d \in 1..Len(stk)
    BY <1>1, <1>4
  <2> QED  BY <1>5, <2>1
<1> QED  BY <1>1, <1>4, <1>6, <1>7 DEF Top

\* The innermost function returns.
LEMMA Popped ==
  ASSUME TypeOK, FramesOk, OthersWait, stk # <<>>, Len(nodes') \in Nat, Len(nodes) <= Len(nodes'),
         stk' = Front(stk)
  PROVE  stk' \in Seq(FrameRecord) /\ FramesOk' /\ OthersWait'
<1>1. stk \in Seq(FrameRecord) /\ Len(stk) \in Nat /\ Len(stk) \in 1..Len(stk) /\ Len(nodes) \in Nat
  BY Typed
<1>2. /\ stk' \in Seq(FrameRecord) /\ Len(stk') = Len(stk) - 1
      /\ \A d \in 1..(Len(stk) - 1) : stk'[d] = stk[d]
  <2> DEFINE m == Len(stk) - 1
  <2>1. m \in Nat /\ m <= Len(stk)
    BY <1>1
  <2>2. stk' = SubSeq(stk, 1, m)
    BY DEF Front
  <2> HIDE DEF m
  <2>3. stk' \in Seq(FrameRecord) /\ Len(stk') = m /\ \A d \in 1..m : stk'[d] = stk[d]
    BY <1>1, <2>1, <2>2
  <2> QED  BY <2>3 DEF m
<1>3. ASSUME NEW d \in 1..Len(stk')
      PROVE  FrameOk(stk'[d], Len(nodes')) /\ Waiting(stk'[d])
  <2>1. d \in 1..Len(stk) /\ d < Len(stk) /\ stk'[d] = stk[d]
    BY <1>1, <1>2
  <2>2. FrameOk(stk[d], Len(nodes)) /\ Waiting(stk[d])
    BY <2>1 DEF FramesOk, OthersWait
  <2> QED  BY <1>1, <2>1, <2>2, MoreNodes
<1> QED  BY <1>2, <1>3 DEF FramesOk, OthersWait

-----------------------------------------------------------------------------
(* What the steps have in common. *)

Rets == [is : {"none", "ok", "error"}, node : Nat]

LEMMA RetFacts ==
  /\ NoRet \in Rets /\ Err \in Rets /\ Err # NoRet
  /\ \A n \in Nat : Ok(n) \in Rets /\ Ok(n) # NoRet /\ Ok(n) # Err
BY DEF Rets, NoRet, Err, Ok, NoNode

\* The innermost function goes on as f.
LEMMA TopStep ==
  ASSUME ParseInv, Active, NEW f \in FrameRecord, FrameOk(f, Len(nodes')), Known(f, cur', toks),
         stk' = [stk EXCEPT ![Len(stk)] = f], ret' = NoRet,
         toks' = toks, out' = out, lost' = lost, overread' = overread,
         cur' \in Nat, cur <= cur', overread => Dropped(f),
         nodes' \in Seq(NodeRec), Len(nodes) <= Len(nodes'), NodesDoubled(nodes')
  PROVE  ParseInv'
<1>1. TypeOK /\ FramesOk /\ OthersWait /\ stk # <<>> /\ out = "parsing"
  BY DEF ParseInv, Active
<1>2. Len(nodes') \in Nat
  OBVIOUS
<1>3. /\ stk' \in Seq(FrameRecord) /\ stk' # <<>> /\ Top' = f
      /\ FramesOk' /\ OthersWait'
  BY <1>1, <1>2, TopReplaced
<1>4. TypeOK'
  BY <1>1, <1>3, RetFacts DEF TypeOK, Rets
<1>5. TokenKnown'
  BY <1>3 DEF TokenKnown
<1>6. ChildrenFit' /\ (out # "overflow")'
  BY <1>1 DEF ChildrenFit
<1>7. Overrun'
  <2>1. cur \in Nat /\ Len(toks) \in Nat
    BY <1>1, Typed
  <2>2. overread => cur >= Len(toks)
    BY DEF ParseInv, Overrun
  <2> QED  BY <1>1, <1>3, <2>1, <2>2 DEF Overrun
<1> QED  BY <1>3, <1>4, <1>5, <1>6, <1>7 DEF ParseInv

\* The innermost function waits as f for g.
LEMMA PushStep ==
  ASSUME ParseInv, Active, NEW f \in FrameRecord, FrameOk(f, Len(nodes')), Waiting(f),
         NEW g \in FrameRecord, FrameOk(g, Len(nodes')), Known(g, cur', toks),
         stk' = Append([stk EXCEPT ![Len(stk)] = f], g), ret' = NoRet,
         toks' = toks, out' = out, lost' = lost, overread' = overread,
         cur' \in Nat, cur <= cur', overread => Dropped(g),
         nodes' \in Seq(NodeRec), Len(nodes) <= Len(nodes'), NodesDoubled(nodes')
  PROVE  ParseInv'
<1>1. TypeOK /\ FramesOk /\ OthersWait /\ stk # <<>> /\ out = "parsing"
  BY DEF ParseInv, Active
<1>2. Len(nodes') \in Nat
  OBVIOUS
<1>3. /\ stk' \in Seq(FrameRecord) /\ stk' # <<>> /\ Top' = g
      /\ FramesOk' /\ OthersWait'
  BY <1>1, <1>2, Pushed
<1>4. TypeOK'
  BY <1>1, <1>3, RetFacts DEF TypeOK, Rets
<1>5. TokenKnown'
  BY <1>3 DEF TokenKnown
<1>6. ChildrenFit' /\ (out # "overflow")'
  BY <1>1 DEF ChildrenFit
<1>7. Overrun'
  <2>1. cur \in Nat /\ Len(toks) \in Nat
    BY <1>1, Typed
  <2>2. overread => cur >= Len(toks)
    BY DEF ParseInv, Overrun
  <2> QED  BY <1>1, <1>3, <2>1, <2>2 DEF Overrun
<1> QED  BY <1>3, <1>4, <1>5, <1>6, <1>7 DEF ParseInv

\* The innermost function returns.
LEMMA PopStep ==
  ASSUME ParseInv, stk # <<>>, out = "parsing", stk' = Front(stk), ret' \in Rets, ret' # NoRet,
         toks' = toks, nodes' = nodes, out' = out, lost' = lost, overread' \in BOOLEAN,
         cur' \in Nat, overread' => cur' >= Len(toks) /\ ret' = Err
  PROVE  ParseInv'
<1>1. TypeOK /\ FramesOk /\ OthersWait /\ NodesDoubled(nodes)
  BY DEF ParseInv
<1>2. Len(nodes') \in Nat /\ Len(nodes) <= Len(nodes')
  BY <1>1, Typed
<1>3. stk' \in Seq(FrameRecord) /\ FramesOk' /\ OthersWait'
  BY <1>1, <1>2, Popped
<1>4. TypeOK'
  BY <1>1, <1>3 DEF TypeOK, Rets
<1>5. TokenKnown'
  BY DEF TokenKnown, Active
<1>6. ChildrenFit'
  BY DEF ChildrenFit
<1>7. Overrun'
  BY DEF Overrun
<1> QED  BY <1>1, <1>3, <1>4, <1>5, <1>6, <1>7 DEF ParseInv

-----------------------------------------------------------------------------
(* The steps the functions are made of. *)

LEMMA Names ==
  /\ \A fn \in DOMAIN NodeOf : fn \notin {"stmt", "expr", "nud", "led"} /\ NodeOf[fn] \in NodeTypes
  /\ {"import", "func", "global", "local", "arglist", "arg", "return", "ctree", "while", "for",
      "break", "continue", "block", "type", "system", "root"} = DOMAIN NodeOf
BY DEF NodeOf, NodeTypes, StmtTypes, ExprTypes

\* A function other than those of operators and operands runs: nothing was overread.
Plain == Active /\ ~overread /\ Top.fn \in DOMAIN NodeOf \union {"stmt"}

LEMMA PlainWhen ==
  ASSUME ParseInv, NEW fn \in DOMAIN NodeOf \union {"stmt"}, Running(fn)
  PROVE  Plain /\ Top.fn = fn
<1>1. Active /\ Top.fn = fn
  BY DEF Running, Active
<1>2. Top.fn \notin {"expr", "led"}
  BY <1>1, Names
<1>3. ~Dropped(Top)
  BY <1>2 DEF Dropped
<1>4. ~overread
  BY <1>1, <1>3, RetFacts DEF ParseInv, Overrun, Active
<1> QED  BY <1>1, <1>4 DEF Plain

\* The innermost frame, going on at another place.
Going(at, skip) == [Top EXCEPT !.at = at, !.skip = skip]

LEMMA GotoFacts ==
  ASSUME ParseInv, stk # <<>>, NEW at \in 0..5, NEW skip \in {0, 1}
  PROVE  /\ Goto(at, skip) = [stk EXCEPT ![Len(stk)] = Going(at, skip)]
         /\ Going(at, skip) \in FrameRecord
         /\ Going(at, skip).fn = Top.fn /\ Going(at, skip).at = at
         /\ Going(at, skip).skip = skip /\ Going(at, skip).node = Top.node
         /\ Going(at, skip).term = Top.term /\ Going(at, skip).type = Top.type
         /\ Going(at, skip).bp = Top.bp
         /\ FrameOk(Top, Len(nodes))
<1>1. stk \in Seq(FrameRecord) /\ Len(stk) \in 1..Len(stk) /\ Top \in FrameRecord
  BY Typed DEF ParseInv
<1>2. Top = stk[Len(stk)]
  BY DEF Top
<1>3. /\ Going(at, skip) \in FrameRecord
      /\ Going(at, skip).fn = Top.fn /\ Going(at, skip).at = at
      /\ Going(at, skip).skip = skip /\ Going(at, skip).node = Top.node
      /\ Going(at, skip).term = Top.term /\ Going(at, skip).type = Top.type
      /\ Going(at, skip).bp = Top.bp
  BY <1>1 DEF Going, FrameRecord
<1>4. FrameOk(Top, Len(nodes))
  BY <1>1, <1>2 DEF ParseInv, FramesOk
<1>5. Goto(at, skip) = [stk EXCEPT ![Len(stk)] = Going(at, skip)]
  BY <1>1, <1>2 DEF Goto, Going, FrameRecord
<1> QED  BY <1>3, <1>4, <1>5

LEMMA TakeKeeps ==
  ASSUME ParseInv, Plain, NEW c \in Nat, cur <= c, NEW next \in 0..5, Take(c, next)
  PROVE  ParseInv'
<1> DEFINE f == Going(next, 0)
<1>1. /\ cur' = c /\ stk' = Goto(next, 0) /\ nodes' = nodes /\ ret' = ret
      /\ toks' = toks /\ out' = out /\ lost' = lost /\ overread' = overread
  BY DEF Take, Quiet
<1>2. /\ Goto(next, 0) = [stk EXCEPT ![Len(stk)] = f] /\ f \in FrameRecord
      /\ f.fn = Top.fn /\ f.skip = 0 /\ f.node = Top.node /\ f.term = Top.term /\ f.bp = Top.bp
      /\ FrameOk(Top, Len(nodes))
  BY GotoFacts DEF Plain, Active
<1> HIDE DEF f
<1>3. f.fn \notin {"expr", "nud", "led"}
  BY <1>2, Names DEF Plain
<1>4. FrameOk(f, Len(nodes')) /\ Known(f, cur', toks)
  BY <1>1, <1>2, <1>3 DEF FrameOk, Known
<1>5. nodes \in Seq(NodeRec) /\ Len(nodes) \in Nat /\ NodesDoubled(nodes)
  BY Typed DEF ParseInv
<1> QED  BY <1>1, <1>2, <1>4, <1>5, TopStep DEF Plain, Active

LEMMA DoneKeeps ==
  ASSUME ParseInv, Active, ~overread, NEW c \in Nat, Done(c)
  PROVE  ParseInv'
<1>1. /\ cur' = c /\ ret' = Ok(Top.node) /\ stk' = Front(stk) /\ nodes' = nodes
      /\ toks' = toks /\ out' = out /\ lost' = lost /\ overread' = overread
  BY DEF Done, Quiet
<1>2. Top \in FrameRecord
  BY Typed DEF ParseInv, Active
<1>3. Top.node \in Nat
  BY <1>2, FrameFacts
<1>4. overread' \in BOOLEAN /\ (overread' => cur' >= Len(toks) /\ ret' = Err)
  BY <1>1 DEF ParseInv, TypeOK
<1>5. stk # <<>> /\ out = "parsing"
  BY DEF Active
<1> QED  BY <1>1, <1>3, <1>4, <1>5, RetFacts, PopStep

LEMMA FailKeeps ==
  ASSUME ParseInv, Active, NEW c \in Nat, cur <= c, Fail(c)
  PROVE  ParseInv'
<1>1. /\ cur' = c /\ ret' = Err /\ stk' = Front(stk) /\ nodes' = nodes
      /\ toks' = toks /\ out' = out /\ lost' = lost /\ overread' = overread
  BY DEF Fail, Quiet
<1>2. overread => c >= Len(toks)
  BY Typed DEF ParseInv, Overrun
<1>3. overread \in BOOLEAN
  BY DEF ParseInv, TypeOK
<1> QED  BY <1>1, <1>2, <1>3, RetFacts, PopStep DEF Active

LEMMA ExpectKeeps ==
  ASSUME ParseInv, Plain, NEW type, NEW next \in 0..5, Expect(type, next)
  PROVE  ParseInv'
<1>1. cur + 1 \in Nat /\ cur <= cur + 1
  BY Typed DEF ParseInv
<1> QED  BY <1>1, TakeKeeps, FailKeeps DEF Expect, Plain

\* The token of a node.
LEMMA TokKept ==
  ASSUME NEW ns \in Seq(NodeRec), NodesDoubled(ns), NEW n \in 1..Len(ns), NEW t \in Nat
  PROVE  LET ms == [ns EXCEPT ![n].tok = t]
         IN ms \in Seq(NodeRec) /\ Len(ms) = Len(ns) /\ NodesDoubled(ms)
<1> DEFINE new == [ns[n] EXCEPT !.tok = t]
           ms == [ns EXCEPT ![n] = new]
<1>1. ns[n] \in NodeRec
  OBVIOUS
<1>2. new \in NodeRec /\ new.kids = ns[n].kids /\ new.cap = ns[n].cap
  BY <1>1 DEF NodeRec
<1>3. [ns EXCEPT ![n].tok = t] = ms
  OBVIOUS
<1> HIDE DEF new
<1>4. /\ ms \in Seq(NodeRec) /\ Len(ms) = Len(ns) /\ ms[n] = new
      /\ \A k \in 1..Len(ns) : k # n => ms[k] = ns[k]
  BY <1>2
<1> HIDE DEF ms
<1>5. NodesDoubled(ms)
  <2> SUFFICES ASSUME NEW k \in 1..Len(ns) PROVE Doubled(Len(ms[k].kids), ms[k].cap)
    BY <1>4 DEF NodesDoubled
  <2>1. Doubled(Len(ns[k].kids), ns[k].cap)
    BY DEF NodesDoubled
  <2> QED  BY <1>2, <1>4, <2>1
<1> QED  BY <1>3, <1>4, <1>5

LEMMA MarkKeeps ==
  ASSUME ParseInv, Plain, Top.fn \in DOMAIN NodeOf, NEW types, NEW next \in 0..5, Mark(types, next)
  PROVE  ParseInv'
<1>1. /\ cur \in Nat /\ cur + 1 \in Nat /\ cur <= cur + 1
      /\ nodes \in Seq(NodeRec) /\ Len(nodes) \in Nat /\ NodesDoubled(nodes)
  BY Typed DEF ParseInv
<1>2. CASE Ahead \notin types
  BY <1>1, <1>2, FailKeeps DEF Mark, Plain
<1>3. CASE Ahead \in types
  <2> DEFINE f == Going(next, 0)
  <2>1. /\ cur' = cur + 1 /\ stk' = Goto(next, 0) /\ ret' = ret
        /\ nodes' = [nodes EXCEPT ![Top.node].tok = cur + 1]
        /\ toks' = toks /\ out' = out /\ lost' = lost /\ overread' = overread
    BY <1>3 DEF Mark, Quiet
  <2>2. /\ Goto(next, 0) = [stk EXCEPT ![Len(stk)] = f] /\ f \in FrameRecord
        /\ f.fn = Top.fn /\ f.skip = 0 /\ f.node = Top.node /\ f.term = Top.term /\ f.bp = Top.bp
        /\ FrameOk(Top, Len(nodes))
    BY GotoFacts DEF Plain, Active
  <2> HIDE DEF f
  <2>3. f.fn \notin {"expr", "nud", "led"}
    BY <2>2, Names
  <2>4. Top.node \in 1..Len(nodes)
    BY <2>2 DEF FrameOk
  <2>5. nodes' \in Seq(NodeRec) /\ Len(nodes') = Len(nodes) /\ NodesDoubled(nodes')
    BY <1>1, <2>1, <2>4, TokKept
  <2>6. FrameOk(f, Len(nodes')) /\ Known(f, cur', toks)
    BY <2>2, <2>3, <2>5 DEF FrameOk, Known
  <2>7. Active /\ ret' = NoRet /\ (overread => Dropped(f))
    BY <2>1 DEF Plain, Active
  <2>8. cur' \in Nat /\ cur <= cur' /\ Len(nodes) <= Len(nodes')
    BY <1>1, <2>1, <2>5
  <2>9. stk' = [stk EXCEPT ![Len(stk)] = f]
    BY <2>1, <2>2
  <2> QED  BY <2>1, <2>2, <2>5, <2>6, <2>7, <2>8, <2>9, TopStep
<1> QED  BY <1>2, <1>3

LEMMA TerminatorTypes == Terminators \subseteq TokTypes
BY DEF Terminators, TokTypes, Punctuation

LEMMA CallKeeps ==
  ASSUME ParseInv, Active, NEW c \in Nat, cur <= c, NEW next \in 0..5, NEW skip \in {0, 1},
         NEW fn \in Functions, NEW node \in Nat, NEW term \in SUBSET Terminators, NEW bp \in 0..21,
         Top.fn = "expr" => next = 2,
         Top.fn \in {"nud", "led"} => Top.at > 0 /\ next > 0,
         Top.fn = "expr" /\ skip = 1 => Top.type = "LPAREN",
         fn = "nud" => c \in 1..Len(toks) /\ toks[c] \in DOMAIN NudNode,
         fn = "led" /\ c < Len(toks) => toks[c + 1] \in DOMAIN LedNode,
         overread => fn = "led",
         Call(c, next, skip, fn, node, term, bp)
  PROVE  ParseInv'
<1> DEFINE adds == fn \in DOMAIN NodeOf
           own == IF adds THEN Len(nodes) + 1 ELSE node
           f == Going(next, skip)
           g == Frame(fn, own, term, bp)
<1>1. nodes \in Seq(NodeRec) /\ Len(nodes) \in Nat /\ NodesDoubled(nodes)
  BY Typed DEF ParseInv
<1>2. /\ cur' = c /\ stk' = Append(Goto(next, skip), g) /\ ret' = ret
      /\ toks' = toks /\ out' = out /\ lost' = lost /\ overread' = overread
      /\ nodes' = IF adds THEN AddNode(nodes, NodeOf[fn], IF fn \in Marked THEN c ELSE 1) ELSE nodes
  BY DEF Call, Quiet
<1>3. /\ nodes' \in Seq(NodeRec) /\ NodesDoubled(nodes') /\ Len(nodes') \in Nat
      /\ Len(nodes) <= Len(nodes') /\ own \in Nat
      /\ adds => own \in 1..Len(nodes')
  <2>1. CASE adds
    <3> DEFINE t == IF fn \in Marked THEN c ELSE 1
    <3>1. t \in Nat /\ NodeOf[fn] \in NodeTypes
      BY <2>1, Names
    <3>2. nodes' = AddNode(nodes, NodeOf[fn], t)
      BY <1>2, <2>1
    <3> HIDE DEF t
    <3>3. nodes' \in Seq(NodeRec) /\ NodesDoubled(nodes') /\ Len(nodes') = Len(nodes) + 1
      BY <1>1, <3>1, <3>2, AddNodeFacts
    <3> QED  BY <1>1, <2>1, <3>3
  <2>2. CASE ~adds
    BY <1>1, <1>2, <2>2
  <2> QED  BY <2>1, <2>2
<1>4. /\ Goto(next, skip) = [stk EXCEPT ![Len(stk)] = f] /\ f \in FrameRecord
      /\ f.fn = Top.fn /\ f.at = next /\ f.skip = skip /\ f.node = Top.node /\ f.bp = Top.bp
      /\ f.term = Top.term /\ f.type = Top.type /\ FrameOk(Top, Len(nodes))
  BY GotoFacts DEF Active
<1>5. /\ g.fn = fn /\ g.at = 0 /\ g.skip = 0 /\ g.node = own /\ g.term = term /\ g.bp = bp
      /\ g.type = "NULL"
  BY DEF Frame
<1>6. g \in FrameRecord
  <2>1. term \in SUBSET TokTypes
    BY TerminatorTypes
  <2> QED  BY <1>3, <2>1 DEF Frame, FrameRecord, Functions
<1> HIDE DEF own, f, g
<1>7. FrameOk(f, Len(nodes'))
  BY <1>1, <1>3, <1>4 DEF FrameOk
<1>8. Waiting(f)
  BY <1>4 DEF Waiting
<1>9. FrameOk(g, Len(nodes'))
  <2>1. g.bp <= 21 /\ ~(g.at > 0) /\ g.skip # 1
    BY <1>5
  <2>2. g.term \subseteq Terminators
    BY <1>5
  <2>3. g.fn \in DOMAIN NodeOf => g.node \in 1..Len(nodes')
    BY <1>3, <1>5
  <2> QED  BY <2>1, <2>2, <2>3 DEF FrameOk
<1>10. Known(g, cur', toks) /\ (overread => Dropped(g))
  BY <1>2, <1>5 DEF Known, Dropped
<1>11. stk' = Append([stk EXCEPT ![Len(stk)] = f], g) /\ ret' = NoRet
  BY <1>2, <1>4 DEF Active
<1>12. cur' \in Nat /\ cur <= cur'
  BY <1>2
<1> QED  BY <1>2, <1>3, <1>4, <1>6, <1>7, <1>8, <1>9, <1>10, <1>11, <1>12, PushStep

\* A declaration or a statement calls another.
LEMMA ParseKeeps ==
  ASSUME ParseInv, Plain, NEW c \in Nat, cur <= c, NEW next \in 0..5,
         NEW fn \in DOMAIN NodeOf \union {"stmt"}, Parse(c, next, fn)
  PROVE  ParseInv'
<1>1. Call(c, next, 0, fn, 0, {}, 0)
  BY DEF Parse, NoNode
<1>2. fn \in Functions /\ fn \notin {"nud", "led"} /\ Top.fn \notin {"expr", "nud", "led"}
  BY Names DEF Functions, Plain
<1>3. {} \in SUBSET Terminators
  OBVIOUS
<1> QED  BY <1>1, <1>2, <1>3, CallKeeps DEF Plain

\* A declaration or a statement holds an expression.
LEMMA ItemKeeps ==
  ASSUME ParseInv, Plain, NEW c \in Nat, cur <= c, NEW next \in 0..5, NEW skip \in {0, 1},
         NEW term \in SUBSET Terminators, Call(c, next, skip, "expr", NoNode, term, 0)
  PROVE  ParseInv'
<1>1. Call(c, next, skip, "expr", 0, term, 0)
  BY DEF NoNode
<1>2. "expr" \in Functions /\ Top.fn \notin {"expr", "nud", "led"}
  BY Names DEF Functions, Plain
<1> QED  BY <1>1, <1>2, CallKeeps DEF Plain

-----------------------------------------------------------------------------
(* Declarations and statements. *)

\* The functions that are called by the token that is ahead.
LEMMA Tables ==
  /\ \A t \in DOMAIN RootElements : RootElements[t] \in DOMAIN NodeOf
  /\ \A t \in DOMAIN Stmts : Stmts[t] \in DOMAIN NodeOf
BY DEF RootElements, Stmts, NodeOf

LEMMA Cursor == ParseInv => cur \in Nat /\ cur + 1 \in Nat /\ cur <= cur /\ cur <= cur + 1
BY Typed DEF ParseInv

\* An expression with one terminator, or one of two.
LEMMA ExprKeeps ==
  ASSUME ParseInv, Plain, NEW next \in 0..5, NEW end \in Terminators, Expr(cur, next, end)
  PROVE  ParseInv'
<1>1. Call(cur, next, 1, "expr", NoNode, {end}, 0) /\ {end} \in SUBSET Terminators
  BY DEF Expr
<1> QED  BY <1>1, Cursor, ItemKeeps

LEMMA ParseRootKeeps == ParseInv /\ ParseRoot => ParseInv'
<1> SUFFICES ASSUME ParseInv, ParseRoot PROVE ParseInv'
  OBVIOUS
<1>1. Plain /\ Top.fn = "root"
  BY PlainWhen, Names DEF ParseRoot
<1>2. Active /\ ~overread
  BY <1>1 DEF Plain
<1> QED  BY <1>1, <1>2, Cursor, Names, Tables, ParseKeeps, ExpectKeeps, MarkKeeps, DoneKeeps, FailKeeps, ExprKeeps
        DEF ParseRoot, Terminators

LEMMA ParseImportKeeps == ParseInv /\ ParseImport => ParseInv'
<1> SUFFICES ASSUME ParseInv, ParseImport PROVE ParseInv'
  OBVIOUS
<1>1. Plain /\ Top.fn = "import"
  BY PlainWhen, Names DEF ParseImport
<1>2. Active /\ ~overread
  BY <1>1 DEF Plain
<1> QED  BY <1>1, <1>2, Cursor, Names, Tables, ParseKeeps, ExpectKeeps, MarkKeeps, DoneKeeps, FailKeeps, ExprKeeps
        DEF ParseImport, Terminators

LEMMA ParseFuncKeeps == ParseInv /\ ParseFunc => ParseInv'
<1> SUFFICES ASSUME ParseInv, ParseFunc PROVE ParseInv'
  OBVIOUS
<1>1. Plain /\ Top.fn = "func"
  BY PlainWhen, Names DEF ParseFunc
<1>2. Active /\ ~overread
  BY <1>1 DEF Plain
<1> QED  BY <1>1, <1>2, Cursor, Names, Tables, ParseKeeps, ExpectKeeps, MarkKeeps, DoneKeeps, FailKeeps, ExprKeeps
        DEF ParseFunc, Terminators

LEMMA ParseGlobalDeclKeeps == ParseInv /\ ParseGlobalDecl => ParseInv'
<1> SUFFICES ASSUME ParseInv, ParseGlobalDecl PROVE ParseInv'
  OBVIOUS
<1>1. Plain /\ Top.fn = "global"
  BY PlainWhen, Names DEF ParseGlobalDecl
<1>2. Active /\ ~overread
  BY <1>1 DEF Plain
<1> QED  BY <1>1, <1>2, Cursor, Names, Tables, ParseKeeps, ExpectKeeps, MarkKeeps, DoneKeeps, FailKeeps, ExprKeeps
        DEF ParseGlobalDecl, Terminators

LEMMA ParseLocalDeclKeeps == ParseInv /\ ParseLocalDecl => ParseInv'
<1> SUFFICES ASSUME ParseInv, ParseLocalDecl PROVE ParseInv'
  OBVIOUS
<1>1. Plain /\ Top.fn = "local"
  BY PlainWhen, Names DEF ParseLocalDecl
<1>2. Active /\ ~overread
  BY <1>1 DEF Plain
<1> QED  BY <1>1, <1>2, Cursor, Names, Tables, ParseKeeps, ExpectKeeps, MarkKeeps, DoneKeeps, FailKeeps, ExprKeeps
        DEF ParseLocalDecl, Terminators

LEMMA ParseArgListKeeps == ParseInv /\ ParseArgList => ParseInv'
<1> SUFFICES ASSUME ParseInv, ParseArgList PROVE ParseInv'
  OBVIOUS
<1>1. Plain /\ Top.fn = "arglist"
  BY PlainWhen, Names DEF ParseArgList
<1>2. Active /\ ~overread
  BY <1>1 DEF Plain
<1> QED  BY <1>1, <1>2, Cursor, Names, Tables, ParseKeeps, ExpectKeeps, MarkKeeps, DoneKeeps, FailKeeps, ExprKeeps
        DEF ParseArgList, Terminators

LEMMA ParseArgKeeps == ParseInv /\ ParseArg => ParseInv'
<1> SUFFICES ASSUME ParseInv, ParseArg PROVE ParseInv'
  OBVIOUS
<1>1. Plain /\ Top.fn = "arg"
  BY PlainWhen, Names DEF ParseArg
<1>2. Active /\ ~overread
  BY <1>1 DEF Plain
<1> QED  BY <1>1, <1>2, Cursor, Names, Tables, ParseKeeps, ExpectKeeps, MarkKeeps, DoneKeeps, FailKeeps, ExprKeeps
        DEF ParseArg, Terminators

LEMMA ParseTypeKeeps == ParseInv /\ ParseType => ParseInv'
<1> SUFFICES ASSUME ParseInv, ParseType PROVE ParseInv'
  OBVIOUS
<1>1. Plain /\ Top.fn = "type"
  BY PlainWhen, Names DEF ParseType
<1>2. Active /\ ~overread
  BY <1>1 DEF Plain
<1> QED  BY <1>1, <1>2, Cursor, Names, Tables, ParseKeeps, ExpectKeeps, MarkKeeps, DoneKeeps, FailKeeps, ExprKeeps
        DEF ParseType, Terminators

LEMMA ParseReturnKeeps == ParseInv /\ ParseReturn => ParseInv'
<1> SUFFICES ASSUME ParseInv, ParseReturn PROVE ParseInv'
  OBVIOUS
<1>1. Plain /\ Top.fn = "return"
  BY PlainWhen, Names DEF ParseReturn
<1>2. Active /\ ~overread
  BY <1>1 DEF Plain
<1> QED  BY <1>1, <1>2, Cursor, Names, Tables, ParseKeeps, ExpectKeeps, MarkKeeps, DoneKeeps, FailKeeps, ExprKeeps
        DEF ParseReturn, Terminators

LEMMA ParseCtreeKeeps == ParseInv /\ ParseCtree => ParseInv'
<1> SUFFICES ASSUME ParseInv, ParseCtree PROVE ParseInv'
  OBVIOUS
<1>1. Plain /\ Top.fn = "ctree"
  BY PlainWhen, Names DEF ParseCtree
<1>2. Active /\ ~overread
  BY <1>1 DEF Plain
<1> QED  BY <1>1, <1>2, Cursor, Names, Tables, ParseKeeps, ExpectKeeps, MarkKeeps, DoneKeeps, FailKeeps, ExprKeeps
        DEF ParseCtree, Terminators

LEMMA ParseWhileKeeps == ParseInv /\ ParseWhile => ParseInv'
<1> SUFFICES ASSUME ParseInv, ParseWhile PROVE ParseInv'
  OBVIOUS
<1>1. Plain /\ Top.fn = "while"
  BY PlainWhen, Names DEF ParseWhile
<1>2. Active /\ ~overread
  BY <1>1 DEF Plain
<1> QED  BY <1>1, <1>2, Cursor, Names, Tables, ParseKeeps, ExpectKeeps, MarkKeeps, DoneKeeps, FailKeeps, ExprKeeps
        DEF ParseWhile, Terminators

LEMMA ParseForKeeps == ParseInv /\ ParseFor => ParseInv'
<1> SUFFICES ASSUME ParseInv, ParseFor PROVE ParseInv'
  OBVIOUS
<1>1. Plain /\ Top.fn = "for"
  BY PlainWhen, Names DEF ParseFor
<1>2. Active /\ ~overread
  BY <1>1 DEF Plain
<1> QED  BY <1>1, <1>2, Cursor, Names, Tables, ParseKeeps, ExpectKeeps, MarkKeeps, DoneKeeps, FailKeeps, ExprKeeps
        DEF ParseFor, Terminators

LEMMA ParseBlockKeeps == ParseInv /\ ParseBlock => ParseInv'
<1> SUFFICES ASSUME ParseInv, ParseBlock PROVE ParseInv'
  OBVIOUS
<1>1. Plain /\ Top.fn = "block"
  BY PlainWhen, Names DEF ParseBlock
<1>2. Active /\ ~overread
  BY <1>1 DEF Plain
<1> QED  BY <1>1, <1>2, Cursor, Names, Tables, ParseKeeps, ExpectKeeps, MarkKeeps, DoneKeeps, FailKeeps, ExprKeeps
        DEF ParseBlock, Terminators

LEMMA ParseStmtKeeps == ParseInv /\ ParseStmt => ParseInv'
<1> SUFFICES ASSUME ParseInv, ParseStmt PROVE ParseInv'
  OBVIOUS
<1>1. Plain /\ Top.fn = "stmt"
  BY PlainWhen, Names DEF ParseStmt
<1>2. Active /\ ~overread
  BY <1>1 DEF Plain
<1> QED  BY <1>1, <1>2, Cursor, Names, Tables, ParseKeeps, ExpectKeeps, MarkKeeps, DoneKeeps, FailKeeps, ExprKeeps
        DEF ParseStmt, Terminators

LEMMA ParseSystemKeeps == ParseInv /\ ParseSystem => ParseInv'
<1> SUFFICES ASSUME ParseInv, ParseSystem PROVE ParseInv'
  OBVIOUS
<1>1. Plain /\ Top.fn = "system"
  BY PlainWhen, Names DEF ParseSystem
<1>2. Active /\ ~overread
  BY <1>1 DEF Plain
<1>3. {"COMMA", "RPAREN"} \in SUBSET Terminators
  BY DEF Terminators
<1>4. ASSUME NEW c \in Nat, cur <= c, Item(c, 4, {"COMMA", "RPAREN"}) PROVE ParseInv'
  BY <1>1, <1>3, <1>4, ItemKeeps DEF Item
<1> QED  BY <1>1, <1>2, <1>4, Cursor, Names, ParseKeeps, ExpectKeeps, MarkKeeps, DoneKeeps
        DEF ParseSystem

LEMMA ParseJumpKeeps == ParseInv /\ ParseJump => ParseInv'
<1> SUFFICES ASSUME ParseInv, ParseJump PROVE ParseInv'
  OBVIOUS
<1>1. Plain
  BY PlainWhen, Names DEF ParseJump
<1>2. Active /\ ~overread
  BY <1>1 DEF Plain
<1> QED  BY <1>1, <1>2, Cursor, ExpectKeeps, DoneKeeps DEF ParseJump

-----------------------------------------------------------------------------
(* Expressions. *)

Replaced(f) == [stk EXCEPT ![Len(stk)] = f]

\* The innermost frame, with another node and another last token.
LEMMA GotoAsFacts ==
  ASSUME ParseInv, Active, NEW at \in 0..5, NEW n \in Nat, NEW t \in Types
  PROVE  \E f \in FrameRecord :
           /\ GotoAs(at, n, t) = Replaced(f)
           /\ f.fn = Top.fn /\ f.at = at /\ f.skip = 0 /\ f.node = n
           /\ f.term = Top.term /\ f.type = t /\ f.bp = Top.bp
<1> DEFINE f == [Top EXCEPT !.at = at, !.skip = 0, !.node = n, !.type = t]
<1>1. stk \in Seq(FrameRecord) /\ Len(stk) \in 1..Len(stk) /\ Top \in FrameRecord
  BY Typed DEF ParseInv, Active
<1>2. GotoAs(at, n, t) = [stk EXCEPT ![Len(stk)] = f]
  BY <1>1 DEF GotoAs, Top
<1>4. GotoAs(at, n, t) = Replaced(f)
  BY <1>2 DEF Replaced
<1>3. /\ f \in FrameRecord
      /\ f.fn = Top.fn /\ f.at = at /\ f.skip = 0 /\ f.node = n
      /\ f.term = Top.term /\ f.type = t /\ f.bp = Top.bp
  BY <1>1 DEF FrameRecord, Types
<1> HIDE DEF f
<1> QED  BY <1>3, <1>4

\* What is known of an expression that runs.
LEMMA ExprFacts ==
  ASSUME ParseInv, Running("expr")
  PROVE  /\ Active /\ Top.fn = "expr" /\ Known(Top, cur, toks) /\ FrameOk(Top, Len(nodes))
         /\ Top \in FrameRecord
         /\ overread => cur >= Len(toks) /\ Top.at \in {2, 3} /\ Top.type = "LPAREN"
<1>1. Active /\ Top.fn = "expr"
  BY DEF Running, Active
<1>2. Known(Top, cur, toks)
  BY <1>1 DEF ParseInv, TokenKnown
<1>3. overread => cur >= Len(toks) /\ Dropped(Top)
  BY <1>1, RetFacts DEF ParseInv, Overrun, Active
<1>4. Len(stk) \in 1..Len(stk) /\ Top \in FrameRecord
  BY <1>1, Typed DEF ParseInv, Active
<1>5. FrameOk(Top, Len(nodes))
  BY <1>4 DEF ParseInv, FramesOk, Top
<1> QED  BY <1>1, <1>2, <1>3, <1>4, <1>5 DEF Dropped

LEMMA NextToken ==
  ASSUME ParseInv
  PROVE  /\ Ahead \in Types
         /\ cur < Len(toks) => cur + 1 \in 1..Len(toks) /\ Ahead = toks[cur + 1]
<1>1. toks \in Seq(Types) /\ Len(toks) \in Nat /\ cur \in Nat /\ DOMAIN toks = 1..Len(toks)
  BY Typed DEF ParseInv
<1>2. Ahead \in Types
  BY <1>1 DEF Ahead, Tok, Types
<1> QED  BY <1>1, <1>2 DEF Ahead, Tok

LEMMA ExprReadKeeps == ParseInv /\ ExprRead => ParseInv'
<1> SUFFICES ASSUME ParseInv, ExprRead PROVE ParseInv'
  OBVIOUS
<1>1. /\ Active /\ Top.fn = "expr" /\ FrameOk(Top, Len(nodes)) /\ Top \in FrameRecord
      /\ overread => cur >= Len(toks) /\ Top.at \in {2, 3} /\ Top.type = "LPAREN"
  BY ExprFacts DEF ExprRead
<1>2. /\ nodes \in Seq(NodeRec) /\ Len(nodes) \in Nat /\ NodesDoubled(nodes)
      /\ cur \in Nat /\ Len(toks) \in Nat
  BY Typed DEF ParseInv
<1>3. ASSUME At(0), cur < Len(toks), cur' = cur + 1,
             stk' = GotoAs(1, Top.node, Ahead),
             UNCHANGED <<nodes, ret>>, Quiet
      PROVE  ParseInv'
  <2>1. PICK f \in FrameRecord :
          /\ GotoAs(1, Top.node, Ahead) = Replaced(f)
          /\ f.fn = Top.fn /\ f.at = 1 /\ f.skip = 0 /\ f.node = Top.node
          /\ f.term = Top.term /\ f.type = Ahead /\ f.bp = Top.bp
    <3>1. 1 \in 0..5 /\ Top.node \in Nat /\ Ahead \in Types
      BY <1>1, NextToken, FrameFacts
    <3> QED  BY <1>1, <3>1, GotoAsFacts
  <2>2. FrameOk(f, Len(nodes')) /\ Known(f, cur', toks)
    BY <1>1, <1>3, <2>1, NextToken, Names DEF FrameOk, Known
  <2>3. ~overread
    BY <1>1, <1>3 DEF At
  <2>4. /\ cur' \in Nat /\ cur <= cur' /\ ret' = NoRet /\ nodes' = nodes
        /\ toks' = toks /\ out' = out /\ lost' = lost /\ overread' = overread
        /\ Len(nodes) <= Len(nodes')
    BY <1>1, <1>2, <1>3 DEF Active, Quiet
  <2>5. stk' = [stk EXCEPT ![Len(stk)] = f]
    BY <1>3, <2>1 DEF Replaced
  <2> QED  BY <1>1, <1>2, <2>2, <2>3, <2>4, <2>5, TopStep
<1>4. ASSUME At(2), stk' = GotoAs(3, Top.node, IF cur < Len(toks) THEN Ahead ELSE Top.type),
             UNCHANGED <<cur, nodes, ret>>, Quiet
      PROVE  ParseInv'
  <2> DEFINE t == IF cur < Len(toks) THEN Ahead ELSE Top.type
  <2>1. stk' = GotoAs(3, Top.node, t)
    BY <1>4
  <2>2. t \in Types
    BY <1>1, NextToken, FrameFacts
  <2> HIDE DEF t
  <2>3. PICK f \in FrameRecord :
          /\ GotoAs(3, Top.node, t) = Replaced(f)
          /\ f.fn = Top.fn /\ f.at = 3 /\ f.skip = 0 /\ f.node = Top.node
          /\ f.term = Top.term /\ f.type = t /\ f.bp = Top.bp
    <3>1. 3 \in 0..5 /\ Top.node \in Nat
      BY <1>1, FrameFacts
    <3> QED  BY <1>1, <2>2, <3>1, GotoAsFacts
  <2>4. FrameOk(f, Len(nodes')) /\ Known(f, cur', toks)
    BY <1>1, <1>4, <2>3, NextToken, Names DEF FrameOk, Known, t
  <2>5. overread => Dropped(f)
    BY <1>1, <1>2, <2>3 DEF Dropped, t
  <2>6. /\ cur' \in Nat /\ cur <= cur' /\ ret' = NoRet /\ nodes' = nodes
        /\ toks' = toks /\ out' = out /\ lost' = lost /\ overread' = overread
        /\ Len(nodes) <= Len(nodes')
    BY <1>1, <1>2, <1>4 DEF Active, Quiet
  <2>7. stk' = [stk EXCEPT ![Len(stk)] = f]
    BY <2>1, <2>3 DEF Replaced
  <2> QED  BY <1>1, <1>2, <2>4, <2>5, <2>6, <2>7, TopStep
<1> QED  BY <1>1, <1>3, <1>4, Cursor, FailKeeps DEF ExprRead

\* A node is added, and the innermost function goes on with it.
LEMMA NodeStep ==
  ASSUME ParseInv, Active, ~overread, NEW at \in 1..5, NEW type \in NodeTypes, NEW t \in Nat,
         Top.fn = "expr" => at = 2,
         nodes' = AddNode(nodes, type, t), stk' = GotoAs(at, Len(nodes) + 1, Top.type),
         Top.fn # "led", UNCHANGED <<cur, ret>>, Quiet
  PROVE  ParseInv'
<1>1. /\ nodes \in Seq(NodeRec) /\ Len(nodes) \in Nat /\ NodesDoubled(nodes)
      /\ cur \in Nat /\ Len(stk) \in 1..Len(stk) /\ Top \in FrameRecord
  BY Typed DEF ParseInv, Active
<1>2. nodes' \in Seq(NodeRec) /\ NodesDoubled(nodes') /\ Len(nodes') = Len(nodes) + 1
  BY <1>1, AddNodeFacts
<1>3. PICK f \in FrameRecord :
        /\ GotoAs(at, Len(nodes) + 1, Top.type) = Replaced(f)
        /\ f.fn = Top.fn /\ f.at = at /\ f.skip = 0 /\ f.node = Len(nodes) + 1
        /\ f.term = Top.term /\ f.type = Top.type /\ f.bp = Top.bp
  <2>1. at \in 0..5 /\ Len(nodes) + 1 \in Nat /\ Top.type \in Types
    BY <1>1, FrameFacts
  <2> QED  BY <2>1, GotoAsFacts
<1>4. FrameOk(Top, Len(nodes))
  BY <1>1 DEF ParseInv, FramesOk, Top
<1>5. (f.node \in 1..Len(nodes') /\ f.skip # 1 /\ f.at # 0 /\ f.at # 1) \/ f.fn # "expr"
  BY <1>1, <1>2, <1>3
<1>6. FrameOk(f, Len(nodes'))
  <2>1. f.node \in 1..Len(nodes')
    BY <1>1, <1>2, <1>3
  <2> QED  BY <1>3, <1>4, <2>1 DEF FrameOk
<1>7. Known(f, cur', toks)
  BY <1>3 DEF Known
<1>8. stk' = [stk EXCEPT ![Len(stk)] = f]
  BY <1>3 DEF Replaced
<1>9. /\ cur' \in Nat /\ cur <= cur' /\ ret' = NoRet /\ Len(nodes) <= Len(nodes')
      /\ toks' = toks /\ out' = out /\ lost' = lost /\ overread' = overread
  BY <1>1, <1>2 DEF Active, Quiet
<1> QED  BY <1>2, <1>6, <1>7, <1>8, <1>9, TopStep

LEMMA ExprHeadKeeps == ParseInv /\ ExprHead => ParseInv'
<1> SUFFICES ASSUME ParseInv, ExprHead PROVE ParseInv'
  OBVIOUS
<1>1. /\ Active /\ Top.fn = "expr" /\ Top.at = 1 /\ ~overread
      /\ FrameOk(Top, Len(nodes)) /\ Known(Top, cur, toks)
  BY ExprFacts DEF ExprHead, At
<1>2. cur \in Nat /\ cur <= cur /\ Top.term \in SUBSET Terminators
  BY <1>1, Cursor DEF FrameOk
<1>3. {"RPAREN"} \in SUBSET Terminators
  BY DEF Terminators
<1>4. {"expr", "nud", "system"} \subseteq Functions
  BY Names DEF Functions
<1>5. ASSUME nodes' = AddNode(nodes, "EATOM", cur),
             stk' = GotoAs(2, Len(nodes) + 1, Top.type), UNCHANGED <<cur, ret>>, Quiet
      PROVE  ParseInv'
  <2>1. "EATOM" \in NodeTypes /\ 2 \in 1..5
    BY DEF NodeTypes, ExprTypes
  <2> QED  BY <1>1, <1>2, <1>5, <2>1, NodeStep
<1>6. ASSUME Top.type = "LPAREN", Expr(cur, 2, "RPAREN") PROVE ParseInv'
  <2>1. Call(cur, 2, 1, "expr", 0, {"RPAREN"}, 0)
    BY <1>6 DEF Expr, NoNode
  <2> QED  BY <1>1, <1>2, <1>3, <1>4, <1>6, <2>1, CallKeeps
<1>7. ASSUME Parse(cur, 2, "system") PROVE ParseInv'
  <2>1. Call(cur, 2, 0, "system", 0, {}, 0) /\ {} \in SUBSET Terminators
    BY <1>7 DEF Parse, NoNode
  <2> QED  BY <1>1, <1>2, <1>4, <2>1, CallKeeps
<1>8. ASSUME Top.type \in DOMAIN NudNode, Call(cur, 2, 0, "nud", NoNode, Top.term, 0) PROVE ParseInv'
  <2>1. Call(cur, 2, 0, "nud", 0, Top.term, 0)
    BY <1>8 DEF NoNode
  <2>2. cur \in 1..Len(toks) /\ toks[cur] \in DOMAIN NudNode
    BY <1>1, <1>8 DEF Known
  <2>3. Active /\ Top.fn = "expr" /\ ~overread
    BY <1>1
  <2> QED  BY <1>2, <1>4, <2>1, <2>2, <2>3, CallKeeps
<1> QED  BY <1>1, <1>2, <1>5, <1>6, <1>7, <1>8, FailKeeps DEF ExprHead

LEMMA ExprLoopKeeps == ParseInv /\ ExprLoop => ParseInv'
<1> SUFFICES ASSUME ParseInv, ExprLoop PROVE ParseInv'
  OBVIOUS
<1>1. /\ Active /\ Top.fn = "expr" /\ Top.at = 3 /\ Top \in FrameRecord
      /\ FrameOk(Top, Len(nodes)) /\ Known(Top, cur, toks)
      /\ overread => cur >= Len(toks) /\ Top.type = "LPAREN"
  BY ExprFacts DEF ExprLoop, At
<1>2. /\ cur \in Nat /\ cur <= cur /\ Len(toks) \in Nat
      /\ Top.term \in SUBSET Terminators /\ Top.bp \in 0..21 /\ Top.node \in Nat
  <2>1. cur \in Nat /\ cur <= cur /\ Len(toks) \in Nat
    BY Typed DEF ParseInv
  <2>2. Top.bp \in Nat /\ Top.node \in Nat
    BY <1>1, FrameFacts
  <2>3. Top.term \in SUBSET Terminators /\ Top.bp <= 21
    BY <1>1 DEF FrameOk
  <2>4. Top.bp \in 0..21
    BY <2>2, <2>3
  <2> QED  BY <2>1, <2>2, <2>3, <2>4
<1>3. ASSUME Top.type \in Top.term, Done(cur) PROVE ParseInv'
  <2>1. ~overread
    BY <1>1, <1>2, <1>3 DEF Terminators
  <2> QED  BY <1>1, <1>2, <1>3, <2>1, DoneKeeps
<1>4. ASSUME cur' = cur, ret' = Err, stk' = Front(stk), overread' = (overread \/ cur >= Len(toks)),
             UNCHANGED <<toks, nodes, out, lost>>
      PROVE  ParseInv'
  <2>1. stk # <<>> /\ out = "parsing" /\ overread \in BOOLEAN
    BY <1>1 DEF Active, ParseInv, TypeOK
  <2>2. overread' \in BOOLEAN /\ (overread' => cur' >= Len(toks) /\ ret' = Err) /\ cur' \in Nat
    BY <1>1, <1>2, <1>4, <2>1
  <2>3. toks' = toks /\ nodes' = nodes /\ out' = out /\ lost' = lost
    BY <1>4
  <2> QED  BY <1>4, <2>1, <2>2, <2>3, RetFacts, PopStep
\* A call binds tighter than any operator.
<1>5. ASSUME Looser(LedLeft(Top.type), Top.bp), Done(cur) PROVE ParseInv'
  <2>1. LedLeft("LPAREN") = 21
    BY DEF LedLeft
  <2>2. ~overread
    <3> SUFFICES ASSUME overread PROVE FALSE
      OBVIOUS
    <3>1. 21 < Top.bp
      BY <1>1, <1>5, <2>1 DEF Looser
    <3>2. \A b \in 0..21 : ~(21 < b)
      OBVIOUS
    <3> QED  BY <1>2, <3>1, <3>2
  <2> QED  BY <1>1, <1>2, <1>5, <2>2, DoneKeeps
<1>6. ASSUME Top.type \in DOMAIN LedNode, Call(cur, 2, 0, "led", Top.node, Top.term, 0) PROVE ParseInv'
  <2>1. "led" \in Functions /\ (cur < Len(toks) => toks[cur + 1] \in DOMAIN LedNode)
    BY <1>1, <1>6 DEF Functions, Known
  <2> QED  BY <1>1, <1>2, <1>6, <2>1, CallKeeps
<1> QED  BY <1>1, <1>3, <1>4, <1>5, <1>6 DEF ExprLoop

-----------------------------------------------------------------------------
(* Operators. *)

LEMMA NudTypes == \A t \in DOMAIN NudNode : NudNode[t] \in NodeTypes
BY DEF NudNode, NodeTypes, ExprTypes

LEMMA LedTypes == \A t \in DOMAIN LedNode : LedNode[t] \in NodeTypes
<1>1. \A t \in DOMAIN LedNode :
        LedNode[t] \in {"ECALL", "EACCESS", "ECAST", "EADD", "ETERNARY"}
                         \union Arithmetics \union Comparisons \union Logicals \union Assigns
  BY DEF LedNode, Arithmetics, Comparisons, Logicals, Assigns
<1> QED  BY <1>1 DEF NodeTypes, ExprTypes, Binaries

\* An operator between two operands binds its right one looser than a call does.
LEMMA LedRights ==
  \A t \in DOMAIN LedNode :
    LedNode[t] \in Binaries \union Assigns \union {"ETERNARY"} => LedRight(t) \in 0..21
<1>1. \A t \in DOMAIN LedNode :
        LedNode[t] \in Binaries \union Assigns \union {"ETERNARY"} => t \notin {"LPAREN", "LBRACKET"}
  BY DEF LedNode, Binaries, Arithmetics, Comparisons, Logicals, Assigns
<1>2. \A t : t \notin {"LPAREN", "LBRACKET"} => LedLeft(t) \in {17, 15, 13, 11, 9, 7, 5, 4, 2}
  BY DEF LedLeft
<1>3. \A t : LedLeft(t) \in {17, 15, 13, 11, 9, 7, 5, 4, 2} => LedRight(t) \in 0..21
  BY DEF LedRight
<1> QED  BY <1>1, <1>2, <1>3

LEMMA OperatorFacts ==
  ASSUME ParseInv, NEW fn \in {"nud", "led"}, Running(fn)
  PROVE  /\ Active /\ Top.fn = fn /\ Known(Top, cur, toks) /\ FrameOk(Top, Len(nodes))
         /\ Top \in FrameRecord /\ Top.node \in Nat /\ Top.term \in SUBSET Terminators
         /\ overread => cur >= Len(toks) /\ Top.fn = "led" /\ Top.at = 0
<1>1. Active /\ Top.fn = fn
  BY DEF Running, Active
<1>2. Known(Top, cur, toks)
  BY <1>1 DEF ParseInv, TokenKnown
<1>3. overread => cur >= Len(toks) /\ Dropped(Top)
  BY <1>1, RetFacts DEF ParseInv, Overrun, Active
<1>4. Len(stk) \in 1..Len(stk) /\ Top \in FrameRecord
  BY <1>1, Typed DEF ParseInv, Active
<1>5. FrameOk(Top, Len(nodes))
  BY <1>4 DEF ParseInv, FramesOk, Top
<1>6. Top.node \in Nat /\ Top.term \in SUBSET Terminators
  BY <1>4, <1>5, FrameFacts DEF FrameOk
<1> QED  BY <1>1, <1>2, <1>3, <1>4, <1>5, <1>6 DEF Dropped

\* The right operand, and what stands between brackets.
LEMMA OperandKeeps ==
  ASSUME ParseInv, NEW fn \in {"nud", "led"}, Running(fn), Top.at > 0, NEW next \in 1..5,
         NEW bp \in 0..21, Operand(next, bp)
  PROVE  ParseInv'
<1>1. Active /\ Top.fn = fn /\ Top.term \in SUBSET Terminators /\ (overread => Top.at = 0)
  BY OperatorFacts
<1>2. cur \in Nat /\ cur <= cur /\ Top.at \in 0..5
  BY Cursor, OperatorFacts, FrameFacts
<1>3. ~overread
  BY <1>1, <1>2
<1>4. Call(cur, next, 0, "expr", 0, Top.term, bp)
  BY DEF Operand, NoNode
<1>5. "expr" \in Functions /\ next \in 0..5 /\ next > 0 /\ Top.fn # "expr"
  BY <1>1 DEF Functions
<1> QED  BY <1>1, <1>2, <1>3, <1>4, <1>5, CallKeeps

LEMMA BracketKeeps ==
  ASSUME ParseInv, NEW fn \in {"nud", "led"}, Running(fn), Top.at > 0, NEW next \in 1..5,
         NEW c \in Nat, cur <= c, NEW skip \in {0, 1}, NEW term \in SUBSET Terminators,
         Call(c, next, skip, "expr", NoNode, term, 0)
  PROVE  ParseInv'
<1>1. Active /\ Top.fn = fn /\ (overread => Top.at = 0)
  BY OperatorFacts
<1>2. Top.at \in 0..5
  BY OperatorFacts, FrameFacts
<1>3. ~overread
  BY <1>1, <1>2
<1>4. Call(c, next, skip, "expr", 0, term, 0)
  BY DEF NoNode
<1>5. "expr" \in Functions /\ next \in 0..5 /\ next > 0 /\ Top.fn # "expr"
  BY <1>1 DEF Functions
<1> QED  BY <1>1, <1>2, <1>3, <1>4, <1>5, CallKeeps

LEMMA ParseExprNudKeeps == ParseInv /\ ParseExprNud => ParseInv'
<1> SUFFICES ASSUME ParseInv, ParseExprNud PROVE ParseInv'
  OBVIOUS
<1>1. Running("nud") /\ cur \in Nat /\ cur <= cur
  BY Cursor DEF ParseExprNud
<1>2. Active /\ Top.fn = "nud" /\ Known(Top, cur, toks) /\ ~overread
  BY <1>1, OperatorFacts
<1>3. ASSUME At(0), nodes' = AddNode(nodes, NudNode[toks[cur]], cur),
             stk' = GotoAs(1, Len(nodes) + 1, Top.type), UNCHANGED <<cur, ret>>, Quiet
      PROVE  ParseInv'
  <2>1. NudNode[toks[cur]] \in NodeTypes
    BY <1>2, <1>3, NudTypes DEF At, Known
  <2> QED  BY <1>1, <1>2, <1>3, <2>1, NodeStep
<1>4. ASSUME At(1), Operand(2, NudRight) PROVE ParseInv'
  BY <1>1, <1>4, OperandKeeps DEF At, NudRight
<1> QED  BY <1>1, <1>2, <1>3, <1>4, DoneKeeps DEF ParseExprNud

LEMMA LedReadKeeps == ParseInv /\ LedRead => ParseInv'
<1> SUFFICES ASSUME ParseInv, LedRead PROVE ParseInv'
  OBVIOUS
<1>1. Running("led") /\ Top.at = 0
  BY DEF LedRead, At
<1>2. /\ Active /\ Top.fn = "led" /\ Known(Top, cur, toks) /\ FrameOk(Top, Len(nodes))
      /\ Top \in FrameRecord /\ Top.node \in Nat /\ (overread => cur >= Len(toks))
  BY <1>1, OperatorFacts
<1>3. CASE cur < Len(toks)
  <2>1. /\ cur' = cur + 1
        /\ nodes' = ParentNode(AddNode(nodes, LedNode[Ahead], cur + 1), Len(nodes) + 1, Top.node)
        /\ stk' = GotoAs(1, Len(nodes) + 1, Ahead)
        /\ ret' = ret /\ toks' = toks /\ out' = out /\ lost' = lost /\ overread' = overread
    BY <1>3 DEF LedRead, Quiet
  <2>2. /\ nodes \in Seq(NodeRec) /\ Len(nodes) \in Nat /\ NodesDoubled(nodes)
        /\ cur \in Nat /\ Len(toks) \in Nat
    BY Typed DEF ParseInv
  <2>3. Ahead \in DOMAIN LedNode /\ Ahead \in Types
    BY <1>1, <1>2, <1>3, NextToken DEF Known
  <2>4. LedNode[Ahead] \in NodeTypes /\ cur + 1 \in Nat
    BY <2>2, <2>3, LedTypes
  <2> DEFINE more == AddNode(nodes, LedNode[Ahead], cur + 1)
  <2>5. more \in Seq(NodeRec) /\ NodesDoubled(more) /\ Len(more) = Len(nodes) + 1
    BY <2>2, <2>4, AddNodeFacts
  <2>6. nodes' = ParentNode(more, Len(nodes) + 1, Top.node)
    BY <2>1
  <2> HIDE DEF more
  <2>7. nodes' \in Seq(NodeRec) /\ NodesDoubled(nodes') /\ Len(nodes') = Len(nodes) + 1
    <3>1. Len(nodes) + 1 \in 1..Len(more)
      BY <2>2, <2>5
    <3> QED  BY <1>2, <2>5, <2>6, <3>1, ParentNodeFacts
  <2>8. PICK f \in FrameRecord :
          /\ GotoAs(1, Len(nodes) + 1, Ahead) = Replaced(f)
          /\ f.fn = Top.fn /\ f.at = 1 /\ f.skip = 0 /\ f.node = Len(nodes) + 1
          /\ f.term = Top.term /\ f.type = Ahead /\ f.bp = Top.bp
    <3>1. 1 \in 0..5 /\ Len(nodes) + 1 \in Nat
      BY <2>2
    <3>2. Active /\ Ahead \in Types
      BY <1>2, <2>3
    <3> QED  BY <3>1, <3>2, GotoAsFacts
  <2>9. FrameOk(f, Len(nodes'))
    <3>1. f.node \in 1..Len(nodes')
      BY <2>2, <2>7, <2>8
    <3> QED  BY <1>2, <2>3, <2>8, <3>1 DEF FrameOk
  <2>10. Known(f, cur', toks) /\ ~overread
    BY <1>2, <1>3, <2>2, <2>8 DEF Known
  <2>11. stk' = [stk EXCEPT ![Len(stk)] = f]
    BY <2>1, <2>8 DEF Replaced
  <2>12. cur' \in Nat /\ cur <= cur' /\ ret' = NoRet /\ Len(nodes) <= Len(nodes')
    BY <1>2, <2>1, <2>2, <2>7 DEF Active
  <2> QED  BY <1>2, <2>1, <2>7, <2>9, <2>10, <2>11, <2>12, TopStep
<1>4. CASE ~(cur < Len(toks))
  BY <1>2, <1>4, Cursor, FailKeeps DEF LedRead
<1> QED  BY <1>3, <1>4

\* An operator has been read.
LEMMA LedWhen ==
  ASSUME ParseInv, NEW types, LedIn(types)
  PROVE  /\ Running("led") /\ Active /\ Top.at > 0 /\ ~overread /\ Top.fn = "led"
         /\ LedNode[Top.type] \in types /\ Top.type \in DOMAIN LedNode
<1>1. Running("led") /\ Top.at # 0 /\ LedNode[Top.type] \in types
  BY DEF LedIn, At
<1>2. /\ Active /\ Top.fn = "led" /\ FrameOk(Top, Len(nodes)) /\ Top \in FrameRecord
      /\ (overread => Top.at = 0)
  BY <1>1, OperatorFacts
<1>3. Top.at > 0
  BY <1>1, <1>2, FrameFacts
<1> QED  BY <1>1, <1>2, <1>3 DEF FrameOk

LEMMA LedCallKeeps == ParseInv /\ LedCall => ParseInv'
<1> SUFFICES ASSUME ParseInv, LedCall PROVE ParseInv'
  OBVIOUS
<1>1. Running("led") /\ Active /\ Top.at > 0 /\ ~overread
  BY LedWhen DEF LedCall
<1>2. {"COMMA", "RPAREN"} \in SUBSET Terminators
  BY DEF Terminators
<1>3. ASSUME NEW c \in Nat, cur <= c, Item(c, 2, {"COMMA", "RPAREN"}) PROVE ParseInv'
  BY <1>1, <1>2, <1>3, BracketKeeps DEF Item
<1> QED  BY <1>1, <1>3, Cursor, DoneKeeps DEF LedCall

LEMMA LedAccessKeeps == ParseInv /\ LedAccess => ParseInv'
<1> SUFFICES ASSUME ParseInv, LedAccess PROVE ParseInv'
  OBVIOUS
<1>1. Running("led") /\ Active /\ Top.at > 0 /\ ~overread
  BY LedWhen DEF LedAccess
<1>2. {"COMMA", "RBRACKET"} \in SUBSET Terminators /\ {"RBRACKET"} \in SUBSET Terminators
  BY DEF Terminators
<1>3. ASSUME Item(cur, 2, {"COMMA", "RBRACKET"}) PROVE ParseInv'
  BY <1>1, <1>2, <1>3, Cursor, BracketKeeps DEF Item
<1>4. ASSUME Expr(cur + 1, 3, "RBRACKET") PROVE ParseInv'
  BY <1>1, <1>2, <1>4, Cursor, BracketKeeps DEF Expr
<1> QED  BY <1>1, <1>3, <1>4, Cursor, DoneKeeps DEF LedAccess

LEMMA LedCastKeeps == ParseInv /\ LedCast => ParseInv'
<1> SUFFICES ASSUME ParseInv, LedCast PROVE ParseInv'
  OBVIOUS
<1>1. Active /\ Top.at > 0 /\ ~overread /\ Top.fn = "led"
  BY LedWhen DEF LedCast
<1>2. ASSUME Parse(cur, 2, "type") PROVE ParseInv'
  <2>1. Call(cur, 2, 0, "type", 0, {}, 0) /\ {} \in SUBSET Terminators
    BY <1>2 DEF Parse, NoNode
  <2>2. "type" \in Functions
    BY Names DEF Functions
  <2> QED  BY <1>1, <2>1, <2>2, Cursor, CallKeeps
<1> QED  BY <1>1, <1>2, Cursor, DoneKeeps DEF LedCast

LEMMA LedTernaryKeeps == ParseInv /\ LedTernary => ParseInv'
<1> SUFFICES ASSUME ParseInv, LedTernary PROVE ParseInv'
  OBVIOUS
<1>1. Running("led") /\ Active /\ Top.at > 0 /\ ~overread
  BY LedWhen DEF LedTernary
<1>2. {"COLON"} \in SUBSET Terminators
  BY DEF Terminators
<1>3. ASSUME Expr(cur, 2, "COLON") PROVE ParseInv'
  BY <1>1, <1>2, <1>3, Cursor, BracketKeeps DEF Expr
<1>4. LedRight("QUESTION") \in 0..21
  BY LedRights DEF LedNode
<1>5. ASSUME Operand(3, LedRight("QUESTION")) PROVE ParseInv'
  BY <1>1, <1>4, <1>5, OperandKeeps
<1> QED  BY <1>1, <1>3, <1>5, Cursor, DoneKeeps DEF LedTernary

LEMMA LedBinaryKeeps == ParseInv /\ LedBinary => ParseInv'
<1> SUFFICES ASSUME ParseInv, LedBinary PROVE ParseInv'
  OBVIOUS
<1>1. /\ Running("led") /\ Active /\ Top.at > 0 /\ ~overread
      /\ LedNode[Top.type] \in Binaries \union Assigns /\ Top.type \in DOMAIN LedNode
  BY LedWhen DEF LedBinary
<1>2. LedRight(Top.type) \in 0..21
  BY <1>1, LedRights
<1>3. ASSUME Operand(2, LedRight(Top.type)) PROVE ParseInv'
  BY <1>1, <1>2, <1>3, OperandKeeps
<1> QED  BY <1>1, <1>3, Cursor, DoneKeeps DEF LedBinary

-----------------------------------------------------------------------------
(* Returns. *)

LEMMA ReturnFacts ==
  ASSUME ParseInv, Returned
  PROVE  /\ stk # <<>> /\ out = "parsing" /\ ret # NoRet /\ Waiting(Top) /\ FrameOk(Top, Len(nodes))
         /\ Top \in FrameRecord /\ ret \in Rets /\ ret.node \in Nat
         /\ overread => ret = Err /\ cur >= Len(toks)
         /\ Len(stk) \in 1..Len(stk) /\ overread \in BOOLEAN
<1>1. stk # <<>> /\ out = "parsing" /\ ret # NoRet
  BY DEF Returned
<1>2. Len(stk) \in 1..Len(stk) /\ Top \in FrameRecord /\ ret \in Rets /\ ret.node \in Nat
  BY <1>1, Typed DEF ParseInv, Rets
<1>3. Waiting(Top) /\ FrameOk(Top, Len(nodes))
  BY <1>1, <1>2 DEF ParseInv, OthersWait, FramesOk, Top
<1>4. overread => ret = Err /\ cur >= Len(toks)
  BY <1>1 DEF ParseInv, Overrun
<1> QED  BY <1>1, <1>2, <1>3, <1>4 DEF ParseInv, TypeOK

LEMMA StmtResumeKeeps == ParseInv /\ StmtResume => ParseInv'
<1> SUFFICES ASSUME ParseInv, StmtResume PROVE ParseInv'
  OBVIOUS
<1>1. /\ stk # <<>> /\ out = "parsing" /\ ret # NoRet /\ ret \in Rets /\ Top.skip \in {0, 1}
      /\ ~overread /\ overread \in BOOLEAN
  BY ReturnFacts, FrameFacts DEF StmtResume
<1>2. cur' = cur + Top.skip /\ cur' \in Nat
  BY <1>1, Cursor DEF StmtResume
<1> QED  BY <1>1, <1>2, PopStep DEF StmtResume, Quiet

LEMMA HandOnKeeps == ParseInv /\ HandOn => ParseInv'
<1> SUFFICES ASSUME ParseInv, HandOn PROVE ParseInv'
  OBVIOUS
<1>1. /\ stk # <<>> /\ out = "parsing" /\ ret # NoRet /\ ret \in Rets
      /\ (overread => cur >= Len(toks)) /\ overread \in BOOLEAN /\ ret = Err
  BY ReturnFacts DEF HandOn
<1> QED  BY <1>1, Cursor, PopStep DEF HandOn, Quiet

\* A function makes what it was given a child of its node: the write is inside of the
\* array, or the node has more than fifteen children now.
LEMMA AdoptKeeps == ParseInv /\ Adopt => ParseInv'
<1> SUFFICES ASSUME ParseInv, Adopt PROVE ParseInv'
  OBVIOUS
<1>1. /\ Returned /\ Top.fn \notin {"expr", "stmt"} /\ ret # Err
      /\ cur' = cur + Top.skip /\ ret' = NoRet
      /\ nodes' = ParentNode(nodes, Top.node, ret.node)
      /\ out' = (IF Fits(nodes, Top.node) THEN out ELSE "overflow")
      /\ toks' = toks /\ stk' = stk /\ lost' = lost /\ overread' = overread
  BY DEF Adopt
<1>2. /\ stk # <<>> /\ out = "parsing" /\ Waiting(Top) /\ FrameOk(Top, Len(nodes))
      /\ Top \in FrameRecord /\ ret.node \in Nat /\ ~overread /\ Len(stk) \in 1..Len(stk)
  BY <1>1, ReturnFacts
<1>3. nodes \in Seq(NodeRec) /\ NodesDoubled(nodes) /\ TypeOK /\ FramesOk /\ OthersWait
  BY Typed DEF ParseInv
<1>4. Top.node \in 1..Len(nodes)
  BY <1>1, <1>2, FrameFacts DEF FrameOk, Waiting, Functions
<1>5. /\ nodes' \in Seq(NodeRec) /\ NodesDoubled(nodes') /\ Len(nodes') = Len(nodes)
      /\ ~Fits(nodes, Top.node) => Len(nodes'[Top.node].kids) > 15
  BY <1>1, <1>2, <1>3, <1>4, ParentNodeFacts
<1>6. TypeOK'
  <2>1. cur' \in Nat
    BY <1>1, <1>2, Cursor, FrameFacts
  <2> QED  BY <1>1, <1>2, <1>3, <1>5, <2>1, RetFacts DEF TypeOK, Rets
<1>7. FramesOk' /\ OthersWait'
  BY <1>1, <1>3, <1>5 DEF FramesOk, OthersWait
<1>8. TokenKnown'
  <2>1. Top' = Top
    BY <1>1 DEF Top
  <2>2. Known(Top, cur', toks')
    BY <1>1, <1>2 DEF Known, Waiting
  <2> QED  BY <2>1, <2>2 DEF TokenKnown
<1>9. ChildrenFit'
  <2>1. out' = "overflow" => Len(nodes'[Top.node].kids) > 15
    BY <1>1, <1>2, <1>5
  <2>2. Top.node \in DOMAIN nodes'
    BY <1>4, <1>5
  <2> QED  BY <2>1, <2>2 DEF ChildrenFit
<1>10. Overrun'
  BY <1>1, <1>2 DEF Overrun
<1> QED  BY <1>5, <1>6, <1>7, <1>8, <1>9, <1>10 DEF ParseInv

\* An expression in parentheses that was an error is forgotten.
LEMMA ExprResumeKeeps == ParseInv /\ ExprResume => ParseInv'
<1> SUFFICES ASSUME ParseInv, ExprResume PROVE ParseInv'
  OBVIOUS
<1>1. /\ Returned /\ Top.fn = "expr" /\ (ret = Err => Top.skip = 1)
      /\ cur' = cur + Top.skip /\ ret' = NoRet /\ lost' = (lost \/ ret = Err)
      /\ toks' = toks /\ nodes' = nodes /\ out' = out /\ overread' = overread
  BY DEF ExprResume
<1>2. /\ stk # <<>> /\ out = "parsing" /\ Waiting(Top) /\ FrameOk(Top, Len(nodes))
      /\ Top \in FrameRecord /\ ret.node \in Nat /\ (overread => ret = Err /\ cur >= Len(toks))
      /\ Len(stk) \in 1..Len(stk) /\ overread \in BOOLEAN
  BY <1>1, ReturnFacts
<1>3. /\ nodes \in Seq(NodeRec) /\ NodesDoubled(nodes) /\ Len(nodes) \in Nat
      /\ TypeOK /\ FramesOk /\ OthersWait /\ stk \in Seq(FrameRecord)
      /\ cur \in Nat /\ Len(toks) \in Nat
  BY Typed DEF ParseInv
<1> DEFINE n == IF ret = Err THEN Top.node ELSE ret.node
           f == [Top EXCEPT !.node = n]
<1>4. stk' = [stk EXCEPT ![Len(stk)] = f]
  BY <1>2, <1>3 DEF ExprResume, Top
<1>5. n \in Nat
  BY <1>2, FrameFacts
<1> HIDE DEF n
<1>6. /\ f \in FrameRecord /\ f.fn = Top.fn /\ f.at = Top.at /\ f.skip = Top.skip /\ f.node = n
      /\ f.term = Top.term /\ f.type = Top.type /\ f.bp = Top.bp
  BY <1>2, <1>5 DEF FrameRecord
<1> HIDE DEF f
<1>7. f.fn = "expr" /\ f.at = 2 /\ Known(f, cur', toks)
  BY <1>1, <1>2, <1>6 DEF Waiting, Known
<1>8. FrameOk(f, Len(nodes'))
  BY <1>1, <1>2, <1>6, Names DEF FrameOk
<1>9. /\ stk' \in Seq(FrameRecord) /\ stk' # <<>> /\ Top' = f
      /\ FramesOk' /\ OthersWait'
  <2>1. Len(nodes') \in Nat /\ Len(nodes) <= Len(nodes')
    BY <1>1, <1>3
  <2> QED  BY <1>1, <1>2, <1>3, <1>4, <1>6, <1>8, <2>1, TopReplaced
<1>10. cur' \in Nat /\ cur <= cur'
  BY <1>1, <1>2, <1>3, FrameFacts
<1>11. TypeOK'
  BY <1>1, <1>3, <1>9, <1>10, RetFacts DEF TypeOK, Rets
<1>12. TokenKnown'
  BY <1>1, <1>7, <1>9 DEF TokenKnown
<1>13. ChildrenFit'
  BY <1>1, <1>2 DEF ChildrenFit
<1>14. Overrun'
  <2>1. overread => Dropped(f)
    BY <1>1, <1>2, <1>6, <1>7 DEF FrameOk, Dropped
  <2>2. overread => cur' >= Len(toks)
    BY <1>2, <1>3, <1>10
  <2> QED  BY <1>1, <1>2, <1>9, <2>1, <2>2 DEF Overrun
<1> QED  BY <1>1, <1>3, <1>9, <1>11, <1>12, <1>13, <1>14 DEF ParseInv

LEMMA FinishKeeps == ParseInv /\ Finish => ParseInv'
<1> SUFFICES ASSUME ParseInv, Finish PROVE ParseInv'
  OBVIOUS
<1>1. /\ out = "parsing" /\ stk = <<>> /\ out' = (IF ret = Err THEN "error" ELSE "ok")
      /\ UNCHANGED <<toks, cur, nodes, stk, ret, lost, overread>>
  BY DEF Finish
<1>2. overread => ret = Err
  BY <1>1 DEF ParseInv, Overrun
<1>3. TypeOK'
  BY <1>1 DEF ParseInv, TypeOK
<1>4. FramesOk' /\ OthersWait' /\ NodesDoubled(nodes')
  BY <1>1 DEF ParseInv, FramesOk, OthersWait
<1>5. TokenKnown' /\ ChildrenFit'
  BY <1>1 DEF TokenKnown, Active, ChildrenFit
<1>6. Overrun'
  BY <1>1, <1>2 DEF ParseInv, Overrun
<1> QED  BY <1>3, <1>4, <1>5, <1>6 DEF ParseInv

-----------------------------------------------------------------------------
(* The theorems. *)

LEMMA InitHolds == Init => ParseInv
<1> SUFFICES ASSUME Init PROVE ParseInv
  OBVIOUS
<1>1. /\ toks \in Texts /\ cur = 1 /\ nodes = AddNode(<<>>, "ROOT", 1)
      /\ stk = <<Frame("root", 1, {}, 0)>> /\ ret = NoRet /\ out = "parsing"
      /\ lost = FALSE /\ overread = FALSE
  BY DEF Init
<1>2. toks \in Seq(TokTypes \union {"NULL"}) /\ Len(toks) > 0
  BY <1>1, TextsAssumption
<1>3. nodes \in Seq(NodeRec) /\ NodesDoubled(nodes) /\ Len(nodes) = 1
  <2>1. "ROOT" \in NodeTypes
    BY DEF NodeTypes, ExprTypes
  <2>2. <<>> \in Seq(NodeRec) /\ NodesDoubled(<<>>) /\ Len(<<>>) = 0
    BY DEF NodesDoubled
  <2> DEFINE none == <<>>
  <2>3. none \in Seq(NodeRec) /\ NodesDoubled(none) /\ Len(none) = 0 /\ 1 \in Nat
    BY <2>2
  <2>4. nodes = AddNode(none, "ROOT", 1)
    BY <1>1
  <2> HIDE DEF none
  <2>5. /\ AddNode(none, "ROOT", 1) \in Seq(NodeRec) /\ NodesDoubled(AddNode(none, "ROOT", 1))
        /\ Len(AddNode(none, "ROOT", 1)) = Len(none) + 1
    BY <2>1, <2>3, AddNodeFacts
  <2> QED  BY <2>3, <2>4, <2>5
<1> DEFINE f == Frame("root", 1, {}, 0)
<1>4. /\ f \in FrameRecord /\ f.fn = "root" /\ f.at = 0 /\ f.skip = 0 /\ f.node = 1
      /\ f.term = {} /\ f.bp = 0
  <2>1. "root" \in DOMAIN NodeOf
    BY Names
  <2> QED  BY <2>1 DEF Frame, FrameRecord
<1> HIDE DEF f
<1>5. stk = <<f>> /\ stk \in Seq(FrameRecord) /\ Len(stk) = 1 /\ stk[1] = f
  BY <1>1, <1>4 DEF f
<1>6. TypeOK
  BY <1>1, <1>2, <1>3, <1>5, RetFacts DEF TypeOK, Rets
<1>7. FramesOk
  <2>1. FrameOk(f, 1)
    BY <1>4 DEF FrameOk
  <2> QED  BY <1>3, <1>5, <2>1 DEF FramesOk
<1>8. OthersWait
  BY <1>1, <1>5 DEF OthersWait
<1>9. TokenKnown
  BY <1>4, <1>5 DEF TokenKnown, Known, Top
<1>10. ChildrenFit /\ Overrun
  BY <1>1 DEF ChildrenFit, Overrun
<1> QED  BY <1>3, <1>6, <1>7, <1>8, <1>9, <1>10 DEF ParseInv

LEMMA StutterKeeps == ParseInv /\ UNCHANGED vars => ParseInv'
BY DEF vars, ParseInv, TypeOK, FramesOk, OthersWait, TokenKnown, Active, Top, ChildrenFit, Overrun

LEMMA StepKeeps == ParseInv /\ [Next]_vars => ParseInv'
BY StutterKeeps, ParseRootKeeps, ParseImportKeeps, ParseFuncKeeps, ParseGlobalDeclKeeps,
   ParseLocalDeclKeeps, ParseArgListKeeps, ParseArgKeeps, ParseTypeKeeps, ParseReturnKeeps,
   ParseCtreeKeeps, ParseWhileKeeps, ParseForKeeps, ParseJumpKeeps, ParseBlockKeeps,
   ParseStmtKeeps, ExprReadKeeps, ExprHeadKeeps, ExprLoopKeeps, ParseSystemKeeps,
   ParseExprNudKeeps, LedReadKeeps, LedCallKeeps, LedAccessKeeps, LedCastKeeps,
   LedTernaryKeeps, LedBinaryKeeps, ExprResumeKeeps, StmtResumeKeeps, AdoptKeeps,
   HandOnKeeps, FinishKeeps
   DEF Next, Step, Stopped

\* TypeOK, for every set of texts: no step of the parser, whatever the text, leaves the
\* types the later stages read.
THEOREM ParserTyped == Spec => []TypeOK
<1>1. ParseInv => TypeOK
  BY DEF ParseInv
<1> QED  BY <1>1, InitHolds, StepKeeps, PTL DEF Spec

\* ChildrenFit, for every set of texts: however ls_parentnode's reversed test lets the
\* capacity of a node's array grow, no child is written outside of it before the sixteenth.
THEOREM ChildrenInside == Spec => []ChildrenFit
<1>1. ParseInv => ChildrenFit
  BY DEF ParseInv
<1> QED  BY <1>1, InitHolds, StepKeeps, PTL DEF Spec

\* OverreadRejected, for every set of texts: a token behind the last one is only read on
\* the way to an error, even when a parenthesis drops the error it was read for.
THEOREM OverreadIsError == Spec => []OverreadRejected
<1>1. ParseInv => OverreadRejected
  BY DEF ParseInv, Overrun, OverreadRejected
<1> QED  BY <1>1, InitHolds, StepKeeps, PTL DEF Spec

-----------------------------------------------------------------------------
(* The tree that is being built. *)

Statements == StmtTypes \union ExprTypes

\* The functions that add children to a node of their own.
Builds(f) == f.fn \in DOMAIN NodeOf \/ (f.fn \in {"nud", "led"} /\ f.at > 0)

\* The types their nodes have; op is the operator.
Kinds(fn, op) ==
  IF fn \in DOMAIN NodeOf THEN {NodeOf[fn]}
  ELSE IF fn = "nud" THEN {"ENOT", "ENEG"} ELSE {LedNode[op]}

\* How many children the node of a function has when it is at a place.
Has(fn, op, at, n) ==
  CASE fn \in {"import", "type", "break", "continue"} -> n = 0
    [] fn = "func" -> n = IF at < 2 THEN at ELSE at - 1
    [] fn \in {"global", "arg"} -> n = IF at = 0 THEN 0 ELSE 1
    [] fn = "local" -> n = IF at = 0 THEN 0 ELSE IF at < 4 THEN 1 ELSE 2
    [] fn = "return" -> n = at
    [] fn \in {"ctree", "while", "for"} -> n = IF at = 0 THEN 0 ELSE at - 1
    [] fn = "nud" -> n = at - 1
    [] fn = "system" -> IF at = 0 THEN n = 0 ELSE n > 0
    [] fn = "led" -> IF LedNode[op] = "ECALL" THEN n > 0 ELSE n = at
    [] OTHER -> TRUE

\* The types of the nodes a function gives back, and of those a frame takes.
Yields(fn) ==
  IF fn \in DOMAIN NodeOf THEN {NodeOf[fn]} ELSE IF fn = "stmt" THEN Statements ELSE ExprTypes
Accepts(ns, f) ==
  IF Builds(f) THEN ChildTypes(ns[f.node].type, Len(ns[f.node].kids) + 1)
  ELSE IF f.fn = "stmt" THEN Statements ELSE ExprTypes

TokOf(ts, i) == IF i \in DOMAIN ts THEN ts[i] ELSE "NULL"

\* The node of a frame has the type the frame is there for, and its number of children
\* once the one that is awaited has come.
Owns(ts, ns, f, awaited) ==
  Builds(f) =>
    /\ f.node \in 1..Len(ns)
    /\ ns[f.node].type \in Kinds(f.fn, f.type)
    /\ Has(f.fn, f.type, f.at, Len(ns[f.node].kids) + awaited)
    /\ f.fn = "type" /\ f.at > 0 => TokOf(ts, ns[f.node].tok) \in TypeKeywords

\* Children exist and are of the kinds that stand in their places.
KidsFit(ns, n) ==
  \A k \in 1..Len(ns[n].kids) :
    ns[n].kids[k] \in 1..Len(ns) /\ ns[ns[n].kids[k]].type \in ChildTypes(ns[n].type, k)

Finished(ts, ns, n) ==
  /\ Len(ns[n].kids) \in Arities(ns[n].type)
  /\ ns[n].type = "TYPE" => TokOf(ts, ns[n].tok) \in TypeKeywords
  /\ ns[n].type = "EATOM" => TokOf(ts, ns[n].tok) \in Atoms

\* An expression has read its operand, and an operator is given one.
HasOperand(ns, f) ==
  (f.fn = "expr" /\ f.at \in {2, 3}) \/ (f.fn = "led" /\ f.at = 0) =>
    f.node \in 1..Len(ns) /\ ns[f.node].type \in ExprTypes

\* Of the nodes, those that are not finished are each in the hands of one frame; a frame
\* waits for a node that fits, and gets one.
Tree(ts, ns, st, r) ==
  /\ \A n \in 1..Len(ns) : KidsFit(ns, n)
  /\ \A n \in 1..Len(ns) :
       Finished(ts, ns, n) \/ \E d \in 1..Len(st) : Builds(st[d]) /\ st[d].node = n
  /\ \A d \in 1..Len(st) : Owns(ts, ns, st[d], IF d < Len(st) \/ r # NoRet THEN 1 ELSE 0)
  /\ \A d, e \in 1..Len(st) :
       Builds(st[d]) /\ Builds(st[e]) /\ st[d].node = st[e].node => d = e
  /\ \A d \in 1..(Len(st) - 1) : Yields(st[d + 1].fn) \subseteq Accepts(ns, st[d])
  /\ st # <<>> /\ r = NoRet => HasOperand(ns, Last(st))
  /\ r # NoRet =>
       /\ r.node \in 1..Len(ns)
       /\ st # <<>> => ns[r.node].type \in Accepts(ns, Last(st))

TreeInv ==
  /\ ~lost /\ ret # Err => Tree(toks, nodes, stk, ret)
  /\ out = "ok" => stk = <<>> /\ ret # Err

-----------------------------------------------------------------------------
(* What a step may do to the nodes, and what stays true of them then. *)

\* The node a frame builds may change, no other; none changes its type.
Spares(ns, ms, f) ==
  /\ Len(ns) <= Len(ms)
  /\ \A n \in 1..Len(ns) :
       /\ ms[n].type = ns[n].type
       /\ ~(Builds(f) /\ n = f.node) => ms[n] = ns[n]

LEMMA Lengths ==
  ASSUME NEW st \in Seq(FrameRecord), st # <<>>
  PROVE  Len(st) \in Nat /\ Len(st) \in 1..Len(st) /\ Last(st) = st[Len(st)] /\ Last(st) \in FrameRecord
<1>1. Len(st) \in Nat /\ Len(st) \in 1..Len(st)
  OBVIOUS
<1>2. Last(st) = st[Len(st)]
  BY DEF Last
<1> QED  BY <1>1, <1>2

\* What the frames below the innermost have and await, and the nodes that are not its own.
Lower(ts, ns, ms, st) ==
  /\ \A d \in 1..Len(st) : d # Len(st) =>
       Owns(ts, ms, st[d], 1) /\ Accepts(ms, st[d]) = Accepts(ns, st[d])
  /\ \A n \in 1..Len(ns) :
       ~(Builds(Last(st)) /\ n = Last(st).node) =>
         /\ KidsFit(ms, n)
         /\ \/ Finished(ts, ms, n)
            \/ \E d \in 1..Len(st) : d # Len(st) /\ Builds(st[d]) /\ st[d].node = n

\* Frames below the innermost keep their nodes.
LEMMA LowerKept ==
  ASSUME NEW ts, NEW ns \in Seq(NodeRec), NEW ms \in Seq(NodeRec),
         NEW st \in Seq(FrameRecord), st # <<>>, NEW r, Tree(ts, ns, st, r),
         Spares(ns, ms, Last(st))
  PROVE  Lower(ts, ns, ms, st)
<1>1. /\ Len(st) \in Nat /\ Len(st) \in 1..Len(st) /\ Last(st) = st[Len(st)]
      /\ Len(ns) \in Nat /\ Len(ms) \in Nat /\ Len(ns) <= Len(ms)
  BY Lengths DEF Spares
<1>2. ASSUME NEW d \in 1..Len(st), d # Len(st)
      PROVE  Owns(ts, ms, st[d], 1) /\ Accepts(ms, st[d]) = Accepts(ns, st[d])
  <2>1. Owns(ts, ns, st[d], 1)
    <3>1. d < Len(st)
      BY <1>1, <1>2
    <3> QED  BY <3>1 DEF Tree
  <2>2. CASE Builds(st[d])
    <3>1. st[d].node \in 1..Len(ns)
      BY <2>1, <2>2 DEF Owns
    <3>2. ~(Builds(Last(st)) /\ st[d].node = Last(st).node)
      BY <1>1, <1>2, <2>2 DEF Tree
    <3>3. ms[st[d].node] = ns[st[d].node]
      BY <3>1, <3>2 DEF Spares
    <3>4. st[d].node \in 1..Len(ms)
      BY <1>1, <3>1
    <3> QED  BY <2>1, <2>2, <3>3, <3>4 DEF Owns, Accepts
  <2>3. CASE ~Builds(st[d])
    BY <2>3 DEF Owns, Accepts
  <2> QED  BY <2>2, <2>3
<1>3. ASSUME NEW n \in 1..Len(ns), ~(Builds(Last(st)) /\ n = Last(st).node)
      PROVE  /\ KidsFit(ms, n)
             /\ \/ Finished(ts, ms, n)
                \/ \E d \in 1..Len(st) : d # Len(st) /\ Builds(st[d]) /\ st[d].node = n
  <2>1. ms[n] = ns[n] /\ \A k \in 1..Len(ns) : ms[k].type = ns[k].type
    BY <1>3 DEF Spares
  <2>2. KidsFit(ns, n)
    BY DEF Tree
  <2>3. KidsFit(ms, n)
    <3> SUFFICES ASSUME NEW k \in 1..Len(ns[n].kids)
                 PROVE  /\ ms[n].kids[k] \in 1..Len(ms)
                        /\ ms[ms[n].kids[k]].type \in ChildTypes(ms[n].type, k)
      BY <2>1 DEF KidsFit
    <3>1. ns[n].kids[k] \in 1..Len(ns) /\ ns[ns[n].kids[k]].type \in ChildTypes(ns[n].type, k)
      BY <2>2 DEF KidsFit
    <3> QED  BY <1>1, <2>1, <3>1
  <2>4. Finished(ts, ns, n) \/ \E d \in 1..Len(st) : Builds(st[d]) /\ st[d].node = n
    BY DEF Tree
  <2>5. Finished(ts, ns, n) => Finished(ts, ms, n)
    BY <2>1 DEF Finished
  <2> QED  BY <1>1, <1>3, <2>3, <2>4, <2>5
<1> QED  BY <1>2, <1>3 DEF Lower

\* The innermost frame goes on as f.
LEMMA TopTree ==
  ASSUME NEW ts, NEW ns \in Seq(NodeRec), NEW ms \in Seq(NodeRec),
         NEW st \in Seq(FrameRecord), st # <<>>, NEW r, Tree(ts, ns, st, r),
         Spares(ns, ms, Last(st)),
         NEW f \in FrameRecord, Yields(f.fn) = Yields(Last(st).fn),
         Builds(f) => IF Builds(Last(st)) THEN f.node = Last(st).node ELSE f.node > Len(ns),
         Builds(Last(st)) => Builds(f),
         Owns(ts, ms, f, 0), HasOperand(ms, f),
         \A n \in 1..Len(ms) :
           n > Len(ns) \/ (Builds(Last(st)) /\ n = Last(st).node) =>
             KidsFit(ms, n) /\ (Finished(ts, ms, n) \/ (Builds(f) /\ f.node = n))
  PROVE  Tree(ts, ms, [st EXCEPT ![Len(st)] = f], NoRet)
<1> DEFINE st2 == [st EXCEPT ![Len(st)] = f]
<1>1. /\ Len(st) \in Nat /\ Len(st) \in 1..Len(st) /\ Last(st) = st[Len(st)]
      /\ Len(ns) \in Nat /\ Len(ms) \in Nat /\ Len(ns) <= Len(ms)
  BY Lengths DEF Spares
<1>2. /\ st2 \in Seq(FrameRecord) /\ Len(st2) = Len(st) /\ st2[Len(st)] = f
      /\ \A d \in 1..Len(st) : d # Len(st) => st2[d] = st[d]
  BY <1>1
<1> HIDE DEF st2
<1>3. st2 # <<>> /\ Last(st2) = f
  BY <1>1, <1>2 DEF Last
<1>4. Lower(ts, ns, ms, st)
  BY LowerKept
<1>5. \A n \in 1..Len(ms) : n \in 1..Len(ns) \/ n > Len(ns)
  BY <1>1
<1>6. \A n \in 1..Len(ms) : KidsFit(ms, n)
  BY <1>4, <1>5 DEF Lower
<1>7. ASSUME NEW n \in 1..Len(ms)
      PROVE  Finished(ts, ms, n) \/ \E d \in 1..Len(st2) : Builds(st2[d]) /\ st2[d].node = n
  <2>1. CASE n > Len(ns) \/ (Builds(Last(st)) /\ n = Last(st).node)
    BY <1>1, <1>2, <2>1
  <2>2. CASE ~(n > Len(ns) \/ (Builds(Last(st)) /\ n = Last(st).node))
    BY <1>2, <1>4, <1>5, <2>2 DEF Lower
  <2> QED  BY <2>1, <2>2
<1>8. ASSUME NEW d \in 1..Len(st2)
      PROVE  Owns(ts, ms, st2[d], IF d < Len(st2) \/ NoRet # NoRet THEN 1 ELSE 0)
  <2>1. CASE d = Len(st)
    <3>1. ~(d < Len(st2))
      BY <1>1, <1>2, <2>1
    <3> QED  BY <1>2, <2>1, <3>1
  <2>2. CASE d # Len(st)
    <3>1. d < Len(st2) /\ st2[d] = st[d]
      BY <1>1, <1>2, <2>2
    <3> QED  BY <1>2, <1>4, <2>2, <3>1 DEF Lower
  <2> QED  BY <2>1, <2>2
<1>9. ASSUME NEW d \in 1..Len(st), d # Len(st), Builds(f), Builds(st[d])
      PROVE  f.node # st[d].node
  <2>1. st[d].node \in 1..Len(ns)
    <3>1. d < Len(st)
      BY <1>1, <1>9
    <3>2. Owns(ts, ns, st[d], 1)
      BY <3>1 DEF Tree
    <3> QED  BY <1>9, <3>2 DEF Owns
  <2>2. CASE Builds(Last(st))
    BY <1>1, <1>9, <2>2 DEF Tree
  <2>3. CASE ~Builds(Last(st))
    BY <1>1, <1>9, <2>1, <2>3
  <2> QED  BY <2>2, <2>3
<1>10. ASSUME NEW d \in 1..Len(st2), NEW e \in 1..Len(st2),
              Builds(st2[d]), Builds(st2[e]), st2[d].node = st2[e].node
       PROVE  d = e
  <2>1. \A x, y \in 1..Len(st) :
          Builds(st[x]) /\ Builds(st[y]) /\ st[x].node = st[y].node => x = y
    BY DEF Tree
  <2> QED  BY <1>2, <1>9, <1>10, <2>1
<1>11. ASSUME NEW d \in 1..(Len(st2) - 1) PROVE Yields(st2[d + 1].fn) \subseteq Accepts(ms, st2[d])
  <2>1. d \in 1..Len(st) /\ d # Len(st) /\ d + 1 \in 1..Len(st) /\ d \in 1..(Len(st) - 1)
    BY <1>1, <1>2
  <2>2. st2[d] = st[d] /\ Yields(st2[d + 1].fn) = Yields(st[d + 1].fn)
    BY <1>1, <1>2, <2>1
  <2>3. Yields(st[d + 1].fn) \subseteq Accepts(ns, st[d])
    BY <2>1 DEF Tree
  <2> QED  BY <1>4, <2>1, <2>2, <2>3 DEF Lower
<1>12. Tree(ts, ms, st2, NoRet)
  BY <1>3, <1>6, <1>7, <1>8, <1>10, <1>11 DEF Tree
<1> QED  BY <1>12 DEF st2

\* The innermost frame waits as f for g.
LEMMA PushTree ==
  ASSUME NEW ts, NEW ns \in Seq(NodeRec), NEW ms \in Seq(NodeRec),
         NEW st \in Seq(FrameRecord), st # <<>>, Tree(ts, ns, st, NoRet),
         Len(ns) <= Len(ms), \A n \in 1..Len(ns) : ms[n] = ns[n],
         NEW f \in FrameRecord, f.fn = Last(st).fn,
         Builds(f) => Builds(Last(st)) /\ f.node = Last(st).node,
         Builds(Last(st)) => Builds(f),
         Owns(ts, ms, f, 1),
         NEW g \in FrameRecord, Yields(g.fn) \subseteq Accepts(ms, f),
         Owns(ts, ms, g, 0), HasOperand(ms, g), Builds(g) => g.node > Len(ns),
         \A n \in 1..Len(ms) : n > Len(ns) => KidsFit(ms, n) /\ Builds(g) /\ g.node = n
  PROVE  Tree(ts, ms, Append([st EXCEPT ![Len(st)] = f], g), NoRet)
<1> DEFINE below == [st EXCEPT ![Len(st)] = f]
           st2 == Append(below, g)
<1>1. /\ Len(st) \in Nat /\ Len(st) \in 1..Len(st) /\ Last(st) = st[Len(st)]
      /\ Len(ns) \in Nat /\ Len(ms) \in Nat /\ Len(ns) <= Len(ms)
  BY Lengths
<1>2. /\ below \in Seq(FrameRecord) /\ Len(below) = Len(st) /\ below[Len(st)] = f
      /\ \A d \in 1..Len(st) : d # Len(st) => below[d] = st[d]
  BY <1>1
<1> HIDE DEF below
<1>3. /\ st2 \in Seq(FrameRecord) /\ Len(st2) = Len(st) + 1 /\ st2[Len(st) + 1] = g
      /\ \A d \in 1..Len(st) : st2[d] = below[d]
  BY <1>1, <1>2
<1> HIDE DEF st2
<1>4. st2 # <<>> /\ Last(st2) = g
  BY <1>1, <1>3 DEF Last
<1>5. Spares(ns, ms, Last(st))
  BY <1>1 DEF Spares
<1>6. Lower(ts, ns, ms, st)
  BY <1>5, LowerKept
<1>7. \A n \in 1..Len(ms) : n \in 1..Len(ns) \/ n > Len(ns)
  BY <1>1
<1>8. ASSUME NEW n \in 1..Len(ms) PROVE KidsFit(ms, n)
  <2>1. CASE n \in 1..Len(ns)
    <3>1. KidsFit(ns, n)
      BY <2>1 DEF Tree
    <3> QED  BY <1>1, <2>1, <3>1 DEF KidsFit
  <2> QED  BY <1>7, <2>1
<1>9. ASSUME NEW n \in 1..Len(ms)
      PROVE  Finished(ts, ms, n) \/ \E d \in 1..Len(st2) : Builds(st2[d]) /\ st2[d].node = n
  <2>1. CASE n > Len(ns)
    <3>1. Len(st) + 1 \in 1..Len(st2)
      BY <1>1, <1>3
    <3> QED  BY <1>3, <2>1, <3>1
  <2>2. CASE n \in 1..Len(ns) /\ Builds(Last(st)) /\ n = Last(st).node
    <3>1. Len(st) \in 1..Len(st2) /\ st2[Len(st)] = f
      BY <1>1, <1>2, <1>3
    <3> QED  BY <2>2, <3>1
  <2>3. CASE n \in 1..Len(ns) /\ ~(Builds(Last(st)) /\ n = Last(st).node)
    <3>1. \A d \in 1..Len(st) : d # Len(st) => d \in 1..Len(st2) /\ st2[d] = st[d]
      BY <1>1, <1>2, <1>3
    <3> QED  BY <1>6, <2>3, <3>1 DEF Lower
  <2> QED  BY <1>7, <2>1, <2>2, <2>3
<1>10. ASSUME NEW d \in 1..Len(st2)
      PROVE  Owns(ts, ms, st2[d], IF d < Len(st2) \/ NoRet # NoRet THEN 1 ELSE 0)
  <2>1. CASE d = Len(st) + 1
    <3>1. ~(d < Len(st2))
      BY <1>1, <1>3, <2>1
    <3> QED  BY <1>3, <2>1, <3>1
  <2>2. CASE d = Len(st)
    <3>1. d < Len(st2) /\ st2[d] = f
      BY <1>1, <1>2, <1>3, <2>2
    <3> QED  BY <3>1
  <2>3. CASE d # Len(st) /\ d # Len(st) + 1
    <3>1. d < Len(st2) /\ st2[d] = st[d] /\ d \in 1..Len(st)
      BY <1>1, <1>2, <1>3, <2>3
    <3> QED  BY <1>6, <2>3, <3>1 DEF Lower
  <2> QED  BY <2>1, <2>2, <2>3
<1>11. ASSUME NEW d \in 1..Len(st), Builds(st2[d])
       PROVE  Builds(st[d]) /\ st2[d].node = st[d].node /\ st2[d].node \in 1..Len(ns)
  <2>1. Builds(st[d]) /\ st2[d].node = st[d].node
    BY <1>1, <1>2, <1>3, <1>11
  <2>2. \E a \in {0, 1} : Owns(ts, ns, st[d], a)
    BY DEF Tree
  <2> QED  BY <2>1, <2>2 DEF Owns
<1>12. ASSUME NEW d \in 1..Len(st2), NEW e \in 1..Len(st2),
              Builds(st2[d]), Builds(st2[e]), st2[d].node = st2[e].node
       PROVE  d = e
  <2>1. \A x, y \in 1..Len(st) :
          Builds(st[x]) /\ Builds(st[y]) /\ st[x].node = st[y].node => x = y
    BY DEF Tree
  <2>2. /\ d \in 1..Len(st) \/ d = Len(st) + 1
        /\ e \in 1..Len(st) \/ e = Len(st) + 1
    BY <1>1, <1>3
  <2>3. CASE d \in 1..Len(st) /\ e \in 1..Len(st)
    BY <1>11, <1>12, <2>1, <2>3
  <2>4. CASE d \in 1..Len(st) /\ e = Len(st) + 1
    BY <1>1, <1>3, <1>11, <1>12, <2>4
  <2>5. CASE d = Len(st) + 1 /\ e \in 1..Len(st)
    BY <1>1, <1>3, <1>11, <1>12, <2>5
  <2> QED  BY <2>2, <2>3, <2>4, <2>5
<1>13. ASSUME NEW d \in 1..(Len(st2) - 1) PROVE Yields(st2[d + 1].fn) \subseteq Accepts(ms, st2[d])
  <2>1. CASE d = Len(st)
    BY <1>1, <1>2, <1>3, <2>1
  <2>2. CASE d # Len(st)
    <3>1. d \in 1..Len(st) /\ d # Len(st) /\ d + 1 \in 1..Len(st) /\ d \in 1..(Len(st) - 1)
      BY <1>1, <1>3, <2>2
    <3>2. st2[d] = st[d] /\ st2[d + 1].fn = st[d + 1].fn
      BY <1>1, <1>2, <1>3, <3>1
    <3>3. Yields(st[d + 1].fn) \subseteq Accepts(ns, st[d])
      BY <3>1 DEF Tree
    <3> QED  BY <1>6, <3>1, <3>2, <3>3 DEF Lower
  <2> QED  BY <2>1, <2>2
<1>14. Tree(ts, ms, st2, NoRet)
  BY <1>4, <1>8, <1>9, <1>10, <1>12, <1>13 DEF Tree
<1> QED  BY <1>14 DEF st2, below

\* The innermost function returns a node of its kind.
LEMMA PopTree ==
  ASSUME NEW ts, NEW ns \in Seq(NodeRec),
         NEW st \in Seq(FrameRecord), st # <<>>, NEW r, Tree(ts, ns, st, r),
         Builds(Last(st)) => Finished(ts, ns, Last(st).node),
         NEW r2, r2 # NoRet, r2.node \in 1..Len(ns), ns[r2.node].type \in Yields(Last(st).fn)
  PROVE  Tree(ts, ns, Front(st), r2)
<1> DEFINE m == Len(st) - 1
           st2 == Front(st)
<1>1. Len(st) \in Nat /\ Len(st) \in 1..Len(st) /\ Last(st) = st[Len(st)]
  BY Lengths
<1>2. /\ st2 \in Seq(FrameRecord) /\ Len(st2) = m
      /\ \A d \in 1..m : st2[d] = st[d]
  <2>1. m \in Nat /\ m <= Len(st)
    BY <1>1
  <2>2. st2 = SubSeq(st, 1, m)
    BY DEF Front
  <2> HIDE DEF m, st2
  <2> QED  BY <1>1, <2>1, <2>2
<1> HIDE DEF st2
<1>3. m \in Nat /\ \A d \in 1..m : d \in 1..Len(st) /\ d < Len(st) /\ d # Len(st)
  BY <1>1
<1>4. \A d \in 1..Len(st) : d # Len(st) => d \in 1..m
  BY <1>1
<1>5. ASSUME NEW n \in 1..Len(ns)
      PROVE  Finished(ts, ns, n) \/ \E d \in 1..Len(st2) : Builds(st2[d]) /\ st2[d].node = n
  <2>1. Finished(ts, ns, n) \/ \E d \in 1..Len(st) : Builds(st[d]) /\ st[d].node = n
    BY DEF Tree
  <2> QED  BY <1>1, <1>2, <1>4, <2>1
<1>6. ASSUME NEW d \in 1..Len(st2)
      PROVE  Owns(ts, ns, st2[d], IF d < Len(st2) \/ r2 # NoRet THEN 1 ELSE 0)
  <2>1. Owns(ts, ns, st[d], 1)
    BY <1>2, <1>3 DEF Tree
  <2> QED  BY <1>2, <2>1
<1>7. ASSUME NEW d \in 1..Len(st2), NEW e \in 1..Len(st2),
              Builds(st2[d]), Builds(st2[e]), st2[d].node = st2[e].node
      PROVE  d = e
  <2>1. \A x, y \in 1..Len(st) :
          Builds(st[x]) /\ Builds(st[y]) /\ st[x].node = st[y].node => x = y
    BY DEF Tree
  <2> QED  BY <1>2, <1>3, <1>7, <2>1
<1>8. ASSUME NEW d \in 1..(Len(st2) - 1) PROVE Yields(st2[d + 1].fn) \subseteq Accepts(ns, st2[d])
  <2>1. d \in 1..(Len(st) - 1) /\ d \in 1..m /\ d + 1 \in 1..m
    BY <1>1, <1>2
  <2> QED  BY <1>2, <2>1 DEF Tree
<1>9. ASSUME st2 # <<>> PROVE ns[r2.node].type \in Accepts(ns, Last(st2))
  <2>1. Len(st2) \in Nat /\ Len(st2) \in 1..Len(st2) /\ Last(st2) = st2[Len(st2)]
    BY <1>2, <1>9, Lengths
  <2>2. m \in 1..(Len(st) - 1) /\ m + 1 = Len(st) /\ Last(st2) = st[m]
    BY <1>1, <1>2, <1>3, <2>1
  <2>3. Yields(st[m + 1].fn) \subseteq Accepts(ns, st[m])
    BY <2>2 DEF Tree
  <2> QED  BY <1>1, <2>2, <2>3
<1>10. \A n \in 1..Len(ns) : KidsFit(ns, n)
  BY DEF Tree
<1>11. Tree(ts, ns, st2, r2)
  BY <1>5, <1>6, <1>7, <1>8, <1>9, <1>10 DEF Tree
<1> QED  BY <1>11 DEF st2

-----------------------------------------------------------------------------
(* The functions, place by place: what their nodes have, and may be given. *)

\* A function goes on to another place with the children it has; is given one of the nodes
\* another function makes; or has all that a node of its kind needs.
Stays(fn, op, at, next) == \A n \in Nat : Has(fn, op, at, n) => Has(fn, op, next, n)
Gains(fn, op, at, next, made) ==
  \A n \in Nat : Has(fn, op, at, n) =>
    /\ Has(fn, op, next, n + 1)
    /\ \A t \in Kinds(fn, op) : made \subseteq ChildTypes(t, n + 1)
Ends(fn, op, at) ==
  \A n \in Nat : Has(fn, op, at, n) => \A t \in Kinds(fn, op) : n \in Arities(t)

\* What ChildTypes gives for the types of the nodes.
LEMMA ChildTypesAre ==
  /\ \A t \in {"FUNCDECL", "GLOBALDECL", "LOCALDECL", "ARG", "ESYSTEM"} : ChildTypes(t, 1) = {"TYPE"}
  /\ ChildTypes("ECAST", 1) = ExprTypes /\ ChildTypes("ECAST", 2) = {"TYPE"}
  /\ ChildTypes("FUNCDECL", 2) = {"ARGLIST"}
  /\ ChildTypes("FUNCDECL", 3) = Statements
  /\ \A k \in Nat : ChildTypes("ARGLIST", k) = {"ARG"}
  /\ \A k \in Nat : ChildTypes("ROOT", k) = {"IMPORT", "FUNCDECL", "GLOBALDECL"}
  /\ \A k \in Nat : ChildTypes("BLOCK", k) = Statements
  /\ ChildTypes("FOR", 1) = ExprTypes \union {"LOCALDECL"}
  /\ ChildTypes("FOR", 2) = ExprTypes /\ ChildTypes("FOR", 3) = ExprTypes
  /\ ChildTypes("FOR", 4) = Statements
  /\ \A t \in {"CTREE", "WHILE"} : ChildTypes(t, 1) = ExprTypes
  /\ \A t \in {"CTREE", "WHILE"} : \A k \in Nat : k > 1 => ChildTypes(t, k) = Statements
  /\ ChildTypes("LOCALDECL", 2) = ExprTypes
  /\ \A k \in Nat : k > 1 => ChildTypes("ESYSTEM", k) = ExprTypes
  /\ \A t \in {"RETURN", "ENOT", "ENEG"} \union (ExprTypes \ {"ECAST", "ESYSTEM"}) :
       \A k \in Nat : ChildTypes(t, k) = ExprTypes
<1>1. \A t \in {"RETURN", "ENOT", "ENEG"} \union (ExprTypes \ {"ECAST", "ESYSTEM"}) :
       t \notin {"FUNCDECL", "GLOBALDECL", "LOCALDECL", "ARG", "ESYSTEM", "ECAST", "ARGLIST", "ROOT",
                 "FOR", "BLOCK", "CTREE", "WHILE"}
  BY DEF ExprTypes, Binaries, Assigns, Arithmetics, Comparisons, Logicals
<1>2. \A t \in {"RETURN", "ENOT", "ENEG"} \union (ExprTypes \ {"ECAST", "ESYSTEM"}) :
       \A k \in Nat : ChildTypes(t, k) = ExprTypes
  BY <1>1 DEF ChildTypes
<1>3. /\ \A t \in {"FUNCDECL", "GLOBALDECL", "LOCALDECL", "ARG", "ESYSTEM"} :
           ChildTypes(t, 1) = {"TYPE"}
      /\ ChildTypes("ECAST", 1) = ExprTypes /\ ChildTypes("ECAST", 2) = {"TYPE"}
      /\ ChildTypes("FUNCDECL", 2) = {"ARGLIST"}
      /\ ChildTypes("FUNCDECL", 3) = Statements
  BY DEF ChildTypes, Statements
<1>4. /\ \A k \in Nat : ChildTypes("ARGLIST", k) = {"ARG"}
      /\ \A k \in Nat : ChildTypes("ROOT", k) = {"IMPORT", "FUNCDECL", "GLOBALDECL"}
      /\ \A k \in Nat : ChildTypes("BLOCK", k) = Statements
      /\ ChildTypes("FOR", 1) = ExprTypes \union {"LOCALDECL"}
      /\ ChildTypes("FOR", 2) = ExprTypes /\ ChildTypes("FOR", 3) = ExprTypes
      /\ ChildTypes("FOR", 4) = Statements
  BY DEF ChildTypes, Statements
<1>5. /\ \A t \in {"CTREE", "WHILE"} : ChildTypes(t, 1) = ExprTypes
      /\ \A t \in {"CTREE", "WHILE"} : \A k \in Nat : k > 1 => ChildTypes(t, k) = Statements
      /\ ChildTypes("LOCALDECL", 2) = ExprTypes
      /\ \A k \in Nat : k > 1 => ChildTypes("ESYSTEM", k) = ExprTypes
  BY DEF ChildTypes, Statements
<1> QED  BY <1>2, <1>3, <1>4, <1>5

\* And what Arities does.
LEMMA AritiesAre ==
  /\ Arities("FUNCDECL") = {3} /\ Arities("ETERNARY") = {3} /\ Arities("FOR") = {4}
  /\ Arities("CTREE") = {2, 3} /\ Arities("EACCESS") = {2, 3}
  /\ \A t \in {"LOCALDECL", "WHILE", "ECAST"} \union Binaries \union Assigns : Arities(t) = {2}
  /\ \A t \in {"GLOBALDECL", "ARG", "ENEG", "ENOT"} : Arities(t) = {1}
  /\ Arities("RETURN") = {0, 1}
  /\ Arities("ESYSTEM") = Nat \ {0} /\ Arities("ECALL") = Nat \ {0}
  /\ \A t \in {"IMPORT", "BREAK", "CONTINUE", "TYPE", "EATOM"} : Arities(t) = {0}
  /\ \A t \in {"ROOT", "ARGLIST", "BLOCK"} : Arities(t) = Nat
<1>1. \A t \in {"FUNCDECL", "ETERNARY", "FOR", "CTREE", "EACCESS", "GLOBALDECL", "ARG", "ENEG", "ENOT",
               "RETURN", "ESYSTEM", "ECALL", "IMPORT", "BREAK", "CONTINUE", "TYPE", "EATOM",
               "ROOT", "ARGLIST", "BLOCK"} :
        t \notin {"LOCALDECL", "WHILE", "ECAST", "EADD"}
                  \union Arithmetics \union Comparisons \union Logicals \union Assigns
  BY DEF Arithmetics, Comparisons, Logicals, Assigns
<1>2. /\ Arities("FUNCDECL") = {3} /\ Arities("ETERNARY") = {3} /\ Arities("FOR") = {4}
      /\ Arities("CTREE") = {2, 3} /\ Arities("EACCESS") = {2, 3}
  BY <1>1 DEF Arities
<1>3. \A t \in {"LOCALDECL", "WHILE", "ECAST"} \union Binaries \union Assigns : Arities(t) = {2}
  BY <1>1 DEF Arities, Binaries
<1>4. /\ \A t \in {"GLOBALDECL", "ARG", "ENEG", "ENOT"} : Arities(t) = {1}
      /\ Arities("RETURN") = {0, 1}
  BY <1>1 DEF Arities
<1>5. /\ Arities("ESYSTEM") = Nat \ {0} /\ Arities("ECALL") = Nat \ {0}
      /\ \A t \in {"IMPORT", "BREAK", "CONTINUE", "TYPE", "EATOM"} : Arities(t) = {0}
      /\ \A t \in {"ROOT", "ARGLIST", "BLOCK"} : Arities(t) = Nat
  BY <1>1 DEF Arities
<1> QED  BY <1>2, <1>3, <1>4, <1>5

\* What the functions give back.
LEMMA YieldsAre ==
  /\ \A fn \in DOMAIN NodeOf : Yields(fn) = {NodeOf[fn]}
  /\ Yields("stmt") = Statements
  /\ Yields("expr") = ExprTypes /\ Yields("nud") = ExprTypes /\ Yields("led") = ExprTypes
  /\ \A t \in DOMAIN Stmts : Yields(Stmts[t]) \subseteq Statements
  /\ Yields("system") \subseteq ExprTypes
<1>1. \A fn \in DOMAIN NodeOf : Yields(fn) = {NodeOf[fn]}
  BY DEF Yields
<1>2. /\ Yields("stmt") = Statements
      /\ Yields("expr") = ExprTypes /\ Yields("nud") = ExprTypes /\ Yields("led") = ExprTypes
  BY Names DEF Yields
<1>3. ASSUME NEW t \in DOMAIN Stmts PROVE Stmts[t] \in DOMAIN NodeOf /\ NodeOf[Stmts[t]] \in StmtTypes
  BY DEF Stmts, NodeOf, StmtTypes
<1>4. "system" \in DOMAIN NodeOf /\ NodeOf["system"] \in ExprTypes
  BY DEF NodeOf, ExprTypes
<1> QED  BY <1>1, <1>2, <1>3, <1>4 DEF Statements

LEMMA KindsAre == \A fn \in DOMAIN NodeOf : \A op : Kinds(fn, op) = {NodeOf[fn]}
BY DEF Kinds

LEMMA ForPlaces ==
  ASSUME NEW op
  PROVE  /\ Stays("for", op, 0, 1)
         /\ Gains("for", op, 1, 2, Yields("local")) /\ Gains("for", op, 1, 2, Yields("expr"))
         /\ Gains("for", op, 2, 3, Yields("expr")) /\ Gains("for", op, 3, 4, Yields("expr"))
         /\ Gains("for", op, 4, 5, Yields("stmt"))
         /\ Ends("for", op, 5)
<1>1. Kinds("for", op) = {"FOR"} /\ Yields("local") = {"LOCALDECL"}
  BY KindsAre, YieldsAre DEF NodeOf
<1>2. \A at \in 0..5 : \A n \in Nat : Has("for", op, at, n) <=> n = IF at = 0 THEN 0 ELSE at - 1
  BY DEF Has
<1>3. Arities("FOR") = {4}
  BY AritiesAre
<1> QED  BY <1>1, <1>2, <1>3, ChildTypesAre, YieldsAre DEF Stays, Gains, Ends

LEMMA RootPlaces ==
  ASSUME NEW op
  PROVE  \A at \in 0..5 :
           /\ \A t \in DOMAIN RootElements : Gains("root", op, at, 0, Yields(RootElements[t]))
           /\ Ends("root", op, at)
<1>1. Kinds("root", op) = {"ROOT"}
  BY KindsAre DEF NodeOf
<1>2. \A t \in DOMAIN RootElements :
        Yields(RootElements[t]) \subseteq {"IMPORT", "FUNCDECL", "GLOBALDECL"}
  <2>1. \A t \in DOMAIN RootElements :
          /\ RootElements[t] \in DOMAIN NodeOf
          /\ NodeOf[RootElements[t]] \in {"IMPORT", "FUNCDECL", "GLOBALDECL"}
    BY DEF RootElements, NodeOf
  <2> QED  BY <2>1, YieldsAre
<1>3. \A at \in 0..5 : \A n \in Nat : Has("root", op, at, n)
  BY DEF Has
<1> QED  BY <1>1, <1>2, <1>3, ChildTypesAre, AritiesAre DEF Gains, Ends

\* Functions whose nodes have no children.
LEMMA LeafPlaces ==
  ASSUME NEW op, NEW fn \in {"import", "type", "break", "continue"}
  PROVE  /\ \A at, next \in 0..5 : Stays(fn, op, at, next)
         /\ \A at \in 0..5 : Ends(fn, op, at)
<1>1. Kinds(fn, op) \subseteq {"IMPORT", "BREAK", "CONTINUE", "TYPE"}
  BY KindsAre DEF NodeOf
<1>2. \A at \in 0..5 : \A n \in Nat : Has(fn, op, at, n) <=> n = 0
  BY DEF Has
<1> QED  BY <1>1, <1>2, AritiesAre DEF Stays, Ends

LEMMA FuncPlaces ==
  ASSUME NEW op
  PROVE  /\ Gains("func", op, 0, 1, Yields("type"))
         /\ Stays("func", op, 1, 2)
         /\ Gains("func", op, 2, 3, Yields("arglist"))
         /\ Gains("func", op, 3, 4, Yields("stmt"))
         /\ Ends("func", op, 4)
<1>1. Kinds("func", op) = {"FUNCDECL"} /\ Yields("type") = {"TYPE"} /\ Yields("arglist") = {"ARGLIST"}
  BY KindsAre, YieldsAre DEF NodeOf
<1>2. \A at \in 0..5 : \A n \in Nat :
        Has("func", op, at, n) <=> n = IF at < 2 THEN at ELSE at - 1
  BY DEF Has
<1> QED  BY <1>1, <1>2, AritiesAre, ChildTypesAre, YieldsAre DEF Stays, Gains, Ends

\* Global declarations and arguments.
LEMMA TypedPlaces ==
  ASSUME NEW op, NEW fn \in {"global", "arg"}
  PROVE  /\ Gains(fn, op, 0, 1, Yields("type"))
         /\ Stays(fn, op, 1, 2) /\ Stays(fn, op, 2, 3)
         /\ Ends(fn, op, 2) /\ Ends(fn, op, 3)
<1>1. Kinds(fn, op) \subseteq {"GLOBALDECL", "ARG"} /\ Yields("type") = {"TYPE"}
  BY KindsAre, YieldsAre DEF NodeOf
<1>2. \A at \in 0..5 : \A n \in Nat : Has(fn, op, at, n) <=> n = IF at = 0 THEN 0 ELSE 1
  BY DEF Has
<1> QED  BY <1>1, <1>2, AritiesAre, ChildTypesAre, YieldsAre DEF Stays, Gains, Ends

LEMMA LocalDeclPlaces ==
  ASSUME NEW op
  PROVE  /\ Gains("local", op, 0, 1, Yields("type"))
         /\ Stays("local", op, 1, 2) /\ Stays("local", op, 2, 3)
         /\ Gains("local", op, 3, 4, Yields("expr"))
         /\ Ends("local", op, 4)
<1>1. Kinds("local", op) = {"LOCALDECL"} /\ Yields("type") = {"TYPE"}
  BY KindsAre, YieldsAre DEF NodeOf
<1>2. \A at \in 0..5 : \A n \in Nat :
        Has("local", op, at, n) <=> n = IF at = 0 THEN 0 ELSE IF at < 4 THEN 1 ELSE 2
  BY DEF Has
<1> QED  BY <1>1, <1>2, AritiesAre, ChildTypesAre, YieldsAre DEF Stays, Gains, Ends

LEMMA ArgListPlaces ==
  ASSUME NEW op
  PROVE  /\ \A at, next \in 0..5 : Stays("arglist", op, at, next)
         /\ \A at, next \in 0..5 : Gains("arglist", op, at, next, Yields("arg"))
         /\ \A at \in 0..5 : Ends("arglist", op, at)
<1>1. Kinds("arglist", op) = {"ARGLIST"} /\ Yields("arg") = {"ARG"}
  BY KindsAre, YieldsAre DEF NodeOf
<1>2. \A at \in 0..5 : \A n \in Nat : Has("arglist", op, at, n)
  BY DEF Has
<1> QED  BY <1>1, <1>2, AritiesAre, ChildTypesAre DEF Stays, Gains, Ends

LEMMA BlockPlaces ==
  ASSUME NEW op
  PROVE  \A at \in 0..5 : Gains("block", op, at, 0, Yields("stmt")) /\ Ends("block", op, at)
<1>1. Kinds("block", op) = {"BLOCK"}
  BY KindsAre DEF NodeOf
<1>2. \A at \in 0..5 : \A n \in Nat : Has("block", op, at, n)
  BY DEF Has
<1> QED  BY <1>1, <1>2, AritiesAre, ChildTypesAre, YieldsAre DEF Gains, Ends

LEMMA ReturnPlaces ==
  ASSUME NEW op
  PROVE  /\ Gains("return", op, 0, 1, Yields("expr"))
         /\ Ends("return", op, 0) /\ Ends("return", op, 1)
<1>1. Kinds("return", op) = {"RETURN"}
  BY KindsAre DEF NodeOf
<1>2. \A at \in 0..5 : \A n \in Nat : Has("return", op, at, n) <=> n = at
  BY DEF Has
<1> QED  BY <1>1, <1>2, AritiesAre, ChildTypesAre, YieldsAre DEF Gains, Ends

\* Branches and while loops.
LEMMA CtreePlaces ==
  ASSUME NEW op, NEW fn \in {"ctree", "while"}
  PROVE  /\ Stays(fn, op, 0, 1)
         /\ Gains(fn, op, 1, 2, Yields("expr"))
         /\ Gains(fn, op, 2, 3, Yields("stmt")) /\ Gains(fn, op, 3, 4, Yields("stmt"))
         /\ Ends(fn, op, 3) /\ (fn = "ctree" => Ends(fn, op, 4))
<1>1. Kinds(fn, op) = {IF fn = "ctree" THEN "CTREE" ELSE "WHILE"}
  BY KindsAre DEF NodeOf
<1>2. \A at \in 0..5 : \A n \in Nat : Has(fn, op, at, n) <=> n = IF at = 0 THEN 0 ELSE at - 1
  BY DEF Has
<1> QED  BY <1>1, <1>2, AritiesAre, ChildTypesAre, YieldsAre DEF Stays, Gains, Ends

LEMMA SystemPlaces ==
  ASSUME NEW op
  PROVE  /\ Gains("system", op, 0, 1, Yields("type"))
         /\ \A at, next \in 1..5 : Stays("system", op, at, next)
         /\ \A at, next \in 1..5 : Gains("system", op, at, next, Yields("expr"))
         /\ \A at \in 1..5 : Ends("system", op, at)
<1>1. Kinds("system", op) = {"ESYSTEM"} /\ Yields("type") = {"TYPE"}
  BY KindsAre, YieldsAre DEF NodeOf
<1>2. \A at \in 0..5 : \A n \in Nat : Has("system", op, at, n) <=> IF at = 0 THEN n = 0 ELSE n > 0
  BY DEF Has
<1> QED  BY <1>1, <1>2, AritiesAre, ChildTypesAre, YieldsAre DEF Stays, Gains, Ends

LEMMA NudPlaces ==
  ASSUME NEW op
  PROVE  Gains("nud", op, 1, 2, Yields("expr")) /\ Ends("nud", op, 2)
<1>1. Kinds("nud", op) = {"ENOT", "ENEG"}
  BY Names DEF Kinds
<1>2. \A at \in 0..5 : \A n \in Nat : Has("nud", op, at, n) <=> n = at - 1
  BY DEF Has
<1> QED  BY <1>1, <1>2, AritiesAre, ChildTypesAre, YieldsAre DEF Gains, Ends

\* Operators between operands, by the types of their nodes.
LEMMA LedPlaces ==
  ASSUME NEW op \in DOMAIN LedNode
  PROVE  /\ LedNode[op] = "ECALL" =>
              /\ \A at, next \in 1..5 : Gains("led", op, at, next, Yields("expr"))
              /\ \A at \in 1..5 : Ends("led", op, at)
         /\ LedNode[op] = "ECAST" => Gains("led", op, 1, 2, Yields("type"))
         /\ LedNode[op] \notin {"ECALL", "ECAST"} =>
              \A at \in 1..4 : Gains("led", op, at, at + 1, Yields("expr"))
         /\ LedNode[op] \in {"ECAST", "EACCESS"} \union Binaries \union Assigns => Ends("led", op, 2)
         /\ LedNode[op] \in {"ETERNARY", "EACCESS"} => Ends("led", op, 3)
<1>1. Kinds("led", op) = {LedNode[op]} /\ LedNode[op] \in ExprTypes \ {"ESYSTEM"} /\ Yields("type") = {"TYPE"}
  <2>1. LedNode[op] \in {"ECALL", "EACCESS", "ECAST", "ETERNARY"} \union Binaries \union Assigns
    BY DEF LedNode, Binaries, Arithmetics, Comparisons, Logicals, Assigns
  <2>2. "ESYSTEM" \notin {"ECALL", "EACCESS", "ECAST", "ETERNARY"} \union Binaries \union Assigns
    BY DEF Binaries, Arithmetics, Comparisons, Logicals, Assigns
  <2>3. Kinds("led", op) = {LedNode[op]}
    BY Names DEF Kinds
  <2>4. "type" \in DOMAIN NodeOf /\ NodeOf["type"] = "TYPE"
    BY DEF NodeOf
  <2> QED  BY <2>1, <2>2, <2>3, <2>4, YieldsAre DEF ExprTypes
<1>2. \A at \in 0..5 : \A n \in Nat :
        Has("led", op, at, n) <=> IF LedNode[op] = "ECALL" THEN n > 0 ELSE n = at
  BY DEF Has
<1>3. \A t \in {"ECAST", "EACCESS"} \union Binaries \union Assigns : t # "ECALL" /\ 2 \in Arities(t)
  <2>1. "ECALL" \notin Binaries \union Assigns
    BY DEF Binaries, Arithmetics, Comparisons, Logicals, Assigns
  <2> QED  BY <2>1, AritiesAre
<1>4. LedNode[op] = "ECALL" =>
        /\ \A at, next \in 1..5 : Gains("led", op, at, next, Yields("expr"))
        /\ \A at \in 1..5 : Ends("led", op, at)
  BY <1>1, <1>2, AritiesAre, ChildTypesAre, YieldsAre DEF Gains, Ends
<1>5. LedNode[op] = "ECAST" => Gains("led", op, 1, 2, Yields("type"))
  BY <1>1, <1>2, ChildTypesAre DEF Gains
<1>6. LedNode[op] \notin {"ECALL", "ECAST"} =>
        \A at \in 1..4 : Gains("led", op, at, at + 1, Yields("expr"))
  <2> SUFFICES ASSUME LedNode[op] \notin {"ECALL", "ECAST"}, NEW at \in 1..4
               PROVE  Gains("led", op, at, at + 1, Yields("expr"))
    OBVIOUS
  <2>1. /\ at \in 0..5 /\ at + 1 \in 0..5
        /\ \A n \in Nat : Has("led", op, at, n) <=> n = at
        /\ \A n \in Nat : Has("led", op, at + 1, n) <=> n = at + 1
    BY <1>2
  <2>2. \A k \in Nat : ChildTypes(LedNode[op], k) = ExprTypes
    BY <1>1, ChildTypesAre
  <2> QED  BY <1>1, <2>1, <2>2, YieldsAre DEF Gains
<1>7. LedNode[op] \in {"ECAST", "EACCESS"} \union Binaries \union Assigns => Ends("led", op, 2)
  <2> SUFFICES ASSUME LedNode[op] \in {"ECAST", "EACCESS"} \union Binaries \union Assigns
               PROVE  Ends("led", op, 2)
    OBVIOUS
  <2>1. LedNode[op] # "ECALL" /\ 2 \in Arities(LedNode[op])
    BY <1>3
  <2>2. \A n \in Nat : Has("led", op, 2, n) <=> n = 2
    BY <1>2, <2>1
  <2> QED  BY <1>1, <2>1, <2>2 DEF Ends
<1>8. LedNode[op] \in {"ETERNARY", "EACCESS"} => Ends("led", op, 3)
  BY <1>1, <1>2, AritiesAre DEF Ends
<1> QED  BY <1>4, <1>5, <1>6, <1>7, <1>8

\* A function that has just been entered has a node without children.
LEMMA StartPlaces == \A fn \in DOMAIN NodeOf : Has(fn, "NULL", 0, 0)
BY DEF NodeOf, Has

-----------------------------------------------------------------------------
(* The steps the functions are made of. *)

\* What the invariant says when a function runs and no error was dropped.
LEMMA TreeNow ==
  ASSUME ParseInv, TreeInv, Active, ~lost
  PROVE  /\ Tree(toks, nodes, stk, NoRet) /\ Last(stk) = Top /\ stk # <<>> /\ stk \in Seq(FrameRecord)
         /\ nodes \in Seq(NodeRec) /\ Len(nodes) \in Nat /\ Top \in FrameRecord
         /\ Owns(toks, nodes, Top, 0) /\ HasOperand(nodes, Top) /\ FrameOk(Top, Len(nodes))
         /\ Builds(Top) =>
              /\ Top.node \in 1..Len(nodes) /\ KidsFit(nodes, Top.node)
              /\ Len(nodes[Top.node].kids) \in Nat
              /\ Len(nodes[Top.node].kids) + 0 = Len(nodes[Top.node].kids)
<1>1. /\ stk # <<>> /\ ret = NoRet /\ stk \in Seq(FrameRecord) /\ nodes \in Seq(NodeRec)
      /\ Len(nodes) \in Nat
  BY Typed DEF Active, ParseInv
<1>2. /\ Len(stk) \in Nat /\ Len(stk) \in 1..Len(stk) /\ Last(stk) = stk[Len(stk)]
      /\ Last(stk) = Top /\ Top \in FrameRecord
  BY <1>1, Lengths DEF Top
<1>3. Tree(toks, nodes, stk, NoRet)
  BY <1>1, RetFacts DEF TreeInv
<1>4. Owns(toks, nodes, Top, 0)
  <2>1. ~(Len(stk) < Len(stk)) /\ ~(NoRet # NoRet)
    BY <1>2
  <2>2. Owns(toks, nodes, stk[Len(stk)], IF Len(stk) < Len(stk) \/ NoRet # NoRet THEN 1 ELSE 0)
    BY <1>2, <1>3 DEF Tree
  <2> QED  BY <1>2, <2>1, <2>2
<1>5. HasOperand(nodes, Top)
  BY <1>1, <1>2, <1>3 DEF Tree
<1>6. ASSUME Builds(Top)
      PROVE  /\ Top.node \in 1..Len(nodes) /\ KidsFit(nodes, Top.node)
             /\ Len(nodes[Top.node].kids) \in Nat
             /\ Len(nodes[Top.node].kids) + 0 = Len(nodes[Top.node].kids)
  <2>1. Top.node \in 1..Len(nodes)
    BY <1>4, <1>6 DEF Owns
  <2>2. nodes[Top.node] \in NodeRec
    BY <1>1, <2>1
  <2>3. Len(nodes[Top.node].kids) \in Nat
    BY <2>2, NodeRecFacts
  <2> QED  BY <1>3, <2>1, <2>3 DEF Tree
<1>7. FrameOk(Top, Len(nodes))
  BY <1>2 DEF ParseInv, FramesOk
<1> QED  BY <1>1, <1>2, <1>3, <1>4, <1>5, <1>6, <1>7

LEMMA FailTree ==
  ASSUME TreeInv, Active, NEW c, Fail(c)
  PROVE  TreeInv'
BY DEF Active, Fail, Quiet, TreeInv

\* Declarations, statements and the call of a system function, which have their nodes.
Own == Active /\ Top.fn \in DOMAIN NodeOf

LEMMA OwnBuilds ==
  \A f : f.fn \in DOMAIN NodeOf => Builds(f) /\ f.fn \notin {"expr", "stmt", "nud", "led"}
BY Names DEF Builds

LEMMA TakeTree ==
  ASSUME ParseInv, TreeInv, Own, NEW c, NEW next \in 0..5, Take(c, next),
         Stays(Top.fn, Top.type, Top.at, next), Top.fn # "type"
  PROVE  TreeInv'
<1> DEFINE f == Going(next, 0)
<1>1. /\ stk' = Goto(next, 0) /\ nodes' = nodes /\ ret' = ret
      /\ toks' = toks /\ out' = out /\ lost' = lost /\ ret = NoRet /\ out = "parsing" /\ stk # <<>>
  BY DEF Take, Quiet, Own, Active
<1>2. /\ Goto(next, 0) = [stk EXCEPT ![Len(stk)] = f] /\ f \in FrameRecord
      /\ f.fn = Top.fn /\ f.at = next /\ f.node = Top.node /\ f.type = Top.type
  BY <1>1, GotoFacts
<1> HIDE DEF f
<1> SUFFICES ASSUME ~lost PROVE Tree(toks, nodes, stk', NoRet)
  BY <1>1 DEF TreeInv
<1>3. /\ Tree(toks, nodes, stk, NoRet) /\ Last(stk) = Top /\ stk \in Seq(FrameRecord)
      /\ nodes \in Seq(NodeRec) /\ Len(nodes) \in Nat
      /\ Owns(toks, nodes, Top, 0)
      /\ Builds(Top) =>
           /\ Top.node \in 1..Len(nodes) /\ KidsFit(nodes, Top.node)
           /\ Len(nodes[Top.node].kids) \in Nat
           /\ Len(nodes[Top.node].kids) + 0 = Len(nodes[Top.node].kids)
  BY TreeNow DEF Own
<1>4. Builds(f) /\ Builds(Top) /\ f.fn \notin {"expr", "stmt", "nud", "led"}
  BY <1>2, OwnBuilds DEF Own
<1>5. Spares(nodes, nodes, Last(stk))
  BY <1>3 DEF Spares
<1>6. Owns(toks, nodes, f, 0)
  BY <1>2, <1>3, <1>4 DEF Owns, Stays
<1>7. HasOperand(nodes, f)
  BY <1>4 DEF HasOperand
<1>8. \A n \in 1..Len(nodes) : ~(n > Len(nodes))
  BY <1>3
<1> QED  BY <1>1, <1>2, <1>3, <1>4, <1>5, <1>6, <1>7, <1>8, TopTree

LEMMA ExpectTree ==
  ASSUME ParseInv, TreeInv, Own, NEW type, NEW next \in 0..5, Expect(type, next),
         Stays(Top.fn, Top.type, Top.at, next), Top.fn # "type"
  PROVE  TreeInv'
BY TakeTree, FailTree DEF Expect, Own

\* A type is marked with the keyword it is.
LEMMA MarkTree ==
  ASSUME ParseInv, TreeInv, Own, NEW types, NEW next \in 0..5, Mark(types, next),
         Stays(Top.fn, Top.type, Top.at, next), Top.fn = "type" => types \subseteq TypeKeywords
  PROVE  TreeInv'
<1>1. CASE Ahead \notin types
  BY <1>1, FailTree DEF Mark, Own
<1>2. CASE Ahead \in types
  <2> DEFINE f == Going(next, 0)
             ms == [nodes EXCEPT ![Top.node].tok = cur + 1]
  <2>1. /\ stk' = Goto(next, 0) /\ nodes' = ms /\ ret' = ret
        /\ toks' = toks /\ out' = out /\ lost' = lost /\ ret = NoRet /\ out = "parsing" /\ stk # <<>>
    BY <1>2 DEF Mark, Quiet, Own, Active
  <2>2. /\ Goto(next, 0) = [stk EXCEPT ![Len(stk)] = f] /\ f \in FrameRecord
        /\ f.fn = Top.fn /\ f.at = next /\ f.node = Top.node /\ f.type = Top.type
    BY <2>1, GotoFacts
  <2> HIDE DEF f
  <2> SUFFICES ASSUME ~lost PROVE Tree(toks, ms, stk', NoRet)
    BY <2>1 DEF TreeInv
  <2>3. /\ Tree(toks, nodes, stk, NoRet) /\ Last(stk) = Top /\ stk \in Seq(FrameRecord)
        /\ nodes \in Seq(NodeRec) /\ Len(nodes) \in Nat
        /\ Owns(toks, nodes, Top, 0)
        /\ Builds(Top) =>
             /\ Top.node \in 1..Len(nodes) /\ KidsFit(nodes, Top.node)
             /\ Len(nodes[Top.node].kids) \in Nat
             /\ Len(nodes[Top.node].kids) + 0 = Len(nodes[Top.node].kids)
    BY TreeNow DEF Own
  <2>4. Builds(f) /\ Builds(Top) /\ f.fn \notin {"expr", "stmt", "nud", "led"}
    BY <2>2, OwnBuilds DEF Own
  <2>5. /\ ms \in Seq(NodeRec) /\ Len(ms) = Len(nodes)
        /\ ms[Top.node].tok = cur + 1 /\ ms[Top.node].kids = nodes[Top.node].kids
        /\ ms[Top.node].type = nodes[Top.node].type
        /\ \A n \in 1..Len(nodes) : n # Top.node => ms[n] = nodes[n]
    <3>1. NodesDoubled(nodes) /\ Top.node \in 1..Len(nodes) /\ cur + 1 \in Nat
      BY <2>3, <2>4, Cursor DEF ParseInv
    <3>2. nodes[Top.node] \in NodeRec
      BY <2>3, <3>1
    <3> DEFINE new == [nodes[Top.node] EXCEPT !.tok = cur + 1]
    <3>3. /\ new \in NodeRec /\ new.tok = cur + 1 /\ new.kids = nodes[Top.node].kids
          /\ new.type = nodes[Top.node].type
      BY <3>1, <3>2 DEF NodeRec
    <3>4. ms = [nodes EXCEPT ![Top.node] = new]
      OBVIOUS
    <3> HIDE DEF new, ms
    <3> QED  BY <2>3, <3>1, <3>3, <3>4
  <2>6. TokOf(toks, cur + 1) = Ahead
    BY DEF TokOf, Ahead, Tok
  <2> HIDE DEF ms
  <2>7. Spares(nodes, ms, Last(stk))
    BY <2>3, <2>4, <2>5 DEF Spares
  <2>8. Owns(toks, ms, f, 0)
    BY <1>2, <2>2, <2>3, <2>4, <2>5, <2>6 DEF Owns, Stays
  <2>9. HasOperand(ms, f)
    BY <2>4 DEF HasOperand
  <2>10. /\ \A n \in 1..Len(ms) : ~(n > Len(nodes))
         /\ KidsFit(ms, Top.node)
    <3>1. \A n \in 1..Len(nodes) : ms[n].type = nodes[n].type
      BY <2>5
    <3>2. KidsFit(ms, Top.node)
      BY <2>3, <2>4, <2>5, <3>1 DEF KidsFit
    <3> QED  BY <2>3, <2>5, <3>2
  <2>11. ASSUME NEW n \in 1..Len(ms), n > Len(nodes) \/ (Builds(Last(stk)) /\ n = Last(stk).node)
         PROVE  KidsFit(ms, n) /\ (Finished(toks, ms, n) \/ (Builds(f) /\ f.node = n))
    BY <2>2, <2>3, <2>4, <2>10, <2>11
  <2>12. /\ Yields(f.fn) = Yields(Last(stk).fn)
         /\ Builds(f) => IF Builds(Last(stk)) THEN f.node = Last(stk).node ELSE f.node > Len(nodes)
         /\ Builds(Last(stk)) => Builds(f)
    BY <2>2, <2>3, <2>4
  <2>13. Tree(toks, ms, [stk EXCEPT ![Len(stk)] = f], NoRet)
    BY <2>1, <2>2, <2>3, <2>5, <2>7, <2>8, <2>9, <2>11, <2>12, TopTree
  <2> QED  BY <2>1, <2>2, <2>13
<1> QED  BY <1>1, <1>2

\* Which types a function's node may have.
LEMMA KindFacts ==
  ASSUME NEW f, Builds(f), f.fn = "led" => f.type \in DOMAIN LedNode, NEW t \in Kinds(f.fn, f.type)
  PROVE  t \in Yields(f.fn) /\ (t = "TYPE" => f.fn = "type") /\ t # "EATOM"
<1>1. CASE f.fn \in DOMAIN NodeOf
  <2>1. t = NodeOf[f.fn] /\ Yields(f.fn) = {NodeOf[f.fn]}
    BY <1>1, KindsAre, YieldsAre
  <2>2. \A fn \in DOMAIN NodeOf : (NodeOf[fn] = "TYPE" => fn = "type") /\ NodeOf[fn] # "EATOM"
    BY DEF NodeOf
  <2> QED  BY <1>1, <2>1, <2>2
<1>2. CASE f.fn = "nud"
  <2>1. t \in {"ENOT", "ENEG"} /\ Yields(f.fn) = ExprTypes
    BY <1>2, Names, YieldsAre DEF Kinds
  <2> QED  BY <2>1 DEF ExprTypes
<1>3. CASE f.fn = "led"
  <2>1. t = LedNode[f.type] /\ Yields(f.fn) = ExprTypes
    BY <1>3, Names, YieldsAre DEF Kinds
  <2>2. t \in {"ECALL", "EACCESS", "ECAST", "ETERNARY"} \union Binaries \union Assigns
    BY <1>3, <2>1 DEF LedNode, Binaries, Arithmetics, Comparisons, Logicals, Assigns
  <2>3. {"TYPE", "EATOM"} \intersect
          ({"ECALL", "EACCESS", "ECAST", "ETERNARY"} \union Binaries \union Assigns) = {}
    BY DEF Binaries, Arithmetics, Comparisons, Logicals, Assigns
  <2> QED  BY <2>1, <2>2, <2>3 DEF ExprTypes
<1> QED  BY <1>1, <1>2, <1>3 DEF Builds

LEMMA DoneTree ==
  ASSUME ParseInv, TreeInv, Active, NEW c, Done(c), Top.fn # "stmt",
         Builds(Top) => Ends(Top.fn, Top.type, Top.at),
         Top.fn \in {"nud", "led"} => Builds(Top), Top.fn = "type" => Top.at > 0,
         Top.fn = "expr" => Top.at = 3
  PROVE  TreeInv'
<1>1. /\ stk' = Front(stk) /\ nodes' = nodes /\ ret' = Ok(Top.node)
      /\ toks' = toks /\ out' = out /\ lost' = lost /\ out = "parsing"
  BY DEF Done, Quiet, Active
<1> SUFFICES ASSUME ~lost PROVE Tree(toks, nodes, Front(stk), Ok(Top.node))
  BY <1>1 DEF TreeInv
<1>2. /\ Tree(toks, nodes, stk, NoRet) /\ Last(stk) = Top /\ stk # <<>> /\ stk \in Seq(FrameRecord)
      /\ nodes \in Seq(NodeRec) /\ Top \in FrameRecord /\ FrameOk(Top, Len(nodes))
      /\ Owns(toks, nodes, Top, 0) /\ HasOperand(nodes, Top)
      /\ Builds(Top) =>
           /\ Top.node \in 1..Len(nodes)
           /\ Len(nodes[Top.node].kids) \in Nat
           /\ Len(nodes[Top.node].kids) + 0 = Len(nodes[Top.node].kids)
  BY TreeNow
<1>3. Ok(Top.node) # NoRet /\ Ok(Top.node).node = Top.node
  BY DEF Ok, NoRet
<1>4. ASSUME Builds(Top)
      PROVE  Finished(toks, nodes, Top.node) /\ nodes[Top.node].type \in Yields(Top.fn)
  <2>1. nodes[Top.node].type \in Kinds(Top.fn, Top.type)
    BY <1>2, <1>4 DEF Owns
  <2>2. Top.fn = "led" => Top.type \in DOMAIN LedNode
    BY <1>2, <1>4, Names DEF FrameOk, Builds
  <2>3. /\ nodes[Top.node].type \in Yields(Top.fn)
        /\ nodes[Top.node].type = "TYPE" => Top.fn = "type"
        /\ nodes[Top.node].type # "EATOM"
    BY <1>4, <2>1, <2>2, KindFacts
  <2>4. Len(nodes[Top.node].kids) \in Arities(nodes[Top.node].type)
    BY <1>2, <1>4, <2>1 DEF Owns, Ends
  <2>5. Top.fn = "type" => TokOf(toks, nodes[Top.node].tok) \in TypeKeywords
    BY <1>2, <1>4 DEF Owns
  <2> QED  BY <2>3, <2>4, <2>5 DEF Finished
<1>5. Top.node \in 1..Len(nodes) /\ nodes[Top.node].type \in Yields(Top.fn)
  <2>1. CASE Builds(Top)
    BY <1>2, <1>4, <2>1
  <2>2. CASE ~Builds(Top)
    <3>1. Top.fn = "expr"
      BY <1>2, <2>2, FrameFacts DEF Builds, Functions
    <3> QED  BY <1>2, <3>1, YieldsAre DEF HasOperand
  <2> QED  BY <2>1, <2>2
<1>6. Builds(Last(stk)) => Finished(toks, nodes, Last(stk).node)
  BY <1>2, <1>4
<1> QED  BY <1>2, <1>3, <1>5, <1>6, PopTree

LEMMA AddNodeLast ==
  ASSUME NEW ns \in Seq(NodeRec), NEW type, NEW t
  PROVE  LET ms == AddNode(ns, type, t)
         IN /\ ms[Len(ns) + 1].type = type /\ ms[Len(ns) + 1].tok = t
            /\ ms[Len(ns) + 1].kids = <<>>
BY DEF AddNode

\* The innermost function may go on at next with what fn gives back.
Suits(next, fn, node) ==
  /\ Builds(Top) => Gains(Top.fn, Top.type, Top.at, next, Yields(fn))
  /\ Top.fn = "expr" => Yields(fn) \subseteq ExprTypes
  /\ Top.fn = "stmt" => Yields(fn) \subseteq Statements
  /\ Top.fn \in {"nud", "led"} => Top.at > 0 /\ next > 0
  /\ Top.fn # "type"
  /\ fn = "led" => node \in 1..Len(nodes) /\ (~lost => nodes[node].type \in ExprTypes)

\* A function calls another, which gives back what it can take.
LEMMA CallTree ==
  ASSUME ParseInv, TreeInv, Active, NEW c \in Nat, NEW next \in 0..5, NEW skip \in {0, 1},
         NEW fn \in Functions, NEW node \in Nat, NEW term \in SUBSET Terminators, NEW bp \in 0..21,
         Call(c, next, skip, fn, node, term, bp), Suits(next, fn, node)
  PROVE  TreeInv'
<1> DEFINE adds == fn \in DOMAIN NodeOf
           own == IF adds THEN Len(nodes) + 1 ELSE node
           f == Going(next, skip)
           g == Frame(fn, own, term, bp)
<1>1. /\ stk' = Append(Goto(next, skip), g) /\ ret' = ret
      /\ toks' = toks /\ out' = out /\ lost' = lost /\ ret = NoRet /\ out = "parsing" /\ stk # <<>>
      /\ nodes' = IF adds THEN AddNode(nodes, NodeOf[fn], IF fn \in Marked THEN c ELSE 1) ELSE nodes
  BY DEF Call, Quiet, Active
<1> SUFFICES ASSUME ~lost PROVE Tree(toks, nodes', stk', NoRet)
  BY <1>1 DEF TreeInv
<1>2. /\ Tree(toks, nodes, stk, NoRet) /\ Last(stk) = Top /\ stk \in Seq(FrameRecord)
      /\ nodes \in Seq(NodeRec) /\ Len(nodes) \in Nat /\ NodesDoubled(nodes) /\ Top \in FrameRecord
      /\ Owns(toks, nodes, Top, 0)
      /\ Builds(Top) =>
           /\ Top.node \in 1..Len(nodes) /\ KidsFit(nodes, Top.node)
           /\ Len(nodes[Top.node].kids) \in Nat
           /\ Len(nodes[Top.node].kids) + 0 = Len(nodes[Top.node].kids)
  BY TreeNow DEF ParseInv
<1>3. /\ Goto(next, skip) = [stk EXCEPT ![Len(stk)] = f] /\ f \in FrameRecord
      /\ f.fn = Top.fn /\ f.at = next /\ f.node = Top.node /\ f.type = Top.type
  BY <1>1, GotoFacts
<1>4. /\ g.fn = fn /\ g.at = 0 /\ g.node = own /\ g.type = "NULL"
  BY DEF Frame
<1>5. own \in Nat
  BY <1>2
<1>6. g \in FrameRecord
  <2>1. term \in SUBSET TokTypes /\ bp \in Nat
    BY TerminatorTypes
  <2>2. fn \in DOMAIN NodeOf \union {"stmt", "expr", "nud", "led"}
    BY DEF Functions
  <2>3. 0 \in 0..5 /\ 0 \in {0, 1} /\ "NULL" \in TokTypes \union {"NULL"}
    OBVIOUS
  <2> HIDE DEF own
  <2> QED  BY <1>5, <2>1, <2>2, <2>3 DEF Frame, FrameRecord
<1>7. /\ nodes' \in Seq(NodeRec) /\ Len(nodes') \in Nat /\ Len(nodes) <= Len(nodes')
      /\ \A n \in 1..Len(nodes) : nodes'[n] = nodes[n]
      /\ adds => /\ Len(nodes') = Len(nodes) + 1 /\ nodes'[own].type = NodeOf[fn]
                 /\ nodes'[own].kids = <<>>
      /\ ~adds => Len(nodes') = Len(nodes)
  <2>1. CASE adds
    <3> DEFINE t == IF fn \in Marked THEN c ELSE 1
    <3>1. t \in Nat /\ NodeOf[fn] \in NodeTypes
      BY <2>1, Names
    <3>2. nodes' = AddNode(nodes, NodeOf[fn], t)
      BY <1>1, <2>1
    <3> HIDE DEF t
    <3>3. /\ nodes' \in Seq(NodeRec) /\ Len(nodes') = Len(nodes) + 1
          /\ \A n \in 1..Len(nodes) : nodes'[n] = nodes[n]
      BY <1>2, <3>1, <3>2, AddNodeFacts
    <3>4. nodes'[own].type = NodeOf[fn] /\ nodes'[own].kids = <<>>
      BY <1>2, <2>1, <3>2, AddNodeLast
    <3>5. Len(nodes') \in Nat /\ Len(nodes) <= Len(nodes')
      BY <1>2, <3>3
    <3> QED  BY <2>1, <3>3, <3>4, <3>5
  <2>2. CASE ~adds
    BY <1>1, <1>2, <2>2
  <2> QED  BY <2>1, <2>2
<1>8. adds => own = Len(nodes) + 1
  OBVIOUS
<1>9. ~adds => own = node
  OBVIOUS
<1> HIDE DEF own, f, g
<1>10. Builds(f) <=> Builds(Top)
  BY <1>3, Names DEF Builds, Suits
<1>11. ASSUME Builds(f)
       PROVE  /\ f.node \in 1..Len(nodes') /\ nodes'[f.node] = nodes[f.node]
              /\ nodes[f.node].type \in Kinds(f.fn, f.type)
              /\ Has(f.fn, f.type, next, Len(nodes[f.node].kids) + 1)
              /\ Yields(fn) \subseteq ChildTypes(nodes[f.node].type, Len(nodes[f.node].kids) + 1)
  <2>1. f.node \in 1..Len(nodes)
    BY <1>2, <1>3, <1>10, <1>11
  <2>2. f.node \in 1..Len(nodes') /\ nodes'[f.node] = nodes[f.node]
    BY <1>2, <1>7, <2>1
  <2>3. /\ nodes[f.node].type \in Kinds(f.fn, f.type)
        /\ Has(f.fn, f.type, Top.at, Len(nodes[f.node].kids))
    BY <1>2, <1>3, <1>10, <1>11 DEF Owns
  <2>4. Gains(f.fn, f.type, Top.at, next, Yields(fn)) /\ Len(nodes[f.node].kids) \in Nat
    BY <1>2, <1>3, <1>10, <1>11 DEF Suits
  <2> QED  BY <2>2, <2>3, <2>4 DEF Gains
<1>12. Owns(toks, nodes', f, 1)
  <2>1. f.fn # "type"
    BY <1>3 DEF Suits
  <2> QED  BY <1>3, <1>11, <2>1 DEF Owns
<1>13. Yields(g.fn) \subseteq Accepts(nodes', f)
  <2>1. CASE Builds(f)
    BY <1>4, <1>11, <2>1 DEF Accepts
  <2>2. CASE ~Builds(f)
    <3>1. f.fn \in {"expr", "stmt"}
      BY <1>2, <1>3, <1>10, <2>2, FrameFacts DEF Builds, Functions, Suits
    <3> QED  BY <1>3, <1>4, <2>2, <3>1 DEF Accepts, Suits
  <2> QED  BY <2>1, <2>2
<1>14. Builds(g) <=> adds
  BY <1>4 DEF Builds
<1>15. Owns(toks, nodes', g, 0)
  <2> SUFFICES ASSUME adds PROVE Owns(toks, nodes', g, 0)
    BY <1>14 DEF Owns
  <2>1. g.node \in 1..Len(nodes') /\ ~(g.at > 0)
    BY <1>2, <1>4, <1>7, <1>8
  <2>2. nodes'[g.node].type \in Kinds(g.fn, g.type)
    BY <1>4, <1>7, KindsAre
  <2>3. Len(nodes'[g.node].kids) + 0 = 0
    BY <1>4, <1>7
  <2>4. Has(g.fn, g.type, g.at, 0)
    BY <1>4, StartPlaces
  <2> QED  BY <2>1, <2>2, <2>3, <2>4 DEF Owns
<1>16. HasOperand(nodes', g)
  <2> SUFFICES ASSUME g.fn = "led" PROVE g.node \in 1..Len(nodes') /\ nodes'[g.node].type \in ExprTypes
    BY <1>4 DEF HasOperand
  <2>1. ~adds
    BY <1>4, Names
  <2> QED  BY <1>4, <1>7, <1>9, <2>1 DEF Suits
<1>17. Builds(g) => g.node > Len(nodes)
  BY <1>2, <1>4, <1>8, <1>14
<1>18. ASSUME NEW n \in 1..Len(nodes'), n > Len(nodes)
       PROVE  KidsFit(nodes', n) /\ Builds(g) /\ g.node = n
  <2>1. adds
    BY <1>2, <1>7, <1>18
  <2>2. n = Len(nodes) + 1
    BY <1>2, <1>7, <1>18, <2>1
  <2>3. nodes'[n].kids = <<>>
    BY <1>7, <1>8, <2>1, <2>2
  <2> QED  BY <1>4, <1>8, <1>14, <2>1, <2>2, <2>3 DEF KidsFit
<1>19. Tree(toks, nodes', Append([stk EXCEPT ![Len(stk)] = f], g), NoRet)
  <2>1. /\ f.fn = Last(stk).fn
        /\ Builds(f) => Builds(Last(stk)) /\ f.node = Last(stk).node
        /\ Builds(Last(stk)) => Builds(f)
    BY <1>2, <1>3, <1>10
  <2>2. \A n \in 1..Len(nodes') : n > Len(nodes) => KidsFit(nodes', n) /\ Builds(g) /\ g.node = n
    BY <1>18
  <2>3. /\ nodes \in Seq(NodeRec) /\ nodes' \in Seq(NodeRec) /\ stk \in Seq(FrameRecord) /\ stk # <<>>
        /\ Tree(toks, nodes, stk, NoRet)
    BY <1>1, <1>2, <1>7
  <2>4. Len(nodes) <= Len(nodes') /\ \A n \in 1..Len(nodes) : nodes'[n] = nodes[n]
    BY <1>7
  <2>5. f \in FrameRecord /\ g \in FrameRecord
    BY <1>3, <1>6
  <2> QED  BY <1>12, <1>13, <1>15, <1>16, <1>17, <2>1, <2>2, <2>3, <2>4, <2>5, PushTree
<1> QED  BY <1>1, <1>3, <1>19

\* A declaration or a statement calls another, or holds an expression.
LEMMA ParseTree ==
  ASSUME ParseInv, TreeInv, Own, NEW c \in Nat, NEW next \in 0..5,
         NEW fn \in DOMAIN NodeOf \union {"stmt"}, Parse(c, next, fn),
         Gains(Top.fn, Top.type, Top.at, next, Yields(fn)), Top.fn # "type"
  PROVE  TreeInv'
<1>1. Call(c, next, 0, fn, 0, {}, 0)
  BY DEF Parse, NoNode
<1>2. fn \in Functions /\ fn # "led" /\ Top.fn \notin {"expr", "stmt", "nud", "led"} /\ Active
  BY Names DEF Functions, Own
<1>3. {} \in SUBSET Terminators /\ 0 \in {0, 1} /\ 0 \in Nat /\ 0 \in 0..21
  OBVIOUS
<1>4. Suits(next, fn, 0)
  BY <1>2 DEF Suits
<1> QED  BY <1>1, <1>2, <1>3, <1>4, CallTree

LEMMA ItemTree ==
  ASSUME ParseInv, TreeInv, Own, NEW c \in Nat, NEW next \in 0..5, NEW skip \in {0, 1},
         NEW term \in SUBSET Terminators, Call(c, next, skip, "expr", NoNode, term, 0),
         Gains(Top.fn, Top.type, Top.at, next, Yields("expr")), Top.fn # "type"
  PROVE  TreeInv'
<1>1. Call(c, next, skip, "expr", 0, term, 0)
  BY DEF NoNode
<1>2. "expr" \in Functions /\ Top.fn \notin {"expr", "stmt", "nud", "led"} /\ Active
  BY Names DEF Functions, Own
<1>3. Suits(next, "expr", 0)
  BY <1>2 DEF Suits
<1>4. 0 \in Nat /\ 0 \in 0..21
  OBVIOUS
<1> QED  BY <1>1, <1>2, <1>3, <1>4, CallTree

LEMMA ExprTree ==
  ASSUME ParseInv, TreeInv, Own, NEW next \in 0..5, NEW end \in Terminators, Expr(cur, next, end),
         Gains(Top.fn, Top.type, Top.at, next, Yields("expr")), Top.fn # "type"
  PROVE  TreeInv'
<1>1. Call(cur, next, 1, "expr", NoNode, {end}, 0) /\ {end} \in SUBSET Terminators
  BY DEF Expr
<1> QED  BY <1>1, Cursor, ItemTree

\* A declaration or a statement has all it needs.
LEMMA CloseTree ==
  ASSUME ParseInv, TreeInv, Own, NEW c, Done(c), Ends(Top.fn, Top.type, Top.at),
         Top.fn = "type" => Top.at > 0
  PROVE  TreeInv'
BY OwnBuilds, DoneTree DEF Own

LEMMA OwnWhen ==
  ASSUME NEW fn \in DOMAIN NodeOf, Running(fn)
  PROVE  Own /\ Active /\ Top.fn = fn
BY DEF Own, Running, Active

LEMMA TreeTop == ParseInv /\ Active => Top.at \in 0..5 /\ Top \in FrameRecord
BY Typed, FrameFacts DEF ParseInv, Active

-----------------------------------------------------------------------------
(* Declarations and statements keep the tree. *)

LEMMA RootTree == ParseInv /\ TreeInv /\ ParseRoot => TreeInv'
<1> SUFFICES ASSUME ParseInv, TreeInv, ParseRoot PROVE TreeInv'
  OBVIOUS
<1>1. Own /\ Active /\ Top.fn = "root" /\ cur + 1 \in Nat /\ Top.at \in 0..5
  BY OwnWhen, Names, Cursor, TreeTop DEF ParseRoot
<1>2. 0 \in 0..5 /\ \A t \in DOMAIN RootElements : RootElements[t] \in DOMAIN NodeOf
  BY Tables
<1> QED  BY <1>1, <1>2, RootPlaces, ParseTree, CloseTree, FailTree DEF ParseRoot

LEMMA ImportTree == ParseInv /\ TreeInv /\ ParseImport => TreeInv'
<1> SUFFICES ASSUME ParseInv, TreeInv, ParseImport PROVE TreeInv'
  OBVIOUS
<1>1. Own /\ Active /\ Top.fn = "import" /\ Top.at \in 0..5
  BY OwnWhen, Names, TreeTop DEF ParseImport
<1>2. cur \in Nat /\ cur + 1 \in Nat
  BY Cursor
<1> QED  BY <1>1, <1>2, LeafPlaces, MarkTree, ExpectTree, CloseTree DEF ParseImport, At

LEMMA FuncTree == ParseInv /\ TreeInv /\ ParseFunc => TreeInv'
<1> SUFFICES ASSUME ParseInv, TreeInv, ParseFunc PROVE TreeInv'
  OBVIOUS
<1>1. Own /\ Active /\ Top.fn = "func" /\ Top.at \in 0..5
  BY OwnWhen, Names, TreeTop DEF ParseFunc
<1>2. cur \in Nat /\ cur + 1 \in Nat
  BY Cursor
<1> QED  BY <1>1, <1>2, Names, FuncPlaces, ParseTree, MarkTree, CloseTree DEF ParseFunc, At

LEMMA GlobalDeclTree == ParseInv /\ TreeInv /\ ParseGlobalDecl => TreeInv'
<1> SUFFICES ASSUME ParseInv, TreeInv, ParseGlobalDecl PROVE TreeInv'
  OBVIOUS
<1>1. Own /\ Active /\ Top.fn = "global" /\ Top.at \in 0..5
  BY OwnWhen, Names, TreeTop DEF ParseGlobalDecl
<1>2. cur \in Nat /\ cur + 1 \in Nat
  BY Cursor
<1> QED  BY <1>1, <1>2, Names, TypedPlaces, ParseTree, MarkTree, ExpectTree, CloseTree DEF ParseGlobalDecl, At

LEMMA LocalDeclTree == ParseInv /\ TreeInv /\ ParseLocalDecl => TreeInv'
<1> SUFFICES ASSUME ParseInv, TreeInv, ParseLocalDecl PROVE TreeInv'
  OBVIOUS
<1>1. Own /\ Active /\ Top.fn = "local" /\ Top.at \in 0..5
  BY OwnWhen, Names, TreeTop DEF ParseLocalDecl
<1>2. cur \in Nat /\ cur + 1 \in Nat
  BY Cursor
<1> QED  BY <1>1, <1>2, Names, LocalDeclPlaces, ParseTree, MarkTree, ExpectTree, ExprTree, CloseTree DEF ParseLocalDecl, At, Terminators

LEMMA ArgListTree == ParseInv /\ TreeInv /\ ParseArgList => TreeInv'
<1> SUFFICES ASSUME ParseInv, TreeInv, ParseArgList PROVE TreeInv'
  OBVIOUS
<1>1. Own /\ Active /\ Top.fn = "arglist" /\ Top.at \in 0..5
  BY OwnWhen, Names, TreeTop DEF ParseArgList
<1>2. cur \in Nat /\ cur + 1 \in Nat
  BY Cursor
<1> QED  BY <1>1, <1>2, Names, ArgListPlaces, ParseTree, MarkTree, FailTree, CloseTree DEF ParseArgList, At

LEMMA ArgTree == ParseInv /\ TreeInv /\ ParseArg => TreeInv'
<1> SUFFICES ASSUME ParseInv, TreeInv, ParseArg PROVE TreeInv'
  OBVIOUS
<1>1. Own /\ Active /\ Top.fn = "arg" /\ Top.at \in 0..5
  BY OwnWhen, Names, TreeTop DEF ParseArg
<1>2. cur \in Nat /\ cur + 1 \in Nat
  BY Cursor
<1> QED  BY <1>1, <1>2, Names, TypedPlaces, ParseTree, MarkTree, CloseTree DEF ParseArg, At

LEMMA TypeTree == ParseInv /\ TreeInv /\ ParseType => TreeInv'
<1> SUFFICES ASSUME ParseInv, TreeInv, ParseType PROVE TreeInv'
  OBVIOUS
<1>1. Own /\ Active /\ Top.fn = "type" /\ Top.at \in 0..5
  BY OwnWhen, Names, TreeTop DEF ParseType
<1>2. cur \in Nat /\ cur + 1 \in Nat
  BY Cursor
<1> QED  BY <1>1, <1>2, LeafPlaces, MarkTree, CloseTree DEF ParseType, At

LEMMA ReturnTree == ParseInv /\ TreeInv /\ ParseReturn => TreeInv'
<1> SUFFICES ASSUME ParseInv, TreeInv, ParseReturn PROVE TreeInv'
  OBVIOUS
<1>1. Own /\ Active /\ Top.fn = "return" /\ Top.at \in 0..5
  BY OwnWhen, Names, TreeTop DEF ParseReturn
<1>2. cur \in Nat /\ cur + 1 \in Nat
  BY Cursor
<1> QED  BY <1>1, <1>2, ReturnPlaces, ExprTree, CloseTree DEF ParseReturn, At, Terminators

LEMMA CtreeTree == ParseInv /\ TreeInv /\ ParseCtree => TreeInv'
<1> SUFFICES ASSUME ParseInv, TreeInv, ParseCtree PROVE TreeInv'
  OBVIOUS
<1>1. Own /\ Active /\ Top.fn = "ctree" /\ Top.at \in 0..5
  BY OwnWhen, Names, TreeTop DEF ParseCtree
<1>2. cur \in Nat /\ cur + 1 \in Nat
  BY Cursor
<1> QED  BY <1>1, <1>2, CtreePlaces, ExpectTree, ExprTree, ParseTree, CloseTree DEF ParseCtree, At, Terminators

LEMMA WhileTree == ParseInv /\ TreeInv /\ ParseWhile => TreeInv'
<1> SUFFICES ASSUME ParseInv, TreeInv, ParseWhile PROVE TreeInv'
  OBVIOUS
<1>1. Own /\ Active /\ Top.fn = "while" /\ Top.at \in 0..5
  BY OwnWhen, Names, TreeTop DEF ParseWhile
<1>2. cur \in Nat /\ cur + 1 \in Nat
  BY Cursor
<1> QED  BY <1>1, <1>2, CtreePlaces, ExpectTree, ExprTree, ParseTree, CloseTree DEF ParseWhile, At, Terminators

LEMMA ForTree == ParseInv /\ TreeInv /\ ParseFor => TreeInv'
<1> SUFFICES ASSUME ParseInv, TreeInv, ParseFor PROVE TreeInv'
  OBVIOUS
<1>1. Own /\ Active /\ Top.fn = "for" /\ Top.at \in 0..5
  BY OwnWhen, Names, TreeTop DEF ParseFor
<1>2. cur \in Nat /\ cur + 1 \in Nat
  BY Cursor
<1> QED  BY <1>1, <1>2, Names, ForPlaces, ExpectTree, ExprTree, ParseTree, CloseTree DEF ParseFor, At, Terminators

LEMMA BlockTree == ParseInv /\ TreeInv /\ ParseBlock => TreeInv'
<1> SUFFICES ASSUME ParseInv, TreeInv, ParseBlock PROVE TreeInv'
  OBVIOUS
<1>1. Own /\ Active /\ Top.fn = "block" /\ Top.at \in 0..5
  BY OwnWhen, Names, TreeTop DEF ParseBlock
<1>2. cur \in Nat /\ cur + 1 \in Nat
  BY Cursor
<1> QED  BY <1>1, <1>2, BlockPlaces, ParseTree, CloseTree DEF ParseBlock, At

LEMMA SystemTree == ParseInv /\ TreeInv /\ ParseSystem => TreeInv'
<1> SUFFICES ASSUME ParseInv, TreeInv, ParseSystem PROVE TreeInv'
  OBVIOUS
<1>1. Own /\ Active /\ Top.fn = "system" /\ Top.at \in 0..5
  BY OwnWhen, Names, TreeTop DEF ParseSystem
<1>2. cur \in Nat /\ cur + 1 \in Nat
  BY Cursor
<1> QED  BY <1>1, <1>2, Names, SystemPlaces, ParseTree, MarkTree, ExpectTree, ItemTree, CloseTree DEF ParseSystem, At, Item, Terminators

LEMMA JumpTree == ParseInv /\ TreeInv /\ ParseJump => TreeInv'
<1> SUFFICES ASSUME ParseInv, TreeInv, ParseJump PROVE TreeInv'
  OBVIOUS
<1>1. Own /\ Active /\ Top.fn \in {"break", "continue"} /\ Top.at \in 0..5
  BY OwnWhen, Names, TreeTop DEF ParseJump
<1> QED  BY <1>1, LeafPlaces, ExpectTree, CloseTree DEF ParseJump, At

\* A statement is what its first token says, or an expression.
LEMMA StmtTree == ParseInv /\ TreeInv /\ ParseStmt => TreeInv'
<1> SUFFICES ASSUME ParseInv, TreeInv, ParseStmt PROVE TreeInv'
  OBVIOUS
<1>1. /\ Active /\ Top.fn = "stmt" /\ ~Builds(Top) /\ cur \in Nat /\ cur + 1 \in Nat
      /\ {} \in SUBSET Terminators /\ {"SEMICOLON"} \in SUBSET Terminators
  BY Names, Cursor DEF ParseStmt, Running, Active, Builds, Terminators
<1>2. ASSUME Ahead \in DOMAIN Stmts, Parse(cur + 1, 1, Stmts[Ahead]) PROVE TreeInv'
  <2>1. Call(cur + 1, 1, 0, Stmts[Ahead], 0, {}, 0)
    BY <1>2 DEF Parse, NoNode
  <2>2. /\ Stmts[Ahead] \in Functions /\ Stmts[Ahead] # "led"
        /\ Yields(Stmts[Ahead]) \subseteq Statements
    BY <1>2, Tables, Names, YieldsAre DEF Functions
  <2>3. Suits(1, Stmts[Ahead], 0)
    BY <1>1, <2>2 DEF Suits
  <2>4. 1 \in 0..5 /\ 0 \in {0, 1} /\ 0 \in Nat /\ 0 \in 0..21
    OBVIOUS
  <2> QED  BY <1>1, <2>1, <2>2, <2>3, <2>4, CallTree
<1>3. ASSUME Expr(cur, 1, "SEMICOLON") PROVE TreeInv'
  <2>1. Call(cur, 1, 1, "expr", 0, {"SEMICOLON"}, 0)
    BY <1>3 DEF Expr, NoNode
  <2>2. "expr" \in Functions /\ Yields("expr") \subseteq Statements
    BY YieldsAre DEF Functions, Statements
  <2>3. Suits(1, "expr", 0)
    BY <1>1, <2>2 DEF Suits
  <2>4. 1 \in 0..5 /\ 1 \in {0, 1} /\ 0 \in Nat /\ 0 \in 0..21
    OBVIOUS
  <2> QED  BY <1>1, <2>1, <2>2, <2>3, <2>4, CallTree
<1> QED  BY <1>1, <1>2, <1>3, FailTree DEF ParseStmt

-----------------------------------------------------------------------------
(* Expressions keep the tree. *)

\* The innermost function goes on as f, which has no node of its own, or has had it.
LEMMA SameNodes ==
  ASSUME ParseInv, TreeInv, Active, NEW f \in FrameRecord,
         stk' = [stk EXCEPT ![Len(stk)] = f], nodes' = nodes, ret' = NoRet,
         toks' = toks, out' = out, lost' = lost,
         f.fn = "expr", Top.fn = "expr", ~lost => HasOperand(nodes, f)
  PROVE  TreeInv'
<1>1. out = "parsing" /\ stk # <<>> /\ ret = NoRet
  BY DEF Active
<1> SUFFICES ASSUME ~lost PROVE Tree(toks, nodes, stk', NoRet)
  BY <1>1 DEF TreeInv
<1>2. /\ Tree(toks, nodes, stk, NoRet) /\ Last(stk) = Top /\ stk \in Seq(FrameRecord)
      /\ nodes \in Seq(NodeRec) /\ Len(nodes) \in Nat
  BY TreeNow
<1>3. ~Builds(f) /\ ~Builds(Top)
  BY Names DEF Builds
<1>4. Spares(nodes, nodes, Last(stk)) /\ Owns(toks, nodes, f, 0) /\ HasOperand(nodes, f)
  BY <1>2, <1>3 DEF Spares, Owns
<1>5. \A n \in 1..Len(nodes) : ~(n > Len(nodes) \/ (Builds(Last(stk)) /\ n = Last(stk).node))
  BY <1>2, <1>3
<1>6. Yields(f.fn) = Yields(Last(stk).fn)
  BY <1>2
<1>7. Tree(toks, nodes, [stk EXCEPT ![Len(stk)] = f], NoRet)
  BY <1>1, <1>2, <1>3, <1>4, <1>5, <1>6, TopTree
<1> QED  BY <1>7

LEMMA ExprReadTree == ParseInv /\ TreeInv /\ ExprRead => TreeInv'
<1> SUFFICES ASSUME ParseInv, TreeInv, ExprRead PROVE TreeInv'
  OBVIOUS
<1>1. Active /\ Top.fn = "expr" /\ Top \in FrameRecord /\ Top.node \in Nat /\ Top.type \in Types
  BY ExprFacts, FrameFacts DEF ExprRead
<1>2. ~lost => HasOperand(nodes, Top)
  BY <1>1, TreeNow
<1>3. ASSUME NEW at \in {1, 3}, at = 3 => Top.at = 2, NEW t \in Types,
             stk' = GotoAs(at, Top.node, t), UNCHANGED <<nodes, ret>>, Quiet
      PROVE  TreeInv'
  <2>1. PICK f \in FrameRecord :
          /\ GotoAs(at, Top.node, t) = Replaced(f)
          /\ f.fn = Top.fn /\ f.at = at /\ f.skip = 0 /\ f.node = Top.node
          /\ f.term = Top.term /\ f.type = t /\ f.bp = Top.bp
    <3>1. at \in 0..5
      OBVIOUS
    <3> QED  BY <1>1, <3>1, GotoAsFacts
  <2>2. ~lost => HasOperand(nodes, f)
    BY <1>1, <1>2, <1>3, <2>1 DEF HasOperand
  <2>3. /\ stk' = [stk EXCEPT ![Len(stk)] = f] /\ nodes' = nodes /\ ret' = NoRet
        /\ toks' = toks /\ out' = out /\ lost' = lost
    BY <1>1, <1>3, <2>1 DEF Replaced, Quiet, Active
  <2> QED  BY <1>1, <2>1, <2>2, <2>3, SameNodes
<1>4. CASE At(2)
  <2>1. (IF cur < Len(toks) THEN Ahead ELSE Top.type) \in Types
    BY <1>1, NextToken
  <2>2. /\ stk' = GotoAs(3, Top.node, IF cur < Len(toks) THEN Ahead ELSE Top.type)
        /\ UNCHANGED <<nodes, ret>> /\ Quiet
    BY <1>4 DEF ExprRead, At
  <2> QED  BY <1>3, <1>4, <2>1, <2>2 DEF At
<1>5. CASE At(0) /\ cur < Len(toks) /\ stk' = GotoAs(1, Top.node, Ahead)
           /\ UNCHANGED <<nodes, ret>> /\ Quiet
  BY <1>3, <1>5, NextToken
<1> QED  BY <1>1, <1>4, <1>5, FailTree DEF ExprRead

\* The first operand, or the operator in front of it, has a new node.
LEMMA FreshTree ==
  ASSUME ParseInv, TreeInv, Active, NEW f \in FrameRecord, NEW type \in NodeTypes, NEW t \in Nat,
         stk' = [stk EXCEPT ![Len(stk)] = f], nodes' = AddNode(nodes, type, t), ret' = NoRet,
         toks' = toks, out' = out, lost' = lost,
         f.fn = Top.fn, f.node = Len(nodes) + 1,
         \/ /\ Top.fn = "expr" /\ f.at = 2 /\ type = "EATOM" /\ TokOf(toks, t) \in Atoms
         \/ /\ Top.fn = "nud" /\ Top.at = 0 /\ f.at = 1 /\ type \in {"ENOT", "ENEG"}
  PROVE  TreeInv'
<1> DEFINE new == Len(nodes) + 1
<1>1. out = "parsing" /\ stk # <<>> /\ ret = NoRet
  BY DEF Active
<1> SUFFICES ASSUME ~lost PROVE Tree(toks, nodes', stk', NoRet)
  BY <1>1 DEF TreeInv
<1>2. /\ Tree(toks, nodes, stk, NoRet) /\ Last(stk) = Top /\ stk \in Seq(FrameRecord)
      /\ nodes \in Seq(NodeRec) /\ Len(nodes) \in Nat /\ NodesDoubled(nodes)
  BY TreeNow DEF ParseInv
<1>3. /\ nodes' \in Seq(NodeRec) /\ Len(nodes') = new
      /\ \A n \in 1..Len(nodes) : nodes'[n] = nodes[n]
      /\ nodes'[new].type = type /\ nodes'[new].tok = t /\ nodes'[new].kids = <<>>
  <2>1. /\ AddNode(nodes, type, t) \in Seq(NodeRec) /\ Len(AddNode(nodes, type, t)) = new
        /\ \A n \in 1..Len(nodes) : AddNode(nodes, type, t)[n] = nodes[n]
    BY <1>2, AddNodeFacts
  <2>2. /\ AddNode(nodes, type, t)[new].type = type /\ AddNode(nodes, type, t)[new].tok = t
        /\ AddNode(nodes, type, t)[new].kids = <<>>
    BY <1>2, AddNodeLast
  <2> QED  BY <2>1, <2>2
<1>4. new \in 1..Len(nodes') /\ new > Len(nodes) /\ Len(nodes) <= Len(nodes')
  BY <1>2, <1>3
<1>5. \A n \in 1..Len(nodes') : n > Len(nodes) => n = new
  BY <1>2, <1>3
<1>6. f.node = new
  OBVIOUS
<1> HIDE DEF new
<1>7. ~Builds(Top) /\ (Builds(f) <=> f.fn = "nud")
  BY Names DEF Builds
<1>8. Spares(nodes, nodes', Last(stk))
  BY <1>2, <1>3, <1>4 DEF Spares
<1>9. Owns(toks, nodes', f, 0)
  <2> SUFFICES ASSUME f.fn = "nud" PROVE Owns(toks, nodes', f, 0)
    BY <1>7 DEF Owns
  <2>1. type \in Kinds(f.fn, f.type) /\ Len(nodes'[f.node].kids) + 0 = 0
    BY <1>3, <1>6, Names DEF Kinds
  <2>2. Has(f.fn, f.type, f.at, 0)
    BY DEF Has
  <2> QED  BY <1>3, <1>4, <1>6, <2>1, <2>2 DEF Owns
<1>10. HasOperand(nodes', f)
  BY <1>3, <1>4, <1>6 DEF HasOperand, ExprTypes
<1>11. KidsFit(nodes', new)
  BY <1>3 DEF KidsFit
<1>12. f.fn = "expr" => Finished(toks, nodes', new)
  <2> SUFFICES ASSUME f.fn = "expr" PROVE Finished(toks, nodes', new)
    OBVIOUS
  <2>1. Len(nodes'[new].kids) = 0 /\ Arities("EATOM") = {0} /\ type = "EATOM"
    BY <1>3, AritiesAre
  <2> QED  BY <1>3, <2>1 DEF Finished
<1>13. ASSUME NEW n \in 1..Len(nodes'), n > Len(nodes) \/ (Builds(Last(stk)) /\ n = Last(stk).node)
       PROVE  KidsFit(nodes', n) /\ (Finished(toks, nodes', n) \/ (Builds(f) /\ f.node = n))
  BY <1>2, <1>5, <1>6, <1>7, <1>11, <1>12, <1>13
<1>14. /\ Yields(f.fn) = Yields(Last(stk).fn)
       /\ Builds(f) => IF Builds(Last(stk)) THEN f.node = Last(stk).node ELSE f.node > Len(nodes)
       /\ Builds(Last(stk)) => Builds(f)
  BY <1>2, <1>4, <1>6, <1>7
<1>15. Tree(toks, nodes', [stk EXCEPT ![Len(stk)] = f], NoRet)
  BY <1>1, <1>2, <1>3, <1>8, <1>9, <1>10, <1>13, <1>14, TopTree
<1> QED  BY <1>15

LEMMA FreshStep ==
  ASSUME ParseInv, TreeInv, Active, NEW at \in {1, 2}, NEW type \in NodeTypes, NEW t \in Nat,
         nodes' = AddNode(nodes, type, t), stk' = GotoAs(at, Len(nodes) + 1, Top.type),
         UNCHANGED ret, Quiet,
         \/ /\ Top.fn = "expr" /\ at = 2 /\ type = "EATOM" /\ TokOf(toks, t) \in Atoms
         \/ /\ Top.fn = "nud" /\ Top.at = 0 /\ at = 1 /\ type \in {"ENOT", "ENEG"}
  PROVE  TreeInv'
<1>1. PICK f \in FrameRecord :
        /\ GotoAs(at, Len(nodes) + 1, Top.type) = Replaced(f)
        /\ f.fn = Top.fn /\ f.at = at /\ f.skip = 0 /\ f.node = Len(nodes) + 1
        /\ f.term = Top.term /\ f.type = Top.type /\ f.bp = Top.bp
  <2>1. at \in 0..5 /\ Len(nodes) + 1 \in Nat /\ Top.type \in Types
    BY TreeTop, FrameFacts, Typed DEF ParseInv
  <2> QED  BY <2>1, GotoAsFacts
<1>2. /\ stk' = [stk EXCEPT ![Len(stk)] = f] /\ ret' = NoRet
      /\ toks' = toks /\ out' = out /\ lost' = lost
  BY <1>1 DEF Replaced, Quiet, Active
<1> QED  BY <1>1, <1>2, FreshTree

LEMMA ExprHeadTree == ParseInv /\ TreeInv /\ ExprHead => TreeInv'
<1> SUFFICES ASSUME ParseInv, TreeInv, ExprHead PROVE TreeInv'
  OBVIOUS
<1>1. /\ Active /\ Top.fn = "expr" /\ Top.at = 1 /\ FrameOk(Top, Len(nodes)) /\ Known(Top, cur, toks)
      /\ ~Builds(Top) /\ cur \in Nat
  BY ExprFacts, Names, Cursor DEF ExprHead, At, Builds
<1>2. cur \in 1..Len(toks) /\ Top.type = toks[cur] /\ Top.term \in SUBSET Terminators
  BY <1>1 DEF Known, FrameOk
<1>3. {"RPAREN"} \in SUBSET Terminators /\ {} \in SUBSET Terminators
  BY DEF Terminators
<1>4. {"expr", "nud", "system"} \subseteq Functions
  BY Names DEF Functions
<1>5. 2 \in 0..5 /\ 0 \in {0, 1} /\ 0 \in Nat /\ 0 \in 0..21
  OBVIOUS
<1>6. ASSUME Top.type \in Atoms, nodes' = AddNode(nodes, "EATOM", cur),
             stk' = GotoAs(2, Len(nodes) + 1, Top.type), UNCHANGED <<cur, ret>>, Quiet
      PROVE  TreeInv'
  <2>1. "EATOM" \in NodeTypes
    BY DEF NodeTypes, ExprTypes
  <2>2. TokOf(toks, cur) \in Atoms
    BY <1>2, <1>6 DEF TokOf
  <2>3. ret' = ret
    BY <1>6
  <2> QED  BY <1>1, <1>6, <2>1, <2>2, <2>3, FreshStep
<1>7. ASSUME Expr(cur, 2, "RPAREN") PROVE TreeInv'
  <2>1. Call(cur, 2, 1, "expr", 0, {"RPAREN"}, 0)
    BY <1>7 DEF Expr, NoNode
  <2>2. Suits(2, "expr", 0)
    BY <1>1, YieldsAre DEF Suits
  <2>3. 1 \in {0, 1}
    OBVIOUS
  <2> QED  BY <1>1, <1>3, <1>4, <1>5, <2>1, <2>2, <2>3, CallTree
<1>8. ASSUME Parse(cur, 2, "system") PROVE TreeInv'
  <2>1. Call(cur, 2, 0, "system", 0, {}, 0)
    BY <1>8 DEF Parse, NoNode
  <2>2. Suits(2, "system", 0)
    BY <1>1, YieldsAre DEF Suits
  <2> QED  BY <1>1, <1>3, <1>4, <1>5, <2>1, <2>2, CallTree
<1>9. ASSUME Call(cur, 2, 0, "nud", NoNode, Top.term, 0) PROVE TreeInv'
  <2>1. Call(cur, 2, 0, "nud", 0, Top.term, 0)
    BY <1>9 DEF NoNode
  <2>2. Suits(2, "nud", 0)
    BY <1>1, YieldsAre DEF Suits
  <2> QED  BY <1>1, <1>2, <1>4, <1>5, <2>1, <2>2, CallTree
<1> QED  BY <1>1, <1>6, <1>7, <1>8, <1>9, FailTree DEF ExprHead

LEMMA ExprLoopTree == ParseInv /\ TreeInv /\ ExprLoop => TreeInv'
<1> SUFFICES ASSUME ParseInv, TreeInv, ExprLoop PROVE TreeInv'
  OBVIOUS
<1>1. /\ Active /\ Top.fn = "expr" /\ Top.at = 3 /\ Top \in FrameRecord /\ FrameOk(Top, Len(nodes))
      /\ ~Builds(Top) /\ cur \in Nat
  BY ExprFacts, Names, Cursor DEF ExprLoop, At, Builds
<1>2. Top.node \in Nat /\ Top.term \in SUBSET Terminators
  BY <1>1, FrameFacts DEF FrameOk
<1>3. ASSUME Done(cur) PROVE TreeInv'
  BY <1>1, <1>3, DoneTree
<1>4. ASSUME ret' = Err, UNCHANGED <<toks, nodes, out, lost>> PROVE TreeInv'
  BY <1>1, <1>4 DEF TreeInv, Active
<1>5. ASSUME Call(cur, 2, 0, "led", Top.node, Top.term, 0) PROVE TreeInv'
  <2>1. CASE lost
    BY <1>1, <1>5, <2>1 DEF TreeInv, Call, Quiet, Active
  <2>2. CASE ~lost
    <3>1. Top.node \in 1..Len(nodes) /\ nodes[Top.node].type \in ExprTypes
      BY <1>1, <2>2, TreeNow DEF HasOperand
    <3>2. "led" \in Functions /\ 2 \in 0..5 /\ 0 \in {0, 1} /\ 0 \in 0..21
      BY DEF Functions
    <3>3. Suits(2, "led", Top.node)
      BY <1>1, <3>1, YieldsAre DEF Suits
    <3> QED  BY <1>1, <1>2, <1>5, <3>2, <3>3, CallTree
  <2> QED  BY <2>1, <2>2
<1> QED  BY <1>3, <1>4, <1>5 DEF ExprLoop

-----------------------------------------------------------------------------
(* Operators keep the tree. *)

LEMMA ParentNodeHas ==
  ASSUME NEW ns \in Seq(NodeRec), NEW p \in 1..Len(ns), NEW c \in Nat
  PROVE  LET ms == ParentNode(ns, p, c)
         IN /\ ms[p].type = ns[p].type /\ ms[p].tok = ns[p].tok
            /\ ms[p].kids = Append(ns[p].kids, c)
            /\ \A n \in 1..Len(ns) : n # p => ms[n] = ns[n]
<1> DEFINE grown == Grown(ns[p])
           new == [grown EXCEPT !.kids = Append(@, c)]
<1>1. ns[p] \in NodeRec
  OBVIOUS
<1>2. /\ grown.type = ns[p].type /\ grown.tok = ns[p].tok /\ grown.kids = ns[p].kids
      /\ DOMAIN grown = {"type", "tok", "kids", "cap"}
  <2>1. \A x : [ns[p] EXCEPT !.cap = x].type = ns[p].type /\ [ns[p] EXCEPT !.cap = x].tok = ns[p].tok
              /\ [ns[p] EXCEPT !.cap = x].kids = ns[p].kids
              /\ DOMAIN [ns[p] EXCEPT !.cap = x] = {"type", "tok", "kids", "cap"}
    BY <1>1 DEF NodeRec
  <2>2. DOMAIN ns[p] = {"type", "tok", "kids", "cap"}
    BY <1>1 DEF NodeRec
  <2>3. grown = ns[p] \/ \E x : grown = [ns[p] EXCEPT !.cap = x]
    BY DEF Grown
  <2> HIDE DEF grown
  <2> QED  BY <2>1, <2>2, <2>3
<1>3. ParentNode(ns, p, c) = [ns EXCEPT ![p] = new]
  BY DEF ParentNode
<1> HIDE DEF grown
<1>4. new.type = ns[p].type /\ new.tok = ns[p].tok /\ new.kids = Append(ns[p].kids, c)
  BY <1>2
<1> HIDE DEF new
<1>5. /\ [ns EXCEPT ![p] = new][p] = new
      /\ \A n \in 1..Len(ns) : n # p => [ns EXCEPT ![p] = new][n] = ns[n]
  OBVIOUS
<1> QED  BY <1>3, <1>4, <1>5

\* The operand of an operator that has been read, or what stands in its brackets.
LEMMA OperatorTree ==
  ASSUME ParseInv, TreeInv, NEW fn \in {"nud", "led"}, Running(fn), Top.at > 0,
         NEW next \in 1..5, NEW c \in Nat, NEW skip \in {0, 1}, NEW term \in SUBSET Terminators,
         NEW bp \in 0..21, Call(c, next, skip, "expr", NoNode, term, bp),
         Gains(Top.fn, Top.type, Top.at, next, Yields("expr"))
  PROVE  TreeInv'
<1>1. Active /\ Top.fn = fn
  BY OperatorFacts
<1>2. Call(c, next, skip, "expr", 0, term, bp)
  BY DEF NoNode
<1>3. "expr" \in Functions /\ next \in 0..5 /\ next > 0 /\ "expr" # "led" /\ 0 \in Nat
  BY DEF Functions
<1>4. Suits(next, "expr", 0)
  BY <1>1, <1>3 DEF Suits
<1> QED  BY <1>1, <1>2, <1>3, <1>4, CallTree

LEMMA OperandTree ==
  ASSUME ParseInv, TreeInv, NEW fn \in {"nud", "led"}, Running(fn), Top.at > 0, NEW next \in 1..5,
         NEW bp \in 0..21, Operand(next, bp), Gains(Top.fn, Top.type, Top.at, next, Yields("expr"))
  PROVE  TreeInv'
BY Cursor, OperatorFacts, OperatorTree DEF Operand

LEMMA NudTree == ParseInv /\ TreeInv /\ ParseExprNud => TreeInv'
<1> SUFFICES ASSUME ParseInv, TreeInv, ParseExprNud PROVE TreeInv'
  OBVIOUS
<1>1. Running("nud") /\ cur \in Nat
  BY Cursor DEF ParseExprNud
<1>2. Active /\ Top.fn = "nud" /\ Known(Top, cur, toks)
  BY <1>1, OperatorFacts
<1>3. ASSUME At(0), nodes' = AddNode(nodes, NudNode[toks[cur]], cur),
             stk' = GotoAs(1, Len(nodes) + 1, Top.type), UNCHANGED <<cur, ret>>, Quiet
      PROVE  TreeInv'
  <2>1. NudNode[toks[cur]] \in NodeTypes /\ NudNode[toks[cur]] \in {"ENOT", "ENEG"}
    BY <1>2, <1>3, NudTypes DEF At, Known, NudNode
  <2> QED  BY <1>1, <1>2, <1>3, <2>1, FreshStep DEF At
<1>4. ASSUME At(1), Operand(2, NudRight) PROVE TreeInv'
  BY <1>1, <1>2, <1>4, NudPlaces, OperandTree DEF At, NudRight
<1>5. ASSUME At(2), Done(cur) PROVE TreeInv'
  BY <1>2, <1>5, NudPlaces, DoneTree DEF At, Builds
<1> QED  BY <1>3, <1>4, <1>5 DEF ParseExprNud

\* The first child of an operator's node is its left operand.
LEMMA LedFirst == \A t \in DOMAIN LedNode : ChildTypes(LedNode[t], 1) = ExprTypes
<1> SUFFICES ASSUME NEW t \in DOMAIN LedNode PROVE ChildTypes(LedNode[t], 1) = ExprTypes
  OBVIOUS
<1>1. LedNode[t] \in {"ECALL", "EACCESS", "ECAST", "ETERNARY"} \union Binaries \union Assigns
  BY DEF LedNode, Binaries, Arithmetics, Comparisons, Logicals, Assigns
<1>2. "ESYSTEM" \notin {"ECALL", "EACCESS", "ECAST", "ETERNARY"} \union Binaries \union Assigns
  BY DEF Binaries, Arithmetics, Comparisons, Logicals, Assigns
<1>3. LedNode[t] \in ExprTypes \ {"ESYSTEM"} /\ 1 \in Nat
  BY <1>1, <1>2 DEF ExprTypes
<1> QED  BY <1>3, ChildTypesAre

\* An operator that has been read has a node, with the left operand as its first child.
LEMMA LedReadTree == ParseInv /\ TreeInv /\ LedRead => TreeInv'
<1> SUFFICES ASSUME ParseInv, TreeInv, LedRead PROVE TreeInv'
  OBVIOUS
<1>1. Running("led") /\ Top.at = 0
  BY DEF LedRead, At
<1>2. /\ Active /\ Top.fn = "led" /\ Known(Top, cur, toks) /\ Top \in FrameRecord /\ Top.node \in Nat
      /\ ~Builds(Top)
  BY <1>1, OperatorFacts, Names DEF Builds
<1>3. CASE ~(cur < Len(toks))
  BY <1>2, <1>3, FailTree DEF LedRead
<1>4. CASE cur < Len(toks)
  <2> DEFINE new == Len(nodes) + 1
             more == AddNode(nodes, LedNode[Ahead], cur + 1)
  <2>1. /\ nodes' = ParentNode(more, new, Top.node) /\ stk' = GotoAs(1, new, Ahead)
        /\ ret' = NoRet /\ toks' = toks /\ out' = out /\ lost' = lost
        /\ out = "parsing" /\ stk # <<>> /\ ret = NoRet
    BY <1>2, <1>4 DEF LedRead, Quiet, Active
  <2> SUFFICES ASSUME ~lost PROVE Tree(toks, nodes', stk', NoRet)
    BY <2>1 DEF TreeInv
  <2>2. /\ Tree(toks, nodes, stk, NoRet) /\ Last(stk) = Top /\ stk \in Seq(FrameRecord)
        /\ nodes \in Seq(NodeRec) /\ Len(nodes) \in Nat /\ NodesDoubled(nodes)
        /\ HasOperand(nodes, Top)
    BY <1>2, TreeNow DEF ParseInv
  <2>3. Ahead \in DOMAIN LedNode /\ Ahead \in Types
    BY <1>1, <1>2, <1>4, NextToken DEF Known
  <2>4. LedNode[Ahead] \in NodeTypes /\ cur + 1 \in Nat
    BY <2>3, LedTypes, Cursor
  <2>5. /\ more \in Seq(NodeRec) /\ Len(more) = new /\ NodesDoubled(more)
        /\ \A n \in 1..Len(nodes) : more[n] = nodes[n]
    BY <2>2, <2>4, AddNodeFacts
  <2>6. more[new].type = LedNode[Ahead] /\ more[new].kids = <<>>
    BY <2>2, AddNodeLast
  <2> HIDE DEF more
  <2>7. new \in 1..Len(more) /\ new > Len(nodes) /\ Len(nodes) <= Len(more) /\ new \in Nat
    BY <2>2, <2>5
  <2>8. nodes' \in Seq(NodeRec) /\ Len(nodes') = Len(more)
    BY <1>2, <2>1, <2>5, <2>7, ParentNodeFacts
  <2>9. /\ nodes'[new].type = LedNode[Ahead] /\ nodes'[new].kids = <<Top.node>>
        /\ \A n \in 1..Len(more) : n # new => nodes'[n] = more[n]
    <3>1. /\ nodes'[new].type = more[new].type
          /\ nodes'[new].kids = Append(more[new].kids, Top.node)
          /\ \A n \in 1..Len(more) : n # new => nodes'[n] = more[n]
      BY <1>2, <2>1, <2>5, <2>7, ParentNodeHas
    <3>2. Append(<<>>, Top.node) = <<Top.node>>
      OBVIOUS
    <3> QED  BY <2>6, <3>1, <3>2
  <2>10. \A n \in 1..Len(nodes) : nodes'[n] = nodes[n]
    BY <2>2, <2>5, <2>7, <2>9
  <2>11. PICK f \in FrameRecord :
           /\ GotoAs(1, new, Ahead) = Replaced(f)
           /\ f.fn = Top.fn /\ f.at = 1 /\ f.skip = 0 /\ f.node = new
           /\ f.term = Top.term /\ f.type = Ahead /\ f.bp = Top.bp
    <3>1. 1 \in 0..5
      OBVIOUS
    <3> QED  BY <1>2, <2>3, <2>7, <3>1, GotoAsFacts
  <2>12. \A n \in 1..Len(nodes') : n > Len(nodes) => n = new
    BY <2>2, <2>5, <2>8
  <2> HIDE DEF new
  <2>13. Builds(f)
    BY <1>2, <2>11 DEF Builds
  <2>14. Spares(nodes, nodes', Last(stk))
    BY <2>2, <2>7, <2>8, <2>10 DEF Spares
  <2>15. Len(nodes'[new].kids) = 1
    BY <2>9
  <2>16. Owns(toks, nodes', f, 0)
    <3>1. LedNode[Ahead] \in Kinds(f.fn, f.type)
      BY <1>2, <2>11, Names DEF Kinds
    <3>2. Len(nodes'[new].kids) + 0 = 1
      BY <2>15
    <3>3. Has(f.fn, f.type, 1, 1)
      BY <1>2, <2>11 DEF Has
    <3> QED  BY <1>2, <2>7, <2>8, <2>9, <2>11, <3>1, <3>2, <3>3 DEF Owns
  <2>17. HasOperand(nodes', f)
    BY <1>2, <2>11 DEF HasOperand
  <2>18. KidsFit(nodes', new)
    <3>1. Top.node \in 1..Len(nodes) /\ nodes[Top.node].type \in ExprTypes
      BY <1>1, <1>2, <2>2 DEF HasOperand
    <3>2. Top.node \in 1..Len(nodes') /\ nodes'[Top.node].type \in ExprTypes
      BY <2>2, <2>7, <2>8, <2>10, <3>1
    <3>3. ChildTypes(LedNode[Ahead], 1) = ExprTypes
      BY <2>3, LedFirst
    <3>4. \A k \in 1..Len(nodes'[new].kids) : k = 1
      BY <2>15
    <3>5. nodes'[new].kids[1] = Top.node
      BY <2>9
    <3> QED  BY <2>9, <3>2, <3>3, <3>4, <3>5 DEF KidsFit
  <2>19. ASSUME NEW n \in 1..Len(nodes'), n > Len(nodes) \/ (Builds(Last(stk)) /\ n = Last(stk).node)
         PROVE  KidsFit(nodes', n) /\ (Finished(toks, nodes', n) \/ (Builds(f) /\ f.node = n))
    BY <1>2, <2>2, <2>11, <2>12, <2>13, <2>18, <2>19
  <2>20. /\ Yields(f.fn) = Yields(Last(stk).fn)
         /\ Builds(f) => IF Builds(Last(stk)) THEN f.node = Last(stk).node ELSE f.node > Len(nodes)
         /\ Builds(Last(stk)) => Builds(f)
    BY <1>2, <2>2, <2>7, <2>11, <2>13
  <2>21. Tree(toks, nodes', [stk EXCEPT ![Len(stk)] = f], NoRet)
    BY <2>1, <2>2, <2>8, <2>14, <2>16, <2>17, <2>19, <2>20, TopTree
  <2> QED  BY <2>1, <2>11, <2>21 DEF Replaced
<1> QED  BY <1>3, <1>4

LEMMA LedDone ==
  ASSUME ParseInv, TreeInv, NEW types, LedIn(types), NEW c, Done(c), Ends("led", Top.type, Top.at)
  PROVE  TreeInv'
BY LedWhen, DoneTree DEF Builds

LEMMA LedCallTree == ParseInv /\ TreeInv /\ LedCall => TreeInv'
<1> SUFFICES ASSUME ParseInv, TreeInv, LedCall PROVE TreeInv'
  OBVIOUS
<1>1. /\ LedIn({"ECALL"}) /\ Running("led") /\ Active /\ Top.fn = "led" /\ Top.at > 0
      /\ LedNode[Top.type] = "ECALL" /\ Top.type \in DOMAIN LedNode /\ Top.at \in 1..5
  BY LedWhen, TreeTop DEF LedCall
<1>2. cur \in Nat /\ cur + 1 \in Nat /\ {"COMMA", "RPAREN"} \in SUBSET Terminators
  BY Cursor DEF Terminators
<1>3. /\ Gains(Top.fn, Top.type, Top.at, 2, Yields("expr"))
      /\ Ends("led", Top.type, Top.at)
  BY <1>1, LedPlaces
<1>4. ASSUME NEW c \in Nat, Item(c, 2, {"COMMA", "RPAREN"}) PROVE TreeInv'
  BY <1>1, <1>2, <1>3, <1>4, OperatorTree DEF Item
<1> QED  BY <1>1, <1>2, <1>3, <1>4, LedDone DEF LedCall

LEMMA LedAccessTree == ParseInv /\ TreeInv /\ LedAccess => TreeInv'
<1> SUFFICES ASSUME ParseInv, TreeInv, LedAccess PROVE TreeInv'
  OBVIOUS
<1>1. /\ LedIn({"EACCESS"}) /\ Running("led") /\ Active /\ Top.fn = "led" /\ Top.at > 0
      /\ LedNode[Top.type] = "EACCESS" /\ Top.type \in DOMAIN LedNode /\ Top.at \in 1..5
  BY LedWhen, TreeTop DEF LedAccess
<1>2. /\ cur \in Nat /\ cur + 1 \in Nat
      /\ {"COMMA", "RBRACKET"} \in SUBSET Terminators /\ {"RBRACKET"} \in SUBSET Terminators
  BY Cursor DEF Terminators
<1>3. /\ \A at \in 1..4 : Gains("led", Top.type, at, at + 1, Yields("expr"))
      /\ Ends("led", Top.type, 2) /\ Ends("led", Top.type, 3)
  BY <1>1, LedPlaces
<1>4. Gains("led", Top.type, 1, 2, Yields("expr")) /\ Gains("led", Top.type, 2, 3, Yields("expr"))
  <2>1. 1 \in 1..4 /\ 2 \in 1..4 /\ 1 + 1 = 2 /\ 2 + 1 = 3
    OBVIOUS
  <2> QED  BY <1>3, <2>1
<1>5. ASSUME At(1), Item(cur, 2, {"COMMA", "RBRACKET"}) PROVE TreeInv'
  BY <1>1, <1>2, <1>4, <1>5, OperatorTree DEF Item, At
<1>6. ASSUME At(2), Expr(cur + 1, 3, "RBRACKET") PROVE TreeInv'
  BY <1>1, <1>2, <1>4, <1>6, OperatorTree DEF Expr, At
<1> QED  BY <1>1, <1>3, <1>5, <1>6, LedDone DEF LedAccess, At

LEMMA LedCastTree == ParseInv /\ TreeInv /\ LedCast => TreeInv'
<1> SUFFICES ASSUME ParseInv, TreeInv, LedCast PROVE TreeInv'
  OBVIOUS
<1>1. /\ LedIn({"ECAST"}) /\ Running("led") /\ Active /\ Top.fn = "led" /\ Top.at > 0
      /\ LedNode[Top.type] = "ECAST" /\ Top.type \in DOMAIN LedNode
  BY LedWhen DEF LedCast
<1>2. Gains("led", Top.type, 1, 2, Yields("type")) /\ Ends("led", Top.type, 2)
  BY <1>1, LedPlaces
<1>3. ASSUME At(1), Parse(cur, 2, "type") PROVE TreeInv'
  <2>1. Call(cur, 2, 0, "type", 0, {}, 0) /\ {} \in SUBSET Terminators /\ cur \in Nat
    BY <1>3, Cursor DEF Parse, NoNode
  <2>2. "type" \in Functions /\ 2 \in 0..5 /\ 0 \in {0, 1} /\ 0 \in Nat /\ 0 \in 0..21
    BY Names DEF Functions
  <2>3. Suits(2, "type", 0)
    BY <1>1, <1>2, <1>3 DEF Suits, At
  <2> QED  BY <1>1, <2>1, <2>2, <2>3, CallTree
<1> QED  BY <1>1, <1>2, <1>3, LedDone DEF LedCast, At

LEMMA LedTernaryTree == ParseInv /\ TreeInv /\ LedTernary => TreeInv'
<1> SUFFICES ASSUME ParseInv, TreeInv, LedTernary PROVE TreeInv'
  OBVIOUS
<1>1. /\ LedIn({"ETERNARY"}) /\ Running("led") /\ Active /\ Top.fn = "led" /\ Top.at > 0
      /\ LedNode[Top.type] = "ETERNARY" /\ Top.type \in DOMAIN LedNode
  BY LedWhen DEF LedTernary
<1>2. /\ cur \in Nat /\ {"COLON"} \in SUBSET Terminators
      /\ LedRight("QUESTION") \in 0..21
  BY Cursor, LedRights DEF Terminators, LedNode
<1>3. /\ \A at \in 1..4 : Gains("led", Top.type, at, at + 1, Yields("expr"))
      /\ Ends("led", Top.type, 3)
  BY <1>1, LedPlaces
<1>4. Gains("led", Top.type, 1, 2, Yields("expr")) /\ Gains("led", Top.type, 2, 3, Yields("expr"))
  <2>1. 1 \in 1..4 /\ 2 \in 1..4 /\ 1 + 1 = 2 /\ 2 + 1 = 3
    OBVIOUS
  <2> QED  BY <1>3, <2>1
<1>5. ASSUME At(1), Expr(cur, 2, "COLON") PROVE TreeInv'
  BY <1>1, <1>2, <1>4, <1>5, OperatorTree DEF Expr, At
<1>6. ASSUME At(2), Operand(3, LedRight("QUESTION")) PROVE TreeInv'
  BY <1>1, <1>2, <1>4, <1>6, OperandTree DEF At
<1> QED  BY <1>1, <1>3, <1>5, <1>6, LedDone DEF LedTernary, At

LEMMA LedBinaryTree == ParseInv /\ TreeInv /\ LedBinary => TreeInv'
<1> SUFFICES ASSUME ParseInv, TreeInv, LedBinary PROVE TreeInv'
  OBVIOUS
<1>1. /\ LedIn(Binaries \union Assigns) /\ Running("led") /\ Active /\ Top.fn = "led" /\ Top.at > 0
      /\ LedNode[Top.type] \in Binaries \union Assigns /\ Top.type \in DOMAIN LedNode
  BY LedWhen DEF LedBinary
<1>2. LedRight(Top.type) \in 0..21
  BY <1>1, LedRights
<1>3. LedNode[Top.type] \notin {"ECALL", "ECAST"}
  BY <1>1 DEF Binaries, Arithmetics, Comparisons, Logicals, Assigns
<1>4. /\ \A at \in 1..4 : Gains("led", Top.type, at, at + 1, Yields("expr"))
      /\ Ends("led", Top.type, 2)
  BY <1>1, <1>3, LedPlaces
<1>5. Gains("led", Top.type, 1, 2, Yields("expr"))
  <2>1. 1 \in 1..4 /\ 1 + 1 = 2
    OBVIOUS
  <2> QED  BY <1>4, <2>1
<1>6. ASSUME At(1), Operand(2, LedRight(Top.type)) PROVE TreeInv'
  BY <1>1, <1>2, <1>5, <1>6, OperandTree DEF At
<1> QED  BY <1>1, <1>4, <1>6, LedDone DEF LedBinary, At

-----------------------------------------------------------------------------
(* Returns keep the tree. *)

LEMMA GivenTree ==
  ASSUME ParseInv, TreeInv, Returned, ret # Err, ~lost
  PROVE  /\ Tree(toks, nodes, stk, ret) /\ Last(stk) = Top /\ stk \in Seq(FrameRecord)
         /\ nodes \in Seq(NodeRec) /\ Len(nodes) \in Nat /\ NodesDoubled(nodes)
         /\ Owns(toks, nodes, Top, 1)
         /\ ret.node \in 1..Len(nodes) /\ nodes[ret.node].type \in Accepts(nodes, Top)
<1>1. stk # <<>> /\ ret # NoRet /\ Tree(toks, nodes, stk, ret)
  BY DEF Returned, TreeInv
<1>2. stk \in Seq(FrameRecord) /\ nodes \in Seq(NodeRec) /\ Len(nodes) \in Nat /\ NodesDoubled(nodes)
  BY Typed DEF ParseInv
<1>3. Len(stk) \in 1..Len(stk) /\ Last(stk) = stk[Len(stk)] /\ Last(stk) = Top
  BY <1>1, <1>2, Lengths DEF Top
<1>4. Owns(toks, nodes, Top, 1)
  <2>1. Owns(toks, nodes, stk[Len(stk)], IF Len(stk) < Len(stk) \/ ret # NoRet THEN 1 ELSE 0)
    BY <1>1, <1>3 DEF Tree
  <2> QED  BY <1>1, <1>3, <2>1
<1>5. ret.node \in 1..Len(nodes) /\ nodes[ret.node].type \in Accepts(nodes, Top)
  BY <1>1, <1>3 DEF Tree
<1> QED  BY <1>1, <1>2, <1>3, <1>4, <1>5

LEMMA ExprResumeTree == ParseInv /\ TreeInv /\ ExprResume => TreeInv'
<1> SUFFICES ASSUME ParseInv, TreeInv, ExprResume PROVE TreeInv'
  OBVIOUS
<1>1. /\ Returned /\ Top.fn = "expr" /\ ret' = NoRet /\ lost' = (lost \/ ret = Err)
      /\ toks' = toks /\ nodes' = nodes /\ out' = out
  BY DEF ExprResume
<1>2. /\ stk # <<>> /\ out = "parsing" /\ ret # NoRet /\ Waiting(Top) /\ Top \in FrameRecord
      /\ Len(stk) \in 1..Len(stk) /\ ret.node \in Nat
  BY <1>1, ReturnFacts
<1> SUFFICES ASSUME ~lost, ret # Err PROVE Tree(toks, nodes, stk', NoRet)
  BY <1>1, <1>2 DEF TreeInv
<1>3. /\ Tree(toks, nodes, stk, ret) /\ Last(stk) = Top /\ stk \in Seq(FrameRecord)
      /\ nodes \in Seq(NodeRec) /\ Len(nodes) \in Nat
      /\ ret.node \in 1..Len(nodes) /\ nodes[ret.node].type \in Accepts(nodes, Top)
  BY <1>1, GivenTree
<1> DEFINE f == [Top EXCEPT !.node = ret.node]
<1>4. stk' = [stk EXCEPT ![Len(stk)] = f]
  BY <1>2, <1>3 DEF ExprResume, Top
<1>5. f \in FrameRecord /\ f.fn = "expr" /\ f.node = ret.node
  BY <1>1, <1>2 DEF FrameRecord
<1> HIDE DEF f
<1>6. ~Builds(Top) /\ ~Builds(f)
  BY <1>1, <1>5, Names DEF Builds
<1>7. nodes[ret.node].type \in ExprTypes
  BY <1>1, <1>3, <1>6 DEF Accepts
<1>8. Spares(nodes, nodes, Last(stk)) /\ Owns(toks, nodes, f, 0) /\ HasOperand(nodes, f)
  BY <1>3, <1>5, <1>6, <1>7 DEF Spares, Owns, HasOperand
<1>9. \A n \in 1..Len(nodes) : ~(n > Len(nodes) \/ (Builds(Last(stk)) /\ n = Last(stk).node))
  BY <1>3, <1>6
<1>10. Yields(f.fn) = Yields(Last(stk).fn) /\ ~Builds(Last(stk))
  BY <1>1, <1>3, <1>5, <1>6
<1>11. Tree(toks, nodes, [stk EXCEPT ![Len(stk)] = f], NoRet)
  BY <1>2, <1>3, <1>5, <1>6, <1>8, <1>9, <1>10, TopTree
<1> QED  BY <1>4, <1>11

LEMMA StmtResumeTree == ParseInv /\ TreeInv /\ StmtResume => TreeInv'
<1> SUFFICES ASSUME ParseInv, TreeInv, StmtResume PROVE TreeInv'
  OBVIOUS
<1>1. /\ Returned /\ Top.fn = "stmt" /\ ret # Err /\ stk' = Front(stk) /\ ret' = ret /\ ret # NoRet
      /\ lost' = lost /\ toks' = toks /\ nodes' = nodes /\ out' = out /\ out = "parsing" /\ stk # <<>>
  BY DEF StmtResume, Quiet, Returned
<1> SUFFICES ASSUME ~lost PROVE Tree(toks, nodes, Front(stk), ret)
  BY <1>1 DEF TreeInv
<1>2. /\ Tree(toks, nodes, stk, ret) /\ Last(stk) = Top /\ stk \in Seq(FrameRecord)
      /\ nodes \in Seq(NodeRec)
      /\ ret.node \in 1..Len(nodes) /\ nodes[ret.node].type \in Accepts(nodes, Top)
  BY <1>1, GivenTree
<1>3. ~Builds(Top)
  BY <1>1, Names DEF Builds
<1>4. nodes[ret.node].type \in Yields(Last(stk).fn)
  BY <1>1, <1>2, <1>3, YieldsAre DEF Accepts
<1> QED  BY <1>1, <1>2, <1>3, <1>4, PopTree

\* The node that was waited for becomes a child.
LEMMA AdoptTree == ParseInv /\ TreeInv /\ Adopt => TreeInv'
<1> SUFFICES ASSUME ParseInv, TreeInv, Adopt PROVE TreeInv'
  OBVIOUS
<1>1. /\ Returned /\ Top.fn \notin {"expr", "stmt"} /\ ret # Err /\ ret' = NoRet
      /\ nodes' = ParentNode(nodes, Top.node, ret.node) /\ out' \in {"parsing", "overflow"}
      /\ toks' = toks /\ stk' = stk /\ lost' = lost /\ stk # <<>>
  BY DEF Adopt, Returned
<1> SUFFICES ASSUME ~lost PROVE Tree(toks, nodes', stk, NoRet)
  BY <1>1 DEF TreeInv
<1>2. Waiting(Top) /\ Top \in FrameRecord /\ ret.node \in Nat /\ ret # NoRet
  BY <1>1, ReturnFacts
<1>3. /\ Tree(toks, nodes, stk, ret) /\ Last(stk) = Top /\ stk \in Seq(FrameRecord)
      /\ nodes \in Seq(NodeRec) /\ Len(nodes) \in Nat /\ NodesDoubled(nodes)
      /\ Owns(toks, nodes, Top, 1)
      /\ ret.node \in 1..Len(nodes) /\ nodes[ret.node].type \in Accepts(nodes, Top)
  BY <1>1, GivenTree
<1>4. Builds(Top)
  BY <1>1, <1>2, FrameFacts DEF Builds, Waiting, Functions
<1> DEFINE p == Top.node
           kids == nodes[p].kids
<1>5. /\ p \in 1..Len(nodes) /\ nodes[p].type \in Kinds(Top.fn, Top.type)
      /\ Has(Top.fn, Top.type, Top.at, Len(kids) + 1)
      /\ Top.fn = "type" /\ Top.at > 0 => TokOf(toks, nodes[p].tok) \in TypeKeywords
  BY <1>3, <1>4 DEF Owns
<1>6. nodes[ret.node].type \in ChildTypes(nodes[p].type, Len(kids) + 1)
  BY <1>3, <1>4 DEF Accepts
<1>7. kids \in Seq(Nat) /\ Len(kids) \in Nat
  <2>1. nodes[p] \in NodeRec
    BY <1>3, <1>5
  <2> QED  BY <2>1, NodeRecFacts
<1>8. nodes' \in Seq(NodeRec) /\ Len(nodes') = Len(nodes)
  BY <1>1, <1>2, <1>3, <1>5, ParentNodeFacts
<1>9. /\ nodes'[p].type = nodes[p].type /\ nodes'[p].tok = nodes[p].tok
      /\ nodes'[p].kids = Append(kids, ret.node)
      /\ \A n \in 1..Len(nodes) : n # p => nodes'[n] = nodes[n]
  <2> DEFINE ms == ParentNode(nodes, p, ret.node)
  <2>1. /\ ms[p].type = nodes[p].type /\ ms[p].tok = nodes[p].tok
        /\ ms[p].kids = Append(nodes[p].kids, ret.node)
        /\ \A n \in 1..Len(nodes) : n # p => ms[n] = nodes[n]
    BY <1>2, <1>3, <1>5, ParentNodeHas
  <2>2. nodes' = ms
    BY <1>1
  <2> HIDE DEF ms
  <2> QED  BY <2>1, <2>2
<1>10. KidsFit(nodes, p)
  BY <1>3, <1>5 DEF Tree
<1> HIDE DEF p
<1>11. \A n \in 1..Len(nodes) : nodes'[n].type = nodes[n].type
  BY <1>9
<1>12. /\ Len(nodes'[p].kids) = Len(kids) + 1 /\ nodes'[p].kids[Len(kids) + 1] = ret.node
       /\ \A k \in 1..Len(kids) : nodes'[p].kids[k] = kids[k]
  BY <1>2, <1>7, <1>9
<1>13. KidsFit(nodes', p)
  <2> SUFFICES ASSUME NEW k \in 1..Len(nodes'[p].kids)
               PROVE  /\ nodes'[p].kids[k] \in 1..Len(nodes')
                      /\ nodes'[nodes'[p].kids[k]].type \in ChildTypes(nodes'[p].type, k)
    BY DEF KidsFit
  <2>1. CASE k = Len(kids) + 1
    BY <1>3, <1>6, <1>8, <1>9, <1>11, <1>12, <2>1
  <2>2. CASE k \in 1..Len(kids)
    <3>1. kids[k] \in 1..Len(nodes) /\ nodes[kids[k]].type \in ChildTypes(nodes[p].type, k)
      BY <1>10, <2>2 DEF KidsFit
    <3> QED  BY <1>8, <1>9, <1>11, <1>12, <2>2, <3>1
  <2>3. k = Len(kids) + 1 \/ k \in 1..Len(kids)
    BY <1>7, <1>12
  <2> QED  BY <2>1, <2>2, <2>3
<1>14. Owns(toks, nodes', Top, 0)
  <2>1. Len(nodes'[p].kids) + 0 = Len(kids) + 1
    BY <1>7, <1>12
  <2> QED  BY <1>5, <1>8, <1>9, <2>1 DEF Owns, p
<1>15. HasOperand(nodes', Top)
  <2>1. ~(Top.fn = "led" /\ Top.at = 0)
    BY <1>2 DEF Waiting
  <2> QED  BY <1>1, <2>1 DEF HasOperand
<1>16. Spares(nodes, nodes', Last(stk))
  <2>1. Len(nodes) <= Len(nodes')
    BY <1>3, <1>8
  <2> QED  BY <1>3, <1>4, <1>9, <1>11, <2>1 DEF Spares, p
<1>17. ASSUME NEW n \in 1..Len(nodes'), n > Len(nodes) \/ (Builds(Last(stk)) /\ n = Last(stk).node)
       PROVE  KidsFit(nodes', n) /\ (Finished(toks, nodes', n) \/ (Builds(Top) /\ Top.node = n))
  <2>1. n = p
    BY <1>3, <1>8, <1>17 DEF p
  <2> QED  BY <1>4, <1>13, <2>1 DEF p
<1>18. Tree(toks, nodes', [stk EXCEPT ![Len(stk)] = Top], NoRet)
  BY <1>1, <1>2, <1>3, <1>4, <1>8, <1>14, <1>15, <1>16, <1>17, TopTree
<1>19. [stk EXCEPT ![Len(stk)] = Top] = stk
  BY <1>3 DEF Top
<1> QED  BY <1>18, <1>19

LEMMA FinishTree == TreeInv /\ (HandOn \/ Finish) => TreeInv'
BY DEF TreeInv, HandOn, Finish, Quiet, Returned

-----------------------------------------------------------------------------
(* The theorem. *)

LEMMA FirstTree == Init => TreeInv
<1> SUFFICES ASSUME Init PROVE TreeInv
  OBVIOUS
<1> DEFINE f == Frame("root", 1, {}, 0)
           none == <<>>
           ns == AddNode(none, "ROOT", 1)
<1>1. nodes = ns /\ stk = <<f>> /\ ret = NoRet /\ out = "parsing"
  BY DEF Init
<1>2. f.fn = "root" /\ f.at = 0 /\ f.node = 1 /\ f.type = "NULL"
  BY DEF Frame
<1>3. Len(ns) = 1 /\ ns[1].type = "ROOT" /\ ns[1].kids = <<>>
  BY DEF AddNode
<1> HIDE DEF f, ns
<1>4. Len(<<f>>) = 1 /\ <<f>>[1] = f /\ Last(<<f>>) = f
  BY DEF Last
<1>5. \A n \in 1..Len(ns) : n = 1
  BY <1>3
<1>6. \A d \in 1..Len(<<f>>) : d = 1 /\ ~(d < Len(<<f>>))
  BY <1>4
<1>7. Builds(f) /\ "root" \in DOMAIN NodeOf
  BY <1>2, Names DEF Builds
<1>8. Owns(toks, ns, f, 0)
  <2>1. Kinds("root", "NULL") = {"ROOT"} /\ Has("root", "NULL", 0, 0)
    BY <1>7, KindsAre, StartPlaces DEF NodeOf
  <2>2. Len(ns[1].kids) + 0 = 0 /\ 1 \in 1..Len(ns)
    BY <1>3
  <2> QED  BY <1>2, <1>3, <2>1, <2>2 DEF Owns
<1>9. HasOperand(ns, f)
  BY <1>2 DEF HasOperand
<1>10. KidsFit(ns, 1)
  BY <1>3 DEF KidsFit
<1>11. \A n \in 1..Len(ns) : \E d \in 1..Len(<<f>>) : Builds(<<f>>[d]) /\ <<f>>[d].node = n
  BY <1>2, <1>4, <1>5, <1>7
<1>12. \A d \in 1..(Len(<<f>>) - 1) : FALSE
  BY <1>4
<1>13. \A d \in 1..Len(<<f>>) : Owns(toks, ns, <<f>>[d], IF d < Len(<<f>>) \/ NoRet # NoRet THEN 1 ELSE 0)
  BY <1>4, <1>6, <1>8
<1>14. Tree(toks, ns, <<f>>, NoRet)
  BY <1>4, <1>5, <1>6, <1>9, <1>10, <1>11, <1>12, <1>13 DEF Tree
<1> QED  BY <1>1, <1>14 DEF TreeInv

LEMMA StepTree == ParseInv /\ TreeInv /\ [Next]_vars => TreeInv'
<1>1. ParseInv /\ TreeInv /\ (Stopped \/ UNCHANGED vars) => TreeInv'
  BY DEF Stopped, vars, TreeInv
<1> QED  BY <1>1, RootTree, ImportTree, FuncTree, GlobalDeclTree, LocalDeclTree, ArgListTree, ArgTree,
            TypeTree, ReturnTree, CtreeTree, WhileTree, ForTree, JumpTree, BlockTree, StmtTree,
            ExprReadTree, ExprHeadTree, ExprLoopTree, SystemTree, NudTree, LedReadTree, LedCallTree,
            LedAccessTree, LedCastTree, LedTernaryTree, LedBinaryTree, ExprResumeTree,
            StmtResumeTree, AdoptTree, FinishTree
         DEF Next, Step

\* The tokens of types and of atoms as the later stages read them.
LEMMA TokensRead ==
  /\ \A t \in TypeKeywords : TokName(t) \in PrimTypes
  /\ \A t \in Atoms : TokName(t) = "IDENT" \/ TokName(t) \in DOMAIN LitTypes
<1>1. \A t \in TypeKeywords : t \in DOMAIN PrimOf /\ PrimOf[t] \in PrimTypes
  BY DEF TypeKeywords, PrimOf, PrimTypes
<1>2. \A t \in Atoms : t \notin DOMAIN PrimOf /\ (t = "IDENT" \/ t \in DOMAIN LitTypes)
  BY DEF Atoms, PrimOf, LitTypes
<1> QED  BY <1>1, <1>2 DEF TokName

\* When a text is accepted no function is active, so no node is unfinished.
LEMMA AcceptedTree == ParseInv /\ TreeInv => NodesOk
<1> SUFFICES ASSUME ParseInv, TreeInv, out = "ok", ~lost, NEW n \in DOMAIN nodes
             PROVE  NodeOk(Ast, n)
  BY DEF NodesOk, Accepted
<1>1. nodes \in Seq(NodeRec) /\ Len(nodes) \in Nat /\ DOMAIN nodes = 1..Len(nodes)
  BY Typed DEF ParseInv
<1>2. Tree(toks, nodes, <<>>, ret)
  BY DEF TreeInv
<1>3. Finished(toks, nodes, n) /\ KidsFit(nodes, n)
  <2>1. \A d \in 1..Len(<<>>) : FALSE
    OBVIOUS
  <2> QED  BY <1>1, <1>2, <2>1 DEF Tree
<1>4. /\ DOMAIN Ast = 1..Len(nodes)
      /\ \A k \in 1..Len(nodes) :
           /\ Ast[k].type = nodes[k].type /\ Ast[k].kids = nodes[k].kids
           /\ Ast[k].tok = TokName(TokOf(toks, nodes[k].tok))
  BY <1>1 DEF Ast, Tok, TokOf
<1>5. nodes[n].kids \in Seq(Nat) /\ DOMAIN nodes[n].kids = 1..Len(nodes[n].kids)
  <2>1. nodes[n] \in NodeRec
    BY <1>1
  <2> QED  BY <2>1, NodeRecFacts
<1>6. \A k \in DOMAIN Ast[n].kids :
        Ast[n].kids[k] \in DOMAIN Ast /\ Ast[Ast[n].kids[k]].type \in ChildTypes(Ast[n].type, k)
  <2> SUFFICES ASSUME NEW k \in DOMAIN Ast[n].kids
               PROVE  /\ Ast[n].kids[k] \in DOMAIN Ast
                      /\ Ast[Ast[n].kids[k]].type \in ChildTypes(Ast[n].type, k)
    OBVIOUS
  <2>1. Ast[n].kids = nodes[n].kids /\ Ast[n].type = nodes[n].type
    BY <1>1, <1>4
  <2>2. k \in 1..Len(nodes[n].kids)
    BY <1>5, <2>1
  <2>3. /\ nodes[n].kids[k] \in 1..Len(nodes)
        /\ nodes[nodes[n].kids[k]].type \in ChildTypes(nodes[n].type, k)
    BY <1>1, <1>3, <2>2 DEF KidsFit
  <2> QED  BY <1>4, <2>1, <2>3
<1>7. Len(Ast[n].kids) \in Arities(Ast[n].type)
  BY <1>1, <1>3, <1>4 DEF Finished
<1>8. /\ Ast[n].type = "TYPE" => Ast[n].tok \in PrimTypes
      /\ Ast[n].type = "EATOM" => Ast[n].tok = "IDENT" \/ Ast[n].tok \in DOMAIN LitTypes
  BY <1>1, <1>3, <1>4, TokensRead DEF Finished
<1> QED  BY <1>6, <1>7, <1>8 DEF NodeOk

\* NodesOk, for every set of texts: whatever text ls_parse accepts, the tree it leaves has
\* in every node the children ls_sema and ls_exec index without looking, unless an operand
\* in parentheses was dropped.
THEOREM TreesWellFormed == Spec => []NodesOk
<1>1. Init => ParseInv /\ TreeInv
  BY InitHolds, FirstTree
<1>2. ParseInv /\ TreeInv /\ [Next]_vars => (ParseInv /\ TreeInv)'
  BY StepKeeps, StepTree
<1> QED  BY <1>1, <1>2, AcceptedTree, PTL DEF Spec

-----------------------------------------------------------------------------
(* One tree, and nothing of the text left out of it. *)

\* A function that has been given an operand and done nothing with it yet.
HoldsOperand(f) == (f.fn = "expr" /\ f.at \in {2, 3}) \/ (f.fn = "led" /\ f.at = 0)

\* The nodes that are nobody's children so far: those the active functions build, and
\* the one that is handed over or held.
BuiltBy(f) == IF Builds(f) THEN {f.node} ELSE {}
Built(st) == UNION {BuiltBy(st[d]) : d \in 1..Len(st)}
HeldBy(f) == IF HoldsOperand(f) THEN {f.node} ELSE {}
InHand(st, r) ==
  IF r # NoRet THEN {r.node} ELSE IF st # <<>> THEN HeldBy(Last(st)) ELSE {}
Loose(st, r) == Built(st) \union InHand(st, r)

\* All nodes but the loose ones are children, of one node and once.
KidAt(ns, p, k, n) == p \in 1..Len(ns) /\ k \in 1..Len(ns[p].kids) /\ ns[p].kids[k] = n
Joined(ns, loose) ==
  /\ loose \subseteq 1..Len(ns)
  /\ \A n \in 1..Len(ns) : n \in loose \/ \E p, k : KidAt(ns, p, k, n)
  /\ \A p, k, n : KidAt(ns, p, k, n) => n \in 1..Len(ns) /\ n \notin loose
  /\ \A p, k, q, j, n : KidAt(ns, p, k, n) /\ KidAt(ns, q, j, n) => p = q /\ k = j

\* The nodes come to one tree, whose root is the first.
Woven(ns, st, r) ==
  /\ Joined(ns, Loose(st, r))
  /\ InHand(st, r) \intersect Built(st) = {}
  /\ IF st = <<>> THEN r.node = 1 ELSE st[1].fn = "root" /\ st[1].node = 1

\* The token that has been read for a node that is still to come, if there is one.
Owes(f) == (f.fn = "expr" /\ f.at = 1) \/ (f.fn = "nud" /\ f.at = 0)
Due(st, r, c) == IF st # <<>> /\ r = NoRet /\ Owes(Last(st)) THEN c ELSE 0

\* Of the first c tokens each that means something, but the one that is due, is the token
\* of a node, and no two nodes have one token; the first stands for none.
Counted(ts, ns, c, due) ==
  /\ due # 1
  /\ \A n \in 1..Len(ns) : ns[n].tok \in 1..c /\ ns[n].tok # due
  /\ \A n, m \in 1..Len(ns) : ns[n].tok = ns[m].tok => n = m \/ ns[n].tok = 1
  /\ \A i \in 1..Len(ts) :
       i <= c /\ i # due /\ ts[i] \in Meaningful => \E n \in 1..Len(ns) : ns[n].tok = i

\* A function that has not come to the token of its node.
Unmarked(fn, at) ==
  \/ fn \in {"import", "arglist", "type"} /\ at = 0
  \/ fn \in {"func", "global", "local", "arg", "system"} /\ at \in {0, 1}

\* Where a list goes on behind one of its expressions, and what may stand there; op is
\* the operator.
ListEnds(fn, at, op) ==
  IF fn = "system" /\ at = 4 THEN {"COMMA", "RPAREN"}
  ELSE IF fn = "led" /\ at = 2 /\ LedNode[op] = "ECALL" THEN {"COMMA", "RPAREN"}
  ELSE IF fn = "led" /\ at = 2 /\ LedNode[op] = "EACCESS" THEN {"COMMA", "RBRACKET"}
  ELSE {}
EndsOf(f) == ListEnds(f.fn, f.at, f.type)

\* What f has called g for: an expression up to what f passes over or looks at.
CalledFor(f, g) ==
  /\ f.skip = 1 => g.fn = "expr" /\ g.bp = 0 /\ EndsOf(f) = {}
  /\ EndsOf(f) # {} => g.fn = "expr" /\ g.bp = 0 /\ g.term = EndsOf(f)

\* What is ahead of a function whose call is over.
Behind(f, r, t) ==
  /\ EndsOf(f) # {} => t \in EndsOf(f)
  /\ r # NoRet /\ f.skip = 1 => t \in Terminators /\ EndsOf(f) = {}

\* An expression that keeps an old type at the end of the text keeps no terminator.
NotStale(f, ts, c) ==
  f.fn = "expr" =>
    /\ f.at = 2 => f.type \notin Terminators
    /\ f.at = 3 => c < Len(ts) \/ f.type \notin Terminators

Told(ts, ns, st, r, c) ==
  /\ c > 0
  /\ Counted(ts, ns, c, Due(st, r, c))
  /\ \A d \in 1..Len(st) : Unmarked(st[d].fn, st[d].at) => ns[st[d].node].tok = 1
  /\ \A d \in 1..(Len(st) - 1) : CalledFor(st[d], st[d + 1])
  /\ \A d \in 1..Len(st) : NotStale(st[d], ts, c)
  /\ IF st = <<>> THEN c > Len(ts) ELSE Behind(Last(st), r, TokOf(ts, c + 1))

TextInv ==
  /\ \A i \in 1..Len(toks) : toks[i] = "NULL" <=> i = 1
  /\ ~lost /\ ret # Err => Woven(nodes, stk, ret) /\ Told(toks, nodes, stk, ret, cur)

\* The stack without its innermost frame.
LEMMA FrontFacts ==
  ASSUME NEW st \in Seq(FrameRecord), st # <<>>
  PROVE  /\ Front(st) \in Seq(FrameRecord) /\ Len(Front(st)) = Len(st) - 1
         /\ \A d \in 1..(Len(st) - 1) : Front(st)[d] = st[d]
<1> DEFINE m == Len(st) - 1
<1>1. m \in Nat /\ m <= Len(st)
  BY Lengths
<1>2. Front(st) = SubSeq(st, 1, m)
  BY DEF Front
<1> HIDE DEF m
<1>3. Front(st) \in Seq(FrameRecord) /\ Len(Front(st)) = m /\ \A d \in 1..m : Front(st)[d] = st[d]
  BY <1>1, <1>2
<1> QED  BY <1>3 DEF m

-----------------------------------------------------------------------------
(* How nodes come to be children. *)

LEMMA SameKids ==
  ASSUME NEW ns, NEW ms, NEW L, Joined(ns, L), Len(ms) = Len(ns),
         \A n \in 1..Len(ns) : ms[n].kids = ns[n].kids
  PROVE  Joined(ms, L)
<1>1. \A p, k, n : KidAt(ms, p, k, n) <=> KidAt(ns, p, k, n)
  BY DEF KidAt
<1> QED  BY <1>1 DEF Joined

\* A new node has no children, and is nobody's.
LEMMA NewNode ==
  ASSUME NEW ns, NEW ms, NEW L, Joined(ns, L), Len(ns) \in Nat, Len(ms) = Len(ns) + 1,
         \A n \in 1..Len(ns) : ms[n].kids = ns[n].kids, ms[Len(ms)].kids = <<>>
  PROVE  Joined(ms, L \union {Len(ms)})
<1>1. \A p, k, n : KidAt(ms, p, k, n) <=> KidAt(ns, p, k, n)
  <2> SUFFICES ASSUME NEW p \in 1..Len(ms) PROVE \A k, n : KidAt(ms, p, k, n) <=> KidAt(ns, p, k, n)
    BY DEF KidAt
  <2>1. CASE p = Len(ms)
    <3>1. Len(ms[p].kids) = 0 /\ p \notin 1..Len(ns)
      BY <2>1
    <3> QED  BY <3>1 DEF KidAt
  <2>2. CASE p \in 1..Len(ns)
    BY <2>2 DEF KidAt
  <2> QED  BY <2>1, <2>2
<1>2. \A n \in 1..Len(ms) : n \in 1..Len(ns) \/ n = Len(ms)
  OBVIOUS
<1>3. L \union {Len(ms)} \subseteq 1..Len(ms) /\ Len(ms) \notin 1..Len(ns)
  <2>1. L \subseteq 1..Len(ns)
    BY DEF Joined
  <2>2. Len(ms) \in 1..Len(ms) /\ Len(ms) \notin 1..Len(ns) /\ 1..Len(ns) \subseteq 1..Len(ms)
    OBVIOUS
  <2> QED  BY <2>1, <2>2
<1>4. \A n \in 1..Len(ns) : n \in 1..Len(ms)
  OBVIOUS
<1> QED  BY <1>1, <1>2, <1>3, <1>4 DEF Joined

\* A loose node becomes the last child of a node.
LEMMA NewChild ==
  ASSUME NEW ns, NEW ms, NEW L, Joined(ns, L), Len(ms) = Len(ns), NEW p \in 1..Len(ns), NEW c \in L,
         ns[p].kids \in Seq(Nat), \A n \in 1..Len(ns) : n # p => ms[n].kids = ns[n].kids,
         ms[p].kids = Append(ns[p].kids, c), c \in Nat
  PROVE  Joined(ms, L \ {c})
<1> DEFINE k0 == Len(ns[p].kids) + 1
<1>1. \A q, k, n : KidAt(ms, q, k, n) <=> KidAt(ns, q, k, n) \/ (q = p /\ k = k0 /\ n = c)
  <2> SUFFICES ASSUME NEW q \in 1..Len(ns), NEW k, NEW n
               PROVE  KidAt(ms, q, k, n) <=> KidAt(ns, q, k, n) \/ (q = p /\ k = k0 /\ n = c)
    BY DEF KidAt
  <2>1. CASE q # p
    BY <2>1 DEF KidAt
  <2>2. CASE q = p
    <3>1. /\ Len(ms[p].kids) = k0 /\ k0 \in Nat /\ ms[p].kids[k0] = c
          /\ \A j \in 1..Len(ns[p].kids) : ms[p].kids[j] = ns[p].kids[j]
      OBVIOUS
    <3>2. k \in 1..k0 <=> k \in 1..Len(ns[p].kids) \/ k = k0
      OBVIOUS
    <3>3. k0 \notin 1..Len(ns[p].kids)
      OBVIOUS
    <3> HIDE DEF k0
    <3> QED  BY <2>2, <3>1, <3>2, <3>3 DEF KidAt
  <2> QED  BY <2>1, <2>2
<1> HIDE DEF k0
<1>2. \A q, k : ~KidAt(ns, q, k, c)
  BY DEF Joined
<1>3. L \ {c} \subseteq 1..Len(ms) /\ c \in 1..Len(ms)
  BY DEF Joined
<1>4. \A n \in 1..Len(ms) : n \in L \ {c} \/ \E q, k : KidAt(ms, q, k, n)
  BY <1>1 DEF Joined
<1>5. \A q, k, n : KidAt(ms, q, k, n) => n \in 1..Len(ms) /\ n \notin L \ {c}
  BY <1>1, <1>3 DEF Joined
<1>6. \A q, k, r, j, n : KidAt(ms, q, k, n) /\ KidAt(ms, r, j, n) => q = r /\ k = j
  BY <1>1, <1>2 DEF Joined
<1> QED  BY <1>3, <1>4, <1>5, <1>6 DEF Joined

-----------------------------------------------------------------------------
(* What the functions build. *)

LEMMA BuiltTop ==
  ASSUME NEW st \in Seq(FrameRecord), st # <<>>, NEW f \in FrameRecord
  PROVE  /\ Built(st) = Built(Front(st)) \union BuiltBy(Last(st))
         /\ Built([st EXCEPT ![Len(st)] = f]) = Built(Front(st)) \union BuiltBy(f)
         /\ Built(Append(st, f)) = Built(st) \union BuiltBy(f)
<1>1. /\ Len(st) \in Nat /\ Len(st) \in 1..Len(st) /\ Last(st) = st[Len(st)]
      /\ Len(Front(st)) = Len(st) - 1 /\ \A d \in 1..(Len(st) - 1) : Front(st)[d] = st[d]
  BY Lengths, FrontFacts
<1>2. \A d \in 1..Len(st) : d = Len(st) \/ d \in 1..(Len(st) - 1)
  BY <1>1
<1>3. \A d \in 1..(Len(st) - 1) : d \in 1..Len(st) /\ d # Len(st)
  BY <1>1
<1>4. Built(st) = Built(Front(st)) \union BuiltBy(Last(st))
  BY <1>1, <1>2, <1>3 DEF Built
<1>5. Built([st EXCEPT ![Len(st)] = f]) = Built(Front(st)) \union BuiltBy(f)
  <2> DEFINE su == [st EXCEPT ![Len(st)] = f]
  <2>1. /\ Len(su) = Len(st) /\ su[Len(st)] = f
        /\ \A d \in 1..(Len(st) - 1) : su[d] = st[d]
    BY <1>1
  <2> HIDE DEF su
  <2>2. Built(su) = Built(Front(st)) \union BuiltBy(f)
    BY <1>1, <1>2, <1>3, <2>1 DEF Built
  <2> QED  BY <2>2 DEF su
<1>6. Built(Append(st, f)) = Built(st) \union BuiltBy(f)
  <2> DEFINE su == Append(st, f)
  <2>1. /\ Len(su) = Len(st) + 1 /\ su[Len(st) + 1] = f
        /\ \A d \in 1..Len(st) : su[d] = st[d]
    BY <1>1
  <2>2. /\ \A d \in 1..(Len(st) + 1) : d = Len(st) + 1 \/ d \in 1..Len(st)
        /\ \A d \in 1..Len(st) : d \in 1..(Len(st) + 1)
        /\ Len(st) + 1 \in 1..(Len(st) + 1)
    BY <1>1
  <2> HIDE DEF su
  <2>3. Built(su) = Built(st) \union BuiltBy(f)
    BY <2>1, <2>2 DEF Built
  <2> QED  BY <2>3 DEF su
<1> QED  BY <1>4, <1>5, <1>6

\* Two functions have two nodes.
LEMMA BuiltApart ==
  ASSUME NEW ts, NEW ns, NEW st \in Seq(FrameRecord), st # <<>>, NEW r, Tree(ts, ns, st, r)
  PROVE  BuiltBy(Last(st)) \intersect Built(Front(st)) = {}
<1>1. /\ Len(st) \in Nat /\ Len(st) \in 1..Len(st) /\ Last(st) = st[Len(st)]
      /\ Len(Front(st)) = Len(st) - 1 /\ \A d \in 1..(Len(st) - 1) : Front(st)[d] = st[d]
  BY Lengths, FrontFacts
<1>2. \A d \in 1..(Len(st) - 1) : d \in 1..Len(st) /\ d # Len(st)
  BY <1>1
<1>3. \A d \in 1..Len(st) :
        Builds(Last(st)) /\ Builds(st[d]) /\ st[d].node = Last(st).node => d = Len(st)
  BY <1>1 DEF Tree
<1> QED  BY <1>1, <1>2, <1>3 DEF Built, BuiltBy

-----------------------------------------------------------------------------
(* How tokens come to have nodes. *)

LEMMA CountSame ==
  ASSUME NEW ts, NEW ns, NEW ms, NEW c, NEW due, Counted(ts, ns, c, due), Len(ms) = Len(ns),
         \A n \in 1..Len(ns) : ms[n].tok = ns[n].tok
  PROVE  Counted(ts, ms, c, due)
BY DEF Counted

\* A token that means nothing is passed over.
LEMMA CountSkip ==
  ASSUME NEW ts, NEW ns, NEW c \in Nat, c > 0, Counted(ts, ns, c, 0), TokOf(ts, c + 1) \notin Meaningful
  PROVE  Counted(ts, ns, c + 1, 0)
<1>1. \A n \in 1..Len(ns) : ns[n].tok \in 1..(c + 1) /\ ns[n].tok # 0
  BY DEF Counted
<1>2. ASSUME NEW i \in 1..Len(ts), i <= c + 1, ts[i] \in Meaningful
      PROVE  \E n \in 1..Len(ns) : ns[n].tok = i
  <2>1. i # c + 1
    BY <1>2 DEF TokOf
  <2>2. i <= c /\ i # 0
    BY <1>2, <2>1
  <2> QED  BY <1>2, <2>2 DEF Counted
<1> QED  BY <1>1, <1>2 DEF Counted

\* A token is read whose node is still to come.
LEMMA CountRead ==
  ASSUME NEW ts, NEW ns, NEW c \in Nat, c > 0, Counted(ts, ns, c, 0)
  PROVE  Counted(ts, ns, c + 1, c + 1)
<1>1. \A n \in 1..Len(ns) : ns[n].tok \in 1..(c + 1) /\ ns[n].tok # c + 1
  BY DEF Counted
<1>2. ASSUME NEW i \in 1..Len(ts), i <= c + 1, i # c + 1, ts[i] \in Meaningful
      PROVE  \E n \in 1..Len(ns) : ns[n].tok = i
  <2>2. i <= c /\ i # 0
    BY <1>2
  <2> QED  BY <1>2, <2>2 DEF Counted
<1> QED  BY <1>1, <1>2 DEF Counted

\* The token that was read last turns out to mean nothing.
LEMMA CountForget ==
  ASSUME NEW ts, NEW ns, NEW c \in Nat, Counted(ts, ns, c, c), TokOf(ts, c) \notin Meaningful
  PROVE  Counted(ts, ns, c, 0)
<1>1. ASSUME NEW i \in 1..Len(ts), i <= c, ts[i] \in Meaningful
      PROVE  i # c
  BY <1>1 DEF TokOf
<1>2. \A n \in 1..Len(ns) : ns[n].tok # 0
  BY DEF Counted
<1> QED  BY <1>1, <1>2 DEF Counted

\* A new node for the token that is due, or is read with it.
LEMMA CountFor ==
  ASSUME NEW ts, NEW ns, NEW ms, NEW c \in Nat, c > 0, Counted(ts, ns, c, c),
         Len(ns) \in Nat, Len(ms) = Len(ns) + 1, \A n \in 1..Len(ns) : ms[n].tok = ns[n].tok,
         ms[Len(ms)].tok = c
  PROVE  Counted(ts, ms, c, 0)
<1>1. \A n \in 1..Len(ms) : n \in 1..Len(ns) \/ n = Len(ms)
  OBVIOUS
<1>2. \A n \in 1..Len(ns) : n \in 1..Len(ms)
  OBVIOUS
<1>3. Len(ms) \in 1..Len(ms)
  OBVIOUS
<1>4. \A n \in 1..Len(ms) : ms[n].tok \in 1..c /\ ms[n].tok # 0
  BY <1>1 DEF Counted
<1>5. \A n, m \in 1..Len(ms) : ms[n].tok = ms[m].tok => n = m \/ ms[n].tok = 1
  BY <1>1 DEF Counted
<1>6. \A i \in 1..Len(ts) : i <= c /\ ts[i] \in Meaningful => \E n \in 1..Len(ms) : ms[n].tok = i
  BY <1>2, <1>3 DEF Counted
<1> QED  BY <1>4, <1>5, <1>6 DEF Counted

\* A new node without a token.
LEMMA CountBlank ==
  ASSUME NEW ts, NEW ns, NEW ms, NEW c \in Nat, c > 0, NEW due, Counted(ts, ns, c, due),
         Len(ns) \in Nat, Len(ms) = Len(ns) + 1, \A n \in 1..Len(ns) : ms[n].tok = ns[n].tok,
         ms[Len(ms)].tok = 1
  PROVE  Counted(ts, ms, c, due)
<1>1. \A n \in 1..Len(ms) : n \in 1..Len(ns) \/ n = Len(ms)
  OBVIOUS
<1>2. \A n \in 1..Len(ns) : n \in 1..Len(ms)
  OBVIOUS
<1>4. \A n \in 1..Len(ms) : ms[n].tok \in 1..c /\ ms[n].tok # due
  BY <1>1 DEF Counted
<1>5. \A n, m \in 1..Len(ms) : ms[n].tok = ms[m].tok => n = m \/ ms[n].tok = 1
  BY <1>1 DEF Counted
<1>6. \A i \in 1..Len(ts) :
        i <= c /\ i # due /\ ts[i] \in Meaningful => \E n \in 1..Len(ms) : ms[n].tok = i
  BY <1>2 DEF Counted
<1> QED  BY <1>4, <1>5, <1>6 DEF Counted

\* A node without a token is given the one that is read.
LEMMA CountMark ==
  ASSUME NEW ts, NEW ns, NEW ms, NEW c \in Nat, c > 0, Counted(ts, ns, c, 0),
         TokOf(ts, 1) \notin Meaningful,
         Len(ms) = Len(ns), NEW p \in 1..Len(ns), ns[p].tok = 1, ms[p].tok = c + 1,
         \A n \in 1..Len(ns) : n # p => ms[n].tok = ns[n].tok
  PROVE  Counted(ts, ms, c + 1, 0)
<1>1. \A n \in 1..Len(ns) : ns[n].tok \in 1..c
  BY DEF Counted
<1>4. \A n \in 1..Len(ms) : ms[n].tok \in 1..(c + 1) /\ ms[n].tok # 0
  BY <1>1
<1>5. \A n, m \in 1..Len(ms) : ms[n].tok = ms[m].tok => n = m \/ ms[n].tok = 1
  BY <1>1 DEF Counted
<1>6. ASSUME NEW i \in 1..Len(ts), i <= c + 1, ts[i] \in Meaningful
      PROVE  \E n \in 1..Len(ms) : ms[n].tok = i
  <2>1. CASE i = c + 1
    BY <2>1
  <2>2. CASE i # c + 1
    <3>1. i <= c /\ i # 0
      BY <1>6, <2>2
    <3>2. PICK n \in 1..Len(ns) : ns[n].tok = i
      BY <1>6, <3>1 DEF Counted
    <3>3. i # 1
      BY <1>6 DEF TokOf
    <3> QED  BY <3>2, <3>3
  <2> QED  BY <2>1, <2>2
<1> QED  BY <1>4, <1>5, <1>6 DEF Counted

-----------------------------------------------------------------------------
(* What the stack does. *)

LEMMA Places ==
  ASSUME NEW m \in Nat, m \in 1..m
  PROVE  (1 = m \/ 1 \in 1..(m - 1)) /\ \A d \in 1..m : d = m \/ d \in 1..(m - 1)
OBVIOUS

\* What the invariant says while no error is on its way or was dropped.
LEMMA TextNow ==
  ASSUME ParseInv, TreeInv, TextInv, ~lost, ret # Err, stk # <<>>
  PROVE  /\ Woven(nodes, stk, ret) /\ Told(toks, nodes, stk, ret, cur) /\ Tree(toks, nodes, stk, ret)
         /\ stk \in Seq(FrameRecord) /\ nodes \in Seq(NodeRec) /\ Len(nodes) \in Nat
         /\ Len(stk) \in 1..Len(stk) /\ Last(stk) = stk[Len(stk)] /\ Last(stk) = Top
         /\ Top \in FrameRecord /\ FrameOk(Top, Len(nodes)) /\ cur \in Nat /\ cur > 0
<1>1. /\ stk \in Seq(FrameRecord) /\ nodes \in Seq(NodeRec) /\ Len(nodes) \in Nat /\ cur \in Nat
  BY Typed DEF ParseInv
<1>2. Len(stk) \in 1..Len(stk) /\ Last(stk) = stk[Len(stk)] /\ Last(stk) = Top /\ Top \in FrameRecord
  BY <1>1, Lengths DEF Top
<1>3. Woven(nodes, stk, ret) /\ Told(toks, nodes, stk, ret, cur) /\ Tree(toks, nodes, stk, ret)
  BY DEF TextInv, TreeInv
<1>4. FrameOk(Top, Len(nodes)) /\ cur > 0
  BY <1>2, <1>3 DEF ParseInv, FramesOk, Told, Top
<1> QED  BY <1>1, <1>2, <1>3, <1>4

\* What is true of the functions below the innermost, whatever it does.
BelowTold(ns, c) ==
  /\ \A d \in 1..(Len(stk) - 1) : Unmarked(stk[d].fn, stk[d].at) => ns[stk[d].node].tok = 1
  /\ \A d \in 1..(Len(stk) - 1) : d + 1 < Len(stk) => CalledFor(stk[d], stk[d + 1])
  /\ \A d \in 1..(Len(stk) - 1) : NotStale(stk[d], toks, c)

LEMMA BelowKept ==
  ASSUME ParseInv, TreeInv, TextInv, ~lost, ret # Err, stk # <<>>, NEW ns, NEW c,
         \A n \in 1..Len(nodes) : ~(Builds(Top) /\ n = Top.node) => ns[n].tok = nodes[n].tok
  PROVE  BelowTold(ns, c)
<1>1. /\ Told(toks, nodes, stk, ret, cur) /\ Tree(toks, nodes, stk, ret)
      /\ stk \in Seq(FrameRecord) /\ Len(stk) \in 1..Len(stk) /\ Top = stk[Len(stk)] /\ Len(stk) \in Nat
  BY TextNow
<1>2. ASSUME NEW d \in 1..(Len(stk) - 1), Unmarked(stk[d].fn, stk[d].at) PROVE ns[stk[d].node].tok = 1
  <2>1. d \in 1..Len(stk) /\ d # Len(stk)
    BY <1>1
  <2>2. stk[d].fn \in DOMAIN NodeOf
    BY <1>2, Names DEF Unmarked
  <2>3. Builds(stk[d])
    BY <2>2 DEF Builds
  <2>4. stk[d].node \in 1..Len(nodes)
    BY <2>1, <2>3, <1>1 DEF Tree, Owns
  <2>5. ~(Builds(Top) /\ stk[d].node = Top.node)
    BY <1>1, <2>1, <2>3 DEF Tree
  <2>6. nodes[stk[d].node].tok = 1
    BY <1>1, <1>2, <2>1 DEF Told
  <2> QED  BY <2>4, <2>5, <2>6
<1>3. ASSUME NEW d \in 1..(Len(stk) - 1) PROVE NotStale(stk[d], toks, c)
  <2>1. d \in 1..Len(stk) /\ d < Len(stk)
    BY <1>1
  <2>2. Waiting(stk[d]) /\ NotStale(stk[d], toks, cur)
    BY <1>1, <2>1 DEF ParseInv, OthersWait, Told
  <2> QED  BY <2>2 DEF Waiting, NotStale
<1> QED  BY <1>1, <1>2, <1>3 DEF BelowTold, Told

\* The innermost function goes on as f.
LEMMA TextTop ==
  ASSUME ParseInv, TreeInv, TextInv, ~lost, ret # Err, stk # <<>>, NEW f \in FrameRecord,
         f.fn = Top.fn, f.term = Top.term, f.bp = Top.bp, f.fn = "root" => f.node = Top.node,
         stk' = [stk EXCEPT ![Len(stk)] = f], ret' = NoRet, toks' = toks, cur' > 0,
         Joined(nodes', (Built(Front(stk)) \union BuiltBy(f)) \union HeldBy(f)),
         HeldBy(f) \intersect (Built(Front(stk)) \union BuiltBy(f)) = {},
         Counted(toks, nodes', cur', IF Owes(f) THEN cur' ELSE 0),
         BelowTold(nodes', cur'),
         Unmarked(f.fn, f.at) => nodes'[f.node].tok = 1, NotStale(f, toks, cur'),
         EndsOf(f) # {} => TokOf(toks, cur' + 1) \in EndsOf(f)
  PROVE  TextInv'
<1>1. /\ Woven(nodes, stk, ret) /\ Told(toks, nodes, stk, ret, cur)
      /\ stk \in Seq(FrameRecord) /\ Len(stk) \in 1..Len(stk) /\ Top = stk[Len(stk)] /\ Len(stk) \in Nat
  BY TextNow
<1>2. /\ stk' \in Seq(FrameRecord) /\ Len(stk') = Len(stk) /\ stk' # <<>> /\ stk'[Len(stk)] = f
      /\ \A d \in 1..(Len(stk) - 1) : stk'[d] = stk[d]
  BY <1>1
<1>3. Last(stk') = f
  BY <1>2 DEF Last
<1>4. Built(stk') = Built(Front(stk)) \union BuiltBy(f)
  BY <1>1, BuiltTop
<1>5. InHand(stk', NoRet) = HeldBy(f)
  BY <1>2, <1>3 DEF InHand
<1>6. stk'[1].fn = "root" /\ stk'[1].node = 1
  <2>1. stk[1].fn = "root" /\ stk[1].node = 1
    BY DEF Woven, TextInv
  <2>2. 1 = Len(stk) \/ 1 \in 1..(Len(stk) - 1)
    BY <1>1, Places
  <2> QED  BY <1>1, <1>2, <2>1, <2>2
<1>7. Woven(nodes', stk', NoRet)
  BY <1>2, <1>4, <1>5, <1>6 DEF Woven, Loose
<1>8. Due(stk', NoRet, cur') = IF Owes(f) THEN cur' ELSE 0
  BY <1>2, <1>3 DEF Due
<1>9. \A d \in 1..Len(stk') : d = Len(stk) \/ d \in 1..(Len(stk) - 1)
  BY <1>1, <1>2, Places
<1>10. \A d \in 1..Len(stk') : Unmarked(stk'[d].fn, stk'[d].at) => nodes'[stk'[d].node].tok = 1
  BY <1>2, <1>9 DEF BelowTold
<1>11. \A d \in 1..Len(stk') : NotStale(stk'[d], toks, cur')
  BY <1>2, <1>9 DEF BelowTold
<1>12. ASSUME NEW d \in 1..(Len(stk') - 1) PROVE CalledFor(stk'[d], stk'[d + 1])
  <2>1. d \in 1..(Len(stk) - 1) /\ CalledFor(stk[d], stk[d + 1])
    BY <1>1, <1>2 DEF Told
  <2>2. CASE d + 1 = Len(stk)
    BY <1>1, <1>2, <2>1, <2>2 DEF CalledFor
  <2>3. CASE d + 1 # Len(stk)
    <3>1. d + 1 \in 1..(Len(stk) - 1)
      BY <1>1, <2>1, <2>3
    <3> QED  BY <1>2, <2>1, <3>1
  <2> QED  BY <2>2, <2>3
<1>13. Behind(f, NoRet, TokOf(toks, cur' + 1))
  BY DEF Behind
<1>14. Told(toks, nodes', stk', NoRet, cur')
  BY <1>2, <1>3, <1>8, <1>10, <1>11, <1>12, <1>13 DEF Told
<1> QED  BY <1>7, <1>14 DEF TextInv

\* The innermost function waits as f for g.
LEMMA TextPush ==
  ASSUME ParseInv, TreeInv, TextInv, ~lost, ret # Err, stk # <<>>, NEW f \in FrameRecord,
         f.fn = Top.fn, f.term = Top.term, f.bp = Top.bp, f.node = Top.node,
         Builds(f) <=> Builds(Top), NEW g \in FrameRecord,
         stk' = Append([stk EXCEPT ![Len(stk)] = f], g), ret' = NoRet, toks' = toks, cur' > 0,
         Joined(nodes', (Built(stk) \union BuiltBy(g)) \union HeldBy(g)),
         HeldBy(g) \intersect (Built(stk) \union BuiltBy(g)) = {},
         Counted(toks, nodes', cur', IF Owes(g) THEN cur' ELSE 0),
         BelowTold(nodes', cur'), CalledFor(f, g),
         Unmarked(f.fn, f.at) => nodes'[f.node].tok = 1, NotStale(f, toks, cur'),
         Unmarked(g.fn, g.at) => nodes'[g.node].tok = 1, NotStale(g, toks, cur'), EndsOf(g) = {}
  PROVE  TextInv'
<1> DEFINE su == [stk EXCEPT ![Len(stk)] = f]
           m == Len(stk)
<1>1. /\ Woven(nodes, stk, ret) /\ Told(toks, nodes, stk, ret, cur)
      /\ stk \in Seq(FrameRecord) /\ m \in 1..m /\ Top = stk[m] /\ m \in Nat /\ Last(stk) = Top
  BY TextNow
<1>2. /\ su \in Seq(FrameRecord) /\ Len(su) = m /\ su # <<>> /\ su[m] = f
      /\ \A d \in 1..(m - 1) : su[d] = stk[d]
  BY <1>1
<1>3. Built(su) = Built(stk)
  <2>1. BuiltBy(f) = BuiltBy(Last(stk))
    BY <1>1 DEF BuiltBy
  <2>2. stk \in Seq(FrameRecord)
    BY <1>1
  <2>3. /\ Built(stk) = Built(Front(stk)) \union BuiltBy(Last(stk))
        /\ Built([stk EXCEPT ![Len(stk)] = f]) = Built(Front(stk)) \union BuiltBy(f)
    BY <2>2, BuiltTop
  <2> QED  BY <2>1, <2>3
<1>4. stk' = Append(su, g)
  OBVIOUS
<1> HIDE DEF su, m
<1>5. /\ stk' \in Seq(FrameRecord) /\ Len(stk') = m + 1 /\ stk' # <<>> /\ stk'[m + 1] = g
      /\ \A d \in 1..m : stk'[d] = su[d]
  BY <1>1, <1>2, <1>4
<1>6. Last(stk') = g
  BY <1>5 DEF Last
<1>7. Built(stk') = Built(stk) \union BuiltBy(g)
  BY <1>2, <1>3, <1>4, BuiltTop
<1>8. InHand(stk', NoRet) = HeldBy(g)
  BY <1>5, <1>6 DEF InHand
<1>9. stk'[1].fn = "root" /\ stk'[1].node = 1
  <2>1. stk[1].fn = "root" /\ stk[1].node = 1
    BY DEF Woven, TextInv
  <2>2. 1 \in 1..m /\ (1 = m \/ 1 \in 1..(m - 1))
    BY <1>1
  <2> QED  BY <1>1, <1>2, <1>5, <2>1, <2>2
<1>10. Woven(nodes', stk', NoRet)
  BY <1>5, <1>7, <1>8, <1>9 DEF Woven, Loose
<1>11. Due(stk', NoRet, cur') = IF Owes(g) THEN cur' ELSE 0
  BY <1>5, <1>6 DEF Due
<1>12. \A d \in 1..Len(stk') : d = m + 1 \/ (d = m /\ d \in 1..m) \/ (d \in 1..(m - 1) /\ d \in 1..m)
  BY <1>1, <1>5
<1>13. \A d \in 1..Len(stk') : Unmarked(stk'[d].fn, stk'[d].at) => nodes'[stk'[d].node].tok = 1
  BY <1>2, <1>5, <1>12 DEF BelowTold, m
<1>14. \A d \in 1..Len(stk') : NotStale(stk'[d], toks, cur')
  BY <1>2, <1>5, <1>12 DEF BelowTold, m
<1>15. ASSUME NEW d \in 1..(Len(stk') - 1) PROVE CalledFor(stk'[d], stk'[d + 1])
  <2>1. d \in 1..m
    BY <1>1, <1>5
  <2>2. CASE d = m
    BY <1>2, <1>5, <2>1, <2>2
  <2>3. CASE d # m
    <3>4. d \in 1..(m - 1) /\ d + 1 \in 1..m
      BY <1>1, <2>1, <2>3
    <3>1. d \in 1..(m - 1) /\ d + 1 \in 1..m /\ CalledFor(stk[d], stk[d + 1])
      BY <1>1, <3>4 DEF Told, m
    <3>2. stk'[d] = stk[d] /\ stk'[d + 1] = su[d + 1]
      BY <1>2, <1>5, <2>1, <3>1
    <3>3. d + 1 = m \/ d + 1 \in 1..(m - 1)
      BY <1>1, <3>1
    <3> QED  BY <1>1, <1>2, <3>1, <3>2, <3>3 DEF CalledFor
  <2> QED  BY <2>2, <2>3
<1>16. Behind(g, NoRet, TokOf(toks, cur' + 1))
  BY DEF Behind
<1>17. Told(toks, nodes', stk', NoRet, cur')
  BY <1>5, <1>6, <1>11, <1>13, <1>14, <1>15, <1>16 DEF Told
<1> QED  BY <1>10, <1>17 DEF TextInv

\* The innermost function returns.
LEMMA TextPop ==
  ASSUME ParseInv, TreeInv, TextInv, ~lost, ret # Err, stk # <<>>,
         stk' = Front(stk), ret' # NoRet, toks' = toks, nodes' = nodes, cur' > 0,
         BuiltBy(Top) \union InHand(stk, ret) = {ret'.node},
         Top.fn = "root" => ret'.node = Top.node /\ cur' > Len(toks),
         Counted(toks, nodes, cur', 0),
         Top.fn = "expr" /\ Top.bp = 0 => TokOf(toks, cur' + 1) \in Top.term
  PROVE  TextInv'
<1> DEFINE m == Len(stk) - 1
<1>1. /\ Woven(nodes, stk, ret) /\ Told(toks, nodes, stk, ret, cur) /\ Tree(toks, nodes, stk, ret)
      /\ stk \in Seq(FrameRecord) /\ Len(stk) \in 1..Len(stk) /\ Top = stk[Len(stk)] /\ Len(stk) \in Nat
      /\ Last(stk) = Top /\ FrameOk(Top, Len(nodes))
  BY TextNow
<1>2. /\ stk' \in Seq(FrameRecord) /\ Len(stk') = m /\ \A d \in 1..m : stk'[d] = stk[d]
      /\ m \in Nat /\ (stk' = <<>> <=> m = 0)
  <2>1. stk' \in Seq(FrameRecord) /\ Len(stk') = m /\ \A d \in 1..m : stk'[d] = stk[d]
    BY <1>1, FrontFacts
  <2>2. m \in Nat
    BY <1>1
  <2>3. stk' = <<>> <=> Len(stk') = 0
    BY <2>1
  <2> QED  BY <2>1, <2>2, <2>3
<1>3. BelowTold(nodes, cur')
  BY BelowKept
<1>4. Built(stk') \union InHand(stk', ret') = Loose(stk, ret)
  BY <1>1, BuiltTop DEF Loose, InHand
<1>5. InHand(stk', ret') \intersect Built(stk') = {}
  <2>1. BuiltBy(Top) \intersect Built(stk') = {}
    BY <1>1, BuiltApart
  <2>2. InHand(stk, ret) \intersect Built(stk) = {} /\ Built(stk') \subseteq Built(stk)
    BY <1>1, BuiltTop DEF Woven
  <2>3. InHand(stk', ret') = {ret'.node}
    BY DEF InHand
  <2> QED  BY <2>1, <2>2, <2>3
<1>6. IF stk' = <<>> THEN ret'.node = 1 /\ cur' > Len(toks) ELSE stk'[1].fn = "root" /\ stk'[1].node = 1
  <2>1. stk[1].fn = "root" /\ stk[1].node = 1
    BY DEF Woven, TextInv
  <2>2. m = 0 => Len(stk) = 1
    BY <1>1
  <2>3. m # 0 => 1 \in 1..m
    BY <1>2
  <2> QED  BY <1>1, <1>2, <2>1, <2>2, <2>3
<1>7. Woven(nodes, stk', ret')
  BY <1>1, <1>4, <1>5, <1>6 DEF Woven, Loose
<1> HIDE DEF m
<1>8. Due(stk', ret', cur') = 0
  BY DEF Due
<1>9. ASSUME stk' # <<>> PROVE Behind(Last(stk'), ret', TokOf(toks, cur' + 1))
  <2>1. m \in 1..m /\ m + 1 = Len(stk) /\ m \in 1..(Len(stk) - 1)
    BY <1>1, <1>2, <1>9 DEF m
  <2>2. Last(stk') = stk[m] /\ CalledFor(stk[m], Top)
    BY <1>1, <1>2, <2>1 DEF Last, Told
  <2>3. Top.term \subseteq Terminators
    BY <1>1 DEF FrameOk
  <2> QED  BY <2>2, <2>3 DEF Behind, CalledFor
<1>10. \A d \in 1..(Len(stk') - 1) : CalledFor(stk'[d], stk'[d + 1])
  <2>1. \A d \in 1..(m - 1) : d \in 1..(Len(stk) - 1) /\ d \in 1..m /\ d + 1 \in 1..m
    BY <1>1, <1>2 DEF m
  <2> QED  BY <1>1, <1>2, <2>1 DEF Told
<1>11. \A d \in 1..Len(stk') :
         /\ NotStale(stk'[d], toks, cur')
         /\ Unmarked(stk'[d].fn, stk'[d].at) => nodes[stk'[d].node].tok = 1
  BY <1>2, <1>3 DEF BelowTold, m
<1>12. Told(toks, nodes, stk', ret', cur')
  BY <1>6, <1>8, <1>9, <1>10, <1>11 DEF Told
<1> QED  BY <1>7, <1>12 DEF TextInv

\* An error is on its way.
LEMMA TextFails == TextInv /\ toks' = toks /\ (lost' \/ ret' = Err) => TextInv'
BY DEF TextInv

-----------------------------------------------------------------------------
(* The steps the functions are made of. *)

\* What the invariant says when a function runs.
LEMMA TextRuns ==
  ASSUME ParseInv, TreeInv, TextInv, Active, ~lost
  PROVE  /\ stk # <<>> /\ ret = NoRet /\ ret # Err
         /\ Joined(nodes, Built(stk) \union HeldBy(Top)) /\ HeldBy(Top) \intersect Built(stk) = {}
         /\ InHand(stk, ret) = HeldBy(Top)
         /\ Built(stk) = Built(Front(stk)) \union BuiltBy(Top)
         /\ Counted(toks, nodes, cur, IF Owes(Top) THEN cur ELSE 0)
         /\ Unmarked(Top.fn, Top.at) => nodes[Top.node].tok = 1
         /\ NotStale(Top, toks, cur) /\ Behind(Top, NoRet, Ahead)
         /\ nodes \in Seq(NodeRec) /\ Len(nodes) \in Nat /\ Top \in FrameRecord
         /\ cur \in Nat /\ cur > 0 /\ TokOf(toks, cur + 1) = Ahead /\ TokOf(toks, 1) \notin Meaningful
         /\ Builds(Top) => Top.node \in 1..Len(nodes)
<1>1. stk # <<>> /\ ret = NoRet /\ ret # Err
  BY RetFacts DEF Active
<1>2. /\ Woven(nodes, stk, ret) /\ Told(toks, nodes, stk, ret, cur)
      /\ stk \in Seq(FrameRecord) /\ nodes \in Seq(NodeRec) /\ Len(nodes) \in Nat
      /\ Len(stk) \in 1..Len(stk) /\ Last(stk) = stk[Len(stk)] /\ Last(stk) = Top
      /\ Top \in FrameRecord /\ cur \in Nat /\ cur > 0
  BY <1>1, TextNow
<1>3. InHand(stk, ret) = HeldBy(Top)
  BY <1>1, <1>2 DEF InHand
<1>4. Joined(nodes, Built(stk) \union HeldBy(Top)) /\ HeldBy(Top) \intersect Built(stk) = {}
  BY <1>2, <1>3 DEF Woven, Loose
<1>5. Built(stk) = Built(Front(stk)) \union BuiltBy(Top)
  BY <1>1, <1>2, BuiltTop
<1>6. Counted(toks, nodes, cur, IF Owes(Top) THEN cur ELSE 0)
  BY <1>1, <1>2 DEF Told, Due
<1>7. TokOf(toks, cur + 1) = Ahead
  BY DEF TokOf, Ahead, Tok
<1>8. (Unmarked(Top.fn, Top.at) => nodes[Top.node].tok = 1) /\ NotStale(Top, toks, cur)
  BY <1>2 DEF Told
<1>9. Behind(Top, NoRet, Ahead)
  BY <1>1, <1>2, <1>7 DEF Told
<1>10. TokOf(toks, 1) \notin Meaningful
  <2>1. TokOf(toks, 1) = "NULL"
    BY Typed DEF TokOf, TextInv, ParseInv
  <2>2. "NULL" \notin Meaningful
    BY DEF Meaningful, Atoms, TypeKeywords, Operators
  <2> QED  BY <2>1, <2>2
<1>11. Builds(Top) => Top.node \in 1..Len(nodes)
  BY TreeNow
<1> QED  BY <1>1, <1>2, <1>3, <1>4, <1>5, <1>6, <1>7, <1>8, <1>9, <1>10, <1>11

LEMMA FailText ==
  ASSUME TextInv, NEW c, Fail(c)
  PROVE  TextInv'
BY TextFails DEF Fail, Quiet

LEMMA TakeText ==
  ASSUME ParseInv, TreeInv, TextInv, Own, NEW next \in 0..5, Take(cur + 1, next),
         Ahead \notin Meaningful, ~Unmarked(Top.fn, next), ListEnds(Top.fn, next, Top.type) = {}
  PROVE  TextInv'
<1> DEFINE f == Going(next, 0)
<1>1. /\ stk' = Goto(next, 0) /\ nodes' = nodes /\ ret' = ret /\ cur' = cur + 1
      /\ toks' = toks /\ lost' = lost /\ Active
  BY DEF Take, Quiet, Own
<1> SUFFICES ASSUME ~lost PROVE TextInv'
  BY <1>1, TextFails
<1>2. /\ Goto(next, 0) = [stk EXCEPT ![Len(stk)] = f] /\ f \in FrameRecord
      /\ f.fn = Top.fn /\ f.at = next /\ f.node = Top.node /\ f.type = Top.type
      /\ f.term = Top.term /\ f.bp = Top.bp
  BY <1>1, GotoFacts DEF Active
<1> HIDE DEF f
<1>3. /\ stk # <<>> /\ ret = NoRet /\ ret # Err
      /\ Joined(nodes, Built(stk) \union HeldBy(Top)) /\ HeldBy(Top) \intersect Built(stk) = {}
      /\ Built(stk) = Built(Front(stk)) \union BuiltBy(Top)
      /\ Counted(toks, nodes, cur, IF Owes(Top) THEN cur ELSE 0)
      /\ cur \in Nat /\ cur > 0 /\ TokOf(toks, cur + 1) = Ahead
  BY <1>1, TextRuns
<1>4. /\ Builds(f) /\ Builds(Top) /\ f.fn \notin {"expr", "stmt", "nud", "led"}
      /\ Top.fn \notin {"expr", "stmt", "nud", "led"}
  BY <1>2, OwnBuilds DEF Own
<1>5. /\ HeldBy(f) = {} /\ HeldBy(Top) = {} /\ BuiltBy(f) = BuiltBy(Top) /\ ~Owes(f) /\ ~Owes(Top)
      /\ NotStale(f, toks, cur')
  BY <1>2, <1>4 DEF HeldBy, HoldsOperand, BuiltBy, Owes, NotStale
<1>6. Counted(toks, nodes, cur', 0)
  BY <1>1, <1>3, <1>5, CountSkip
<1>7. BelowTold(nodes, cur')
  BY <1>3, BelowKept
<1>8. EndsOf(f) = {} /\ ~Unmarked(f.fn, f.at)
  BY <1>2 DEF EndsOf
<1>9. Joined(nodes', (Built(Front(stk)) \union BuiltBy(f)) \union HeldBy(f))
  BY <1>1, <1>3, <1>5
<1>10. cur' > 0 /\ ret' = NoRet /\ stk' = [stk EXCEPT ![Len(stk)] = f]
  BY <1>1, <1>2, <1>3
<1>11. Counted(toks, nodes', cur', IF Owes(f) THEN cur' ELSE 0) /\ BelowTold(nodes', cur')
  BY <1>1, <1>5, <1>6, <1>7
<1>12. f.fn = "root" => f.node = Top.node
  BY <1>2
<1> QED  BY <1>1, <1>2, <1>3, <1>5, <1>8, <1>9, <1>10, <1>11, <1>12, TextTop

LEMMA ExpectText ==
  ASSUME ParseInv, TreeInv, TextInv, Own, NEW type, NEW next \in 0..5, Expect(type, next),
         type \notin Meaningful, ~Unmarked(Top.fn, next), ListEnds(Top.fn, next, Top.type) = {}
  PROVE  TextInv'
BY TakeText, FailText DEF Expect

\* A node is given its token.
LEMMA MarkText ==
  ASSUME ParseInv, TreeInv, TextInv, Own, NEW types, NEW next \in 0..5, Mark(types, next),
         Unmarked(Top.fn, Top.at), ~Unmarked(Top.fn, next), ListEnds(Top.fn, next, Top.type) = {}
  PROVE  TextInv'
<1>1. CASE Ahead \notin types
  BY <1>1, FailText DEF Mark
<1>2. CASE Ahead \in types
  <2> DEFINE f == Going(next, 0)
  <2>1. /\ stk' = Goto(next, 0) /\ nodes' = [nodes EXCEPT ![Top.node].tok = cur + 1] /\ ret' = ret
        /\ cur' = cur + 1 /\ toks' = toks /\ lost' = lost /\ Active
    BY <1>2 DEF Mark, Quiet, Own
  <2> SUFFICES ASSUME ~lost PROVE TextInv'
    BY <2>1, TextFails
  <2>2. /\ Goto(next, 0) = [stk EXCEPT ![Len(stk)] = f] /\ f \in FrameRecord
        /\ f.fn = Top.fn /\ f.at = next /\ f.node = Top.node /\ f.type = Top.type
        /\ f.term = Top.term /\ f.bp = Top.bp
    BY <2>1, GotoFacts DEF Active
  <2> HIDE DEF f
  <2>3. /\ stk # <<>> /\ ret = NoRet /\ ret # Err
        /\ Joined(nodes, Built(stk) \union HeldBy(Top)) /\ HeldBy(Top) \intersect Built(stk) = {}
        /\ Built(stk) = Built(Front(stk)) \union BuiltBy(Top)
        /\ Counted(toks, nodes, cur, IF Owes(Top) THEN cur ELSE 0)
        /\ Unmarked(Top.fn, Top.at) => nodes[Top.node].tok = 1
        /\ nodes \in Seq(NodeRec) /\ Len(nodes) \in Nat
        /\ cur \in Nat /\ cur > 0 /\ TokOf(toks, 1) \notin Meaningful
        /\ Builds(Top) => Top.node \in 1..Len(nodes)
    BY <2>1, TextRuns
  <2>4. /\ Builds(f) /\ Builds(Top) /\ f.fn \notin {"expr", "stmt", "nud", "led"}
        /\ Top.fn \notin {"expr", "stmt", "nud", "led"}
    BY <2>2, OwnBuilds DEF Own
  <2>5. /\ HeldBy(f) = {} /\ HeldBy(Top) = {} /\ BuiltBy(f) = BuiltBy(Top) /\ ~Owes(f) /\ ~Owes(Top)
        /\ NotStale(f, toks, cur')
    BY <2>2, <2>4 DEF HeldBy, HoldsOperand, BuiltBy, Owes, NotStale
  <2>6. /\ Len(nodes') = Len(nodes) /\ nodes'[Top.node].tok = cur + 1
        /\ \A n \in 1..Len(nodes) : nodes'[n].kids = nodes[n].kids
        /\ \A n \in 1..Len(nodes) : n # Top.node => nodes'[n].tok = nodes[n].tok
    <3>1. Top.node \in 1..Len(nodes)
      BY <2>3, <2>4
    <3>2. nodes[Top.node] \in NodeRec
      BY <2>3, <3>1
    <3> DEFINE new == [nodes[Top.node] EXCEPT !.tok = cur + 1]
    <3>3. new.tok = cur + 1 /\ new.kids = nodes[Top.node].kids
      BY <3>2 DEF NodeRec
    <3>4. nodes' = [nodes EXCEPT ![Top.node] = new]
      BY <2>1
    <3> HIDE DEF new
    <3> QED  BY <2>3, <3>1, <3>3, <3>4
  <2>7. Counted(toks, nodes', cur', 0)
    <3>1. /\ Counted(toks, nodes, cur, 0) /\ nodes[Top.node].tok = 1 /\ Top.node \in 1..Len(nodes)
          /\ cur \in Nat /\ cur > 0 /\ TokOf(toks, 1) \notin Meaningful
      BY <2>3, <2>4, <2>5
    <3>2. Counted(toks, nodes', cur + 1, 0)
      BY <2>6, <3>1, CountMark
    <3> QED  BY <2>1, <3>2
  <2>8. BelowTold(nodes', cur')
    BY <2>3, <2>4, <2>6, BelowKept
  <2>9. EndsOf(f) = {} /\ ~Unmarked(f.fn, f.at)
    BY <2>2 DEF EndsOf
  <2>10. Joined(nodes', (Built(Front(stk)) \union BuiltBy(f)) \union HeldBy(f))
    BY <2>3, <2>5, <2>6, SameKids
  <2>11. cur' > 0 /\ ret' = NoRet /\ stk' = [stk EXCEPT ![Len(stk)] = f]
    BY <2>1, <2>2, <2>3
  <2>12. Counted(toks, nodes', cur', IF Owes(f) THEN cur' ELSE 0)
    BY <2>5, <2>7
  <2>13. f.fn = "root" => f.node = Top.node
    BY <2>2
  <2> QED  BY <2>1, <2>2, <2>3, <2>5, <2>8, <2>9, <2>10, <2>11, <2>12, <2>13, TextTop
<1> QED  BY <1>1, <1>2

LEMMA DoneText ==
  ASSUME ParseInv, TreeInv, TextInv, Active, NEW c, Done(c), ~Owes(Top),
         Builds(Top) \/ HoldsOperand(Top), c = cur \/ (c = cur + 1 /\ Ahead \notin Meaningful),
         Top.fn = "root" => c > Len(toks),
         Top.fn = "expr" /\ Top.bp = 0 => TokOf(toks, c + 1) \in Top.term
  PROVE  TextInv'
<1>1. /\ stk' = Front(stk) /\ nodes' = nodes /\ ret' = Ok(Top.node) /\ cur' = c
      /\ toks' = toks /\ lost' = lost
  BY DEF Done, Quiet
<1> SUFFICES ASSUME ~lost PROVE TextInv'
  BY <1>1, TextFails
<1>2. /\ stk # <<>> /\ ret # Err /\ InHand(stk, ret) = HeldBy(Top)
      /\ Counted(toks, nodes, cur, IF Owes(Top) THEN cur ELSE 0)
      /\ cur \in Nat /\ cur > 0 /\ TokOf(toks, cur + 1) = Ahead
  BY TextRuns
<1>3. ret' # NoRet /\ ret'.node = Top.node
  BY <1>1 DEF Ok, NoRet
<1>4. BuiltBy(Top) \union InHand(stk, ret) = {ret'.node}
  BY <1>2, <1>3 DEF BuiltBy, HeldBy
<1>5. Counted(toks, nodes, cur', 0) /\ cur' > 0
  BY <1>1, <1>2, CountSkip
<1> QED  BY <1>1, <1>2, <1>3, <1>4, <1>5, TextPop

\* A function calls another, and what it calls it for fits where it goes on.
LEMMA CallText ==
  ASSUME ParseInv, TreeInv, TextInv, Active, NEW c \in Nat, NEW next \in 0..5, NEW skip \in {0, 1},
         NEW fn \in Functions, NEW node \in Nat, NEW term \in SUBSET Terminators, NEW bp \in 0..21,
         Call(c, next, skip, fn, node, term, bp),
         Top.fn = "expr" => next = 2 /\ Top.type \notin Terminators,
         Top.fn \in {"nud", "led"} => Top.at > 0 /\ next > 0,
         HoldsOperand(Top) => fn = "led", fn = "led" => HoldsOperand(Top) /\ node = Top.node,
         \/ c = cur /\ ~Owes(Top) /\ fn # "nud"
         \/ c = cur + 1 /\ ~Owes(Top) /\ fn # "nud" /\ (Ahead \notin Meaningful \/ fn \in Marked)
         \/ c = cur /\ Owes(Top) /\ (fn = "nud" \/ TokOf(toks, cur) \notin Meaningful),
         fn \in Marked => c = cur + 1,
         Unmarked(Top.fn, next) => Unmarked(Top.fn, Top.at),
         skip = 1 => fn = "expr" /\ bp = 0 /\ ListEnds(Top.fn, next, Top.type) = {},
         ListEnds(Top.fn, next, Top.type) # {} =>
           fn = "expr" /\ bp = 0 /\ term = ListEnds(Top.fn, next, Top.type)
  PROVE  TextInv'
<1> DEFINE adds == fn \in DOMAIN NodeOf
           own == IF adds THEN Len(nodes) + 1 ELSE node
           f == Going(next, skip)
           g == Frame(fn, own, term, bp)
<1>1. /\ cur' = c /\ stk' = Append(Goto(next, skip), g) /\ ret' = ret
      /\ toks' = toks /\ lost' = lost
      /\ nodes' = IF adds THEN AddNode(nodes, NodeOf[fn], IF fn \in Marked THEN c ELSE 1) ELSE nodes
  BY DEF Call, Quiet
<1> SUFFICES ASSUME ~lost PROVE TextInv'
  BY <1>1, TextFails
<1>2. /\ stk # <<>> /\ ret = NoRet /\ ret # Err
      /\ Joined(nodes, Built(stk) \union HeldBy(Top)) /\ HeldBy(Top) \intersect Built(stk) = {}
      /\ Counted(toks, nodes, cur, IF Owes(Top) THEN cur ELSE 0)
      /\ Unmarked(Top.fn, Top.at) => nodes[Top.node].tok = 1
      /\ nodes \in Seq(NodeRec) /\ Len(nodes) \in Nat /\ Top \in FrameRecord
      /\ cur \in Nat /\ cur > 0 /\ TokOf(toks, cur + 1) = Ahead
      /\ Builds(Top) => Top.node \in 1..Len(nodes)
  BY TextRuns
<1>3. /\ Goto(next, skip) = [stk EXCEPT ![Len(stk)] = f] /\ f \in FrameRecord
      /\ f.fn = Top.fn /\ f.at = next /\ f.skip = skip /\ f.node = Top.node /\ f.bp = Top.bp
      /\ f.term = Top.term /\ f.type = Top.type
  BY <1>2, GotoFacts
<1>4. /\ g.fn = fn /\ g.at = 0 /\ g.skip = 0 /\ g.node = own /\ g.term = term /\ g.bp = bp
      /\ g.type = "NULL"
  BY DEF Frame
<1>5. g \in FrameRecord
  <2>1. term \in SUBSET TokTypes /\ own \in Nat
    BY <1>2, TerminatorTypes
  <2> QED  BY <2>1 DEF Frame, FrameRecord, Functions
<1>6. adds => /\ Len(nodes') = Len(nodes) + 1
              /\ \A n \in 1..Len(nodes) : nodes'[n] = nodes[n]
              /\ nodes'[Len(nodes')].kids = <<>>
              /\ nodes'[Len(nodes')].tok = IF fn \in Marked THEN c ELSE 1
  <2> SUFFICES ASSUME adds
               PROVE  /\ Len(nodes') = Len(nodes) + 1
                      /\ \A n \in 1..Len(nodes) : nodes'[n] = nodes[n]
                      /\ nodes'[Len(nodes')].kids = <<>>
                      /\ nodes'[Len(nodes')].tok = IF fn \in Marked THEN c ELSE 1
    OBVIOUS
  <2> DEFINE t == IF fn \in Marked THEN c ELSE 1
  <2>1. t \in Nat /\ NodeOf[fn] \in NodeTypes /\ nodes' = AddNode(nodes, NodeOf[fn], t)
    BY <1>1, Names
  <2>2. NodesDoubled(nodes)
    BY DEF ParseInv
  <2> HIDE DEF t
  <2>3. /\ Len(nodes') = Len(nodes) + 1 /\ \A n \in 1..Len(nodes) : nodes'[n] = nodes[n]
    <3>1. nodes \in Seq(NodeRec)
      BY <1>2
    <3>2. t \in Nat /\ NodeOf[fn] \in NodeTypes
      BY <2>1
    <3>3. /\ Len(AddNode(nodes, NodeOf[fn], t)) = Len(nodes) + 1
          /\ \A n \in 1..Len(nodes) : AddNode(nodes, NodeOf[fn], t)[n] = nodes[n]
      BY <2>2, <3>1, <3>2, AddNodeFacts
    <3> QED  BY <2>1, <3>3
  <2>4. nodes'[Len(nodes) + 1].kids = <<>> /\ nodes'[Len(nodes) + 1].tok = t
    BY <1>2, <2>1, AddNodeLast
  <2> QED  BY <2>3, <2>4 DEF t
<1>7. Builds(f) <=> Builds(Top)
  BY <1>3, Names DEF Builds
<1>8. Builds(g) <=> adds
  BY <1>4, Names DEF Builds
<1>9. HoldsOperand(g) <=> fn = "led"
  BY <1>4 DEF HoldsOperand
<1>10. Owes(g) <=> fn = "nud"
  BY <1>4 DEF Owes
<1>11. fn \in {"nud", "led"} => ~adds
  BY Names
<1>12. fn \in Marked => adds /\ fn \notin {"nud", "expr"}
  BY DEF Marked, NodeOf
<1> HIDE DEF f, g, own, adds
<1>13. own = IF adds THEN Len(nodes) + 1 ELSE node
  BY DEF own
<1>14. /\ Joined(nodes', (Built(stk) \union BuiltBy(g)) \union HeldBy(g))
       /\ HeldBy(g) \intersect (Built(stk) \union BuiltBy(g)) = {}
  <2>1. CASE adds
    <3>1. BuiltBy(g) = {Len(nodes')} /\ HeldBy(g) = {} /\ HeldBy(Top) = {}
      BY <1>4, <1>6, <1>8, <1>9, <1>11, <1>13, <2>1 DEF BuiltBy, HeldBy
    <3>2. Joined(nodes', (Built(stk) \union HeldBy(Top)) \union {Len(nodes')})
      BY <1>2, <1>6, <2>1, NewNode
    <3>3. (Built(stk) \union HeldBy(Top)) \union {Len(nodes')}
            = (Built(stk) \union BuiltBy(g)) \union HeldBy(g)
      BY <3>1
    <3> QED  BY <3>1, <3>2, <3>3
  <2>2. CASE ~adds
    <3>1. nodes' = nodes /\ BuiltBy(g) = {}
      BY <1>1, <1>8, <2>2 DEF BuiltBy
    <3>2. HeldBy(g) = HeldBy(Top)
      BY <1>4, <1>9, <1>13, <2>2 DEF HeldBy
    <3> QED  BY <1>2, <3>1, <3>2
  <2> QED  BY <2>1, <2>2
<1>15. \A n \in 1..Len(nodes) : nodes'[n].tok = nodes[n].tok
  BY <1>1, <1>6
<1>16. Counted(toks, nodes', c, IF Owes(g) THEN c ELSE 0)
  <2>1. CASE fn \in Marked
    <3>1. adds /\ c = cur + 1 /\ ~Owes(Top) /\ ~Owes(g)
      BY <1>2, <1>10, <1>12, <2>1
    <3>2. Counted(toks, nodes, c, c)
      BY <1>2, <3>1, CountRead
    <3>3. c > 0
      BY <1>2, <3>1
    <3> QED  BY <1>2, <1>6, <1>15, <2>1, <3>1, <3>2, <3>3, CountFor
  <2>2. CASE fn \notin Marked
    <3>1. Counted(toks, nodes, c, IF Owes(g) THEN c ELSE 0) /\ c > 0
      <4>1. CASE c = cur /\ ~Owes(Top) /\ fn # "nud"
        BY <1>2, <1>10, <4>1
      <4>2. CASE c = cur + 1 /\ ~Owes(Top) /\ fn # "nud" /\ Ahead \notin Meaningful
        BY <1>2, <1>10, <4>2, CountSkip
      <4>3. CASE c = cur /\ Owes(Top) /\ fn = "nud"
        BY <1>2, <1>10, <4>3
      <4>4. CASE c = cur /\ Owes(Top) /\ fn # "nud" /\ TokOf(toks, cur) \notin Meaningful
        BY <1>2, <1>10, <4>4, CountForget
      <4> QED  BY <2>2, <4>1, <4>2, <4>3, <4>4
    <3>2. CASE adds
      <4>1. nodes'[Len(nodes')].tok = 1
        BY <1>6, <2>2, <3>2
      <4> QED  BY <1>2, <1>6, <1>15, <3>1, <3>2, <4>1, CountBlank
    <3>3. CASE ~adds
      BY <1>1, <3>1, <3>3
    <3> QED  BY <3>2, <3>3
  <2> QED  BY <2>1, <2>2
<1>17. BelowTold(nodes', cur')
  BY <1>2, <1>15, BelowKept
<1>18. CalledFor(f, g)
  BY <1>3, <1>4 DEF CalledFor, EndsOf
<1>19. Unmarked(f.fn, f.at) => nodes'[f.node].tok = 1
  <2> SUFFICES ASSUME Unmarked(f.fn, f.at) PROVE nodes'[f.node].tok = 1
    OBVIOUS
  <2>1. nodes[Top.node].tok = 1
    BY <1>2, <1>3
  <2>2. Builds(Top)
    BY <1>3 DEF Unmarked, Builds, NodeOf
  <2> QED  BY <1>2, <1>3, <1>15, <2>1, <2>2
<1>20. NotStale(f, toks, cur') /\ NotStale(g, toks, cur') /\ EndsOf(g) = {}
  BY <1>3, <1>4 DEF NotStale, EndsOf, ListEnds
<1>21. Unmarked(g.fn, g.at) => nodes'[g.node].tok = 1
  <2> SUFFICES ASSUME Unmarked(g.fn, g.at) PROVE nodes'[g.node].tok = 1
    OBVIOUS
  <2>1. adds /\ fn \notin Marked
    BY <1>4 DEF Unmarked, adds, NodeOf, Marked
  <2> QED  BY <1>4, <1>6, <1>13, <2>1
<1>22. cur' > 0 /\ ret' = NoRet /\ stk' = Append([stk EXCEPT ![Len(stk)] = f], g)
  BY <1>1, <1>2, <1>3
<1>23. Counted(toks, nodes', cur', IF Owes(g) THEN cur' ELSE 0)
  BY <1>1, <1>16
<1> QED  BY <1>1, <1>2, <1>3, <1>5, <1>7, <1>14, <1>17, <1>18, <1>19, <1>20, <1>21, <1>22, <1>23,
            TextPush

-----------------------------------------------------------------------------
(* Declarations and statements leave nothing out. *)

\* Tokens that no node has to stand for.
LEMMA Unmeant ==
  /\ \A t \in Terminators : t \notin Meaningful
  /\ \A t \in {"LPAREN", "RBRACE", "KWSYSTEM", "KWELSE", "KWNEW", "KWIMPORT", "KWFUNC", "EQUAL",
               "NULL"} : t \notin Meaningful
BY DEF Terminators, Meaningful, Atoms, TypeKeywords, Operators

LEMMA ParseText ==
  ASSUME ParseInv, TreeInv, TextInv, Own, NEW c, NEW next \in 0..5,
         NEW fn \in DOMAIN NodeOf \union {"stmt"}, Parse(c, next, fn),
         (c = cur /\ fn \notin Marked) \/ (c = cur + 1 /\ (Ahead \notin Meaningful \/ fn \in Marked)),
         Unmarked(Top.fn, next) => Unmarked(Top.fn, Top.at), ListEnds(Top.fn, next, Top.type) = {}
  PROVE  TextInv'
<1>1. Call(c, next, 0, fn, 0, {}, 0)
  BY DEF Parse, NoNode
<1>2. /\ fn \in Functions /\ fn \notin {"expr", "nud", "led"} /\ Top.fn \notin {"expr", "nud", "led"}
      /\ Active
  BY Names DEF Functions, Own
<1>3. {} \in SUBSET Terminators /\ 0 \in {0, 1} /\ 0 \in Nat /\ 0 \in 0..21 /\ c \in Nat
  BY Cursor
<1>4. ~Owes(Top) /\ ~HoldsOperand(Top)
  BY <1>2 DEF Owes, HoldsOperand
<1> QED  BY <1>1, <1>2, <1>3, <1>4, CallText

\* An expression that is called for.
LEMMA ItemText ==
  ASSUME ParseInv, TreeInv, TextInv, Active, Top.fn # "expr", ~Owes(Top), ~HoldsOperand(Top),
         NEW c, NEW next \in 0..5, NEW skip \in {0, 1}, NEW term \in SUBSET Terminators,
         NEW bp \in 0..21,
         Call(c, next, skip, "expr", NoNode, term, bp),
         Top.fn \in {"nud", "led"} => Top.at > 0 /\ next > 0,
         c = cur \/ (c = cur + 1 /\ Ahead \notin Meaningful),
         ~Unmarked(Top.fn, next),
         skip = 1 => bp = 0 /\ ListEnds(Top.fn, next, Top.type) = {},
         ListEnds(Top.fn, next, Top.type) # {} =>
           bp = 0 /\ term = ListEnds(Top.fn, next, Top.type)
  PROVE  TextInv'
<1>1. Call(c, next, skip, "expr", 0, term, bp) /\ 0 \in Nat /\ c \in Nat
  BY Cursor DEF NoNode
<1>2. "expr" \in Functions /\ "expr" \notin Marked
  BY DEF Functions, Marked
<1> QED  BY <1>1, <1>2, CallText

LEMMA ExprText ==
  ASSUME ParseInv, TreeInv, TextInv, Own, NEW next \in 0..5, NEW end \in Terminators,
         Expr(cur, next, end),
         ~Unmarked(Top.fn, next), ListEnds(Top.fn, next, Top.type) = {}
  PROVE  TextInv'
<1>1. /\ Call(cur, next, 1, "expr", NoNode, {end}, 0) /\ {end} \in SUBSET Terminators
      /\ 0 \in 0..21 /\ 1 \in {0, 1}
  BY DEF Expr
<1>2. Active /\ Top.fn \notin {"expr", "nud", "led"}
  BY Names DEF Own
<1>3. ~Owes(Top) /\ ~HoldsOperand(Top)
  BY <1>2 DEF Owes, HoldsOperand
<1> QED  BY <1>1, <1>2, <1>3, ItemText

LEMMA CloseText ==
  ASSUME ParseInv, TreeInv, TextInv, Own, NEW c, Done(c),
         c = cur \/ (c = cur + 1 /\ Ahead \notin Meaningful), Top.fn = "root" => c > Len(toks)
  PROVE  TextInv'
<1>1. Active /\ Builds(Top) /\ Top.fn \notin {"expr", "nud", "led"}
  BY OwnBuilds DEF Own
<1>2. ~Owes(Top)
  BY <1>1 DEF Owes
<1> QED  BY <1>1, <1>2, DoneText

LEMMA RootText == ParseInv /\ TreeInv /\ TextInv /\ ParseRoot => TextInv'
<1> SUFFICES ASSUME ParseInv, TreeInv, TextInv, ParseRoot PROVE TextInv'
  OBVIOUS
<1>1. Own /\ Top.fn = "root" /\ Active
  BY OwnWhen, Names DEF ParseRoot
<1>2. ASSUME Ahead \in DOMAIN RootElements, Parse(cur + 1, 0, RootElements[Ahead]) PROVE TextInv'
  <2>1. RootElements[Ahead] \in DOMAIN NodeOf /\ Ahead \notin Meaningful
    BY <1>2, Tables, Unmeant DEF RootElements
  <2>2. ~Unmarked("root", 0) /\ ListEnds("root", 0, Top.type) = {} /\ 0 \in 0..5
    BY DEF Unmarked, ListEnds
  <2> QED  BY <1>1, <1>2, <2>1, <2>2, ParseText
<1>3. ASSUME Ahead = "NULL", Done(cur + 1) PROVE TextInv'
  <2> SUFFICES ASSUME ~lost PROVE TextInv'
    BY <1>3, TextFails DEF Done, Quiet
  <2>1. cur \in Nat /\ cur > 0 /\ TokOf(toks, cur + 1) = "NULL"
    BY <1>1, <1>3, TextRuns
  <2>2. toks \in Seq(Types) /\ \A i \in 1..Len(toks) : toks[i] = "NULL" <=> i = 1
    BY Typed DEF ParseInv, Types, TextInv
  <2>3. cur + 1 \notin 1..Len(toks)
    BY <2>1, <2>2 DEF TokOf
  <2>4. cur + 1 > Len(toks)
    BY <2>1, <2>2, <2>3
  <2> QED  BY <1>1, <1>3, <2>4, Unmeant, CloseText
<1>4. ASSUME Fail(cur + 1) PROVE TextInv'
  BY <1>4, FailText
<1> QED  BY <1>2, <1>3, <1>4 DEF ParseRoot

LEMMA ImportText == ParseInv /\ TreeInv /\ TextInv /\ ParseImport => TextInv'
<1> SUFFICES ASSUME ParseInv, TreeInv, TextInv, ParseImport PROVE TextInv'
  OBVIOUS
<1>1. Own /\ Top.fn = "import"
  BY OwnWhen, Names DEF ParseImport
<1>2. \A at \in 0..5 : ListEnds("import", at, Top.type) = {} /\ (Unmarked("import", at) <=> at = 0)
  BY DEF ListEnds, Unmarked
<1>3. "SEMICOLON" \notin Meaningful
  BY Unmeant DEF Terminators
<1> QED  BY <1>1, <1>2, <1>3, MarkText, ExpectText, CloseText DEF ParseImport, At

LEMMA FuncText == ParseInv /\ TreeInv /\ TextInv /\ ParseFunc => TextInv'
<1> SUFFICES ASSUME ParseInv, TreeInv, TextInv, ParseFunc PROVE TextInv'
  OBVIOUS
<1>1. Own /\ Top.fn = "func"
  BY OwnWhen, Names DEF ParseFunc
<1>2. \A at \in 0..5 : ListEnds("func", at, Top.type) = {} /\ (Unmarked("func", at) <=> at \in {0, 1})
  BY DEF ListEnds, Unmarked
<1>3. {"type", "arglist"} \subseteq DOMAIN NodeOf /\ {"type", "arglist", "stmt"} \intersect Marked = {}
  BY Names DEF Marked
<1> QED  BY <1>1, <1>2, <1>3, ParseText, MarkText, CloseText DEF ParseFunc, At

LEMMA GlobalDeclText == ParseInv /\ TreeInv /\ TextInv /\ ParseGlobalDecl => TextInv'
<1> SUFFICES ASSUME ParseInv, TreeInv, TextInv, ParseGlobalDecl PROVE TextInv'
  OBVIOUS
<1>1. Own /\ Top.fn = "global"
  BY OwnWhen, Names DEF ParseGlobalDecl
<1>2. \A at \in 0..5 : ListEnds("global", at, Top.type) = {} /\ (Unmarked("global", at) <=> at \in {0, 1})
  BY DEF ListEnds, Unmarked
<1>3. "type" \in DOMAIN NodeOf /\ "type" \notin Marked /\ "SEMICOLON" \notin Meaningful
  BY Names, Unmeant DEF Marked, Terminators
<1> QED  BY <1>1, <1>2, <1>3, ParseText, MarkText, ExpectText, CloseText DEF ParseGlobalDecl, At

LEMMA LocalDeclText == ParseInv /\ TreeInv /\ TextInv /\ ParseLocalDecl => TextInv'
<1> SUFFICES ASSUME ParseInv, TreeInv, TextInv, ParseLocalDecl PROVE TextInv'
  OBVIOUS
<1>1. Own /\ Top.fn = "local"
  BY OwnWhen, Names DEF ParseLocalDecl
<1>2. \A at \in 0..5 : ListEnds("local", at, Top.type) = {} /\ (Unmarked("local", at) <=> at \in {0, 1})
  BY DEF ListEnds, Unmarked
<1>3. /\ "type" \in DOMAIN NodeOf /\ "type" \notin Marked /\ "EQUAL" \notin Meaningful
      /\ "SEMICOLON" \in Terminators
  BY Names, Unmeant DEF Marked, Terminators
<1> QED  BY <1>1, <1>2, <1>3, ParseText, MarkText, ExpectText, ExprText, CloseText DEF ParseLocalDecl, At

LEMMA ArgListText == ParseInv /\ TreeInv /\ TextInv /\ ParseArgList => TextInv'
<1> SUFFICES ASSUME ParseInv, TreeInv, TextInv, ParseArgList PROVE TextInv'
  OBVIOUS
<1>1. Own /\ Top.fn = "arglist"
  BY OwnWhen, Names DEF ParseArgList
<1>2. \A at \in 0..5 : ListEnds("arglist", at, Top.type) = {} /\ (Unmarked("arglist", at) <=> at = 0)
  BY DEF ListEnds, Unmarked
<1>3. "arg" \in DOMAIN NodeOf /\ "arg" \notin Marked /\ {"COMMA", "RPAREN"} \intersect Meaningful = {}
  BY Names, Unmeant DEF Marked, Terminators
<1> QED  BY <1>1, <1>2, <1>3, ParseText, MarkText, FailText, CloseText DEF ParseArgList, At

LEMMA ArgText == ParseInv /\ TreeInv /\ TextInv /\ ParseArg => TextInv'
<1> SUFFICES ASSUME ParseInv, TreeInv, TextInv, ParseArg PROVE TextInv'
  OBVIOUS
<1>1. Own /\ Top.fn = "arg"
  BY OwnWhen, Names DEF ParseArg
<1>2. \A at \in 0..5 : ListEnds("arg", at, Top.type) = {} /\ (Unmarked("arg", at) <=> at \in {0, 1})
  BY DEF ListEnds, Unmarked
<1>3. "type" \in DOMAIN NodeOf /\ "type" \notin Marked
  BY Names DEF Marked
<1> QED  BY <1>1, <1>2, <1>3, ParseText, MarkText, CloseText DEF ParseArg, At

LEMMA TypeText == ParseInv /\ TreeInv /\ TextInv /\ ParseType => TextInv'
<1> SUFFICES ASSUME ParseInv, TreeInv, TextInv, ParseType PROVE TextInv'
  OBVIOUS
<1>1. Own /\ Top.fn = "type"
  BY OwnWhen, Names DEF ParseType
<1>2. \A at \in 0..5 : ListEnds("type", at, Top.type) = {} /\ (Unmarked("type", at) <=> at = 0)
  BY DEF ListEnds, Unmarked
<1> QED  BY <1>1, <1>2, MarkText, CloseText DEF ParseType, At

\* The statements have the token they were called for, or none.
LEMMA PlainPlaces ==
  ASSUME NEW fn \in {"return", "ctree", "while", "for", "break", "continue", "block"}, NEW op
  PROVE  \A at \in 0..5 : ~Unmarked(fn, at) /\ ListEnds(fn, at, op) = {}
BY DEF Unmarked, ListEnds

LEMMA ReturnText == ParseInv /\ TreeInv /\ TextInv /\ ParseReturn => TextInv'
<1> SUFFICES ASSUME ParseInv, TreeInv, TextInv, ParseReturn PROVE TextInv'
  OBVIOUS
<1>1. Own /\ Top.fn = "return"
  BY OwnWhen, Names DEF ParseReturn
<1>2. "SEMICOLON" \notin Meaningful /\ "SEMICOLON" \in Terminators
  BY Unmeant DEF Terminators
<1> QED  BY <1>1, <1>2, PlainPlaces, ExprText, CloseText DEF ParseReturn, At

LEMMA CtreeText == ParseInv /\ TreeInv /\ TextInv /\ ParseCtree => TextInv'
<1> SUFFICES ASSUME ParseInv, TreeInv, TextInv, ParseCtree PROVE TextInv'
  OBVIOUS
<1>1. Own /\ Top.fn = "ctree"
  BY OwnWhen, Names DEF ParseCtree
<1>2. /\ "LPAREN" \notin Meaningful /\ "KWELSE" \notin Meaningful /\ "RPAREN" \in Terminators
      /\ "stmt" \notin Marked
  BY Unmeant DEF Terminators, Marked
<1> QED  BY <1>1, <1>2, PlainPlaces, ExpectText, ExprText, ParseText, CloseText DEF ParseCtree, At

LEMMA WhileText == ParseInv /\ TreeInv /\ TextInv /\ ParseWhile => TextInv'
<1> SUFFICES ASSUME ParseInv, TreeInv, TextInv, ParseWhile PROVE TextInv'
  OBVIOUS
<1>1. Own /\ Top.fn = "while"
  BY OwnWhen, Names DEF ParseWhile
<1>2. "LPAREN" \notin Meaningful /\ "RPAREN" \in Terminators /\ "stmt" \notin Marked
  BY Unmeant DEF Terminators, Marked
<1> QED  BY <1>1, <1>2, PlainPlaces, ExpectText, ExprText, ParseText, CloseText DEF ParseWhile, At

LEMMA ForText == ParseInv /\ TreeInv /\ TextInv /\ ParseFor => TextInv'
<1> SUFFICES ASSUME ParseInv, TreeInv, TextInv, ParseFor PROVE TextInv'
  OBVIOUS
<1>1. Own /\ Top.fn = "for"
  BY OwnWhen, Names DEF ParseFor
<1>2. /\ "LPAREN" \notin Meaningful /\ "KWNEW" \notin Meaningful
      /\ {"RPAREN", "SEMICOLON"} \subseteq Terminators
      /\ {"stmt", "local"} \intersect Marked = {} /\ "local" \in DOMAIN NodeOf
  BY Unmeant, Names DEF Terminators, Marked
<1> QED  BY <1>1, <1>2, PlainPlaces, ExpectText, ExprText, ParseText, CloseText DEF ParseFor, At

LEMMA JumpText == ParseInv /\ TreeInv /\ TextInv /\ ParseJump => TextInv'
<1> SUFFICES ASSUME ParseInv, TreeInv, TextInv, ParseJump PROVE TextInv'
  OBVIOUS
<1>1. Own /\ Top.fn \in {"break", "continue"}
  BY OwnWhen, Names DEF ParseJump
<1>2. "SEMICOLON" \notin Meaningful
  BY Unmeant DEF Terminators
<1> QED  BY <1>1, <1>2, PlainPlaces, ExpectText, CloseText DEF ParseJump, At

LEMMA BlockText == ParseInv /\ TreeInv /\ TextInv /\ ParseBlock => TextInv'
<1> SUFFICES ASSUME ParseInv, TreeInv, TextInv, ParseBlock PROVE TextInv'
  OBVIOUS
<1>1. Own /\ Top.fn = "block"
  BY OwnWhen, Names DEF ParseBlock
<1>2. "RBRACE" \notin Meaningful /\ "stmt" \notin Marked /\ 0 \in 0..5
  BY Unmeant DEF Marked
<1> QED  BY <1>1, <1>2, PlainPlaces, ParseText, CloseText DEF ParseBlock

\* The token a statement begins with is its node's, or is passed over.
LEMMA StmtText == ParseInv /\ TreeInv /\ TextInv /\ ParseStmt => TextInv'
<1> SUFFICES ASSUME ParseInv, TreeInv, TextInv, ParseStmt PROVE TextInv'
  OBVIOUS
<1>1. Active /\ Top.fn = "stmt" /\ cur \in Nat /\ cur + 1 \in Nat
  BY Cursor DEF ParseStmt, Running, Active
<1>2. ~Owes(Top) /\ ~HoldsOperand(Top) /\ ~Unmarked(Top.fn, 1) /\ ListEnds(Top.fn, 1, Top.type) = {}
  BY <1>1 DEF Owes, HoldsOperand, Unmarked, ListEnds
<1>3. /\ {} \in SUBSET Terminators /\ {"SEMICOLON"} \in SUBSET Terminators
      /\ 1 \in 0..5 /\ 0 \in Nat /\ 0 \in {0, 1} /\ 1 \in {0, 1} /\ 0 \in 0..21
  BY DEF Terminators
<1>4. ASSUME Ahead \in DOMAIN Stmts, Parse(cur + 1, 1, Stmts[Ahead]) PROVE TextInv'
  <2>1. Call(cur + 1, 1, 0, Stmts[Ahead], 0, {}, 0)
    BY <1>4 DEF Parse, NoNode
  <2>2. Stmts[Ahead] \in Functions /\ Stmts[Ahead] \notin {"expr", "nud", "led"}
    BY <1>4, Tables, Names DEF Functions
  <2>3. Ahead \notin Meaningful \/ Stmts[Ahead] \in Marked
    BY <1>4, Unmeant DEF Stmts, Marked
  <2> QED  BY <1>1, <1>2, <1>3, <2>1, <2>2, <2>3, CallText
<1>5. ASSUME Expr(cur, 1, "SEMICOLON") PROVE TextInv'
  <2>1. Call(cur, 1, 1, "expr", NoNode, {"SEMICOLON"}, 0)
    BY <1>5 DEF Expr
  <2> QED  BY <1>1, <1>2, <1>3, <2>1, ItemText
<1>6. ASSUME Fail(cur + 1) PROVE TextInv'
  BY <1>6, FailText
<1> QED  BY <1>4, <1>5, <1>6 DEF ParseStmt

\* A list of expressions goes on at what ended the last of them.
LEMMA SystemText == ParseInv /\ TreeInv /\ TextInv /\ ParseSystem => TextInv'
<1> SUFFICES ASSUME ParseInv, TreeInv, TextInv, ParseSystem PROVE TextInv'
  OBVIOUS
<1>1. Own /\ Active /\ Top.fn = "system"
  BY OwnWhen, Names DEF ParseSystem
<1>2. /\ \A at \in 0..3 : ListEnds("system", at, Top.type) = {}
      /\ ListEnds("system", 4, Top.type) = {"COMMA", "RPAREN"}
      /\ \A at \in 0..5 : Unmarked("system", at) <=> at \in {0, 1}
  BY DEF ListEnds, Unmarked
<1>3. /\ "type" \in DOMAIN NodeOf /\ "type" \notin Marked /\ "LPAREN" \notin Meaningful
      /\ "COMMA" \notin Meaningful /\ "RPAREN" \notin Meaningful
      /\ {"COMMA", "RPAREN"} \in SUBSET Terminators
  BY Names, Unmeant DEF Marked, Terminators
<1>4. ASSUME NEW c, c = cur \/ (c = cur + 1 /\ Ahead \notin Meaningful),
             Item(c, 4, {"COMMA", "RPAREN"})
      PROVE  TextInv'
  <2>1. Call(c, 4, 0, "expr", NoNode, {"COMMA", "RPAREN"}, 0)
    BY <1>4 DEF Item
  <2>2. ~Owes(Top) /\ ~HoldsOperand(Top)
    BY <1>1 DEF Owes, HoldsOperand
  <2>3. 4 \in 0..5 /\ 0 \in {0, 1} /\ 0 \in 0..21
    OBVIOUS
  <2> QED  BY <1>1, <1>2, <1>3, <1>4, <2>1, <2>2, <2>3, ItemText
<1>5. ASSUME At(4), Ahead # "RPAREN", Item(cur + 1, 4, {"COMMA", "RPAREN"}) PROVE TextInv'
  <2>1. CASE lost
    BY <1>5, <2>1, TextFails DEF Item, Call, Quiet
  <2>2. CASE ~lost
    <3>1. Ahead = "COMMA"
      BY <1>1, <1>2, <1>5, <2>2, TextRuns DEF At, Behind, EndsOf
    <3> QED  BY <1>3, <1>4, <1>5, <3>1
  <2> QED  BY <2>1, <2>2
<1> QED  BY <1>1, <1>2, <1>3, <1>4, <1>5, ParseText, MarkText, ExpectText, CloseText DEF ParseSystem, At

-----------------------------------------------------------------------------
(* Expressions leave nothing out. *)

\* What ends an expression is none of the tokens it begins or goes on with.
LEMMA Endings ==
  \A t \in Terminators :
    t \notin Atoms \union {"LPAREN", "KWSYSTEM"} \union DOMAIN NudNode \union DOMAIN LedNode
BY DEF Terminators, Atoms, NudNode, LedNode

LEMMA ExprReadText == ParseInv /\ TreeInv /\ TextInv /\ ExprRead => TextInv'
<1> SUFFICES ASSUME ParseInv, TreeInv, TextInv, ExprRead PROVE TextInv'
  OBVIOUS
<1>1. Active /\ Top.fn = "expr" /\ Top.node \in Nat /\ Top.type \in Types
  BY ExprFacts, FrameFacts DEF ExprRead
<1>2. ASSUME Fail(cur + 1) PROVE TextInv'
  BY <1>2, FailText
<1>3. ASSUME NEW c \in {cur, cur + 1}, NEW at \in {1, 3}, NEW t \in Types,
             cur' = c, stk' = GotoAs(at, Top.node, t), UNCHANGED <<nodes, ret>>, Quiet,
             \/ at = 1 /\ c = cur + 1 /\ Top.at = 0
             \/ at = 3 /\ c = cur /\ Top.at = 2 /\ (c < Len(toks) \/ t = Top.type)
      PROVE  TextInv'
  <2>1. toks' = toks /\ lost' = lost /\ nodes' = nodes /\ ret' = ret
    BY <1>3 DEF Quiet
  <2> SUFFICES ASSUME ~lost PROVE TextInv'
    BY <2>1, TextFails
  <2>2. PICK f \in FrameRecord :
          /\ GotoAs(at, Top.node, t) = Replaced(f)
          /\ f.fn = Top.fn /\ f.at = at /\ f.skip = 0 /\ f.node = Top.node
          /\ f.term = Top.term /\ f.type = t /\ f.bp = Top.bp
    <3>1. at \in 0..5
      OBVIOUS
    <3> QED  BY <1>1, <3>1, GotoAsFacts
  <2>3. /\ stk # <<>> /\ ret = NoRet /\ ret # Err
        /\ Joined(nodes, Built(stk) \union HeldBy(Top)) /\ HeldBy(Top) \intersect Built(stk) = {}
        /\ Built(stk) = Built(Front(stk)) \union BuiltBy(Top)
        /\ Counted(toks, nodes, cur, IF Owes(Top) THEN cur ELSE 0)
        /\ NotStale(Top, toks, cur) /\ cur \in Nat /\ cur > 0
    BY <1>1, TextRuns
  <2>4. /\ HeldBy(f) = HeldBy(Top) /\ BuiltBy(f) = BuiltBy(Top) /\ ~Owes(Top)
        /\ (Owes(f) <=> at = 1) /\ EndsOf(f) = {} /\ ~Unmarked(f.fn, f.at)
    <3>1. Builds(f) <=> Builds(Top)
      BY <1>1, <2>2, Names DEF Builds
    <3>2. HoldsOperand(f) <=> HoldsOperand(Top)
      BY <1>1, <1>3, <2>2 DEF HoldsOperand
    <3> QED  BY <1>1, <1>3, <2>2, <3>1, <3>2 DEF HeldBy, BuiltBy, Owes, EndsOf, ListEnds, Unmarked
  <2>5. Counted(toks, nodes, c, IF Owes(f) THEN c ELSE 0)
    BY <1>3, <2>3, <2>4, CountRead
  <2>6. NotStale(f, toks, c)
    BY <1>1, <1>3, <2>2, <2>3 DEF NotStale
  <2>7. BelowTold(nodes, c)
    BY <2>3, BelowKept
  <2>8. c > 0 /\ stk' = [stk EXCEPT ![Len(stk)] = f] /\ f.fn # "root"
    BY <1>1, <1>3, <2>2, <2>3 DEF Replaced
  <2> QED  BY <1>3, <2>1, <2>2, <2>3, <2>4, <2>5, <2>6, <2>7, <2>8, TextTop
<1>4. CASE At(2)
  <2> DEFINE t == IF cur < Len(toks) THEN Ahead ELSE Top.type
  <2>1. t \in Types /\ (cur < Len(toks) \/ t = Top.type)
    BY <1>1, NextToken
  <2>2. stk' = GotoAs(3, Top.node, t) /\ UNCHANGED <<cur, nodes, ret>> /\ Quiet
    BY <1>4 DEF ExprRead, At
  <2> HIDE DEF t
  <2> QED  BY <1>3, <1>4, <2>1, <2>2 DEF At
<1>5. CASE At(0) /\ cur' = cur + 1 /\ stk' = GotoAs(1, Top.node, Ahead)
           /\ UNCHANGED <<nodes, ret>> /\ Quiet
  BY <1>3, <1>5, NextToken DEF At
<1> QED  BY <1>2, <1>4, <1>5 DEF ExprRead

\* The token that is due has its node.
LEMMA FreshText ==
  ASSUME ParseInv, TreeInv, TextInv, Active, Owes(Top), NEW at \in {1, 2}, NEW type \in NodeTypes,
         nodes' = AddNode(nodes, type, cur), stk' = GotoAs(at, Len(nodes) + 1, Top.type),
         UNCHANGED <<cur, ret>>, Quiet,
         \/ Top.fn = "expr" /\ at = 2 /\ Top.type \notin Terminators
         \/ Top.fn = "nud" /\ at = 1
  PROVE  TextInv'
<1> DEFINE new == Len(nodes) + 1
<1>1. toks' = toks /\ lost' = lost /\ cur' = cur /\ ret' = ret
  BY DEF Quiet
<1> SUFFICES ASSUME ~lost PROVE TextInv'
  BY <1>1, TextFails
<1>2. /\ stk # <<>> /\ ret = NoRet /\ ret # Err
      /\ Joined(nodes, Built(stk) \union HeldBy(Top))
      /\ Built(stk) = Built(Front(stk)) \union BuiltBy(Top)
      /\ Counted(toks, nodes, cur, cur)
      /\ nodes \in Seq(NodeRec) /\ Len(nodes) \in Nat /\ Top \in FrameRecord /\ cur \in Nat /\ cur > 0
  BY TextRuns
<1>3. PICK f \in FrameRecord :
        /\ GotoAs(at, new, Top.type) = Replaced(f)
        /\ f.fn = Top.fn /\ f.at = at /\ f.skip = 0 /\ f.node = new
        /\ f.term = Top.term /\ f.type = Top.type /\ f.bp = Top.bp
  <2>1. at \in 0..5 /\ new \in Nat /\ Top.type \in Types
    BY <1>2, FrameFacts
  <2> QED  BY <2>1, GotoAsFacts
<1>4. /\ Len(nodes') = new /\ \A n \in 1..Len(nodes) : nodes'[n] = nodes[n]
      /\ nodes'[new].kids = <<>> /\ nodes'[new].tok = cur
  <2>1. /\ Len(AddNode(nodes, type, cur)) = new
        /\ \A n \in 1..Len(nodes) : AddNode(nodes, type, cur)[n] = nodes[n]
    BY <1>2, AddNodeFacts DEF ParseInv
  <2>2. AddNode(nodes, type, cur)[new].tok = cur /\ AddNode(nodes, type, cur)[new].kids = <<>>
    BY <1>2, AddNodeLast
  <2> QED  BY <2>1, <2>2
<1>5. new \notin 1..Len(nodes)
  BY <1>2
<1>6. BuiltBy(Top) = {} /\ HeldBy(Top) = {}
  <2>1. ~Builds(Top) /\ ~HoldsOperand(Top)
    BY Names DEF Builds, HoldsOperand, Owes
  <2> QED  BY <2>1 DEF BuiltBy, HeldBy
<1>7. /\ ~Owes(f) /\ EndsOf(f) = {} /\ ~Unmarked(f.fn, f.at) /\ NotStale(f, toks, cur')
      /\ BuiltBy(f) \union HeldBy(f) = {new} /\ BuiltBy(f) \intersect HeldBy(f) = {}
  <2>1. CASE Top.fn = "expr" /\ at = 2 /\ Top.type \notin Terminators
    <3>1. ~Builds(f) /\ HoldsOperand(f)
      BY <1>3, <2>1, Names DEF Builds, HoldsOperand
    <3> QED  BY <1>3, <2>1, <3>1 DEF Owes, EndsOf, ListEnds, Unmarked, NotStale, BuiltBy, HeldBy
  <2>2. CASE Top.fn = "nud" /\ at = 1
    <3>1. Builds(f) /\ ~HoldsOperand(f)
      BY <1>3, <2>2 DEF Builds, HoldsOperand
    <3> QED  BY <1>3, <2>2, <3>1 DEF Owes, EndsOf, ListEnds, Unmarked, NotStale, BuiltBy, HeldBy
  <2> QED  BY <2>1, <2>2
<1> HIDE DEF new
<1>8. Joined(nodes', Built(stk) \union {new})
  <2>1. Len(nodes') = Len(nodes) + 1
    BY <1>4 DEF new
  <2>2. Joined(nodes, Built(stk))
    BY <1>2, <1>6
  <2> QED  BY <1>2, <1>4, <2>1, <2>2, NewNode
<1>9. Joined(nodes', (Built(Front(stk)) \union BuiltBy(f)) \union HeldBy(f))
  <2>1. Built(stk) \union {new} = (Built(Front(stk)) \union BuiltBy(f)) \union HeldBy(f)
    BY <1>2, <1>6, <1>7
  <2> QED  BY <1>8, <2>1
<1>10. HeldBy(f) \intersect (Built(Front(stk)) \union BuiltBy(f)) = {}
  <2>1. Built(stk) \subseteq 1..Len(nodes)
    BY <1>2 DEF Joined
  <2> QED  BY <1>2, <1>5, <1>7, <2>1
<1>11. Counted(toks, nodes', cur, 0)
  <2>1. Len(nodes') = Len(nodes) + 1 /\ nodes'[Len(nodes')].tok = cur
    BY <1>4 DEF new
  <2> QED  BY <1>2, <1>4, <2>1, CountFor
<1>12. BelowTold(nodes', cur')
  BY <1>2, <1>4, BelowKept
<1>13. stk' = [stk EXCEPT ![Len(stk)] = f] /\ f.fn # "root"
  BY <1>3 DEF Replaced, new
<1> QED  BY <1>1, <1>2, <1>3, <1>7, <1>9, <1>10, <1>11, <1>12, <1>13, TextTop

LEMMA ExprHeadText == ParseInv /\ TreeInv /\ TextInv /\ ExprHead => TextInv'
<1> SUFFICES ASSUME ParseInv, TreeInv, TextInv, ExprHead PROVE TextInv'
  OBVIOUS
<1>1. /\ Active /\ Top.fn = "expr" /\ Top.at = 1 /\ FrameOk(Top, Len(nodes)) /\ Known(Top, cur, toks)
      /\ cur \in Nat
  BY ExprFacts, Cursor DEF ExprHead, At
<1>2. TokOf(toks, cur) = Top.type /\ Top.term \in SUBSET Terminators
  BY <1>1 DEF Known, FrameOk, TokOf
<1>3. Owes(Top) /\ ~HoldsOperand(Top) /\ ListEnds(Top.fn, 2, Top.type) = {} /\ ~Unmarked(Top.fn, 2)
  BY <1>1 DEF Owes, HoldsOperand, ListEnds, Unmarked
<1>4. /\ {"expr", "nud", "system"} \subseteq Functions /\ {"expr", "nud", "system"} \intersect Marked = {}
      /\ {"RPAREN"} \in SUBSET Terminators /\ {} \in SUBSET Terminators
  BY Names DEF Functions, Marked, Terminators
<1>5. 2 \in 0..5 /\ 0 \in {0, 1} /\ 1 \in {0, 1} /\ 0 \in Nat /\ 0 \in 0..21
  OBVIOUS
<1>6. ASSUME Top.type \in Atoms, nodes' = AddNode(nodes, "EATOM", cur),
             stk' = GotoAs(2, Len(nodes) + 1, Top.type), UNCHANGED <<cur, ret>>, Quiet
      PROVE  TextInv'
  <2>1. "EATOM" \in NodeTypes /\ Top.type \notin Terminators
    BY <1>6, Endings DEF NodeTypes, ExprTypes
  <2> QED  BY <1>1, <1>3, <1>6, <2>1, FreshText
<1>7. ASSUME Top.type = "LPAREN", Expr(cur, 2, "RPAREN") PROVE TextInv'
  <2>1. Call(cur, 2, 1, "expr", 0, {"RPAREN"}, 0)
    BY <1>7 DEF Expr, NoNode
  <2>2. Top.type \notin Terminators /\ Top.type \notin Meaningful
    BY <1>7, Endings, Unmeant
  <2> QED  BY <1>1, <1>2, <1>3, <1>4, <1>5, <2>1, <2>2, CallText
<1>8. ASSUME Top.type = "KWSYSTEM", Parse(cur, 2, "system") PROVE TextInv'
  <2>1. Call(cur, 2, 0, "system", 0, {}, 0)
    BY <1>8 DEF Parse, NoNode
  <2>2. Top.type \notin Terminators /\ Top.type \notin Meaningful
    BY <1>8, Endings, Unmeant
  <2> QED  BY <1>1, <1>2, <1>3, <1>4, <1>5, <2>1, <2>2, CallText
<1>9. ASSUME Top.type \in DOMAIN NudNode, Call(cur, 2, 0, "nud", NoNode, Top.term, 0) PROVE TextInv'
  <2>1. Call(cur, 2, 0, "nud", 0, Top.term, 0)
    BY <1>9 DEF NoNode
  <2>2. Top.type \notin Terminators
    BY <1>9, Endings
  <2> QED  BY <1>1, <1>2, <1>3, <1>4, <1>5, <2>1, <2>2, CallText
<1>10. ASSUME Fail(cur) PROVE TextInv'
  BY <1>10, FailText
<1> QED  BY <1>6, <1>7, <1>8, <1>9, <1>10 DEF ExprHead

\* An expression that ends at a terminator has it ahead.
LEMMA ExprLoopText == ParseInv /\ TreeInv /\ TextInv /\ ExprLoop => TextInv'
<1> SUFFICES ASSUME ParseInv, TreeInv, TextInv, ExprLoop PROVE TextInv'
  OBVIOUS
<1>1. /\ Active /\ Top.fn = "expr" /\ Top.at = 3 /\ Top \in FrameRecord /\ FrameOk(Top, Len(nodes))
      /\ Known(Top, cur, toks) /\ cur \in Nat
  BY ExprFacts, Cursor DEF ExprLoop, At
<1>2. Top.node \in Nat /\ Top.term \in SUBSET Terminators
  BY <1>1, FrameFacts DEF FrameOk
<1>3. ~Owes(Top) /\ HoldsOperand(Top) /\ ListEnds(Top.fn, 2, Top.type) = {} /\ ~Unmarked(Top.fn, 2)
  BY <1>1 DEF Owes, HoldsOperand, ListEnds, Unmarked
<1>4. ASSUME Top.type \in Top.term, Done(cur) PROVE TextInv'
  <2> SUFFICES ASSUME ~lost PROVE TextInv'
    BY <1>4, TextFails DEF Done, Quiet
  <2>1. cur < Len(toks)
    BY <1>1, <1>2, <1>4, TextRuns DEF NotStale
  <2>2. TokOf(toks, cur + 1) = Top.type
    BY <1>1, <2>1, NextToken DEF Known, TokOf
  <2> QED  BY <1>1, <1>3, <1>4, <2>2, DoneText
<1>5. ASSUME ret' = Err, UNCHANGED <<toks, nodes, out, lost>> PROVE TextInv'
  BY <1>5, TextFails
<1>6. ASSUME Looser(LedLeft(Top.type), Top.bp), Done(cur) PROVE TextInv'
  <2>1. LedLeft(Top.type) \in {21, 17, 15, 13, 11, 9, 7, 5, 4, 2}
    BY DEF LedLeft
  <2>2. Top.bp # 0
    BY <1>6, <2>1 DEF Looser
  <2> QED  BY <1>1, <1>3, <1>6, <2>2, DoneText
<1>7. ASSUME Top.type \in DOMAIN LedNode, Call(cur, 2, 0, "led", Top.node, Top.term, 0) PROVE TextInv'
  <2>1. "led" \in Functions /\ "led" \notin Marked /\ 2 \in 0..5 /\ 0 \in {0, 1} /\ 0 \in 0..21
    BY DEF Functions, Marked
  <2>2. Top.type \notin Terminators
    BY <1>7, Endings
  <2> QED  BY <1>1, <1>2, <1>3, <1>7, <2>1, <2>2, CallText
<1> QED  BY <1>4, <1>5, <1>6, <1>7 DEF ExprLoop

-----------------------------------------------------------------------------
(* Operators leave nothing out. *)

LEMMA OperandText ==
  ASSUME ParseInv, TreeInv, TextInv, NEW fn \in {"nud", "led"}, Running(fn), Top.at > 0,
         NEW next \in 1..5, NEW bp \in 0..21, Operand(next, bp), ListEnds(Top.fn, next, Top.type) = {}
  PROVE  TextInv'
<1>1. Active /\ Top.fn = fn /\ Top.term \in SUBSET Terminators
  BY OperatorFacts
<1>2. ~Owes(Top) /\ ~HoldsOperand(Top) /\ ~Unmarked(Top.fn, next)
  BY <1>1 DEF Owes, HoldsOperand, Unmarked
<1>3. /\ next \in 0..5 /\ next > 0 /\ 0 \in {0, 1} /\ 0 # 1 /\ Top.fn # "expr"
      /\ Call(cur, next, 0, "expr", NoNode, Top.term, bp)
  BY <1>1 DEF Operand
<1> QED  BY <1>1, <1>2, <1>3, ItemText

LEMMA NudText == ParseInv /\ TreeInv /\ TextInv /\ ParseExprNud => TextInv'
<1> SUFFICES ASSUME ParseInv, TreeInv, TextInv, ParseExprNud PROVE TextInv'
  OBVIOUS
<1>1. Running("nud") /\ Active /\ Top.fn = "nud" /\ Known(Top, cur, toks)
  BY OperatorFacts DEF ParseExprNud
<1>2. ASSUME At(0), nodes' = AddNode(nodes, NudNode[toks[cur]], cur),
             stk' = GotoAs(1, Len(nodes) + 1, Top.type), UNCHANGED <<cur, ret>>, Quiet
      PROVE  TextInv'
  <2>1. NudNode[toks[cur]] \in NodeTypes /\ Owes(Top)
    BY <1>1, <1>2, NudTypes DEF At, Known, Owes
  <2> QED  BY <1>1, <1>2, <2>1, FreshText
<1>3. ASSUME At(1), Operand(2, NudRight) PROVE TextInv'
  <2>1. ListEnds(Top.fn, 2, Top.type) = {} /\ NudRight \in 0..21 /\ Top.at > 0
    BY <1>1, <1>3 DEF ListEnds, NudRight, At
  <2> QED  BY <1>1, <1>3, <2>1, OperandText
<1>4. ASSUME At(2), Done(cur) PROVE TextInv'
  BY <1>1, <1>4, DoneText DEF At, Builds, Owes
<1> QED  BY <1>2, <1>3, <1>4 DEF ParseExprNud

\* The operator has its node, and the operand in hand is that node's first child.
LEMMA LedReadText == ParseInv /\ TreeInv /\ TextInv /\ LedRead => TextInv'
<1> SUFFICES ASSUME ParseInv, TreeInv, TextInv, LedRead PROVE TextInv'
  OBVIOUS
<1>1. /\ Running("led") /\ Top.at = 0 /\ Active /\ Top.fn = "led" /\ Known(Top, cur, toks)
      /\ Top.node \in Nat
  BY OperatorFacts DEF LedRead, At
<1>2. CASE ~(cur < Len(toks))
  BY <1>2, FailText DEF LedRead
<1>3. CASE cur < Len(toks)
  <2> DEFINE new == Len(nodes) + 1
             more == AddNode(nodes, LedNode[Ahead], cur + 1)
  <2>1. /\ nodes' = ParentNode(more, new, Top.node) /\ stk' = GotoAs(1, new, Ahead)
        /\ ret' = ret /\ toks' = toks /\ lost' = lost /\ cur' = cur + 1
    BY <1>3 DEF LedRead, Quiet
  <2> SUFFICES ASSUME ~lost PROVE TextInv'
    BY <2>1, TextFails
  <2>2. /\ stk # <<>> /\ ret = NoRet /\ ret # Err
        /\ Joined(nodes, Built(stk) \union HeldBy(Top)) /\ HeldBy(Top) \intersect Built(stk) = {}
        /\ Built(stk) = Built(Front(stk)) \union BuiltBy(Top)
        /\ Counted(toks, nodes, cur, IF Owes(Top) THEN cur ELSE 0)
        /\ nodes \in Seq(NodeRec) /\ Len(nodes) \in Nat /\ cur \in Nat /\ cur > 0
    BY <1>1, TextRuns
  <2>3. Ahead \in DOMAIN LedNode /\ Ahead \in Types
    BY <1>1, <1>3, NextToken DEF Known
  <2>4. LedNode[Ahead] \in NodeTypes /\ cur + 1 \in Nat
    BY <2>2, <2>3, LedTypes
  <2>5. /\ more \in Seq(NodeRec) /\ Len(more) = new /\ NodesDoubled(more)
        /\ \A n \in 1..Len(nodes) : more[n] = nodes[n]
    BY <2>2, <2>4, AddNodeFacts DEF ParseInv
  <2>6. more[new].kids = <<>> /\ more[new].tok = cur + 1
    BY <2>2, AddNodeLast
  <2> HIDE DEF more
  <2>7. new \in 1..Len(more) /\ new \notin 1..Len(nodes) /\ new \in Nat
    BY <2>2, <2>5
  <2>8. Len(nodes') = new
    BY <1>1, <2>1, <2>5, <2>7, ParentNodeFacts
  <2>9. /\ nodes'[new].tok = cur + 1 /\ nodes'[new].kids = Append(more[new].kids, Top.node)
        /\ \A n \in 1..Len(more) : n # new => nodes'[n] = more[n]
    <3>1. /\ nodes'[new].tok = more[new].tok
          /\ nodes'[new].kids = Append(more[new].kids, Top.node)
          /\ \A n \in 1..Len(more) : n # new => nodes'[n] = more[n]
      BY <1>1, <2>1, <2>5, <2>7, ParentNodeHas
    <3> QED  BY <2>6, <3>1
  <2>10. \A n \in 1..Len(nodes) : nodes'[n] = nodes[n]
    BY <2>2, <2>5, <2>7, <2>9
  <2>11. PICK f \in FrameRecord :
           /\ GotoAs(1, new, Ahead) = Replaced(f)
           /\ f.fn = Top.fn /\ f.at = 1 /\ f.skip = 0 /\ f.node = new
           /\ f.term = Top.term /\ f.type = Ahead /\ f.bp = Top.bp
    <3>1. 1 \in 0..5 /\ new \in Nat
      BY <2>7
    <3> HIDE DEF new
    <3> QED  BY <1>1, <2>3, <3>1, GotoAsFacts
  <2>12. BuiltBy(Top) = {} /\ HeldBy(Top) = {Top.node} /\ ~Owes(Top)
    <3>1. ~Builds(Top) /\ HoldsOperand(Top)
      BY <1>1, Names DEF Builds, HoldsOperand
    <3> QED  BY <1>1, <3>1 DEF BuiltBy, HeldBy, Owes
  <2>13. BuiltBy(f) = {new} /\ HeldBy(f) = {} /\ ~Owes(f)
    <3>1. Builds(f) /\ ~HoldsOperand(f)
      BY <1>1, <2>11 DEF Builds, HoldsOperand
    <3> QED  BY <1>1, <2>11, <3>1 DEF BuiltBy, HeldBy, Owes
  <2>14. EndsOf(f) = {} /\ ~Unmarked(f.fn, f.at) /\ NotStale(f, toks, cur')
    BY <1>1, <2>11 DEF EndsOf, ListEnds, Unmarked, NotStale
  <2>15. Joined(nodes', Built(stk) \union {new})
    <3> DEFINE L == (Built(stk) \union HeldBy(Top)) \union {new}
    <3>1. Joined(more, L)
      <4>1. Len(more) = Len(nodes) + 1 /\ more[Len(more)].kids = <<>>
        BY <2>5, <2>6
      <4> QED  BY <2>2, <2>5, <4>1, NewNode
    <3>2. Top.node \in L /\ L \ {Top.node} = Built(stk) \union {new}
      <4>1. Top.node \in 1..Len(nodes)
        BY <2>2, <2>12 DEF Joined
      <4> QED  BY <2>2, <2>7, <2>12, <4>1
    <3> HIDE DEF L
    <3>3. more[new].kids \in Seq(Nat)
      BY <2>6
    <3>4. Joined(nodes', L \ {Top.node})
      <4>1. Len(nodes') = Len(more) /\ \A n \in 1..Len(more) : n # new => nodes'[n].kids = more[n].kids
        BY <2>5, <2>8, <2>9
      <4>2. new \in 1..Len(more) /\ nodes'[new].kids = Append(more[new].kids, Top.node)
        BY <2>7, <2>9
      <4>3. Top.node \in L /\ Top.node \in Nat
        BY <1>1, <3>2
      <4> HIDE DEF new
      <4> QED  BY <3>1, <3>3, <4>1, <4>2, <4>3, NewChild
    <3> QED  BY <3>2, <3>4
  <2>16. Counted(toks, nodes', cur + 1, 0)
    <3>1. Counted(toks, nodes, cur + 1, cur + 1)
      BY <2>2, <2>12, CountRead
    <3>2. Len(nodes') = Len(nodes) + 1 /\ nodes'[Len(nodes')].tok = cur + 1 /\ cur + 1 > 0
      BY <2>2, <2>8, <2>9
    <3> QED  BY <2>2, <2>4, <2>10, <3>1, <3>2, CountFor
  <2>17. BelowTold(nodes', cur')
    BY <2>2, <2>10, BelowKept
  <2>18. Joined(nodes', (Built(Front(stk)) \union BuiltBy(f)) \union HeldBy(f))
    <3>1. Built(stk) \union {new} = (Built(Front(stk)) \union BuiltBy(f)) \union HeldBy(f)
      BY <2>2, <2>12, <2>13
    <3> QED  BY <2>15, <3>1
  <2>19. /\ stk' = [stk EXCEPT ![Len(stk)] = f] /\ f.fn # "root" /\ ret' = NoRet /\ cur' > 0
         /\ HeldBy(f) \intersect (Built(Front(stk)) \union BuiltBy(f)) = {}
    BY <1>1, <2>1, <2>2, <2>11, <2>13 DEF Replaced
  <2>20. Counted(toks, nodes', cur', IF Owes(f) THEN cur' ELSE 0)
    BY <2>1, <2>13, <2>16
  <2> HIDE DEF new
  <2> QED  BY <2>1, <2>2, <2>11, <2>14, <2>17, <2>18, <2>19, <2>20, TextTop
<1> QED  BY <1>2, <1>3

LEMMA LedDoneText ==
  ASSUME ParseInv, TreeInv, TextInv, NEW types, LedIn(types), NEW c, Done(c),
         c = cur \/ (c = cur + 1 /\ Ahead \notin Meaningful)
  PROVE  TextInv'
<1>1. Active /\ Top.fn = "led" /\ Top.at > 0
  BY LedWhen
<1> QED  BY <1>1, DoneText DEF Builds, Owes

\* An expression in the brackets of an operator.
LEMMA BracketText ==
  ASSUME ParseInv, TreeInv, TextInv, NEW types, LedIn(types), NEW c, NEW next \in 1..5,
         NEW skip \in {0, 1}, NEW term \in SUBSET Terminators,
         Call(c, next, skip, "expr", NoNode, term, 0),
         c = cur \/ (c = cur + 1 /\ Ahead \notin Meaningful),
         skip = 1 => ListEnds("led", next, Top.type) = {},
         ListEnds("led", next, Top.type) # {} => term = ListEnds("led", next, Top.type)
  PROVE  TextInv'
<1>1. Active /\ Top.fn = "led" /\ Top.at > 0
  BY LedWhen
<1>2. ~Owes(Top) /\ ~HoldsOperand(Top) /\ ~Unmarked(Top.fn, next)
  BY <1>1 DEF Owes, HoldsOperand, Unmarked
<1>3. next \in 0..5 /\ next > 0 /\ 0 \in 0..21
  OBVIOUS
<1> QED  BY <1>1, <1>2, <1>3, ItemText

LEMMA LedCallText == ParseInv /\ TreeInv /\ TextInv /\ LedCall => TextInv'
<1> SUFFICES ASSUME ParseInv, TreeInv, TextInv, LedCall PROVE TextInv'
  OBVIOUS
<1>1. LedIn({"ECALL"}) /\ Active /\ Top.fn = "led" /\ LedNode[Top.type] = "ECALL"
  BY LedWhen DEF LedCall
<1>2. ListEnds("led", 2, Top.type) = {"COMMA", "RPAREN"}
  BY <1>1 DEF ListEnds
<1>3. /\ {"COMMA", "RPAREN"} \in SUBSET Terminators /\ "RPAREN" \notin Meaningful
      /\ "COMMA" \notin Meaningful /\ 2 \in 1..5 /\ 0 \in {0, 1}
  BY Unmeant DEF Terminators
<1>4. ASSUME NEW c, c = cur \/ (c = cur + 1 /\ Ahead \notin Meaningful),
             Item(c, 2, {"COMMA", "RPAREN"})
      PROVE  TextInv'
  <2>1. Call(c, 2, 0, "expr", NoNode, {"COMMA", "RPAREN"}, 0)
    BY <1>4 DEF Item
  <2> QED  BY <1>1, <1>2, <1>3, <1>4, <2>1, BracketText
<1>5. ASSUME At(2), Ahead # "RPAREN", Item(cur + 1, 2, {"COMMA", "RPAREN"}) PROVE TextInv'
  <2>1. CASE lost
    BY <1>5, <2>1, TextFails DEF Item, Call, Quiet
  <2>2. CASE ~lost
    <3>1. Ahead = "COMMA"
      BY <1>1, <1>2, <1>5, <2>2, TextRuns DEF At, Behind, EndsOf
    <3> QED  BY <1>3, <1>4, <1>5, <3>1
  <2> QED  BY <2>1, <2>2
<1> QED  BY <1>1, <1>3, <1>4, <1>5, LedDoneText DEF LedCall

LEMMA LedAccessText == ParseInv /\ TreeInv /\ TextInv /\ LedAccess => TextInv'
<1> SUFFICES ASSUME ParseInv, TreeInv, TextInv, LedAccess PROVE TextInv'
  OBVIOUS
<1>1. LedIn({"EACCESS"}) /\ Active /\ Top.fn = "led" /\ LedNode[Top.type] = "EACCESS"
  BY LedWhen DEF LedAccess
<1>2. ListEnds("led", 2, Top.type) = {"COMMA", "RBRACKET"} /\ ListEnds("led", 3, Top.type) = {}
  BY <1>1 DEF ListEnds
<1>3. /\ {"COMMA", "RBRACKET"} \in SUBSET Terminators /\ {"RBRACKET"} \in SUBSET Terminators
      /\ "RBRACKET" \notin Meaningful /\ "COMMA" \notin Meaningful
      /\ 2 \in 1..5 /\ 3 \in 1..5 /\ 0 \in {0, 1} /\ 1 \in {0, 1}
  BY Unmeant DEF Terminators
<1>4. ASSUME Item(cur, 2, {"COMMA", "RBRACKET"}) PROVE TextInv'
  <2>1. Call(cur, 2, 0, "expr", NoNode, {"COMMA", "RBRACKET"}, 0)
    BY <1>4 DEF Item
  <2> QED  BY <1>1, <1>2, <1>3, <2>1, BracketText
<1>5. ASSUME At(2), Ahead # "RBRACKET", Expr(cur + 1, 3, "RBRACKET") PROVE TextInv'
  <2>1. CASE lost
    BY <1>5, <2>1, TextFails DEF Expr, Call, Quiet
  <2>2. CASE ~lost
    <3>1. Ahead = "COMMA"
      BY <1>1, <1>2, <1>5, <2>2, TextRuns DEF At, Behind, EndsOf
    <3>2. Call(cur + 1, 3, 1, "expr", NoNode, {"RBRACKET"}, 0)
      BY <1>5 DEF Expr
    <3> QED  BY <1>1, <1>2, <1>3, <3>1, <3>2, BracketText
  <2> QED  BY <2>1, <2>2
<1> QED  BY <1>1, <1>3, <1>4, <1>5, LedDoneText DEF LedAccess

LEMMA LedCastText == ParseInv /\ TreeInv /\ TextInv /\ LedCast => TextInv'
<1> SUFFICES ASSUME ParseInv, TreeInv, TextInv, LedCast PROVE TextInv'
  OBVIOUS
<1>1. LedIn({"ECAST"}) /\ Active /\ Top.fn = "led" /\ LedNode[Top.type] = "ECAST" /\ Top.at > 0
  BY LedWhen DEF LedCast
<1>2. /\ ListEnds("led", 2, Top.type) = {} /\ ~Owes(Top) /\ ~HoldsOperand(Top)
      /\ ~Unmarked(Top.fn, 2)
  BY <1>1 DEF ListEnds, Owes, HoldsOperand, Unmarked
<1>3. ASSUME Parse(cur, 2, "type") PROVE TextInv'
  <2>1. Call(cur, 2, 0, "type", 0, {}, 0) /\ {} \in SUBSET Terminators /\ cur \in Nat
    BY <1>3, Cursor DEF Parse, NoNode
  <2>2. /\ "type" \in Functions /\ "type" \notin Marked
        /\ 2 \in 0..5 /\ 0 \in {0, 1} /\ 0 \in Nat /\ 0 \in 0..21
    BY Names DEF Functions, Marked
  <2> QED  BY <1>1, <1>2, <2>1, <2>2, CallText
<1> QED  BY <1>1, <1>3, LedDoneText DEF LedCast

LEMMA LedTernaryText == ParseInv /\ TreeInv /\ TextInv /\ LedTernary => TextInv'
<1> SUFFICES ASSUME ParseInv, TreeInv, TextInv, LedTernary PROVE TextInv'
  OBVIOUS
<1>1. /\ LedIn({"ETERNARY"}) /\ Running("led") /\ Active /\ Top.fn = "led" /\ Top.at > 0
      /\ LedNode[Top.type] = "ETERNARY"
  BY LedWhen DEF LedTernary
<1>2. ListEnds("led", 2, Top.type) = {} /\ ListEnds("led", 3, Top.type) = {}
  BY <1>1 DEF ListEnds
<1>3. /\ {"COLON"} \in SUBSET Terminators /\ LedRight("QUESTION") \in 0..21
      /\ 2 \in 1..5 /\ 3 \in 1..5 /\ 1 \in {0, 1}
  BY LedRights DEF Terminators, LedNode
<1>4. ASSUME Expr(cur, 2, "COLON") PROVE TextInv'
  <2>1. Call(cur, 2, 1, "expr", NoNode, {"COLON"}, 0)
    BY <1>4 DEF Expr
  <2> QED  BY <1>1, <1>2, <1>3, <2>1, BracketText
<1>5. ASSUME Operand(3, LedRight("QUESTION")) PROVE TextInv'
  BY <1>1, <1>2, <1>3, <1>5, OperandText
<1> QED  BY <1>1, <1>4, <1>5, LedDoneText DEF LedTernary

LEMMA LedBinaryText == ParseInv /\ TreeInv /\ TextInv /\ LedBinary => TextInv'
<1> SUFFICES ASSUME ParseInv, TreeInv, TextInv, LedBinary PROVE TextInv'
  OBVIOUS
<1>1. /\ LedIn(Binaries \union Assigns) /\ Running("led") /\ Active /\ Top.fn = "led" /\ Top.at > 0
      /\ LedNode[Top.type] \in Binaries \union Assigns /\ Top.type \in DOMAIN LedNode
  BY LedWhen DEF LedBinary
<1>2. LedRight(Top.type) \in 0..21 /\ 2 \in 1..5
  BY <1>1, LedRights
<1>3. LedNode[Top.type] \notin {"ECALL", "EACCESS"}
  BY <1>1 DEF Binaries, Arithmetics, Comparisons, Logicals, Assigns
<1>4. ListEnds(Top.fn, 2, Top.type) = {}
  BY <1>1, <1>3 DEF ListEnds
<1>5. ASSUME Operand(2, LedRight(Top.type)) PROVE TextInv'
  BY <1>1, <1>2, <1>4, <1>5, OperandText
<1> QED  BY <1>1, <1>5, LedDoneText DEF LedBinary

-----------------------------------------------------------------------------
(* Returns leave nothing out. *)

\* What the invariant says when a function has given back a node.
LEMMA TextGiven ==
  ASSUME ParseInv, TreeInv, TextInv, Returned, ret # Err, ~lost
  PROVE  /\ stk # <<>> /\ ret # NoRet /\ Waiting(Top) /\ Top \in FrameRecord /\ ret.node \in Nat
         /\ Joined(nodes, Built(stk) \union {ret.node}) /\ ret.node \notin Built(stk)
         /\ InHand(stk, ret) = {ret.node}
         /\ Built(stk) = Built(Front(stk)) \union BuiltBy(Top)
         /\ Counted(toks, nodes, cur + Top.skip, 0) /\ cur + Top.skip > 0
         /\ Unmarked(Top.fn, Top.at) => nodes[Top.node].tok = 1
         /\ NotStale(Top, toks, cur)
         /\ EndsOf(Top) # {} => TokOf(toks, cur + Top.skip + 1) \in EndsOf(Top)
         /\ nodes \in Seq(NodeRec) /\ Len(nodes) \in Nat /\ cur \in Nat
<1>1. stk # <<>> /\ ret # NoRet /\ Waiting(Top) /\ Top \in FrameRecord /\ ret.node \in Nat
  BY ReturnFacts
<1>2. /\ Woven(nodes, stk, ret) /\ Told(toks, nodes, stk, ret, cur)
      /\ stk \in Seq(FrameRecord) /\ nodes \in Seq(NodeRec) /\ Len(nodes) \in Nat
      /\ Len(stk) \in 1..Len(stk) /\ Last(stk) = stk[Len(stk)] /\ Last(stk) = Top
      /\ cur \in Nat /\ cur > 0
  BY <1>1, TextNow
<1>3. InHand(stk, ret) = {ret.node}
  BY <1>1 DEF InHand
<1>4. Joined(nodes, Built(stk) \union {ret.node}) /\ ret.node \notin Built(stk)
  BY <1>2, <1>3 DEF Woven, Loose
<1>5. Built(stk) = Built(Front(stk)) \union BuiltBy(Top)
  BY <1>1, <1>2, BuiltTop
<1>6. Counted(toks, nodes, cur, 0)
  BY <1>1, <1>2 DEF Told, Due
<1>7. Behind(Top, ret, TokOf(toks, cur + 1))
  BY <1>1, <1>2 DEF Told
<1>8. (Unmarked(Top.fn, Top.at) => nodes[Top.node].tok = 1) /\ NotStale(Top, toks, cur)
  BY <1>2 DEF Told
<1>9. /\ Counted(toks, nodes, cur + Top.skip, 0) /\ cur + Top.skip > 0
      /\ EndsOf(Top) # {} => TokOf(toks, cur + Top.skip + 1) \in EndsOf(Top)
  <2>1. CASE Top.skip = 1
    <3>1. TokOf(toks, cur + 1) \notin Meaningful /\ EndsOf(Top) = {}
      BY <1>1, <1>7, <2>1, Unmeant DEF Behind
    <3>2. Counted(toks, nodes, cur + 1, 0)
      BY <1>2, <1>6, <3>1, CountSkip
    <3> QED  BY <1>2, <2>1, <3>1, <3>2
  <2>2. CASE Top.skip = 0
    <3>1. cur + Top.skip = cur
      BY <1>2, <2>2
    <3> QED  BY <1>2, <1>6, <1>7, <3>1 DEF Behind
  <2> QED  BY <1>1, <2>1, <2>2, FrameFacts
<1> QED  BY <1>1, <1>2, <1>3, <1>4, <1>5, <1>8, <1>9

LEMMA ExprResumeText == ParseInv /\ TreeInv /\ TextInv /\ ExprResume => TextInv'
<1> SUFFICES ASSUME ParseInv, TreeInv, TextInv, ExprResume PROVE TextInv'
  OBVIOUS
<1>1. /\ Returned /\ Top.fn = "expr" /\ cur' = cur + Top.skip /\ ret' = NoRet
      /\ lost' = (lost \/ ret = Err) /\ toks' = toks /\ nodes' = nodes
  BY DEF ExprResume
<1> SUFFICES ASSUME ~lost, ret # Err PROVE TextInv'
  BY <1>1, TextFails
<1>2. /\ stk # <<>> /\ Waiting(Top) /\ Top \in FrameRecord /\ ret.node \in Nat
      /\ Joined(nodes, Built(stk) \union {ret.node}) /\ ret.node \notin Built(stk)
      /\ Built(stk) = Built(Front(stk)) \union BuiltBy(Top)
      /\ Counted(toks, nodes, cur', 0) /\ cur' > 0 /\ NotStale(Top, toks, cur)
  BY <1>1, TextGiven
<1> DEFINE f == [Top EXCEPT !.node = ret.node]
<1>3. stk' = [stk EXCEPT ![Len(stk)] = f]
  BY <1>2, ReturnFacts, Typed DEF ExprResume, Top, ParseInv
<1>4. /\ f \in FrameRecord /\ f.fn = "expr" /\ f.node = ret.node /\ f.at = Top.at /\ f.type = Top.type
      /\ f.term = Top.term /\ f.bp = Top.bp
  BY <1>1, <1>2 DEF FrameRecord
<1> HIDE DEF f
<1>5. f.at = 2
  BY <1>1, <1>2, <1>4 DEF Waiting
<1>6. /\ BuiltBy(Top) = {} /\ BuiltBy(f) = {} /\ HeldBy(f) = {ret.node} /\ ~Owes(f)
      /\ EndsOf(f) = {} /\ ~Unmarked(f.fn, f.at) /\ NotStale(f, toks, cur')
  <2>1. ~Builds(Top) /\ ~Builds(f) /\ HoldsOperand(f)
    BY <1>1, <1>4, <1>5, Names DEF Builds, HoldsOperand
  <2> QED  BY <1>1, <1>2, <1>4, <1>5, <2>1 DEF BuiltBy, HeldBy, Owes, EndsOf, ListEnds, Unmarked, NotStale
<1>7. BelowTold(nodes, cur')
  BY <1>2, BelowKept
<1>8. /\ Joined(nodes', (Built(Front(stk)) \union BuiltBy(f)) \union HeldBy(f))
      /\ HeldBy(f) \intersect (Built(Front(stk)) \union BuiltBy(f)) = {}
  <2>1. Built(stk) = Built(Front(stk)) \union BuiltBy(f)
    BY <1>2, <1>6
  <2> QED  BY <1>1, <1>2, <1>6, <2>1
<1> QED  BY <1>1, <1>2, <1>3, <1>4, <1>6, <1>7, <1>8, TextTop

LEMMA StmtResumeText == ParseInv /\ TreeInv /\ TextInv /\ StmtResume => TextInv'
<1> SUFFICES ASSUME ParseInv, TreeInv, TextInv, StmtResume PROVE TextInv'
  OBVIOUS
<1>1. /\ Returned /\ Top.fn = "stmt" /\ ret # Err /\ cur' = cur + Top.skip /\ stk' = Front(stk)
      /\ ret' = ret /\ lost' = lost /\ toks' = toks /\ nodes' = nodes
  BY DEF StmtResume, Quiet
<1> SUFFICES ASSUME ~lost PROVE TextInv'
  BY <1>1, TextFails
<1>2. /\ stk # <<>> /\ ret # NoRet /\ InHand(stk, ret) = {ret.node}
      /\ Counted(toks, nodes, cur', 0) /\ cur' > 0
  BY <1>1, TextGiven
<1>3. BuiltBy(Top) \union InHand(stk, ret) = {ret'.node}
  BY <1>1, <1>2, Names DEF BuiltBy, Builds
<1> QED  BY <1>1, <1>2, <1>3, TextPop

\* What was in hand is a child now, and its function's node is in the same hands as before.
LEMMA AdoptText == ParseInv /\ TreeInv /\ TextInv /\ Adopt => TextInv'
<1> SUFFICES ASSUME ParseInv, TreeInv, TextInv, Adopt PROVE TextInv'
  OBVIOUS
<1>1. /\ Returned /\ Top.fn \notin {"expr", "stmt"} /\ ret # Err /\ cur' = cur + Top.skip /\ ret' = NoRet
      /\ nodes' = ParentNode(nodes, Top.node, ret.node)
      /\ toks' = toks /\ stk' = stk /\ lost' = lost
  BY DEF Adopt
<1> SUFFICES ASSUME ~lost PROVE TextInv'
  BY <1>1, TextFails
<1>2. /\ stk # <<>> /\ Waiting(Top) /\ Top \in FrameRecord /\ ret.node \in Nat
      /\ Joined(nodes, Built(stk) \union {ret.node}) /\ ret.node \notin Built(stk)
      /\ Built(stk) = Built(Front(stk)) \union BuiltBy(Top)
      /\ Counted(toks, nodes, cur', 0) /\ cur' > 0
      /\ Unmarked(Top.fn, Top.at) => nodes[Top.node].tok = 1
      /\ EndsOf(Top) # {} => TokOf(toks, cur' + 1) \in EndsOf(Top)
      /\ nodes \in Seq(NodeRec) /\ Len(nodes) \in Nat
  BY <1>1, TextGiven
<1>3. Builds(Top) /\ ~HoldsOperand(Top) /\ ~Owes(Top) /\ NotStale(Top, toks, cur')
  BY <1>1, <1>2, FrameFacts DEF Builds, Waiting, Functions, HoldsOperand, Owes, NotStale
<1>4. Top.node \in 1..Len(nodes)
  BY <1>2, <1>3, ReturnFacts, <1>1 DEF FrameOk, Builds
<1>5. Len(nodes') = Len(nodes)
  BY <1>1, <1>2, <1>4, ParentNodeFacts DEF ParseInv
<1>6. /\ nodes'[Top.node].tok = nodes[Top.node].tok
      /\ nodes'[Top.node].kids = Append(nodes[Top.node].kids, ret.node)
      /\ \A n \in 1..Len(nodes) : n # Top.node => nodes'[n] = nodes[n]
  <2> DEFINE ms == ParentNode(nodes, Top.node, ret.node)
  <2>1. /\ ms[Top.node].tok = nodes[Top.node].tok
        /\ ms[Top.node].kids = Append(nodes[Top.node].kids, ret.node)
        /\ \A n \in 1..Len(nodes) : n # Top.node => ms[n] = nodes[n]
    BY <1>2, <1>4, ParentNodeHas
  <2>2. nodes' = ms
    BY <1>1
  <2> HIDE DEF ms
  <2> QED  BY <2>1, <2>2
<1>7. \A n \in 1..Len(nodes) : nodes'[n].tok = nodes[n].tok
  BY <1>6
<1>8. Joined(nodes', Built(stk))
  <2> DEFINE L == Built(stk) \union {ret.node}
             p == Top.node
  <2>1. nodes[p].kids \in Seq(Nat)
    <3>1. nodes[p] \in NodeRec
      BY <1>2, <1>4
    <3> QED  BY <3>1, NodeRecFacts
  <2>2. /\ Joined(nodes, L) /\ ret.node \in L /\ p \in 1..Len(nodes)
        /\ \A n \in 1..Len(nodes) : n # p => nodes'[n].kids = nodes[n].kids
        /\ nodes'[p].kids = Append(nodes[p].kids, ret.node)
    BY <1>2, <1>4, <1>6
  <2>3. L \ {ret.node} = Built(stk)
    BY <1>2
  <2> HIDE DEF L, p
  <2>4. Joined(nodes', L \ {ret.node})
    BY <1>2, <1>5, <2>1, <2>2, NewChild
  <2> QED  BY <2>3, <2>4
<1>9. Counted(toks, nodes', cur', IF Owes(Top) THEN cur' ELSE 0)
  BY <1>2, <1>3, <1>5, <1>7, CountSame
<1>10. BelowTold(nodes', cur')
  BY <1>1, <1>2, <1>7, BelowKept
<1>11. /\ Joined(nodes', (Built(Front(stk)) \union BuiltBy(Top)) \union HeldBy(Top))
       /\ HeldBy(Top) \intersect (Built(Front(stk)) \union BuiltBy(Top)) = {}
  BY <1>2, <1>3, <1>8 DEF HeldBy
<1>12. stk' = [stk EXCEPT ![Len(stk)] = Top]
  BY <1>1, <1>2, Typed DEF Top, ParseInv
<1>13. Unmarked(Top.fn, Top.at) => nodes'[Top.node].tok = 1
  BY <1>2, <1>6
<1> QED  BY <1>1, <1>2, <1>3, <1>9, <1>10, <1>11, <1>12, <1>13, TextTop

LEMMA FinishText == TextInv /\ (HandOn \/ Finish) => TextInv'
BY DEF TextInv, HandOn, Finish, Quiet

-----------------------------------------------------------------------------
(* The theorem. *)

LEMMA FirstText == Init => TextInv
<1> SUFFICES ASSUME Init PROVE TextInv
  OBVIOUS
<1> DEFINE f == Frame("root", 1, {}, 0)
           none == <<>>
           ns == AddNode(none, "ROOT", 1)
           st == <<f>>
<1>1. nodes = ns /\ stk = st /\ ret = NoRet /\ cur = 1 /\ toks \in Texts
  BY DEF Init
<1>2. f.fn = "root" /\ f.at = 0 /\ f.node = 1 /\ f.skip = 0
  BY DEF Frame
<1>3. Len(ns) = 1 /\ ns[1].tok = 1 /\ Len(ns[1].kids) = 0
  BY DEF AddNode
<1> HIDE DEF f, ns
<1>4. Len(st) = 1 /\ st[1] = f /\ Last(st) = f /\ st # <<>>
  BY DEF Last
<1> HIDE DEF st
<1>5. \A i \in 1..Len(toks) : toks[i] = "NULL" <=> i = 1
  BY <1>1, TextsAssumption
<1>6. /\ \A n \in 1..Len(ns) : n = 1
      /\ \A d \in 1..Len(st) : d = 1
      /\ \A d \in 1..(Len(st) - 1) : FALSE
      /\ 1 \in 1..Len(ns) /\ 1 \in 1..Len(st)
  BY <1>3, <1>4
<1>7. ~HoldsOperand(f) /\ ~Owes(f) /\ Builds(f) /\ EndsOf(f) = {} /\ ~Unmarked(f.fn, f.at)
  BY <1>2, Names DEF HoldsOperand, Owes, Builds, EndsOf, ListEnds, Unmarked
<1>8. Loose(st, NoRet) = {1} /\ InHand(st, NoRet) = {}
  <2>1. Built(st) = {1}
    BY <1>2, <1>4, <1>6, <1>7 DEF Built, BuiltBy
  <2>2. InHand(st, NoRet) = {}
    BY <1>4, <1>7 DEF InHand, HeldBy
  <2> QED  BY <2>1, <2>2 DEF Loose
<1>9. Joined(ns, {1})
  <2>1. \A p, k, n : ~KidAt(ns, p, k, n)
    <3>1. \A p \in 1..Len(ns) : 1..Len(ns[p].kids) = {}
      BY <1>3, <1>6
    <3> QED  BY <3>1 DEF KidAt
  <2> QED  BY <1>6, <2>1 DEF Joined
<1>10. Woven(ns, st, NoRet)
  BY <1>2, <1>4, <1>8, <1>9 DEF Woven
<1>11. Counted(toks, ns, 1, 0)
  <2>1. \A i \in 1..Len(toks) : i <= 1 => toks[i] \notin Meaningful
    BY <1>5, Unmeant
  <2> QED  BY <1>3, <1>6, <2>1 DEF Counted
<1>12. Told(toks, ns, st, NoRet, 1)
  <2>1. Due(st, NoRet, 1) = 0
    BY <1>4, <1>7 DEF Due
  <2>2. Behind(f, NoRet, TokOf(toks, 2)) /\ NotStale(f, toks, 1)
    BY <1>2, <1>7 DEF Behind, NotStale
  <2> QED  BY <1>4, <1>6, <1>7, <1>11, <2>1, <2>2 DEF Told
<1> QED  BY <1>1, <1>5, <1>10, <1>12 DEF TextInv

LEMMA StepText == ParseInv /\ TreeInv /\ TextInv /\ [Next]_vars => TextInv'
<1>1. TextInv /\ (Stopped \/ UNCHANGED vars) => TextInv'
  BY DEF Stopped, vars, TextInv
<1> QED  BY <1>1, RootText, ImportText, FuncText, GlobalDeclText, LocalDeclText, ArgListText, ArgText,
            TypeText, ReturnText, CtreeText, WhileText, ForText, JumpText, BlockText, StmtText,
            ExprReadText, ExprHeadText, ExprLoopText, SystemText, NudText, LedReadText, LedCallText,
            LedAccessText, LedCastText, LedTernaryText, LedBinaryText, ExprResumeText,
            StmtResumeText, AdoptText, FinishText
         DEF Next, Step

\* No node has more children than there are nodes.
LEMMA FewKids ==
  ASSUME NEW ns \in Seq(NodeRec), NEW L, Joined(ns, L), NEW p \in 1..Len(ns)
  PROVE  Len(ns[p].kids) <= Len(ns)
<1> DEFINE K == 1..Len(ns[p].kids)
           N == 1..Len(ns)
           f == [k \in K |-> ns[p].kids[k]]
<1>1. Len(ns) \in Nat /\ Len(ns[p].kids) \in Nat
  <2>1. ns[p] \in NodeRec
    OBVIOUS
  <2> QED  BY <2>1, NodeRecFacts
<1>2. \A k \in K : KidAt(ns, p, k, ns[p].kids[k])
  BY DEF KidAt
<1>3. f \in [K -> N]
  BY <1>2 DEF Joined
<1>4. \A x, y \in K : f[x] = f[y] => x = y
  BY <1>2 DEF Joined
<1>5. /\ IsFiniteSet(K) /\ Cardinality(K) = Len(ns[p].kids)
      /\ IsFiniteSet(N) /\ Cardinality(N) = Len(ns)
  <2>1. \A n \in Nat : IsFiniteSet(1..n) /\ Cardinality(1..n) = n
    BY FS_Interval
  <2> QED  BY <1>1, <2>1
<1> HIDE DEF f, K, N
<1>6. ~(Cardinality(N) < Cardinality(K))
  BY <1>3, <1>4, <1>5, FS_PigeonHole
<1> QED  BY <1>1, <1>5, <1>6

\* When a text is accepted the root alone is nobody's child, and no token is due or ahead.
LEMMA AcceptedText == ParseInv /\ TreeInv /\ TextInv => TreeOfText
<1> SUFFICES ASSUME ParseInv, TreeInv, TextInv, out = "ok", ~lost
  PROVE  /\ \A n \in DOMAIN nodes \ {1} :
              Cardinality({e \in (DOMAIN nodes) \X (1..Len(nodes)) :
                             e[2] \in DOMAIN nodes[e[1]].kids /\ nodes[e[1]].kids[e[2]] = n}) = 1
         /\ \A i \in DOMAIN toks :
              toks[i] \in Meaningful => Cardinality({n \in DOMAIN nodes : nodes[n].tok = i}) = 1
  BY DEF TreeOfText, Accepted
<1>1. /\ nodes \in Seq(NodeRec) /\ Len(nodes) \in Nat /\ DOMAIN nodes = 1..Len(nodes)
      /\ toks \in Seq(Types) /\ Len(toks) \in Nat /\ DOMAIN toks = 1..Len(toks) /\ cur \in Nat
  BY Typed DEF ParseInv, Types
<1>2. stk = <<>> /\ ret # Err /\ Woven(nodes, <<>>, ret) /\ Told(toks, nodes, <<>>, ret, cur)
  BY DEF TreeInv, TextInv
<1>3. Loose(<<>>, ret) \subseteq {1} /\ cur > Len(toks) /\ Due(<<>>, ret, cur) = 0
  <2>1. ret.node = 1 /\ cur > Len(toks) /\ Due(<<>>, ret, cur) = 0
    BY <1>2 DEF Woven, Told, Due
  <2>2. Built(<<>>) = {} /\ InHand(<<>>, ret) \subseteq {1}
    BY <2>1 DEF Built, InHand
  <2> QED  BY <2>1, <2>2 DEF Loose
<1>4. ASSUME NEW n \in DOMAIN nodes \ {1}
      PROVE  Cardinality({e \in (DOMAIN nodes) \X (1..Len(nodes)) :
                            e[2] \in DOMAIN nodes[e[1]].kids /\ nodes[e[1]].kids[e[2]] = n}) = 1
  <2>1. Joined(nodes, Loose(<<>>, ret)) /\ n \notin Loose(<<>>, ret)
    BY <1>2, <1>3, <1>4 DEF Woven
  <2>2. PICK p, k : KidAt(nodes, p, k, n)
    BY <1>1, <1>4, <2>1 DEF Joined
  <2>3. p \in DOMAIN nodes /\ k \in 1..Len(nodes)
    <3>1. p \in 1..Len(nodes) /\ k \in 1..Len(nodes[p].kids)
      BY <2>2 DEF KidAt
    <3>2. Len(nodes[p].kids) \in Nat
      <4>1. nodes[p] \in NodeRec
        BY <1>1, <3>1
      <4> QED  BY <4>1, NodeRecFacts
    <3>3. Len(nodes[p].kids) <= Len(nodes)
      BY <1>1, <2>1, <3>1, FewKids
    <3> QED  BY <1>1, <3>1, <3>2, <3>3
  <2>4. \A q \in DOMAIN nodes : DOMAIN nodes[q].kids = 1..Len(nodes[q].kids)
    <3>1. \A q \in DOMAIN nodes : nodes[q] \in NodeRec
      BY <1>1
    <3> QED  BY <3>1, NodeRecFacts
  <2>5. \A e \in (DOMAIN nodes) \X (1..Len(nodes)) :
          e[2] \in DOMAIN nodes[e[1]].kids /\ nodes[e[1]].kids[e[2]] = n <=> e = <<p, k>>
    <3> SUFFICES ASSUME NEW q \in DOMAIN nodes, NEW j \in 1..Len(nodes)
                 PROVE  j \in DOMAIN nodes[q].kids /\ nodes[q].kids[j] = n <=> q = p /\ j = k
      OBVIOUS
    <3>1. KidAt(nodes, q, j, n) => q = p /\ j = k
      BY <2>1, <2>2 DEF Joined
    <3> QED  BY <1>1, <2>2, <2>4, <3>1 DEF KidAt
  <2>6. {e \in (DOMAIN nodes) \X (1..Len(nodes)) :
           e[2] \in DOMAIN nodes[e[1]].kids /\ nodes[e[1]].kids[e[2]] = n} = {<<p, k>>}
    BY <2>3, <2>5
  <2> QED  BY <2>6, FS_Singleton
<1>5. ASSUME NEW i \in DOMAIN toks, toks[i] \in Meaningful
      PROVE  Cardinality({n \in DOMAIN nodes : nodes[n].tok = i}) = 1
  <2>1. Counted(toks, nodes, cur, 0)
    BY <1>2, <1>3 DEF Told
  <2>2. i \in 1..Len(toks) /\ i <= cur /\ i # 0
    BY <1>1, <1>3
  <2>3. i # 1
    BY <1>1, <1>5, <2>2, Unmeant DEF TextInv
  <2>4. PICK m \in 1..Len(nodes) : nodes[m].tok = i
    BY <1>5, <2>1, <2>2 DEF Counted
  <2>5. \A n \in 1..Len(nodes) : nodes[n].tok = i => n = m
    BY <2>1, <2>3, <2>4 DEF Counted
  <2>6. {n \in DOMAIN nodes : nodes[n].tok = i} = {m}
    BY <1>1, <2>4, <2>5
  <2> QED  BY <2>6, FS_Singleton
<1> QED  BY <1>4, <1>5

\* TreeOfText, for every set of texts: in the tree that ls_parse leaves of a text it
\* accepts, every node but the root is the child of one node, once, and every token with a
\* meaning of its own is the token of one node, unless an operand in parentheses was dropped.
THEOREM TextsInTrees == Spec => []TreeOfText
<1>1. Init => ParseInv /\ TreeInv /\ TextInv
  BY InitHolds, FirstTree, FirstText
<1>2. ParseInv /\ TreeInv /\ TextInv /\ [Next]_vars => (ParseInv /\ TreeInv /\ TextInv)'
  BY StepKeeps, StepTree, StepText
<1> QED  BY <1>1, <1>2, AcceptedText, PTL DEF Spec
=============================================================================

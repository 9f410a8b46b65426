-------------------------- MODULE SatsuMainProofs --------------------------
(***************************************************************************)
(* Proofs about SatsuBatch, SatsuMain and SatsuModules: for every number   *)
(* of arrays, every size of their elements, every alignment and any number *)
(* of extensions, an allocation batch loses no word and no array of it     *)
(* reaches into another; for every file system, every list of imports and  *)
(* of directories and every number of modules, the table of modules is a   *)
(* correct owner of such a batch, no row of it is lost, no block is used   *)
(* or released that is not allocated, every way out releases what is left, *)
(* and the modules are the files that are meant.                           *)
(***************************************************************************)
EXTENDS SatsuMain, FiniteSetTheorems, TLAPS

-----------------------------------------------------------------------------
(* Allocation batches. *)

\* The loops of ls_allocbatch and ls_reallocbatch have placed the first arrays, of n
\* elements each, at off, and size is the first free place: each array follows from the
\* one before it, so that the same n gives the same places again, and none reaches into
\* the next.
Layout(n, off, size) ==
  /\ off \in Seq(Nat) /\ Len(off) <= Len(Sizes) /\ size \in Nat
  /\ Len(off) = 0 => size = 0
  /\ Len(off) > 0 => off[1] = 0 /\ size = ls_alignbatch(off[Len(off)] + n * Sizes[Len(off)])
  /\ \A k \in 1..Len(off) : k > 1 => off[k] = ls_alignbatch(off[k - 1] + n * Sizes[k - 1])
  /\ \A k \in 1..Len(off) : off[k] + n * Sizes[k] <= size
  /\ \A k, l \in 1..Len(off) : k < l => off[k] + n * Sizes[k] <= off[l]

\* A block with arrays of n elements, laid out in full.
Block(n, size) == Layout(n, ptr, size) /\ Len(ptr) = Len(Sizes) /\ DOMAIN mem = 0..(size - 1)

\* Both layouts of ls_reallocbatch, as far as its first loop has come.
Measured ==
  /\ Layout(oldn, oldoff, oldsize) /\ Layout(newn, newoff, newsize)
  /\ Len(newoff) = Len(oldoff) /\ oldsize <= newsize
  /\ \A k \in 1..Len(oldoff) : oldoff[k] <= newoff[k] /\ oldoff[k] = was.ptr[k]

\* The k-th array is at off, with the words it had.
Holds(off, k) ==
  \A w \in 0..(oldn * Sizes[k] - 1) : mem[off[k] + w] = was.mem[was.ptr[k] + w]

InNone == phase = "none" => newoff = <<>> /\ newsize = 0 /\ oldn = 0
InAlloc == phase = "alloc" => Layout(newn, newoff, newsize)
InIdle == phase \in {"idle", "done"} => Block(newn, newsize)
InSize ==
  phase = "size" =>
    /\ Measured /\ \E size \in Nat : Block(oldn, size)
    /\ was = [mem |-> mem, ptr |-> ptr] /\ i = Len(Sizes)
InMove ==
  phase = "move" =>
    /\ Measured /\ Len(oldoff) = Len(Sizes) /\ i <= Len(Sizes)
    /\ DOMAIN mem = 0..(newsize - 1) /\ ptr \in Seq(Nat) /\ Len(ptr) = Len(Sizes)
    /\ \A k \in 1..Len(Sizes) : k <= i => Holds(oldoff, k)
    /\ \A k \in 1..Len(Sizes) : k > i => Holds(newoff, k) /\ ptr[k] = newoff[k]
InDone == phase = "done" => \A k \in 1..Len(Sizes) : Holds(ptr, k)

BatchInv ==
  /\ phase \in {"none", "alloc", "idle", "size", "move", "done"}
  /\ oldn \in Nat /\ newn \in Nat /\ i \in Nat /\ oldn <= newn
  /\ InNone /\ InAlloc /\ InIdle /\ InSize /\ InMove /\ InDone

-----------------------------------------------------------------------------
(* Arithmetic. *)

LEMMA TimesGrows ==
  ASSUME NEW a \in Nat, NEW b \in Nat, NEW c \in Nat, a <= b
  PROVE  a * c \in Nat /\ b * c \in Nat /\ a * c <= b * c
<1>1. PICK d \in Nat : b = a + d
  <2>1. b - a \in Nat /\ b = a + (b - a)
    OBVIOUS
  <2> QED  BY <2>1
<1>2. b * c = a * c + d * c
  BY <1>1
<1>3. a * c \in Nat /\ d * c \in Nat
  OBVIOUS
<1> QED  BY <1>2, <1>3

LEMMA AlignFacts ==
  /\ \A n \in Nat : ls_alignbatch(n) \in Nat /\ n <= ls_alignbatch(n)
  /\ \A a, b \in Nat : a <= b => ls_alignbatch(a) <= ls_alignbatch(b)
<1>1. \A n \in Nat : n % Align \in Nat /\ n % Align < Align
  BY AlignAssumption
<1>2. \A n \in Nat : ls_alignbatch(n) \in Nat /\ n <= ls_alignbatch(n)
  BY <1>1, AlignAssumption DEF ls_alignbatch
<1>3. ASSUME NEW a \in Nat, NEW b \in Nat, a <= b
      PROVE  ls_alignbatch(a) <= ls_alignbatch(b)
  <2> DEFINE p == a \div Align
             q == b \div Align
  <2>1. /\ p \in Nat /\ q \in Nat
        /\ a = Align * p + (a % Align) /\ b = Align * q + (b % Align)
    BY AlignAssumption
  <2>2. p <= q
    <3> SUFFICES ASSUME q + 1 <= p PROVE FALSE
      BY <2>1
    <3>1. (q + 1) * Align <= p * Align
      BY <2>1, AlignAssumption, TimesGrows
    <3>2. (q + 1) * Align = Align * q + Align /\ p * Align = Align * p
      BY <2>1, AlignAssumption
    <3>3. a % Align \in Nat /\ b % Align \in Nat /\ b % Align < Align
      BY <1>1
    <3>4. Align * p \in Nat /\ Align * q \in Nat /\ Align \in Nat
      BY <2>1, AlignAssumption
    <3>5. Align * p <= a /\ b < Align * q + Align
      <4> HIDE DEF p, q
      <4> QED  BY <2>1, <3>3, <3>4
    <3>6. Align * q + Align <= Align * p
      BY <3>1, <3>2
    <3> DEFINE x == Align * p
               y == Align * q
    <3>7. x \in Nat /\ y \in Nat /\ Align \in Nat /\ y + Align <= x /\ x <= a /\ b < y + Align
      BY <3>4, <3>5, <3>6
    <3> HIDE DEF x, y
    <3> QED  BY <1>3, <3>7
  <2>3. p * Align <= q * Align
    BY <2>1, <2>2, AlignAssumption, TimesGrows
  <2>4. p * Align = Align * p /\ q * Align = Align * q
    BY <2>1, AlignAssumption
  <2> HIDE DEF p, q
  <2>5. a - (a % Align) <= b - (b % Align)
    BY <1>1, <2>1, <2>3, <2>4, AlignAssumption
  <2> QED  BY <1>1, <2>5, AlignAssumption DEF ls_alignbatch
<1> QED  BY <1>2, <1>3

LEMMA SizeFacts ==
  /\ Len(Sizes) \in Nat
  /\ \A k \in 1..Len(Sizes) : Sizes[k] \in Nat
  /\ Arrays = 1..Len(Sizes)
  /\ \A n \in Nat : \A k \in 1..Len(Sizes) : n * Sizes[k] \in Nat
BY SizesAssumption DEF Arrays

-----------------------------------------------------------------------------
(* Layouts. *)

\* The next array is placed behind the others.
LEMMA LayoutNext ==
  ASSUME NEW n \in Nat, NEW off, NEW size, Layout(n, off, size), Len(off) < Len(Sizes)
  PROVE  Layout(n, Append(off, size), ls_alignbatch(size + n * Sizes[Len(off) + 1]))
<1> DEFINE more == Append(off, size)
           after == ls_alignbatch(size + n * Sizes[Len(off) + 1])
           extent(k) == n * Sizes[k]
<1>1. off \in Seq(Nat) /\ size \in Nat /\ Len(off) \in Nat /\ Len(Sizes) \in Nat
  BY SizeFacts DEF Layout
<1>2. /\ more \in Seq(Nat) /\ Len(more) = Len(off) + 1
      /\ \A k \in 1..Len(off) : more[k] = off[k] /\ off[k] \in Nat
      /\ more[Len(off) + 1] = size
  BY <1>1
<1>3. \A k \in 1..Len(Sizes) : extent(k) \in Nat
  BY SizeFacts
<1>4. \A k \in 1..(Len(off) + 1) : extent(k) \in Nat
  BY <1>1, <1>3
<1>5. after \in Nat /\ size + extent(Len(off) + 1) <= after
  <2>1. size + extent(Len(off) + 1) \in Nat
    <3>1. extent(Len(off) + 1) \in Nat
      BY <1>1, <1>4
    <3> HIDE DEF extent
    <3> QED  BY <1>1, <3>1
  <2> QED  BY <2>1, AlignFacts
<1>6. /\ \A k \in 1..Len(off) : off[k] + extent(k) <= size
      /\ \A k, l \in 1..Len(off) : k < l => off[k] + extent(k) <= off[l]
      /\ \A k \in 1..Len(off) : k > 1 => off[k] = ls_alignbatch(off[k - 1] + extent(k - 1))
      /\ Len(off) = 0 => size = 0
      /\ Len(off) > 0 => off[1] = 0 /\ size = ls_alignbatch(off[Len(off)] + extent(Len(off)))
  BY DEF Layout
<1>7. after = ls_alignbatch(size + extent(Len(off) + 1))
  OBVIOUS
<1> HIDE DEF more, after, extent
<1>8. more[1] = 0 /\ after = ls_alignbatch(more[Len(more)] + extent(Len(more)))
  BY <1>1, <1>2, <1>6, <1>7
<1>9. \A k \in 1..Len(more) : k > 1 => more[k] = ls_alignbatch(more[k - 1] + extent(k - 1))
  <2> SUFFICES ASSUME NEW k \in 1..Len(more), k > 1
               PROVE  more[k] = ls_alignbatch(more[k - 1] + extent(k - 1))
    OBVIOUS
  <2>1. k - 1 \in 1..Len(off)
    BY <1>1, <1>2
  <2>2. more[k - 1] = off[k - 1]
    BY <1>2, <2>1
  <2>3. CASE k = Len(off) + 1
    <3>1. more[k] = size /\ k - 1 = Len(off) /\ Len(off) > 0
      BY <1>1, <1>2, <2>1, <2>3
    <3> QED  BY <1>6, <2>2, <3>1
  <2>4. CASE k \in 1..Len(off)
    BY <1>2, <1>6, <2>2, <2>4
  <2> QED  BY <1>1, <1>2, <2>3, <2>4
<1>10. \A k \in 1..Len(more) : more[k] + extent(k) <= after
  <2> SUFFICES ASSUME NEW k \in 1..Len(more) PROVE more[k] + extent(k) <= after
    OBVIOUS
  <2>1. CASE k \in 1..Len(off)
    <3>1. more[k] = off[k] /\ off[k] + extent(k) <= size /\ off[k] \in Nat /\ extent(k) \in Nat
      BY <1>1, <1>2, <1>4, <1>6, <2>1
    <3>2. extent(Len(off) + 1) \in Nat
      BY <1>1, <1>4
    <3> QED  BY <1>1, <1>5, <3>1, <3>2
  <2>2. CASE k = Len(off) + 1
    BY <1>2, <1>5, <2>2
  <2> QED  BY <1>1, <1>2, <2>1, <2>2
<1>11. \A k, l \in 1..Len(more) : k < l => more[k] + extent(k) <= more[l]
  <2> SUFFICES ASSUME NEW k \in 1..Len(more), NEW l \in 1..Len(more), k < l
               PROVE  more[k] + extent(k) <= more[l]
    OBVIOUS
  <2>1. k \in 1..Len(off)
    BY <1>1, <1>2
  <2>2. more[k] = off[k]
    BY <1>2, <2>1
  <2>3. CASE l \in 1..Len(off)
    BY <1>2, <1>6, <2>1, <2>2, <2>3
  <2>4. CASE l = Len(off) + 1
    BY <1>2, <1>6, <2>1, <2>2, <2>4
  <2>5. l \in 1..Len(off) \/ l = Len(off) + 1
    BY <1>1, <1>2
  <2> QED  BY <2>3, <2>4, <2>5
<1>12. Len(more) <= Len(Sizes) /\ Len(more) > 0
  BY <1>1, <1>2
<1>13. Layout(n, more, after)
  BY <1>2, <1>5, <1>8, <1>9, <1>10, <1>11, <1>12 DEF Layout, extent
<1> QED  BY <1>13 DEF more, after

\* Nothing is placed yet.
LEMMA LayoutEmpty == ASSUME NEW n PROVE Layout(n, <<>>, 0)
BY SizeFacts DEF Layout

\* A layout is a matter of its numbers.
LEMMA LayoutPrimed ==
  /\ Layout(newn, newoff, newsize)' <=> Layout(newn', newoff', newsize')
  /\ Layout(oldn, oldoff, oldsize)' <=> Layout(oldn', oldoff', oldsize')
  /\ \A n, size : Layout(n, ptr, size)' <=> Layout(n, ptr', size)
  /\ Layout(newn, ptr, newsize)' <=> Layout(newn', ptr', newsize')
  /\ \A size : Layout(oldn, ptr, size)' <=> Layout(oldn', ptr', size)
BY DEF Layout, ls_alignbatch

-----------------------------------------------------------------------------
(* ls_allocbatch. *)

\* What a layout says of the places.
LEMMA LayoutFacts ==
  ASSUME NEW n \in Nat, NEW off, NEW size, Layout(n, off, size)
  PROVE  /\ off \in Seq(Nat) /\ Len(off) \in Nat /\ Len(off) <= Len(Sizes) /\ size \in Nat
         /\ \A k \in 1..Len(off) :
              off[k] \in Nat /\ n * Sizes[k] \in Nat /\ off[k] + n * Sizes[k] <= size
         /\ \A k, l \in 1..Len(off) : k < l => off[k] + n * Sizes[k] <= off[l]
<1>1. /\ off \in Seq(Nat) /\ Len(off) \in Nat /\ Len(off) <= Len(Sizes) /\ size \in Nat
      /\ Len(Sizes) \in Nat
  BY SizeFacts DEF Layout
<1>2. \A k \in 1..Len(off) : k \in 1..Len(Sizes)
  BY <1>1
<1>3. \A k \in 1..Len(off) : n * Sizes[k] \in Nat
  BY <1>2, SizeFacts
<1> QED  BY <1>1, <1>3 DEF Layout

LEMMA InitHolds == BatchInit => BatchInv
BY DEF BatchInit, BatchInv, InNone, InAlloc, InIdle, InSize, InMove, InDone

LEMMA AllocKeeps ==
  ASSUME BatchInv, Alloc(1)
  PROVE  BatchInv'
<1>1. /\ phase = "none" /\ phase' = "alloc" /\ newn' = 1
      /\ newoff' = newoff /\ newsize' = newsize /\ oldn' = oldn /\ i' = i
  BY DEF Alloc
<1>2. newoff' = <<>> /\ newsize' = 0
  BY <1>1 DEF BatchInv, InNone
<1>3. InAlloc'
  BY <1>1, <1>2, LayoutEmpty, LayoutPrimed DEF InAlloc
<1>4. oldn' <= newn'
  BY <1>1 DEF BatchInv, InNone
<1> QED  BY <1>1, <1>3, <1>4 DEF BatchInv, InNone, InIdle, InSize, InMove, InDone

LEMMA PlaceKeeps ==
  ASSUME BatchInv, Place
  PROVE  BatchInv'
<1>1. /\ phase = "alloc" /\ phase' = "alloc" /\ Len(newoff) < Len(Sizes)
      /\ newoff' = Append(newoff, newsize)
      /\ newsize' = ls_alignbatch(newsize + newn * Sizes[Len(newoff) + 1])
      /\ newn' = newn /\ oldn' = oldn /\ i' = i
  BY DEF Place
<1>2. Layout(newn, newoff, newsize) /\ newn \in Nat
  BY <1>1 DEF BatchInv, InAlloc
<1>3. InAlloc'
  BY <1>1, <1>2, LayoutNext, LayoutPrimed DEF InAlloc
<1> QED  BY <1>1, <1>3 DEF BatchInv, InNone, InIdle, InSize, InMove, InDone

LEMMA AllocatedKeeps ==
  ASSUME BatchInv, Allocated
  PROVE  BatchInv'
<1>1. /\ phase = "alloc" /\ phase' = "idle" /\ Len(newoff) = Len(Sizes)
      /\ mem' = [a \in 0..(newsize - 1) |-> Nothing] /\ ptr' = newoff
      /\ newoff' = newoff /\ newsize' = newsize /\ newn' = newn /\ oldn' = oldn /\ i' = i
  BY DEF Allocated
<1>2. Layout(newn, newoff, newsize)
  BY <1>1 DEF BatchInv, InAlloc
<1>3. DOMAIN mem' = 0..(newsize - 1)
  BY <1>1
<1>4. Block(newn, newsize)'
  BY <1>1, <1>2, <1>3, LayoutPrimed DEF Block
<1> QED  BY <1>1, <1>4 DEF BatchInv, InNone, InAlloc, InIdle, InSize, InMove, InDone

\* The owner writes into the arrays.
LEMMA WriteKeeps ==
  ASSUME BatchInv, Write
  PROVE  BatchInv'
<1>1. /\ phase \in {"idle", "done"} /\ phase' = "idle" /\ DOMAIN mem' = DOMAIN mem
      /\ ptr' = ptr /\ newsize' = newsize /\ newn' = newn /\ oldn' = oldn /\ i' = i
  BY DEF Write
<1>2. Block(newn, newsize)
  BY <1>1 DEF BatchInv, InIdle
<1>3. Block(newn, newsize)'
  BY <1>1, <1>2, LayoutPrimed DEF Block
<1> QED  BY <1>1, <1>3 DEF BatchInv, InNone, InAlloc, InIdle, InSize, InMove, InDone

-----------------------------------------------------------------------------
(* ls_reallocbatch. *)

LEMMA GrowKeeps ==
  ASSUME BatchInv, Grow(newn, 2 * newn)
  PROVE  BatchInv'
<1>1. /\ phase = "idle" /\ phase' = "size" /\ oldn' = newn /\ newn' = 2 * newn
      /\ oldoff' = <<>> /\ newoff' = <<>> /\ oldsize' = 0 /\ newsize' = 0
      /\ i' = Len(Sizes) /\ was' = [mem |-> mem, ptr |-> ptr] /\ mem' = mem /\ ptr' = ptr
  BY DEF Grow
<1>2. Block(newn, newsize) /\ newn \in Nat
  BY <1>1 DEF BatchInv, InIdle
<1>3. oldn' \in Nat /\ newn' \in Nat /\ oldn' <= newn' /\ i' \in Nat
  BY <1>1, <1>2, SizeFacts
<1>4. Measured'
  BY <1>1, LayoutEmpty, LayoutPrimed DEF Measured
<1>5. /\ Layout(newn, ptr, newsize) /\ Len(ptr) = Len(Sizes) /\ DOMAIN mem = 0..(newsize - 1)
      /\ newsize \in Nat
  BY <1>2 DEF Block, Layout
<1>6. \E size \in Nat : Layout(oldn', ptr', size) /\ Len(ptr') = Len(Sizes) /\ DOMAIN mem' = 0..(size - 1)
  BY <1>1, <1>5
<1>7. (\E size \in Nat : Block(oldn, size))'
  BY <1>6, LayoutPrimed DEF Block
<1>8. InSize'
  BY <1>1, <1>4, <1>7 DEF InSize
<1> QED  BY <1>1, <1>3, <1>8 DEF BatchInv, InNone, InAlloc, InIdle, InMove, InDone

LEMMA MeasureKeeps ==
  ASSUME BatchInv, Measure
  PROVE  BatchInv'
<1> DEFINE k == Len(oldoff) + 1
<1>1. /\ phase = "size" /\ phase' = "size" /\ Len(oldoff) < Len(Sizes)
      /\ oldoff' = Append(oldoff, oldsize) /\ newoff' = Append(newoff, newsize)
      /\ oldsize' = ls_alignbatch(oldsize + oldn * Sizes[k])
      /\ newsize' = ls_alignbatch(newsize + newn * Sizes[k])
      /\ oldn' = oldn /\ newn' = newn /\ i' = i /\ mem' = mem /\ ptr' = ptr /\ was' = was
  BY DEF Measure
<1>2. /\ Measured /\ was = [mem |-> mem, ptr |-> ptr] /\ i = Len(Sizes)
      /\ oldn \in Nat /\ newn \in Nat /\ oldn <= newn
  BY <1>1 DEF BatchInv, InSize
<1>3. PICK size \in Nat : Block(oldn, size)
  BY <1>1 DEF BatchInv, InSize
<1>4. /\ Layout(oldn, oldoff, oldsize) /\ Layout(newn, newoff, newsize)
      /\ Len(newoff) = Len(oldoff) /\ oldsize <= newsize
      /\ \A l \in 1..Len(oldoff) : oldoff[l] <= newoff[l] /\ oldoff[l] = was.ptr[l]
  BY <1>2 DEF Measured
<1>5. /\ oldoff \in Seq(Nat) /\ newoff \in Seq(Nat) /\ Len(oldoff) \in Nat
      /\ oldsize \in Nat /\ newsize \in Nat /\ k \in 1..Len(Sizes)
  BY <1>1, <1>2, <1>4, LayoutFacts, SizeFacts
<1>6. Layout(oldn', oldoff', oldsize') /\ Layout(newn', newoff', newsize')
  BY <1>1, <1>2, <1>4, LayoutNext
<1>7. oldsize' <= newsize'
  <2>1. oldn * Sizes[k] \in Nat /\ newn * Sizes[k] \in Nat /\ oldn * Sizes[k] <= newn * Sizes[k]
    BY <1>2, <1>5, SizeFacts, TimesGrows
  <2> DEFINE x == oldn * Sizes[k]
             y == newn * Sizes[k]
  <2>2. x \in Nat /\ y \in Nat /\ x <= y
    BY <2>1
  <2>3. oldsize' = ls_alignbatch(oldsize + x) /\ newsize' = ls_alignbatch(newsize + y)
    BY <1>1
  <2> HIDE DEF x, y, k
  <2>4. oldsize + x \in Nat /\ newsize + y \in Nat /\ oldsize + x <= newsize + y
    BY <1>4, <1>5, <2>2
  <2> QED  BY <2>3, <2>4, AlignFacts
\* The place that is computed again is the one the array has.
<1>8. oldsize = ptr[k]
  <2>1. /\ Len(ptr) = Len(Sizes) /\ ptr[1] = 0
        /\ \A l \in 1..Len(ptr) : l > 1 => ptr[l] = ls_alignbatch(ptr[l - 1] + oldn * Sizes[l - 1])
    <3>1. Layout(oldn, ptr, size) /\ Len(ptr) = Len(Sizes) /\ Len(Sizes) > 0
      BY <1>3, <1>5, SizeFacts DEF Block
    <3> QED  BY <3>1 DEF Layout
  <2>2. CASE Len(oldoff) = 0
    BY <1>4, <2>1, <2>2 DEF Layout
  <2>3. CASE Len(oldoff) > 0
    <3>1. Len(oldoff) \in 1..Len(oldoff) /\ k - 1 = Len(oldoff) /\ k > 1
      BY <1>5, <2>3
    <3>2. oldsize = ls_alignbatch(oldoff[Len(oldoff)] + oldn * Sizes[Len(oldoff)])
      BY <1>4, <2>3 DEF Layout
    <3>3. oldoff[Len(oldoff)] = ptr[Len(oldoff)]
      BY <1>2, <1>4, <3>1
    <3>4. ptr[k] = ls_alignbatch(ptr[Len(oldoff)] + oldn * Sizes[Len(oldoff)])
      BY <1>5, <2>1, <3>1
    <3> QED  BY <3>2, <3>3, <3>4
  <2> QED  BY <1>5, <2>2, <2>3
<1>9. Measured'
  <2>1. /\ Len(oldoff') = Len(oldoff) + 1 /\ Len(newoff') = Len(oldoff')
        /\ \A l \in 1..Len(oldoff) : oldoff'[l] = oldoff[l] /\ newoff'[l] = newoff[l]
        /\ oldoff'[k] = oldsize /\ newoff'[k] = newsize
    BY <1>1, <1>4, <1>5
  <2>2. ASSUME NEW l \in 1..Len(oldoff')
        PROVE  oldoff'[l] <= newoff'[l] /\ oldoff'[l] = was'.ptr[l]
    <3>1. CASE l \in 1..Len(oldoff)
      BY <1>1, <1>4, <2>1, <3>1
    <3>2. CASE l = k
      BY <1>1, <1>2, <1>4, <1>8, <2>1, <3>2
    <3>3. l \in 1..Len(oldoff) \/ l = k
      BY <1>5, <2>1, <2>2
    <3> QED  BY <3>1, <3>2, <3>3
  <2> QED  BY <1>6, <1>7, <2>1, <2>2, LayoutPrimed DEF Measured
<1>10. Block(oldn, size)'
  BY <1>1, <1>3, LayoutPrimed DEF Block
<1>11. (\E s \in Nat : Block(oldn, s))'
  BY <1>10
<1> QED  BY <1>1, <1>2, <1>9, <1>11 DEF BatchInv, InNone, InAlloc, InIdle, InSize, InMove, InDone

\* Every old place is inside of the longer block, and its words are still there.
LEMMA ExtendKeeps ==
  ASSUME BatchInv, Extend
  PROVE  BatchInv'
<1>1. /\ phase = "size" /\ phase' = "move" /\ Len(oldoff) = Len(Sizes)
      /\ mem' = [a \in 0..(newsize - 1) |-> IF a \in DOMAIN mem THEN mem[a] ELSE Nothing]
      /\ oldn' = oldn /\ newn' = newn /\ oldoff' = oldoff /\ newoff' = newoff
      /\ oldsize' = oldsize /\ newsize' = newsize /\ i' = i /\ ptr' = ptr /\ was' = was
  BY DEF Extend
<1>2. /\ Measured /\ was = [mem |-> mem, ptr |-> ptr] /\ i = Len(Sizes)
      /\ oldn \in Nat /\ newn \in Nat
  BY <1>1 DEF BatchInv, InSize
<1>3. PICK size \in Nat : Block(oldn, size)
  BY <1>1 DEF BatchInv, InSize
<1>4. Layout(oldn, ptr, size) /\ Len(ptr) = Len(Sizes) /\ DOMAIN mem = 0..(size - 1)
  BY <1>3 DEF Block
<1>5. /\ ptr \in Seq(Nat) /\ Len(Sizes) \in Nat
      /\ \A k \in 1..Len(Sizes) :
           ptr[k] \in Nat /\ oldn * Sizes[k] \in Nat /\ ptr[k] + oldn * Sizes[k] <= size
  BY <1>2, <1>4, LayoutFacts, SizeFacts
<1>6. /\ oldsize \in Nat /\ newsize \in Nat /\ oldsize <= newsize
      /\ \A k \in 1..Len(Sizes) : oldoff[k] = ptr[k] /\ oldoff[k] + oldn * Sizes[k] <= oldsize
  BY <1>1, <1>2, LayoutFacts DEF Measured
<1>7. \A k \in 1..Len(Sizes) : Holds(oldoff, k)'
  <2> SUFFICES ASSUME NEW k \in 1..Len(Sizes), NEW w \in 0..(oldn * Sizes[k] - 1)
               PROVE  mem'[oldoff[k] + w] = was.mem[was.ptr[k] + w]
    BY <1>1 DEF Holds
  <2> DEFINE extent == oldn * Sizes[k]
  <2>1. extent \in Nat /\ w \in 0..(extent - 1)
    BY <1>5
  <2>2. /\ ptr[k] \in Nat /\ ptr[k] + extent <= size /\ ptr[k] + extent <= oldsize
        /\ oldoff[k] = ptr[k]
    BY <1>5, <1>6
  <2> HIDE DEF extent
  <2>3. ptr[k] + w \in 0..(size - 1) /\ ptr[k] + w \in 0..(newsize - 1)
    BY <1>3, <1>6, <2>1, <2>2
  <2>4. mem'[ptr[k] + w] = mem[ptr[k] + w]
    BY <1>1, <1>4, <2>3
  <2> QED  BY <1>2, <2>2, <2>4
<1>8. DOMAIN mem' = 0..(newsize - 1)
  BY <1>1
<1>9. Measured'
  BY <1>1, <1>2, LayoutPrimed DEF Measured
<1>10. InMove'
  <2>2. i <= Len(Sizes)
    BY <1>2, <1>5
  <2>3. \A k \in 1..Len(Sizes) : k <= i' => Holds(oldoff, k)'
    BY <1>7
  <2>4. \A k \in 1..Len(Sizes) : ~(k > i')
    <3>1. \A k \in 1..Len(Sizes) : k \in Nat
      BY <1>5
    <3> QED  BY <1>1, <1>2, <1>5, <3>1
  <2>5. \A k \in 1..Len(Sizes) : k > i' => Holds(newoff, k)' /\ ptr'[k] = newoff'[k]
    BY <2>4
  <2>6. Len(oldoff') = Len(Sizes) /\ ptr' \in Seq(Nat) /\ Len(ptr') = Len(Sizes) /\ i' <= Len(Sizes)
    BY <1>1, <1>4, <1>5, <2>2
  <2>7. DOMAIN mem' = 0..(newsize' - 1)
    BY <1>1, <1>8
  <2> QED  BY <1>9, <2>3, <2>5, <2>6, <2>7 DEF InMove
<1> QED  BY <1>1, <1>10 DEF BatchInv, InNone, InAlloc, InIdle, InSize, InDone

\* The words of an array that have to be kept.
Words(k) == oldn * Sizes[k]

\* A word of an array is in the block.
LEMMA Inside ==
  ASSUME NEW a \in Nat, NEW n \in Nat, NEW size \in Nat, a + n <= size, NEW w \in 0..(n - 1)
  PROVE  a + w \in 0..(size - 1) /\ a + w \in a..(a + n - 1)
OBVIOUS

\* A word of an array is in no array before it or behind it.
LEMMA Outside ==
  ASSUME NEW a \in Nat, NEW n \in Nat, NEW w \in 0..(n - 1), NEW b \in Nat, NEW m \in Nat,
         a + n <= b \/ b + m <= a
  PROVE  a + w \notin b..(b + m - 1)
OBVIOUS

\* One array is moved: those behind it are at their new places, which are behind its own,
\* and those before it at their old ones, which are before its own.
LEMMA MoveKeeps ==
  ASSUME BatchInv, Move
  PROVE  BatchInv'
<1>1. /\ phase = "move" /\ phase' = "move" /\ i > 0 /\ i' = i - 1
      /\ mem' = ls_memmove(newoff[i], oldoff[i], Common(i))
      /\ ptr' = [ptr EXCEPT ![i] = newoff[i]]
      /\ oldn' = oldn /\ newn' = newn /\ oldoff' = oldoff /\ newoff' = newoff
      /\ oldsize' = oldsize /\ newsize' = newsize /\ was' = was
  BY DEF Move, Moved
<1>2. /\ Measured /\ Len(oldoff) = Len(Sizes) /\ i <= Len(Sizes) /\ i \in Nat
      /\ DOMAIN mem = 0..(newsize - 1) /\ ptr \in Seq(Nat) /\ Len(ptr) = Len(Sizes)
      /\ \A k \in 1..Len(Sizes) : k <= i => Holds(oldoff, k)
      /\ \A k \in 1..Len(Sizes) : k > i => Holds(newoff, k) /\ ptr[k] = newoff[k]
      /\ oldn \in Nat /\ newn \in Nat /\ oldn <= newn
  BY <1>1 DEF BatchInv, InMove
<1>3. Len(Sizes) \in Nat /\ i \in 1..Len(Sizes) /\ newsize \in Nat
  <2>1. Layout(newn, newoff, newsize)
    BY <1>2 DEF Measured
  <2>2. newsize \in Nat
    BY <2>1 DEF Layout
  <2>3. Len(Sizes) \in Nat
    BY SizeFacts
  <2>4. i \in 1..Len(Sizes)
    BY <1>1, <1>2, <2>3
  <2> QED  BY <2>2, <2>3, <2>4
<1>4. /\ \A k \in 1..Len(Sizes) : Words(k) \in Nat /\ oldoff[k] \in Nat /\ newoff[k] \in Nat
      /\ \A k \in 1..Len(Sizes) : oldoff[k] <= newoff[k] /\ newoff[k] + Words(k) <= newsize
      /\ \A k, l \in 1..Len(Sizes) :
           k < l => oldoff[k] + Words(k) <= oldoff[l] /\ newoff[k] + Words(k) <= newoff[l]
  <2>1. \A k \in 1..Len(Sizes) :
          Words(k) \in Nat /\ newn * Sizes[k] \in Nat /\ Words(k) <= newn * Sizes[k]
    BY <1>2, SizeFacts, TimesGrows DEF Words
  <2>2. /\ \A k \in 1..Len(Sizes) : oldoff[k] \in Nat /\ oldoff[k] <= newoff[k]
        /\ \A k, l \in 1..Len(Sizes) : k < l => oldoff[k] + Words(k) <= oldoff[l]
    BY <1>2, LayoutFacts DEF Measured, Words
  <2>3. /\ \A k \in 1..Len(Sizes) : newoff[k] \in Nat /\ newoff[k] + newn * Sizes[k] <= newsize
        /\ \A k, l \in 1..Len(Sizes) : k < l => newoff[k] + newn * Sizes[k] <= newoff[l]
    BY <1>2, LayoutFacts DEF Measured
  <2> DEFINE larger(k) == newn * Sizes[k]
  <2>4. \A k \in 1..Len(Sizes) : Words(k) \in Nat /\ larger(k) \in Nat /\ Words(k) <= larger(k)
    BY <2>1
  <2>5. /\ \A k \in 1..Len(Sizes) : newoff[k] + larger(k) <= newsize
        /\ \A k, l \in 1..Len(Sizes) : k < l => newoff[k] + larger(k) <= newoff[l]
    BY <2>3
  <2>6. \A k, l \in 1..Len(Sizes) : k < l => oldoff[k] + Words(k) <= oldoff[l]
    BY <2>2
  <2> HIDE DEF larger
  <2>7. \A k \in 1..Len(Sizes) : newoff[k] + Words(k) <= newsize
    BY <1>3, <2>3, <2>4, <2>5
  <2>8. \A k, l \in 1..Len(Sizes) : k < l => newoff[k] + Words(k) <= newoff[l]
    BY <1>3, <2>3, <2>4, <2>5
  <2> QED  BY <2>2, <2>3, <2>4, <2>6, <2>7, <2>8
<1>5. Common(i) = Words(i)
  BY <1>2 DEF Common, Words
<1>6. \A k \in 1..Len(Sizes) :
        /\ Holds(oldoff, k) <=>
             \A w \in 0..(Words(k) - 1) : mem[oldoff[k] + w] = was.mem[was.ptr[k] + w]
        /\ Holds(newoff, k) <=>
             \A w \in 0..(Words(k) - 1) : mem[newoff[k] + w] = was.mem[was.ptr[k] + w]
        /\ Holds(oldoff, k)' <=>
             \A w \in 0..(Words(k) - 1) : mem'[oldoff[k] + w] = was.mem[was.ptr[k] + w]
        /\ Holds(newoff, k)' <=>
             \A w \in 0..(Words(k) - 1) : mem'[newoff[k] + w] = was.mem[was.ptr[k] + w]
  BY <1>1 DEF Holds, Words
<1>7. DOMAIN mem' = 0..(newsize - 1)
  BY <1>1, <1>2 DEF ls_memmove
<1>8. \A a \in 0..(newsize - 1) :
        mem'[a] = IF a \in newoff[i]..(newoff[i] + Words(i) - 1)
                  THEN mem[a - newoff[i] + oldoff[i]] ELSE mem[a]
  BY <1>1, <1>2, <1>5 DEF ls_memmove
<1>9. ASSUME NEW k \in 1..Len(Sizes), k = i
      PROVE  Holds(newoff, k)'
  <2> SUFFICES ASSUME NEW w \in 0..(Words(k) - 1)
               PROVE  mem'[newoff[k] + w] = was.mem[was.ptr[k] + w]
    BY <1>6
  <2>1. newoff[k] \in Nat /\ oldoff[k] \in Nat /\ Words(k) \in Nat /\ newoff[k] + Words(k) <= newsize
    BY <1>4
  <2>2. /\ newoff[k] + w \in 0..(newsize - 1)
        /\ newoff[k] + w \in newoff[k]..(newoff[k] + Words(k) - 1)
    <3>1. newoff[k] + w \in 0..(newsize - 1)
      BY <1>3, <2>1, Inside
    <3>2. newoff[k] + w \in newoff[k]..(newoff[k] + Words(k) - 1)
      BY <1>3, <2>1, Inside
    <3> QED  BY <3>1, <3>2
  <2>3. mem'[newoff[k] + w] = mem[oldoff[k] + w]
    <3> DEFINE a == newoff[k] + w
    <3>1. a \in 0..(newsize - 1) /\ a \in newoff[i]..(newoff[i] + Words(i) - 1)
      BY <1>9, <2>2
    <3>2. a = newoff[k] + w
      OBVIOUS
    <3>3. a - newoff[k] + oldoff[k] = oldoff[k] + w
      BY <2>1
    <3> HIDE DEF a
    <3>4. mem'[a] = mem[a - newoff[k] + oldoff[k]]
      BY <1>8, <1>9, <3>1
    <3>5. mem'[a] = mem[oldoff[k] + w]
      BY <3>3, <3>4
    <3> QED  BY <3>2, <3>5
  <2>4. mem[oldoff[k] + w] = was.mem[was.ptr[k] + w]
    <3>1. Holds(oldoff, k)
      BY <1>2, <1>3, <1>9
    <3> QED  BY <1>6, <3>1
  <2> QED  BY <2>3, <2>4
<1>10. ASSUME NEW k \in 1..Len(Sizes), k < i
       PROVE  Holds(oldoff, k)'
  <2> SUFFICES ASSUME NEW w \in 0..(Words(k) - 1)
               PROVE  mem'[oldoff[k] + w] = was.mem[was.ptr[k] + w]
    BY <1>6
  <2>1. /\ newoff[i] \in Nat /\ oldoff[i] \in Nat /\ oldoff[k] \in Nat /\ Words(k) \in Nat
        /\ Words(i) \in Nat
        /\ oldoff[k] + Words(k) <= oldoff[i] /\ oldoff[i] <= newoff[i]
        /\ newoff[i] + Words(i) <= newsize
    BY <1>3, <1>4, <1>10
  <2>2. /\ oldoff[k] + w \in 0..(newsize - 1)
        /\ oldoff[k] + w \notin newoff[i]..(newoff[i] + Words(i) - 1)
    <3>1. oldoff[k] + Words(k) <= newsize /\ oldoff[k] + Words(k) <= newoff[i]
      BY <1>3, <2>1
    <3>2. oldoff[k] + w \in 0..(newsize - 1)
      BY <1>3, <2>1, <3>1, Inside
    <3>3. oldoff[k] + w \notin newoff[i]..(newoff[i] + Words(i) - 1)
      BY <2>1, <3>1, Outside
    <3> QED  BY <3>2, <3>3
  <2>3. mem'[oldoff[k] + w] = mem[oldoff[k] + w]
    BY <1>8, <2>2
  <2>4. mem[oldoff[k] + w] = was.mem[was.ptr[k] + w]
    BY <1>2, <1>3, <1>6, <1>10
  <2> QED  BY <2>3, <2>4
<1>11. ASSUME NEW k \in 1..Len(Sizes), k > i
       PROVE  Holds(newoff, k)'
  <2> SUFFICES ASSUME NEW w \in 0..(Words(k) - 1)
               PROVE  mem'[newoff[k] + w] = was.mem[was.ptr[k] + w]
    BY <1>6
  <2>1. /\ newoff[i] \in Nat /\ newoff[k] \in Nat /\ Words(k) \in Nat /\ Words(i) \in Nat
        /\ newoff[i] + Words(i) <= newoff[k] /\ newoff[k] + Words(k) <= newsize
    BY <1>3, <1>4, <1>11
  <2>2. /\ newoff[k] + w \in 0..(newsize - 1)
        /\ newoff[k] + w \notin newoff[i]..(newoff[i] + Words(i) - 1)
    BY <1>3, <2>1, Inside, Outside
  <2>3. mem'[newoff[k] + w] = mem[newoff[k] + w]
    BY <1>8, <2>2
  <2>4. mem[newoff[k] + w] = was.mem[was.ptr[k] + w]
    BY <1>2, <1>6, <1>11
  <2> QED  BY <2>3, <2>4
<1>12. /\ ptr' \in Seq(Nat) /\ Len(ptr') = Len(Sizes) /\ ptr'[i] = newoff[i]
       /\ \A k \in 1..Len(Sizes) : k # i => ptr'[k] = ptr[k]
  BY <1>1, <1>2, <1>3, <1>4
<1>13. Measured'
  BY <1>1, <1>2, LayoutPrimed DEF Measured
<1>14. i' \in Nat /\ i' <= Len(Sizes)
  BY <1>1, <1>2, <1>3
<1>15. \A k \in 1..Len(Sizes) : k <= i' => Holds(oldoff, k)'
  <2> SUFFICES ASSUME NEW k \in 1..Len(Sizes), k <= i' PROVE Holds(oldoff, k)'
    OBVIOUS
  <2>1. k < i
    BY <1>1, <1>3
  <2> QED  BY <1>10, <2>1
<1>16. \A k \in 1..Len(Sizes) : k > i' => Holds(newoff, k)' /\ ptr'[k] = newoff[k]
  <2> SUFFICES ASSUME NEW k \in 1..Len(Sizes), k > i' PROVE Holds(newoff, k)' /\ ptr'[k] = newoff[k]
    OBVIOUS
  <2>1. k = i \/ k > i
    BY <1>1, <1>3
  <2>2. CASE k > i
    BY <1>2, <1>3, <1>11, <1>12, <2>2
  <2>3. CASE k = i
    <3>1. Holds(newoff, k)'
      BY <1>9, <2>3
    <3>2. ptr'[k] = newoff[k]
      BY <1>12, <2>3
    <3> QED  BY <3>1, <3>2
  <2> QED  BY <2>1, <2>2, <2>3
<1>17. InMove'
  BY <1>1, <1>2, <1>7, <1>12, <1>13, <1>14, <1>15, <1>16 DEF InMove
<1> QED  BY <1>1, <1>2, <1>14, <1>17 DEF BatchInv, InNone, InAlloc, InIdle, InSize, InDone

LEMMA GrownKeeps ==
  ASSUME BatchInv, Grown
  PROVE  BatchInv'
<1>1. /\ phase = "move" /\ i = 0 /\ phase' = "done" /\ UNCHANGED <<oldn, newn, i, was, mem, ptr>>
      /\ newsize' = newsize
  BY DEF Grown
<1>2. /\ Measured /\ Len(oldoff) = Len(Sizes) /\ DOMAIN mem = 0..(newsize - 1)
      /\ ptr \in Seq(Nat) /\ Len(ptr) = Len(Sizes)
      /\ \A k \in 1..Len(Sizes) : Holds(newoff, k) /\ ptr[k] = newoff[k]
  BY <1>1, SizeFacts DEF BatchInv, InMove
<1>3. newoff \in Seq(Nat) /\ Len(newoff) = Len(Sizes) /\ Layout(newn, newoff, newsize)
  BY <1>2 DEF Measured, Layout
<1>4. ptr = newoff
  BY <1>2, <1>3
<1>5. Block(newn, newsize)'
  BY <1>1, <1>2, <1>3, <1>4, LayoutPrimed DEF Block
<1>6. \A k \in 1..Len(Sizes) : Holds(ptr, k)'
  BY <1>1, <1>2 DEF Holds
<1> QED  BY <1>1, <1>5, <1>6 DEF BatchInv, InNone, InAlloc, InIdle, InSize, InMove, InDone

-----------------------------------------------------------------------------
(* The theorems. *)

LEMMA StepKeeps == BatchInv /\ [BatchNext]_batchVars => BatchInv'
<1> SUFFICES ASSUME BatchInv, [BatchNext]_batchVars PROVE BatchInv'
  OBVIOUS
<1>1. CASE UNCHANGED batchVars
  <2>1. UNCHANGED <<phase, oldn, newn, oldoff, newoff, oldsize, newsize, i, mem, ptr, was>>
    BY <1>1 DEF batchVars
  <2> QED  BY <2>1, LayoutPrimed
        DEF BatchInv, InNone, InAlloc, InIdle, InSize, InMove, InDone, Measured, Block, Holds
<1>2. CASE BatchNext
  BY <1>2, AllocKeeps, PlaceKeeps, AllocatedKeeps, WriteKeeps, GrowKeeps, MeasureKeeps,
     ExtendKeeps, MoveKeeps, GrownKeeps DEF BatchNext, BatchStep
<1> QED  BY <1>1, <1>2

\* ArraysKept, for every list of sizes and every alignment: ls_reallocbatch, which moves
\* the arrays over each other's old places, last first, loses no word of any.
THEOREM BatchKeeps == BatchSpec => []ArraysKept
<1>1. BatchInv => ArraysKept
  BY SizeFacts DEF BatchInv, InDone, Holds, ArraysKept
<1> QED  BY <1>1, InitHolds, StepKeeps, PTL DEF BatchSpec

\* ArraysApart, for every list of sizes and every alignment: what ls_allocbatch and
\* ls_reallocbatch hand out is inside of the block, and no array reaches into another.
THEOREM BatchApart == BatchSpec => []ArraysApart
<1>1. BatchInv => ArraysApart
  <2> SUFFICES ASSUME BatchInv, phase \in {"idle", "done"} PROVE ArraysApart
    BY DEF ArraysApart
  <2>1. Block(newn, newsize) /\ newn \in Nat
    BY DEF BatchInv, InIdle
  <2>2. /\ \A k \in 1..Len(Sizes) :
             ptr[k] \in Nat /\ newn * Sizes[k] \in Nat /\ ptr[k] + newn * Sizes[k] <= newsize
        /\ \A k, l \in 1..Len(Sizes) : k < l => ptr[k] + newn * Sizes[k] <= ptr[l]
        /\ newsize \in Nat /\ DOMAIN mem = 0..(newsize - 1)
    BY <2>1, LayoutFacts DEF Block
  <2>3. ASSUME NEW k \in 1..Len(Sizes), NEW w \in 0..(newn * Sizes[k] - 1)
        PROVE  ptr[k] + w \in DOMAIN mem
    <3> DEFINE extent == newn * Sizes[k]
    <3>1. extent \in Nat /\ ptr[k] \in Nat /\ ptr[k] + extent <= newsize /\ w \in 0..(extent - 1)
      BY <2>2
    <3> HIDE DEF extent
    <3> QED  BY <2>2, <3>1
  <2> QED  BY <2>2, <2>3, SizeFacts DEF ArraysApart
<1> QED  BY <1>1, InitHolds, StepKeeps, PTL DEF BatchSpec

-----------------------------------------------------------------------------
(* The table of modules, and the ways out. *)

\* Before there is a table, and while it is not being changed.
Early == {"start", "read", "lex", "parse", "create"}
Settled ==
  {"created", "import", "open", "lex import", "parse import", "resolved", "exec", "run", "ran"}
Reading == {"lex import", "parse import"}

\* The table's block is only being made or moved while a module is pushed.
Control ==
  /\ at \in Early \union Settled \union {"push", "failed", "exit"}
  /\ at = "failed" => failed \in DOMAIN BeforeTable \union DOMAIN AfterTable
  /\ host \in {"csatsu", "gsatsu"}
  /\ at \in Early => phase = "none"
  /\ at = "push" => phase # "none"
  /\ at \in Settled => phase = "idle"
  /\ at = "failed" => phase = IF failed \in DOMAIN BeforeTable THEN "none" ELSE "idle"
  /\ at = "exit" => phase \in {"none", "idle"}

\* The capacity is what ls_reallocbatch was called for, and there is room for one more when
\* it is done.
Capacity ==
  /\ nmods \in Nat
  /\ phase = "none" => nmods = 0
  /\ phase # "none" => modcap = newn /\ newn > 0 /\ nmods <= newn
  /\ phase = "alloc" => nmods = 0
  /\ phase \in {"size", "move", "done"} => nmods = oldn /\ newn = 2 * oldn

\* A row for every file that was read, and at most one file that has no row yet.
Counted ==
  /\ files \in Seq(Files) /\ nmods <= Len(files)
  /\ at \in {"start", "read"} => Len(files) = 0
  /\ at \in {"lex", "parse", "create"} => Len(files) = 1 /\ nmods = 0
  /\ at \in {"push"} \union Reading => Len(files) = nmods + 1
  /\ at \in Settled \ Reading => Len(files) = nmods
  /\ at \in Settled => nmods > 0
  /\ at = "failed" /\ failed \in DOMAIN AfterTable => nmods > 0

\* The rows are where the arrays are, or were when the block began to be extended.
RowsIn(block, places) ==
  \A k \in Arrays : \A j \in Rows : \A w \in 0..(Sizes[k] - 1) :
    block[places[k] + ((j - 1) * Sizes[k] + w)] = [of |-> Element(k, j), word |-> w]
RowsKept ==
  /\ phase = "idle" => RowsIn(mem, ptr)
  /\ phase \in {"size", "move", "done"} => RowsIn(was.mem, was.ptr)

\* What is allocated at each place of the program.
Open == IF host = "csatsu" THEN {File} ELSE {}
Of(n) == {Name(j) : j \in 1..n} \union {Data(j) : j \in 1..n}
           \union {Lex(j) : j \in 1..n} \union {Ast(j) : j \in 1..n}
Modules == Open \union {Table} \union Of(nmods)

LiveEarly ==
  /\ at = "start" => live = {}
  /\ at = "read" => live = {File}
  /\ at = "lex" => live = Open \union {Data(1)}
  /\ at = "parse" => live = Open \union {Data(1), Lex(1)}
  /\ at = "create" => live = Open \union {Data(1), Lex(1), Ast(1)}
LiveTable ==
  /\ at = "push" =>
       live = Open \union {Table} \union Of(nmods + 1) \union (IF nmods = 0 THEN {} ELSE Given)
  /\ at \in {"created", "exec"} => live = Modules
  /\ at \in {"import", "open", "resolved"} => live = Modules \union Given
  /\ at = "lex import" => live = Modules \union Given \union {Data(nmods + 1)}
  /\ at = "parse import" => live = Modules \union Given \union {Data(nmods + 1), Lex(nmods + 1)}
  /\ at \in {"run", "ran"} => live = Modules \union {System} \union Heaped
LiveLast ==
  /\ at = "failed" /\ failed \in DOMAIN BeforeTable =>
       live = Open \union BeforeTable[failed] \union {Error}
  /\ at = "failed" /\ failed \in DOMAIN AfterTable =>
       live = Modules \union AfterTable[failed] \union Message
  /\ at = "exit" => live \subseteq Open
Live == LiveEarly /\ LiveTable /\ LiveLast /\ fault = FALSE

\* The imports that have been read or found present, and the files of the modules.
Finished == 1..(IF at \in Reading THEN next ELSE next - 1)
Present == {files[j] : j \in DOMAIN files}
Resolving ==
  /\ paths \in Seq(Dirs) /\ imports \in Seq(Names) /\ next \in Nat \ {0}
  /\ next <= Len(imports) + 1
  /\ at \in Early \union {"created"} => next = 1
  /\ at = "push" /\ nmods = 0 => next = 1
  /\ at \in {"open"} \union Reading => next <= Len(imports)
  /\ at = "open" => Found(next) # {} /\ FileOf(next) \notin Present
  /\ at = "resolved" => next = Len(imports) + 1
  /\ \A n \in Finished : Found(n) # {}
  /\ at \in {"lex", "parse", "create", "push"} \union Settled =>
       Present = {Main} \union {FileOf(n) : n \in Finished}
  /\ \A j, l \in DOMAIN files : files[j] = files[l] => j = l

MainInv == BatchInv /\ Control /\ Capacity /\ Counted /\ RowsKept /\ Live /\ Resolving

-----------------------------------------------------------------------------
(* The table is an allocation batch: SatsuMain implements BatchSpec. *)

\* Every step of the program is one of the batch's, or leaves it alone.
LEMMA StepImplements == Control /\ Capacity /\ [Next]_vars => [BatchNext]_batchVars
<1> SUFFICES ASSUME Control, Capacity, [Next]_vars PROVE [BatchNext]_batchVars
  OBVIOUS
<1>1. CASE UNCHANGED batchVars
  BY <1>1
<1>2. CASE UNCHANGED vars
  BY <1>2 DEF vars
<1>3. CASE Create
  BY <1>3 DEF Create, BatchNext
<1>4. CASE PushGrow
  <2>1. Grow(modcap, 2 * modcap) /\ modcap = newn
    BY <1>4 DEF PushGrow, Capacity
  <2> QED  BY <2>1 DEF BatchNext
<1>5. CASE Push
  <2>1. phase \in {"idle", "done"} /\ phase' = "idle" /\ mem' = Stored(nmods + 1)
        /\ UNCHANGED <<oldn, newn, oldoff, newoff, oldsize, newsize, i, ptr, was>>
    BY <1>5 DEF Push
  <2>2. mem' = [a \in DOMAIN mem |-> mem'[a]]
    BY <2>1 DEF Stored
  <2> QED  BY <2>1, <2>2 DEF BatchNext, Write
<1>6. CASE BatchStep
  BY <1>6 DEF BatchNext
<1>7. CASE Arguments \/ Button
  BY <1>1, <1>7 DEF Arguments, Button
<1>8. CASE ReadMain \/ LexMain \/ ParseMain \/ GivePaths \/ SemaMain \/ StartExec \/ ExecMain
  BY <1>1, <1>8 DEF ReadMain, LexMain, ParseMain, GivePaths, SemaMain, StartExec, ExecMain, Here
<1>9. CASE NextImport \/ ReadImport \/ LexImport \/ ParseImport \/ Resolved
  BY <1>1, <1>9 DEF NextImport, ReadImport, LexImport, ParseImport, Resolved
<1>10. CASE Reached \/ Report
  BY <1>1, <1>10 DEF Reached, Report, Exit, Here
<1>11. CASE Stopped
  BY <1>2, <1>11 DEF Stopped
<1> QED
  BY <1>2, <1>3, <1>4, <1>5, <1>6, <1>7, <1>8, <1>9, <1>10, <1>11 DEF Next, Step, ModuleStep

LEMMA InitImplements == Init => BatchInit
BY DEF Init

-----------------------------------------------------------------------------
(* Where the program is, and how many modules there are. *)

LEMMA Stages ==
  /\ DOMAIN BeforeTable = {"read", "lex", "parse"}
  /\ DOMAIN AfterTable = {"import", "sema", "exec", "thread"}
  /\ (DOMAIN BeforeTable)' = DOMAIN BeforeTable /\ (DOMAIN AfterTable)' = DOMAIN AfterTable
BY DEF BeforeTable, AfterTable

LEMMA ControlKeeps == Control /\ Capacity /\ [Next]_vars => Control'
<1> SUFFICES ASSUME Control, Capacity, [Next]_vars PROVE Control'
  OBVIOUS
<1> USE Stages
<1>1. CASE UNCHANGED vars
  BY <1>1 DEF vars, moduleVars, batchVars, Control
<1>2. CASE Stopped
  BY <1>1, <1>2 DEF Stopped
<1>3. CASE Arguments \/ Button
  BY <1>3 DEF Arguments, Button, Control, Early, Settled, batchVars
<1>4. CASE ReadMain \/ LexMain \/ ParseMain
  BY <1>4 DEF ReadMain, LexMain, ParseMain, Control, Early, Settled, batchVars, Here, Goto, Fail
<1>5. CASE GivePaths \/ SemaMain
  BY <1>5 DEF GivePaths, SemaMain, Control, Early, Settled, batchVars, Here, Goto, Fail
<1>6. CASE StartExec \/ ExecMain
  BY <1>6 DEF StartExec, ExecMain, Control, Early, Settled, batchVars, Here, Goto, Fail
<1>7. CASE Reached \/ Report
  BY <1>7 DEF Reached, Report, Exit, Control, Early, Settled, batchVars, Here
<1>8. CASE ModuleStep /\ UNCHANGED <<host, target>>
  <2>1. CASE Create
    BY <1>8, <2>1 DEF Create, Alloc, Control, Early, Settled
  <2>2. CASE PushGrow
    BY <1>8, <2>2 DEF PushGrow, Grow, Control, Early, Settled
  <2>3. CASE Push
    BY <1>8, <2>3 DEF Push, Control, Early, Settled
  <2>4. CASE NextImport \/ ReadImport \/ LexImport \/ ParseImport \/ Resolved
    BY <1>8, <2>4 DEF NextImport, ReadImport, LexImport, ParseImport, Resolved, Control, Early,
                      Settled, batchVars, Goto, Fail
  <2>5. CASE at = "push" /\ BatchStep /\ UNCHANGED moduleVars
    <3>1. at' = at /\ failed' = failed /\ phase' # "none"
      BY <2>5 DEF moduleVars, BatchStep, Place, Allocated, Measure, Extend, Move, Grown, Control
    <3> QED  BY <1>8, <2>5, <3>1 DEF Control, Early, Settled
  <2> QED  BY <1>8, <2>1, <2>2, <2>3, <2>4, <2>5 DEF ModuleStep
<1> QED  BY <1>1, <1>2, <1>3, <1>4, <1>5, <1>6, <1>7, <1>8 DEF Next, Step

LEMMA CapacityKeeps == BatchInv /\ Control /\ Capacity /\ [Next]_vars => Capacity'
<1> SUFFICES ASSUME BatchInv, Control, Capacity, [Next]_vars PROVE Capacity'
  OBVIOUS
<1>1. CASE UNCHANGED <<nmods, modcap, batchVars>>
  BY <1>1 DEF batchVars, Capacity
<1>2. CASE Create
  BY <1>2 DEF Create, Alloc, Capacity
<1>3. CASE PushGrow
  <2>1. /\ phase = "idle" /\ phase' = "size" /\ oldn' = modcap /\ newn' = 2 * modcap
        /\ modcap' = 2 * modcap /\ nmods' = nmods /\ nmods >= modcap
    BY <1>3 DEF PushGrow, Grow, Full
  <2>2. newn \in Nat /\ modcap = newn /\ newn > 0 /\ nmods <= newn /\ nmods \in Nat
    BY <2>1 DEF BatchInv, Capacity
  <2> QED  BY <2>1, <2>2 DEF Capacity
<1>4. CASE Push
  <2>1. /\ phase = "done" \/ (phase = "idle" /\ ~(nmods >= modcap))
        /\ phase' = "idle" /\ nmods' = nmods + 1 /\ modcap' = modcap /\ newn' = newn
    BY <1>4 DEF Push, Full
  <2>2. newn \in Nat /\ modcap = newn /\ newn > 0 /\ nmods <= newn /\ nmods \in Nat
    BY <2>1 DEF BatchInv, Capacity
  <2>3. nmods + 1 <= newn
    BY <2>1, <2>2 DEF Capacity
  <2> QED  BY <2>1, <2>2, <2>3 DEF Capacity
<1>5. CASE at = "push" /\ BatchStep /\ UNCHANGED moduleVars
  <2>1. nmods' = nmods /\ modcap' = modcap /\ newn' = newn /\ oldn' = oldn /\ phase # "none"
    BY <1>5 DEF moduleVars, BatchStep, Place, Allocated, Measure, Extend, Move, Grown
  <2>2. \/ phase' = phase \/ (phase = "alloc" /\ phase' = "idle")
        \/ (phase = "size" /\ phase' = "move") \/ (phase = "move" /\ phase' = "done")
    BY <1>5 DEF BatchStep, Place, Allocated, Measure, Extend, Move, Grown
  <2> QED  BY <2>1, <2>2 DEF Capacity
<1>6. CASE Arguments \/ Button
  BY <1>1, <1>6 DEF Arguments, Button
<1>7. CASE ReadMain \/ LexMain \/ ParseMain \/ GivePaths \/ SemaMain \/ StartExec \/ ExecMain
  BY <1>1, <1>7 DEF ReadMain, LexMain, ParseMain, GivePaths, SemaMain, StartExec, ExecMain, Here,
                    Goto, Fail
<1>8. CASE NextImport \/ ReadImport \/ LexImport \/ ParseImport \/ Resolved
  BY <1>1, <1>8 DEF NextImport, ReadImport, LexImport, ParseImport, Resolved, Goto, Fail
<1>9. CASE Reached \/ Report
  BY <1>1, <1>9 DEF Reached, Report, Exit, Here
<1>10. CASE UNCHANGED vars
  BY <1>1, <1>10 DEF vars, moduleVars
<1> QED
  BY <1>2, <1>3, <1>4, <1>5, <1>6, <1>7, <1>8, <1>9, <1>10
     DEF Next, Step, ModuleStep, Stopped

\* The least of some numbers.
LEMMA Least ==
  ASSUME NEW S, S \subseteq Nat, S # {}
  PROVE  Min(S) \in S /\ \A y \in S : Min(S) <= y
<1>1. PICK x \in S : \A y \in S : ~(<<y, x>> \in OpToRel(<, Nat))
  BY NatLessThanWellFounded, WFMin
<1>2. \A y \in S : x <= y
  <2> SUFFICES ASSUME NEW y \in S, y < x PROVE FALSE
    OBVIOUS
  <2>1. <<y, x>> \in OpToRel(<, Nat)
    BY DEF OpToRel
  <2> QED  BY <1>1, <2>1
<1> QED  BY <1>2 DEF Min

\* The file an import leads to.
LEMMA FoundFile ==
  ASSUME paths \in Seq(Dirs), imports \in Seq(Names), NEW n \in 1..Len(imports), Found(n) # {}
  PROVE  /\ Min(Found(n)) \in Found(n) /\ \A p \in Found(n) : Min(Found(n)) <= p
         /\ FileOf(n) \in Files
<1>1. Found(n) \subseteq 1..Len(paths) /\ Len(paths) \in Nat
  BY DEF Found
<1>2. Found(n) \subseteq Nat
  BY <1>1
<1>3. Min(Found(n)) \in Found(n) /\ \A p \in Found(n) : Min(Found(n)) <= p
  BY <1>2, Least
<1> DEFINE d == paths[Min(Found(n))]
<1>4. d \in Dirs /\ imports[n] \in DOMAIN In[d]
  BY <1>1, <1>3 DEF Found
<1> HIDE DEF d
<1>5. In[d][imports[n]] \in Files
  BY <1>4, FilesAssumption
<1> QED  BY <1>3, <1>5 DEF FileOf, d

LEMMA CountedKeeps == Control /\ Capacity /\ Counted /\ Resolving /\ [Next]_vars => Counted'
<1> SUFFICES ASSUME Control, Capacity, Counted, Resolving, [Next]_vars PROVE Counted'
  OBVIOUS
<1> USE Stages
<1>1. CASE UNCHANGED vars \/ Stopped
  BY <1>1 DEF vars, moduleVars, Stopped, Counted
<1>2. CASE Arguments \/ Button
  BY <1>2 DEF Arguments, Button, Counted, Control, Early, Settled, Reading, Capacity
<1>3. CASE ReadMain
  <2>1. nmods' = nmods /\ nmods = 0 /\ Len(files) = 0 /\ files \in Seq(Files)
    BY <1>3 DEF ReadMain, Counted, Control, Early, Capacity, Fail
  <2>2. CASE at' = "lex" /\ files' = <<Main>>
    <3>1. files' \in Seq(Files) /\ Len(files') = 1
      BY <2>2, FilesAssumption
    <3>2. at' = "lex"
      BY <2>2
    <3>3. nmods' = 0
      BY <2>1
    <3>4. at' = "lex" /\ at' \notin Settled /\ at' \notin Reading
      BY <3>2 DEF Settled, Reading
    <3>5. \A j, l \in DOMAIN files' : files'[j] = files'[l] => j = l
      BY <3>1
    <3> QED  BY <3>1, <3>3, <3>4 DEF Counted
  <2>3. CASE Fail("read")
    BY <2>1, <2>3 DEF Fail, Counted, Settled, Reading
  <2> QED  BY <1>3, <2>2, <2>3 DEF ReadMain
<1>4. CASE LexMain \/ ParseMain
  BY <1>4 DEF LexMain, ParseMain, Counted, Control, Early, Settled, Reading, Goto, Fail
<1>5. CASE GivePaths \/ SemaMain \/ StartExec \/ ExecMain
  BY <1>5 DEF GivePaths, SemaMain, StartExec, ExecMain, Counted, Control, Early, Settled, Reading, Goto, Fail
<1>6. CASE Reached \/ Report
  BY <1>6 DEF Reached, Report, Exit, Counted, Settled, Reading
<1>7. CASE Create
  BY <1>7 DEF Create, Counted, Settled, Reading
<1>8. CASE PushGrow \/ (at = "push" /\ BatchStep /\ UNCHANGED moduleVars)
  BY <1>8 DEF PushGrow, moduleVars, Counted, Settled, Reading
<1>9. CASE Push
  BY <1>9 DEF Push, Counted, Settled, Reading, Capacity
<1>10. CASE NextImport \/ LexImport \/ ParseImport \/ Resolved
  BY <1>10 DEF NextImport, LexImport, ParseImport, Resolved, Counted, Settled, Reading, Goto, Fail
<1>11. CASE ReadImport
  <2>1. CASE Fail("import")
    BY <1>11, <2>1 DEF ReadImport, Counted, Settled, Reading, Fail
  <2>2. CASE at' = "lex import" /\ files' = Append(files, FileOf(next)) /\ nmods' = nmods
    <3>1. at = "open"
      BY <1>11 DEF ReadImport
    <3>2. FileOf(next) \in Files
      BY <3>1, FoundFile DEF Resolving
    <3>5. files \in Seq(Files)
      BY DEF Counted
    <3>6. files' = Append(files, FileOf(next))
      BY <2>2
    <3>3. files' \in Seq(Files) /\ Len(files') = Len(files) + 1
      BY <3>2, <3>5, <3>6
    <3>4. at \in Settled \ Reading
      BY <3>1 DEF Settled, Reading
    <3>7. Len(files) = nmods /\ nmods > 0
      BY <3>4 DEF Counted
    <3>8. at' = "lex import" /\ nmods' = nmods
      BY <2>2
    <3>9. Len(files') = nmods' + 1 /\ nmods' > 0 /\ nmods' \in Nat
      BY <3>3, <3>7, <3>8 DEF Capacity
    <3>10. at' \in Settled \intersect Reading
      BY <3>8 DEF Settled, Reading
    <3>11. nmods' <= Len(files')
      BY <3>3, <3>9
    <3>12. at' \notin {"start", "read", "lex", "parse", "create", "failed"}
      BY <3>8
    <3> QED  BY <3>3, <3>8, <3>9, <3>10, <3>11, <3>12 DEF Counted
  <2> QED  BY <1>11, <2>1, <2>2 DEF ReadImport
<1> QED
  BY <1>1, <1>2, <1>3, <1>4, <1>5, <1>6, <1>7, <1>8, <1>9, <1>10, <1>11 DEF Next, Step, ModuleStep

-----------------------------------------------------------------------------
(* The rows of the table. *)

\* An element is within its array, and what is before it is.
LEMMA RowFits ==
  ASSUME NEW n \in Nat, NEW size \in Nat, NEW j \in 1..n, NEW w \in 0..(size - 1)
  PROVE  (j - 1) * size + w \in 0..(n * size - 1)
<1>1. (j - 1) * size + size = j * size /\ (j - 1) * size \in Nat /\ j * size \in Nat
  OBVIOUS
<1>2. j * size <= n * size /\ n * size \in Nat
  BY TimesGrows
<1> DEFINE a == (j - 1) * size
           b == j * size
           c == n * size
<1>3. a + size = b /\ a \in Nat /\ b \in Nat /\ b <= c /\ c \in Nat
  BY <1>1, <1>2
<1> HIDE DEF a, b, c
<1>4. a + w \in 0..(c - 1)
  BY <1>3
<1> QED  BY <1>4 DEF a, c

\* Rows of one array do not meet.
LEMMA RowsDiffer ==
  ASSUME NEW size \in Nat, NEW j \in Nat \ {0}, NEW m \in Nat \ {0}, j < m,
         NEW w \in 0..(size - 1), NEW v \in 0..(size - 1)
  PROVE  (j - 1) * size + w < (m - 1) * size + v
<1>1. (j - 1) * size + size = j * size /\ (j - 1) * size \in Nat /\ (m - 1) * size \in Nat
  OBVIOUS
<1>2. j * size <= (m - 1) * size
  BY TimesGrows
<1> DEFINE a == (j - 1) * size
           b == (m - 1) * size
<1>3. a + size <= b /\ a \in Nat /\ b \in Nat
  BY <1>1, <1>2
<1> HIDE DEF a, b
<1>4. a + w < b + v
  BY <1>3
<1> QED  BY <1>4 DEF a, b

\* A word of the table is in the block, and is that of one element.
LEMMA Cells ==
  ASSUME NEW n \in Nat, NEW size, Block(n, size), NEW k \in Arrays, NEW j \in 1..n,
         NEW w \in 0..(Sizes[k] - 1)
  PROVE  /\ Begin(k, j) + w \in DOMAIN mem
         /\ \A l \in Arrays : \A m \in 1..n : \A v \in 0..(Sizes[l] - 1) :
              Begin(k, j) + w = Begin(l, m) + v => k = l /\ j = m /\ w = v
<1>1. /\ Layout(n, ptr, size) /\ Len(ptr) = Len(Sizes) /\ DOMAIN mem = 0..(size - 1)
      /\ Arrays = 1..Len(Sizes) /\ Len(Sizes) \in Nat
  BY SizeFacts DEF Block
<1>2. /\ size \in Nat
      /\ \A l \in Arrays :
           /\ ptr[l] \in Nat /\ Sizes[l] \in Nat /\ n * Sizes[l] \in Nat
           /\ ptr[l] + n * Sizes[l] <= size
      /\ \A l, m \in Arrays : l < m => ptr[l] + n * Sizes[l] <= ptr[m]
  BY <1>1, LayoutFacts, SizeFacts
<1> DEFINE extent(l) == n * Sizes[l]
           offset(l, m, v) == (m - 1) * Sizes[l] + v
<1>3. \A l \in Arrays : \A m \in 1..n : \A v \in 0..(Sizes[l] - 1) :
        offset(l, m, v) \in 0..(extent(l) - 1) /\ Begin(l, m) + v = ptr[l] + offset(l, m, v)
  <2> SUFFICES ASSUME NEW l \in Arrays, NEW m \in 1..n, NEW v \in 0..(Sizes[l] - 1)
               PROVE  /\ offset(l, m, v) \in 0..(extent(l) - 1)
                      /\ Begin(l, m) + v = ptr[l] + offset(l, m, v)
    OBVIOUS
  <2>1. Sizes[l] \in Nat /\ ptr[l] \in Nat
    BY <1>2
  <2>2. offset(l, m, v) \in 0..(extent(l) - 1)
    BY <2>1, RowFits
  <2>3. (m - 1) * Sizes[l] \in Nat
    BY <2>1
  <2>4. Begin(l, m) + v = ptr[l] + offset(l, m, v)
    <3> DEFINE b == (m - 1) * Sizes[l]
    <3>1. b \in Nat
      BY <2>3
    <3>2. Begin(l, m) = ptr[l] + b /\ offset(l, m, v) = b + v
      BY DEF Begin
    <3> HIDE DEF b, offset
    <3> QED  BY <2>1, <3>1, <3>2
  <2> QED  BY <2>2, <2>4
<1>4. \A l \in Arrays : extent(l) \in Nat /\ ptr[l] \in Nat /\ ptr[l] + extent(l) <= size
  BY <1>2
<1>5. \A l, m \in Arrays : l < m => ptr[l] + extent(l) <= ptr[m]
  BY <1>2
<1> HIDE DEF extent, offset
<1>6. Begin(k, j) + w \in 0..(size - 1)
  BY <1>2, <1>3, <1>4
<1>7. ASSUME NEW l \in Arrays, NEW m \in 1..n, NEW v \in 0..(Sizes[l] - 1),
             Begin(k, j) + w = Begin(l, m) + v
      PROVE  k = l /\ j = m /\ w = v
  <2>1. ptr[k] + offset(k, j, w) = ptr[l] + offset(l, m, v)
    BY <1>3, <1>7
  <2>2. /\ offset(k, j, w) \in 0..(extent(k) - 1) /\ offset(l, m, v) \in 0..(extent(l) - 1)
        /\ k \in Nat /\ l \in Nat
    BY <1>1, <1>3
  <2>3. k = l
    BY <1>4, <1>5, <2>1, <2>2
  <2>4. offset(k, j, w) = offset(k, m, v)
    BY <1>4, <2>1, <2>2, <2>3
  <2>5. j = m
    <3>1. /\ Sizes[k] \in Nat /\ w \in 0..(Sizes[k] - 1) /\ v \in 0..(Sizes[k] - 1)
          /\ j \in Nat \ {0} /\ m \in Nat \ {0}
      BY <1>2, <2>3
    <3>2. /\ j < m => offset(k, j, w) < offset(k, m, v)
          /\ m < j => offset(k, m, v) < offset(k, j, w)
      BY <3>1, RowsDiffer DEF offset
    <3>3. offset(k, j, w) \in Nat /\ offset(k, m, v) \in Nat
      BY <2>2, <2>3
    <3> QED  BY <2>4, <3>1, <3>2, <3>3
  <2>6. w = v
    <3> DEFINE b == (j - 1) * Sizes[k]
    <3>1. b \in Nat
      BY <1>2
    <3>2. b + w = b + v
      BY <2>4, <2>5 DEF offset
    <3>3. w \in Nat /\ v \in Nat
      BY <1>2
    <3> HIDE DEF b
    <3> QED  BY <3>1, <3>2, <3>3
  <2> QED  BY <2>3, <2>5, <2>6
<1> QED  BY <1>1, <1>6, <1>7

\* An element is that of its file, whatever is read later.
LEMMA ElementKept ==
  ASSUME NEW k, NEW j, files'[j] = files[j]
  PROVE  Element(k, j)' = Element(k, j)
BY DEF Element, Id, Name, Data, Lex, Ast

\* Rows that are not moved.
LEMMA RowsStay ==
  ASSUME RowsKept, UNCHANGED <<phase, mem, ptr, was, nmods>>,
         \A j \in Rows : files'[j] = files[j]
  PROVE  RowsKept'
<1>1. Rows' = Rows /\ \A k \in Arrays : \A j \in Rows : Element(k, j)' = Element(k, j)
  BY ElementKept DEF Rows
<1>2. RowsIn(mem, ptr) => RowsIn(mem, ptr)'
  BY <1>1 DEF RowsIn
<1>3. RowsIn(was.mem, was.ptr) => RowsIn(was.mem, was.ptr)'
  BY <1>1 DEF RowsIn
<1> QED  BY <1>2, <1>3 DEF RowsKept

\* When the block has been extended, the rows are at the arrays' new places.
LEMMA RowsMoved ==
  ASSUME BatchInv, Capacity, RowsKept, phase = "done"
  PROVE  RowsIn(mem, ptr)
<1>1. /\ RowsIn(was.mem, was.ptr) /\ nmods = oldn /\ oldn \in Nat
      /\ \A k \in Arrays : Holds(ptr, k) /\ Sizes[k] \in Nat
  BY SizeFacts DEF RowsKept, Capacity, BatchInv, InDone
<1> SUFFICES ASSUME NEW k \in Arrays, NEW j \in Rows, NEW w \in 0..(Sizes[k] - 1)
             PROVE  mem[ptr[k] + ((j - 1) * Sizes[k] + w)] = [of |-> Element(k, j), word |-> w]
  BY DEF RowsIn
<1> DEFINE v == (j - 1) * Sizes[k] + w
<1>2. v \in 0..(oldn * Sizes[k] - 1)
  BY <1>1, RowFits DEF Rows
<1>3. mem[ptr[k] + v] = was.mem[was.ptr[k] + v]
  BY <1>1, <1>2 DEF Holds
<1> QED  BY <1>1, <1>3 DEF RowsIn

LEMMA RowsPushed ==
  ASSUME BatchInv, Capacity, Counted, RowsKept, Push, at = "push"
  PROVE  RowsKept'
<1>1. /\ phase \in {"idle", "done"} /\ phase' = "idle" /\ mem' = Stored(nmods + 1)
      /\ ptr' = ptr /\ files' = files /\ nmods' = nmods + 1
  BY DEF Push
<1>2. /\ Block(newn, newsize) /\ newn \in Nat /\ nmods \in Nat /\ nmods + 1 <= newn
      /\ Len(files) = nmods + 1
  <2>1. newn \in Nat /\ oldn \in Nat /\ nmods <= newn /\ newn > 0 /\ modcap = newn
    BY <1>1 DEF BatchInv, Capacity
  <2>2. phase = "done" \/ nmods < modcap
    BY <2>1 DEF Push, Full, Capacity
  <2>3. nmods + 1 <= newn
    BY <2>1, <2>2 DEF Capacity
  <2> QED  BY <1>1, <2>1, <2>3 DEF BatchInv, InIdle, Counted, Capacity
<1>3. RowsIn(mem, ptr)
  BY <1>1, RowsMoved DEF RowsKept
<1>4. Rows' = 1..(nmods + 1) /\ \A j \in Rows' : j \in 1..newn /\ (j \in Rows \/ j = nmods + 1)
  BY <1>1, <1>2 DEF Rows
<1> SUFFICES ASSUME NEW k \in Arrays, NEW j \in Rows', NEW w \in 0..(Sizes[k] - 1)
             PROVE  mem'[ptr[k] + ((j - 1) * Sizes[k] + w)] = [of |-> Element(k, j)', word |-> w]
  BY <1>1 DEF RowsKept, RowsIn
<1> DEFINE a == Begin(k, j) + w
           last == nmods + 1
<1>5. /\ a \in DOMAIN mem
      /\ \A l \in Arrays : \A v \in 0..(Sizes[l] - 1) :
           a = Begin(l, last) + v => l = k /\ j = last /\ v = w
  <2>1. last \in 1..newn /\ j \in 1..newn
    BY <1>2, <1>4
  <2> QED  BY <1>2, <2>1, Cells
<1>6. \A l \in Arrays : Begin(l, last) \in Nat /\ Sizes[l] \in Nat
  <2> SUFFICES ASSUME NEW l \in Arrays PROVE Begin(l, last) \in Nat /\ Sizes[l] \in Nat
    OBVIOUS
  <2>1. ptr[l] \in Nat /\ Sizes[l] \in Nat
    BY <1>2, LayoutFacts, SizeFacts DEF Block
  <2>2. (last - 1) * Sizes[l] \in Nat
    BY <1>2, <2>1
  <2> QED  BY <2>1, <2>2 DEF Begin
<1>7. \A l \in Arrays : a \in Extent(l, last) => l = k /\ j = last
  <2> SUFFICES ASSUME NEW l \in Arrays, a \in Extent(l, last) PROVE l = k /\ j = last
    OBVIOUS
  <2>1. a \in Begin(l, last)..(Begin(l, last) + Sizes[l] - 1)
    BY DEF Extent
  <2> DEFINE v == a - Begin(l, last)
  <2>2. v \in 0..(Sizes[l] - 1) /\ a = Begin(l, last) + v
    BY <1>6, <2>1
  <2> QED  BY <1>5, <2>2
<1>8. mem'[a] = IF \E l \in Arrays : a \in Extent(l, last)
                THEN LET l == CHOOSE m \in Arrays : a \in Extent(m, last)
                     IN  [of |-> Element(l, Len(files)), word |-> a - Begin(l, last)]
                ELSE mem[a]
  BY <1>1, <1>5 DEF Stored
<1>9. Element(k, j)' = Element(k, j)
  BY <1>1, ElementKept
<1>10. a = ptr[k] + ((j - 1) * Sizes[k] + w)
  <2>1. ptr[k] \in Nat /\ Sizes[k] \in Nat /\ j \in Nat \ {0}
    BY <1>2, <1>4, LayoutFacts, SizeFacts DEF Block
  <2>2. (j - 1) * Sizes[k] \in Nat
    BY <2>1
  <2> QED  BY <2>1, <2>2 DEF Begin
<1> HIDE DEF a
<1>11. CASE j = last
  <2>1. a \in Extent(k, last) /\ a - Begin(k, last) = w
    BY <1>5, <1>6, <1>11 DEF Extent, a
  <2>2. (CHOOSE m \in Arrays : a \in Extent(m, last)) = k
    BY <1>7, <2>1
  <2>3. mem'[a] = [of |-> Element(k, j), word |-> w]
    BY <1>2, <1>8, <1>11, <2>1, <2>2
  <2> QED  BY <1>9, <1>10, <2>3
<1>12. CASE j # last
  <2>1. mem'[a] = mem[a] /\ j \in Rows
    BY <1>4, <1>7, <1>8, <1>12
  <2>2. mem[a] = [of |-> Element(k, j), word |-> w]
    BY <1>3, <1>10, <2>1 DEF RowsIn
  <2> QED  BY <1>9, <1>10, <2>1, <2>2
<1> QED  BY <1>11, <1>12

LEMMA RowsKeep ==
  BatchInv /\ Control /\ Capacity /\ Counted /\ RowsKept /\ [Next]_vars => RowsKept'
<1> SUFFICES ASSUME BatchInv, Control, Capacity, Counted, RowsKept, [Next]_vars PROVE RowsKept'
  OBVIOUS
<1>1. \A j \in Rows : j \in 1..Len(files)
  BY DEF Rows, Capacity, Counted
<1>2. ASSUME UNCHANGED <<phase, mem, ptr, was, nmods, files>> PROVE RowsKept'
  BY <1>2, RowsStay
<1>3. CASE UNCHANGED vars \/ Stopped
  BY <1>2, <1>3 DEF vars, moduleVars, batchVars, Stopped
<1>4. CASE Arguments \/ Button
  BY <1>2, <1>4 DEF Arguments, Button, batchVars
<1>5. CASE ReadMain
  <2>1. nmods = 0 /\ UNCHANGED <<phase, mem, ptr, was, nmods>>
    BY <1>5 DEF ReadMain, Control, Early, Capacity, Fail, Here, batchVars
  <2> QED  BY <2>1, RowsStay DEF Rows
<1>6. CASE LexMain \/ ParseMain \/ GivePaths \/ SemaMain \/ StartExec \/ ExecMain
  BY <1>2, <1>6 DEF LexMain, ParseMain, GivePaths, SemaMain, StartExec, ExecMain, Here, batchVars,
                    Goto, Fail
<1>7. CASE Reached \/ Report
  BY <1>2, <1>7 DEF Reached, Report, Exit, Here, batchVars
<1>8. CASE NextImport \/ LexImport \/ ParseImport \/ Resolved
  BY <1>2, <1>8 DEF NextImport, LexImport, ParseImport, Resolved, batchVars, Goto, Fail
<1>9. CASE ReadImport
  <2>1. UNCHANGED <<phase, mem, ptr, was, nmods>>
    BY <1>9 DEF ReadImport, Fail, batchVars
  <2>2. files' = files \/ files' = Append(files, FileOf(next))
    BY <1>9 DEF ReadImport, Fail
  <2>3. \A j \in Rows : files'[j] = files[j]
    BY <1>1, <2>2 DEF Counted
  <2> QED  BY <2>1, <2>3, RowsStay
<1>10. CASE Create
  BY <1>10 DEF Create, Alloc, RowsKept
<1>11. CASE PushGrow
  <2>1. /\ phase = "idle" /\ phase' = "size" /\ was' = [mem |-> mem, ptr |-> ptr]
        /\ nmods' = nmods /\ files' = files
    BY <1>11 DEF PushGrow, Grow
  <2>2. RowsIn(mem, ptr)
    BY <2>1 DEF RowsKept
  <2>3. Rows' = Rows /\ \A k, j : Element(k, j)' = Element(k, j)
    BY <2>1, ElementKept DEF Rows
  <2>4. was'.mem = mem /\ was'.ptr = ptr
    BY <2>1
  <2>5. RowsIn(was.mem, was.ptr)'
    BY <2>2, <2>3, <2>4 DEF RowsIn
  <2> QED  BY <2>1, <2>5 DEF RowsKept
<1>12. CASE Push
  <2>1. at = "push"
    BY <1>12 DEF Push
  <2> QED  BY <1>12, <2>1, RowsPushed
<1>13. CASE at = "push" /\ BatchStep /\ UNCHANGED moduleVars
  <2>1. nmods' = nmods /\ files' = files
    BY <1>13 DEF moduleVars
  <2>2. \/ phase' = phase /\ phase = "alloc"
        \/ phase = "alloc" /\ phase' = "idle"
        \/ phase \in {"size", "move"} /\ phase' \in {"size", "move", "done"} /\ was' = was
    BY <1>13 DEF BatchStep, Place, Allocated, Measure, Extend, Move, Grown
  <2>3. CASE phase' = "alloc"
    BY <2>3 DEF RowsKept
  <2>4. CASE phase = "alloc" /\ phase' = "idle"
    <3>1. Rows' = {}
      BY <2>1, <2>4 DEF Capacity, Rows
    <3> QED  BY <2>4, <3>1 DEF RowsKept, RowsIn
  <2>5. CASE phase \in {"size", "move"} /\ phase' \in {"size", "move", "done"} /\ was' = was
    <3>1. RowsIn(was.mem, was.ptr)
      BY <2>5 DEF RowsKept
    <3>2. Rows' = Rows /\ \A k, j : Element(k, j)' = Element(k, j)
      BY <2>1, ElementKept DEF Rows
    <3>3. RowsIn(was.mem, was.ptr)'
      BY <2>5, <3>1, <3>2 DEF RowsIn
    <3> QED  BY <2>5, <3>3 DEF RowsKept
  <2> QED  BY <2>2, <2>3, <2>4, <2>5
<1> QED
  BY <1>3, <1>4, <1>5, <1>6, <1>7, <1>8, <1>9, <1>10, <1>11, <1>12, <1>13 DEF Next, Step, ModuleStep

-----------------------------------------------------------------------------
(* What is read from the table. *)

LEMMA TheFields ==
  /\ Arrays = 1..6
  /\ Field("names") = 1 /\ Field("ids") = 2 /\ Field("data") = 3
  /\ Field("lens") = 4 /\ Field("lexes") = 5 /\ Field("asts") = 6
  /\ \A j : /\ Element(1, j) = Name(j) /\ Element(2, j) = Id(files[j])
            /\ Element(3, j) = Data(j) /\ Element(4, j) = <<"len", j>>
            /\ Element(5, j) = Lex(j) /\ Element(6, j) = Ast(j)
<1>1. Arrays = 1..6
  BY SizeFacts, TableAssumption
<1>2. /\ Fields[1] = "names" /\ Fields[2] = "ids" /\ Fields[3] = "data"
      /\ Fields[4] = "lens" /\ Fields[5] = "lexes" /\ Fields[6] = "asts"
  BY DEF Fields
<1>3. ASSUME NEW k \in Arrays
      PROVE  /\ Fields[k] = "names" <=> k = 1
             /\ Fields[k] = "ids" <=> k = 2
             /\ Fields[k] = "data" <=> k = 3
             /\ Fields[k] = "lens" <=> k = 4
             /\ Fields[k] = "lexes" <=> k = 5
             /\ Fields[k] = "asts" <=> k = 6
  BY <1>1, <1>2
<1>4. ASSUME NEW k \in Arrays, NEW f, \A l \in Arrays : Fields[l] = f <=> l = k
      PROVE  Field(f) = k
  BY <1>4 DEF Field
<1>5. /\ Field("names") = 1 /\ Field("ids") = 2 /\ Field("data") = 3
      /\ Field("lens") = 4 /\ Field("lexes") = 5 /\ Field("asts") = 6
  BY <1>1, <1>3, <1>4
<1> QED  BY <1>1, <1>2, <1>5 DEF Element

\* A row holds what was pushed.
LEMMA ReadTrue ==
  ASSUME BatchInv, Capacity, RowsKept, phase = "idle", NEW j \in Rows
  PROVE  /\ Read("names", j) = Name(j) /\ Read("ids", j) = Id(files[j])
         /\ Read("data", j) = Data(j) /\ Read("lens", j) = <<"len", j>>
         /\ Read("lexes", j) = Lex(j) /\ Read("asts", j) = Ast(j)
<1>1. /\ RowsIn(mem, ptr) /\ Block(newn, newsize) /\ newn \in Nat /\ nmods \in Nat /\ nmods <= newn
  BY DEF BatchInv, InIdle, RowsKept, Capacity
<1>2. ASSUME NEW f, Field(f) \in Arrays
      PROVE  Read(f, j) = Element(Field(f), j)
  <2> DEFINE k == Field(f)
  <2>1. k \in Arrays /\ Sizes[k] \in Nat \ {0} /\ ptr[k] \in Nat /\ j \in Nat \ {0}
    <3>1. \A l \in Arrays : Sizes[l] \in Nat \ {0}
      BY SizesAssumption, SizeFacts
    <3>2. \A l \in Arrays : ptr[l] \in Nat
      BY <1>1, LayoutFacts, SizeFacts DEF Block
    <3> QED  BY <1>2, <3>1, <3>2 DEF Rows
  <2> HIDE DEF k
  <2> DEFINE begin == Begin(k, j)
  <2>2. begin \in Nat /\ \A w \in Nat : begin + w = ptr[k] + ((j - 1) * Sizes[k] + w)
    <3>1. (j - 1) * Sizes[k] \in Nat
      BY <2>1
    <3> QED  BY <2>1, <3>1 DEF Begin
  <2> HIDE DEF begin
  <2>3. \A w \in 0..(Sizes[k] - 1) : mem[begin + w] = [of |-> Element(k, j), word |-> w]
    BY <1>1, <2>1, <2>2 DEF RowsIn
  <2>4. mem[begin].of = Element(k, j)
    <3>1. 0 \in 0..(Sizes[k] - 1) /\ begin + 0 = begin
      BY <2>1, <2>2
    <3>2. mem[begin] = [of |-> Element(k, j), word |-> 0]
      BY <2>3, <3>1
    <3> QED  BY <3>2
  <2>5. \A a \in begin..(begin + Sizes[k] - 1) :
          mem[a] = [of |-> mem[begin].of, word |-> a - begin]
    <3> SUFFICES ASSUME NEW a \in begin..(begin + Sizes[k] - 1)
                 PROVE  mem[a] = [of |-> mem[begin].of, word |-> a - begin]
      OBVIOUS
    <3> DEFINE w == a - begin
    <3>1. w \in 0..(Sizes[k] - 1) /\ begin + w = a
      BY <2>1, <2>2
    <3> HIDE DEF w
    <3>2. mem[a] = [of |-> Element(k, j), word |-> w]
      BY <2>3, <3>1
    <3> QED  BY <2>4, <3>2 DEF w
  <2> QED  BY <2>4, <2>5 DEF Read, Extent, begin, k
<1> QED  BY <1>2, TheFields

LEMMA OwnedBlocks ==
  ASSUME BatchInv, Capacity, RowsKept, phase = "idle"
  PROVE  Owned = Of(nmods)
<1>1. Owned = {Read("names", j) : j \in Rows} \union {Read("data", j) : j \in Rows}
                \union {Read("lexes", j) : j \in Rows} \union {Read("asts", j) : j \in Rows}
  BY DEF Owned
<1>2. /\ {Read("names", j) : j \in Rows} = {Name(j) : j \in Rows}
      /\ {Read("data", j) : j \in Rows} = {Data(j) : j \in Rows}
      /\ {Read("lexes", j) : j \in Rows} = {Lex(j) : j \in Rows}
      /\ {Read("asts", j) : j \in Rows} = {Ast(j) : j \in Rows}
  BY ReadTrue
<1> QED  BY <1>1, <1>2 DEF Of, Rows

LEMMA DisjointUnion ==
  ASSUME NEW S, NEW T, IsFiniteSet(S), IsFiniteSet(T), S \intersect T = {}
  PROVE  IsFiniteSet(S \union T) /\ Cardinality(S \union T) = Cardinality(S) + Cardinality(T)
<1>1. Cardinality(S) \in Nat /\ Cardinality(T) \in Nat
  BY FS_CardinalityType
<1>2. Cardinality(S \intersect T) = 0
  BY FS_EmptySet
<1>3. /\ IsFiniteSet(S \union T)
      /\ Cardinality(S \union T) = Cardinality(S) + Cardinality(T) - Cardinality(S \intersect T)
  BY FS_Union
<1> QED  BY <1>1, <1>2, <1>3

\* No two modules share a block.
LEMMA FourEach ==
  ASSUME NEW n \in Nat
  PROVE  Cardinality(Of(n)) = 4 * n
<1> DEFINE names == {Name(j) : j \in 1..n}
           datas == {Data(j) : j \in 1..n}
           lexes == {Lex(j) : j \in 1..n}
           asts == {Ast(j) : j \in 1..n}
<1>1. IsFiniteSet(1..n) /\ Cardinality(1..n) = n
  BY FS_Interval
<1>2. /\ [j \in 1..n |-> Name(j)] \in Bijection(1..n, names)
      /\ [j \in 1..n |-> Data(j)] \in Bijection(1..n, datas)
      /\ [j \in 1..n |-> Lex(j)] \in Bijection(1..n, lexes)
      /\ [j \in 1..n |-> Ast(j)] \in Bijection(1..n, asts)
  BY DEF Bijection, Injection, Surjection, IsInjective, Name, Data, Lex, Ast
<1>3. /\ IsFiniteSet(names) /\ Cardinality(names) = n
      /\ IsFiniteSet(datas) /\ Cardinality(datas) = n
      /\ IsFiniteSet(lexes) /\ Cardinality(lexes) = n
      /\ IsFiniteSet(asts) /\ Cardinality(asts) = n
  <2>1. ExistsBijection(1..n, names) /\ ExistsBijection(1..n, datas)
        /\ ExistsBijection(1..n, lexes) /\ ExistsBijection(1..n, asts)
    BY <1>2 DEF ExistsBijection
  <2> HIDE DEF names, datas, lexes, asts
  <2> QED  BY <1>1, <2>1, FS_Bijection
<1>4. /\ names \intersect datas = {} /\ (names \union datas) \intersect lexes = {}
      /\ (names \union datas \union lexes) \intersect asts = {}
  BY DEF Name, Data, Lex, Ast
<1>5. Of(n) = names \union datas \union lexes \union asts
  BY DEF Of
<1> HIDE DEF names, datas, lexes, asts
<1>6. /\ IsFiniteSet(names \union datas) /\ Cardinality(names \union datas) = n + n
  BY <1>3, <1>4, DisjointUnion
<1>7. /\ IsFiniteSet(names \union datas \union lexes)
      /\ Cardinality(names \union datas \union lexes) = n + n + n
  <2> DEFINE two == names \union datas
  <2>1. IsFiniteSet(two) /\ Cardinality(two) = n + n /\ two \intersect lexes = {}
    BY <1>4, <1>6
  <2> HIDE DEF two
  <2>2. IsFiniteSet(two \union lexes) /\ Cardinality(two \union lexes) = n + n + n
    BY <1>3, <2>1, DisjointUnion
  <2> QED  BY <2>2 DEF two
<1>8. Cardinality(names \union datas \union lexes \union asts) = n + n + n + n
  <2> DEFINE three == names \union datas \union lexes
  <2>1. IsFiniteSet(three) /\ Cardinality(three) = n + n + n /\ three \intersect asts = {}
    BY <1>4, <1>7
  <2> HIDE DEF three
  <2>2. Cardinality(three \union asts) = Cardinality(three) + Cardinality(asts)
    BY <1>3, <2>1, DisjointUnion
  <2> QED  BY <1>3, <2>1, <2>2 DEF three
<1> QED  BY <1>5, <1>8

-----------------------------------------------------------------------------
(* Blocks. *)

\* The blocks of one more module.
LEMMA OfNext ==
  /\ Of(0) = {}
  /\ \A n \in Nat : Of(n + 1) = Of(n) \union {Name(n + 1), Data(n + 1), Lex(n + 1), Ast(n + 1)}
<1>1. Of(0) = {}
  BY DEF Of
<1>2. ASSUME NEW n \in Nat
      PROVE  Of(n + 1) = Of(n) \union {Name(n + 1), Data(n + 1), Lex(n + 1), Ast(n + 1)}
  <2>1. 1..(n + 1) = (1..n) \union {n + 1}
    OBVIOUS
  <2> QED  BY <2>1 DEF Of
<1> QED  BY <1>1, <1>2

\* The blocks that are not of a module, and those of the next one.
LEMMA Others ==
  /\ Given \subseteq {Copies} /\ Heaped \subseteq {OnHeap} /\ Open \subseteq {File}
  /\ \A n : {File, Copies, System, OnHeap, Table, Error} \intersect Of(n) = {}
  /\ \A n \in Nat :
       {Name(n + 1), Data(n + 1), Lex(n + 1), Ast(n + 1)} \intersect Of(n) = {}
<1>1. Given \subseteq {Copies} /\ Heaped \subseteq {OnHeap} /\ Open \subseteq {File}
  BY DEF Given, Heaped, Open
<1>2. \A n : {File, Copies, System, OnHeap, Table, Error} \intersect Of(n) = {}
  BY DEF Of, File, Copies, System, OnHeap, Table, Error, Name, Data, Lex, Ast
<1>3. \A n \in Nat : {Name(n + 1), Data(n + 1), Lex(n + 1), Ast(n + 1)} \intersect Of(n) = {}
  BY DEF Of, Name, Data, Lex, Ast
<1> QED  BY <1>1, <1>2, <1>3

\* They are different blocks.
LEMMA Apart ==
  /\ File \notin {Copies, System, OnHeap, Table, Error}
  /\ Copies \notin {System, OnHeap, Table, Error} /\ System \notin {OnHeap, Table, Error}
  /\ OnHeap \notin {Table, Error} /\ Table # Error
  /\ \A n : {Name(n), Data(n), Lex(n), Ast(n)} \intersect {File, Copies, System, OnHeap, Table, Error} = {}
BY DEF File, Copies, System, OnHeap, Table, Error, Name, Data, Lex, Ast

LEMMA Destroyed ==
  ASSUME BatchInv, Capacity, RowsKept, phase = "idle", fault = FALSE,
         NEW others, DestroyModule({}, others), others \subseteq live,
         Of(nmods) \subseteq live, Table \in live, others \intersect Of(nmods) = {}
  PROVE  fault' = FALSE /\ live' = live \ (Of(nmods) \union others \union {Table})
<1>1. Owned = Of(nmods) /\ Cardinality(Owned) = 4 * nmods /\ nmods \in Nat
  BY OwnedBlocks, FourEach DEF Capacity
<1>2. /\ fault' = (fault \/ ~({} \union (Owned \union others \union {Table}) \subseteq live)
                     \/ Cardinality(Owned) < 4 * nmods \/ Owned \intersect others # {})
      /\ live' = live \ (Owned \union others \union {Table})
  BY DEF DestroyModule
<1>3. ~(Cardinality(Owned) < 4 * nmods)
  BY <1>1
<1>4. {} \union (Owned \union others \union {Table}) \subseteq live /\ Owned \intersect others = {}
  BY <1>1
<1> QED  BY <1>1, <1>2, <1>3, <1>4

LEMMA LiveStays ==
  ASSUME Live, UNCHANGED <<at, failed, live, fault, nmods, host>>
  PROVE  Live'
<1>1. /\ Open' = Open /\ Given' = Given /\ Heaped' = Heaped /\ Modules' = Modules
      /\ BeforeTable' = BeforeTable /\ AfterTable' = AfterTable /\ Message' = Message
      /\ \A n : Of(n)' = Of(n)
  BY DEF Open, Given, Heaped, Modules, BeforeTable, AfterTable, Message, Of
<1>2. LiveEarly'
  BY <1>1 DEF Live, LiveEarly
<1>3. LiveTable'
  BY <1>1 DEF Live, LiveTable
<1>4. LiveLast'
  BY <1>1 DEF Live, LiveLast
<1> QED  BY <1>2, <1>3, <1>4 DEF Live

\* What does not change when the host does not.
LEMMA HostKept ==
  ASSUME host' = host
  PROVE  /\ Open' = Open /\ Given' = Given /\ Heaped' = Heaped /\ BeforeTable' = BeforeTable
         /\ AfterTable' = AfterTable /\ Modules' = Open \union {Table} \union Of(nmods')
BY DEF Open, Given, Heaped, BeforeTable, AfterTable, Modules, Of

LEMMA LiveMain ==
  ASSUME Control, Live, Arguments \/ Button \/ ReadMain \/ LexMain \/ ParseMain
  PROVE  Live'
<1> USE Stages
<1>1. fault = FALSE /\ host' = host /\ host \in {"csatsu", "gsatsu"}
  BY DEF Live, Arguments, Button, ReadMain, LexMain, ParseMain, Here, Control
<1>2. CASE Arguments
  <2>1. live = {}
    BY <1>2 DEF Arguments, Live, LiveEarly
  <2>2. \/ at' = "exit" /\ live' = live
        \/ at' = "read" /\ live' = live \union {File}
    BY <1>2 DEF Arguments
  <2>3. fault' = FALSE
    BY <1>1, <1>2 DEF Arguments
  <2>4. \/ at' = "exit" /\ live' = {}
        \/ at' = "read" /\ live' = {File}
    BY <2>1, <2>2
  <2> QED  BY <2>3, <2>4 DEF Live, LiveEarly, LiveTable, LiveLast
<1>3. CASE Button
  <2>1. live = {}
    BY <1>3 DEF Button, Live, LiveEarly
  <2>2. \/ at' = "exit" /\ live' = live
        \/ at' = "read" /\ live' = live \union {File}
    BY <1>3 DEF Button
  <2>3. fault' = FALSE
    BY <1>1, <1>3 DEF Button
  <2>4. \/ at' = "exit" /\ live' = {}
        \/ at' = "read" /\ live' = {File}
    BY <2>1, <2>2
  <2> QED  BY <2>3, <2>4 DEF Live, LiveEarly, LiveTable, LiveLast
<1>4. CASE ReadMain
  <2>1. live = {File} /\ {File} \ Closed = Open /\ Closed \subseteq live
    BY <1>1, <1>4 DEF ReadMain, Live, LiveEarly, Closed, Open
  <2>2. CASE at' = "lex" /\ Touch({File}, Closed, {Data(1)})
    <3>1. fault' = FALSE /\ live' = Open \union {Data(1)}
      BY <1>1, <2>1, <2>2 DEF Touch
    <3> QED  BY <1>1, <2>2, <3>1, HostKept DEF Live, LiveEarly, LiveTable, LiveLast
  <2>3. CASE Fail("read") /\ Touch({File}, Closed, {Error})
    <3>1. fault' = FALSE /\ live' = Open \union {Error}
      BY <1>1, <2>1, <2>3 DEF Touch
    <3>2. at' = "failed" /\ failed' = "read" /\ BeforeTable["read"] = {}
      BY <2>3 DEF Fail, BeforeTable
    <3> QED  BY <1>1, <3>1, <3>2, HostKept DEF Live, LiveEarly, LiveTable, LiveLast
  <2> QED  BY <1>4, <2>2, <2>3 DEF ReadMain
<1>5. CASE LexMain
  <2>1. live = Open \union {Data(1)}
    BY <1>5 DEF LexMain, Live, LiveEarly
  <2>2. CASE Goto("parse") /\ Touch({Data(1)}, {}, {Lex(1)})
    <3>3. fault' = FALSE /\ live' = live \union {Lex(1)}
      <4>1. {Data(1)} \subseteq live
        BY <2>1
      <4> QED  BY <1>1, <2>2, <4>1 DEF Touch
    <3>1. fault' = FALSE /\ live' = Open \union {Data(1), Lex(1)} /\ at' = "parse"
      BY <2>1, <2>2, <3>3 DEF Goto
    <3> QED  BY <1>1, <3>1, HostKept DEF Live, LiveEarly, LiveTable, LiveLast
  <2>3. CASE Fail("lex") /\ Touch({Data(1)}, {}, {Error})
    <3>3. fault' = FALSE /\ live' = live \union {Error}
      <4>1. {Data(1)} \subseteq live
        BY <2>1
      <4> QED  BY <1>1, <2>3, <4>1 DEF Touch
    <3>1. fault' = FALSE /\ live' = Open \union {Data(1)} \union {Error}
      BY <2>1, <2>3, <3>3
    <3>2. at' = "failed" /\ failed' = "lex" /\ BeforeTable["lex"] = {Data(1)}
      BY <2>3 DEF Fail, BeforeTable
    <3> QED  BY <1>1, <3>1, <3>2, HostKept DEF Live, LiveEarly, LiveTable, LiveLast
  <2> QED  BY <1>5, <2>2, <2>3 DEF LexMain
<1>6. CASE ParseMain
  <2>1. live = Open \union {Data(1), Lex(1)}
    BY <1>6 DEF ParseMain, Live, LiveEarly
  <2>2. CASE at' = "create" /\ Touch({Lex(1)}, {}, {Ast(1)})
    <3>3. fault' = FALSE /\ live' = live \union {Ast(1)}
      <4>1. {Lex(1)} \subseteq live
        BY <2>1
      <4> QED  BY <1>1, <2>2, <4>1 DEF Touch
    <3>1. fault' = FALSE /\ live' = Open \union {Data(1), Lex(1), Ast(1)} /\ at' = "create"
      BY <2>1, <2>2, <3>3
    <3> QED  BY <1>1, <3>1, HostKept DEF Live, LiveEarly, LiveTable, LiveLast
  <2>3. CASE Fail("parse") /\ Touch({Lex(1)}, {}, {Error})
    <3>3. fault' = FALSE /\ live' = live \union {Error}
      <4>1. {Lex(1)} \subseteq live
        BY <2>1
      <4> QED  BY <1>1, <2>3, <4>1 DEF Touch
    <3>1. fault' = FALSE /\ live' = Open \union {Data(1), Lex(1)} \union {Error}
      BY <2>1, <2>3, <3>3
    <3>2. at' = "failed" /\ failed' = "parse" /\ BeforeTable["parse"] = {Data(1), Lex(1)}
      BY <2>3 DEF Fail, BeforeTable
    <3> QED  BY <1>1, <3>1, <3>2, HostKept DEF Live, LiveEarly, LiveTable, LiveLast
  <2> QED  BY <1>6, <2>2, <2>3 DEF ParseMain
<1> QED  BY <1>2, <1>3, <1>4, <1>5, <1>6

LEMMA LiveModule ==
  ASSUME BatchInv, Control, Capacity, Counted, RowsKept, Live,
         Create \/ Push \/ GivePaths, host' = host
  PROVE  Live'
<1> USE Stages
<1>1. fault = FALSE /\ host \in {"csatsu", "gsatsu"} /\ nmods \in Nat
  BY DEF Live, Control, Capacity
<1>2. CASE Create
  <2>1. live = Open \union {Data(1), Lex(1), Ast(1)} /\ at' = "push" /\ nmods' = 0
    BY <1>2 DEF Create, Live, LiveEarly
  <2>2. fault' = FALSE /\ live' = live \union {Table, Name(1)}
    BY <1>1, <1>2 DEF Create, Touch
  <2>3. Of(1) = {Name(1), Data(1), Lex(1), Ast(1)}
    <3>1. 0 + 1 = 1
      OBVIOUS
    <3> QED  BY <3>1, OfNext
  <2>4. live' = Open \union {Table} \union Of(1)
    BY <2>1, <2>2, <2>3
  <2>5. Of(nmods' + 1) = Of(1) /\ Of(nmods + 1)' = Of(nmods' + 1)
    BY <2>1 DEF Of
  <2> QED  BY <1>2, <2>1, <2>2, <2>4, <2>5, HostKept DEF Live, LiveEarly, LiveTable, LiveLast
<1>3. CASE Push
  <2>1. /\ at = "push" /\ nmods' = nmods + 1 /\ live' = live /\ fault' = fault
        /\ at' = IF nmods = 0 THEN "created" ELSE "import"
    BY <1>3 DEF Push
  <2>2. live = Open \union {Table} \union Of(nmods + 1) \union (IF nmods = 0 THEN {} ELSE Given)
    BY <2>1 DEF Live, LiveTable
  <2>3. Modules' = Open \union {Table} \union Of(nmods + 1)
    BY <1>3, <2>1, HostKept
  <2>4. CASE nmods = 0
    <3>1. at' = "created" /\ live' = Modules'
      BY <2>1, <2>2, <2>3, <2>4
    <3> QED  BY <1>1, <2>1, <3>1 DEF Live, LiveEarly, LiveTable, LiveLast
  <2>5. CASE nmods # 0
    <3>1. at' = "import" /\ live' = Modules' \union Given'
      BY <1>3, <2>1, <2>2, <2>3, <2>5, HostKept
    <3> QED  BY <1>1, <2>1, <3>1 DEF Live, LiveEarly, LiveTable, LiveLast
  <2> QED  BY <2>4, <2>5
<1>4. CASE GivePaths
  <2>1. live = Modules /\ at' = "import" /\ nmods' = nmods /\ fault' = fault
    BY <1>4 DEF GivePaths, Live, LiveTable
  <2>2. live' = live \union Given
    BY <1>1, <1>4 DEF GivePaths, Given
  <2>3. live' = Modules' \union Given'
    BY <2>1, <2>2, HostKept DEF Modules
  <2> QED  BY <1>1, <2>1, <2>3 DEF Live, LiveEarly, LiveTable, LiveLast
<1> QED  BY <1>2, <1>3, <1>4

\* What ls_resolveimports looks at is allocated.
LEMMA LookedAt ==
  ASSUME BatchInv, Capacity, RowsKept, phase = "idle", nmods > 0, Modules \subseteq live
  PROVE  Looked \subseteq live
<1>1. 1 \in Rows
  BY DEF Rows, Capacity
<1>2. Looked = {Table, Lex(1), Ast(1), Data(1)}
  BY <1>1, ReadTrue DEF Looked
<1>3. {Lex(1), Ast(1), Data(1)} \subseteq Of(nmods)
  BY <1>1 DEF Of, Rows
<1> QED  BY <1>2, <1>3 DEF Modules

LEMMA LiveImport ==
  ASSUME BatchInv, Control, Capacity, Counted, RowsKept, Live, host' = host,
         NextImport \/ ReadImport \/ LexImport \/ ParseImport \/ Resolved
  PROVE  Live'
<1> USE Stages
<1> DEFINE n == nmods + 1
           base == Modules \union Given
<1>1. fault = FALSE /\ host \in {"csatsu", "gsatsu"} /\ nmods \in Nat
  BY DEF Live, Control, Capacity
<1>2. nmods' = nmods /\ Modules' = Modules /\ Given' = Given
  <2>1. nmods' = nmods
    BY DEF NextImport, ReadImport, LexImport, ParseImport, Resolved, Goto, Fail
  <2> QED  BY <2>1, HostKept DEF Modules
<1>3. /\ AfterTable'["import"] = Given
      /\ failed' = "import" => Message' = {Error}
  BY <1>2 DEF AfterTable, Message
<1>4. ASSUME at' = "failed", failed' = "import", live' = base \union {Error}, fault' = FALSE
      PROVE  Live'
  <2>1. live' = (Modules \union AfterTable[failed] \union Message)'
    BY <1>2, <1>3, <1>4
  <2> QED  BY <1>4, <2>1 DEF Live, LiveEarly, LiveTable, LiveLast
<1>5. CASE NextImport \/ Resolved
  <2>1. live = base /\ phase = "idle" /\ at = "import" /\ nmods > 0
    BY <1>5 DEF NextImport, Resolved, Live, LiveTable, Counted, Settled
  <2>2. Looked \subseteq live
    BY <2>1, LookedAt
  <2>3. \/ at' = "failed" /\ failed' = "import" /\ Touch(Looked, {}, {Error})
        \/ at' = at /\ Touch(Looked, {}, {})
        \/ at' \in {"open", "resolved"} /\ Touch(Looked, {}, {})
    BY <1>5 DEF NextImport, Resolved, Goto, Fail
  <2>4. CASE at' = "failed" /\ failed' = "import" /\ Touch(Looked, {}, {Error})
    <3>1. fault' = FALSE /\ live' = live \union {Error}
      BY <1>1, <2>2, <2>4 DEF Touch
    <3> QED  BY <1>4, <2>1, <2>4, <3>1
  <2>5. CASE at' \in {"import", "open", "resolved"} /\ Touch(Looked, {}, {})
    <3>1. fault' = FALSE /\ live' = live
      BY <1>1, <2>2, <2>5 DEF Touch
    <3>2. live' = (Modules \union Given)'
      BY <1>2, <2>1, <3>1
    <3> QED  BY <2>5, <3>1, <3>2 DEF Live, LiveEarly, LiveTable, LiveLast
  <2> QED  BY <2>1, <2>3, <2>4, <2>5
<1>6. CASE ReadImport
  <2>1. live = base /\ at = "open" /\ Len(files) = nmods
    BY <1>6 DEF ReadImport, Live, LiveTable, Counted, Settled, Reading
  <2>2. CASE at' = "lex import" /\ Touch({}, {}, {Data(n)})
    <3>1. fault' = FALSE /\ live' = live \union {Data(n)}
      BY <1>1, <2>2 DEF Touch
    <3>2. live' = (Modules \union Given \union {Data(nmods + 1)})'
      BY <1>2, <2>1, <3>1 DEF Data
    <3> QED  BY <2>2, <3>1, <3>2 DEF Live, LiveEarly, LiveTable, LiveLast
  <2>3. CASE Fail("import") /\ Touch({}, {}, {Error})
    <3>1. fault' = FALSE /\ live' = live \union {Error} /\ at' = "failed" /\ failed' = "import"
      BY <1>1, <2>3 DEF Touch, Fail
    <3> QED  BY <1>4, <2>1, <3>1
  <2> QED  BY <1>6, <2>1, <2>2, <2>3 DEF ReadImport
<1>7. Data(n) \notin base /\ Lex(n) \notin base /\ Data(n) # Lex(n)
  <2>1. Data(n) \notin Of(nmods) /\ Lex(n) \notin Of(nmods)
    BY <1>1, Others
  <2>2. /\ Data(n) \notin {File, Copies, Table} /\ Lex(n) \notin {File, Copies, Table}
        /\ Data(n) # Lex(n)
    BY DEF Data, Lex, File, Copies, Table
  <2> QED  BY <2>1, <2>2, Others DEF Modules
<1>8. CASE LexImport
  <2>1. live = base \union {Data(n)} /\ at = "lex import" /\ Len(files) = n
    BY <1>8 DEF LexImport, Live, LiveTable, Counted, Reading
  <2>2. CASE Goto("parse import") /\ Touch({Data(n)}, {}, {Lex(n)})
    <3>1. fault' = FALSE /\ live' = live \union {Lex(n)} /\ at' = "parse import"
      BY <1>1, <2>1, <2>2 DEF Touch, Goto
    <3>2. live' = (Modules \union Given \union {Data(nmods + 1), Lex(nmods + 1)})'
      BY <1>2, <2>1, <3>1 DEF Data, Lex
    <3> QED  BY <3>1, <3>2 DEF Live, LiveEarly, LiveTable, LiveLast
  <2>3. CASE Fail("import") /\ Touch({}, {Data(n)}, {Error})
    <3>1. fault' = FALSE /\ live' = (live \ {Data(n)}) \union {Error}
      BY <1>1, <2>1, <2>3 DEF Touch
    <3>2. live' = base \union {Error} /\ at' = "failed" /\ failed' = "import"
      BY <1>7, <2>1, <2>3, <3>1 DEF Fail
    <3> QED  BY <1>4, <3>1, <3>2
  <2> QED  BY <1>8, <2>1, <2>2, <2>3 DEF LexImport
<1>9. CASE ParseImport
  <2>4. at = "parse import"
    BY <1>9 DEF ParseImport
  <2>6. at \in Reading /\ at \in Settled
    BY <2>4 DEF Reading, Settled
  <2>5. Len(files) = n /\ nmods # 0
    BY <2>6 DEF Counted
  <2>1. live = base \union {Data(n), Lex(n)} /\ at = "parse import" /\ Len(files) = n /\ nmods # 0
    BY <2>4, <2>5 DEF Live, LiveTable
  <2>2. CASE at' = "push" /\ Touch({Lex(n)}, {}, {Ast(n), Name(n)})
    <3>1. fault' = FALSE /\ live' = live \union {Ast(n), Name(n)}
      BY <1>1, <2>1, <2>2 DEF Touch
    <3>2. live' = Open \union {Table} \union Of(n) \union Given
      <4>1. Of(n) = Of(nmods) \union {Name(n), Data(n), Lex(n), Ast(n)}
        BY <1>1, OfNext
      <4> QED  BY <2>1, <3>1, <4>1 DEF Modules
    <3>3. Of(nmods + 1)' = Of(n) /\ Open' = Open
      BY <1>2, HostKept DEF Of
    <3> QED  BY <1>2, <2>1, <2>2, <3>1, <3>2, <3>3 DEF Live, LiveEarly, LiveTable, LiveLast
  <2>3. CASE Fail("import") /\ Touch({Lex(n)}, {Lex(n), Data(n)}, {Error})
    <3>1. fault' = FALSE /\ live' = (live \ {Lex(n), Data(n)}) \union {Error}
      BY <1>1, <2>1, <2>3 DEF Touch
    <3>2. live' = base \union {Error} /\ at' = "failed" /\ failed' = "import"
      BY <1>7, <2>1, <2>3, <3>1 DEF Fail
    <3> QED  BY <1>4, <3>1, <3>2
  <2> QED  BY <1>9, <2>1, <2>2, <2>3 DEF ParseImport
<1> QED  BY <1>5, <1>6, <1>8, <1>9

LEMMA LiveExec ==
  ASSUME BatchInv, Control, Capacity, RowsKept, Live, host' = host,
         SemaMain \/ StartExec \/ ExecMain
  PROVE  Live'
<1> USE Stages
<1>1. fault = FALSE /\ host \in {"csatsu", "gsatsu"} /\ nmods \in Nat
  BY DEF Live, Control, Capacity
<1>2. /\ nmods' = nmods /\ Modules' = Modules /\ Given' = Given /\ Heaped' = Heaped
      /\ phase = "idle"
  <2>1. nmods' = nmods /\ phase = "idle"
    BY DEF SemaMain, StartExec, ExecMain, Goto, Fail, Control, Settled
  <2> QED  BY <2>1, HostKept DEF Modules
<1>3. /\ AfterTable'["sema"] = {} /\ AfterTable'["exec"] = {System} \union Heaped
      /\ AfterTable'["thread"] = Heaped
      /\ failed' = "thread" => Message' = {}
      /\ failed' \in {"sema", "exec"} => Message' = {Error}
  BY <1>2 DEF AfterTable, Message
<1>4. Owned = Of(nmods) /\ Of(nmods) \subseteq Modules
  BY <1>2, OwnedBlocks DEF Modules
<1>5. Given \intersect Modules = {}
  <2>1. Copies \notin Open \union {Table}
    BY Others, Apart
  <2> QED  BY <2>1, Others DEF Modules
<1>6. CASE SemaMain
  <2>1. live = Modules \union Given
    BY <1>6 DEF SemaMain, Live, LiveTable
  <2>2. CASE Goto("exec") /\ Touch(Owned, Given, {})
    <3>1. fault' = FALSE /\ live' = live \ Given /\ at' = "exec"
      BY <1>1, <1>4, <2>1, <2>2 DEF Touch, Goto
    <3>2. live' = Modules'
      BY <1>2, <1>5, <2>1, <3>1
    <3> QED  BY <3>1, <3>2 DEF Live, LiveEarly, LiveTable, LiveLast
  <2>3. CASE Fail("sema") /\ Touch(Owned, Given, {Error})
    <3>1. fault' = FALSE /\ live' = (live \ Given) \union {Error}
      BY <1>1, <1>4, <2>1, <2>3 DEF Touch
    <3>2. at' = "failed" /\ failed' = "sema"
      BY <2>3 DEF Fail
    <3>3. live' = (Modules \union AfterTable[failed] \union Message)'
      BY <1>2, <1>3, <1>5, <2>1, <3>1, <3>2
    <3> QED  BY <3>1, <3>2, <3>3 DEF Live, LiveEarly, LiveTable, LiveLast
  <2> QED  BY <1>6, <2>2, <2>3 DEF SemaMain
<1>7. CASE StartExec
  <2>1. live = Modules
    BY <1>7 DEF StartExec, Live, LiveTable
  <2>2. CASE Goto("run") /\ Touch({}, {}, {System} \union Heaped)
    <3>1. fault' = FALSE /\ live' = live \union ({System} \union Heaped) /\ at' = "run"
      BY <1>1, <2>2 DEF Touch, Goto
    <3>2. live' = (Modules \union {System} \union Heaped)'
      BY <1>2, <2>1, <3>1 DEF System
    <3> QED  BY <3>1, <3>2 DEF Live, LiveEarly, LiveTable, LiveLast
  <2>3. CASE Fail("thread") /\ Touch({}, {}, Heaped)
    <3>1. fault' = FALSE /\ live' = live \union Heaped /\ at' = "failed" /\ failed' = "thread"
      BY <1>1, <2>3 DEF Touch, Fail
    <3>2. live' = (Modules \union AfterTable[failed] \union Message)'
      BY <1>2, <1>3, <2>1, <3>1
    <3> QED  BY <3>1, <3>2 DEF Live, LiveEarly, LiveTable, LiveLast
  <2> QED  BY <1>7, <2>2, <2>3 DEF StartExec
<1>8. CASE ExecMain
  <2>1. live = Modules \union {System} \union Heaped
    BY <1>8 DEF ExecMain, Live, LiveTable
  <2>2. CASE Goto("ran") /\ Touch(Owned \union {System}, {}, {})
    <3>1. fault' = FALSE /\ live' = live /\ at' = "ran"
      BY <1>1, <1>4, <2>1, <2>2 DEF Touch, Goto
    <3>2. live' = (Modules \union {System} \union Heaped)'
      BY <1>2, <2>1, <3>1 DEF System
    <3> QED  BY <3>1, <3>2 DEF Live, LiveEarly, LiveTable, LiveLast
  <2>3. CASE Fail("exec") /\ Touch(Owned \union {System}, {}, {Error})
    <3>1. /\ fault' = FALSE /\ live' = live \union {Error} /\ at' = "failed" /\ failed' = "exec"
      BY <1>1, <1>4, <2>1, <2>3 DEF Touch, Fail
    <3>2. live' = (Modules \union AfterTable[failed] \union Message)'
      BY <1>2, <1>3, <2>1, <3>1
    <3> QED  BY <3>1, <3>2 DEF Live, LiveEarly, LiveTable, LiveLast
  <2> QED  BY <1>8, <2>2, <2>3 DEF ExecMain
<1> QED  BY <1>6, <1>7, <1>8

LEMMA LiveExit ==
  ASSUME BatchInv, Control, Capacity, RowsKept, Live, host' = host, Reached \/ Report
  PROVE  Live'
<1> USE Stages
<1>1. fault = FALSE /\ host \in {"csatsu", "gsatsu"} /\ nmods \in Nat
  BY DEF Live, Control, Capacity
<1>2. at' = "exit" /\ Open' = Open
  BY HostKept DEF Reached, Report, Exit
<1>3. ASSUME fault' = FALSE, live' \subseteq Open PROVE Live'
  BY <1>2, <1>3 DEF Live, LiveEarly, LiveTable, LiveLast
<1>4. ASSUME phase = "idle", NEW others, DestroyModule({}, others), live = Modules \union others,
             others \subseteq {Copies, System, OnHeap, Error}
      PROVE  Live'
  <2>1. others \intersect Of(nmods) = {}
    BY <1>4, Others
  <2>2. others \subseteq live /\ Of(nmods) \subseteq live /\ Table \in live
    BY <1>4 DEF Modules
  <2>3. fault' = FALSE /\ live' = live \ (Of(nmods) \union others \union {Table})
    BY <1>1, <1>4, <2>1, <2>2, Destroyed
  <2>4. live' \subseteq Open
    BY <1>4, <2>3 DEF Modules
  <2> QED  BY <1>3, <2>3, <2>4
<1>5. CASE Reached
  <2>1. CASE at = "parse" /\ Touch({Lex(1)}, {Lex(1), Data(1)}, {})
    <3>1. live = Open \union {Data(1), Lex(1)}
      BY <2>1 DEF Live, LiveEarly
    <3>2. fault' = FALSE /\ live' = live \ {Lex(1), Data(1)}
      BY <1>1, <2>1, <3>1 DEF Touch
    <3> QED  BY <1>3, <3>1, <3>2
  <2>2. CASE at = "create" /\ Touch({}, {Ast(1), Lex(1), Data(1)}, {})
    <3>1. live = Open \union {Data(1), Lex(1), Ast(1)}
      BY <2>2 DEF Live, LiveEarly
    <3>2. fault' = FALSE /\ live' = live \ {Ast(1), Lex(1), Data(1)}
      BY <1>1, <2>2, <3>1 DEF Touch
    <3> QED  BY <1>3, <3>1, <3>2
  <2>3. CASE at = "resolved" /\ DestroyModule({}, Given)
    <3>1. live = Modules \union Given /\ phase = "idle"
      BY <2>3 DEF Live, LiveTable, Control, Settled
    <3> QED  BY <1>4, <2>3, <3>1, Others
  <2>4. CASE at = "exec" /\ DestroyModule({}, {})
    <3>1. live = Modules \union {} /\ phase = "idle"
      BY <2>4 DEF Live, LiveTable, Control, Settled
    <3> QED  BY <1>4, <2>4, <3>1
  <2>5. CASE at = "ran" /\ DestroyModule({}, {System} \union Heaped)
    <3>1. live = Modules \union ({System} \union Heaped) /\ phase = "idle"
      BY <2>5 DEF Live, LiveTable, Control, Settled
    <3>2. {System} \union Heaped \subseteq {Copies, System, OnHeap, Error}
      BY Others
    <3> QED  BY <1>4, <2>5, <3>1, <3>2
  <2> QED  BY <1>5, <2>1, <2>2, <2>3, <2>4, <2>5 DEF Reached
<1>6. CASE Report
  <2>1. at = "failed"
    BY <1>6 DEF Report
  <2>2. CASE failed \in DOMAIN BeforeTable /\ Touch({}, BeforeTable[failed] \union Message, {})
    <3>1. live = Open \union BeforeTable[failed] \union {Error} /\ Message = {Error}
      BY <2>1, <2>2 DEF Live, LiveLast, Message
    <3>2. fault' = FALSE /\ live' = live \ (BeforeTable[failed] \union Message)
      BY <1>1, <2>2, <3>1 DEF Touch
    <3>3. live' \subseteq Open
      BY <3>1, <3>2
    <3> QED  BY <1>3, <3>2, <3>3
  <2>3. CASE failed \in DOMAIN AfterTable /\ DestroyModule({}, AfterTable[failed] \union Message)
    <3> DEFINE others == AfterTable[failed] \union Message
    <3>1. live = Modules \union others /\ phase = "idle"
      BY <2>1, <2>3 DEF Live, LiveLast, Control
    <3>2. others \subseteq {Copies, System, OnHeap, Error}
      BY <2>3, Others DEF AfterTable, Message
    <3> HIDE DEF others
    <3>3. DestroyModule({}, others)
      BY <2>3 DEF others
    <3> QED  BY <1>4, <3>1, <3>2, <3>3
  <2> QED  BY <1>6, <2>2, <2>3 DEF Report
<1> QED  BY <1>5, <1>6

LEMMA LiveKeeps ==
  BatchInv /\ Control /\ Capacity /\ Counted /\ RowsKept /\ Live /\ [Next]_vars => Live'
<1> SUFFICES ASSUME BatchInv, Control, Capacity, Counted, RowsKept, Live, [Next]_vars PROVE Live'
  OBVIOUS
<1>1. CASE UNCHANGED vars \/ Stopped
  BY <1>1, LiveStays DEF vars, moduleVars, Stopped
<1>2. CASE Arguments \/ Button \/ ReadMain \/ LexMain \/ ParseMain
  BY <1>2, LiveMain
<1>3. CASE GivePaths
  BY <1>3, LiveModule DEF GivePaths, Here
<1>4. CASE SemaMain \/ StartExec \/ ExecMain
  BY <1>4, LiveExec DEF SemaMain, StartExec, ExecMain, Here
<1>5. CASE Reached \/ Report
  BY <1>5, LiveExit DEF Reached, Report, Exit, Here
<1>6. CASE ModuleStep /\ UNCHANGED <<host, target>>
  <2>1. CASE Create \/ Push
    BY <1>6, <2>1, LiveModule
  <2>2. CASE PushGrow \/ (at = "push" /\ BatchStep /\ UNCHANGED moduleVars)
    BY <1>6, <2>2, LiveStays DEF PushGrow, moduleVars
  <2>3. CASE NextImport \/ ReadImport \/ LexImport \/ ParseImport \/ Resolved
    BY <1>6, <2>3, LiveImport
  <2> QED  BY <1>6, <2>1, <2>2, <2>3 DEF ModuleStep
<1> QED  BY <1>1, <1>2, <1>3, <1>4, <1>5, <1>6 DEF Next, Step

-----------------------------------------------------------------------------
(* Imports. *)

\* A step after which the same has been read for the same imports.
LEMMA ResolvingStays ==
  ASSUME Resolving, UNCHANGED <<paths, imports, next, files>>, Finished' = Finished,
         at' \in Early \union {"created"} \/ (at' = "push" /\ nmods' = 0) => next = 1,
         at' \in {"open"} \union Reading => next <= Len(imports),
         at' = "open" => Found(next) # {} /\ FileOf(next) \notin Present,
         at' = "resolved" => next = Len(imports) + 1,
         at' \in {"lex", "parse", "create", "push"} \union Settled =>
           at \in {"lex", "parse", "create", "push"} \union Settled
  PROVE  Resolving'
<1>1. /\ Present' = Present
      /\ \A n : Found(n)' = Found(n) /\ FileOf(n)' = FileOf(n)
      /\ Found(next)' = Found(next) /\ FileOf(next)' = FileOf(next)
  BY DEF Present, Found, FileOf
<1>2. /\ paths' \in Seq(Dirs) /\ imports' \in Seq(Names) /\ next' \in Nat \ {0}
      /\ next' <= Len(imports') + 1
      /\ at' \in Early \union {"created"} => next' = 1
      /\ at' = "push" /\ nmods' = 0 => next' = 1
      /\ at' \in {"open"} \union Reading => next' <= Len(imports')
  BY DEF Resolving
<1>3. /\ at' = "open" => Found(next)' # {} /\ FileOf(next)' \notin Present'
      /\ at' = "resolved" => next' = Len(imports') + 1
  BY <1>1
<1>4. \A n \in Finished' : Found(n)' # {}
  BY <1>1 DEF Resolving
<1>5. {FileOf(n) : n \in Finished}' = {FileOf(n) : n \in Finished}
  BY <1>1
<1>6. at' \in {"lex", "parse", "create", "push"} \union Settled =>
        Present' = {Main} \union {FileOf(n) : n \in Finished}'
  BY <1>1, <1>5 DEF Resolving
<1>7. \A j, l \in DOMAIN files' : files'[j] = files'[l] => j = l
  BY DEF Resolving
<1> QED  BY <1>2, <1>3, <1>4, <1>6, <1>7 DEF Resolving

\* When the files have the table's rows, an import is present in the table if and only if
\* its file is among them: files are told apart by their inodes.
LEMMA PresentInTable ==
  ASSUME BatchInv, Capacity, Counted, RowsKept, phase = "idle", Len(files) = nmods,
         NEW f \in Files
  PROVE  IsPresent(f) <=> f \in Present
<1>1. Rows = DOMAIN files /\ \A j \in Rows : files[j] \in Files
  BY DEF Rows, Counted
<1>2. \A j \in Rows : Read("ids", j) = Id(files[j])
  BY ReadTrue
<1>3. \A g \in Files : Id(g) = Id(f) <=> g = f
  BY FilesAssumption DEF Id
<1> QED  BY <1>1, <1>2, <1>3 DEF IsPresent, Present

\* Nothing has been imported yet.
LEMMA NothingFinished ==
  ASSUME next = 1, at \notin Reading
  PROVE  Finished = {}
BY DEF Finished

LEMMA ResolvingImport ==
  ASSUME BatchInv, Control, Capacity, Counted, RowsKept, Resolving,
         NextImport \/ ReadImport \/ LexImport \/ ParseImport \/ Resolved
  PROVE  Resolving'
<1>1. /\ paths \in Seq(Dirs) /\ imports \in Seq(Names) /\ next \in Nat \ {0}
      /\ next <= Len(imports) + 1 /\ Len(imports) \in Nat /\ nmods \in Nat
  BY DEF Resolving, Capacity
<1>2. paths' = paths /\ imports' = imports /\ nmods' = nmods
  BY DEF NextImport, ReadImport, LexImport, ParseImport, Resolved, Goto, Fail
<1>3. CASE at' = "failed" /\ UNCHANGED <<next, files>>
  <2>1. Finished' \subseteq Finished
    <3>1. Finished' = 1..(next - 1)
      BY <1>3 DEF Finished, Reading
    <3>2. Finished = 1..next \/ Finished = 1..(next - 1)
      BY DEF Finished
    <3>3. 1..(next - 1) \subseteq 1..next
      BY <1>1
    <3> QED  BY <3>1, <3>2, <3>3
  <2>2. \A n : Found(n)' = Found(n)
    BY <1>2 DEF Found
  <2>3. \A n \in Finished' : Found(n)' # {}
    BY <2>1, <2>2 DEF Resolving
  <2>4. at' \notin Early \union Settled \union Reading \union {"created", "push", "open", "resolved"}
    BY <1>3 DEF Early, Settled, Reading
  <2>5. \A j, l \in DOMAIN files' : files'[j] = files'[l] => j = l
    BY <1>3 DEF Resolving
  <2>6. at' \notin {"lex", "parse", "create"}
    BY <1>3
  <2> QED  BY <1>1, <1>2, <1>3, <2>3, <2>4, <2>5, <2>6 DEF Resolving
<1>4. CASE NextImport /\ at' # "failed"
  <2>1. at = "import" /\ phase = "idle" /\ next <= Len(imports) /\ files' = files
    BY <1>4 DEF NextImport, Goto, Fail
  <2>2. Found(next) # {}
    BY <1>4 DEF NextImport, Fail
  <2>3. Len(files) = nmods /\ nmods > 0
    <3>1. at \in Settled \ Reading
      BY <2>1 DEF Settled, Reading
    <3> QED  BY <3>1 DEF Counted
  <2>4. FileOf(next) \in Files
    BY <1>1, <2>1, <2>2, FoundFile
  <2>5. IsPresent(FileOf(next)) <=> FileOf(next) \in Present
    BY <2>1, <2>3, <2>4, PresentInTable
  <2>6. CASE IsPresent(FileOf(next))
    <3>1. next' = next + 1 /\ at' = at
      BY <1>4, <2>2, <2>6 DEF NextImport, Skip
    <3>2. Finished' = Finished \union {next}
      <4>1. at \notin Reading /\ at' \notin Reading
        BY <2>1, <3>1 DEF Reading
      <4>2. Finished = 1..(next - 1) /\ Finished' = 1..(next' - 1)
        BY <4>1 DEF Finished
      <4>3. next' - 1 = next
        BY <1>1, <3>1
      <4>4. Finished' = 1..next
        BY <4>2, <4>3
      <4>5. next \in Nat \ {0}
        BY <1>1
      <4>6. 1..next = (1..(next - 1)) \union {next}
        BY <4>5
      <4> QED  BY <4>2, <4>4, <4>6
    <3>3. /\ Present' = Present /\ \A n : Found(n)' = Found(n) /\ FileOf(n)' = FileOf(n)
      BY <1>2, <2>1 DEF Present, Found, FileOf
    <3>4. \A n \in Finished' : Found(n)' # {}
      BY <2>2, <3>2, <3>3 DEF Resolving
    <3>5. Present = {Main} \union {FileOf(n) : n \in Finished}
      BY <2>1 DEF Resolving, Settled
    <3>6. {FileOf(n) : n \in Finished}' = {FileOf(n) : n \in Finished} \union {FileOf(next)}
      BY <3>2, <3>3
    <3>7. Present' = {Main} \union {FileOf(n) : n \in Finished}'
      BY <2>5, <2>6, <3>3, <3>5, <3>6
    <3>8. at' \notin Early \union Reading \union {"created", "push", "open", "resolved"}
      BY <2>1, <3>1 DEF Early, Reading
    <3>9. next' \in Nat \ {0} /\ next' <= Len(imports') + 1
      BY <1>1, <1>2, <2>1, <3>1
    <3>10. \A j, l \in DOMAIN files' : files'[j] = files'[l] => j = l
      BY <2>1 DEF Resolving
    <3> QED  BY <1>1, <1>2, <3>4, <3>7, <3>8, <3>9, <3>10 DEF Resolving
  <2>7. CASE ~IsPresent(FileOf(next))
    <3>1. at' = "open" /\ next' = next
      BY <1>4, <2>2, <2>7 DEF NextImport, Goto
    <3>2. Finished' = Finished
      BY <2>1, <3>1 DEF Finished, Reading
    <3>3. at \in Settled
      BY <2>1 DEF Settled
    <3>4. at' \notin Early \union {"created", "push", "resolved"}
      BY <3>1 DEF Early
    <3> QED  BY <1>2, <2>1, <2>2, <2>5, <2>7, <3>1, <3>2, <3>3, <3>4, ResolvingStays
  <2> QED  BY <2>6, <2>7
<1>5. CASE ReadImport /\ at' # "failed"
  <2>1. /\ at = "open" /\ at' = "lex import" /\ next' = next
        /\ files' = Append(files, FileOf(next))
    BY <1>5 DEF ReadImport, Fail
  <2>2. next <= Len(imports) /\ Found(next) # {} /\ FileOf(next) \notin Present
    BY <2>1 DEF Resolving
  <2>3. files \in Seq(Files) /\ FileOf(next) \in Files
    BY <1>1, <2>2, FoundFile DEF Counted
  <2>4. /\ Len(files') = Len(files) + 1 /\ Len(files) \in Nat /\ DOMAIN files = 1..Len(files)
        /\ DOMAIN files' = 1..(Len(files) + 1)
        /\ \A j \in 1..Len(files) : files'[j] = files[j]
        /\ files'[Len(files) + 1] = FileOf(next)
    <3> DEFINE f == FileOf(next)
    <3>1. files' = Append(files, f) /\ files \in Seq(Files) /\ f \in Files
      BY <2>1, <2>3
    <3> HIDE DEF f
    <3>2. /\ Len(files') = Len(files) + 1 /\ Len(files) \in Nat /\ DOMAIN files = 1..Len(files)
          /\ DOMAIN files' = 1..(Len(files) + 1)
          /\ \A j \in 1..Len(files) : files'[j] = files[j]
          /\ files'[Len(files) + 1] = f
      BY <3>1
    <3> QED  BY <3>2 DEF f
  <2>5. Present' = Present \union {FileOf(next)}
    BY <2>4 DEF Present
  <2>6. \A j, l \in DOMAIN files' : files'[j] = files'[l] => j = l
    <3> SUFFICES ASSUME NEW j \in DOMAIN files', NEW l \in DOMAIN files', files'[j] = files'[l]
                 PROVE  j = l
      OBVIOUS
    <3>1. \A m \in 1..Len(files) : files'[m] # FileOf(next)
      BY <2>2, <2>4 DEF Present
    <3>2. CASE j \in 1..Len(files) /\ l \in 1..Len(files)
      BY <2>4, <3>2 DEF Resolving
    <3>3. CASE j = Len(files) + 1 \/ l = Len(files) + 1
      BY <2>4, <3>1, <3>3
    <3> QED  BY <2>4, <3>2, <3>3
  <2>7. Finished' = Finished \union {next}
    <3>1. Finished = 1..(next - 1) /\ Finished' = 1..next
      BY <2>1 DEF Finished, Reading
    <3> QED  BY <1>1, <3>1
  <2>8. \A n : Found(n)' = Found(n) /\ FileOf(n)' = FileOf(n)
    BY <1>2 DEF Found, FileOf
  <2>9. \A n \in Finished' : Found(n)' # {}
    BY <2>2, <2>7, <2>8 DEF Resolving
  <2>10. Present = {Main} \union {FileOf(n) : n \in Finished}
    BY <2>1 DEF Resolving, Settled
  <2>11. {FileOf(n) : n \in Finished}' = {FileOf(n) : n \in Finished} \union {FileOf(next)}
    BY <2>7, <2>8
  <2>12. Present' = {Main} \union {FileOf(n) : n \in Finished}'
    BY <2>5, <2>10, <2>11
  <2>13. at' \notin Early \union {"created", "push", "open", "resolved"}
    BY <2>1 DEF Early
  <2> QED  BY <1>1, <1>2, <2>1, <2>2, <2>6, <2>9, <2>12, <2>13 DEF Resolving
<1>6. CASE LexImport /\ at' # "failed"
  <2>1. /\ at = "lex import" /\ at' = "parse import" /\ UNCHANGED <<next, files>>
    BY <1>6 DEF LexImport, Goto, Fail
  <2>2. next <= Len(imports)
    BY <2>1 DEF Resolving, Reading
  <2>3. Finished' = Finished /\ at \in Settled
    BY <2>1 DEF Finished, Reading, Settled
  <2>4. at' \notin Early \union {"created", "push", "open", "resolved"}
    BY <2>1 DEF Early
  <2> QED  BY <1>2, <2>1, <2>2, <2>3, <2>4, ResolvingStays
<1>7. CASE ParseImport /\ at' # "failed"
  <2>1. /\ at = "parse import" /\ at' = "push" /\ next' = next + 1 /\ files' = files
    BY <1>7 DEF ParseImport, Fail
  <2>2. next <= Len(imports)
    BY <2>1 DEF Resolving, Reading
  <2>3. Finished' = Finished
    <3>1. Finished = 1..next /\ Finished' = 1..(next' - 1)
      BY <2>1 DEF Finished, Reading
    <3>3. next \in Nat /\ next' = next + 1
      BY <1>1, <2>1
    <3>2. next' - 1 = next
      BY <3>3
    <3> QED  BY <3>1, <3>2
  <2>4. nmods' > 0
    <3>1. at \in Settled
      BY <2>1 DEF Settled
    <3> QED  BY <1>2, <3>1 DEF Counted
  <2>5. Present' = Present /\ \A n : Found(n)' = Found(n) /\ FileOf(n)' = FileOf(n)
    BY <1>2, <2>1 DEF Present, Found, FileOf
  <2>6. \A n \in Finished' : Found(n)' # {}
    BY <2>3, <2>5 DEF Resolving
  <2>7. Present = {Main} \union {FileOf(n) : n \in Finished}
    BY <2>1 DEF Resolving, Settled
  <2>8. {FileOf(n) : n \in Finished}' = {FileOf(n) : n \in Finished}
    BY <2>3, <2>5
  <2>9. Present' = {Main} \union {FileOf(n) : n \in Finished}'
    BY <2>5, <2>7, <2>8
  <2>10. at' \notin Early \union Reading \union {"created", "open", "resolved"}
    BY <2>1 DEF Early, Reading
  <2>11. \A j, l \in DOMAIN files' : files'[j] = files'[l] => j = l
    BY <2>1 DEF Resolving
  <2>13. imports' = imports /\ Len(imports') = Len(imports)
    BY <1>2
  <2>12. next' \in Nat \ {0} /\ next' <= Len(imports') + 1
    <3>1. next \in Nat /\ next' = next + 1 /\ Len(imports) \in Nat
      BY <1>1, <2>1
    <3> QED  BY <2>2, <2>13, <3>1
  <2> QED  BY <1>1, <1>2, <2>4, <2>6, <2>9, <2>10, <2>11, <2>12 DEF Resolving
<1>8. CASE Resolved
  <2>1. at = "import" /\ at' = "resolved" /\ next > Len(imports) /\ UNCHANGED <<next, files>>
    BY <1>8 DEF Resolved, Goto
  <2>2. Finished' = Finished /\ at \in Settled
    BY <2>1 DEF Finished, Reading, Settled
  <2>3. at' \notin Early \union Reading \union {"created", "push", "open"}
    BY <2>1 DEF Early, Reading
  <2>4. next = Len(imports) + 1
    BY <1>1, <2>1
  <2> QED  BY <1>2, <2>1, <2>2, <2>3, <2>4, ResolvingStays
<1>9. at' = "failed" => UNCHANGED <<next, files>> \/ ~(NextImport \/ ReadImport \/ LexImport \/ ParseImport)
  BY DEF NextImport, ReadImport, LexImport, ParseImport, Fail, Goto
<1> QED  BY <1>3, <1>4, <1>5, <1>6, <1>7, <1>8, <1>9

LEMMA ResolvingMain ==
  ASSUME Control, Capacity, Counted, Resolving,
         Arguments \/ Button \/ ReadMain \/ LexMain \/ ParseMain \/ GivePaths
  PROVE  Resolving'
<1>1. /\ paths \in Seq(Dirs) /\ imports \in Seq(Names) /\ Len(imports) \in Nat
      /\ next = 1 /\ next' = 1 /\ Finished = {}
  <2>1. at \in Early \union {"created"} /\ at \notin Reading /\ next' = next
    BY DEF Arguments, Button, ReadMain, LexMain, ParseMain, GivePaths, Early, Reading, Goto, Fail
  <2>2. next = 1
    BY <2>1 DEF Resolving
  <2> QED  BY <2>1, <2>2, NothingFinished DEF Resolving
<1>2. at' \notin Reading \union {"push", "open", "resolved"} /\ Finished' = {}
  <2>1. at' \notin Reading \union {"push", "open", "resolved"}
    BY DEF Arguments, Button, ReadMain, LexMain, ParseMain, GivePaths, Reading, Goto, Fail
  <2>2. Finished' = 1..(next' - 1)
    BY <2>1 DEF Finished
  <2> QED  BY <1>1, <2>1, <2>2
<1>3. paths' \in Seq(Dirs)
  BY <1>1, PathsAssumption
     DEF Arguments, Button, ReadMain, LexMain, ParseMain, GivePaths, Goto, Fail
<1>4. imports' \in Seq(Names)
  BY <1>1, FilesAssumption
     DEF Arguments, Button, ReadMain, LexMain, ParseMain, GivePaths, Goto, Fail
<1>5. next' <= Len(imports') + 1
  <2>1. Len(imports') \in Nat
    BY <1>4
  <2> QED  BY <1>1, <2>1
<1>6. ASSUME files' = files
      PROVE  Present' = Present /\ \A j, l \in DOMAIN files' : files'[j] = files'[l] => j = l
  BY <1>6 DEF Resolving, Present
<1>7. /\ \A j, l \in DOMAIN files' : files'[j] = files'[l] => j = l
      /\ at' \in {"lex", "parse", "create", "push"} \union Settled => Present' = {Main}
  <2>1. CASE Arguments \/ Button
    <3>1. files' = files /\ at' \in {"read", "exit"}
      BY <2>1 DEF Arguments, Button
    <3> QED  BY <1>6, <3>1 DEF Settled
  <2>2. CASE ReadMain
    <3>1. CASE at' = "lex" /\ files' = <<Main>>
      <4>1. DOMAIN files' = 1..1 /\ files'[1] = Main
        BY <3>1
      <4> QED  BY <4>1 DEF Present
    <3>2. CASE at' = "failed" /\ files' = files
      BY <1>6, <3>2 DEF Settled
    <3> QED  BY <2>2, <3>1, <3>2 DEF ReadMain, Fail
  <2>3. CASE LexMain \/ ParseMain \/ GivePaths
    <3>1. files' = files /\ at \in {"lex", "parse", "created"}
      BY <2>3 DEF LexMain, ParseMain, GivePaths, Goto, Fail
    <3>2. Present = {Main} \union {FileOf(n) : n \in Finished}
      BY <3>1 DEF Resolving, Settled
    <3>3. Present = {Main}
      BY <1>1, <3>2
    <3> QED  BY <1>6, <3>1, <3>3
  <2> QED  BY <2>1, <2>2, <2>3
<1>8. {FileOf(n) : n \in Finished}' = {}
  BY <1>2
<1>9. at' # "open" /\ at' # "resolved" /\ at' # "push" /\ at' \notin {"open"} \union Reading
  BY <1>2
<1> QED  BY <1>1, <1>2, <1>3, <1>4, <1>5, <1>7, <1>8, <1>9 DEF Resolving

LEMMA ResolvingKeeps ==
  BatchInv /\ Control /\ Capacity /\ Counted /\ RowsKept /\ Resolving /\ [Next]_vars => Resolving'
<1> SUFFICES ASSUME BatchInv, Control, Capacity, Counted, RowsKept, Resolving, [Next]_vars
             PROVE  Resolving'
  OBVIOUS
<1>1. ASSUME UNCHANGED <<at, paths, imports, next, files, nmods>> PROVE Resolving'
  <2>1. Finished' = Finished
    BY <1>1 DEF Finished
  <2> QED  BY <1>1, <2>1, ResolvingStays DEF Resolving
<1>2. CASE UNCHANGED vars \/ Stopped \/ PushGrow \/ (at = "push" /\ BatchStep /\ UNCHANGED moduleVars)
  BY <1>1, <1>2 DEF vars, moduleVars, Stopped, PushGrow
<1>3. CASE Arguments \/ Button \/ ReadMain \/ LexMain \/ ParseMain \/ GivePaths
  BY <1>3, ResolvingMain
<1>4. CASE NextImport \/ ReadImport \/ LexImport \/ ParseImport \/ Resolved
  BY <1>4, ResolvingImport
<1>5. CASE Create
  <2>1. at = "create" /\ at' = "push" /\ UNCHANGED <<paths, imports, next, files>>
    BY <1>5 DEF Create
  <2>2. next = 1
    BY <2>1 DEF Resolving, Early
  <2>3. Finished' = Finished
    BY <2>1 DEF Finished, Reading
  <2>4. at' \notin {"open"} \union Reading \union {"resolved"}
    BY <2>1 DEF Reading
  <2> QED  BY <2>1, <2>2, <2>3, <2>4, ResolvingStays
<1>6. CASE Push
  <2>1. /\ at = "push" /\ at' \in {"created", "import"} /\ UNCHANGED <<paths, imports, next, files>>
        /\ at' = "created" => nmods = 0
    BY <1>6 DEF Push
  <2>2. at' = "created" => next = 1
    BY <2>1 DEF Resolving
  <2>3. Finished' = Finished
    BY <2>1 DEF Finished, Reading
  <2>4. at' \notin {"open"} \union Reading \union {"resolved", "push"} \union Early
    BY <2>1 DEF Reading, Early
  <2> QED  BY <2>1, <2>2, <2>3, <2>4, ResolvingStays
<1>7. CASE SemaMain \/ StartExec \/ ExecMain \/ Reached \/ Report
  <2>1. UNCHANGED <<paths, imports, next, files>> /\ at \notin Reading
    BY <1>7 DEF SemaMain, StartExec, ExecMain, Reached, Report, Exit, Goto, Fail, Reading
  <2>2. at' \notin {"open"} \union Reading \union {"created", "resolved", "push"} \union Early
    BY <1>7 DEF SemaMain, StartExec, ExecMain, Reached, Report, Exit, Goto, Fail, Reading, Early
  <2>3. at' \in {"lex", "parse", "create", "push"} \union Settled =>
          at \in {"lex", "parse", "create", "push"} \union Settled
    BY <1>7 DEF SemaMain, StartExec, ExecMain, Reached, Report, Exit, Goto, Fail, Settled
  <2>4. Finished' = Finished
    BY <2>1, <2>2 DEF Finished
  <2> QED  BY <2>1, <2>2, <2>3, <2>4, ResolvingStays
<1> QED  BY <1>2, <1>3, <1>4, <1>5, <1>6, <1>7 DEF Next, Step, ModuleStep

-----------------------------------------------------------------------------
(* The theorems. *)

LEMMA MainInit == Init => MainInv
<1> SUFFICES ASSUME Init PROVE MainInv
  OBVIOUS
<1>1. BatchInv
  BY InitHolds, InitImplements
<1>2. /\ at = "start" /\ paths = <<>> /\ imports = <<>> /\ next = 1 /\ files = <<>> /\ nmods = 0
      /\ live = {} /\ fault = FALSE /\ host \in Hosts /\ phase = "none"
  BY DEF Init, BatchInit
<1>3. Control
  BY <1>2, HostsAssumption DEF Control, Early, Settled
<1>4. Capacity /\ RowsKept
  BY <1>2 DEF Capacity, RowsKept
<1>5. Counted
  BY <1>2 DEF Counted, Settled, Reading
<1>6. Live
  BY <1>2 DEF Live, LiveEarly, LiveTable, LiveLast
<1>7. Resolving
  <2>1. Finished = {}
    BY <1>2, NothingFinished DEF Reading
  <2>2. paths \in Seq(Dirs) /\ imports \in Seq(Names) /\ Len(imports) = 0 /\ DOMAIN files = {}
    BY <1>2
  <2> QED  BY <1>2, <2>1, <2>2 DEF Resolving, Settled, Reading
<1> QED  BY <1>1, <1>3, <1>4, <1>5, <1>6, <1>7 DEF MainInv

LEMMA MainKeeps == MainInv /\ [Next]_vars => MainInv'
BY StepImplements, StepKeeps, ControlKeeps, CapacityKeeps, CountedKeeps, RowsKeep, LiveKeeps,
   ResolvingKeeps DEF MainInv

\* The table is the caller ls_allocbatch and ls_reallocbatch are made for: whatever is
\* imported, what ls_createmodule and ls_pushmodule do with the block is what an owner of a
\* batch may do, with the capacity it has as the number of elements it passes.
THEOREM TableIsBatch == Spec => BatchSpec
<1>1. MainInv /\ [Next]_vars => [BatchNext]_batchVars
  BY StepImplements DEF MainInv
<1> QED  BY <1>1, MainInit, MainKeeps, InitImplements, PTL DEF Spec, BatchSpec

\* So the six arrays of the table are kept and kept apart, for every number of modules.
THEOREM TableArrays == Spec => [](ArraysKept /\ ArraysApart)
BY TableIsBatch, BatchKeeps, BatchApart, PTL

\* TableTrue, for every file system and every list of imports: a row is what was pushed,
\* however often the table has been extended since (ls_pushmodule, ls_reallocbatch).
THEOREM RowsHold == Spec => []TableTrue
<1>1. MainInv => TableTrue
  BY ReadTrue DEF MainInv, TableTrue
<1> QED  BY <1>1, MainInit, MainKeeps, PTL DEF Spec

\* NothingMisused, whatever stage fails and however many modules there are by then: main
\* and the tools of the panel use and release only blocks that are allocated.
THEOREM BlocksUsedRightly == Spec => []NothingMisused
<1>1. MainInv => NothingMisused
  BY DEF MainInv, Live, NothingMisused
<1> QED  BY <1>1, MainInit, MainKeeps, PTL DEF Spec

\* AllReleased, on every way out of main and of the tools of the panel.
THEOREM ExitsRelease == Spec => []AllReleased
<1>1. MainInv => AllReleased
  BY DEF MainInv, Live, LiveLast, AllReleased, Open
<1> QED  BY <1>1, MainInit, MainKeeps, PTL DEF Spec

\* ImportsPresent, for every file system, every list of directories and every list of
\* imports of the file that is run: ls_resolveimports, which compares the inodes of what
\* it opens with those in a table that is moved while it grows, ends with each file that
\* is meant, once.  What the imported files import is not followed.
THEOREM ImportsComplete == Spec => []ImportsPresent
<1>1. MainInv => ImportsPresent
  <2> SUFFICES ASSUME MainInv, at = "resolved" PROVE ImportsPresent
    BY DEF ImportsPresent
  <2> DEFINE First(n) ==
               {q \in DOMAIN paths :
                  /\ imports[n] \in DOMAIN In[paths[q]]
                  /\ \A r \in 1..(q - 1) : imports[n] \notin DOMAIN In[paths[r]]}
             Meant(n) == {In[paths[p]][imports[n]] : p \in First(n)}
  <2>1. /\ BatchInv /\ Capacity /\ Counted /\ RowsKept /\ Resolving /\ phase = "idle"
        /\ Len(files) = nmods /\ files \in Seq(Files)
    BY DEF MainInv, Control, Counted, Settled, Reading
  <2>2. /\ paths \in Seq(Dirs) /\ imports \in Seq(Names) /\ Len(imports) \in Nat
        /\ DOMAIN imports = 1..Len(imports) /\ DOMAIN paths = 1..Len(paths) /\ Len(paths) \in Nat
    BY <2>1 DEF Resolving
  <2>3. Finished = 1..Len(imports)
    <3>1. next = Len(imports) + 1 /\ at \notin Reading
      BY <2>1 DEF Resolving, Reading
    <3>2. Finished = 1..(next - 1)
      BY <3>1 DEF Finished
    <3> QED  BY <2>2, <3>1, <3>2
  <2>4. /\ \A n \in DOMAIN imports : Found(n) # {}
        /\ Present = {Main} \union {FileOf(n) : n \in DOMAIN imports}
        /\ \A j, l \in DOMAIN files : files[j] = files[l] => j = l
    BY <2>1, <2>2, <2>3 DEF Resolving, Settled
  <2>5. Rows = DOMAIN files /\ {files[j] : j \in Rows} = Present
    BY <2>1 DEF Rows, Present
  <2>6. ASSUME NEW n \in DOMAIN imports
        PROVE  Meant(n) = {FileOf(n)}
    <3> DEFINE first == Min(Found(n))
    <3>1. first \in Found(n) /\ \A p \in Found(n) : first <= p
      BY <2>2, <2>4, FoundFile
    <3>2. FileOf(n) = In[paths[first]][imports[n]]
      BY DEF FileOf
    <3> HIDE DEF first
    <3>3. first \in First(n)
      <4>1. first \in DOMAIN paths /\ imports[n] \in DOMAIN In[paths[first]]
        BY <3>1 DEF Found
      <4>2. ASSUME NEW r \in 1..(first - 1), imports[n] \in DOMAIN In[paths[r]] PROVE FALSE
        <5>1. r \in Found(n)
          BY <2>2, <4>1, <4>2 DEF Found
        <5> QED  BY <2>2, <3>1, <4>1, <5>1
      <4> QED  BY <4>1, <4>2
    <3>4. ASSUME NEW q \in First(n) PROVE q = first
      <4>1. q \in Found(n)
        BY DEF Found
      <4>2. first <= q /\ first \in Nat /\ q \in Nat /\ first >= 1
        BY <2>2, <3>1, <4>1 DEF Found
      <4>3. ASSUME first < q PROVE FALSE
        <5>1. first \in 1..(q - 1)
          BY <4>2, <4>3
        <5> QED  BY <3>1, <5>1 DEF Found
      <4> QED  BY <4>2, <4>3
    <3>5. First(n) = {first}
      BY <3>3, <3>4
    <3> HIDE DEF First
    <3> QED  BY <3>2, <3>5
  <2> HIDE DEF First
  <2>7. UNION {Meant(n) : n \in DOMAIN imports} = {FileOf(n) : n \in DOMAIN imports}
    BY <2>6
  <2>8. \A n \in DOMAIN imports : Meant(n) # {}
    BY <2>6
  <2>9. \A j, l \in Rows : Read("ids", j) = Read("ids", l) => j = l
    <3> SUFFICES ASSUME NEW j \in Rows, NEW l \in Rows, Read("ids", j) = Read("ids", l)
                 PROVE  j = l
      OBVIOUS
    <3>1. Id(files[j]) = Id(files[l]) /\ files[j] \in Files /\ files[l] \in Files
      <4>1. Read("ids", j) = Id(files[j]) /\ Read("ids", l) = Id(files[l])
        BY <2>1, ReadTrue
      <4> QED  BY <2>1, <2>5, <4>1
    <3>2. files[j] = files[l]
      BY <3>1, FilesAssumption DEF Id
    <3> QED  BY <2>4, <2>5, <3>2
  <2> QED  BY <2>4, <2>5, <2>7, <2>8, <2>9 DEF ImportsPresent, First
<1> QED  BY <1>1, MainInit, MainKeeps, PTL DEF Spec
=============================================================================

----------------------------- MODULE SatsuBatch -----------------------------
(***************************************************************************)
(* Allocation batches (ls_util.c): several arrays in one block of memory,  *)
(* each aligned.  ls_reallocbatch extends the block and moves the arrays   *)
(* to their new places inside of it, one at a time; a step here is one     *)
(* turn of its loops.  Memory is counted in units of any size (bytes, or   *)
(* words when no element is smaller).                                      *)
(***************************************************************************)
EXTENDS Integers, Sequences

CONSTANTS
  Sizes,  \* the size of an element of each array
  Align   \* LS_BATCHALIGN

ASSUME SizesAssumption == Sizes \in Seq(Nat \ {0})
ASSUME AlignAssumption == Align \in Nat \ {0}

VARIABLES
  phase,    \* "none" (no block), "alloc", "idle", "size", "move" or "done"
  oldn,     \* the elements of every array, before and after
  newn,
  oldoff,   \* oldoffsets and newoffsets, and the sizes so far
  newoff,
  oldsize,
  newsize,
  i,        \* the array to be moved next
  mem,      \* the block
  ptr,      \* the pointers to the arrays, as places in the block
  was       \* history: the block and the pointers before it was extended

batchVars == <<phase, oldn, newn, oldoff, newoff, oldsize, newsize, i, mem, ptr, was>>

Arrays == DOMAIN Sizes
Nothing == "nothing"  \* what has not been written

BatchInit ==
  /\ phase = "none" /\ oldn = 0 /\ newn = 0
  /\ oldoff = <<>> /\ newoff = <<>> /\ oldsize = 0 /\ newsize = 0 /\ i = 0
  /\ mem = <<>> /\ ptr = <<>> /\ was = [mem |-> <<>>, ptr |-> <<>>]

\* Mutant: an aligned size stays as it is, and others lose what is over.
AlignDown(n) == n - (n % Align)
\* Up to the next multiple, and on to the one after it from a multiple.
ls_alignbatch(n) == n + Align - (n % Align)

-----------------------------------------------------------------------------
(* ls_allocbatch.  (Both of its loops add up the same sizes.) *)

Alloc(n) ==
  /\ phase = "none"
  /\ phase' = "alloc" /\ newn' = n
  /\ UNCHANGED <<oldn, oldoff, newoff, oldsize, newsize, i, mem, ptr, was>>

Place ==
  /\ phase = "alloc" /\ Len(newoff) < Len(Sizes)
  /\ newoff' = Append(newoff, newsize)
  /\ newsize' = ls_alignbatch(newsize + newn * Sizes[Len(newoff) + 1])
  /\ UNCHANGED <<phase, oldn, newn, oldoff, oldsize, i, mem, ptr, was>>

Allocated ==
  /\ phase = "alloc" /\ Len(newoff) = Len(Sizes)
  /\ phase' = "idle"
  /\ mem' = [a \in 0..(newsize - 1) |-> Nothing]
  /\ ptr' = newoff
  /\ UNCHANGED <<oldn, newn, oldoff, newoff, oldsize, newsize, i, was>>

-----------------------------------------------------------------------------
(* ls_reallocbatch *)

\* Called with n elements in every array, for m.
Grow(n, m) ==
  /\ phase = "idle"
  /\ phase' = "size" /\ oldn' = n /\ newn' = m
  /\ oldoff' = <<>> /\ newoff' = <<>> /\ oldsize' = 0 /\ newsize' = 0
  /\ i' = Len(Sizes)
  /\ was' = [mem |-> mem, ptr |-> ptr]
  /\ UNCHANGED <<mem, ptr>>

Measure ==
  /\ phase = "size" /\ Len(oldoff) < Len(Sizes)
  /\ LET k == Len(oldoff) + 1
     IN /\ oldoff' = Append(oldoff, oldsize)
        /\ newoff' = Append(newoff, newsize)
        /\ oldsize' = ls_alignbatch(oldsize + oldn * Sizes[k])
        /\ newsize' = ls_alignbatch(newsize + newn * Sizes[k])
  /\ UNCHANGED <<phase, oldn, newn, i, mem, ptr, was>>

\* ls_realloc keeps what is in the block.
Extend ==
  /\ phase = "size" /\ Len(oldoff) = Len(Sizes)
  /\ phase' = "move"
  /\ mem' = [a \in 0..(newsize - 1) |-> IF a \in DOMAIN mem THEN mem[a] ELSE Nothing]
  /\ UNCHANGED <<oldn, newn, oldoff, newoff, oldsize, newsize, i, ptr, was>>

Common(k) == (IF newn < oldn THEN newn ELSE oldn) * Sizes[k]
ls_memmove(to, from, n) ==
  [a \in DOMAIN mem |-> IF a \in to..(to + n - 1) THEN mem[a - to + from] ELSE mem[a]]

\* Mutant: the first array is moved first.
MovedFirst == Len(Sizes) + 1 - i
\* The last array is moved first.
Moved == i

Move ==
  /\ phase = "move" /\ i > 0
  /\ mem' = ls_memmove(newoff[Moved], oldoff[Moved], Common(Moved))
  /\ ptr' = [ptr EXCEPT ![Moved] = newoff[Moved]]
  /\ i' = i - 1
  /\ UNCHANGED <<phase, oldn, newn, oldoff, newoff, oldsize, newsize, was>>

Grown ==
  /\ phase = "move" /\ i = 0
  /\ phase' = "done"
  /\ UNCHANGED <<oldn, newn, oldoff, newoff, oldsize, newsize, i, mem, ptr, was>>

BatchStep == Place \/ Allocated \/ Measure \/ Extend \/ Move \/ Grown

-----------------------------------------------------------------------------
(* What the owner of a block does: it begins with one element, doubles, and writes. *)

Write ==
  /\ phase \in {"idle", "done"} /\ phase' = "idle"
  /\ mem' = [a \in DOMAIN mem |-> mem'[a]]
  /\ UNCHANGED <<oldn, newn, oldoff, newoff, oldsize, newsize, i, ptr, was>>

BatchNext == Alloc(1) \/ Grow(newn, 2 * newn) \/ BatchStep \/ Write
BatchSpec == BatchInit /\ [][BatchNext]_batchVars

-----------------------------------------------------------------------------
(* Properties. *)

\* No word of an array is lost when a block grows: each is found at the array's new
\* place, although the arrays are moved over their own and their neighbours' old places.
ArraysKept ==
  phase = "done" =>
    \A k \in Arrays : \A w \in 0..(oldn * Sizes[k] - 1) :
      mem[ptr[k] + w] = was.mem[was.ptr[k] + w]

\* Between calls the arrays are inside of the block and none reaches into another.
ArraysApart ==
  phase \in {"idle", "done"} =>
    \A k \in Arrays :
      /\ \A w \in 0..(newn * Sizes[k] - 1) : ptr[k] + w \in DOMAIN mem
      /\ \A l \in Arrays : k < l => ptr[k] + newn * Sizes[k] <= ptr[l]
=============================================================================

---------------------------- MODULE SatsuMailbox ----------------------------
(***************************************************************************)
(* What the panel promises a program that reads lines: one box, into which *)
(* the user puts a line and out of which the program takes characters.  A  *)
(* line replaces what is left of the one before it; an empty line empties  *)
(* the box.                                                                *)
(***************************************************************************)
EXTENDS Sequences

CONSTANTS InputLines, NL

VARIABLES
  box,   \* what is left to read: the rest of a line and its NL, or nothing
  taken  \* what the program has of the line it is reading

Delivered(l) == IF l = <<>> THEN <<>> ELSE Append(l, NL)

Init == box = <<>> /\ taken = <<>>

Send ==
  /\ \E l \in InputLines : box' = Delivered(l)
  /\ UNCHANGED taken

Take ==
  /\ box # <<>>
  /\ box' = Tail(box)
  /\ taken' = IF Head(box) = NL THEN <<>> ELSE Append(taken, Head(box))

Spec == Init /\ [][Send \/ Take]_<<box, taken>>
=============================================================================

---------------------------- MODULE MCSatsuPanel ----------------------------
(* The lines the user types in the runs of the panel. *)
EXTENDS SatsuPanel

MCLines == {<<>>, <<"x">>, <<"x", "y">>}
MCTwoLines == {<<>>, <<"x", "y">>}
MCShortLines == {<<>>, <<"x">>}
=============================================================================

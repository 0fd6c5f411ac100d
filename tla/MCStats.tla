------------------------------ MODULE MCStats ------------------------------
(***************************************************************************)
(* Stats for TLC: every score there is, counted point by point, with       *)
(* power-ups and shots in two windows of scores, where a digit of each     *)
(* rank carries and where the top digit loses its carry.                   *)
(***************************************************************************)
EXTENDS Stats

NeverSet == {FALSE}

Windows == 89980..89999 \cup 98950..99999
=============================================================================

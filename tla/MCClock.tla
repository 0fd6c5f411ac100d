------------------------------ MODULE MCClock ------------------------------
(***************************************************************************)
(* The clock for TLC: the digits on both sides of the loop's test, and     *)
(* draws where the accumulator carries and where it does not.              *)
(***************************************************************************)
EXTENDS Clock

FewDigits == {0, 1, 2, 9}
DrawSometimes == {0, 127, 253}
=============================================================================

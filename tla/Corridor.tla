------------------------------ MODULE Corridor ------------------------------
(***************************************************************************)
(* The test by which hitdetect and bulletdetect tell rock from the open    *)
(* tunnel.  The screen has 22 rows; rows 0..10 are compared with the       *)
(* column's two limits, the first open row t and the first row e below     *)
(* it, and rows 11..21 with their mirror images.                           *)
(***************************************************************************)
EXTENDS Machine6502

InUpperHalf(y) == Below(y, 11)

Open(t, e, y) ==
  IF InUpperHalf(y)
  THEN ~Below(y, t) /\ Below(y, e)
  ELSE ~Below(y - 11, Wrap(11 - e)) /\ Below(y - 11, Wrap(11 - t))

(* The overflow flag after the test, given the flag v before it: the upper *)
(* half compares only, the lower half subtracts each limit from 12 with    *)
(* the carry clear, and stops at the first one that says rock.             *)
OverflowAfter(t, e, y, v) ==
  CASE InUpperHalf(y)                                       -> v
    [] ~InUpperHalf(y) /\ Below(y - 11, Wrap(11 - e))       -> BorrowOverflows(12, e)
    [] ~InUpperHalf(y) /\ ~Below(y - 11, Wrap(11 - e))      -> BorrowOverflows(12, t)
=============================================================================

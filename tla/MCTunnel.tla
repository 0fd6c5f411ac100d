------------------------------ MODULE MCTunnel ------------------------------
(***************************************************************************)
(* Tunnel for TLC: three columns are enough for the shift, a pair of       *)
(* neighbours that are both old, and one that is new.                      *)
(***************************************************************************)
EXTENDS Tunnel

NeverSet == {FALSE}
AnyFlag == BOOLEAN

TwoLevels == 1..2
AllLevels == 1..3
=============================================================================

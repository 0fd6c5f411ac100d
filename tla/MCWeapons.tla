----------------------------- MODULE MCWeapons -----------------------------
(***************************************************************************)
(* Weapons for TLC, in two scenes: a ship that stays in its row and meets  *)
(* walls, and one that dives while its bullet is in the air and meets      *)
(* none.  The tunnel may change from open to rock at any time.             *)
(***************************************************************************)
EXTENDS Weapons

VARIABLE scene

(* The tunnel the game starts with, and one that is open at row 10. *)
TwoTunnels == {[top |-> 2, empty |-> 7], [top |-> 5, empty |-> 13]}

AtTheStart == {[x |-> 0, y |-> 18]}
AtRow10 == {[x |-> 16, y |-> 10]}

ShootAndTurn == {"fire", "left", "down", "none"}
HoldOff == {"none"}

MCInit == Init /\ scene \in {"walls", "dive"}

MCNext ==
  /\ Next
  /\ IF scene = "walls" THEN ship'.y = ship.y
                        ELSE ship'.x = ship.x /\ staticobs' = staticobs
  /\ UNCHANGED scene

(* The picture does not depend on the bullet's flag: it is looked at for   *)
(* two of its values.                                                      *)
MCWallIsSeen == bullet.flag \in {0, 1} => WallIsSeen

MCSpec == MCInit /\ [][MCNext]_<<vars, scene>> /\ WF_<<vars, scene>>(MCNext)
=============================================================================

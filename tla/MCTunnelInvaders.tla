-------------------------- MODULE MCTunnelInvaders --------------------------
(***************************************************************************)
(* The game for TLC, with two players: an explorer, who moves right and up *)
(* and shoots, and is watched for a short game, and a pilot, who keeps to  *)
(* the left edge and steers for the middle of the corridor through the     *)
(* first level, with any clock.  Both start with fire.  A third player, in *)
(* runs of its own, does with the joystick what the inputs allow.          *)
(***************************************************************************)
EXTENDS TunnelInvaders

CONSTANT Players

VARIABLE player

Moves == {"fire", "up", "right", "down", "none"}
FireOrNot == {"fire", "none"}
DownOrNot == {"down", "none"}

ExplorerAndPilot == {"explorer", "pilot"}
Anyone == {"anyone"}

NoOverflow == {FALSE}
AnyClock == BOOLEAN

(* The row in the middle of the lower corridor two columns ahead. *)
Middle == 21 - (topset[ship.x + 2] + 3)

Towards ==
  CASE Middle < ship.y -> "up"
    [] Middle > ship.y -> "down"
    [] Middle = ship.y -> "none"

(* Bound: the explorer's game is watched until this score. *)
ExplorerScore == 26

(* Bound: the explorer's clock leaves no overflow. *)
Explores ==
  /\ pc = "down" => UNCHANGED cheatFlag
  /\ pc = "wait" => ~overflow'
  /\ pc = "wait" => Stat!Total(score) < ExplorerScore
  /\ pc = "input" =>
       \/ \E input \in {"up", "right"} : ship' = Gun!Steered(input) /\ bullet' = bullet
       \/ Gun!useInput("fire", Stat!HasAmmo)

Pilots ==
  /\ pc = "down" => UNCHANGED cheatFlag
  /\ pc = "input" => ship' = Gun!Steered(Towards) /\ bullet' = bullet

ExplorerWatched ==
  /\ player = "explorer" /\ pc = "wait" /\ Stat!Total(score) >= ExplorerScore
  /\ UNCHANGED vars

MCInit == Init /\ player \in Players

MCNext ==
  /\ UNCHANGED player
  /\ \/ Next /\ (player = "explorer" => Explores) /\ (player = "pilot" => Pilots)
     \/ ExplorerWatched

MCSpec == MCInit /\ [][MCNext]_<<vars, player>>

(* Bound: of the explorer's screen, only the column of the ship is looked  *)
(* at, and when a thing is there; of the pilot's, all of it.               *)
WhatIsSeenIsMet ==
  SeenIsMet(IF player = "pilot" THEN Across ELSE {ship.x} \cap {powerUp.x, fallingobs.x})

(* Passable after every change of the tunnel, which is the same for both.  *)
PilotsPassable == (player = "pilot" /\ pc = "score") => Passable

(* The pilot survives the first level. *)
PilotAlive == player = "pilot" => Alive
=============================================================================

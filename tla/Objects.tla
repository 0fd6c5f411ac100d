------------------------------ MODULE Objects ------------------------------
(***************************************************************************)
(* What drifts through the tunnel towards the ship: the power-up, the      *)
(* falling obstacle and the wall of fourteen blocks.  spawn puts one of    *)
(* them at the right edge when the byte it mixes comes out as 2, 4 or 6    *)
(* and none of that kind is flagged as being on the screen; updatedata     *)
(* moves them.  The flags of the obstacle and the wall are counted up      *)
(* instead of being stored, and the wall's lies where a bullet can hit it. *)
(*                                                                         *)
(* On its own the module takes the rest of the game as an environment that *)
(* lets spawn draw any byte, on any tunnel, and lets the ship and its      *)
(* bullets hit what they can reach, at the points of a frame where         *)
(* hitdetect and bulletdetect run.                                         *)
(***************************************************************************)
EXTENDS Machine6502

CONSTANTS
  Kinds,  \* the bytes of interest spawn may draw, among 2, 4 and 6
  Roofs,  \* the roof of the rightmost column where a power-up may appear
  Shot    \* what a bullet may hit of the wall, its blocks or 14 for its flag

ASSUME ObjectsAssumption ==
  Kinds \subseteq {2, 4, 6} /\ Roofs \subseteq Byte /\ Shot \subseteq 0..14

VARIABLES powerUp, fallingobs, staticobs, phase

vars == <<powerUp, fallingobs, staticobs, phase>>

Blocks == 0..13
Gone == 255

-----------------------------------------------------------------------------
(* spawn.  The power-up's row is computed with ADC and no CLC, so that the *)
(* carry of the comparison of drawDirection with 1 is added in: only a     *)
(* direction of 0 leaves it clear.                                         *)
RoomRow(roof, dir) == Wrap(roof + IF dir = 0 THEN 2 ELSE 3)

SpawnRow(roof, dir) ==
  IF dir = 1 THEN Wrap(22 - RoomRow(roof, dir)) ELSE RoomRow(roof, dir)

(* The overflow flag after that addition, or after the subtraction from 22 *)
(* that follows it, which unlike the others borrows nothing.               *)
SpawnOverflow(roof, dir) ==
  IF dir = 1 THEN BorrowOverflows(22 + 1, RoomRow(roof, dir))
             ELSE AddOverflows(roof, IF dir = 0 THEN 2 ELSE 3)

spawnpUP(roof, dir) ==
  /\ powerUp.flag # 1
  /\ powerUp' = [powerUp EXCEPT !.x = 21, !.y = SpawnRow(roof, dir)]
  /\ UNCHANGED <<fallingobs, staticobs>>

(* Mutated form: the flag is not looked at.                                *)
spawnObsAnyway ==
  /\ fallingobs' = [x |-> 21, y |-> 0, flag |-> Wrap(fallingobs.flag + 1)]
  /\ UNCHANGED <<powerUp, staticobs>>

spawnObs ==
  /\ fallingobs.flag # 1
  /\ fallingobs' = [x |-> 21, y |-> 0, flag |-> Wrap(fallingobs.flag + 1)]
  /\ UNCHANGED <<powerUp, staticobs>>

(* Mutated form: the flag is not looked at.                                *)
spawnWallAnyway(level) ==
  /\ level = 3
  /\ staticobs' = [x |-> 21, rows |-> [i \in Blocks |-> 4 + i],
                   flag |-> Wrap(staticobs.flag + 1)]
  /\ UNCHANGED <<powerUp, fallingobs>>

spawnWall(level) ==
  /\ staticobs.flag # 1 /\ level = 3
  /\ staticobs' = [x |-> 21, rows |-> [i \in Blocks |-> 4 + i],
                   flag |-> Wrap(staticobs.flag + 1)]
  /\ UNCHANGED <<powerUp, fallingobs>>

nospawn(n, level) ==
  /\ n = 2 => powerUp.flag = 1
  /\ n = 4 => fallingobs.flag = 1
  /\ n = 6 => staticobs.flag = 1 \/ level # 3
  /\ UNCHANGED <<powerUp, fallingobs, staticobs>>

spawn(n, level, roof, dir) ==
  \/ n = 2 /\ spawnpUP(roof, dir)
  \/ n = 4 /\ spawnObs
  \/ n = 6 /\ spawnWall(level)
  \/ nospawn(n, level)

-----------------------------------------------------------------------------
(* Mutated form: the sign bit is left in.                                  *)
OnScreenSigned(x, edge) == Below(x, edge)

(* updatedata.  The columns count down through 0 to 255; the sign bit is   *)
(* masked off before the comparison with the screen's edge.                *)
OnScreen(x, edge) == Below(x % 128, edge)

updatefallingobs ==
  LET x == Wrap(fallingobs.x - 1)
  IN  fallingobs' = IF fallingobs.flag # 1 THEN fallingobs
                    ELSE [x |-> x, y |-> Wrap(fallingobs.y + 1),
                          flag |-> IF OnScreen(x, 24) THEN 1 ELSE 0]

(* Mutated form: the wall is not moved.                                    *)
updateWallsStill == UNCHANGED staticobs

updateWalls ==
  LET x == Wrap(staticobs.x - 1)
  IN  staticobs' = IF staticobs.flag # 1 THEN staticobs
                   ELSE [staticobs EXCEPT !.x = x,
                                          !.flag = IF OnScreen(x, 23) THEN 1 ELSE 0]

updatePowerUp ==
  LET x == Wrap(powerUp.x - 1)
  IN  powerUp' = [powerUp EXCEPT !.x = x,
                                 !.flag = IF OnScreen(x, 23) THEN 1 ELSE 0]

update == updatefallingobs /\ updateWalls /\ updatePowerUp

-----------------------------------------------------------------------------
(* What the ship and the bullet do to them.                                *)

Meets(thing, place) == thing.x = place.x /\ thing.y = place.y

wallDetect(place) ==
  place.x = staticobs.x /\ \E i \in Blocks : staticobs.rows[i] = place.y

TakePowerUp == [powerUp EXCEPT !.x = Gone, !.flag = Wrap(@ - 1)]

(* bulletWall overwrites the byte it finds: a block, or, scanning from a   *)
(* stale index of 14, the flag that lies behind the blocks, when its value *)
(* is the row of the bullet.                                               *)
Destroyed(i) ==
  IF i \in Blocks THEN [staticobs EXCEPT !.rows[i] = Gone]
                  ELSE [staticobs EXCEPT !.flag = Gone]

Shoot ==
  /\ staticobs.x \in 0..21
  /\ \E i \in Shot :
       /\ i \in Blocks => staticobs.rows[i] # Gone
       /\ staticobs' = Destroyed(i)

-----------------------------------------------------------------------------
Init ==
  /\ powerUp = [x |-> 20, y |-> 18, flag |-> 1]
  /\ fallingobs = [x |-> 20, y |-> 0, flag |-> 1]
  /\ staticobs = [x |-> 21, rows |-> [i \in Blocks |-> Gone], flag |-> 0]
  /\ phase = "detect"

(* hitdetect and bulletdetect, each of them twice a frame. *)
Hit ==
  /\ phase = "detect"
  /\ \/ powerUp.x \in 0..21 /\ powerUp' = TakePowerUp /\ UNCHANGED staticobs
     \/ Shoot /\ UNCHANGED powerUp
  /\ UNCHANGED <<fallingobs, phase>>

(* The last of them is the bullet's. *)
Detected ==
  /\ phase = "detect" /\ phase' = "spawn"
  /\ Shoot \/ UNCHANGED staticobs
  /\ UNCHANGED <<powerUp, fallingobs>>

(* Of the level only 3 matters, of the direction 0, 1 and any other. *)
SpawnOf(kinds) ==
  /\ phase = "spawn" /\ phase' = "move"
  /\ \E n \in kinds \cup {0}, level \in {1, 3}, roof \in Roofs, dir \in 0..2 :
        spawn(n, level, roof, dir)

Spawn == SpawnOf(Kinds)

Move == phase = "move" /\ phase' = "detect" /\ update

Next == Hit \/ Detected \/ Spawn \/ Move

(* The game loop goes round for ever; nothing says what spawn draws.       *)
Fairness == WF_vars(Next)

Spec == Init /\ [][Next]_vars /\ Fairness

-----------------------------------------------------------------------------
Things == [x : Byte, y : Byte, flag : Byte]

(* Next to the types: the obstacle stops one row below the screen at the   *)
(* latest, and a block of the wall is in its own row or gone.              *)
TypeOK ==
  /\ powerUp \in Things /\ fallingobs \in Things /\ fallingobs.y <= 22
  /\ staticobs \in [x : Byte, rows : [Blocks -> Byte], flag : Byte]
  /\ \A i \in Blocks : staticobs.rows[i] \in {4 + i, Gone}
  /\ phase \in {"detect", "spawn", "move"}

(* The flags are counted up at one place and stored or counted down at     *)
(* another.  Those of the power-up and the obstacle still only say yes or  *)
(* no, and whatever is within the 22 columns of the screen when spawn      *)
(* looks has its flag set.  Of the wall's flag that is true until a bullet *)
(* hits it: it is then 255, with the wall in sight; and the next wall      *)
(* counts it to 0, so that one at the right edge may have no flag set, as  *)
(* at the start of the game.                                               *)
FlagShot == staticobs.flag = Gone

FlagsSay ==
  /\ {powerUp.flag, fallingobs.flag} \subseteq {0, 1}
  /\ staticobs.flag \in {0, 1} \/ FlagShot
  /\ FlagShot => staticobs.x \in 0..21
  /\ phase # "move" =>
       /\ powerUp.x <= 21 => powerUp.flag = 1
       /\ fallingobs.x <= 21 => fallingobs.flag = 1
       /\ staticobs.x <= 20 => staticobs.flag = 1 \/ FlagShot

(* Nothing that is on the screen disappears or reappears elsewhere: it     *)
(* stays or moves one column to the left, unless the ship takes it.  A     *)
(* spawn while one of the kind is in sight would break it, and does for a  *)
(* wall whose flag was shot: that one stands still until it is put back to *)
(* the right edge.                                                         *)
NoJump(x, y) == x \in 1..20 => y \in {x, x - 1}

NothingJumps ==
  [][ /\ NoJump(powerUp.x, powerUp'.x) \/ powerUp'.x = Gone
      /\ NoJump(fallingobs.x, fallingobs'.x)
      /\ ~FlagShot => NoJump(staticobs.x, staticobs'.x)
      /\ FlagShot => staticobs'.x \in {staticobs.x, 21} ]_vars

(* An obstacle that is on its way leaves the screen, and so does a wall,   *)
(* unless a bullet hits its flag, which stops it where it is.              *)
ObstaclesLeave ==
  /\ (fallingobs.flag = 1) ~> (fallingobs.x = Gone)
  /\ (staticobs.flag = 1) ~> (staticobs.x = Gone \/ FlagShot)
=============================================================================

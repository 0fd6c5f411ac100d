------------------------------ MODULE Weapons ------------------------------
(***************************************************************************)
(* The ship, its one bullet and the wall of blocks the bullet is meant     *)
(* for.  A frame looks at the bullet before and after it looks at the      *)
(* joystick, and then moves the bullet and the wall towards each other.    *)
(*                                                                         *)
(* bulletFlag is stored as 1 when a bullet is fired and counted down       *)
(* wherever the bullet is lost.  A bullet that is not there is at column   *)
(* and row 255, where the hit test reads bytes of the character set: it is *)
(* found to be in rock, and counted down, twice a frame.                   *)
(*                                                                         *)
(* On its own the module takes the tunnel, the magazine and the arrival of *)
(* walls as an environment.                                                *)
(***************************************************************************)
EXTENDS Corridor, Screen

CONSTANTS
  Tunnels,  \* the columns, alike all over the screen, a frame may show
  Inputs,   \* the moves of the joystick
  Starts,   \* where the ship is to begin with
  Walls     \* whether walls appear

ASSUME WeaponsAssumption ==
  /\ Tunnels \subseteq [top : Byte, empty : Byte]
  /\ Inputs \subseteq {"fire", "up", "down", "left", "right", "none"}
  /\ Starts \subseteq [x : 0..21, y : 0..21]
  /\ Walls \in BOOLEAN

VARIABLES ship, bullet, staticobs, phase

vars == <<ship, bullet, staticobs, phase>>

Blocks == 0..13

-----------------------------------------------------------------------------
(* Reading the tunnel at a column that is not on the screen reads what     *)
(* lies behind the array: emptyset follows topset, and the coordinates of  *)
(* ship and bullet follow emptyset.                                        *)

GlyphByte == 124

TopAt(topset, emptyset, x) ==
  CASE x \in 0..21 -> topset[x]
    [] x \in 22..43 -> emptyset[x - 22]
    [] OTHER -> GlyphByte

EmptyAt(emptyset, x) ==
  CASE x \in 0..21 -> emptyset[x]
    [] x = 22 -> ship.x
    [] x = 23 -> ship.y
    [] x = 24 -> bullet.x
    [] OTHER -> GlyphByte

(* The first three rows of the picture of the power-up.                    *)
PowerUpRows == <<60, 66, 153>>

(* The bytes behind the 14 blocks of the wall: its flag, the last row that *)
(* was drawn, the scratch bytes left by hitdetect and by mul22, and the    *)
(* pictures.                                                               *)
BlockAt(topset, emptyset, i) ==
  CASE i \in Blocks -> staticobs.rows[i]
    [] i = 14 -> staticobs.flag
    [] i = 15 -> 10
    [] i = 16 -> IF InUpperHalf(ship.y) THEN emptyset[16] ELSE Wrap(11 - topset[16])
    [] i = 17 -> 40
    [] i = 18 -> 160
    [] i \in 19..21 -> PowerUpRows[i - 18]

-----------------------------------------------------------------------------
(* Mutated form: only the wall's own column is looked at.                  *)
ComparedInColumn ==
  IF bullet.x = staticobs.x THEN (IF ship.x < 14 THEN ship.x..13 ELSE {ship.x}) ELSE {}

(* bulletWall.  One column before the wall the blocks are compared from    *)
(* the first on; in the wall's column the index register still holds the   *)
(* column of the ship, and the scan starts there.                          *)
Compared ==
  CASE bullet.x = staticobs.x -> IF ship.x < 14 THEN ship.x..13 ELSE {ship.x}
    [] bullet.x # staticobs.x /\ bullet.x = Wrap(staticobs.x - 1) -> Blocks
    [] OTHER -> {}

BlocksHit(topset, emptyset) ==
  {i \in Compared : BlockAt(topset, emptyset, i) = bullet.y}

Without(i) ==
  CASE i \in Blocks -> [staticobs EXCEPT !.rows[i] = 255]
    [] i = 14 -> [staticobs EXCEPT !.flag = 255]
    [] OTHER -> staticobs

(* Mutated form: the flag is not counted down.                             *)
LostKeepsFlag(b) == [b EXCEPT !.x = 255, !.y = 255]

Lost(b) == [x |-> 255, y |-> 255, flag |-> Wrap(b.flag - 1)]

(* A block that was hit leaves bulletWall through bulletHitTrue, and       *)
(* bulletdetect goes on with a bullet that is no longer there.             *)
AfterWall(topset, emptyset) ==
  IF BlocksHit(topset, emptyset) = {} THEN bullet ELSE Lost(bullet)

bulletWall(topset, emptyset) ==
  LET hit == BlocksHit(topset, emptyset)
  IN  \/ hit = {} /\ UNCHANGED staticobs
      \/ \E i \in hit : (\A j \in hit : i <= j) /\ staticobs' = Without(i)

bulletdetect(topset, emptyset) ==
  LET b == AfterWall(topset, emptyset)
      t == TopAt(topset, emptyset, b.x)
      e == EmptyAt(emptyset, b.x)
  IN  /\ bulletWall(topset, emptyset)
      /\ bullet' = IF Open(t, e, b.y) THEN b ELSE Lost(b)

-----------------------------------------------------------------------------
(* useInput: one move or one shot per frame.                               *)

(* Mutated form: a bullet on its way does not matter.                      *)
MayFireAgain(loaded) == loaded

MayFire(loaded) == bullet.flag # 1 /\ loaded

(* Mutated form: the flag is counted up, as in the line commented out.     *)
fireBulletCounts(loaded) ==
  bullet' = IF MayFire(loaded) THEN [x |-> ship.x, y |-> ship.y, flag |-> Wrap(bullet.flag + 1)]
                               ELSE bullet

fireBullet(loaded) ==
  bullet' = IF MayFire(loaded) THEN [x |-> ship.x, y |-> ship.y, flag |-> 1] ELSE bullet

(* Mutated form: the ship does not stop at the left edge.                  *)
SteeredOff(input) ==
  IF input = "left" THEN [ship EXCEPT !.x = Wrap(@ - 1)] ELSE ship

Steered(input) ==
  CASE input = "up"    /\ ship.y # 0  -> [ship EXCEPT !.y = @ - 1]
    [] input = "down"  /\ ship.y # 21 -> [ship EXCEPT !.y = @ + 1]
    [] input = "left"  /\ ship.x # 0  -> [ship EXCEPT !.x = @ - 1]
    [] input = "right" /\ ship.x # 21 -> [ship EXCEPT !.x = @ + 1]
    [] OTHER -> ship

useInput(input, loaded) ==
  /\ ship' = Steered(input)
  /\ IF input = "fire" THEN fireBullet(loaded) ELSE UNCHANGED bullet

(* Mutated form: the bullet goes one column too far.                       *)
updateBulletFar ==
  LET x == Wrap(bullet.x + 1)
  IN  bullet' = IF bullet.flag # 1 THEN bullet
                ELSE [bullet EXCEPT !.x = x, !.flag = IF Below(x, 25) THEN 1 ELSE 0]

updateBullet ==
  LET x == Wrap(bullet.x + 1)
  IN  bullet' = IF bullet.flag # 1 THEN bullet
                ELSE [bullet EXCEPT !.x = x, !.flag = IF Below(x, 24) THEN 1 ELSE 0]

(* The part of spawn and updatedata that concerns the wall. *)
Wall == INSTANCE Objects WITH
  Kinds <- {6}, Roofs <- {}, Shot <- {}, powerUp <- <<>>, fallingobs <- <<>>

-----------------------------------------------------------------------------
Init ==
  /\ ship \in Starts
  /\ bullet = [x |-> 255, y |-> 255, flag |-> 0]
  /\ staticobs = [x |-> 21, rows |-> [i \in Blocks |-> 255], flag |-> 0]
  /\ phase = "bullet1"

LookAtBullet(now, next) ==
  /\ phase = now /\ phase' = next
  /\ \E c \in Tunnels : bulletdetect([x \in 0..21 |-> c.top], [x \in 0..21 |-> c.empty])
  /\ UNCHANGED ship

Joystick ==
  /\ phase = "input" /\ phase' = "bullet2"
  /\ \E input \in Inputs, loaded \in BOOLEAN : useInput(input, loaded)
  /\ UNCHANGED staticobs

Spawn ==
  /\ phase = "spawn" /\ phase' = "move"
  /\ \/ UNCHANGED staticobs
     \/ Walls /\ Wall!spawnWall(3)
  /\ UNCHANGED <<ship, bullet>>

Move ==
  /\ phase = "move" /\ phase' = "bullet1"
  /\ updateBullet /\ Wall!updateWalls
  /\ UNCHANGED ship

Next ==
  \/ LookAtBullet("bullet1", "input")
  \/ Joystick
  \/ LookAtBullet("bullet2", "spawn")
  \/ Spawn
  \/ Move

(* The game loop goes round until the game is over. *)
Spec == Init /\ [][Next]_vars /\ WF_vars(Next)

-----------------------------------------------------------------------------
TypeOK ==
  /\ ship \in [x : 0..21, y : 0..21]
  /\ bullet \in [x : Byte, y : Byte, flag : Byte]
  /\ staticobs \in [x : Byte, rows : [Blocks -> Byte], flag : Byte]
  /\ phase \in {"bullet1", "input", "bullet2", "spawn", "move"}

InFlight == bullet.x \in 0..21 /\ bullet.y \in 0..21

(* The counting flag never loses track of a bullet one can see: while it   *)
(* is on the screen the flag is 1, so that it moves and no second one is   *)
(* fired, and it stops at the third column behind the screen, the last one *)
(* for which the memory behind the arrays still holds the game's own data. *)
FlagCoversFlight ==
  /\ InFlight => bullet.flag = 1
  /\ bullet.x \in 0..24 \cup {255}
  /\ bullet.x = 24 => bullet.flag = 0

(* A shot in the air stays in its row and goes one column to the right, or *)
(* ends; the trigger cannot call it back.                                  *)
ShotsFlyOn ==
  [][ InFlight => \/ bullet'.y = bullet.y /\ bullet'.x \in {bullet.x, bullet.x + 1}
                  \/ bullet'.x = 255 ]_vars

(* However the flag has wrapped, the gun comes free again: in some later   *)
(* frame the joystick is read with the flag at another value than 1.       *)
GunComesFree == []<>(phase = "input" /\ bullet.flag # 1)

(* A bullet gets past a block in its row only in the way the stale index   *)
(* allows: it meets the wall in the wall's own column while the ship is in *)
(* a column of a higher number than the block.  The frame in which the     *)
(* wall appears, when nothing has looked at it yet, is left out.           *)
BlocksStopShots ==
  [][ \A i \in Blocks :
        (/\ InFlight /\ staticobs.flag = 1 /\ staticobs.x < 21
         /\ staticobs.rows[i] = bullet.y
         /\ bullet.x <= staticobs.x /\ bullet'.x > staticobs'.x /\ bullet'.x # 255)
        => (bullet.x = staticobs.x /\ ship.x > i) ]_vars

(* The wall is shown where it stops the ship, block by block and in either *)
(* half: with the columns of any tunnel, each square of its column that is *)
(* deadly is seen to be, unless the ship or the bullet is in front of it.  *)
Nowhere == [x |-> 255, y |-> 255]

WallIsSeen ==
  (phase = "bullet1" /\ staticobs.x \in 0..21) =>
    \A c \in Tunnels, half \in Halves, y \in HalfRows :
      LET scene == [topset |-> [x \in 0..21 |-> c.top], emptyset |-> [x \in 0..21 |-> c.empty],
                    ship |-> ship, bullet |-> bullet, powerUp |-> Nowhere,
                    fallingobs |-> Nowhere, staticobs |-> staticobs]
          row == IF half = "top" THEN y ELSE y + 11
      IN  Agrees(Sight(half, scene, staticobs.x, y),
                 (\E i \in Blocks : staticobs.rows[i] = row) \/ ~Open(c.top, c.empty, row), row)

(* "set flag to 1 to say bullet is on screen" (fireBullet), which is how   *)
(* fireBullet and updateBullet read it: when the joystick is read, a flag  *)
(* of 1 means that there is a bullet on its way.                           *)
FlagMeansBullet ==
  (phase = "input" /\ bullet.flag = 1) => bullet.x \in 0..23
=============================================================================

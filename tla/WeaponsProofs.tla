--------------------------- MODULE WeaponsProofs ---------------------------
(***************************************************************************)
(* The bullet, for every tunnel, every way to steer and to shoot and every *)
(* place the ship may start from, with or without walls; and, at the end,  *)
(* in the scenes of the runs.                                              *)
(***************************************************************************)
EXTENDS MCWeapons, ScreenProofs

(* Where the bullet can be.  One that is lost is at row 255 as well as at  *)
(* column 255: when its counted flag comes by 1 and it moves to column 0,  *)
(* it is still not on the screen.                                          *)
BulletIn ==
  /\ bullet \in [x : 0..24 \cup {255}, y : 0..21 \cup {255}, flag : Byte]
  /\ bullet.x = 255 => bullet.y = 255
  /\ InFlight => bullet.flag = 1
  /\ bullet.x = 24 => bullet.flag = 0

WallIn == staticobs \in [x : Byte, rows : [Blocks -> Byte], flag : Byte]

IInv ==
  /\ ship \in [x : 0..21, y : 0..21]
  /\ phase \in {"bullet1", "input", "bullet2", "spawn", "move"}
  /\ BulletIn /\ WallIn

(* What a step does to a bullet in flight.                                 *)
FliesOn ==
  InFlight => \/ bullet'.y = bullet.y /\ bullet'.x \in {bullet.x, bullet.x + 1}
              \/ bullet'.x = 255

-----------------------------------------------------------------------------
LEMMA WrapIs ==
  ASSUME NEW n \in Int
  PROVE  /\ Wrap(n) \in Byte
         /\ n \in Byte => Wrap(n) = n
  BY DEF Wrap, Byte

(* A lost bullet is nowhere, whatever its flag.                            *)
LEMMA LostIsNowhere ==
  ASSUME NEW b, b.flag \in Byte
  PROVE  /\ Lost(b) \in [x : 0..24 \cup {255}, y : 0..21 \cup {255}, flag : Byte]
         /\ Lost(b).x = 255 /\ Lost(b).y = 255
<1>1. Wrap(b.flag - 1) \in Byte
  BY WrapIs DEF Byte
<1> QED  BY <1>1 DEF Lost

LEMMA Stays ==
  ASSUME BulletIn, UNCHANGED bullet
  PROVE  BulletIn' /\ FliesOn
  BY DEF BulletIn, InFlight, FliesOn

LEMMA Vanishes ==
  ASSUME BulletIn, NEW b, b.flag \in Byte, bullet' = Lost(b)
  PROVE  BulletIn' /\ FliesOn
  BY LostIsNowhere DEF BulletIn, InFlight, FliesOn

(* The hit test leaves the bullet where it is or loses it, once or twice.  *)
LEMMA BulletLookedAt ==
  ASSUME BulletIn, NEW top, NEW empty, bulletdetect(top, empty)
  PROVE  BulletIn' /\ FliesOn
<1>1. bullet.flag \in Byte
  BY DEF BulletIn
<1>2. AfterWall(top, empty) = bullet \/ AfterWall(top, empty) = Lost(bullet)
  BY DEF AfterWall
<1>3. AfterWall(top, empty).flag \in Byte
  BY <1>1, <1>2, LostIsNowhere
<1>4. bullet' = AfterWall(top, empty) \/ bullet' = Lost(AfterWall(top, empty))
  BY DEF bulletdetect
<1>5. CASE bullet' = bullet
  BY <1>5, Stays
<1>6. CASE bullet' = Lost(bullet)
  BY <1>1, <1>6, Vanishes
<1>7. CASE bullet' = Lost(AfterWall(top, empty))
  BY <1>3, <1>7, Vanishes
<1> QED  BY <1>2, <1>4, <1>5, <1>6, <1>7

LEMMA WallLookedAt ==
  ASSUME WallIn, NEW top, NEW empty, bulletdetect(top, empty)
  PROVE  WallIn'
<1>1. ASSUME NEW i
      PROVE  Without(i) \in [x : Byte, rows : [Blocks -> Byte], flag : Byte]
  <2>1. 255 \in Byte
    BY DEF Byte
  <2>2. CASE i \in Blocks
    BY <2>1, <2>2 DEF Without, WallIn
  <2>3. CASE i \notin Blocks /\ i = 14
    BY <2>1, <2>3 DEF Without, WallIn
  <2>4. CASE i \notin Blocks /\ i # 14
    BY <2>4 DEF Without, WallIn
  <2> QED  BY <2>2, <2>3, <2>4
<1> QED  BY <1>1 DEF bulletdetect, bulletWall, WallIn

(* A bullet in flight keeps the gun from firing; a new one is at the ship. *)
LEMMA Fired ==
  ASSUME BulletIn, ship \in [x : 0..21, y : 0..21], NEW loaded, fireBullet(loaded)
  PROVE  BulletIn' /\ FliesOn
<1>1. CASE MayFire(loaded)
  <2>1. bullet' = [x |-> ship.x, y |-> ship.y, flag |-> 1]
    BY <1>1 DEF fireBullet
  <2>2. ~InFlight
    BY <1>1 DEF MayFire, BulletIn
  <2> QED  BY <2>1, <2>2 DEF BulletIn, InFlight, FliesOn, Byte
<1>2. CASE ~MayFire(loaded)
  BY <1>2, Stays DEF fireBullet
<1> QED  BY <1>1, <1>2

LEMMA BulletMoves ==
  ASSUME BulletIn, updateBullet
  PROVE  BulletIn' /\ FliesOn
<1> DEFINE x == Wrap(bullet.x + 1)
<1>1. CASE bullet.flag # 1
  BY <1>1, Stays DEF updateBullet
<1>2. CASE bullet.flag = 1
  <2>1. bullet.x \in 0..23 \cup {255} /\ bullet.y \in 0..21 \cup {255}
    BY <1>2 DEF BulletIn
  <2>2. x = (IF bullet.x = 255 THEN 0 ELSE bullet.x + 1) /\ x \in 0..24
    BY <2>1 DEF Wrap
  <2>3. Below(x, 24) <=> x # 24
    BY <2>2 DEF Below, Wrap
  <2>4. bullet' = [bullet EXCEPT !.x = x, !.flag = IF Below(x, 24) THEN 1 ELSE 0]
    BY <1>2 DEF updateBullet
  <2> HIDE DEF x
  <2>5. bullet' = [x |-> x, y |-> bullet.y, flag |-> IF x # 24 THEN 1 ELSE 0]
    BY <2>3, <2>4 DEF BulletIn
  <2> QED  BY <2>1, <2>2, <2>5 DEF BulletIn, InFlight, FliesOn, Byte
<1> QED  BY <1>1, <1>2

LEMMA Steers ==
  ASSUME ship \in [x : 0..21, y : 0..21], NEW input
  PROVE  Steered(input) \in [x : 0..21, y : 0..21]
<1>1. CASE input = "up" /\ ship.y # 0
  BY <1>1 DEF Steered
<1>2. CASE input = "down" /\ ship.y # 21
  BY <1>2 DEF Steered
<1>3. CASE input = "left" /\ ship.x # 0
  BY <1>3 DEF Steered
<1>4. CASE input = "right" /\ ship.x # 21
  BY <1>4 DEF Steered
<1> QED  BY <1>1, <1>2, <1>3, <1>4 DEF Steered

LEMMA WallComes ==
  ASSUME WallIn, Wall!spawnWall(3)
  PROVE  WallIn'
<1>1. staticobs' = [x |-> 21, rows |-> [i \in Wall!Blocks |-> 4 + i],
                    flag |-> Wrap(staticobs.flag + 1)]
  BY DEF Wall!spawnWall, Wall!Wrap, Wrap
<1>2. Wrap(staticobs.flag + 1) \in Byte
  BY WrapIs DEF WallIn, Byte
<1> QED  BY <1>1, <1>2 DEF WallIn, Wall!Blocks, Blocks, Byte

LEMMA WallMoves ==
  ASSUME WallIn, Wall!updateWalls
  PROVE  WallIn'
<1> DEFINE x == Wrap(staticobs.x - 1)
<1>1. CASE staticobs.flag # 1
  BY <1>1 DEF Wall!updateWalls, WallIn
<1>2. CASE staticobs.flag = 1
  <2>1. PICK b \in {0, 1} : b = IF Wall!OnScreen(x, 23) THEN 1 ELSE 0
    OBVIOUS
  <2>2. staticobs' = [staticobs EXCEPT !.x = x, !.flag = b]
    BY <1>2, <2>1 DEF Wall!updateWalls, Wall!Wrap, Wrap
  <2>3. x \in Byte /\ b \in Byte
    BY WrapIs DEF WallIn, Byte
  <2> HIDE DEF x
  <2> QED  BY <2>2, <2>3 DEF WallIn
<1> QED  BY <1>1, <1>2

-----------------------------------------------------------------------------
LEMMA Steps ==
  ASSUME IInv, [Next]_vars
  PROVE  IInv' /\ FliesOn
<1>1. ASSUME NEW now, NEW next \in {"input", "spawn"}, LookAtBullet(now, next)
      PROVE  IInv' /\ FliesOn
  <2>1. PICK c \in Tunnels :
          bulletdetect([x \in 0..21 |-> c.top], [x \in 0..21 |-> c.empty])
    BY <1>1 DEF LookAtBullet
  <2> QED  BY <1>1, <2>1, BulletLookedAt, WallLookedAt DEF LookAtBullet, IInv
<1>2. CASE Joystick
  <2>1. PICK input \in Inputs, loaded \in BOOLEAN : useInput(input, loaded)
    BY <1>2 DEF Joystick
  <2>2. BulletIn' /\ FliesOn
    BY <2>1, Fired, Stays DEF useInput, IInv
  <2>3. ship' \in [x : 0..21, y : 0..21]
    BY <2>1, Steers DEF useInput, IInv
  <2> QED  BY <1>2, <2>2, <2>3 DEF Joystick, IInv, WallIn
<1>3. CASE Spawn
  <2>1. WallIn'
    BY <1>3, WallComes DEF Spawn, IInv, WallIn
  <2> QED  BY <1>3, <2>1, Stays DEF Spawn, IInv
<1>4. CASE Move
  BY <1>4, BulletMoves, WallMoves DEF Move, IInv
<1>5. CASE UNCHANGED vars
  BY <1>5, Stays DEF vars, IInv, WallIn
<1> QED  BY <1>1, <1>2, <1>3, <1>4, <1>5 DEF Next

LEMMA Starting == Init => IInv
<1> SUFFICES ASSUME Init PROVE IInv
  OBVIOUS
<1>1. ship \in [x : 0..21, y : 0..21]
  BY WeaponsAssumption DEF Init
<1>2. BulletIn
  BY DEF Init, BulletIn, InFlight, Byte
<1>3. WallIn
  BY DEF Init, WallIn, Blocks, Byte
<1> QED  BY <1>1, <1>2, <1>3 DEF Init, IInv

(* On every tunnel, however the flag is counted down and round: a bullet   *)
(* one can see has its flag set, and none gets further than column 24.     *)
THEOREM FlagHolds == Spec => [](TypeOK /\ FlagCoversFlight)
<1>1. IInv /\ [Next]_vars => IInv'
  BY Steps
<1>2. IInv => TypeOK /\ FlagCoversFlight
  BY DEF IInv, BulletIn, WallIn, TypeOK, FlagCoversFlight, Byte
<1> QED  BY Starting, <1>1, <1>2, PTL DEF Spec

(* A shot in the air flies straight on or ends.                            *)
THEOREM Straight == Spec => ShotsFlyOn
<1>1. IInv /\ [Next]_vars => IInv' /\ [FliesOn]_vars
  BY Steps
<1>2. Spec => [][FliesOn]_vars
  BY Starting, <1>1, PTL DEF Spec
<1> QED  BY <1>2 DEF ShotsFlyOn, FliesOn

-----------------------------------------------------------------------------
(* After the second look at the bullet, and until it moves, the blocks in  *)
(* its row that could still meet it are those the stale index passes over. *)
Passed ==
  phase \in {"spawn", "move"} =>
    \A i \in Blocks :
      (InFlight /\ staticobs.x < 21 /\ staticobs.rows[i] = bullet.y) =>
        /\ bullet.x # staticobs.x - 1
        /\ bullet.x = staticobs.x => ship.x > i

LEMMA LooksPast ==
  ASSUME IInv, NEW next, NEW now, LookAtBullet(now, next)
  PROVE  Passed'
<1> SUFFICES ASSUME NEW i \in Blocks, InFlight', staticobs'.rows[i] = bullet'.y
             PROVE  /\ bullet'.x # staticobs'.x - 1
                    /\ bullet'.x = staticobs'.x => ship'.x > i
  BY DEF Passed
<1>1. PICK c \in Tunnels :
        bulletdetect([x \in 0..21 |-> c.top], [x \in 0..21 |-> c.empty])
  BY DEF LookAtBullet
<1> DEFINE top == [x \in 0..21 |-> c.top]
           empty == [x \in 0..21 |-> c.empty]
<1> HIDE DEF top, empty
<1>2. bulletdetect(top, empty)
  BY <1>1 DEF top, empty
<1>3. bullet' = bullet /\ BlocksHit(top, empty) = {}
  <2>1. ASSUME NEW b, bullet' = Lost(b) PROVE FALSE
    BY <2>1 DEF Lost, InFlight
  <2> QED  BY <1>2, <2>1 DEF bulletdetect, AfterWall
<1>4. staticobs' = staticobs /\ ship' = ship
  BY <1>2, <1>3 DEF bulletdetect, bulletWall, LookAtBullet
<1>5. BlockAt(top, empty, i) = bullet.y
  BY <1>3, <1>4 DEF BlockAt, Blocks
<1>6. i \notin Compared
  BY <1>3, <1>5 DEF BlocksHit
<1>7. i \in 0..13 /\ ship.x \in 0..21 /\ staticobs.x \in 0..255 /\ bullet.x \in 0..21
  BY <1>3 DEF IInv, WallIn, InFlight, Blocks, Byte
<1>8. bullet.x = staticobs.x => ship.x > i
  BY <1>6, <1>7 DEF Compared
<1>9. bullet.x # staticobs.x - 1
  <2> SUFFICES ASSUME bullet.x = staticobs.x - 1 PROVE FALSE
    OBVIOUS
  <2>1. staticobs.x - 1 \in Byte /\ bullet.x # staticobs.x
    BY <1>7 DEF Byte
  <2>2. Wrap(staticobs.x - 1) = bullet.x
    BY <2>1, WrapIs DEF Byte
  <2> QED  BY <1>6, <2>1, <2>2 DEF Compared
<1> QED  BY <1>3, <1>4, <1>8, <1>9

(* What a step must not do: carry a bullet in flight past a block in its   *)
(* row, but for one the stale index passes over.                           *)
Past(i) ==
  /\ InFlight /\ staticobs.flag = 1 /\ staticobs.x < 21
  /\ staticobs.rows[i] = bullet.y
  /\ bullet.x <= staticobs.x /\ bullet'.x > staticobs'.x /\ bullet'.x # 255

Blocked == \A i \in Blocks : Past(i) => (bullet.x = staticobs.x /\ ship.x > i)

(* The bullet goes one column to the right, the wall one to the left.      *)
LEMMA MovesPast ==
  ASSUME IInv, Passed, Move
  PROVE  Blocked
<1> SUFFICES ASSUME NEW i \in Blocks, Past(i)
             PROVE  bullet.x = staticobs.x /\ ship.x > i
  BY DEF Blocked
<1>1. /\ bullet.x \in 0..21 /\ staticobs.x \in 0..20
      /\ bullet.flag = 1 /\ staticobs.flag = 1
  BY DEF Past, InFlight, IInv, BulletIn, WallIn, Byte
<1>2. bullet'.x = bullet.x + 1
  <2> DEFINE x == Wrap(bullet.x + 1)
  <2>1. x = bullet.x + 1
    BY <1>1 DEF Wrap
  <2>2. bullet' = [bullet EXCEPT !.x = x, !.flag = IF Below(x, 24) THEN 1 ELSE 0]
    BY <1>1 DEF Move, updateBullet
  <2> HIDE DEF x
  <2> QED  BY <2>1, <2>2 DEF IInv, BulletIn
<1>3. staticobs'.x = IF staticobs.x = 0 THEN 255 ELSE staticobs.x - 1
  <2> DEFINE x == Wrap(staticobs.x - 1)
  <2>1. x = IF staticobs.x = 0 THEN 255 ELSE staticobs.x - 1
    BY <1>1 DEF Wrap
  <2>2. PICK b \in {0, 1} : b = IF Wall!OnScreen(x, 23) THEN 1 ELSE 0
    OBVIOUS
  <2>3. staticobs' = [staticobs EXCEPT !.x = x, !.flag = b]
    BY <1>1, <2>2 DEF Move, Wall!updateWalls, Wall!Wrap, Wrap
  <2> HIDE DEF x
  <2> QED  BY <2>1, <2>3 DEF IInv, WallIn
<1>4. bullet.x \in {staticobs.x - 1, staticobs.x}
  BY <1>1, <1>2, <1>3 DEF Past
<1> QED  BY <1>4 DEF Passed, Move, Past

LEMMA PassedStep ==
  ASSUME IInv, Passed, [Next]_vars
  PROVE  Passed' /\ Blocked
<1>1. ASSUME NEW now, NEW next, LookAtBullet(now, next) PROVE Passed' /\ Blocked
  <2>1. PICK c \in Tunnels :
          bulletdetect([x \in 0..21 |-> c.top], [x \in 0..21 |-> c.empty])
    BY <1>1 DEF LookAtBullet
  <2>2. bullet' = bullet \/ bullet'.x = 255
    BY <2>1 DEF bulletdetect, AfterWall, Lost
  <2>3. staticobs'.x = staticobs.x
    <3>1. PICK i : staticobs' = staticobs \/ staticobs' = Without(i)
      BY <2>1 DEF bulletdetect, bulletWall
    <3>2. staticobs \in [x : Byte, rows : [Blocks -> Byte], flag : Byte]
      BY DEF IInv, WallIn
    <3>3. Without(i).x = staticobs.x
      <4>1. CASE i \in Blocks  BY <3>2, <4>1 DEF Without
      <4>2. CASE i \notin Blocks  BY <3>2, <4>2 DEF Without
      <4> QED  BY <4>1, <4>2
    <3> QED  BY <3>1, <3>3
  <2>4. Blocked
    BY <2>2, <2>3 DEF Blocked, Past, IInv, BulletIn, WallIn, InFlight, Byte
  <2> QED  BY <1>1, <2>4, LooksPast
<1>2. CASE Joystick
  <2>1. InFlight => bullet' = bullet
    BY <1>2 DEF Joystick, useInput, fireBullet, MayFire, IInv, BulletIn
  <2>2. staticobs' = staticobs /\ phase' = "bullet2"
    BY <1>2 DEF Joystick
  <2>3. Blocked
    BY <2>1, <2>2 DEF Blocked, Past, InFlight, IInv, WallIn, Byte
  <2> QED  BY <2>2, <2>3 DEF Passed
<1>3. CASE Spawn
  <2>1. UNCHANGED staticobs \/ staticobs'.x = 21
    BY <1>3 DEF Spawn, Wall!spawnWall
  <2>2. UNCHANGED <<ship, bullet>> /\ phase = "spawn"
    BY <1>3 DEF Spawn
  <2>3. Blocked
    BY <2>1, <2>2 DEF Blocked, Past, InFlight, IInv, WallIn, Byte
  <2>4. Passed'
    <3>1. CASE UNCHANGED staticobs
      BY <2>2, <3>1 DEF Passed, InFlight
    <3>2. CASE staticobs'.x = 21
      BY <3>2 DEF Passed
    <3> QED  BY <2>1, <3>1, <3>2
  <2> QED  BY <2>3, <2>4
<1>4. CASE Move
  BY <1>4, MovesPast DEF Move, Passed
<1>5. CASE UNCHANGED vars
  <2>1. UNCHANGED <<ship, bullet, staticobs, phase>>
    BY <1>5 DEF vars
  <2>2. Blocked
    BY <2>1 DEF Blocked, Past, InFlight, IInv, WallIn, Byte
  <2> QED  BY <2>1, <2>2 DEF Passed, InFlight
<1> QED  BY <1>1, <1>2, <1>3, <1>4, <1>5 DEF Next

(* No bullet gets past a block in its row in any way but the one the stale *)
(* index of bulletWall leaves open.                                        *)
THEOREM BlocksStop == Spec => BlocksStopShots
<1>1. Init => Passed
  BY DEF Init, Passed
<1>2. IInv /\ [Next]_vars => IInv'
  BY Steps
<1>3. IInv /\ Passed /\ [Next]_vars => Passed' /\ [Blocked]_vars
  BY PassedStep
<1>4. Spec => [][Blocked]_vars
  BY Starting, <1>1, <1>2, <1>3, PTL DEF Spec
<1> QED  BY <1>4 DEF BlocksStopShots, Blocked, Past

-----------------------------------------------------------------------------
(* Of a wall, the picture is right whenever the types are.                 *)
LEMMA WallPictured ==
  ASSUME Pictured, IInv
  PROVE  WallIsSeen
<1> SUFFICES ASSUME staticobs.x \in 0..21,
                    NEW c \in Tunnels, NEW half \in Halves, NEW y \in HalfRows
             PROVE  LET drawn == [topset |-> [x \in 0..21 |-> c.top],
                                  emptyset |-> [x \in 0..21 |-> c.empty],
                                  ship |-> ship, bullet |-> bullet, powerUp |-> Nowhere,
                                  fallingobs |-> Nowhere, staticobs |-> staticobs]
                        row == IF half = "top" THEN y ELSE y + 11
                    IN  Agrees(Sight(half, drawn, staticobs.x, y),
                               \/ \E i \in Blocks : staticobs.rows[i] = row
                               \/ ~Open(c.top, c.empty, row), row)
  BY DEF WallIsSeen
<1> DEFINE drawn == [topset |-> [x \in 0..21 |-> c.top],
                     emptyset |-> [x \in 0..21 |-> c.empty],
                     ship |-> ship, bullet |-> bullet, powerUp |-> Nowhere,
                     fallingobs |-> Nowhere, staticobs |-> staticobs]
           x == staticobs.x
<1>1. /\ drawn.fallingobs = Nowhere /\ drawn.staticobs = staticobs
      /\ drawn.topset[x] = c.top /\ drawn.emptyset[x] = c.empty
  OBVIOUS
<1>2. x \in Across /\ Nowhere.x = 255 /\ Nowhere.y = 255 /\ 255 \in Byte
  BY DEF Across, Nowhere, Byte
<1>3. DOMAIN staticobs.rows = Blocks /\ \A i \in Blocks : staticobs.rows[i] \in Byte
  BY DEF IInv, WallIn
<1> HIDE DEF drawn, x
<1>4. Agrees(Sight(half, drawn, x, y), Deadly(drawn, x, RowOf(half, y)), RowOf(half, y))
  BY <1>1, <1>2, <1>3, LooksAreTrue
<1>5. Deadly(drawn, x, RowOf(half, y)) <=>
        \/ \E i \in Blocks : staticobs.rows[i] = RowOf(half, y)
        \/ ~Open(c.top, c.empty, RowOf(half, y))
  BY <1>1, <1>2, <1>3 DEF Deadly, Across, x
<1> QED  BY <1>4, <1>5 DEF Agrees, RowOf, drawn, x

(* Where walls do appear: with the columns of any tunnel the wall is shown *)
(* where it stops the ship, in whatever state its blocks and its flag are. *)
THEOREM WallSeen ==
  ASSUME Pictured
  PROVE  Spec => []WallIsSeen
<1>1. IInv => WallIsSeen
  BY WallPictured
<1>2. IInv /\ [Next]_vars => IInv'
  BY Steps
<1> QED  BY Starting, <1>1, <1>2, PTL DEF Spec

(* So it is in the scenes of the runs, whose steps are steps of Weapons.   *)
THEOREM WallSeenInScenes ==
  ASSUME Pictured
  PROVE  MCSpec => []MCWallIsSeen
<1>1. MCInit => IInv
  BY Starting DEF MCInit
<1>2. IInv /\ [MCNext]_<<vars, scene>> => IInv'
  <2>1. [MCNext]_<<vars, scene>> => [Next]_vars
    BY DEF MCNext
  <2> QED  BY <2>1, Steps
<1>3. IInv => MCWallIsSeen
  BY WallPictured DEF MCWallIsSeen
<1> QED  BY <1>1, <1>2, <1>3, PTL DEF MCSpec
=============================================================================

--------------------------- MODULE ObjectsProofs ---------------------------
(***************************************************************************)
(* The objects, for every byte spawn may draw, every roof a power-up may   *)
(* appear on and every byte the bullet may hit, the wall's flag included.  *)
(***************************************************************************)
EXTENDS Objects, TLAPS

(* Where each object can be.  The obstacle goes down one row with every    *)
(* column, and once its flag is cleared it stays behind the left edge.     *)
FallingIn ==
  /\ fallingobs \in Things
  /\ \/ /\ fallingobs.flag = 1 /\ fallingobs.x \in 0..21
        /\ fallingobs.x + fallingobs.y <= 21
     \/ fallingobs.flag = 0 /\ fallingobs.x = Gone /\ fallingobs.y <= 22

(* So does the wall, except that it can be at the right edge unflagged,    *)
(* and that it stands where it is when its flag is shot.                   *)
WallIn ==
  /\ staticobs \in [x : Byte, rows : [Blocks -> Byte], flag : Byte]
  /\ \A i \in Blocks : staticobs.rows[i] \in {4 + i, Gone}
  /\ \/ staticobs.flag = 1 /\ staticobs.x \in 0..21
     \/ staticobs.flag = 0 /\ staticobs.x \in {Gone, 21}
     \/ FlagShot /\ staticobs.x \in 0..21

(* How the wall moves.                                                     *)
WallSmooth ==
  /\ ~FlagShot => NoJump(staticobs.x, staticobs'.x)
  /\ FlagShot => staticobs'.x \in {staticobs.x, 21}

(* The power-up counts on for ever; its flag is a function of the column,  *)
(* but for the frame in which it is put back to the right edge.            *)
InSight(x) == x \in 0..22 \cup 128..150

PowerUpIn ==
  /\ powerUp \in Things
  /\ \/ powerUp.flag = 1 /\ InSight(powerUp.x)
     \/ powerUp.flag = 0 /\ ~InSight(powerUp.x)
     \/ powerUp.flag = 0 /\ powerUp.x = 21 /\ phase = "move"

IInv ==
  /\ phase \in {"detect", "spawn", "move"}
  /\ FallingIn /\ WallIn /\ PowerUpIn

-----------------------------------------------------------------------------
LEMMA WrapIs ==
  ASSUME NEW n \in Int
  PROVE  /\ Wrap(n) \in Byte
         /\ n \in Byte => Wrap(n) = n
         /\ n \in -256..-1 => Wrap(n) = n + 256
  BY DEF Wrap, Byte

(* One column to the left.                                                 *)
LEMMA LeftOf ==
  ASSUME NEW x \in Byte
  PROVE  Wrap(x - 1) = (IF x = 0 THEN 255 ELSE x - 1) /\ Wrap(x - 1) \in Byte
<1>1. x - 1 \in -256..-1 \/ x - 1 \in Byte
  BY DEF Byte
<1> QED  BY <1>1, WrapIs DEF Byte

(* With its sign bit masked a column is compared as a number.              *)
LEMMA SightOf ==
  ASSUME NEW x \in Byte, NEW edge \in {23, 24}
  PROVE  OnScreen(x, edge) <=> x % 128 < edge
<1>1. x % 128 \in 0..127
  BY DEF Byte
<1>2. (x % 128) - edge \in -256..-1 \/ (x % 128) - edge \in Byte
  BY <1>1 DEF Byte
<1>3. Wrap((x % 128) - edge) =
        IF x % 128 < edge THEN (x % 128) - edge + 256 ELSE (x % 128) - edge
  BY <1>1, <1>2, WrapIs DEF Byte
<1> QED  BY <1>1, <1>3 DEF OnScreen, Below

LEMMA SightIs == \A x \in Byte : OnScreen(x, 23) <=> InSight(x)
<1> SUFFICES ASSUME NEW x \in Byte
             PROVE  x % 128 < 23 <=> InSight(x)
  BY SightOf
<1> QED  BY DEF InSight, Byte

LEMMA GoneOff == ~OnScreen(Gone, 24) /\ ~OnScreen(Gone, 23)
<1>1. Gone \in Byte /\ Gone % 128 = 127
  BY DEF Gone, Byte
<1> QED  BY <1>1, SightOf

LEMMA InView == \A x \in 0..21 : OnScreen(x, 24) /\ OnScreen(x, 23)
<1> SUFFICES ASSUME NEW x \in 0..21
             PROVE  OnScreen(x, 24) /\ OnScreen(x, 23)
  OBVIOUS
<1>1. x \in Byte /\ x % 128 = x
  BY DEF Byte
<1> QED  BY <1>1, SightOf

(* A wall with a new column and flag is a wall.                            *)
LEMMA WallPlaced ==
  ASSUME NEW w \in [x : Byte, rows : [Blocks -> Byte], flag : Byte],
         NEW x \in Byte, NEW b \in Byte
  PROVE  LET moved == [w EXCEPT !.x = x, !.flag = b]
         IN  /\ moved \in [x : Byte, rows : [Blocks -> Byte], flag : Byte]
             /\ moved.x = x /\ moved.rows = w.rows /\ moved.flag = b
  OBVIOUS

-----------------------------------------------------------------------------
LEMMA FallingMoves ==
  ASSUME FallingIn, updatefallingobs
  PROVE  FallingIn' /\ NoJump(fallingobs.x, fallingobs'.x)
<1> DEFINE x == Wrap(fallingobs.x - 1)
<1>1. CASE fallingobs.flag # 1
  BY <1>1 DEF FallingIn, updatefallingobs, NoJump, Gone
<1>2. CASE fallingobs.flag = 1
  <2>1. fallingobs.x \in 0..21 /\ fallingobs.x + fallingobs.y <= 21 /\ fallingobs.y \in 0..21
    BY <1>2 DEF FallingIn, Things, Byte
  <2>2. x = (IF fallingobs.x = 0 THEN Gone ELSE fallingobs.x - 1) /\ x \in Byte
    <3>1. fallingobs.x \in Byte
      BY <2>1 DEF Byte
    <3> QED  BY <3>1, LeftOf DEF Gone
  <2>3. Wrap(fallingobs.y + 1) = fallingobs.y + 1 /\ fallingobs.y + 1 \in Byte
    BY <2>1, WrapIs DEF Byte
  <2>4. fallingobs' = [x |-> x, y |-> fallingobs.y + 1,
                       flag |-> IF OnScreen(x, 24) THEN 1 ELSE 0]
    BY <1>2, <2>3 DEF updatefallingobs
  <2>5. OnScreen(x, 24) <=> fallingobs.x # 0
    BY <2>1, <2>2, GoneOff, InView
  <2> HIDE DEF x
  <2> QED  BY <2>1, <2>2, <2>3, <2>4, <2>5 DEF FallingIn, Things, Byte, NoJump, Gone
<1> QED  BY <1>1, <1>2

LEMMA WallMoves ==
  ASSUME WallIn, updateWalls
  PROVE  WallIn' /\ WallSmooth
<1> DEFINE x == Wrap(staticobs.x - 1)
<1>1. CASE staticobs.flag # 1
  BY <1>1 DEF WallIn, updateWalls, NoJump, Gone, FlagShot, WallSmooth
<1>2. CASE staticobs.flag = 1
  <2>1. staticobs.x \in 0..21
    BY <1>2 DEF WallIn
  <2>2. x = (IF staticobs.x = 0 THEN Gone ELSE staticobs.x - 1) /\ x \in Byte
    <3>1. staticobs.x \in Byte
      BY <2>1 DEF Byte
    <3> QED  BY <3>1, LeftOf DEF Gone
  <2>3. staticobs' = [staticobs EXCEPT !.x = x, !.flag = IF OnScreen(x, 23) THEN 1 ELSE 0]
    BY <1>2 DEF updateWalls
  <2>4. OnScreen(x, 23) <=> staticobs.x # 0
    BY <2>1, <2>2, GoneOff, InView
  <2> HIDE DEF x
  <2>5. /\ staticobs' \in [x : Byte, rows : [Blocks -> Byte], flag : Byte]
        /\ staticobs'.x = x /\ staticobs'.rows = staticobs.rows
        /\ staticobs'.flag = IF OnScreen(x, 23) THEN 1 ELSE 0
    <3>1. (IF OnScreen(x, 23) THEN 1 ELSE 0) \in Byte
      BY DEF Byte
    <3> QED  BY <2>2, <2>3, <3>1, WallPlaced DEF WallIn
  <2>6. \A i \in Blocks : staticobs'.rows[i] \in {4 + i, Gone}
    BY <2>5 DEF WallIn
  <2> QED  BY <1>2, <2>1, <2>2, <2>4, <2>5, <2>6 DEF WallIn, NoJump, Gone, FlagShot, WallSmooth
<1> QED  BY <1>1, <1>2

LEMMA PowerUpMoves ==
  ASSUME PowerUpIn, updatePowerUp
  PROVE  /\ powerUp' \in Things
         /\ powerUp'.flag = IF InSight(powerUp'.x) THEN 1 ELSE 0
         /\ NoJump(powerUp.x, powerUp'.x)
<1> DEFINE x == Wrap(powerUp.x - 1)
<1>1. powerUp \in Things /\ powerUp.x \in Byte
  BY DEF PowerUpIn, Things
<1>2. x = (IF powerUp.x = 0 THEN 255 ELSE powerUp.x - 1) /\ x \in Byte
  BY <1>1, LeftOf
<1>3. powerUp' = [powerUp EXCEPT !.x = x, !.flag = IF OnScreen(x, 23) THEN 1 ELSE 0]
  BY DEF updatePowerUp
<1>4. OnScreen(x, 23) <=> InSight(x)
  BY <1>2, SightIs
<1> HIDE DEF x
<1>5. /\ powerUp' \in Things /\ powerUp'.x = x
      /\ powerUp'.flag = IF OnScreen(x, 23) THEN 1 ELSE 0
  <2>1. PICK b \in {0, 1} : b = IF OnScreen(x, 23) THEN 1 ELSE 0
    OBVIOUS
  <2>2. b \in Byte
    BY DEF Byte
  <2>3. powerUp' = [powerUp EXCEPT !.x = x, !.flag = b]
    BY <1>3, <2>1
  <2>4. powerUp' \in Things /\ powerUp'.x = x /\ powerUp'.flag = b
    BY <1>1, <1>2, <2>2, <2>3 DEF Things
  <2> QED  BY <2>1, <2>4
<1>6. NoJump(powerUp.x, x)
  BY <1>1, <1>2 DEF NoJump, Byte
<1> QED  BY <1>4, <1>5, <1>6

(* Nothing appears while another of its kind is in sight.                  *)
Smooth ==
  /\ NoJump(powerUp.x, powerUp'.x) \/ powerUp'.x = Gone
  /\ NoJump(fallingobs.x, fallingobs'.x)
  /\ WallSmooth

LEMMA StaySmooth ==
  /\ IInv /\ UNCHANGED fallingobs => NoJump(fallingobs.x, fallingobs'.x)
  /\ IInv /\ UNCHANGED staticobs => WallSmooth
  /\ IInv /\ UNCHANGED powerUp => NoJump(powerUp.x, powerUp'.x)
  BY DEF IInv, NoJump, WallSmooth

LEMMA SpawnPowerUp ==
  ASSUME IInv, phase = "spawn", phase' = "move",
         NEW roof \in Byte, NEW dir \in 0..2, spawnpUP(roof, dir)
  PROVE  IInv' /\ Smooth
<1>1. powerUp.flag = 0 /\ ~InSight(powerUp.x)
  BY DEF IInv, PowerUpIn, spawnpUP
<1>2. RoomRow(roof, dir) \in Byte
  BY WrapIs DEF RoomRow, Byte
<1>3. SpawnRow(roof, dir) \in Byte
  BY <1>2, WrapIs DEF SpawnRow, Byte
<1>4. powerUp' \in Things /\ powerUp'.x = 21 /\ powerUp'.flag = 0
  <2>1. 21 \in Byte /\ powerUp \in Things
    BY DEF IInv, PowerUpIn, Byte
  <2>2. powerUp' = [powerUp EXCEPT !.x = 21, !.y = SpawnRow(roof, dir)]
    BY DEF spawnpUP
  <2> QED  BY <1>1, <1>3, <2>1, <2>2 DEF Things
<1>5. NoJump(powerUp.x, powerUp'.x)
  BY <1>1 DEF NoJump, InSight
<1>6. UNCHANGED <<fallingobs, staticobs>>
  BY DEF spawnpUP
<1> QED  BY <1>4, <1>5, <1>6, StaySmooth DEF IInv, PowerUpIn, FallingIn, WallIn, FlagShot, Smooth

LEMMA SpawnObstacle ==
  ASSUME IInv, phase = "spawn", phase' = "move", spawnObs
  PROVE  IInv' /\ Smooth
<1>1. fallingobs.flag = 0 /\ fallingobs.x = Gone
  BY DEF IInv, FallingIn, spawnObs
<1>2. fallingobs' = [x |-> 21, y |-> 0, flag |-> 1]
  BY <1>1, WrapIs DEF spawnObs, Byte
<1>3. FallingIn'
  BY <1>2 DEF FallingIn, Things, Byte
<1>4. NoJump(fallingobs.x, fallingobs'.x)
  BY <1>1 DEF NoJump, Gone
<1>5. UNCHANGED <<powerUp, staticobs>>
  BY DEF spawnObs
<1> QED  BY <1>3, <1>4, <1>5, StaySmooth DEF IInv, PowerUpIn, WallIn, FlagShot, Smooth

(* The flag is counted to 1, or from the 255 a shot has left to 0.         *)
LEMMA SpawnWall ==
  ASSUME IInv, phase = "spawn", phase' = "move", NEW level, spawnWall(level)
  PROVE  IInv' /\ Smooth
<1>1. \/ staticobs.flag = 0 /\ staticobs.x \in {Gone, 21}
      \/ FlagShot
  BY DEF IInv, WallIn, spawnWall
<1>2. /\ staticobs' = [x |-> 21, rows |-> [i \in Blocks |-> 4 + i], flag |-> Wrap(staticobs.flag + 1)]
      /\ Wrap(0 + 1) = 1 /\ Wrap(Gone + 1) = 0
  BY DEF spawnWall, Wrap, Gone
<1>3. WallIn'
  BY <1>1, <1>2 DEF WallIn, Blocks, Byte, FlagShot
<1>4. WallSmooth
  BY <1>1, <1>2 DEF NoJump, Gone, FlagShot, WallSmooth
<1>5. UNCHANGED <<powerUp, fallingobs>>
  BY DEF spawnWall
<1> QED  BY <1>3, <1>4, <1>5, StaySmooth DEF IInv, PowerUpIn, FallingIn, Smooth

(* A block that is hit is gone, and the wall otherwise what it was; or its *)
(* flag is.                                                                *)
LEMMA ShootKeeps ==
  ASSUME WallIn, Shoot
  PROVE  WallIn' /\ WallSmooth
<1>1. PICK i \in Shot : staticobs' = Destroyed(i)
  BY DEF Shoot
<1>2. staticobs.x \in 0..21 /\ Gone \in Byte
  BY DEF Shoot, Gone, Byte
<1>3. /\ staticobs' \in [x : Byte, rows : [Blocks -> Byte], flag : Byte]
      /\ staticobs'.x = staticobs.x /\ staticobs'.flag \in {staticobs.flag, Gone}
      /\ \A j \in Blocks : staticobs'.rows[j] \in {4 + j, Gone}
  <2>1. CASE i \in Blocks
    BY <1>1, <1>2, <2>1 DEF Destroyed, WallIn
  <2>2. CASE i \notin Blocks
    BY <1>1, <1>2, <2>2 DEF Destroyed, WallIn
  <2> QED  BY <2>1, <2>2
<1> QED  BY <1>2, <1>3 DEF WallIn, NoJump, FlagShot, WallSmooth

LEMMA Hits ==
  ASSUME IInv, Hit
  PROVE  IInv' /\ Smooth
<1>1. CASE powerUp.x \in 0..21 /\ powerUp' = TakePowerUp /\ UNCHANGED staticobs
  <2>1. powerUp.flag = 1
    BY <1>1 DEF IInv, PowerUpIn, InSight, Hit
  <2>2. powerUp' \in Things /\ powerUp'.x = Gone /\ powerUp'.flag = 0
    <3>1. Gone \in Byte /\ 0 \in Byte /\ powerUp \in Things
      BY DEF IInv, PowerUpIn, Gone, Byte
    <3>2. Wrap(powerUp.flag - 1) = 0
      BY <2>1 DEF Wrap
    <3>3. powerUp' = [powerUp EXCEPT !.x = Gone, !.flag = 0]
      BY <1>1, <3>2 DEF TakePowerUp
    <3> QED  BY <3>1, <3>3 DEF Things
  <2>3. PowerUpIn'
    BY <2>2 DEF PowerUpIn, InSight, Gone
  <2> QED  BY <1>1, <2>2, <2>3, StaySmooth DEF Hit, IInv, FallingIn, WallIn, FlagShot, Smooth
<1>2. CASE Shoot /\ UNCHANGED powerUp
  <2>1. WallIn' /\ WallSmooth
    BY <1>2, ShootKeeps DEF IInv
  <2> QED  BY <1>2, <2>1, StaySmooth DEF Hit, IInv, FallingIn, PowerUpIn, Smooth
<1> QED  BY <1>1, <1>2 DEF Hit

LEMMA Steps ==
  ASSUME IInv, [Next]_vars
  PROVE  IInv' /\ (Smooth \/ UNCHANGED vars)
<1>1. CASE Hit
  BY <1>1, Hits
<1>2. CASE Detected
  <2>1. WallIn' /\ WallSmooth
    <3>1. CASE Shoot  BY <3>1, ShootKeeps DEF IInv
    <3>2. CASE UNCHANGED staticobs  BY <3>2, StaySmooth DEF IInv, WallIn, FlagShot
    <3> QED  BY <1>2, <3>1, <3>2 DEF Detected
  <2> QED  BY <1>2, <2>1, StaySmooth DEF Detected, IInv, FallingIn, PowerUpIn, Smooth
<1>3. CASE Spawn
  <2>1. phase = "spawn" /\ phase' = "move"
    BY <1>3 DEF Spawn, SpawnOf
  <2>2. PICK n \in Kinds \cup {0}, level \in {1, 3}, roof \in Roofs, dir \in 0..2 :
          spawn(n, level, roof, dir)
    BY <1>3 DEF Spawn, SpawnOf
  <2>3. CASE spawnpUP(roof, dir)
    BY <2>1, <2>3, ObjectsAssumption, SpawnPowerUp
  <2>4. CASE spawnObs
    BY <2>1, <2>4, SpawnObstacle
  <2>5. CASE spawnWall(level)
    BY <2>1, <2>5, SpawnWall
  <2>6. CASE nospawn(n, level)
    BY <2>1, <2>6, StaySmooth DEF nospawn, IInv, FallingIn, WallIn, FlagShot, PowerUpIn, Smooth
  <2> QED  BY <2>2, <2>3, <2>4, <2>5, <2>6 DEF spawn
<1>4. CASE Move
  <2>1. FallingIn' /\ NoJump(fallingobs.x, fallingobs'.x)
    BY <1>4, FallingMoves DEF Move, update, IInv
  <2>2. WallIn' /\ WallSmooth
    BY <1>4, WallMoves DEF Move, update, IInv
  <2>3. /\ powerUp' \in Things
        /\ powerUp'.flag = IF InSight(powerUp'.x) THEN 1 ELSE 0
        /\ NoJump(powerUp.x, powerUp'.x)
    BY <1>4, PowerUpMoves DEF Move, update, IInv
  <2>4. PowerUpIn'
    BY <2>3 DEF PowerUpIn, InSight
  <2> QED  BY <1>4, <2>1, <2>2, <2>3, <2>4 DEF Move, IInv, Smooth
<1>5. CASE UNCHANGED vars
  BY <1>5 DEF vars, IInv, FallingIn, WallIn, FlagShot, PowerUpIn
<1> QED  BY <1>1, <1>2, <1>3, <1>4, <1>5 DEF Next

LEMMA Starts == Init => IInv
<1> SUFFICES ASSUME Init PROVE IInv
  OBVIOUS
<1>1. FallingIn
  BY DEF Init, FallingIn, Things, Byte
<1>2. WallIn
  BY DEF Init, WallIn, Blocks, Gone, Byte, FlagShot
<1>3. PowerUpIn
  BY DEF Init, PowerUpIn, InSight, Things, Byte
<1> QED  BY <1>1, <1>2, <1>3 DEF Init, IInv

LEMMA Says ==
  ASSUME IInv
  PROVE  TypeOK /\ FlagsSay
<1>1. TypeOK
  BY DEF TypeOK, IInv, FallingIn, WallIn, PowerUpIn, Things, Byte
<1>2. /\ {powerUp.flag, fallingobs.flag} \subseteq {0, 1}
      /\ staticobs.flag \in {0, 1} \/ FlagShot
      /\ FlagShot => staticobs.x \in 0..21
  BY DEF IInv, FallingIn, WallIn, PowerUpIn, FlagShot, Gone
<1>3. ASSUME phase # "move"
      PROVE  /\ powerUp.x <= 21 => powerUp.flag = 1
             /\ fallingobs.x <= 21 => fallingobs.flag = 1
             /\ staticobs.x <= 20 => staticobs.flag = 1 \/ FlagShot
  BY <1>3 DEF IInv, FallingIn, WallIn, PowerUpIn, InSight, Things, Byte, Gone
<1> QED  BY <1>1, <1>2, <1>3 DEF FlagsSay

(* Whatever spawn draws, on any tunnel and with any hits: the flags of the *)
(* power-up and the obstacle stay yes or no and tell, whenever spawn       *)
(* looks, what is on the screen, and the wall's does until it is shot.     *)
THEOREM FlagsHold == Spec => [](TypeOK /\ FlagsSay)
<1>1. IInv /\ [Next]_vars => IInv'
  BY Steps
<1> QED  BY Starts, Says, <1>1, PTL DEF Spec

(* Nothing on the screen disappears or reappears elsewhere, but for a wall *)
(* whose flag was shot.                                                    *)
THEOREM MovesSmoothly == Spec => NothingJumps
<1> DEFINE Moves ==
      /\ NoJump(powerUp.x, powerUp'.x) \/ powerUp'.x = Gone
      /\ NoJump(fallingobs.x, fallingobs'.x)
      /\ ~FlagShot => NoJump(staticobs.x, staticobs'.x)
      /\ FlagShot => staticobs'.x \in {staticobs.x, 21}
<1>1. IInv /\ [Next]_vars => IInv' /\ [Moves]_vars
  BY Steps DEF Smooth, WallSmooth
<1>2. Spec => [][Moves]_vars
  BY Starts, <1>1, PTL DEF Spec
<1> QED  BY <1>2 DEF NothingJumps
=============================================================================

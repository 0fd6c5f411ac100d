------------------------ MODULE TunnelInvadersProofs ------------------------
(***************************************************************************)
(* The whole game, for all inputs, every overflow flag the clock may leave *)
(* and games of every length.  What its parts do in a step is taken from   *)
(* the modules that prove it of them, instantiated as the game             *)
(* instantiates the parts.  The last sections are about the players of the *)
(* runs, whose games are games.                                            *)
(***************************************************************************)
EXTENDS MCTunnelInvaders, ScreenProofs

CaveP == INSTANCE TunnelProofs WITH
  Width <- 22, Overflows <- BOOLEAN, Levels <- 1..3, MaxDrift <- 128,
  currLevel <- stage.level, currSubLevel <- stage.sub

GunP == INSTANCE WeaponsProofs WITH
  Tunnels <- {}, Starts <- {}, Walls <- FALSE, phase <- pc, scene <- pc

ThingP == INSTANCE ObjectsProofs WITH
  Kinds <- {2, 4, 6}, Roofs <- Byte, Shot <- 0..14, phase <- Phase

StatP == INSTANCE StatsProofs WITH
  Overflows <- BOOLEAN, MaxScore <- ScoreEnd, BusyScores <- 0..(ScoreEnd - 1), MaxAmmo <- 100

-----------------------------------------------------------------------------
(* The operators of those instances are those of the game's own.           *)
LEMMA StatCalls ==
  ASSUME NEW v
  PROVE  /\ Stat!UpdateScore(v) <=> StatP!UpdateScore(v)
         /\ Stat!Pickup(v) <=> StatP!Pickup(v)
<1>1. ASSUME NEW s
      PROVE  /\ Stat!AddOneToScore(s, v) = StatP!AddOneToScore(s, v)
             /\ Stat!AddTenPickScore(s, v) = StatP!AddTenPickScore(s, v)
  BY DEF Stat!AddOneToScore, Stat!AddTenPickScore, Stat!AddTenToScore, Stat!AddHunToScore,
         Stat!AddThouToScore, Stat!AddTThousToScore, Stat!Carries,
         StatP!AddOneToScore, StatP!AddTenPickScore, StatP!AddTenToScore, StatP!AddHunToScore,
         StatP!AddThouToScore, StatP!AddTThousToScore, StatP!Carries
<1>2. ASSUME NEW g
      PROVE  Stat!UpdateLevel(g, v) = StatP!UpdateLevel(g, v)
  BY DEF Stat!UpdateLevel, Stat!NextLevel, Stat!NextLevelHandler, Stat!ResetLevel,
         StatP!UpdateLevel, StatP!NextLevel, StatP!NextLevelHandler, StatP!ResetLevel
<1>3. Stat!UpdateScore(v) <=> StatP!UpdateScore(v)
  BY <1>1, <1>2
     DEF Stat!UpdateScore, Stat!CountFrame, Stat!AddPoint, Stat!LevelsUpOne, Stat!Carries,
         StatP!UpdateScore, StatP!CountFrame, StatP!AddPoint, StatP!LevelsUpOne, StatP!Carries
<1>4. Stat!Pickup(v) <=> StatP!Pickup(v)
  BY <1>1, <1>2
     DEF Stat!Pickup, Stat!LevelsUpPick, Stat!AddPickupToAmmo, Stat!Carries,
         StatP!Pickup, StatP!LevelsUpPick, StatP!AddPickupToAmmo, StatP!Carries
<1> QED  BY <1>3, <1>4

LEMMA StatSame ==
  /\ Stat!TypeOK <=> StatP!TypeOK
  /\ Stat!TypeOK' <=> StatP!TypeOK'
  /\ [Stat!Next]_(Stat!vars) <=> [StatP!Next]_(StatP!vars)
<1>1. Stat!TypeOK <=> StatP!TypeOK
  BY DEF Stat!TypeOK, Stat!Scores, Stat!Stages, Stat!Digit,
         StatP!TypeOK, StatP!Scores, StatP!Stages, StatP!Digit
<1>2. Stat!TypeOK' <=> StatP!TypeOK'
  BY DEF Stat!TypeOK, Stat!Scores, Stat!Stages, Stat!Digit,
         StatP!TypeOK, StatP!Scores, StatP!Stages, StatP!Digit
<1>3. Stat!vars = StatP!vars /\ Stat!vars' = StatP!vars'
  BY DEF Stat!vars, StatP!vars
<1>4. Stat!SpendBullet <=> StatP!SpendBullet
  BY DEF Stat!SpendBullet, Stat!HasAmmo, Stat!OneBulletLess,
         StatP!SpendBullet, StatP!HasAmmo, StatP!OneBulletLess
<1>5. Stat!Total(score) = StatP!Total(score) /\ Stat!Bullets(ammo) = StatP!Bullets(ammo)
  BY DEF Stat!Total, Stat!Bullets, StatP!Total, StatP!Bullets
<1>6. Stat!Next <=> StatP!Next
  BY StatCalls, <1>4, <1>5, Zenon DEF Stat!Next, StatP!Next
<1> QED  BY <1>1, <1>2, <1>3, <1>6

LEMMA ScoreEndIs == ScoreEnd \in Nat
BY DEF ScoreEnd

LEMMA StatStep ==
  ASSUME Stat!TypeOK, [Stat!Next]_(Stat!vars)
  PROVE  Stat!TypeOK'
<1>1. BOOLEAN \subseteq BOOLEAN /\ ScoreEnd \in Nat /\ 100 \in Nat
  BY ScoreEndIs
<1>2. StatP!TypeOK /\ [StatP!Next]_(StatP!vars)
  BY StatSame
<1>3. StatP!TypeOK'
  BY <1>1, <1>2, StatP!TypeStep, Zenon
<1> QED  BY <1>3, StatSame

(* The same for the tunnel.                                                *)
LEMMA CaveSame ==
  /\ CaveP!IInv <=> Cave!TypeOK /\ Cave!Corridors /\ Cave!Slopes
  /\ CaveP!IInv' <=> Cave!TypeOK' /\ Cave!Corridors' /\ Cave!Slopes'
  /\ [Cave!Next]_(Cave!vars) <=> [CaveP!Next]_(CaveP!vars)
  /\ Cave!noUpdate <=> CaveP!noUpdate
  /\ \A v : Cave!NewColumn(v) <=> CaveP!NewColumn(v)
<1>1. CaveP!IInv <=> Cave!TypeOK /\ Cave!Corridors /\ Cave!Slopes
  BY DEF CaveP!IInv, CaveP!TypeOK, CaveP!Corridors, CaveP!Slopes, CaveP!Columns, CaveP!Last,
         CaveP!Byte, CaveP!InBounds, CaveP!Step, CaveP!Wrap, CaveP!Signed,
         Cave!TypeOK, Cave!Corridors, Cave!Slopes, Cave!Columns, Cave!Last,
         Cave!Byte, Cave!InBounds, Cave!Step, Cave!Wrap, Cave!Signed
<1>2. CaveP!IInv' <=> Cave!TypeOK' /\ Cave!Corridors' /\ Cave!Slopes'
  BY DEF CaveP!IInv, CaveP!TypeOK, CaveP!Corridors, CaveP!Slopes, CaveP!Columns, CaveP!Last,
         CaveP!Byte, CaveP!InBounds, CaveP!Step, CaveP!Wrap, CaveP!Signed,
         Cave!TypeOK, Cave!Corridors, Cave!Slopes, Cave!Columns, Cave!Last,
         Cave!Byte, Cave!InBounds, Cave!Step, Cave!Wrap, Cave!Signed
<1>3. Cave!vars = CaveP!vars /\ Cave!vars' = CaveP!vars'
  BY DEF Cave!vars, Cave!tunnel, Cave!stage, CaveP!vars, CaveP!tunnel, CaveP!stage
<1>4. ASSUME NEW n PROVE Cave!Wrap(n) = CaveP!Wrap(n)
  BY DEF Cave!Wrap, CaveP!Wrap
<1>5. ASSUME NEW a, NEW b PROVE Cave!Below(a, b) <=> CaveP!Below(a, b)
  BY DEF Cave!Below, Cave!Wrap, CaveP!Below, CaveP!Wrap
<1>6. ASSUME NEW a, NEW b PROVE Cave!AddOverflows(a, b) <=> CaveP!AddOverflows(a, b)
  BY DEF Cave!AddOverflows, Cave!Signed, CaveP!AddOverflows, CaveP!Signed
<1>7. ASSUME NEW t, NEW lo, NEW hi, NEW v
      PROVE  Cave!Steer(t, lo, hi, v) = CaveP!Steer(t, lo, hi, v)
  BY <1>4, <1>5 DEF Cave!Steer, CaveP!Steer
<1>8. ASSUME NEW t, NEW d
      PROVE  /\ Cave!SteadyColumn(t, d) = CaveP!SteadyColumn(t, d)
             /\ Cave!RoughColumns(t, d) = CaveP!RoughColumns(t, d)
             /\ Cave!OpenColumn(t, d) = CaveP!OpenColumn(t, d)
  BY <1>4, <1>6
     DEF Cave!SteadyColumn, Cave!RoughColumns, Cave!OpenColumn, Cave!RoughDown, Cave!RoughUp,
         Cave!RoughHeight, Cave!Column,
         CaveP!SteadyColumn, CaveP!RoughColumns, CaveP!OpenColumn, CaveP!RoughDown, CaveP!RoughUp,
         CaveP!RoughHeight, CaveP!Column
<1>9. ASSUME NEW set PROVE Cave!Shift(set) = CaveP!Shift(set)
  BY DEF Cave!Shift, Cave!Columns, Cave!Last, CaveP!Shift, CaveP!Columns, CaveP!Last
<1>10. ASSUME NEW column PROVE Cave!Draw(column) <=> CaveP!Draw(column)
  BY <1>9 DEF Cave!Draw, Cave!Last, CaveP!Draw, CaveP!Last
<1>11. ASSUME NEW v
       PROVE  /\ Cave!algo1(v) <=> CaveP!algo1(v)
              /\ Cave!algo2(v) <=> CaveP!algo2(v)
              /\ Cave!algo3 <=> CaveP!algo3
  BY <1>7, <1>8, <1>10
     DEF Cave!algo1, Cave!algo2, Cave!algo3, Cave!Steered, Cave!Last,
         CaveP!algo1, CaveP!algo2, CaveP!algo3, CaveP!Steered, CaveP!Last
<1>12. ASSUME NEW v
       PROVE  /\ Cave!NewColumn(v) <=> CaveP!NewColumn(v)
              /\ Cave!updateLevel(v) <=> CaveP!updateLevel(v)
  BY <1>11
     DEF Cave!NewColumn, Cave!Drifted, Cave!Signed, Cave!updateLevel, Cave!stage, Cave!tunnel,
         CaveP!NewColumn, CaveP!Drifted, CaveP!Signed, CaveP!updateLevel, CaveP!stage, CaveP!tunnel
<1>13. Cave!noUpdate <=> CaveP!noUpdate
  BY <1>9 DEF Cave!noUpdate, Cave!stage, CaveP!noUpdate, CaveP!stage
<1>14. Cave!Next <=> CaveP!Next
  BY <1>12, <1>13, Zenon DEF Cave!Next, CaveP!Next
<1>15. \A v : Cave!NewColumn(v) <=> CaveP!NewColumn(v)
  BY <1>12, Zenon
<1> QED  BY <1>1, <1>2, <1>3, <1>13, <1>14, <1>15

LEMMA CaveStep ==
  ASSUME Cave!TypeOK, Cave!Corridors, Cave!Slopes, [Cave!Next]_(Cave!vars)
  PROVE  Cave!TypeOK' /\ Cave!Corridors' /\ Cave!Slopes'
<1>1. 22 \in Nat /\ 22 >= 2 /\ BOOLEAN \subseteq BOOLEAN /\ 128 \in Nat
  OBVIOUS
<1>2. CaveP!IInv /\ [CaveP!Next]_(CaveP!vars)
  BY CaveSame
<1>3. CaveP!IInv'
  BY <1>1, <1>2, CaveP!Holds, Zenon
<1> QED  BY <1>3, CaveSame

(* And for the ship, the bullet and the wall.                              *)
BulletIn == GunP!BulletIn
WallIn == GunP!WallIn

LEMMA GunSame ==
  /\ \A top, empty : Gun!bulletdetect(top, empty) <=> GunP!bulletdetect(top, empty)
  /\ \A loaded : Gun!fireBullet(loaded) <=> GunP!fireBullet(loaded)
  /\ \A input : Gun!Steered(input) = GunP!Steered(input)
  /\ Gun!updateBullet <=> GunP!updateBullet
<1>1. ASSUME NEW b PROVE Gun!Lost(b) = GunP!Lost(b)
  BY DEF Gun!Lost, Gun!Wrap, GunP!Lost, GunP!Wrap
<1>2. ASSUME NEW i PROVE Gun!Without(i) = GunP!Without(i)
  BY DEF Gun!Without, Gun!Blocks, GunP!Without, GunP!Blocks
<1>3. ASSUME NEW top, NEW empty, NEW i
      PROVE  Gun!BlockAt(top, empty, i) = GunP!BlockAt(top, empty, i)
  BY DEF Gun!BlockAt, Gun!Blocks, Gun!InUpperHalf, Gun!Below, Gun!Wrap, Gun!PowerUpRows,
         GunP!BlockAt, GunP!Blocks, GunP!InUpperHalf, GunP!Below, GunP!Wrap, GunP!PowerUpRows
<1>4. Gun!Compared = GunP!Compared
  BY DEF Gun!Compared, Gun!Blocks, Gun!Wrap, GunP!Compared, GunP!Blocks, GunP!Wrap
<1>5. ASSUME NEW top, NEW empty
      PROVE  Gun!BlocksHit(top, empty) = GunP!BlocksHit(top, empty)
  BY <1>3, <1>4 DEF Gun!BlocksHit, GunP!BlocksHit
<1>7. ASSUME NEW top, NEW empty
      PROVE  /\ Gun!AfterWall(top, empty) = GunP!AfterWall(top, empty)
             /\ Gun!bulletWall(top, empty) <=> GunP!bulletWall(top, empty)
  BY <1>1, <1>2, <1>5
     DEF Gun!AfterWall, Gun!bulletWall, GunP!AfterWall, GunP!bulletWall
<1>8. ASSUME NEW t, NEW e, NEW y PROVE Gun!Open(t, e, y) <=> GunP!Open(t, e, y)
  BY DEF Gun!Open, Gun!InUpperHalf, Gun!Below, Gun!Wrap,
         GunP!Open, GunP!InUpperHalf, GunP!Below, GunP!Wrap
<1>9. ASSUME NEW top, NEW empty, NEW x
      PROVE  /\ Gun!TopAt(top, empty, x) = GunP!TopAt(top, empty, x)
             /\ Gun!EmptyAt(empty, x) = GunP!EmptyAt(empty, x)
  BY DEF Gun!TopAt, Gun!EmptyAt, Gun!GlyphByte, GunP!TopAt, GunP!EmptyAt, GunP!GlyphByte
<1>10. ASSUME NEW top, NEW empty
       PROVE  Gun!bulletdetect(top, empty) <=> GunP!bulletdetect(top, empty)
  BY <1>1, <1>7, <1>8, <1>9 DEF Gun!bulletdetect, GunP!bulletdetect
<1>11. ASSUME NEW loaded PROVE Gun!fireBullet(loaded) <=> GunP!fireBullet(loaded)
  BY DEF Gun!fireBullet, Gun!MayFire, GunP!fireBullet, GunP!MayFire
<1>12. ASSUME NEW input PROVE Gun!Steered(input) = GunP!Steered(input)
  BY DEF Gun!Steered, GunP!Steered
<1>13. Gun!updateBullet <=> GunP!updateBullet
  BY DEF Gun!updateBullet, Gun!Below, Gun!Wrap, GunP!updateBullet, GunP!Below, GunP!Wrap
<1> QED  BY <1>10, <1>11, <1>12, <1>13, Zenon

(* And for the objects.                                                    *)
ObjectsIn == ThingP!IInv

LEMMA ThingParameters ==
  {2, 4, 6} \subseteq {2, 4, 6} /\ Byte \subseteq ThingP!Byte /\ 0..14 \subseteq 0..14
BY DEF Byte, ThingP!Byte

LEMMA ThingSame ==
  /\ Thing!Init <=> ThingP!Init
  /\ [Thing!Next]_(Thing!vars) <=> [ThingP!Next]_(ThingP!vars)
  /\ Thing!Things = ThingP!Things
<1>1. ASSUME NEW n PROVE Thing!Wrap(n) = ThingP!Wrap(n)
  BY DEF Thing!Wrap, ThingP!Wrap
<1>2. ASSUME NEW x, NEW edge PROVE Thing!OnScreen(x, edge) <=> ThingP!OnScreen(x, edge)
  BY DEF Thing!OnScreen, Thing!Below, Thing!Wrap, ThingP!OnScreen, ThingP!Below, ThingP!Wrap
<1>3. Thing!vars = ThingP!vars /\ Thing!vars' = ThingP!vars'
  BY DEF Thing!vars, ThingP!vars
<1>4. Thing!Shoot <=> ThingP!Shoot
  BY DEF Thing!Shoot, Thing!Destroyed, Thing!Blocks, Thing!Gone,
         ThingP!Shoot, ThingP!Destroyed, ThingP!Blocks, ThingP!Gone
<1>5. Thing!TakePowerUp = ThingP!TakePowerUp
  BY <1>1 DEF Thing!TakePowerUp, Thing!Gone, ThingP!TakePowerUp, ThingP!Gone
<1>6. ASSUME NEW n, NEW level, NEW roof, NEW dir
      PROVE  Thing!spawn(n, level, roof, dir) <=> ThingP!spawn(n, level, roof, dir)
  <2>1. Thing!SpawnRow(roof, dir) = ThingP!SpawnRow(roof, dir)
    BY <1>1 DEF Thing!SpawnRow, Thing!RoomRow, ThingP!SpawnRow, ThingP!RoomRow
  <2> QED  BY <1>1, <2>1
       DEF Thing!spawn, Thing!spawnpUP, Thing!spawnObs, Thing!spawnWall, Thing!nospawn, Thing!Blocks,
           ThingP!spawn, ThingP!spawnpUP, ThingP!spawnObs, ThingP!spawnWall, ThingP!nospawn,
           ThingP!Blocks
<1>7. Thing!update <=> ThingP!update
  BY <1>1, <1>2
     DEF Thing!update, Thing!updatefallingobs, Thing!updateWalls, Thing!updatePowerUp,
         ThingP!update, ThingP!updatefallingobs, ThingP!updateWalls, ThingP!updatePowerUp
<1>8. Thing!Next <=> ThingP!Next
  <2>1. Thing!Hit <=> ThingP!Hit
    BY <1>4, <1>5 DEF Thing!Hit, ThingP!Hit
  <2>2. Thing!Detected <=> ThingP!Detected
    BY <1>4 DEF Thing!Detected, ThingP!Detected
  <2>3. Thing!Spawn <=> ThingP!Spawn
    BY <1>6 DEF Thing!Spawn, Thing!SpawnOf, ThingP!Spawn, ThingP!SpawnOf
  <2>4. Thing!Move <=> ThingP!Move
    BY <1>7 DEF Thing!Move, ThingP!Move
  <2> QED  BY <2>1, <2>2, <2>3, <2>4 DEF Thing!Next, ThingP!Next
<1>9. Thing!Init <=> ThingP!Init
  BY DEF Thing!Init, Thing!Blocks, Thing!Gone, ThingP!Init, ThingP!Blocks, ThingP!Gone
<1>10. Thing!Things = ThingP!Things
  BY DEF Thing!Things, Thing!Byte, ThingP!Things, ThingP!Byte
<1> QED  BY <1>3, <1>8, <1>9, <1>10

-----------------------------------------------------------------------------
(* The types of the whole game.                                            *)
Calls ==
  {"setchars", "intro", "down", "release", "hit1", "bullet1", "input", "hit2", "bullet2",
   "spawn", "update", "score", "wait", "over"}

Typed ==
  /\ pc \in Calls /\ overflow \in BOOLEAN
  /\ ship \in [x : 0..21, y : 0..21]
  /\ BulletIn /\ WallIn
  /\ powerUp \in Thing!Things /\ fallingobs \in Thing!Things /\ ObjectsIn
  /\ Stat!TypeOK
  /\ Cave!TypeOK /\ Cave!Corridors /\ Cave!Slopes

(* The bounds of Stats are none: five digits stay below one, two below the *)
(* other.                                                                  *)
LEMMA Unbounded ==
  ASSUME Stat!TypeOK
  PROVE  /\ Stat!Total(score) < ScoreEnd
         /\ Stat!Total(score) \in 0..(ScoreEnd - 1)
         /\ Stat!Bullets(ammo) < 100
<1>1. score \in StatP!Scores
  BY StatSame DEF StatP!TypeOK
<1>2. StatP!FiveDigits(StatP!Total(score))
  BY <1>1, BOOLEAN \subseteq BOOLEAN, ScoreEndIs, 100 \in Nat, StatP!TotalBound, Zenon
<1>3. StatP!Total(score) \in Nat /\ StatP!Total(score) < ScoreEnd
  BY <1>2 DEF StatP!FiveDigits, ScoreEnd
<1>4. Stat!Total(score) = StatP!Total(score)
  BY DEF Stat!Total, StatP!Total
<1>5. ammo.ones \in 0..9 /\ ammo.tens \in 0..9
  BY DEF Stat!TypeOK, Stat!Digit
<1>6. Stat!Bullets(ammo) < 100
  BY <1>5 DEF Stat!Bullets
<1> QED  BY <1>3, <1>4, <1>6, ScoreEndIs

(* Every call does to the status line one of the things Stats knows, with  *)
(* the overflow flag as it finds it, or nothing.                           *)
LEMMA StatusCalls ==
  ASSUME [Next]_vars
  PROVE  \/ pc = "score" /\ Stat!UpdateScore(overflow)
         \/ pc \in {"hit1", "hit2"} /\ Stat!Pickup(overflow)
         \/ Stat!SpendBullet
         \/ UNCHANGED status
<1>1. ASSUME NEW now \in {"hit1", "hit2"}, NEW next, Hit(now, next)
      PROVE  pc \in {"hit1", "hit2"} /\ (Stat!Pickup(overflow) \/ UNCHANGED status)
  BY <1>1 DEF Hit, hitdetect, powerUpDetect
<1>2. ASSUME NEW now, NEW next, Bullet(now, next) PROVE UNCHANGED status
  BY <1>2 DEF Bullet
<1>3. CASE useInput
  BY <1>3 DEF useInput
<1>4. CASE updateScore
  BY <1>4 DEF updateScore
<1>5. CASE SetChars \/ waitTurn \/ gameOver \/ Watched \/ spawn \/ updatedata
  BY <1>5 DEF SetChars, waitTurn, gameOver, Watched, spawn, updatedata, vars
<1>6. ASSUME NEW input \in Inputs, quitIntro(input) PROVE UNCHANGED status
  BY <1>6 DEF quitIntro, Polled
<1>7. CASE UNCHANGED vars
  BY <1>7 DEF vars
<1> QED  BY <1>1, <1>2, <1>3, <1>4, <1>5, <1>6, <1>7 DEF Next

LEMMA StatusStep ==
  ASSUME Typed, [Next]_vars
  PROVE  [Stat!Next]_(Stat!vars)
<1>1. overflow \in BOOLEAN /\ Stat!TypeOK
  BY DEF Typed
<1>2. UNCHANGED status => UNCHANGED Stat!vars
  BY DEF status, Stat!vars
<1> QED  BY <1>1, <1>2, StatusCalls, Unbounded DEF Stat!Next

(* updateLevel, seen from the tunnel.                                      *)
LEMMA LevelStep ==
  ASSUME Stat!TypeOK, NEW v \in BOOLEAN,
         stage' = Stat!UpdateLevel(stage, v), UNCHANGED tunnel
  PROVE  Cave!updateLevel(v)
<1> DEFINE h == StatP!UpdateLevel(stage, v)
<1>1. stage \in StatP!Stages
  BY StatSame DEF StatP!TypeOK
<1>2. /\ v => h.level = 1 /\ h.sub = 1
      /\ (~v /\ stage.sub = 1) => (h.level = stage.level /\ h.sub = 2)
      /\ (~v /\ stage.sub = 2) =>
           (h.sub = 1 /\ h.level = IF stage.level = 3 THEN 1 ELSE stage.level + 1)
  BY <1>1, BOOLEAN \subseteq BOOLEAN, ScoreEndIs, 100 \in Nat, StatP!LevelMoves, Zenon
<1>3. stage' = h
  BY DEF Stat!UpdateLevel, Stat!NextLevel, Stat!NextLevelHandler, Stat!ResetLevel,
         StatP!UpdateLevel, StatP!NextLevel, StatP!NextLevelHandler, StatP!ResetLevel
<1>4. stage.level \in 1..3 /\ stage.sub \in 1..2
  BY <1>1 DEF StatP!Stages
<1> HIDE DEF h
<1>5. UNCHANGED Cave!tunnel
  BY DEF tunnel, Cave!tunnel
<1> QED  BY <1>2, <1>3, <1>4, <1>5 DEF Cave!updateLevel

(* A power-up's twenty points move the level on once at most.              *)
LEMMA PickupLevel ==
  ASSUME Stat!TypeOK, NEW v \in BOOLEAN, Stat!Pickup(v)
  PROVE  stage' = stage \/ stage' = Stat!UpdateLevel(stage, v)
<1>1. score \in StatP!Scores
  BY StatSame DEF StatP!TypeOK
<1>2. StatP!LevelsUpPick(score) => ~StatP!LevelsUpPick(StatP!AddTenPickScore(score, v))
  BY <1>1, BOOLEAN \subseteq BOOLEAN, ScoreEndIs, 100 \in Nat, StatP!OneLevelUp, Zenon
<1>3. ASSUME NEW s PROVE Stat!LevelsUpPick(s) <=> StatP!LevelsUpPick(s)
  BY DEF Stat!LevelsUpPick, StatP!LevelsUpPick
<1>4. Stat!AddTenPickScore(score, v) = StatP!AddTenPickScore(score, v)
  BY DEF Stat!AddTenPickScore, Stat!AddHunToScore, Stat!AddThouToScore,
         Stat!AddTThousToScore, Stat!Carries,
         StatP!AddTenPickScore, StatP!AddHunToScore, StatP!AddThouToScore,
         StatP!AddTThousToScore, StatP!Carries
<1> QED  BY <1>2, <1>3, <1>4 DEF Stat!Pickup

LEMMA TunnelStep ==
  ASSUME Typed, [Next]_vars
  PROVE  [Cave!Next]_(Cave!vars)
<1>0. overflow \in BOOLEAN /\ Stat!TypeOK
  BY DEF Typed
<1>1. UNCHANGED tunnel /\ UNCHANGED stage => UNCHANGED Cave!vars
  BY DEF tunnel, Cave!vars, Cave!tunnel, Cave!stage
<1>2. UNCHANGED status => UNCHANGED stage
  BY DEF status
<1>3. UNCHANGED tunnel /\ stage' = Stat!UpdateLevel(stage, overflow) => Cave!Next
  BY <1>0, LevelStep DEF Cave!Next
<1>4. ASSUME NEW now, NEW next, Hit(now, next) PROVE [Cave!Next]_(Cave!vars)
  <2>1. UNCHANGED tunnel /\ (Stat!Pickup(overflow) \/ UNCHANGED status)
    BY <1>4 DEF Hit, hitdetect, powerUpDetect
  <2>2. stage' = stage \/ stage' = Stat!UpdateLevel(stage, overflow)
    BY <1>0, <1>2, <2>1, PickupLevel
  <2> QED  BY <1>1, <1>3, <2>1, <2>2
<1>5. ASSUME NEW now, NEW next, Bullet(now, next) PROVE UNCHANGED <<tunnel, status>>
  BY <1>5 DEF Bullet
<1>6. CASE useInput
  <2>1. UNCHANGED tunnel /\ UNCHANGED stage
    BY <1>6 DEF useInput, Stat!SpendBullet, status
  <2> QED  BY <1>1, <2>1
<1>7. CASE updateScore
  <2>1. UNCHANGED tunnel /\ (stage' = stage \/ stage' = Stat!UpdateLevel(stage, overflow))
    BY <1>7 DEF updateScore, Stat!UpdateScore, Stat!CountFrame, Stat!AddPoint
  <2> QED  BY <1>1, <1>3, <2>1
<1>8. CASE updatedata
  BY <1>0, <1>8 DEF updatedata, Cave!Next
<1>9. CASE SetChars \/ waitTurn \/ gameOver \/ Watched \/ spawn
  BY <1>1, <1>2, <1>9 DEF SetChars, waitTurn, gameOver, Watched, spawn, vars
<1>10. ASSUME NEW input \in Inputs, quitIntro(input) PROVE UNCHANGED <<tunnel, status>>
  BY <1>10 DEF quitIntro, Polled
<1>11. CASE UNCHANGED vars
  BY <1>1, <1>2, <1>11 DEF vars
<1> QED  BY <1>1, <1>2, <1>4, <1>5, <1>6, <1>7, <1>8, <1>9, <1>10, <1>11 DEF Next

-----------------------------------------------------------------------------
(* What bulletdetect does to the wall, Objects knows as a shot, but for    *)
(* bytes it leaves as they are: a lost bullet at column and row 255 finds  *)
(* a wall that is off the screen, and no byte but 255.                     *)
LEMMA WallShot ==
  ASSUME Typed, NEW top, NEW empty, Gun!bulletdetect(top, empty)
  PROVE  Thing!Shoot \/ UNCHANGED staticobs
<1>1. staticobs \in [x : Byte, rows : [0..13 -> Byte], flag : Byte]
  BY DEF Typed, WallIn, GunP!WallIn, GunP!Byte, GunP!Blocks, Byte
<1>2. staticobs.x \in 0..21 \/ staticobs.x = 255
  BY DEF Typed, ObjectsIn, ThingP!IInv, ThingP!WallIn, ThingP!Gone
<1>3. bullet.x \in 0..24 \cup {255} /\ (bullet.x = 255 => bullet.y = 255)
  BY DEF Typed, BulletIn, GunP!BulletIn
<1>4. PICK i : \/ UNCHANGED staticobs
               \/ i \in Gun!BlocksHit(top, empty) /\ staticobs' = Gun!Without(i)
  BY DEF Gun!bulletdetect, Gun!bulletWall
<1> SUFFICES ASSUME i \in Gun!BlocksHit(top, empty), staticobs' = Gun!Without(i)
             PROVE  Thing!Shoot \/ UNCHANGED staticobs
  BY <1>4
<1>5. i \in Gun!Compared /\ Gun!BlockAt(top, empty, i) = bullet.y
  BY DEF Gun!BlocksHit
<1>6. CASE i \notin 0..14
  BY <1>6 DEF Gun!Without, Gun!Blocks
<1>7. CASE i \in 0..13 /\ staticobs.rows[i] = 255
  BY <1>1, <1>7 DEF Gun!Without, Gun!Blocks
<1>8. CASE i = 14 /\ staticobs.flag = 255
  BY <1>1, <1>8 DEF Gun!Without, Gun!Blocks
<1>9. ASSUME staticobs.x = 255
      PROVE  (i \in 0..13 => staticobs.rows[i] = 255) /\ (i = 14 => staticobs.flag = 255)
  <2>1. bullet.x = 255
    <3>1. bullet.x = staticobs.x \/ bullet.x = Gun!Wrap(staticobs.x - 1)
      BY <1>5 DEF Gun!Compared
    <3>2. Gun!Wrap(255 - 1) = 254
      BY DEF Gun!Wrap
    <3> QED  BY <1>3, <1>9, <3>1, <3>2
  <2> QED  BY <1>3, <1>5, <2>1 DEF Gun!BlockAt, Gun!Blocks
<1>10. ASSUME staticobs.x \in 0..21, i \in 0..13, staticobs.rows[i] # 255
       PROVE  Thing!Shoot
  <2>1. staticobs' = Thing!Destroyed(i) /\ i \in 0..14
    BY <1>10 DEF Gun!Without, Gun!Blocks, Thing!Destroyed, Thing!Blocks, Thing!Gone
  <2> QED  BY <1>10, <2>1 DEF Thing!Shoot, Thing!Gone
<1>11. ASSUME staticobs.x \in 0..21, i = 14
       PROVE  Thing!Shoot
  <2>1. staticobs' = Thing!Destroyed(14) /\ 14 \notin Thing!Blocks /\ 14 \in 0..14
    BY <1>11 DEF Gun!Without, Gun!Blocks, Thing!Destroyed, Thing!Blocks, Thing!Gone
  <2> QED  BY <1>11, <2>1 DEF Thing!Shoot
<1> QED  BY <1>2, <1>6, <1>7, <1>8, <1>9, <1>10, <1>11

(* To spawn a level is the third or not, a direction down, the one that    *)
(* carries nothing or any other, and so is what is drawn.                  *)
LEMMA Spawns ==
  ASSUME NEW n, NEW level, NEW roof \in Byte, NEW dir, Thing!spawn(n, level, roof, dir),
         Phase = "spawn", Phase' = "move"
  PROVE  Thing!Spawn
<1>1. PICK m \in {2, 4, 6} \cup {0} : m = IF n \in {2, 4, 6} THEN n ELSE 0
  OBVIOUS
<1>2. PICK l \in {1, 3} : l = IF level = 3 THEN 3 ELSE 1
  OBVIOUS
<1>3. PICK d \in 0..2 : d = IF dir \in {0, 1} THEN dir ELSE 2
  OBVIOUS
<1>4. Thing!SpawnRow(roof, d) = Thing!SpawnRow(roof, dir)
  BY <1>3 DEF Thing!SpawnRow, Thing!RoomRow
<1>5. Thing!spawn(m, l, roof, d)
  <2>1. CASE n = 2 /\ Thing!spawnpUP(roof, dir)
    BY <1>1, <1>4, <2>1 DEF Thing!spawn, Thing!spawnpUP
  <2>2. CASE n = 4 /\ Thing!spawnObs
    BY <1>1, <2>2 DEF Thing!spawn
  <2>3. CASE n = 6 /\ Thing!spawnWall(level)
    BY <1>1, <1>2, <2>3 DEF Thing!spawn, Thing!spawnWall
  <2>4. CASE Thing!nospawn(n, level)
    BY <1>1, <1>2, <2>4 DEF Thing!spawn, Thing!nospawn
  <2> QED  BY <2>1, <2>2, <2>3, <2>4 DEF Thing!spawn
<1>6. roof \in Byte
  OBVIOUS
<1> QED  BY <1>1, <1>2, <1>3, <1>5, <1>6 DEF Thing!Spawn, Thing!SpawnOf

LEMMA Phases ==
  /\ pc = "spawn" => Phase = "spawn"
  /\ pc = "update" => Phase = "move"
  /\ pc \notin {"spawn", "update"} => Phase = "detect"
  /\ pc' = "spawn" => Phase' = "spawn"
  /\ pc' = "update" => Phase' = "move"
  /\ pc' \notin {"spawn", "update"} => Phase' = "detect"
BY DEF Phase

(* Every call does to the objects what Objects has for its phase.          *)
LEMMA ObjectStep ==
  ASSUME Typed, [Next]_vars
  PROVE  [Thing!Next]_(Thing!vars)
<1>1. UNCHANGED objects /\ Phase' = Phase => UNCHANGED Thing!vars
  BY DEF objects, Thing!vars
<1>2. ASSUME NEW now \in {"hit1", "hit2"}, NEW next \in {"bullet1", "bullet2"}, Hit(now, next)
      PROVE  [Thing!Next]_(Thing!vars)
  <2>1. Phase = "detect" /\ Phase' = "detect"
    BY <1>2, Phases DEF Hit, hitdetect
  <2>2. UNCHANGED <<fallingobs, staticobs>>
    BY <1>2 DEF Hit
  <2>3. CASE UNCHANGED powerUp
    BY <1>1, <2>1, <2>2, <2>3 DEF objects
  <2>4. CASE Met /\ powerUp' = Thing!TakePowerUp
    <3>1. powerUp.x \in 0..21
      BY <2>4 DEF Met, Thing!Meets, Typed
    <3> QED  BY <2>1, <2>2, <2>4, <3>1 DEF Thing!Next, Thing!Hit
  <2> QED  BY <1>2, <2>3, <2>4 DEF Hit, hitdetect, powerUpDetect
<1>3. CASE Bullet("bullet1", "input")
  <2>1. Phase = "detect" /\ Phase' = "detect" /\ UNCHANGED <<powerUp, fallingobs>>
    BY <1>3, Phases DEF Bullet
  <2>2. Thing!Shoot \/ UNCHANGED staticobs
    BY <1>3, WallShot DEF Bullet
  <2> QED  BY <1>1, <2>1, <2>2 DEF objects, Thing!Next, Thing!Hit
<1>4. CASE Bullet("bullet2", "spawn")
  <2>1. Phase = "detect" /\ Phase' = "spawn" /\ UNCHANGED <<powerUp, fallingobs>>
    BY <1>4, Phases DEF Bullet
  <2>2. Thing!Shoot \/ UNCHANGED staticobs
    BY <1>4, WallShot DEF Bullet
  <2> QED  BY <2>1, <2>2 DEF Thing!Next, Thing!Detected
<1>5. CASE spawn
  <2>1. Phase = "spawn" /\ Phase' = "move"
    BY <1>5, Phases DEF spawn
  <2>2. Thing!spawn(randobyte', stage.level, topset[21], drawDirection)
    BY <1>5 DEF spawn
  <2>3. topset[21] \in Byte
    BY DEF Typed, Cave!TypeOK, Cave!Columns, Cave!Last, Cave!Byte, Byte
  <2>4. Thing!Spawn
    BY <2>1, <2>2, <2>3, Spawns
  <2> QED  BY <2>4 DEF Thing!Next
<1>6. CASE updatedata
  <2>1. Phase = "move" /\ Phase' = "detect"
    BY <1>6, Phases DEF updatedata
  <2>2. Thing!update
    BY <1>6 DEF updatedata
  <2> QED  BY <2>1, <2>2 DEF Thing!Next, Thing!Move
<1>7. CASE SetChars \/ useInput \/ updateScore \/ waitTurn
  <2>1. Phase = "detect" /\ Phase' = "detect" /\ UNCHANGED objects
    BY <1>7, Phases DEF SetChars, useInput, updateScore, waitTurn
  <2> QED  BY <1>1, <2>1
<1>8. ASSUME NEW input \in Inputs, quitIntro(input) PROVE [Thing!Next]_(Thing!vars)
  <2>1. Phase = "detect" /\ Phase' = "detect" /\ UNCHANGED objects
    BY <1>8, Phases DEF quitIntro, Polled
  <2> QED  BY <1>1, <2>1
<1>9. CASE UNCHANGED vars
  BY <1>1, <1>9, Phases DEF vars, Phase
<1> QED  BY <1>2, <1>3, <1>4, <1>5, <1>6, <1>7, <1>8, <1>9 DEF Next, gameOver, Watched

-----------------------------------------------------------------------------
LEMMA GunParameters ==
  /\ {} \subseteq [top : GunP!Byte, empty : GunP!Byte]
  /\ Inputs \subseteq {"fire", "up", "down", "left", "right", "none"}
  /\ {} \subseteq [x : 0..21, y : 0..21]
  /\ FALSE \in BOOLEAN
BY GameAssumption

LEMMA WallUpdates ==
  ASSUME WallIn, Thing!updateWalls
  PROVE  WallIn'
<1>1. GunP!Wall!updateWalls
  BY DEF Thing!updateWalls, Thing!OnScreen, Thing!Below, Thing!Wrap,
         GunP!Wall!updateWalls, GunP!Wall!OnScreen, GunP!Wall!Below, GunP!Wall!Wrap
<1>2. GunP!WallIn
  BY DEF WallIn
<1>3. GunP!WallIn'
  BY <1>1, <1>2, GunParameters, GunP!WallMoves, Zenon
<1> QED  BY <1>3 DEF WallIn

LEMMA WallSpawns ==
  ASSUME WallIn, NEW level, Thing!spawnWall(level)
  PROVE  WallIn'
<1>1. GunP!Wall!spawnWall(3)
  BY DEF Thing!spawnWall, Thing!Blocks, Thing!Wrap,
         GunP!Wall!spawnWall, GunP!Wall!Blocks, GunP!Wall!Wrap
<1>2. GunP!WallIn
  BY DEF WallIn
<1>3. GunP!WallIn'
  BY <1>1, <1>2, GunParameters, GunP!WallComes, Zenon
<1> QED  BY <1>3 DEF WallIn

(* The ship, the bullet and the wall after every call.                     *)
LEMMA GunStep ==
  ASSUME Typed, [Next]_vars
  PROVE  ship' \in [x : 0..21, y : 0..21] /\ BulletIn' /\ WallIn'
<1>0. ship \in [x : 0..21, y : 0..21] /\ BulletIn /\ WallIn
  BY DEF Typed
<1>s. UNCHANGED ship => ship' \in [x : 0..21, y : 0..21]
  BY <1>0
<1>b. UNCHANGED bullet => BulletIn'
  BY <1>0 DEF BulletIn, GunP!BulletIn, GunP!InFlight
<1>w. UNCHANGED staticobs => WallIn'
  BY <1>0 DEF WallIn, GunP!WallIn
<1>1. ASSUME NEW now, NEW next, Bullet(now, next) PROVE BulletIn' /\ WallIn'
  <2>1. GunP!bulletdetect(topset, emptyset)
    BY <1>1, GunSame DEF Bullet
  <2>2. GunP!BulletIn /\ GunP!WallIn
    BY <1>0 DEF BulletIn, WallIn
  <2>3. GunP!BulletIn'
    BY <2>1, <2>2, GunParameters, GunP!BulletLookedAt, Zenon
  <2>4. GunP!WallIn'
    BY <2>1, <2>2, GunParameters, GunP!WallLookedAt, Zenon
  <2> QED  BY <2>3, <2>4 DEF BulletIn, WallIn
<1>2. CASE useInput
  <2>1. PICK input \in Inputs : Gun!useInput(input, Stat!HasAmmo)
    BY <1>2 DEF useInput
  <2>2. ship' \in [x : 0..21, y : 0..21]
    <3>1. GunP!Steered(input) \in [x : 0..21, y : 0..21]
      BY <1>0, GunParameters, GunP!Steers, Zenon
    <3> QED  BY <2>1, <3>1, GunSame DEF Gun!useInput
  <2>3. BulletIn'
    <3>1. CASE UNCHANGED bullet
      BY <1>b, <3>1
    <3>2. CASE Gun!fireBullet(Stat!HasAmmo)
      <4>1. GunP!BulletIn /\ GunP!fireBullet(Stat!HasAmmo)
        BY <1>0, <3>2, GunSame DEF BulletIn
      <4>2. GunP!BulletIn'
        BY <1>0, <4>1, GunParameters, GunP!Fired, Zenon
      <4> QED  BY <4>2 DEF BulletIn
    <3> QED  BY <2>1, <3>1, <3>2 DEF Gun!useInput
  <2>4. UNCHANGED staticobs
    BY <1>2 DEF useInput, objects
  <2> QED  BY <2>2, <2>3, <2>4, <1>w
<1>3. CASE spawn
  <2>1. Thing!spawn(randobyte', stage.level, topset[21], drawDirection)
    BY <1>3 DEF spawn
  <2>2. Thing!spawnWall(stage.level) \/ UNCHANGED staticobs
    BY <2>1 DEF Thing!spawn, Thing!spawnpUP, Thing!spawnObs, Thing!nospawn
  <2>3. WallIn'
    BY <1>0, <1>w, <2>2, WallSpawns
  <2> QED  BY <1>3, <1>s, <1>b, <2>3 DEF spawn
<1>4. CASE updatedata
  <2>1. WallIn'
    BY <1>0, <1>4, WallUpdates DEF updatedata, Thing!update
  <2>2. GunP!BulletIn /\ GunP!updateBullet
    BY <1>0, <1>4, GunSame DEF BulletIn, updatedata
  <2>3. GunP!BulletIn'
    BY <2>2, GunParameters, GunP!BulletMoves, Zenon
  <2> QED  BY <1>4, <1>s, <2>1, <2>3 DEF updatedata, BulletIn
<1>5. ASSUME NEW now, NEW next, Hit(now, next) PROVE UNCHANGED <<ship, bullet, staticobs>>
  BY <1>5 DEF Hit
<1>6. ASSUME NEW input \in Inputs, quitIntro(input) PROVE UNCHANGED <<ship, bullet, staticobs>>
  BY <1>6 DEF quitIntro, Polled, objects
<1>7. CASE SetChars \/ updateScore \/ waitTurn \/ gameOver \/ Watched \/ UNCHANGED vars
  <2>1. UNCHANGED <<ship, bullet, staticobs>>
    BY <1>7 DEF SetChars, updateScore, waitTurn, gameOver, Watched, vars, objects
  <2> QED  BY <1>s, <1>b, <1>w, <2>1
<1>8. ASSUME NEW now, NEW next, Bullet(now, next) PROVE UNCHANGED ship
  BY <1>8 DEF Bullet
<1> QED  BY <1>s, <1>b, <1>w, <1>1, <1>2, <1>3, <1>4, <1>5, <1>6, <1>7, <1>8 DEF Next

(* The objects after every call, as ObjectsProofs has them.                *)
LEMMA ThingStep ==
  ASSUME Typed, [Next]_vars
  PROVE  ObjectsIn' /\ powerUp' \in Thing!Things /\ fallingobs' \in Thing!Things
<1>1. ThingP!IInv /\ [ThingP!Next]_(ThingP!vars)
  BY ObjectStep, ThingSame DEF Typed, ObjectsIn
<1>2. ThingP!IInv'
  BY <1>1, ThingParameters, ThingP!Steps, Zenon
<1> QED  BY <1>2, ThingSame DEF ObjectsIn, ThingP!IInv, ThingP!FallingIn, ThingP!PowerUpIn

(* The overflow flag is a flag, and the calls follow one another.          *)
LEMMA FlowStep ==
  ASSUME Typed, [Next]_vars
  PROVE  pc' \in Calls /\ overflow' \in BOOLEAN
<1>0. pc \in Calls /\ overflow \in BOOLEAN
  BY DEF Typed
<1>1. ASSUME NEW t, NEW e, NEW y PROVE OverflowAfter(t, e, y, overflow) \in BOOLEAN
  BY <1>0 DEF OverflowAfter, BorrowOverflows, InUpperHalf, Below
<1>2. ASSUME NEW now, NEW next \in {"bullet1", "bullet2"}, Hit(now, next)
      PROVE  pc' \in Calls /\ overflow' \in BOOLEAN
  BY <1>0, <1>1, <1>2 DEF Hit, hitdetect, Calls
<1>3. ASSUME NEW now, NEW next \in {"input", "spawn"}, Bullet(now, next)
      PROVE  pc' \in Calls /\ overflow' \in BOOLEAN
  BY <1>1, <1>3 DEF Bullet, Calls
<1>4. CASE spawn
  <2>1. Thing!SpawnOverflow(topset[21], drawDirection) \in BOOLEAN
    BY DEF Thing!SpawnOverflow, Thing!BorrowOverflows, Thing!AddOverflows
  <2> QED  BY <1>0, <1>4, <2>1 DEF spawn, Calls
<1>5. CASE updatedata
  BY <1>5 DEF updatedata, FillOverflow, Calls
<1>6. CASE waitTurn
  BY <1>6, GameAssumption DEF waitTurn, Calls
<1>7. CASE SetChars \/ useInput \/ updateScore
  BY <1>0, <1>7 DEF SetChars, useInput, updateScore, Calls
<1>8. ASSUME NEW input \in Inputs, quitIntro(input)
      PROVE  pc' \in Calls /\ overflow' \in BOOLEAN
  BY <1>0, <1>8 DEF quitIntro, Polled, Calls
<1>9. CASE gameOver \/ Watched \/ UNCHANGED vars
  BY <1>0, <1>9 DEF gameOver, Watched, vars
<1> QED  BY <1>2, <1>3, <1>4, <1>5, <1>6, <1>7, <1>8, <1>9 DEF Next

LEMMA TypedStep ==
  ASSUME Typed, [Next]_vars
  PROVE  Typed'
<1>1. Stat!TypeOK'
  BY StatusStep, StatStep DEF Typed
<1>2. Cave!TypeOK' /\ Cave!Corridors' /\ Cave!Slopes'
  BY TunnelStep, CaveStep DEF Typed
<1> QED  BY <1>1, <1>2, GunStep, ThingStep, FlowStep DEF Typed

LEMMA Starts ==
  ASSUME Init
  PROVE  Typed /\ Stat!Init /\ Thing!Init /\ Cave!Init
<1>1. Stat!Init /\ Stat!TypeOK
  BY DEF Init, Stat!Init, Stat!TypeOK, Stat!Scores, Stat!Stages, Stat!Digit
<1>2. Thing!Init
  BY Phases DEF Init, Thing!Init, Thing!Blocks, Thing!Gone
<1>3. Cave!Init
  BY DEF Init
<1>4. Cave!TypeOK
  BY <1>3 DEF Cave!Init, Cave!TypeOK, Cave!Columns, Cave!Last, Cave!Byte
<1>5. Cave!Corridors /\ Cave!Slopes
  BY <1>3 DEF Cave!Init, Cave!Corridors, Cave!Slopes, Cave!InBounds, Cave!Step, Cave!Signed,
              Cave!Wrap, Cave!Columns, Cave!Last
<1>6. BulletIn /\ WallIn
  BY DEF Init, BulletIn, WallIn, GunP!BulletIn, GunP!WallIn, GunP!InFlight,
         GunP!Byte, GunP!Blocks
<1>7. powerUp \in Thing!Things /\ fallingobs \in Thing!Things
  BY DEF Init, Thing!Things, Thing!Byte
<1>8. ObjectsIn
  <2>1. ThingP!Init
    BY <1>2, ThingSame
  <2> QED  BY <2>1, ThingParameters, ThingP!Starts, Zenon DEF ObjectsIn
<1> QED  BY <1>1, <1>2, <1>3, <1>4, <1>5, <1>6, <1>7, <1>8, GameAssumption DEF Init, Typed, Calls

(* In a game of any length every variable keeps its type; the corridors of *)
(* all columns are drawn whole, and no roof jumps.                         *)
THEOREM TypesInGame == Spec => []Typed
<1>1. Init => Typed
  BY Starts
<1>2. Typed /\ [Next]_vars => Typed'
  BY TypedStep
<1> QED  BY <1>1, <1>2, PTL DEF Spec

(* Between the drawing of the tunnel and the score nothing but fillscreen  *)
(* can set the overflow flag, and only with the last roof at $80.          *)
DrawnClear == pc = "score" /\ overflow => topset[21] = 128

LEMMA DrawnClearStep ==
  ASSUME DrawnClear, [Next]_vars
  PROVE  DrawnClear'
<1>1. CASE updatedata
  BY <1>1 DEF updatedata, FillOverflow, DrawnClear
<1>2. ASSUME NEW now, NEW next, Hit(now, next), next # "score" PROVE DrawnClear'
  BY <1>2 DEF Hit, hitdetect, DrawnClear
<1>3. ASSUME NEW now, NEW next, Bullet(now, next), next # "score" PROVE DrawnClear'
  BY <1>3 DEF Bullet, DrawnClear
<1>4. CASE SetChars \/ useInput \/ spawn \/ updateScore \/ waitTurn
  BY <1>4 DEF SetChars, useInput, spawn, updateScore, waitTurn, DrawnClear
<1>5. ASSUME NEW input \in Inputs, quitIntro(input) PROVE DrawnClear'
  BY <1>5 DEF quitIntro, Polled, DrawnClear
<1>6. CASE gameOver \/ Watched \/ UNCHANGED vars
  BY <1>6 DEF gameOver, Watched, vars, tunnel, DrawnClear
<1> QED  BY <1>1, <1>2, <1>3, <1>4, <1>5, <1>6 DEF Next

(* The numbers are counted, and the stage stays in step with the score.    *)
CountsOne ==
  ~FlagMayShow => /\ [Counted!Next]_(Counted!vars)
                  /\ Stat!LevelTracksScore => Stat!LevelTracksScore'

LEMMA CountsOneStep ==
  ASSUME Typed, DrawnClear, [Next]_vars
  PROVE  CountsOne
<1> SUFFICES ASSUME ~FlagMayShow
             PROVE  /\ [Counted!Next]_(Counted!vars)
                    /\ Stat!LevelTracksScore => Stat!LevelTracksScore'
  BY DEF CountsOne
<1>0. BOOLEAN \subseteq BOOLEAN /\ ScoreEnd \in Nat /\ 100 \in Nat
  BY ScoreEndIs
<1>1. pc \in {"score", "hit1", "hit2"} => overflow = FALSE
  BY DEF FlagMayShow, DrawnClear, Typed
<1>2. StatP!ClearStep
  <2>1. Stat!SpendBullet => StatP!SpendBullet
    BY DEF Stat!SpendBullet, Stat!HasAmmo, Stat!OneBulletLess,
           StatP!SpendBullet, StatP!HasAmmo, StatP!OneBulletLess
  <2>2. UNCHANGED status => UNCHANGED StatP!vars
    BY DEF status, StatP!vars
  <2> QED  BY <1>1, <2>1, <2>2, StatusCalls, StatCalls DEF StatP!ClearStep
<1>3. StatP!TypeOK
  BY StatSame DEF Typed
<1>4. [StatP!Abstract!Next]_(StatP!Abstract!vars)
  BY <1>0, <1>2, <1>3, StatP!StepCounts, Zenon
<1>5. [Counted!Next]_(Counted!vars)
  BY <1>4
     DEF Counted!Next, Counted!vars, Counted!Frame, Counted!Point, Counted!Reward, Counted!Shot,
         Counted!Add, Stat!Total, Stat!Bullets,
         StatP!Abstract!Next, StatP!Abstract!vars, StatP!Abstract!Frame, StatP!Abstract!Point,
         StatP!Abstract!Reward, StatP!Abstract!Shot, StatP!Abstract!Add, StatP!Total, StatP!Bullets
<1>6. StatP!InStep(score, stage) => StatP!InStep(score', stage')
  BY <1>0, <1>2, <1>3, StatP!StaysInStep, Zenon
<1>7. /\ StatP!InStep(score, stage) <=> Stat!LevelTracksScore
      /\ StatP!InStep(score', stage') <=> Stat!LevelTracksScore'
  BY DEF StatP!InStep, StatP!Turns, StatP!Hundreds, StatP!Thousands, StatP!Rank,
         Stat!LevelTracksScore, Stat!Hundreds, Stat!Thousands, Stat!Rank
<1> QED  BY <1>5, <1>6, <1>7

(* In every game, of any length, with any joystick and any clock: whatever *)
(* the overflow flag is elsewhere, points, frames and bullets are counted  *)
(* as Counter promises and the stage stays in step with the score, but for *)
(* the last roof at $80 and for a power-up met while the flag is set.      *)
THEOREM StatusCountsInGame == Spec => StatusCounts
<1>1. Init => DrawnClear
  BY DEF Init, DrawnClear
<1>2. Typed /\ DrawnClear /\ [Next]_vars => DrawnClear' /\ [CountsOne]_vars
  BY DrawnClearStep, CountsOneStep
<1>3. Spec => [][CountsOne]_vars
  BY <1>1, <1>2, TypesInGame, PTL DEF Spec
<1> QED  BY <1>3 DEF StatusCounts, CountsOne

(* What Objects promises of the flags and the moves of its things holds in *)
(* the game as well, where spawn draws what the tune and the score give    *)
(* it, and where the bullet's reads behind the blocks say what it hits:    *)
(* the flags tell what is on the screen,                                   *)
THEOREM FlagsInGame == Spec => []Thing!FlagsSay
<1>1. Typed => Thing!FlagsSay
  <2> SUFFICES ASSUME Typed PROVE Thing!FlagsSay
    OBVIOUS
  <2>1. ThingP!FlagsSay
    BY ThingParameters, ThingP!Says, Zenon DEF Typed, ObjectsIn
  <2> QED  BY <2>1 DEF Thing!FlagsSay, Thing!FlagShot, Thing!Gone,
                       ThingP!FlagsSay, ThingP!FlagShot, ThingP!Gone
<1> QED  BY <1>1, TypesInGame, PTL

(* and nothing on it disappears or reappears elsewhere, but for a wall     *)
(* whose flag was shot.                                                    *)
THEOREM MovesInGame == Spec => Thing!NothingJumps
<1> DEFINE SmoothStep ==
      /\ Thing!NoJump(powerUp.x, powerUp'.x) \/ powerUp'.x = Thing!Gone
      /\ Thing!NoJump(fallingobs.x, fallingobs'.x)
      /\ ~Thing!FlagShot => Thing!NoJump(staticobs.x, staticobs'.x)
      /\ Thing!FlagShot => staticobs'.x \in {staticobs.x, 21}
<1>1. Typed /\ [Next]_vars => [SmoothStep]_(Thing!vars)
  <2> SUFFICES ASSUME Typed, [Next]_vars PROVE [SmoothStep]_(Thing!vars)
    OBVIOUS
  <2>1. ThingP!IInv /\ [ThingP!Next]_(ThingP!vars)
    BY ObjectStep, ThingSame DEF Typed, ObjectsIn
  <2>2. ThingP!Smooth \/ UNCHANGED ThingP!vars
    BY <2>1, ThingParameters, ThingP!Steps, Zenon
  <2> QED  BY <2>2
       DEF ThingP!Smooth, ThingP!WallSmooth, ThingP!NoJump, ThingP!FlagShot, ThingP!Gone, ThingP!vars,
           Thing!NoJump, Thing!FlagShot, Thing!Gone, Thing!vars
<1>2. Spec => [][SmoothStep]_(Thing!vars)
  BY <1>1, TypesInGame, PTL DEF Spec
<1> QED  BY <1>2 DEF Thing!NothingJumps

(* The game drives the tunnel as Tunnel allows,                            *)
THEOREM CaveInGame == Spec => CaveKept
<1>1. Init => Cave!Init
  BY Starts
<1>2. Typed /\ [Next]_vars => [Cave!Next]_(Cave!vars)
  BY TunnelStep
<1> QED  BY <1>1, <1>2, TypesInGame, PTL DEF Spec, CaveKept

(* and the objects as Objects allows.                                      *)
THEOREM ThingsInGame == Spec => ThingsKept
<1>1. Init => Thing!Init
  BY Starts
<1>2. Typed /\ [Next]_vars => [Thing!Next]_(Thing!vars)
  BY ObjectStep
<1> QED  BY <1>1, <1>2, TypesInGame, PTL DEF Spec, ThingsKept

(* In the tunnel the game really draws, the bullet's flag follows the      *)
(* bullet one can see.                                                     *)
THEOREM ShotsInGame == Spec => []ShotsTracked
<1>1. Typed => ShotsTracked
  BY DEF Typed, ShotsTracked, BulletIn, GunP!BulletIn, GunP!InFlight,
         Gun!FlagCoversFlight, Gun!InFlight
<1> QED  BY <1>1, TypesInGame, PTL

(* The whole screen shows what hitdetect would meet, square by square,     *)
(* whenever it has been drawn.                                             *)
THEOREM SeenInGame == Spec => []SeenIsMet(Across)
<1>1. Typed => SeenIsMet(Across)
  <2> SUFFICES ASSUME Typed, NEW half \in Halves, NEW x \in Across, NEW y \in HalfRows
               PROVE  SeenAsMet(half, x, y)
    BY DEF SeenIsMet
  <2> DEFINE place == [x |-> Column(Target(half, x, y)), y |-> Row(Target(half, x, y))]
  <2>1. place.x = x /\ place.y = RowOf(half, y)
    BY PlaceOf
  <2>2. Scene.fallingobs = fallingobs /\ Scene.staticobs = staticobs
        /\ Scene.topset = topset /\ Scene.emptyset = emptyset
    BY DEF Scene
  <2>3. DOMAIN staticobs.rows = 0..13 /\ \A i \in 0..13 : staticobs.rows[i] \in Byte
    BY DEF Typed, WallIn, GunP!WallIn, GunP!Blocks, GunP!Byte, Byte
  <2>4. fallingobs.y \in Byte
    BY DEF Typed, Thing!Things, Thing!Byte, Byte
  <2>5. Agrees(Sight(half, Scene, x, y), Deadly(Scene, x, RowOf(half, y)), RowOf(half, y))
    BY <2>2, <2>3, <2>4, PicturesAssumption, LooksAreTrue
  <2> HIDE DEF place
  <2>6. CrashAt(place) <=> Deadly(Scene, x, RowOf(half, y))
    BY <2>1, <2>2, <2>3 DEF CrashAt, InRock, Deadly, Thing!Meets, Thing!wallDetect, Thing!Blocks
  <2>7. Agrees(Sight(half, Scene, x, y), CrashAt(place), place.y)
    BY <2>1, <2>5, <2>6 DEF Agrees
  <2> QED  BY <2>1, <2>7 DEF SeenAsMet, place
<1> QED  BY <1>1, TypesInGame, PTL

-----------------------------------------------------------------------------
(* A shot is paid for with one bullet, and a power-up that is taken is     *)
(* gone from where it was.                                                 *)
Paid ==
  /\ Shoots => Stat!Bullets(ammo') = Stat!Bullets(ammo) - 1
  /\ ammo' # ammo => Shoots \/ powerUp' # powerUp

LEMMA Spent ==
  ASSUME Stat!TypeOK, Stat!SpendBullet
  PROVE  Stat!Bullets(ammo') = Stat!Bullets(ammo) - 1
<1>1. ammo \in StatP!Ammo /\ (ammo.ones # 0 \/ ammo.tens # 0)
  BY DEF Stat!TypeOK, Stat!Digit, StatP!Ammo, StatP!Digit, Stat!SpendBullet, Stat!HasAmmo
<1>2. StatP!Bullets(StatP!OneBulletLess(ammo)) = StatP!Bullets(ammo) - 1
  BY <1>1, BOOLEAN \subseteq BOOLEAN, ScoreEndIs, 100 \in Nat, StatP!ShotSpends, Zenon
<1>3. ammo' = StatP!OneBulletLess(ammo)
  BY DEF Stat!SpendBullet, Stat!OneBulletLess, StatP!OneBulletLess
<1>4. ASSUME NEW a PROVE Stat!Bullets(a) = StatP!Bullets(a)
  BY DEF Stat!Bullets, StatP!Bullets
<1> QED  BY <1>2, <1>3, <1>4

LEMMA PaidStep ==
  ASSUME Typed, [Next]_vars
  PROVE  Paid
<1>1. CASE useInput
  <2>1. PICK input \in Inputs :
          /\ Gun!useInput(input, Stat!HasAmmo)
          /\ IF Fires(input) THEN Stat!SpendBullet ELSE UNCHANGED status
    BY <1>1 DEF useInput
  <2>2. CASE Fires(input)
    <3>1. bullet'.flag = 1 /\ bullet.flag # 1
      BY <2>1, <2>2 DEF Fires, Gun!useInput, Gun!fireBullet, Gun!MayFire
    <3>2. Stat!Bullets(ammo') = Stat!Bullets(ammo) - 1
      BY <2>1, <2>2, Spent DEF Typed
    <3>3. Shoots
      BY <1>1, <3>1 DEF Shoots, useInput
    <3> QED  BY <3>2, <3>3 DEF Paid
  <2>3. CASE ~Fires(input)
    <3>1. UNCHANGED bullet /\ UNCHANGED ammo
      BY <2>1, <2>3 DEF Fires, Gun!useInput, Gun!fireBullet, status
    <3> QED  BY <3>1 DEF Paid, Shoots
  <2> QED  BY <2>2, <2>3
<1>2. ASSUME NEW now \in {"hit1", "hit2"}, NEW next, Hit(now, next) PROVE Paid
  <2>1. ~Shoots
    BY <1>2 DEF Hit, Shoots
  <2>2. CASE Met /\ powerUp' = Thing!TakePowerUp
    <3>1. powerUp.x \in 0..21 /\ powerUp \in Thing!Things
      BY <2>2 DEF Met, Thing!Meets, Typed
    <3>2. powerUp'.x = 255
      BY <2>2, <3>1 DEF Thing!TakePowerUp, Thing!Gone, Thing!Things
    <3>3. powerUp' # powerUp
      BY <3>1, <3>2
    <3> QED  BY <2>1, <3>3 DEF Paid
  <2>3. CASE UNCHANGED status
    BY <2>1, <2>3 DEF Paid, status
  <2> QED  BY <1>2, <2>2, <2>3 DEF Hit, hitdetect, powerUpDetect
<1>3. ASSUME NEW now \in {"bullet1", "bullet2"}, NEW next, Bullet(now, next) PROVE Paid
  BY <1>3 DEF Bullet, Paid, Shoots, status
<1>4. CASE updateScore
  <2>1. UNCHANGED ammo
    BY <1>4 DEF updateScore, Stat!UpdateScore, Stat!CountFrame, Stat!AddPoint
  <2> QED  BY <1>4, <2>1 DEF updateScore, Paid, Shoots
<1>5. CASE SetChars \/ spawn \/ updatedata \/ waitTurn
  BY <1>5 DEF SetChars, spawn, updatedata, waitTurn, Paid, Shoots, status
<1>6. ASSUME NEW input \in Inputs, quitIntro(input) PROVE Paid
  BY <1>6 DEF quitIntro, Polled, Paid, Shoots, status
<1>7. CASE gameOver \/ Watched \/ UNCHANGED vars
  BY <1>7 DEF gameOver, Watched, vars, Paid, Shoots, status
<1> QED  BY <1>1, <1>2, <1>3, <1>4, <1>5, <1>6, <1>7 DEF Next

(* Whatever the overflow flag and the joystick do: a bullet that leaves    *)
(* the ship takes exactly one from the magazine, and nothing but a         *)
(* power-up changes it otherwise.                                          *)
THEOREM PaidFor == Spec => ShotsPaid
<1>1. Typed /\ [Next]_vars => [Paid]_vars
  BY PaidStep
<1>2. Spec => [][Paid]_vars
  BY <1>1, TypesInGame, PTL DEF Spec
<1> QED  BY <1>2 DEF ShotsPaid, Paid

-----------------------------------------------------------------------------
(* With the tune held at its first note, no byte that means a power-up, an *)
(* obstacle or a wall is ever drawn.                                       *)
LEMMA NothingDrawn ==
  ASSUME Stat!TypeOK, Tune!musicLoop, Tune!draw
  PROVE  randobyte' \notin {2, 4, 6}
<1>1. score.ones \in 0..9
  BY DEF Stat!TypeOK, Stat!Scores, Stat!Digit
<1>2. musicLoopOffset' + 1 = 2
  BY DEF Tune!musicLoop, Tune!NextPlace, Tune!Notes
<1>3. Tune!sonata[2] = 201
  BY DEF Tune!sonata
<1>4. randobyte' = Tune!Xor5(score.ones, 201)
  BY <1>2, <1>3 DEF Tune!draw
<1>5. ASSUME NEW m \in 0..9 PROVE Tune!Xor5(m, 201) \notin {2, 4, 6}
  BY DEF Tune!Xor5, Tune!Differ
<1> QED  BY <1>1, <1>4, <1>5

(* The cheat flag is counted up in the intro at most, from 126, and so is  *)
(* never the 1 that hitdetect looks for.                                   *)
CheatIn ==
  /\ pc \in {"intro", "down"} => cheatFlag = 126
  /\ pc \notin {"setchars", "intro", "down"} => cheatFlag \in {126, 127}

LEMMA CheatStep ==
  ASSUME CheatIn, [Next]_vars
  PROVE  CheatIn'
<1>1. CASE SetChars
  BY <1>1, LoadedAssumption DEF SetChars, CheatIn
<1>2. ASSUME NEW input \in Inputs, quitIntro(input) PROVE CheatIn'
  <2>1. Wrap(126 + 1) = 127
    BY DEF Wrap
  <2> QED  BY <1>2, <2>1 DEF quitIntro, Polled, CheatIn
<1>3. ASSUME NEW now \in {"hit1", "hit2"}, NEW next \in {"bullet1", "bullet2"}, Hit(now, next)
      PROVE  CheatIn'
  BY <1>3 DEF Hit, hitdetect, CheatIn
<1>4. ASSUME NEW now \in {"bullet1", "bullet2"}, NEW next \in {"input", "spawn"}, Bullet(now, next)
      PROVE  CheatIn'
  BY <1>4 DEF Bullet, CheatIn
<1>5. CASE useInput \/ spawn \/ updatedata \/ updateScore \/ waitTurn
  BY <1>5 DEF useInput, spawn, updatedata, updateScore, waitTurn, CheatIn
<1>6. CASE gameOver \/ Watched \/ UNCHANGED vars
  BY <1>6 DEF gameOver, Watched, vars, CheatIn
<1> QED  BY <1>1, <1>2, <1>3, <1>4, <1>5, <1>6 DEF Next

LEMMA CheatInGame == Spec => []CheatIn
<1>1. Init => CheatIn
  BY DEF Init, CheatIn
<1>2. CheatIn /\ [Next]_vars => CheatIn'
  BY CheatStep
<1> QED  BY <1>1, <1>2, PTL DEF Spec

(* Met and Crash are of the places of the ship and of what is around it.   *)
LEMMA SightKept ==
  /\ UNCHANGED <<powerUp, ship>> => (Met' <=> Met)
  /\ UNCHANGED <<topset, emptyset, fallingobs, staticobs, ship>> => (Crash' <=> Crash)
BY DEF Met, Crash, CrashAt, InRock, Thing!Meets, Thing!wallDetect

(* What bulletdetect leaves of the wall stops no ship the wall did not.    *)
LEMMA WallGoes ==
  ASSUME Typed, NEW now, NEW next, Bullet(now, next)
  PROVE  (Met' <=> Met) /\ (Crash' => Crash)
<1>1. UNCHANGED <<topset, emptyset, powerUp, fallingobs, ship>>
  BY DEF Bullet, tunnel
<1>2. staticobs \in [x : Byte, rows : [0..13 -> Byte], flag : Byte] /\ ship.y # 255
  BY DEF Typed, WallIn, GunP!WallIn, GunP!Byte, GunP!Blocks, Byte
<1>3. PICK i : staticobs' = staticobs \/ staticobs' = Gun!Without(i)
  BY DEF Bullet, Gun!bulletdetect, Gun!bulletWall
<1>4. Thing!wallDetect(ship)' => Thing!wallDetect(ship)
  <2>1. CASE staticobs' = staticobs
    BY <1>1, <2>1 DEF Thing!wallDetect
  <2>2. CASE staticobs' = Gun!Without(i) /\ i \in 0..13
    <3>1. /\ staticobs'.x = staticobs.x
          /\ \A j \in 0..13 : staticobs'.rows[j] = IF j = i THEN 255 ELSE staticobs.rows[j]
      BY <1>2, <2>2 DEF Gun!Without, Gun!Blocks
    <3> QED  BY <1>1, <1>2, <3>1 DEF Thing!wallDetect, Thing!Blocks
  <2>3. CASE staticobs' = Gun!Without(i) /\ i \notin 0..13
    <3>1. staticobs'.x = staticobs.x /\ staticobs'.rows = staticobs.rows
      BY <1>2, <2>3 DEF Gun!Without, Gun!Blocks
    <3> QED  BY <1>1, <3>1 DEF Thing!wallDetect
  <2> QED  BY <1>3, <2>1, <2>2, <2>3
<1>5. Met' <=> Met
  BY <1>1, SightKept
<1>6. Crash' => Crash
  BY <1>1, <1>4 DEF Crash, CrashAt, InRock, Thing!Meets
<1> QED  BY <1>5, <1>6

LEMMA ClearStep ==
  ASSUME Typed, CheatIn, NothingSlipsBy, [Next]_vars
  PROVE  NothingSlipsBy'
<1> DEFINE Allowed == {"hit1", "hit2", "score", "wait", "over"}
<1>1. CASE pc' \in Allowed
  BY <1>1 DEF NothingSlipsBy
<1>2. ASSUME pc \notin Allowed,
             UNCHANGED <<topset, emptyset, powerUp, fallingobs, staticobs, ship>>
      PROVE  NothingSlipsBy'
  BY <1>2, SightKept DEF NothingSlipsBy
<1>3. CASE SetChars
  BY <1>2, <1>3 DEF SetChars, tunnel, objects
<1>4. ASSUME NEW input \in Inputs, quitIntro(input) PROVE NothingSlipsBy'
  <2>1. pc \notin Allowed
    BY <1>4 DEF quitIntro, Polled
  <2>2. UNCHANGED <<topset, emptyset, powerUp, fallingobs, staticobs, ship>>
    BY <1>4 DEF quitIntro, Polled, tunnel, objects
  <2> QED  BY <1>2, <2>1, <2>2
<1>5. ASSUME NEW now \in {"hit1", "hit2"}, NEW next \in {"bullet1", "bullet2"}, Hit(now, next)
      PROVE  NothingSlipsBy'
  <2>1. cheatFlag # 1
    BY <1>5 DEF Hit, CheatIn
  <2>2. UNCHANGED <<topset, emptyset, fallingobs, staticobs, ship>>
    BY <1>5 DEF Hit, tunnel
  <2>3. CASE Crash
    BY <1>1, <1>5, <2>1, <2>3 DEF Hit, hitdetect
  <2>4. CASE ~Crash
    <3>1. ~Crash'
      BY <2>2, <2>4, SightKept
    <3>2. ~Met'
      <4>1. CASE Met
        <5>1. powerUp' = Thing!TakePowerUp
          BY <1>5, <2>1, <4>1 DEF Hit, hitdetect, powerUpDetect
        <5>2. powerUp \in Thing!Things /\ ship.x \in 0..21
          BY DEF Typed
        <5>3. powerUp'.x = 255
          BY <5>1, <5>2 DEF Thing!TakePowerUp, Thing!Gone, Thing!Things
        <5> QED  BY <2>2, <5>2, <5>3 DEF Met, Thing!Meets
      <4>2. CASE ~Met
        <5>1. UNCHANGED powerUp
          BY <1>5, <2>1, <4>2 DEF Hit, hitdetect, powerUpDetect
        <5> QED  BY <2>2, <4>2, <5>1, SightKept
      <4> QED  BY <4>1, <4>2
    <3> QED  BY <3>1, <3>2 DEF NothingSlipsBy
  <2> QED  BY <2>3, <2>4
<1>6. ASSUME NEW now \in {"bullet1", "bullet2"}, NEW next, Bullet(now, next)
      PROVE  NothingSlipsBy'
  <2>1. ~Met /\ ~Crash
    BY <1>6 DEF Bullet, NothingSlipsBy
  <2>2. ~Met' /\ ~Crash'
    BY <1>6, <2>1, WallGoes
  <2> QED  BY <2>2 DEF NothingSlipsBy
<1>7. CASE spawn
  <2>1. randobyte' \notin {2, 4, 6}
    BY <1>7, NothingDrawn DEF spawn, Typed
  <2>2. UNCHANGED <<powerUp, fallingobs, staticobs>>
    BY <1>7, <2>1 DEF spawn, Thing!spawn, Thing!nospawn
  <2>3. UNCHANGED <<topset, emptyset, ship>> /\ pc \notin Allowed
    BY <1>7 DEF spawn, tunnel
  <2> QED  BY <1>2, <2>2, <2>3
<1>8. CASE useInput \/ updatedata \/ updateScore \/ waitTurn
  BY <1>1, <1>8 DEF useInput, updatedata, updateScore, waitTurn
<1>9. CASE gameOver \/ Watched \/ UNCHANGED vars
  <2>1. UNCHANGED vars
    BY <1>9 DEF gameOver, Watched
  <2>2. UNCHANGED <<topset, emptyset, powerUp, fallingobs, staticobs, ship>> /\ pc' = pc
    BY <2>1 DEF vars, tunnel, objects
  <2> QED  BY <1>1, <1>2, <2>2
<1> QED  BY <1>3, <1>4, <1>5, <1>6, <1>7, <1>8, <1>9 DEF Next

LEMMA ClearStart ==
  ASSUME Init
  PROVE  NothingSlipsBy
<1>1. ~Met
  BY DEF Init, Met, Thing!Meets
<1>2. ~Thing!Meets(fallingobs, ship) /\ ~Thing!wallDetect(ship)
  BY DEF Init, Thing!Meets, Thing!wallDetect, Thing!Blocks
<1>3. topset[0] = 2 /\ emptyset[0] = 7 /\ ship.x = 0 /\ ship.y = 18
  BY DEF Init, Cave!Init, Cave!Columns, Cave!Last
<1>4. Open(2, 7, 18)
  <2>1. ~InUpperHalf(18) /\ 18 - 11 = 7
    BY DEF InUpperHalf, Below, Wrap
  <2>2. Wrap(11 - 7) = 4 /\ Wrap(11 - 2) = 9
    BY DEF Wrap
  <2>3. ~Below(7, 4)
    BY DEF Below, Wrap
  <2>4. Below(7, 9)
    <3>1. ASSUME NEW n \in -256..-1 PROVE Wrap(n) = n + 256
      BY DEF Wrap
    <3> QED  BY <3>1 DEF Below
  <2> QED  BY <2>1, <2>2, <2>3, <2>4 DEF Open
<1>5. ~InRock(ship)
  BY <1>3, <1>4 DEF InRock
<1> QED  BY <1>1, <1>2, <1>5 DEF NothingSlipsBy, Crash, CrashAt

(* No move of the ship or of anything else starts while the ship is in     *)
(* rock or on an object, in a game of any length.  It needs all that       *)
(* decides what hitdetect can meet: the wall loses blocks and gets none,   *)
(* spawn brings nothing in, and the cheat flag is never 1.                 *)
THEOREM NothingPasses == Spec => []NothingSlipsBy
<1>1. Init => NothingSlipsBy /\ CheatIn
  BY ClearStart DEF Init, CheatIn
<1>2. Typed /\ CheatIn /\ NothingSlipsBy /\ [Next]_vars => CheatIn' /\ NothingSlipsBy'
  BY CheatStep, ClearStep
<1> QED  BY <1>1, <1>2, TypesInGame, PTL DEF Spec

(* The other half: whatever was pressed at the start screen, a hit that is *)
(* tested for ends the game.                                               *)
THEOREM HitsEndTheGame ==
  Spec => [][ (pc \in {"hit1", "hit2"} /\ Crash) => pc' = "over" ]_vars
<1>1. CheatIn /\ [Next]_vars => [ (pc \in {"hit1", "hit2"} /\ Crash) => pc' = "over" ]_vars
  <2> SUFFICES ASSUME CheatIn, Next, pc \in {"hit1", "hit2"}, Crash
               PROVE  pc' = "over"
    OBVIOUS
  <2>1. PICK now, next : Hit(now, next)
    BY DEF Next, SetChars, quitIntro, Polled, Bullet, useInput, spawn, updatedata, updateScore,
           waitTurn, gameOver, Watched
  <2>2. cheatFlag # 1
    BY DEF CheatIn
  <2> QED  BY <2>1, <2>2 DEF Hit, hitdetect
<1> QED  BY <1>1, CheatInGame, PTL DEF Spec

-----------------------------------------------------------------------------
(* The first level.  The clock may leave an overflow before the hit test;  *)
(* what counts is that none is left when the score is, nor when a column   *)
(* is drawn at the roof.                                                   *)
Calm == Cave!Band /\ (pc \in {"score", "wait"} => ~overflow)

RoofClear == pc = "update" /\ upFlag = 2 /\ topset[21] < 2 => ~overflow

RoofTurned ==
  upFlag' < upFlag /\ Signed(topset[21]) < 2 => Signed(topset'[21]) > Signed(topset[21])

LEMMA BandSame ==
  /\ Cave!Band <=> CaveP!Band
  /\ Cave!Band' <=> CaveP!Band'
  /\ Cave!Passable <=> CaveP!Passable
<1>1. Cave!Band <=> CaveP!Band
  BY DEF Cave!Band, Cave!Columns, Cave!Last, CaveP!Band, CaveP!Columns, CaveP!Last
<1>2. Cave!Band' <=> CaveP!Band'
  BY DEF Cave!Band, Cave!Columns, Cave!Last, CaveP!Band, CaveP!Columns, CaveP!Last
<1>3. Cave!Passable <=> CaveP!Passable
  BY DEF Cave!Passable, Cave!OpenRows, Cave!Last, Cave!Open, Cave!InUpperHalf, Cave!Below, Cave!Wrap,
         CaveP!Passable, CaveP!OpenRows, CaveP!Last, CaveP!Open, CaveP!InUpperHalf, CaveP!Below,
         CaveP!Wrap
<1> QED  BY <1>1, <1>2, <1>3

(* What TunnelProofs says of the band.                                     *)
LEMMA CaveBand ==
  ASSUME Typed, Cave!Band
  PROVE  /\ Cave!Passable
         /\ \/ stage.level = 1 /\ Cave!noUpdate
            \/ /\ stage.level = 1 /\ Cave!NewColumn(overflow)
               /\ ~overflow \/ topset[21] >= 2
            \/ stage.level = 1 /\ UNCHANGED tunnel /\ stage'.sub \in {stage.sub, 2}
            => Cave!Band' /\ RoofTurned
<1>1. 22 \in Nat /\ 22 >= 2 /\ BOOLEAN \subseteq BOOLEAN /\ 128 \in Nat
  OBVIOUS
<1>2. CaveP!IInv /\ CaveP!Band
  BY CaveSame, BandSame DEF Typed
<1>3. \A c \in CaveP!Columns : topset[c] \in 0..8
  BY <1>2 DEF CaveP!Band
<1>4. CaveP!Passable
  BY <1>1, <1>2, <1>3, CaveP!BandPassable, Zenon
<1>5. CaveP!Last = 21 /\ CaveP!tunnel = tunnel /\ CaveP!tunnel' = tunnel'
  BY DEF CaveP!Last, CaveP!tunnel, tunnel
<1>6. ASSUME stage.level = 1,
             \/ CaveP!noUpdate
             \/ \E v \in BOOLEAN : (~v \/ topset[CaveP!Last] >= 2) /\ CaveP!NewColumn(v)
             \/ UNCHANGED CaveP!tunnel /\ stage'.sub \in {stage.sub, 2}
      PROVE  CaveP!Band' /\ CaveP!RoofTurnsDown
  BY <1>1, <1>2, <1>6, CaveP!BandStep, Zenon
<1>7. CaveP!RoofTurnsDown => RoofTurned
  BY <1>5 DEF CaveP!RoofTurnsDown, CaveP!Signed, RoofTurned, Signed
<1>8. overflow \in BOOLEAN
  BY DEF Typed
<1> QED  BY <1>4, <1>5, <1>6, <1>7, <1>8, CaveSame, BandSame

(* The subtractions of the rock test overflow for no byte that is a row of *)
(* a roof in its band, of a floor under one, or one that lies behind them. *)
LEMMA NoBorrow ==
  ASSUME NEW t \in 0..127, NEW e \in 0..127, NEW y
  PROVE  ~OverflowAfter(t, e, y, FALSE)
<1>1. ~BorrowOverflows(12, t) /\ ~BorrowOverflows(12, e)
  BY DEF BorrowOverflows, Signed
<1> QED  BY <1>1 DEF OverflowAfter

LEMMA LowColumns ==
  ASSUME Typed, Cave!Band, NEW x \in 0..21
  PROVE  topset[x] \in 0..8 /\ emptyset[x] \in 0..127
<1>1. topset[x] \in 0..8 /\ emptyset[x] \in 0..255 /\ Cave!InBounds(topset[x], emptyset[x])
  <2>1. Cave!Columns = 0..21 /\ Cave!Byte = 0..255
    BY DEF Cave!Columns, Cave!Last, Cave!Byte
  <2>2. topset[x] \in 0..8
    BY <2>1 DEF Cave!Band
  <2>3. emptyset[x] \in 0..255
    BY <2>1 DEF Typed, Cave!TypeOK
  <2>4. Cave!InBounds(topset[x], emptyset[x])
    BY <2>1 DEF Typed, Cave!Corridors
  <2> QED  BY <2>2, <2>3, <2>4
<1>2. CASE emptyset[x] = 13
  BY <1>1, <1>2
<1>3. CASE Cave!Wrap(emptyset[x] - topset[x]) \in {5, 6}
  BY <1>1, <1>3 DEF Cave!Wrap
<1> QED  BY <1>1, <1>2, <1>3 DEF Cave!InBounds

(* In the first level the roof stays in its band and turns, and fillscreen *)
(* leaves no overflow.                                                     *)
LEMMA CalmStep ==
  ASSUME Typed, Calm, RoofClear, stage.level = 1, stage'.level = 1,
         stage' = stage \/ stage' = Stat!UpdateLevel(stage, FALSE), [Next]_vars
  PROVE  Calm' /\ RoofTurned
<1>0. overflow \in BOOLEAN /\ Stat!TypeOK /\ Cave!Band
  BY DEF Calm, Typed
<1>1. ASSUME UNCHANGED tunnel PROVE Cave!Band' /\ RoofTurned
  <2>1. CASE stage' = stage
    BY <1>0, <1>1, <2>1, CaveBand
  <2>2. CASE stage' = Stat!UpdateLevel(stage, FALSE)
    <3>1. Cave!updateLevel(FALSE)
      BY <1>0, <1>1, <2>2, LevelStep
    <3>2. stage'.sub \in {stage.sub, 2}
      BY <3>1 DEF Cave!updateLevel
    <3> QED  BY <1>0, <1>1, <3>2, CaveBand
  <2> QED  BY <2>1, <2>2
<1>2. CASE updatedata
  <2>1. /\ Cave!noUpdate \/ Cave!NewColumn(overflow)
        /\ pc = "update" /\ overflow' = FillOverflow
    BY <1>2 DEF updatedata
  <2>2. topset[21] \in 0..8
    BY <1>0 DEF Cave!Band, Cave!Columns, Cave!Last
  <2>3. Cave!NewColumn(overflow) => ~overflow \/ topset[21] >= 2
    BY <2>1, <2>2 DEF RoofClear, Cave!NewColumn
  <2>4. Cave!Band' /\ RoofTurned
    BY <1>0, <2>1, <2>3, CaveBand
  <2>5. topset'[21] \in 0..8
    BY <2>4 DEF Cave!Band, Cave!Columns, Cave!Last
  <2>6. ~FillOverflow
    BY <2>5 DEF FillOverflow
  <2> QED  BY <2>1, <2>4, <2>6 DEF Calm
<1>3. CASE updateScore \/ Watched
  <2>1. UNCHANGED tunnel /\ overflow' = overflow /\ pc \in {"score", "wait"}
    BY <1>3 DEF updateScore, Watched, vars
  <2> QED  BY <1>1, <2>1 DEF Calm
<1>4. CASE UNCHANGED vars
  <2>1. UNCHANGED tunnel /\ overflow' = overflow /\ pc' = pc
    BY <1>4 DEF vars
  <2> QED  BY <1>1, <2>1 DEF Calm
<1>5. CASE \/ SetChars \/ useInput \/ spawn \/ waitTurn \/ gameOver
           \/ Hit("hit1", "bullet1") \/ Hit("hit2", "bullet2")
           \/ Bullet("bullet1", "input") \/ Bullet("bullet2", "spawn")
           \/ \E input \in Inputs : quitIntro(input)
  <2>1. UNCHANGED tunnel /\ pc' \notin {"score", "wait"}
    <3>1. CASE SetChars \/ useInput \/ spawn \/ waitTurn \/ gameOver
      BY <3>1 DEF SetChars, useInput, spawn, waitTurn, gameOver, vars
    <3>2. CASE Hit("hit1", "bullet1") \/ Hit("hit2", "bullet2")
      BY <3>2 DEF Hit, hitdetect
    <3>3. CASE Bullet("bullet1", "input") \/ Bullet("bullet2", "spawn")
      BY <3>3 DEF Bullet
    <3>4. ASSUME NEW input \in Inputs, quitIntro(input)
          PROVE  UNCHANGED tunnel /\ pc' \notin {"score", "wait"}
      BY <3>4 DEF quitIntro, Polled
    <3> QED  BY <1>5, <3>1, <3>2, <3>3, <3>4
  <2> QED  BY <1>1, <2>1 DEF Calm
<1> QED  BY <1>2, <1>3, <1>4, <1>5 DEF Next

(* And with a clock that leaves none there is no overflow at all.          *)
LEMMA HitLeavesNone ==
  ASSUME Typed, Cave!Band, NEW now, NEW next, Hit(now, next), ~overflow \/ ~InUpperHalf(ship.y)
  PROVE  cheatFlag # 1 \/ ~overflow => ~overflow'
<1>1. ship.x \in 0..21 /\ overflow \in BOOLEAN
  BY DEF Typed
<1>2. topset[ship.x] \in 0..127 /\ emptyset[ship.x] \in 0..127
  BY <1>1, LowColumns
<1>3. ~OverflowAfter(topset[ship.x], emptyset[ship.x], ship.y, FALSE)
  BY <1>2, NoBorrow
<1>4. OverflowAfter(topset[ship.x], emptyset[ship.x], ship.y, overflow) =
        OverflowAfter(topset[ship.x], emptyset[ship.x], ship.y, FALSE)
  BY <1>1 DEF OverflowAfter
<1> QED  BY <1>1, <1>3, <1>4 DEF Hit, hitdetect

LEMMA BulletLeavesNone ==
  ASSUME Typed, Cave!Band, ~overflow, NEW now, NEW next, Bullet(now, next)
  PROVE  ~overflow'
<1> DEFINE b == Gun!AfterWall(topset, emptyset)
<1>1. bullet.x \in 0..24 \cup {255} /\ ship.x \in 0..21 /\ ship.y \in 0..21
  BY DEF Typed, BulletIn, GunP!BulletIn
<1>2. b.x \in 0..24 \cup {255}
  BY <1>1 DEF Gun!AfterWall, Gun!Lost
<1>3. ASSUME NEW x \in 0..21 PROVE topset[x] \in 0..127 /\ emptyset[x] \in 0..127
  BY LowColumns
<1>4. b.x = 24 => bullet.x \in 0..127
  BY <1>1 DEF Gun!AfterWall, Gun!Lost
<1>5. Gun!TopAt(topset, emptyset, b.x) \in 0..127
  <2> HIDE DEF b
  <2> QED  BY <1>2, <1>3 DEF Gun!TopAt, Gun!GlyphByte
<1>6. Gun!EmptyAt(emptyset, b.x) \in 0..127
  <2> HIDE DEF b
  <2> QED  BY <1>1, <1>2, <1>3, <1>4 DEF Gun!EmptyAt, Gun!GlyphByte
<1>7. ~OverflowAfter(Gun!TopAt(topset, emptyset, b.x), Gun!EmptyAt(emptyset, b.x), b.y, FALSE)
  BY <1>5, <1>6, NoBorrow
<1>8. overflow = FALSE
  BY DEF Typed
<1> QED  BY <1>7, <1>8 DEF Bullet

LEMMA SpawnLeavesNone ==
  ASSUME Typed, spawn
  PROVE  UNCHANGED <<powerUp, overflow>>
<1>1. randobyte' \notin {2, 4, 6}
  BY NothingDrawn DEF spawn, Typed
<1>2. UNCHANGED powerUp
  BY <1>1 DEF spawn, Thing!spawn, Thing!nospawn
<1> QED  BY <1>2 DEF spawn

LEMMA QuietStep ==
  ASSUME Clocks \subseteq {FALSE}, Typed, ~overflow, Calm, Calm', [Next]_vars
  PROVE  ~overflow'
<1>0. Cave!Band
  BY DEF Calm
<1>1. ASSUME NEW now, NEW next, Hit(now, next) PROVE ~overflow'
  BY <1>0, <1>1, HitLeavesNone
<1>2. ASSUME NEW now, NEW next, Bullet(now, next) PROVE ~overflow'
  BY <1>0, <1>2, BulletLeavesNone
<1>3. CASE spawn
  BY <1>3, SpawnLeavesNone
<1>4. CASE updatedata
  <2>1. pc' = "score"
    BY <1>4 DEF updatedata
  <2> QED  BY <2>1 DEF Calm
<1>5. CASE waitTurn
  BY <1>5 DEF waitTurn
<1>6. CASE \/ SetChars \/ useInput \/ updateScore \/ gameOver \/ Watched \/ UNCHANGED vars
           \/ \E input \in Inputs : quitIntro(input)
  BY <1>6 DEF SetChars, useInput, updateScore, gameOver, Watched, vars, quitIntro, Polled
<1> QED  BY <1>1, <1>2, <1>3, <1>4, <1>5, <1>6 DEF Next

LEMMA CalmStart ==
  ASSUME Init
  PROVE  Calm
<1>1. Cave!Columns = 0..21 /\ Cave!Last = 21
  BY DEF Cave!Columns, Cave!Last
<1>2. topset[21] = 2 /\ (\A c \in 0..21 : topset[c] = 2) /\ drawDirection = 1
  BY <1>1 DEF Init, Cave!Init
<1>3. Cave!Band
  BY <1>1, <1>2 DEF Cave!Band
<1> QED  BY <1>3 DEF Init, Calm

(* The first two hundred points.  The status line counts right as long as  *)
(* it is calm, so that they are played in the first level, where it is     *)
(* calm; and no call leads back to them.                                   *)
Opening == Stat!Total(score) < 200

FirstLevel == Opening => Calm /\ StatP!InStep(score, stage)

LEMMA OpeningEarly ==
  ASSUME Stat!TypeOK
  PROVE  Opening <=> StatP!Early(score)
<1>1. score \in StatP!Scores
  BY StatSame DEF StatP!TypeOK
<1>2. StatP!Small(StatP!Total(score)) <=> StatP!Early(score)
  BY <1>1, BOOLEAN \subseteq BOOLEAN, ScoreEndIs, 100 \in Nat, StatP!EarlyTotal, Zenon
<1>3. Stat!Total(score) = StatP!Total(score)
  BY DEF Stat!Total, StatP!Total
<1> QED  BY <1>2, <1>3 DEF Opening, StatP!Small

LEMMA OpeningLevel ==
  ASSUME Typed, FirstLevel, Opening
  PROVE  stage.level = 1
<1>1. score \in StatP!Scores /\ stage \in StatP!Stages
  BY StatSame DEF Typed, StatP!TypeOK
<1>2. StatP!Early(score) /\ StatP!InStep(score, stage)
  BY OpeningEarly DEF Typed, FirstLevel
<1> QED  BY <1>1, <1>2, BOOLEAN \subseteq BOOLEAN, ScoreEndIs, 100 \in Nat, StatP!EarlyStage, Zenon

(* The score after a call, as StatsProofs has it.                          *)
LEMMA StatusCallsP ==
  ASSUME [Next]_vars
  PROVE  \/ pc = "score" /\ StatP!UpdateScore(overflow)
         \/ StatP!Pickup(overflow)
         \/ UNCHANGED <<score, stage>>
<1>1. Stat!UpdateScore(overflow) => StatP!UpdateScore(overflow)
  BY StatCalls
<1>2. Stat!Pickup(overflow) => StatP!Pickup(overflow)
  BY StatCalls
<1>3. Stat!SpendBullet \/ UNCHANGED status => UNCHANGED <<score, stage>>
  BY DEF Stat!SpendBullet, status
<1> QED  BY <1>1, <1>2, <1>3, StatusCalls

LEMMA OpeningStep ==
  ASSUME Typed, Typed', FirstLevel, Opening => RoofClear, [Next]_vars, Opening'
  PROVE  /\ Opening /\ stage.level = 1 /\ stage'.level = 1
         /\ Calm /\ Calm' /\ FirstLevel' /\ RoofTurned
<1>0. BOOLEAN \subseteq BOOLEAN /\ ScoreEnd \in Nat /\ 100 \in Nat
  BY ScoreEndIs
<1>1. /\ score \in StatP!Scores /\ stage \in StatP!Stages
      /\ score' \in StatP!Scores /\ stage' \in StatP!Stages /\ overflow \in BOOLEAN
  BY StatSame DEF Typed, StatP!TypeOK
<1>2. StatP!Early(score')
  <2>1. StatP!Small(StatP!Total(score')) <=> StatP!Early(score')
    BY <1>0, <1>1, StatP!EarlyTotal, Zenon
  <2>2. Stat!Total(score') = StatP!Total(score')
    BY DEF Stat!Total, StatP!Total
  <2> QED  BY <2>1, <2>2 DEF Opening, StatP!Small
<1>3. Opening
  <2>1. ASSUME NEW s \in StatP!Scores
        PROVE  /\ StatP!Early(StatP!AddOneToScore(s, overflow)) => StatP!Early(s)
               /\ StatP!Early(StatP!AddTenPickScore(s, overflow)) => StatP!Early(s)
               /\ StatP!AddTenPickScore(s, overflow) \in StatP!Scores
    BY <1>0, <1>1, StatP!EarlyBefore, StatP!CarryDigits, Zenon
  <2> SUFFICES StatP!Early(score)
    BY OpeningEarly DEF Typed
  <2>2. CASE StatP!UpdateScore(overflow)
    <3>1. score' = score \/ score' = StatP!AddOneToScore(score, overflow)
      BY <2>2 DEF StatP!UpdateScore, StatP!CountFrame, StatP!AddPoint
    <3> QED  BY <1>1, <1>2, <2>1, <3>1
  <2>3. CASE StatP!Pickup(overflow)
    <3>1. score' = StatP!AddTenPickScore(StatP!AddTenPickScore(score, overflow), overflow)
      BY <2>3 DEF StatP!Pickup
    <3> QED  BY <1>1, <1>2, <2>1, <3>1
  <2>4. CASE UNCHANGED <<score, stage>>
    BY <1>2, <2>4
  <2> QED  BY <2>2, <2>3, <2>4, StatusCallsP
<1>4. Calm /\ RoofClear /\ StatP!InStep(score, stage) /\ stage.level = 1
  BY <1>3, OpeningLevel DEF FirstLevel
<1>5. /\ StatP!InStep(score', stage')
      /\ stage' = stage \/ stage' = StatP!UpdateLevel(stage, FALSE)
  <2>1. CASE pc = "score" /\ StatP!UpdateScore(overflow)
    <3>0. overflow = FALSE
      BY <1>1, <1>4, <2>1 DEF Calm
    <3>1. CASE StatP!CountFrame(FALSE)
      BY <1>4, <3>1 DEF StatP!CountFrame
    <3>2. CASE StatP!AddPoint(FALSE)
      <4>1. /\ score' = StatP!AddOneToScore(score, FALSE)
            /\ stage' = IF StatP!LevelsUpOne(score, FALSE) THEN StatP!UpdateLevel(stage, FALSE)
                                                          ELSE stage
        BY <3>2 DEF StatP!AddPoint
      <4>2. StatP!InStep(StatP!AddOneToScore(score, FALSE),
                         IF StatP!LevelsUpOne(score, FALSE) THEN StatP!UpdateLevel(stage, FALSE)
                                                            ELSE stage)
        BY <1>0, <1>1, <1>4, StatP!PointInStep, Zenon
      <4> QED  BY <4>1, <4>2
    <3> QED  BY <2>1, <3>0, <3>1, <3>2 DEF StatP!UpdateScore
  <2>2. CASE StatP!Pickup(overflow)
    BY <1>0, <1>1, <1>2, <1>4, <2>2, StatP!EarlyReward, Zenon
  <2>3. CASE UNCHANGED <<score, stage>>
    BY <1>4, <2>3
  <2> QED  BY <2>1, <2>2, <2>3, StatusCallsP
<1>6. stage'.level = 1
  BY <1>0, <1>1, <1>2, <1>5, StatP!EarlyStage, Zenon
<1>7. stage' = stage \/ stage' = Stat!UpdateLevel(stage, FALSE)
  BY <1>5
     DEF Stat!UpdateLevel, Stat!NextLevel, Stat!NextLevelHandler, Stat!ResetLevel,
         StatP!UpdateLevel, StatP!NextLevel, StatP!NextLevelHandler, StatP!ResetLevel
<1>8. Calm' /\ RoofTurned
  BY <1>4, <1>6, <1>7, CalmStep
<1> QED  BY <1>3, <1>4, <1>5, <1>6, <1>8 DEF FirstLevel

LEMMA OpeningStart ==
  ASSUME Init
  PROVE  FirstLevel
<1>1. StatP!InStep(score, stage)
  BY DEF Init, StatP!InStep, StatP!Turns, StatP!Hundreds, StatP!Thousands, StatP!Rank
<1> QED  BY <1>1, CalmStart DEF FirstLevel

LEMMA FirstLevelKept == Spec /\ [](Opening => RoofClear) => []FirstLevel
<1>1. Init => FirstLevel
  BY OpeningStart
<1>2. Typed /\ Typed' /\ FirstLevel /\ (Opening => RoofClear) /\ [Next]_vars => FirstLevel'
  BY OpeningStep DEF FirstLevel
<1> QED  BY <1>1, <1>2, TypesInGame, PTL DEF Spec

(* For the first two hundred points, with everything that happens in them, *)
(* the level is the first and the ship can always get through, unless an   *)
(* overflow gets to algo1 when it draws at the roof,                       *)
THEOREM FirstLevelInGame ==
  Spec /\ [](Opening => RoofClear) => [](Opening => stage.level = 1 /\ Passable)
<1>1. Typed /\ FirstLevel => (Opening => stage.level = 1 /\ Passable)
  BY OpeningLevel, CaveBand DEF FirstLevel, Calm, Passable
<1> QED  BY <1>1, FirstLevelKept, TypesInGame, PTL

(* and the roof turns as the comment of algo1 says.                        *)
THEOREM TurnsInGame == Spec /\ []Opening /\ []RoofClear => RoofTurns
<1>1. Typed /\ Typed' /\ FirstLevel /\ RoofClear /\ Opening' /\ [Next]_vars => RoofTurned
  BY OpeningStep
<1>2. Spec /\ []Opening /\ []RoofClear => [][RoofTurned]_vars
  BY <1>1, FirstLevelKept, TypesInGame, PTL DEF Spec
<1> QED  BY <1>2 DEF RoofTurns, RoofTurned

(* With a clock that leaves none there is no overflow in them, from no     *)
(* call of the loop, so that neither theorem needs its hypothesis.         *)
THEOREM OpeningQuiet ==
  ASSUME Clocks \subseteq {FALSE}
  PROVE  Spec => []FirstLevel /\ [](Opening => ~overflow)
<1> DEFINE Quiet == FirstLevel /\ (Opening => ~overflow)
<1>1. Init => Quiet
  BY OpeningStart DEF Init
<1>2. Typed /\ Typed' /\ Quiet /\ [Next]_vars => Quiet'
  <2> SUFFICES ASSUME Typed, Typed', Quiet, [Next]_vars, Opening'
               PROVE  FirstLevel' /\ ~overflow'
    BY DEF FirstLevel
  <2>1. Opening => RoofClear
    BY DEF RoofClear
  <2>2. Opening /\ Calm /\ Calm' /\ FirstLevel'
    BY <2>1, OpeningStep
  <2> QED  BY <2>2, QuietStep
<1> QED  BY <1>1, <1>2, TypesInGame, PTL DEF Spec

COROLLARY QuietTurns ==
  ASSUME Clocks \subseteq {FALSE}
  PROVE  Spec /\ []Opening => RoofTurns
<1>1. ~overflow => RoofClear
  BY DEF RoofClear
<1> QED  BY <1>1, OpeningQuiet, TurnsInGame, PTL

(* The overflow flag is all that comes between a power-up and its one      *)
(* bullet,                                                                 *)
LEMMA PickupPays ==
  ASSUME Typed, [Next]_vars, ~overflow,
         pc \in {"hit1", "hit2"}, powerUp' # powerUp, Stat!Bullets(ammo) < 99
  PROVE  Stat!Bullets(ammo') = Stat!Bullets(ammo) + 1
<1>0. overflow = FALSE /\ ammo \in StatP!Ammo
  BY DEF Typed, Stat!TypeOK, Stat!Digit, StatP!Ammo, StatP!Digit
<1>1. PICK now, next : Hit(now, next)
  BY DEF Next, SetChars, quitIntro, Polled, Bullet, useInput, spawn, updatedata, updateScore,
         waitTurn, gameOver, Watched, vars, objects
<1>2. Stat!Pickup(FALSE)
  BY <1>0, <1>1 DEF Hit, hitdetect, powerUpDetect
<1>3. ammo' = StatP!AddPickupToAmmo(ammo, FALSE)
  BY <1>2 DEF Stat!Pickup, Stat!AddPickupToAmmo, Stat!Carries, StatP!AddPickupToAmmo, StatP!Carries
<1>4. StatP!Bullets(StatP!AddPickupToAmmo(ammo, FALSE)) =
        IF StatP!Bullets(ammo) = 99 THEN 90 ELSE StatP!Bullets(ammo) + 1
  BY <1>0, BOOLEAN \subseteq BOOLEAN, ScoreEndIs, 100 \in Nat, StatP!PickupLoads, Zenon
<1>5. Stat!Bullets(ammo) = StatP!Bullets(ammo) /\ Stat!Bullets(ammo') = StatP!Bullets(ammo')
  BY DEF Stat!Bullets, StatP!Bullets
<1>6. ammo.ones \in 0..9 /\ ammo.tens \in 0..9
  BY DEF Typed, Stat!TypeOK, Stat!Digit
<1>7. Stat!Bullets(ammo) # 99
  BY <1>6 DEF Stat!Bullets
<1> QED  BY <1>3, <1>4, <1>5, <1>7

THEOREM PaysUnlessOverflow ==
  Spec => [][ (/\ ~overflow /\ pc \in {"hit1", "hit2"} /\ powerUp' # powerUp
               /\ Stat!Bullets(ammo) < 99) =>
                 Stat!Bullets(ammo') = Stat!Bullets(ammo) + 1 ]_vars
<1>1. Typed /\ [Next]_vars =>
        [ (/\ ~overflow /\ pc \in {"hit1", "hit2"} /\ powerUp' # powerUp
           /\ Stat!Bullets(ammo) < 99) =>
             Stat!Bullets(ammo') = Stat!Bullets(ammo) + 1 ]_vars
  BY PickupPays
<1> QED  BY <1>1, TypesInGame, PTL DEF Spec

(* and with a clock that leaves none, the first two hundred points keep    *)
(* what src/README.txt says of it.                                         *)
THEOREM OpeningPays ==
  ASSUME Clocks \subseteq {FALSE}
  PROVE  Spec /\ []Opening => PowerUpPays
<1> DEFINE Pays == (pc \in {"hit1", "hit2"} /\ powerUp' # powerUp /\ Stat!Bullets(ammo) < 99) =>
                      Stat!Bullets(ammo') = Stat!Bullets(ammo) + 1
<1>1. Typed /\ ~overflow /\ [Next]_vars => Pays
  BY PickupPays
<1>2. Spec /\ []Opening => [][Pays]_vars
  BY <1>1, OpeningQuiet, TypesInGame, PTL DEF Spec
<1> QED  BY <1>2 DEF PowerUpPays

-----------------------------------------------------------------------------
(* What is printed.  Before the music starts the variables among the       *)
(* letters are as loaded; the cheat flag is for good, if nobody presses    *)
(* down.                                                                   *)
NoDown == pc = "down" => cheatFlag' = cheatFlag

Fresh ==
  /\ pc # "setchars" => cheatFlag = Loaded.cheatFlag
  /\ pc \in {"intro", "down"} =>
       musicLoopOffset = Loaded.musicLoopOffset /\ randobyte = Loaded.randobyte

LEMMA FreshStep ==
  ASSUME Fresh, [Next]_vars, [NoDown]_vars
  PROVE  Fresh'
<1>1. CASE SetChars
  BY <1>1 DEF SetChars, Fresh
<1>2. ASSUME NEW input \in Inputs, quitIntro(input) PROVE Fresh'
  <2>1. UNCHANGED music /\ (pc # "down" => cheatFlag' = cheatFlag) /\ pc # "setchars"
    BY <1>2 DEF quitIntro, Polled
  <2>2. cheatFlag' = cheatFlag
    BY <2>1 DEF NoDown, vars
  <2>3. pc' \in {"intro", "down"} => pc \in {"intro", "down"}
    BY <1>2 DEF quitIntro, Polled
  <2> QED  BY <2>1, <2>2, <2>3 DEF Fresh, music
<1>3. ASSUME NEW now \in {"hit1", "hit2"}, NEW next \in {"bullet1", "bullet2"}, Hit(now, next)
      PROVE  Fresh'
  BY <1>3 DEF Hit, hitdetect, Fresh
<1>4. ASSUME NEW now \in {"bullet1", "bullet2"}, NEW next \in {"input", "spawn"}, Bullet(now, next)
      PROVE  Fresh'
  BY <1>4 DEF Bullet, Fresh
<1>5. CASE useInput \/ spawn \/ updatedata \/ updateScore \/ waitTurn
  BY <1>5 DEF useInput, spawn, updatedata, updateScore, waitTurn, Fresh
<1>6. CASE gameOver \/ Watched \/ UNCHANGED vars
  BY <1>6 DEF gameOver, Watched, vars, music, Fresh
<1> QED  BY <1>1, <1>2, <1>3, <1>4, <1>5, <1>6 DEF Next

LEMMA FreshReads ==
  ASSUME Typed, Fresh
  PROVE  TextsReadable
<1>1. /\ \A code \in Letters \ {4, 5} : Legible(code)
      /\ pc # "setchars" => Legible(5)
      /\ pc = "intro" => Legible(4)
  BY LettersAssumption DEF Legible, Fresh
<1>2. /\ score.tthous \in 0..9 /\ score.thous \in 0..9 /\ score.huns \in 0..9
      /\ score.tens \in 0..9 /\ score.ones \in 0..9
      /\ stage.level \in 1..3 /\ stage.sub \in 1..2
      /\ ammo.tens \in 0..9 /\ ammo.ones \in 0..9
  BY DEF Typed, Stat!TypeOK, Stat!Scores, Stat!Stages, Stat!Digit
<1>3. Score(score) \in Seq(Digits) /\ Len(Score(score)) = 5
  BY <1>2, ScoreIs
<1>4. ASSUME pc = "intro" PROVE Readable(Title)
  <2> SUFFICES ASSUME NEW square \in Title
               PROVE  square[1] \in Visible /\ Legible(square[2])
    BY DEF Readable
  <2>1. square[1] \in Visible /\ square[2] \in 1..22
    BY TitleShown
  <2>2. 1..22 \subseteq Letters
    BY LettersAssumption
  <2> QED  BY <1>1, <1>4, <2>1, <2>2
<1>5. ASSUME pc = "wait" PROVE Readable(StatusLine(score, stage, ammo))
  <2> SUFFICES ASSUME NEW square \in StatusLine(score, stage, ammo)
               PROVE  square[1] \in Visible /\ Legible(square[2])
    BY DEF Readable
  <2>1. /\ square[1] \in Visible
        /\ square[2] \in {\h01, \h03, \h0C, \h0D, \h12, \h13, \h2D} \cup Digits
    BY <1>2, <1>3, StatusShown
  <2>2. square[2] \in Letters \ {4, 5}
    BY <2>1, LettersAssumption DEF Digits
  <2> QED  BY <1>1, <2>1, <2>2
<1>6. ASSUME pc = "over" PROVE Readable(GameOver(score))
  <2> SUFFICES ASSUME NEW square \in GameOver(score)
               PROVE  square[1] \in Visible /\ Legible(square[2])
    BY DEF Readable
  <2>1. /\ square[1] \in Visible
        /\ square[2] \in {\h01, \h03, \h05, \h07, \h0D, \h0F, \h12, \h13, \h16} \cup Digits
    BY <1>3, GameOverShown
  <2>2. square[2] = 5 \/ square[2] \in Letters \ {4, 5}
    BY <2>1, LettersAssumption DEF Digits
  <2> QED  BY <1>1, <1>6, <2>1, <2>2
<1> QED  BY <1>4, <1>5, <1>6, AllPainted DEF TextsReadable

(* In a game that was not started with down, all that is printed can be    *)
(* read, for every score, level and magazine.                              *)
THEOREM TextsInGame == Spec /\ [][NoDown]_vars => []TextsReadable
<1>1. Init => Fresh
  BY DEF Init, Fresh
<1>2. Fresh /\ [Next]_vars /\ [NoDown]_vars => Fresh'
  BY FreshStep
<1>3. Typed /\ Fresh => TextsReadable
  BY FreshReads
<1> QED  BY <1>1, <1>2, <1>3, TypesInGame, PTL DEF Spec

-----------------------------------------------------------------------------
(* Nothing is drawn, so nothing comes: for ever, the wall is without its   *)
(* blocks, and the obstacle the game starts with falls along its one       *)
(* diagonal and is gone behind it.                                         *)
Deserted ==
  /\ \A i \in 0..13 : staticobs.rows[i] = 255
  /\ \/ fallingobs.x \in 0..20 /\ fallingobs.y = 20 - fallingobs.x /\ fallingobs.flag = 1
     \/ fallingobs = [x |-> 255, y |-> 21, flag |-> 0]

LEMMA ObstacleFalls ==
  ASSUME fallingobs \in Thing!Things, Deserted, Thing!updatefallingobs
  PROVE  \/ fallingobs'.x \in 0..20 /\ fallingobs'.y = 20 - fallingobs'.x /\ fallingobs'.flag = 1
         \/ fallingobs' = [x |-> 255, y |-> 21, flag |-> 0]
<1>1. CASE fallingobs.x \in 1..20 /\ fallingobs.y = 20 - fallingobs.x /\ fallingobs.flag = 1
  <2>1. /\ Thing!Wrap(fallingobs.x - 1) = fallingobs.x - 1
        /\ Thing!Wrap(fallingobs.y + 1) = fallingobs.y + 1
    BY <1>1 DEF Thing!Wrap
  <2>2. Thing!OnScreen(fallingobs.x - 1, 24)
    <3>1. ASSUME NEW n \in -256..-1 PROVE Thing!Wrap(n) = n + 256
      BY DEF Thing!Wrap
    <3>2. (fallingobs.x - 1) % 128 = fallingobs.x - 1
      BY <1>1
    <3>3. fallingobs.x - 1 - 24 \in -24..-5
      BY <1>1
    <3> QED  BY <3>1, <3>2, <3>3 DEF Thing!OnScreen, Thing!Below
  <2> QED  BY <1>1, <2>1, <2>2 DEF Thing!updatefallingobs
<1>2. CASE fallingobs.x = 0 /\ fallingobs.y = 20 /\ fallingobs.flag = 1
  <2>1. Thing!Wrap(0 - 1) = 255 /\ Thing!Wrap(20 + 1) = 21
    <3>1. ASSUME NEW n \in -256..-1 PROVE Thing!Wrap(n) = n + 256
      BY DEF Thing!Wrap
    <3>2. 0 - 1 \in -256..-1 /\ 0 - 1 + 256 = 255
      OBVIOUS
    <3>3. Thing!Wrap(21) = 21
      BY DEF Thing!Wrap
    <3> QED  BY <3>1, <3>2, <3>3
  <2>2. ~Thing!OnScreen(255, 24)
    <3>1. 255 % 128 = 127 /\ Thing!Wrap(127 - 24) = 103
      BY DEF Thing!Wrap
    <3> QED  BY <3>1 DEF Thing!OnScreen, Thing!Below
  <2> QED  BY <1>2, <2>1, <2>2 DEF Thing!updatefallingobs
<1>3. CASE fallingobs = [x |-> 255, y |-> 21, flag |-> 0]
  BY <1>3 DEF Thing!updatefallingobs
<1> QED  BY <1>1, <1>2, <1>3 DEF Deserted

LEMMA DesertedStep ==
  ASSUME Typed, Deserted, [Next]_vars
  PROVE  Deserted'
<1>0. fallingobs \in Thing!Things /\ staticobs \in [x : Byte, rows : [0..13 -> Byte], flag : Byte]
  BY DEF Typed, WallIn, GunP!WallIn, GunP!Byte, GunP!Blocks, Byte
<1>s. UNCHANGED <<fallingobs, staticobs>> => Deserted'
  BY DEF Deserted
<1>1. ASSUME NEW now, NEW next, Bullet(now, next) PROVE Deserted'
  <2>1. UNCHANGED fallingobs
    BY <1>1 DEF Bullet
  <2>2. PICK i : staticobs' = staticobs \/ staticobs' = Gun!Without(i)
    BY <1>1 DEF Bullet, Gun!bulletdetect, Gun!bulletWall
  <2>3. \A j \in 0..13 : staticobs'.rows[j] = 255
    <3>1. CASE staticobs' = staticobs
      BY <3>1 DEF Deserted
    <3>2. CASE staticobs' = Gun!Without(i) /\ i \in 0..13
      BY <1>0, <3>2 DEF Gun!Without, Gun!Blocks, Deserted
    <3>3. CASE staticobs' = Gun!Without(i) /\ i \notin 0..13
      BY <1>0, <3>3 DEF Gun!Without, Gun!Blocks, Deserted
    <3> QED  BY <2>2, <3>1, <3>2, <3>3
  <2> QED  BY <2>1, <2>3 DEF Deserted
<1>2. CASE spawn
  <2>1. randobyte' \notin {2, 4, 6}
    BY <1>2, NothingDrawn DEF spawn, Typed
  <2>2. UNCHANGED <<fallingobs, staticobs>>
    BY <1>2, <2>1 DEF spawn, Thing!spawn, Thing!nospawn
  <2> QED  BY <1>s, <2>2
<1>3. CASE updatedata
  <2>1. Thing!updatefallingobs /\ Thing!updateWalls
    BY <1>3 DEF updatedata, Thing!update
  <2>2. staticobs'.rows = staticobs.rows
    BY <1>0, <2>1 DEF Thing!updateWalls
  <2> QED  BY <1>0, <2>1, <2>2, ObstacleFalls DEF Deserted
<1>4. ASSUME NEW now, NEW next, Hit(now, next) PROVE Deserted'
  BY <1>s, <1>4 DEF Hit
<1>5. ASSUME NEW input \in Inputs, quitIntro(input) PROVE Deserted'
  BY <1>s, <1>5 DEF quitIntro, Polled, objects
<1>6. CASE SetChars \/ useInput \/ updateScore \/ waitTurn \/ gameOver \/ Watched \/ UNCHANGED vars
  <2>1. UNCHANGED <<fallingobs, staticobs>>
    BY <1>6 DEF SetChars, useInput, updateScore, waitTurn, gameOver, Watched, vars, objects
  <2> QED  BY <1>s, <2>1
<1> QED  BY <1>1, <1>2, <1>3, <1>4, <1>5, <1>6 DEF Next

(* In no game, whatever the level, is there ever a wall in the way or an   *)
(* obstacle but the first.                                                 *)
THEOREM NoneReturns == Spec => []Deserted
<1>1. Init => Deserted
  BY DEF Init, Deserted
<1>2. Typed /\ Deserted /\ [Next]_vars => Deserted'
  BY DesertedStep
<1> QED  BY <1>1, <1>2, TypesInGame, PTL DEF Spec

-----------------------------------------------------------------------------
(* The pilot.  The row of the ship is compared with the middle of the      *)
(* lower corridor in its column and the next ones.                         *)
Lead(c) == 18 - topset[c]

(* In the first level a column is repeated once: they come in pairs, at    *)
(* the even columns before a new one is drawn and at the odd ones after.   *)
Paired ==
  /\ upFlag = 0 => \A c \in 0..21 : topset[c] = 2
  /\ upFlag # 0 => \A c \in 0..20 : (c + upFlag) % 2 = 0 => topset[c + 1] = topset[c]

(* A column the game was started with is a row narrower than the others,   *)
(* and what comes after it rises less.                                     *)
Narrow(c) == emptyset[c] = topset[c] + 5

Floors == \A c \in 0..21 : emptyset[c] \in {topset[c] + 5, topset[c] + 6}

Gentle ==
  \A c \in 0..20 :
    topset[c + 1] - topset[c] \in -2..2 /\ (Narrow(c) => topset[c + 1] - topset[c] # 2)

(* Of two different columns in a row one is not at the bottom of the band. *)
Peaks ==
  upFlag # 0 => \A c \in 0..20 : (c + upFlag) % 2 = 1 => topset[c] < 7 \/ topset[c + 1] < 7

(* A narrow column is one because the first new one is drawn in the third  *)
(* frame,                                                                  *)
(* before the score and the level can have changed.                        *)
Dawn ==
  Narrow(21) =>
    /\ stage.sub = 1 /\ powerUp.x = 20 - upFlag
    /\ upFlag = currTurn + IF pc = "score" THEN 1 ELSE 0

(* Where the pilot is: in two frames he is two rows further, as far as a   *)
(* roof goes from one pair of columns to the next.                         *)
Near(c) == ship.y - Lead(c) \in -1..1

Course ==
  IF pc \in {"hit2", "bullet2", "spawn", "update"}
  THEN /\ upFlag = 0 => ship.y = 17
       /\ upFlag = 1 => ship.y = Lead(1)
       /\ upFlag = 2 => Near(0) /\ Near(2)
  ELSE /\ upFlag = 0 => ship.y = 18
       /\ upFlag = 1 => Near(0) /\ Near(1)
       /\ upFlag = 2 => ship.y = Lead(0)

OnTrack ==
  /\ pc # "over" /\ ship.x = 0
  /\ Paired /\ Floors /\ Gentle /\ Peaks /\ Dawn /\ Course

(* What TunnelProofs says of the columns, in the game.                     *)
LEMMA ColumnsInGame ==
  ASSUME Typed, Cave!Band, stage.level = 1, ~overflow, Cave!noUpdate \/ Cave!NewColumn(overflow)
  PROVE  /\ topset[21] \in 0..8
         /\ \A c \in 0..20 : topset'[c] = topset[c + 1] /\ emptyset'[c] = emptyset[c + 1]
         /\ \/ /\ upFlag \in 0..1 /\ upFlag' = upFlag + 1
               /\ topset'[21] = topset[21] /\ emptyset'[21] = emptyset[21]
            \/ /\ upFlag = 2 /\ upFlag' = 1
               /\ topset'[21] \in {topset[21] - stage.sub, topset[21] + stage.sub}
               /\ topset[21] >= 7 => topset'[21] < 7
               /\ emptyset'[21] = topset'[21] + 6
<1>1. 22 \in Nat /\ 22 >= 2 /\ BOOLEAN \subseteq BOOLEAN /\ 128 \in Nat
  OBVIOUS
<1>2. CaveP!IInv /\ CaveP!Band
  BY CaveSame, BandSame DEF Typed
<1>3. overflow \in BOOLEAN /\ (CaveP!noUpdate \/ CaveP!NewColumn(overflow))
  BY CaveSame DEF Typed
<1>4. /\ CaveP!Moved
      /\ \/ /\ upFlag \in 0..1 /\ upFlag' = upFlag + 1
            /\ topset'[CaveP!Last] = topset[CaveP!Last]
            /\ emptyset'[CaveP!Last] = emptyset[CaveP!Last]
         \/ /\ upFlag = 2 /\ upFlag' = 1
            /\ topset'[CaveP!Last] \in {topset[CaveP!Last] - stage.sub, topset[CaveP!Last] + stage.sub}
            /\ topset[CaveP!Last] >= 7 => topset'[CaveP!Last] < 7
            /\ emptyset'[CaveP!Last] = topset'[CaveP!Last] + 6
  BY <1>1, <1>2, <1>3, CaveP!FrameMoves, Zenon
<1>5. CaveP!Last = 21 /\ CaveP!Last - 1 = 20
  BY DEF CaveP!Last
<1>6. topset[21] \in 0..8
  BY LowColumns
<1> QED  BY <1>4, <1>5, <1>6 DEF CaveP!Moved

LEMMA RoofRows ==
  ASSUME Typed, Cave!Band
  PROVE  /\ \A c \in 0..21 : topset[c] \in 0..8 /\ emptyset[c] \in Int
         /\ upFlag \in 0..2 /\ stage.sub \in 1..2 /\ currTurn \in 0..2
         /\ ship.x \in 0..21 /\ ship.y \in 0..21
<1>1. \A c \in 0..21 : topset[c] \in 0..8 /\ emptyset[c] \in Int
  BY LowColumns
<1>2. upFlag \in 0..2 /\ stage.sub \in 1..2
  BY DEF Typed, Cave!TypeOK
<1>3. currTurn \in 0..2
  BY DEF Typed, Stat!TypeOK
<1> QED  BY <1>1, <1>2, <1>3 DEF Typed

(* The columns after a frame.                                              *)
LEMMA TrackMoves ==
  ASSUME Typed, Cave!Band, stage.level = 1, ~overflow, Cave!noUpdate \/ Cave!NewColumn(overflow),
         Paired, Floors, Gentle, Peaks, Dawn
  PROVE  Paired' /\ Floors' /\ Gentle' /\ Peaks'
<1> DEFINE Stays == /\ upFlag \in 0..1 /\ upFlag' = upFlag + 1
                    /\ topset'[21] = topset[21] /\ emptyset'[21] = emptyset[21]
           Turns == /\ upFlag = 2 /\ upFlag' = 1
                    /\ topset'[21] \in {topset[21] - stage.sub, topset[21] + stage.sub}
                    /\ topset[21] >= 7 => topset'[21] < 7
                    /\ emptyset'[21] = topset'[21] + 6
<1>1. \A c \in 0..20 : topset'[c] = topset[c + 1] /\ emptyset'[c] = emptyset[c + 1]
  BY ColumnsInGame
<1>2. Stays \/ Turns
  BY ColumnsInGame
<1>3. /\ \A c \in 0..21 : topset[c] \in 0..8 /\ emptyset[c] \in Int
      /\ stage.sub \in 1..2
  BY RoofRows
<1>4. Floors'
  <2> SUFFICES ASSUME NEW c \in 0..21
               PROVE  emptyset'[c] \in {topset'[c] + 5, topset'[c] + 6}
    BY DEF Floors
  <2>1. CASE c \in 0..20
    <3>1. c + 1 \in 0..21  BY <2>1
    <3> QED  BY <1>1, <2>1, <3>1 DEF Floors
  <2>2. CASE c = 21
    <3>1. emptyset[21] \in {topset[21] + 5, topset[21] + 6}
      BY DEF Floors
    <3> QED  BY <1>2, <2>2, <3>1
  <2> QED  BY <2>1, <2>2
<1>5. Paired'
  <2>1. upFlag' # 0
    BY <1>2
  <2>2. ASSUME NEW c \in 0..20, (c + upFlag') % 2 = 0
        PROVE  topset'[c + 1] = topset'[c]
    <3>1. CASE c = 20
      <4>1. Stays
        BY <1>2, <2>2, <3>1
      <4> QED  BY <1>1, <3>1, <4>1
    <3>2. CASE c \in 0..19
      <4>1. topset'[c] = topset[c + 1] /\ topset'[c + 1] = topset[c + 2]
        BY <1>1, <3>2
      <4>2. CASE upFlag = 0
        BY <3>2, <4>1, <4>2 DEF Paired
      <4>3. CASE upFlag # 0
        <5>1. c + 1 \in 0..20 /\ (c + 1 + upFlag) % 2 = 0 /\ c + 1 + 1 = c + 2
          BY <1>2, <2>2, <3>2, <4>3
        <5> QED  BY <4>1, <4>3, <5>1 DEF Paired
      <4> QED  BY <4>2, <4>3
    <3> QED  BY <3>1, <3>2
  <2> QED  BY <2>1, <2>2 DEF Paired
<1>6. Gentle'
  <2> SUFFICES ASSUME NEW c \in 0..20
               PROVE  /\ topset'[c + 1] - topset'[c] \in -2..2
                      /\ emptyset'[c] = topset'[c] + 5 => topset'[c + 1] - topset'[c] # 2
    BY DEF Gentle, Narrow
  <2>1. CASE c = 20
    <3>1. topset'[20] = topset[21] /\ emptyset'[20] = emptyset[21] /\ topset[21] \in 0..8
      BY <1>1, <1>3
    <3>2. CASE Stays
      BY <2>1, <3>1, <3>2
    <3>3. CASE Turns
      <4>1. topset'[21] - topset[21] \in {-stage.sub, stage.sub}
        BY <1>3, <3>1, <3>3
      <4>2. emptyset[21] = topset[21] + 5 => stage.sub = 1
        BY DEF Dawn, Narrow
      <4> QED  BY <1>3, <2>1, <3>1, <4>1, <4>2
    <3> QED  BY <1>2, <3>2, <3>3
  <2>2. CASE c \in 0..19
    <3>1. topset'[c] = topset[c + 1] /\ topset'[c + 1] = topset[c + 2]
          /\ emptyset'[c] = emptyset[c + 1]
      BY <1>1, <2>2
    <3>2. c + 1 \in 0..20 /\ c + 1 + 1 = c + 2
      BY <2>2
    <3> QED  BY <3>1, <3>2 DEF Gentle, Narrow
  <2> QED  BY <2>1, <2>2
<1>7. Peaks'
  <2> SUFFICES ASSUME NEW c \in 0..20, (c + upFlag') % 2 = 1
               PROVE  topset'[c] < 7 \/ topset'[c + 1] < 7
    BY DEF Peaks
  <2>1. CASE c = 20
    <3>1. topset'[20] = topset[21] /\ topset[21] \in 0..8 /\ 21 \in 0..21
      BY <1>1, <1>3
    <3>2. CASE Stays
      <4>1. upFlag = 0
        BY <2>1, <3>2
      <4>2. topset[21] = 2
        BY <3>1, <4>1 DEF Paired
      <4> QED  BY <2>1, <3>1, <4>2
    <3>3. CASE Turns
      BY <2>1, <3>1, <3>3
    <3> QED  BY <1>2, <3>2, <3>3
  <2>2. CASE c \in 0..19
    <3>1. topset'[c] = topset[c + 1] /\ topset'[c + 1] = topset[c + 2]
      BY <1>1, <2>2
    <3>2. CASE upFlag = 0
      <4>1. topset[c + 1] = 2
        BY <2>2, <3>2 DEF Paired
      <4> QED  BY <3>1, <4>1
    <3>3. CASE upFlag # 0
      <4>1. c + 1 \in 0..20 /\ (c + 1 + upFlag) % 2 = 1 /\ c + 1 + 1 = c + 2
        BY <1>2, <2>2, <3>3
      <4> QED  BY <3>1, <3>3, <4>1 DEF Peaks
    <3> QED  BY <3>2, <3>3
  <2> QED  BY <2>1, <2>2
<1> QED  BY <1>4, <1>5, <1>6, <1>7

(* The four columns the pilot's row depends on.                            *)
LEMMA Ahead ==
  ASSUME Typed, Cave!Band, OnTrack
  PROVE  /\ topset[0] \in 0..8 /\ topset[1] \in 0..8 /\ topset[2] \in 0..8
         /\ upFlag = 0 => topset[0] = 2 /\ topset[1] = 2 /\ topset[2] = 2
         /\ upFlag = 1 => topset[2] = topset[1]
         /\ upFlag = 2 => topset[1] = topset[0]
         /\ topset[1] - topset[0] \in -2..2 /\ topset[2] - topset[1] \in -2..2
         /\ Narrow(0) => topset[1] - topset[0] # 2
         /\ upFlag = 1 => topset[0] < 7 \/ topset[1] < 7
         /\ upFlag = 2 => topset[1] < 7 \/ topset[2] < 7
<1>1. /\ 0 \in 0..20 /\ 1 \in 0..20 /\ 0 \in 0..21 /\ 1 \in 0..21 /\ 2 \in 0..21
      /\ 0 + 1 = 1 /\ 1 + 1 = 2 /\ (0 + 2) % 2 = 0 /\ (1 + 1) % 2 = 0
      /\ (0 + 1) % 2 = 1 /\ (1 + 2) % 2 = 1
  OBVIOUS
<1>2. topset[0] \in 0..8 /\ topset[1] \in 0..8 /\ topset[2] \in 0..8
  BY <1>1, RoofRows
<1>3. upFlag = 0 => topset[0] = 2 /\ topset[1] = 2 /\ topset[2] = 2
  BY <1>1 DEF OnTrack, Paired
<1>4. upFlag = 1 => topset[2] = topset[1]
  BY <1>1 DEF OnTrack, Paired
<1>5. upFlag = 2 => topset[1] = topset[0]
  BY <1>1 DEF OnTrack, Paired
<1>6. /\ topset[1] - topset[0] \in -2..2 /\ topset[2] - topset[1] \in -2..2
      /\ Narrow(0) => topset[1] - topset[0] # 2
  BY <1>1 DEF OnTrack, Gentle
<1>7. upFlag = 1 => topset[0] < 7 \/ topset[1] < 7
  BY <1>1 DEF OnTrack, Peaks
<1>8. upFlag = 2 => topset[1] < 7 \/ topset[2] < 7
  BY <1>1 DEF OnTrack, Peaks
<1> QED  BY <1>2, <1>3, <1>4, <1>5, <1>6, <1>7, <1>8

(* On his track there is nothing the pilot can meet.                       *)
LEMMA TrackClear ==
  ASSUME Typed, Cave!Band, Deserted, OnTrack
  PROVE  ~Crash
<1> DEFINE k == ship.y - (18 - topset[0])
<1>0. upFlag \in 0..2 /\ ship.y \in 0..21 /\ ship.x = 0
  BY RoofRows DEF OnTrack
<1>1. k \in -2..2 /\ (Narrow(0) => k # -2) /\ ship.y <= 19
  <2>1. CASE upFlag = 0
    BY <1>0, <2>1, Ahead DEF OnTrack, Course
  <2>2. CASE upFlag = 1
    BY <1>0, <2>2, Ahead DEF OnTrack, Course, Near, Lead
  <2>3. CASE upFlag = 2
    BY <1>0, <2>3, Ahead DEF OnTrack, Course, Near, Lead
  <2> QED  BY <1>0, <2>1, <2>2, <2>3
<1>2. ship.y = 18 - topset[0] + k
  BY <1>0, Ahead
<1>3. ~InRock(ship)
  <2>1. topset[0] \in 0..8 /\ emptyset[0] \in {topset[0] + 5, topset[0] + 6}
    BY Ahead DEF OnTrack, Floors
  <2> HIDE DEF k
  <2>2. CaveP!Open(topset[0], emptyset[0], 18 - topset[0] + k)
    <3>1. 22 \in Nat /\ 22 >= 2 /\ BOOLEAN \subseteq BOOLEAN /\ 128 \in Nat
      OBVIOUS
    <3>2. emptyset[0] = topset[0] + 5 => k # -2
      BY <1>1 DEF Narrow
    <3> QED  BY <1>1, <2>1, <3>1, <3>2, CaveP!OpenAround, Zenon
  <2>3. CaveP!Open(topset[0], emptyset[0], ship.y) <=> Open(topset[0], emptyset[0], ship.y)
    BY DEF CaveP!Open, CaveP!InUpperHalf, CaveP!Below, CaveP!Wrap, Open, InUpperHalf, Below, Wrap
  <2> QED  BY <1>0, <1>2, <2>2, <2>3 DEF InRock
<1>4. ~Thing!wallDetect(ship)
  BY <1>0 DEF Deserted, Thing!wallDetect, Thing!Blocks
<1>5. ~Thing!Meets(fallingobs, ship)
  BY <1>0, <1>1 DEF Deserted, Thing!Meets
<1> QED  BY <1>3, <1>4, <1>5 DEF Crash, CrashAt

(* The pilot's hand on the joystick.                                       *)
LEMMA PilotSteers ==
  ASSUME Typed, Cave!Band, OnTrack, pc = "input", ship' = Gun!Steered(Towards), UNCHANGED tunnel,
         pc' = "hit2"
  PROVE  ship'.x = 0 /\ Course'
<1> DEFINE m == 18 - topset[2]
<1>0. upFlag \in 0..2 /\ ship \in [x : 0..21, y : 0..21] /\ ship.x = 0
  BY RoofRows DEF OnTrack, Typed
<1>1. Middle = m /\ m \in 10..18
  <2>1. ship.x + 2 = 2
    BY <1>0
  <2> QED  BY <2>1, Ahead DEF Middle
<1>2. ship' = [ship EXCEPT !.y = IF m < ship.y THEN ship.y - 1
                                 ELSE IF m > ship.y THEN ship.y + 1 ELSE ship.y]
  <2>1. CASE m < ship.y
    <3>1. Towards = "up"  BY <1>0, <1>1, <2>1 DEF Towards
    <3> QED  BY <1>0, <1>1, <2>1, <3>1 DEF Gun!Steered
  <2>2. CASE m > ship.y
    <3>1. Towards = "down"  BY <1>0, <1>1, <2>2 DEF Towards
    <3> QED  BY <1>0, <1>1, <2>2, <3>1 DEF Gun!Steered
  <2>3. CASE m = ship.y
    <3>1. Towards = "none"  BY <1>0, <1>1, <2>3 DEF Towards
    <3> QED  BY <1>0, <1>1, <2>3, <3>1 DEF Gun!Steered
  <2> QED  BY <1>0, <1>1, <2>1, <2>2, <2>3
<1>3. /\ ship'.x = 0
      /\ ship'.y = IF m < ship.y THEN ship.y - 1 ELSE IF m > ship.y THEN ship.y + 1 ELSE ship.y
  BY <1>0, <1>2
<1>4. topset' = topset /\ upFlag' = upFlag
  BY DEF tunnel
<1>5. CASE upFlag = 0
  <2>1. ship.y = 18 /\ m = 16
    BY <1>5, Ahead DEF OnTrack, Course
  <2> QED  BY <1>3, <1>4, <1>5, <2>1 DEF Course
<1>6. CASE upFlag = 1
  <2>1. ship.y - m \in -1..1 /\ m = 18 - topset[1]
    BY <1>6, Ahead DEF OnTrack, Course, Near, Lead
  <2> QED  BY <1>0, <1>1, <1>3, <1>4, <1>6, <2>1 DEF Course, Lead
<1>7. CASE upFlag = 2
  <2>1. ship.y = 18 - topset[0] /\ topset[2] - topset[0] \in -2..2
    BY <1>7, Ahead DEF OnTrack, Course, Lead
  <2>2. ship'.y - (18 - topset[0]) \in -1..1 /\ ship'.y - m \in -1..1
    BY <1>0, <1>1, <1>3, <2>1, Ahead
  <2> QED  BY <1>3, <1>4, <1>7, <2>2 DEF Course, Near, Lead
<1> QED  BY <1>0, <1>3, <1>5, <1>6, <1>7

(* What the next frame asks of the ship's row.                             *)
LEMMA CourseMoves ==
  ASSUME Typed, Cave!Band, stage.level = 1, ~overflow, OnTrack, pc = "update", updatedata
  PROVE  Course'
<1>1. Cave!noUpdate \/ Cave!NewColumn(overflow)
  BY DEF updatedata
<1>2. /\ topset'[0] = topset[1] /\ topset'[1] = topset[2]
      /\ \/ upFlag \in 0..1 /\ upFlag' = upFlag + 1
         \/ upFlag = 2 /\ upFlag' = 1
  <2>1. 0 \in 0..20 /\ 1 \in 0..20 /\ 0 + 1 = 1 /\ 1 + 1 = 2
    OBVIOUS
  <2> QED  BY <1>1, <2>1, ColumnsInGame
<1>3. ship' = ship /\ pc' = "score" /\ ship.y \in 0..21
  BY RoofRows DEF updatedata
<1>4. CASE upFlag = 0
  <2>1. ship.y = 17 /\ topset[1] = 2 /\ topset[2] = 2 /\ upFlag' = 1
    BY <1>2, <1>4, Ahead DEF OnTrack, Course
  <2> QED  BY <1>2, <1>3, <2>1 DEF Course, Near, Lead
<1>5. CASE upFlag = 1
  <2>1. ship.y = 18 - topset[1] /\ upFlag' = 2
    BY <1>2, <1>5 DEF OnTrack, Course, Lead
  <2> QED  BY <1>2, <1>3, <2>1 DEF Course, Lead
<1>6. CASE upFlag = 2
  <2>1. /\ ship.y - (18 - topset[0]) \in -1..1 /\ ship.y - (18 - topset[2]) \in -1..1
        /\ upFlag' = 1
    BY <1>2, <1>6 DEF OnTrack, Course, Near, Lead
  <2>2. topset[1] = topset[0]
    BY <1>6, Ahead
  <2> QED  BY <1>2, <1>3, <2>1, <2>2 DEF Course, Near, Lead
<1> QED  BY <1>2, <1>4, <1>5, <1>6

(* A call that leaves tunnel and ship alone, and the dawn as it was.       *)
Turned(now) == now \in {"hit2", "bullet2", "spawn", "update"}

LEMMA TrackKept ==
  ASSUME OnTrack, UNCHANGED tunnel, UNCHANGED ship,
         pc' # "over", Turned(pc') <=> Turned(pc),
         Narrow(21) => /\ UNCHANGED <<stage, powerUp>>
                       /\ currTurn' + (IF pc' = "score" THEN 1 ELSE 0)
                            = currTurn + (IF pc = "score" THEN 1 ELSE 0)
  PROVE  OnTrack'
<1>1. topset' = topset /\ emptyset' = emptyset /\ upFlag' = upFlag
  BY DEF tunnel
<1>2. Paired' /\ Floors' /\ Gentle' /\ Peaks'
  BY <1>1 DEF OnTrack, Paired, Floors, Gentle, Peaks, Narrow
<1>3. Dawn'
  BY <1>1 DEF OnTrack, Dawn, Narrow
<1>4. Course'
  BY <1>1 DEF OnTrack, Course, Near, Lead, Turned
<1> QED  BY <1>2, <1>3, <1>4 DEF OnTrack

(* Whatever the clock has left, the second hit test of a frame subtracts   *)
(* and leaves no overflow; where the ship is in the upper half then, the   *)
(* first has done so.                                                      *)
Settled ==
  /\ pc \in {"bullet1", "input", "hit2"} /\ upFlag = 1 => ~overflow
  /\ pc \in {"bullet2", "spawn", "update"} => ~overflow

LEMMA PilotLow ==
  ASSUME Typed, Cave!Band, OnTrack, Settled,
         \/ pc = "hit1" /\ upFlag = 1
         \/ pc = "hit2"
  PROVE  ~overflow \/ ~InUpperHalf(ship.y)
<1>0. upFlag \in 0..2 /\ ship.y \in 0..21
  BY RoofRows
<1>1. ASSUME ship.y >= 11 PROVE ~InUpperHalf(ship.y)
  BY <1>0, <1>1 DEF InUpperHalf, Below, Wrap
<1>2. CASE pc = "hit1" /\ upFlag = 1
  BY <1>0, <1>1, <1>2, Ahead DEF OnTrack, Course, Near, Lead
<1>3. CASE pc = "hit2" /\ upFlag = 0
  BY <1>1, <1>3 DEF OnTrack, Course
<1>4. CASE pc = "hit2" /\ upFlag = 1
  BY <1>4 DEF Settled
<1>5. CASE pc = "hit2" /\ upFlag = 2
  BY <1>0, <1>1, <1>5, Ahead DEF OnTrack, Course, Near, Lead
<1> QED  BY <1>0, <1>2, <1>3, <1>4, <1>5

LEMMA SettledStep ==
  ASSUME Typed, Cave!Band, CheatIn, OnTrack, Settled, [Next]_vars
  PROVE  Settled'
<1>0. pc \in {"hit1", "hit2"} => cheatFlag # 1
  BY DEF CheatIn
<1>1. CASE Hit("hit1", "bullet1")
  <2>1. pc = "hit1" /\ pc' \in {"bullet1", "over"} /\ upFlag' = upFlag
    BY <1>1 DEF Hit, hitdetect, tunnel
  <2>2. upFlag = 1 => ~overflow'
    BY <1>0, <1>1, <2>1, PilotLow, HitLeavesNone
  <2> QED  BY <2>1, <2>2 DEF Settled
<1>2. CASE Hit("hit2", "bullet2")
  <2>1. pc = "hit2"
    BY <1>2 DEF Hit
  <2>2. ~overflow'
    BY <1>0, <1>2, <2>1, PilotLow, HitLeavesNone
  <2> QED  BY <2>2 DEF Settled
<1>3. CASE Bullet("bullet1", "input")
  <2>1. pc = "bullet1" /\ pc' = "input" /\ upFlag' = upFlag
    BY <1>3 DEF Bullet, tunnel
  <2>2. ~overflow => ~overflow'
    BY <1>3, BulletLeavesNone
  <2> QED  BY <2>1, <2>2 DEF Settled
<1>4. CASE Bullet("bullet2", "spawn")
  <2>1. pc = "bullet2"
    BY <1>4 DEF Bullet
  <2>2. ~overflow'
    BY <1>4, <2>1, BulletLeavesNone DEF Settled
  <2> QED  BY <2>2 DEF Settled
<1>5. CASE spawn
  <2>1. pc = "spawn" /\ overflow' = overflow
    BY <1>5, SpawnLeavesNone DEF spawn
  <2> QED  BY <2>1 DEF Settled
<1>6. CASE useInput
  <2>1. pc = "input" /\ pc' = "hit2" /\ overflow' = overflow /\ upFlag' = upFlag
    BY <1>6 DEF useInput, tunnel
  <2> QED  BY <2>1 DEF Settled
<1>7. CASE \/ SetChars \/ updatedata \/ updateScore \/ waitTurn
           \/ \E input \in Inputs : quitIntro(input)
  <2>1. pc' \in {"intro", "down", "release", "hit1", "score", "wait"}
    BY <1>7 DEF SetChars, updatedata, updateScore, waitTurn, quitIntro, Polled
  <2> QED  BY <2>1 DEF Settled
<1>8. CASE gameOver \/ Watched \/ UNCHANGED vars
  <2>1. pc' = pc /\ overflow' = overflow /\ upFlag' = upFlag
    BY <1>8 DEF gameOver, Watched, vars, tunnel
  <2> QED  BY <2>1 DEF Settled
<1> QED  BY <1>1, <1>2, <1>3, <1>4, <1>5, <1>6, <1>7, <1>8 DEF Next

LEMMA TrackStep ==
  ASSUME Typed, Calm, Settled, Deserted, OnTrack, stage.level = 1, Next, Pilots
  PROVE  OnTrack'
<1>0. /\ Cave!Band /\ pc # "over" /\ ship.x = 0
      /\ upFlag \in 0..2 /\ currTurn \in 0..2
  BY RoofRows DEF Calm, OnTrack
<1>1. ASSUME NEW now \in {"hit1", "hit2"}, NEW next, Hit(now, next),
             next = IF now = "hit1" THEN "bullet1" ELSE "bullet2"
      PROVE  OnTrack'
  <2>1. pc' = next
    BY <1>0, <1>1, TrackClear DEF Hit, hitdetect
  <2>2. UNCHANGED tunnel /\ UNCHANGED ship /\ pc = now
    BY <1>1 DEF Hit
  <2>3. Narrow(21) => ~Met
    <3>1. Narrow(21) => powerUp.x = 20 - upFlag
      BY DEF OnTrack, Dawn
    <3> QED  BY <1>0, <3>1 DEF Met, Thing!Meets
  <2>4. Narrow(21) => UNCHANGED <<status, powerUp>>
    BY <1>1, <2>3 DEF Hit, hitdetect, powerUpDetect
  <2>5. Narrow(21) => UNCHANGED <<stage, powerUp, currTurn>>
    BY <2>4 DEF status
  <2> QED  BY <1>1, <2>1, <2>2, <2>5, TrackKept DEF Turned
<1>2. ASSUME NEW now, NEW next, Bullet(now, next),
             \/ now = "bullet1" /\ next = "input"
             \/ now = "bullet2" /\ next = "spawn"
      PROVE  OnTrack'
  <2>1. /\ UNCHANGED <<tunnel, ship, stage, powerUp, currTurn>>
        /\ pc = now /\ pc' = next
    BY <1>2 DEF Bullet, status
  <2> QED  BY <1>2, <2>1, TrackKept DEF Turned
<1>3. CASE useInput
  <2>1. UNCHANGED <<tunnel, powerUp>> /\ pc = "input" /\ pc' = "hit2"
    BY <1>3 DEF useInput, objects
  <2>2. UNCHANGED <<stage, currTurn>>
    BY <1>3 DEF useInput, Stat!SpendBullet, status
  <2>3. ship' = Gun!Steered(Towards)
    BY <2>1 DEF Pilots
  <2>4. ship'.x = 0 /\ Course'
    BY <1>0, <2>1, <2>3, PilotSteers
  <2>5. topset' = topset /\ emptyset' = emptyset /\ upFlag' = upFlag
    BY <2>1 DEF tunnel
  <2>6. Paired' /\ Floors' /\ Gentle' /\ Peaks'
    BY <2>5 DEF OnTrack, Paired, Floors, Gentle, Peaks, Narrow
  <2>7. Dawn'
    BY <2>1, <2>2, <2>5 DEF OnTrack, Dawn, Narrow
  <2> QED  BY <2>1, <2>4, <2>6, <2>7 DEF OnTrack
<1>4. CASE spawn
  <2>2. UNCHANGED powerUp
    BY <1>4, SpawnLeavesNone
  <2>3. UNCHANGED <<tunnel, ship, stage, currTurn>> /\ pc = "spawn" /\ pc' = "update"
    BY <1>4 DEF spawn, status
  <2> QED  BY <2>2, <2>3, TrackKept DEF Turned
<1>5. CASE updatedata
  <2>0. ~overflow
    BY <1>5 DEF updatedata, Settled
  <2>1. Cave!noUpdate \/ Cave!NewColumn(overflow)
    BY <1>5 DEF updatedata
  <2>2. Paired' /\ Floors' /\ Gentle' /\ Peaks'
    BY <1>0, <2>0, <2>1, TrackMoves DEF OnTrack
  <2>3. /\ UNCHANGED <<ship, stage, currTurn>> /\ Thing!updatePowerUp
        /\ pc = "update" /\ pc' = "score"
    BY <1>5 DEF updatedata, status, Thing!update
  <2>4. Course'
    BY <1>0, <1>5, <2>0, <2>3, CourseMoves
  <2>5. Dawn'
    <3> SUFFICES ASSUME emptyset'[21] = topset'[21] + 5
                 PROVE  /\ stage'.sub = 1 /\ powerUp'.x = 20 - upFlag'
                        /\ upFlag' = currTurn' + 1
      BY <2>3 DEF Dawn, Narrow
    <3>1. topset'[21] \in Int
      <4>1. topset[21] \in 0..8 /\ stage.sub \in 1..2
        BY <1>0, RoofRows
      <4> QED  BY <1>0, <2>0, <2>1, <4>1, ColumnsInGame
    <3>2. /\ upFlag \in 0..1 /\ upFlag' = upFlag + 1
          /\ topset'[21] = topset[21] /\ emptyset'[21] = emptyset[21]
      BY <1>0, <2>0, <2>1, <3>1, ColumnsInGame
    <3>3. stage.sub = 1 /\ powerUp.x = 20 - upFlag /\ upFlag = currTurn
      BY <1>0, <2>3, <3>2 DEF OnTrack, Dawn, Narrow
    <3>4. powerUp'.x = powerUp.x - 1
      <4>1. Thing!Wrap(powerUp.x - 1) = powerUp.x - 1
        BY <3>2, <3>3 DEF Thing!Wrap
      <4>2. powerUp \in Thing!Things
        BY DEF Typed
      <4> QED  BY <2>3, <4>1, <4>2 DEF Thing!updatePowerUp, Thing!Things
    <3> QED  BY <2>3, <3>2, <3>3, <3>4
  <2> QED  BY <1>0, <2>2, <2>3, <2>4, <2>5 DEF OnTrack
<1>6. CASE updateScore
  <2>1. UNCHANGED <<tunnel, ship, powerUp>> /\ pc = "score" /\ pc' = "wait"
        /\ Stat!UpdateScore(FALSE)
    <3>1. overflow = FALSE
      BY <1>6 DEF updateScore, Calm, Typed
    <3> QED  BY <1>6, <3>1 DEF updateScore, objects
  <2>2. Narrow(21) => currTurn # 2
    BY <1>0, <2>1 DEF OnTrack, Dawn
  <2>3. Narrow(21) => stage' = stage /\ currTurn' = currTurn + 1
    BY <2>1, <2>2 DEF Stat!UpdateScore, Stat!CountFrame, Stat!AddPoint
  <2> QED  BY <1>0, <2>1, <2>3, TrackKept DEF Turned
<1>7. CASE SetChars \/ waitTurn \/ gameOver \/ Watched
  <2>1. UNCHANGED <<tunnel, ship, stage, powerUp, currTurn>>
    BY <1>7 DEF SetChars, waitTurn, gameOver, Watched, vars, objects, status
  <2>2. \/ pc = "setchars" /\ pc' = "intro"
        \/ pc = "wait" /\ pc' = "hit1"
        \/ pc' = pc
    BY <1>7 DEF SetChars, waitTurn, gameOver, Watched, vars
  <2>3. /\ pc' # "over" /\ (Turned(pc') <=> Turned(pc))
        /\ (pc' = "score") <=> (pc = "score")
    BY <1>0, <2>2 DEF Turned
  <2> QED  BY <2>1, <2>3, TrackKept
<1>8. ASSUME NEW input \in Inputs, quitIntro(input) PROVE OnTrack'
  <2>1. UNCHANGED <<tunnel, ship, stage, powerUp, currTurn>>
    BY <1>8 DEF quitIntro, Polled, objects, status
  <2>2. pc \in {"intro", "down", "release"} /\ pc' \in {"intro", "down", "release", "hit1"}
    BY <1>8 DEF quitIntro, Polled
  <2> QED  BY <2>1, <2>2, TrackKept DEF Turned
<1> QED  BY <1>1, <1>2, <1>3, <1>4, <1>5, <1>6, <1>7, <1>8 DEF Next

LEMMA TrackStart ==
  ASSUME Init
  PROVE  OnTrack
<1>1. Cave!Columns = 0..21
  BY DEF Cave!Columns, Cave!Last
<1>2. /\ \A c \in 0..21 : topset[c] = 2 /\ emptyset[c] = 7
      /\ upFlag = 0
  BY <1>1 DEF Init, Cave!Init
<1>3. \A c \in 0..20 : topset[c + 1] = 2 /\ topset[c] = 2
  <2>1. \A c \in 0..20 : c \in 0..21 /\ c + 1 \in 0..21
    OBVIOUS
  <2> QED  BY <1>2, <2>1
<1>4. Paired /\ Floors
  BY <1>2 DEF Paired, Floors
<1>5. Gentle /\ Peaks
  BY <1>2, <1>3 DEF Gentle, Peaks
<1>6. Dawn /\ Course
  BY <1>2 DEF Init, Dawn, Course
<1> QED  BY <1>4, <1>5, <1>6 DEF Init, OnTrack

-----------------------------------------------------------------------------
(* A game with an explorer or a pilot in it is a game.                     *)
LEMMA Plays == MCSpec => Spec
<1>1. MCInit => Init
  BY DEF MCInit
<1>2. [MCNext]_<<vars, player>> => [Next]_vars
  BY DEF MCNext, ExplorerWatched
<1> QED  BY <1>1, <1>2, PTL DEF MCSpec, Spec

(* What is seen is what is met, in the squares the runs look at.           *)
THEOREM SeenByPlayers == MCSpec => []WhatIsSeenIsMet
<1>1. Typed /\ SeenIsMet(Across) => WhatIsSeenIsMet
  <2> SUFFICES ASSUME Typed, SeenIsMet(Across) PROVE WhatIsSeenIsMet
    OBVIOUS
  <2>1. {ship.x} \cap {powerUp.x, fallingobs.x} \subseteq Across
    BY DEF Typed, Across
  <2> QED  BY <2>1 DEF WhatIsSeenIsMet, SeenIsMet
<1> QED  BY <1>1, Plays, TypesInGame, SeenInGame, PTL

(* All that is printed for the explorer and the pilot can be read, as they *)
(* start with fire.                                                        *)
THEOREM TextsForPlayers ==
  ASSUME Players \subseteq ExplorerAndPilot
  PROVE  MCSpec => []TextsReadable
<1> DEFINE Known == player \in ExplorerAndPilot
<1>1. MCInit => Known
  BY DEF MCInit
<1>2. Known /\ [MCNext]_<<vars, player>> => Known' /\ [NoDown]_vars
  <2> SUFFICES ASSUME Known, [MCNext]_<<vars, player>>
               PROVE  Known' /\ [NoDown]_vars
    OBVIOUS
  <2>1. player' = player
    BY DEF MCNext
  <2>2. player = "explorer" \/ player = "pilot"
    BY DEF ExplorerAndPilot
  <2>3. [NoDown]_vars
    BY <2>2 DEF MCNext, ExplorerWatched, Explores, Pilots, NoDown
  <2> QED  BY <2>1, <2>3
<1>3. MCSpec => [][NoDown]_vars
  BY <1>1, <1>2, PTL DEF MCSpec
<1> QED  BY <1>3, Plays, TextsInGame, PTL

(* The pilot's game.  He is on his track, no overflow of the clock gets    *)
(* from there to the tunnel or the score, and so the tunnel is the first   *)
(* level's.                                                                *)
Flown == player = "pilot" => FirstLevel /\ (Opening => OnTrack /\ Settled)

LEMMA FlownStep ==
  ASSUME Typed, Typed', CheatIn, Deserted, Flown, [MCNext]_<<vars, player>>, player' = "pilot",
         Opening'
  PROVE  /\ Opening /\ FirstLevel' /\ OnTrack' /\ Settled' /\ RoofTurned
<1>1. [Next]_vars /\ player = "pilot"
  BY DEF MCNext, ExplorerWatched
<1>2. Opening => RoofClear
  BY <1>1 DEF Flown, Settled, RoofClear
<1>3. Opening /\ stage.level = 1 /\ Calm /\ FirstLevel' /\ RoofTurned
  BY <1>1, <1>2, OpeningStep DEF Flown
<1>4. OnTrack /\ Settled
  BY <1>1, <1>3 DEF Flown
<1>5. Settled'
  BY <1>1, <1>3, <1>4, SettledStep DEF Calm
<1>6. ASSUME Next, Pilots PROVE OnTrack'
  BY <1>3, <1>4, <1>6, TrackStep
<1>7. ASSUME UNCHANGED vars PROVE OnTrack'
  <2>1. UNCHANGED <<tunnel, ship, stage, powerUp, currTurn, pc>>
    BY <1>7 DEF vars, objects, status
  <2> QED  BY <1>4, <2>1, TrackKept DEF OnTrack, Turned
<1>8. (Next /\ Pilots) \/ UNCHANGED vars
  BY <1>1 DEF MCNext, ExplorerWatched
<1> QED  BY <1>3, <1>5, <1>6, <1>7, <1>8

LEMMA PilotFlies == MCSpec => []Flown
<1>1. MCInit => Flown
  BY OpeningStart, TrackStart DEF MCInit, Flown, Settled, Init
<1>2. Typed /\ Typed' /\ CheatIn /\ Deserted /\ Flown /\ [MCNext]_<<vars, player>> => Flown'
  BY FlownStep DEF Flown, FirstLevel
<1> QED  BY <1>1, <1>2, Plays, TypesInGame, CheatInGame, NoneReturns, PTL DEF MCSpec

(* The tunnel a pilot flies through is passable, and its roof turns,       *)
THEOREM PilotHasWay == MCSpec => [](Opening => PilotsPassable)
<1>1. Typed /\ Flown => (Opening => PilotsPassable)
  BY CaveBand DEF Flown, FirstLevel, Calm, Passable, PilotsPassable
<1> QED  BY <1>1, Plays, TypesInGame, PilotFlies, PTL

THEOREM PilotTurns ==
  ASSUME Players \subseteq {"pilot"}
  PROVE  MCSpec /\ []Opening => RoofTurns
<1> DEFINE Piloted == player = "pilot"
<1>1. MCInit => Piloted
  BY DEF MCInit
<1>2. Piloted /\ [MCNext]_<<vars, player>> => Piloted'
  BY DEF MCNext
<1>3. Typed /\ Typed' /\ CheatIn /\ Deserted /\ Flown /\ Opening' /\ Piloted'
        /\ [MCNext]_<<vars, player>> => [RoofTurned]_vars
  BY FlownStep
<1>4. MCSpec /\ []Opening => [][RoofTurned]_vars
  BY <1>1, <1>2, <1>3, Plays, TypesInGame, CheatInGame, NoneReturns, PilotFlies, PTL DEF MCSpec
<1> QED  BY <1>4 DEF RoofTurns, RoofTurned

(* and he finds the way: for the first two hundred points the pilot's game *)
(* is never over, although he sees two columns ahead only and moves a row  *)
(* a frame, and whatever overflow the clock leaves.                        *)
THEOREM PilotSurvives == MCSpec => [](Opening => PilotAlive)
<1>1. Flown => (Opening => PilotAlive)
  BY DEF Flown, PilotAlive, Alive, OnTrack
<1> QED  BY <1>1, PilotFlies, PTL
=============================================================================

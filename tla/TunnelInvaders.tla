--------------------------- MODULE TunnelInvaders ---------------------------
(***************************************************************************)
(* The whole game: the calls of the main loop in their order, over the     *)
(* state of the tunnel, the objects, the weapons and the status line, and  *)
(* with the processor's overflow flag handed from one routine to the next. *)
(* pc names the call that comes next.  Drawing and printing change no      *)
(* state but the overflow flag; what they show is computed from the state, *)
(* in Screen, where a property asks for it.                                *)
(***************************************************************************)
EXTENDS Corridor, Screen

CONSTANTS
  Inputs,     \* the moves of the joystick
  Clocks,     \* the values of the overflow flag waitTurn may leave
  MaxScore    \* bound: the game is watched until this score

ASSUME GameAssumption ==
  /\ Inputs \subseteq {"fire", "up", "down", "left", "right", "none"}
  /\ Clocks \subseteq BOOLEAN
  /\ MaxScore \in Nat

(* Boot's addresses and copies come to this: the cheat flag lies under the *)
(* first row of the letter E.                                              *)
ASSUME LoadedAssumption == Loaded.cheatFlag = 126

(* And each thing is drawn with a picture of its own, a block with none.   *)
ASSUME PicturesAssumption == Pictured

(* The codes that still show characters of the ROM, the letters D and E    *)
(* with the last variables among their rows.                               *)
ASSUME LettersAssumption ==
  /\ Letters = (1..30 \cup 32..62) \ \h22..\h26
  /\ CodeAt = [musicLoopOffset |-> 4, randobyte |-> 4, cheatFlag |-> 5]

VARIABLES
  pc, overflow,
  topset, emptyset, drawDirection, upFlag,  \* the tunnel
  powerUp, fallingobs, staticobs,           \* the objects
  ship, bullet,
  currTurn, score, stage, ammo,             \* the status line
  musicLoopOffset, randobyte,
  cheatFlag

tunnel == <<topset, emptyset, drawDirection, upFlag>>
objects == <<powerUp, fallingobs, staticobs>>
status == <<currTurn, score, stage, ammo>>
music == <<musicLoopOffset, randobyte>>
vars == <<pc, overflow, tunnel, objects, ship, bullet, status, music, cheatFlag>>

(* The loop's phases as Objects sees them. *)
Phase ==
  CASE pc = "spawn" -> "spawn"
    [] pc = "update" -> "move"
    [] OTHER -> "detect"

Cave == INSTANCE Tunnel WITH
  Width <- 22, Overflows <- BOOLEAN, Levels <- 1..3, MaxDrift <- 128,
  currLevel <- stage.level, currSubLevel <- stage.sub

Thing == INSTANCE Objects WITH
  Kinds <- {2, 4, 6}, Roofs <- Byte, Shot <- 0..14, phase <- Phase

Gun == INSTANCE Weapons WITH
  Tunnels <- {}, Starts <- {}, Walls <- FALSE, phase <- pc

(* Of the status line's own bounds, none that five digits or two can reach. *)
ScoreEnd == 100000

Stat == INSTANCE Stats WITH
  Overflows <- BOOLEAN, MaxScore <- ScoreEnd, BusyScores <- 0..(ScoreEnd - 1), MaxAmmo <- 100

Tune == INSTANCE Music WITH currScoreOnes <- score.ones

(* What the status line should come to, as numbers.                        *)
Counted == INSTANCE Counter WITH
  total <- Stat!Total(score), frames <- currTurn, bullets <- Stat!Bullets(ammo)

-----------------------------------------------------------------------------
(* Start-up.  The program is loaded with its data as assembled; setchars   *)
(* then puts the character set over the last of it.                        *)
SetChars ==
  /\ pc = "setchars" /\ pc' = "intro"
  /\ musicLoopOffset' = Loaded.musicLoopOffset
  /\ randobyte' = Loaded.randobyte
  /\ cheatFlag' = Loaded.cheatFlag
  /\ UNCHANGED <<overflow, tunnel, objects, ship, bullet, status>>

(* The intro reads the joystick twice in each round, first for fire, then  *)
(* for down, and waits for its release; it cannot see it moved right.      *)
Polled(now, input, next) ==
  /\ pc = now /\ input \in Inputs /\ pc' = next
  /\ UNCHANGED <<overflow, tunnel, objects, ship, bullet, status, music>>

quitIntro(input) ==
  \/ /\ Polled("intro", input, IF input = "fire" THEN "release" ELSE "down")
     /\ UNCHANGED cheatFlag
  \/ /\ Polled("down", input, IF input = "down" THEN "release" ELSE "intro")
     /\ cheatFlag' = IF input = "down" THEN Wrap(cheatFlag + 1) ELSE cheatFlag
  \/ /\ Polled("release", input, IF input \in {"none", "right"} THEN "hit1" ELSE "release")
     /\ UNCHANGED cheatFlag

-----------------------------------------------------------------------------
(* hitdetect.  A power-up that is met is taken; an obstacle, a block of    *)
(* the wall or rock is the end.                                            *)

Met == Thing!Meets(powerUp, ship)

(* Mutated form: the power-up stays where it is.                           *)
powerUpDetectInPlace ==
  IF Met THEN Stat!Pickup(overflow) /\ powerUp' = [powerUp EXCEPT !.flag = 0]
         ELSE UNCHANGED <<status, powerUp>>

powerUpDetect ==
  IF Met THEN Stat!Pickup(overflow) /\ powerUp' = Thing!TakePowerUp
         ELSE UNCHANGED <<status, powerUp>>

InRock(place) == ~Open(topset[place.x], emptyset[place.x], place.y)

CrashAt(place) == Thing!Meets(fallingobs, place) \/ Thing!wallDetect(place) \/ InRock(place)

Crash == CrashAt(ship)

hitdetect(next) ==
  IF cheatFlag = 1
  THEN pc' = next /\ UNCHANGED <<overflow, powerUp, status>>
  ELSE /\ pc' = IF Crash THEN "over" ELSE next
       /\ powerUpDetect
       /\ overflow' = OverflowAfter(topset[ship.x], emptyset[ship.x], ship.y, overflow)

(* Mutated form: no test after the ship has moved.                         *)
HitOnce(now, next) ==
  /\ pc = now
  /\ IF now = "hit1" THEN hitdetect(next)
                     ELSE pc' = next /\ UNCHANGED <<overflow, powerUp, status>>
  /\ UNCHANGED <<tunnel, fallingobs, staticobs, ship, bullet, music, cheatFlag>>

Hit(now, next) ==
  /\ pc = now /\ hitdetect(next)
  /\ UNCHANGED <<tunnel, fallingobs, staticobs, ship, bullet, music, cheatFlag>>

-----------------------------------------------------------------------------
Bullet(now, next) ==
  LET b == Gun!AfterWall(topset, emptyset)
  IN  /\ pc = now /\ pc' = next
      /\ Gun!bulletdetect(topset, emptyset)
      /\ overflow' = OverflowAfter(Gun!TopAt(topset, emptyset, b.x),
                                   Gun!EmptyAt(emptyset, b.x), b.y, overflow)
      /\ UNCHANGED <<tunnel, powerUp, fallingobs, ship, status, music, cheatFlag>>

(* Mutated form: a shot that is refused is paid for.                       *)
FiresAlways(input) == input = "fire" /\ Stat!HasAmmo

Fires(input) == input = "fire" /\ Gun!MayFire(Stat!HasAmmo)

useInput ==
  /\ pc = "input" /\ pc' = "hit2"
  /\ \E input \in Inputs :
        /\ Gun!useInput(input, Stat!HasAmmo)
        /\ IF Fires(input) THEN Stat!SpendBullet ELSE UNCHANGED status
  /\ UNCHANGED <<overflow, tunnel, objects, music, cheatFlag>>

(* musicLoop and spawn. *)
spawn ==
  /\ pc = "spawn" /\ pc' = "update"
  /\ Tune!musicLoop /\ Tune!draw
  /\ Thing!spawn(randobyte', stage.level, topset[21], drawDirection)
  /\ overflow' = IF powerUp' # powerUp THEN Thing!SpawnOverflow(topset[21], drawDirection)
                                       ELSE overflow
  /\ UNCHANGED <<tunnel, ship, bullet, status, cheatFlag>>

-----------------------------------------------------------------------------
(* What fillscreen leaves in the overflow flag.  The last square it draws  *)
(* is the lower right corner; if the wall's column is the last one and     *)
(* nothing else is drawn there, the last subtraction is 12 - roof, which   *)
(* overflows and is not followed by another for a roof at $80.             *)
FillOverflow ==
  /\ staticobs'.x = 21 /\ topset'[21] = 128
  /\ \A thing \in {ship, bullet', powerUp', fallingobs'} : thing.x # 21 \/ thing.y # 21

(* Mutated form: the columns stand still between new ones.                 *)
updatedataStill ==
  /\ pc = "update" /\ pc' = "score"
  /\ UNCHANGED <<ship, status, music, cheatFlag>>
  /\ Gun!updateBullet
  /\ Thing!update
  /\ \/ upFlag < 2 /\ upFlag' = upFlag + 1 /\ UNCHANGED <<topset, emptyset, drawDirection>>
     \/ Cave!NewColumn(overflow)
  /\ overflow' = FillOverflow

(* updatedata and fillscreen. *)
updatedata ==
  /\ pc = "update" /\ pc' = "score"
  /\ UNCHANGED <<ship, status, music, cheatFlag>>
  /\ Gun!updateBullet
  /\ Thing!update
  /\ Cave!noUpdate \/ Cave!NewColumn(overflow)
  /\ overflow' = FillOverflow

(* Mutated form: counted when the clock has been read.                     *)
updateScoreLate ==
  /\ pc = "score" /\ pc' = "wait"
  /\ \E v \in Clocks : Stat!UpdateScore(v)
  /\ UNCHANGED <<overflow, tunnel, objects, ship, bullet, music, cheatFlag>>

updateScore ==
  /\ pc = "score" /\ pc' = "wait"
  /\ Stat!UpdateScore(overflow)
  /\ UNCHANGED <<overflow, tunnel, objects, ship, bullet, music, cheatFlag>>

(* printScoreLevel, whose additions overflow nowhere, and waitTurn, which  *)
(* adds two to the system clock: that overflows at $7E and $7F.            *)
waitTurn ==
  /\ pc = "wait" /\ Stat!Total(score) < MaxScore
  /\ pc' = "hit1"
  /\ overflow' \in Clocks
  /\ UNCHANGED <<tunnel, objects, ship, bullet, status, music, cheatFlag>>

(* gameOver ends in a dead loop. *)
gameOver == pc = "over" /\ UNCHANGED vars

(* The bound: no later frame is watched. *)
Watched == pc = "wait" /\ Stat!Total(score) >= MaxScore /\ UNCHANGED vars

-----------------------------------------------------------------------------
Init ==
  /\ pc = "setchars" /\ overflow \in Clocks
  /\ powerUp = [x |-> 20, y |-> 18, flag |-> 1]
  /\ fallingobs = [x |-> 20, y |-> 0, flag |-> 1]
  /\ staticobs = [x |-> 21, rows |-> [i \in 0..13 |-> 255], flag |-> 0]
  /\ ship = [x |-> 0, y |-> 18]
  /\ bullet = [x |-> 255, y |-> 255, flag |-> 0]
  /\ currTurn = 0
  /\ score = [ones |-> 0, tens |-> 0, huns |-> 0, thous |-> 0, tthous |-> 0]
  /\ stage = [level |-> 1, sub |-> 1, color |-> 1]
  /\ ammo = [ones |-> 5, tens |-> 0]
  /\ Cave!Init
  /\ musicLoopOffset = 0 /\ randobyte = 0
  /\ cheatFlag = 0

Next ==
  \/ SetChars
  \/ \E input \in Inputs : quitIntro(input)
  \/ Hit("hit1", "bullet1")
  \/ Bullet("bullet1", "input")
  \/ useInput
  \/ Hit("hit2", "bullet2")
  \/ Bullet("bullet2", "spawn")
  \/ spawn
  \/ updatedata
  \/ updateScore
  \/ waitTurn
  \/ gameOver
  \/ Watched

Spec == Init /\ [][Next]_vars

-----------------------------------------------------------------------------
(* "Fully functional and responsive hit detection of the ship": between    *)
(* two moves, of the ship or of anything else, there is a hit test, so     *)
(* that no move starts while the ship is in rock or on an object, and      *)
(* nothing is passed through by swapping places with it.                   *)
NothingSlipsBy ==
  (Met \/ Crash) => pc \in {"hit1", "hit2", "score", "wait", "over"}

(* The game drives the tunnel within what Tunnel allows, with any overflow *)
(* flag,                                                                   *)
CaveKept == Cave!Init /\ [][Cave!Next]_(Cave!vars)

(* and the objects within what Objects allows, with any hit on the wall    *)
(* and its flag.                                                           *)
ThingsKept == Thing!Init /\ [][Thing!Next]_(Thing!vars)

(* The status line counts points, frames and bullets as Counter promises,  *)
(* and the stage stays in step with the score, although updateScore goes   *)
(* through BVC with the overflow flag as it finds it: nothing between the  *)
(* clock, the hit tests, the drawing of the tunnel and the score clears it *)
(* but the subtractions they happen to do.  Two cases are left: the last   *)
(* roof at $80, for which fillscreen may leave the flag set, and a         *)
(* power-up met while the flag is set (see PowerUpPays).                   *)
FlagMayShow ==
  \/ pc = "score" /\ topset[21] = 128
  \/ pc \in {"hit1", "hit2"} /\ overflow

StatusCounts ==
  [][ ~FlagMayShow =>
        /\ [Counted!Next]_(Counted!vars)
        /\ Stat!LevelTracksScore => Stat!LevelTracksScore' ]_vars

(* In the real tunnel too, with whatever lies behind its last column, the  *)
(* flag of the bullet follows the bullet one can see.                      *)
ShotsTracked == Gun!FlagCoversFlight

(* A shot is paid for when a bullet leaves the ship, and nothing else but  *)
(* a power-up that is taken changes the ammunition.                        *)
Shoots == pc = "input" /\ bullet' # bullet

ShotsPaid ==
  [][ /\ Shoots => Stat!Bullets(ammo') = Stat!Bullets(ammo) - 1
      /\ ammo' # ammo => Shoots \/ powerUp' # powerUp ]_vars

(* What the player sees is what the ship meets: whenever the screen has    *)
(* been drawn, a square that hitdetect would find deadly does not look     *)
(* open, and one that looks like rock, an obstacle or a block is deadly,   *)
(* with the characters and colours of fillscreen, the pictures setchars    *)
(* has left for them and the addresses mul22 has computed.  Only behind    *)
(* the ship, the bullet or a power-up can a deadly square be hidden.       *)
Scene ==
  [topset |-> topset, emptyset |-> emptyset, ship |-> ship, bullet |-> bullet,
   powerUp |-> powerUp, fallingobs |-> fallingobs, staticobs |-> staticobs]

SeenAsMet(half, x, y) ==
  LET place == Target(half, x, y)
  IN  Agrees(Sight(half, Scene, x, y), CrashAt([x |-> Column(place), y |-> Row(place)]), Row(place))

SeenIsMet(columns) ==
  pc = "score" => \A half \in Halves, x \in columns, y \in HalfRows : SeenAsMet(half, x, y)

(* What is printed can be read, although the last variables lie among the  *)
(* characters and the loops that whiten the screen leave three squares     *)
(* out: title, status line and last score are in squares that are cleared  *)
(* and white, and show the characters of the ROM for the values the        *)
(* variables then have.  The squares of the tunnel fill the 22 rows above  *)
(* the status line, each place once, and leave it alone.                   *)
Legible(code) ==
  /\ code \in Letters
  /\ code = CodeAt.musicLoopOffset => musicLoopOffset = Loaded.musicLoopOffset
  /\ code = CodeAt.randobyte => randobyte = Loaded.randobyte
  /\ code = CodeAt.cheatFlag => cheatFlag = Loaded.cheatFlag

Readable(text) ==
  \A square \in text : square[1] \in Visible /\ Legible(square[2])

TextsReadable ==
  /\ pc = "intro" => Readable(Title)
  /\ pc = "wait" => TunnelPainted /\ Readable(StatusLine(score, stage, ammo))
  /\ pc = "over" => Readable(GameOver(score))

(* "Press down at start screen instead of fire to remove hit detection"    *)
(* (src/README.txt): counted up in the intro, the cheat flag keeps the     *)
(* game from ending.                                                       *)
Cheated == cheatFlag # Loaded.cheatFlag

CheatRemovesHits == (pc # "setchars" /\ Cheated) => pc # "over"

(* The first level can be survived: with a ship that steers for the middle *)
(* of the corridor two columns ahead, the game is not over.                *)
Alive == pc # "over"

(* In the first level, with no overflow pending, the tunnel the composed   *)
(* game draws stays passable, and its roof in its band.                    *)
Passable == Cave!Passable /\ Cave!Band

(* "Power-ups add 1 bullet and 20 points" (src/README.txt), as long as the *)
(* ammunition has room for it.                                             *)
PowerUpPays ==
  [][ (pc \in {"hit1", "hit2"} /\ powerUp' # powerUp /\ Stat!Bullets(ammo) < 99) =>
        Stat!Bullets(ammo') = Stat!Bullets(ammo) + 1 ]_vars

(* "up either 1 or 2 until roof, then down" (algo1): in the first level,   *)
(* with no overflow pending, a column drawn after one at the roof is lower *)
(* than it.                                                                *)
RoofTurns ==
  [][ (upFlag' < upFlag /\ Signed(topset[21]) < 2)
        => Signed(topset'[21]) > Signed(topset[21]) ]_vars
=============================================================================

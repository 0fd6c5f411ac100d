# Verification of Tunnel Invaders and Bertie the Brain

The repository holds two programs and some experiments:

- `src/src/tunnelInvaders.asm`, *Tunnel Invaders*, a game for the VIC-20 in 6502 assembly: a ship flies
  through a scrolling tunnel, collects power-ups, avoids obstacles and shoots at walls;
- `src/Ass2/as2.c` with the scripts `ty.js` and `randy.js`, *Bertie the Brain*, a game of tic-tac-toe whose
  second player is a script run by an embedded JavaScript engine;
- `src/Tests/test1.asm` .. `test10.asm`, small trials of the screen, the sound and the joystick.

The game is by far the larger, and the project is mostly about it.

## 1. The system

### 1.1 Tunnel Invaders

One thread runs `gameloop` (lines 28-43) for ever: hit test, bullet test, joystick, hit test, bullet test,
music, spawn, update, draw, score, status line, wait. Nothing is passed between routines but global bytes - and
the processor's flags. The code was short of memory and replaced many `JMP` by `BVC`, meant as "branch always"
because nothing nearby sets the overflow flag. But `INC`, `DEC`, `CMP` and the loads leave the flag alone, so
that what a `BVC` does depends on the last `ADC` or `SBC`, perhaps several routines earlier. For the same
reason flags that used to be stored (`LDA #1 / STA`) are counted up and down (`INC`, `DEC`); the old stores are
still there as comments marked `CHANGE`. Both make the hard part of this program: legal calls in a legal order
that leave a flag or a counter at a value the next routine does not expect.

| component | state | operations | shares with |
|---|---|---|---|
| score, levels, ammunition | `currTurn`, `currScore*` (5 digits), `currLevel`, `currSubLevel`, `levelcolor`, `bulletAmmo*` (2 digits) | `updateScore`, `updateLevel`, `addPickupToScore`, `addPickupToAmmo`, the payment in `fireBullet` | the level steers the tunnel and the walls; the ones digit goes into the draw of `spawn` |
| tunnel | `topset[22]`, `emptyset[22]`, `drawDirection`, `upFlag` | shift in `updatedata`, `algomain` with `algo1..3` | read by the hit test, the bullet test, `spawn` and the drawing |
| objects | `powerUp*`, `fallingobs*`, `staticobs*` (X, Y or 14 rows, flag) | `spawn`, `updatefallingobs`, `updateWalls`, the power-up's part of `updatedata` | taken by the ship, shot by the bullet |
| ship and bullet | `shipcoX/Y`, `bulletX/Y/Flag` | `useInput`, `fireBullet`, `updateBullet`, `bulletdetect` with `bulletWall` | tunnel, wall, ammunition |
| hit test | none of its own | `hitdetect`: power-up, obstacle, wall, rock | everything above; sets the overflow flag |
| music and draw | `musicLoopOffset`, `randobyte` | `musicLoop`, the first lines of `spawn` | decides what spawns |
| clock and random bit | the system clock byte, counted by the interrupt, `currTime`, the carry flag | `waitTurn`, `getrng` | `waitTurn` sets the overflow flag; `getrng` varies level 2 |
| drawing | the screen | `fillscreen` (`filltop`, `fillbottom`, `colortop`, `colorbottom`, `mul22`), `printScoreLevel`, `clearscreen`, the texts of `intro` and `gameOver` | reads everything, compares the tables of the tunnel once more by itself |
| start-up | the character set at `$1C00`, `cheatFlag` | `setchars`, `intro` with `quitIntro` | copies the character set over part of the data |

### 1.2 Bertie the Brain

`main` asks the player and the script in turn and looks for the end of the game after each move. The board
crosses to the script as a string of nine characters and comes back as one; a call that raises an error leaves
the string as it was. The player's entry is checked and asked for again; the interrupt key ends the program at
any time. `ty.js` takes the middle, else a square next to a double, else a random free one by drawing until it
finds it; `randy.js` always draws.

### 1.3 What is hard here

There is one thread (and the interrupt that counts the clock), nothing is stored and no message is lost. What is
hard is *order* (which routine ran last before a flag is read; what moved before a hit test),
*long sequences* (a counted flag that reaches a wrong value after 128 frames, a direction that drifts past 1),
*edges* (bytes that wrap, digits that carry past their top, columns just outside an array),
*progress* (a tunnel that can be flown through, a gun that comes free, a busy wait that compares for equality, a
loop that draws until it succeeds), *stale bytes* (variables that lie where the character set is copied to),
*computing the same thing twice* (the hit test, the picture and its colours each mirror the tunnel by themselves)
and *a failing step* (the script). `PROJECT.json` lists these hazards at their lines, with the property that would
break.

### 1.4 What makes each part correct

- Score: the digits are a counter, whatever carries; stage and colour come round in step with it.
- Tunnel: floor and roof of a column belong together although they are shifted and drawn apart; the roof turns
  before it leaves the screen; there is always a way through for a ship that moves one row a frame.
- Objects: at most one of each kind, its flag says whether it is there, it moves smoothly and it leaves.
- Bullet: while it can be seen its flag is 1, it flies straight, it cannot be called back, a block stops it, and
  the gun comes free again.
- Clock: the wait ends, and after two interrupts at most.
- Drawing and start-up: what is deadly does not look open and what looks deadly is; all that is printed shows the
  characters it should, in squares that are cleared and white.
- Composition: every contact is noticed, a shot is paid for exactly when a bullet leaves, a power-up pays, and
  each part is only driven in ways its own specification allows.
- Bertie: the rules of tic-tac-toe are kept, the right winner is named, the script answers, `ty.js` does not
  overlook a threat.

## 2. Modules

| module | models | notes |
|---|---|---|
| `Machine6502` | byte arithmetic, the sign test after a comparison (`CMP`/`BMI`), the overflow flag of `ADC` and `CLC, SBC` | external: modelled from how the branches of the source use them |
| `Corridor` | the rock test of `hitdetect`, lines 765-801: which rows of a column are open, and the overflow flag it leaves | used by `Tunnel`, `Weapons`, `TunnelInvaders` |
| `Stats` | `updateScore` .. `addPickupToAmmo` (1439-1573), payment of a shot | every operation takes the overflow flag `v` |
| `Counter` | abstract: points, frames, bullets as numbers | refined by `Stats` |
| `Tunnel` | `updatedata`'s shift, `algomain`, `algo1`, `algo2`, `algo3` (521-757) | `getrng` is a free choice of 0 or 1 |
| `Objects` | `spawn` (432-496), moves (332-346, 508-520, 538-551), what hits do to objects | environment: any draw, any roof, hits at the phases where the loop tests |
| `Weapons` | `useInput`, `fireBullet`, `updateBullet`, `bulletdetect`, `bulletWall` (293-330, 365-421, 852-921) | reads past the arrays return the bytes that lie there |
| `Music` | `musicLoop` and the byte `spawn` mixes (349-363, 423-434) | |
| `Clock` | `waitTurn` and `getrng`, round by round, with the interrupt between any two steps (1629-1655) | the rest of a frame is one state |
| `Boot` | `setchars` (223-291) as copies, and the layout of the data (1657-1774) | where each byte came from, instead of its value |
| `Screen` | what `fillscreen` draws (1022-1437), the texts and the loops that clear and whiten the screen | functions of a record of the game's tables and objects |
| `TunnelInvaders` | the start, the loop, `hitdetect`, `gameOver`, with `INSTANCE`s of `Tunnel`, `Objects`, `Weapons`, `Stats` and `Music` over shared variables, and `Screen` | `overflow` is handed from call to call |
| `Bertie` | `as2.c`, `ty.js`, `randy.js` | `pc` is the place in `main` |
| `TicTacToe` | abstract: the rules | refined by `Bertie` |
| `MC*` | values of the constants for TLC, the players of the composed game | |
| `StatsProofs`, `TunnelProofs`, `ObjectsProofs`, `WeaponsProofs`, `ClockProofs`, `ScreenProofs`, `BertieProofs` | theorems about the parts | for all values of the constants, section 5 |
| `TunnelInvadersProofs` | theorems about the whole game, with any inputs or as the players play it | uses the lemmas of the parts, instantiated as the game instantiates the parts |

How code becomes TLA+:

- A global byte is a variable, a group of bytes that belong together (digits, an object's X, Y and flag) a
  record. Values are bytes (`0..255`, `Wrap`), and a comparison followed by `BMI` or `BPL` is `Below`, which
  looks at the sign of the difference as the processor does, not at the order of the numbers.
- A routine is an action or, where it only computes, an operator with the routine's name. A `BVC` becomes a
  case distinction on `v`: clear, the branch is taken; set, control falls into the next label. So
  `Stats!Carries(digit, v)` is "the digit is 9 or the branch falls through".
- A flag that is counted stays a byte that is counted.
- In `TunnelInvaders`, `pc` names the next call: `setchars`, the two readings of the joystick in a round of the
  intro (`intro`, `down`) and the wait for its release (`release`), then the calls of the loop. Drawing and
  printing have no state of their own: as steps they are part of the routine before them, for what they leave in
  the overflow flag, and what they show is computed by `Screen` from the state when the property asks.
- `Boot` traces an address back through the copies (`Origin`). Where a property depends on the byte itself, the
  three bytes of the character ROM that land on variables are given (`RomByte`, external).
- A square of the screen is a place in memory, as the program computes it; `Row` and `Column` are what the video
  chip makes of the place. What is printed is a set of places with their codes.
- In `Clock` the accumulator, the counter and the carry flag of `getrng` are variables, the carry as 0 or 1, since
  what the routine computes depends on the flag its caller left. `waitTurn` adds with the flag left to it too:
  `CarryPrinted` is that of the last sum of `printScoreLevel`, for whichever digits are printed.
- Bytes behind an array: `topset,x` for `x` of 22 and more reads `emptyset`, then the ship's coordinates; beyond
  those, and at 255, `GlyphByte`, a byte of the character set that is copied there (external). `staticobsY,x`
  from 14 on reads the wall's flag, scratch bytes and the first rows of the power-up's picture (`PowerUpRows`).
- In `Bertie` squares are `3 * row + column`, which is how `boardToString` lays the board out, so that the
  conversions there and back copy square by square and disappear. A third "script" stands for a file that
  evaluates but defines no `bertieMove`: every call of it raises an error.

Definitions named "Mutated form" are plausible bugs (a dropped guard, a missing reset). They are used by no
specification; they are put in the place of the definition that follows them to see that a property notices.

## 3. Runs

All runs take from a few seconds to less than two minutes.

| run | module / cfg | what it shows | bounds |
|---|---|---|---|
| `stats` | MCStats | `TypeOK`; `LevelTracksScore`: stage = number of hundreds counted up without the carries, mod 6; `CountsPoints`: refines `Counter` | all scores 0..99999 by points; power-ups and shots in two windows where the ten-thousands and the thousands carry and where the top digit loses its carry, with 0..99 bullets; overflow flag clear |
| `tunnel` | MCTunnel | `TypeOK`; `Corridors`: floor is 5 or 6 below the roof or at row 13; `Slopes`: neighbouring roofs at most 3 apart | 3 columns, all levels, any overflow flag, `drawDirection` up to 3 away from the flag it was |
| `tunnel_roof` | MCTunnel_roof | **violated**: `algo2` is "same as algorithm1": "up ... until roof, then down" | 2 columns, levels 1 and 2, overflow flag clear |
| `objects` | MCObjects | `TypeOK`; `FlagsSay`, `NothingJumps`, `ObstaclesLeave` | any draw in any frame, two roofs; of the bytes a bullet can overwrite one block and the flag behind the blocks (`BlockAndFlag`); a behaviour draws power-ups and obstacles, or walls |
| `weapons` | MCWeapons | `TypeOK`; `FlagCoversFlight`, `ShotsFlyOn`, `BlocksStopShots`, `GunComesFree`; `MCWallIsSeen`: where the wall would stop the ship it is drawn, whatever the tunnel hides of it | at walls from columns 0..16 in row 10; diving from there while the bullet flies on behind the screen; the tunnel may open or close at any time; the flag through all 256 values (`MCWallIsSeen` looks at states with two of them, as the picture does not depend on it) |
| `weapons_flag` | MCWeapons_flag | **violated**: "set flag to 1 to say bullet is on screen" | a ship that never shoots |
| `music_spawns` | MCMusic_spawns | **violated**: "randomness in ... item spawns" | none: the module is finite |
| `game` | MCTunnelInvaders | `NothingSlipsBy`; `CaveKept`, `ThingsKept`: the composition drives tunnel and objects as their modules allow; `StatusCounts`: whatever flag comes to them, the status line's routines count as `Counter` promises, but for two named cases; `ShotsTracked`; `ShotsPaid`; `WhatIsSeenIsMet`; `TextsReadable`; `PilotAlive`, `PilotsPassable`, `RoofTurns` | full width, from `setchars` on. Two players: an *explorer* shoots, moves right and up, to a score of 26 (`ExplorerScore`), which lets the ship take the power-up, go through both corridors and meet rock and the obstacle; a *pilot* keeps to the left edge and steers for the middle of the corridor two columns ahead through both sub-levels of level 1 (`MaxScore` 199). Both start with fire. Any clock for the pilot, one that leaves no overflow for the explorer |
| `game_cheat` | MCTunnelInvaders_cheat | **violated**: "Press down at start screen instead of fire to remove hit detection" | a player who only ever presses down |
| `game_powerup` | MCTunnelInvaders_powerup | **violated**: "Power-ups add 1 bullet and 20 points" | any clock |
| `clock` | MCClock | `TwoTicks`: the wait is never for more than two interrupts, however long the frame was and whatever the status line showed before it; `FramesGoOn`: the wait and the loop of `getrng` end; `StuckBit` | every value of the clock; digits 0, 1, 2, 9, on both sides of the loop's test; a bit is drawn at three clocks, without and with a carry out of the sum; up to 3 interrupts in the rest of a frame (`MaxTicks`), more than the two the wait is for |
| `bertie` | Bertie | `PlaysByTheRules`, `NamesTheWinner`, `TyStopsPlayer`, `MarksStay`, `BertieAnswers` | none: every game |

Why the bounds are enough. The score run is complete in the score. Three columns contain an old pair of neighbours and
a new one, and `TunnelHolds` below removes the bound. Bullet and object positions are complete bytes; only where the
ship is and which roofs there are is sampled, on both sides of every comparison (columns before, at and behind the
index where the wall's scan starts). The composed run is the one with a real bound, on the length of the game; it is
there for the *order* of the calls, which repeats every frame, while the long sequences are covered by the runs of the
parts. `CaveKept` and `ThingsKept` carry over what holds of tunnel and objects, as those runs and theorems allow all
the game can do to them: any overflow flag, and hits on every byte of the wall and on its flag. What holds of the
status line does not carry over by itself, as it is shown with the overflow flag clear: `StatusCounts` says when that
is so in the game (all three proved for games of any length in section 5). `WhatIsSeenIsMet` looks at every square of
the pilot's screen after every change of the tunnel, and of the explorer's at the ship's column when an object is in
it: that is where the explorer's screens differ in more than the tunnel, which is the same for both. The walls that
the composed game never spawns are looked at in `weapons`.

Fairness. `Objects` and `Weapons` have `WF_vars(Next)`: the game loop has no way to stop but game over, which is not
part of these modules (a behaviour that ends there is one with fewer frames). Nothing is assumed about what is drawn,
how the joystick is moved or what the tunnel is like: `ObstaclesLeave` and `GunComesFree` hold for all, the first with
the exception it names, a wall whose flag is shot. `Bertie` has weak fairness for the program's own steps and for each
square the scripts' random loop may draw, which is that a loop drawing again and again from nine squares draws a free
one in the end; the player need never move. `Music` has weak fairness of the frame. `Clock` has weak fairness of the
program and of the interrupt. `FramesGoOn` needs more than fairness: as the wait compares for equality, the clock must
not pass the target between two looks at it. That is the bound of one interrupt in a round of the wait (some ten
cycles) and in a draw (fewer than four thousand), of the eighteen thousand cycles between two interrupts.

`CHECK_DEADLOCK` is on everywhere: states in which a program stays for good (`gameOver`'s dead loop, the exited
program) have an explicit action.

## 4. What was found

Each is a finding in `PROJECT.json`, with the run that shows it: one that TLC refutes or, for 5 and 7, a property
that states what the code does instead.

1. **Nothing ever spawns** (352). `musicLoop` loads X with 0 and not with `musicLoopOffset`. The offset is 1 after
   every call, `spawn` mixes note 1 (201) with the ones of the score, and the five bits it keeps are never 2, 4
   or 6. The power-up and the obstacle the data starts with are the only ones; no wall appears. The power-up
   does return after 256 frames, as its column is counted on.
   This is why `Objects` and `Weapons` are also checked on their own, with any draw: they are right about the
   code that would run if the draw worked, and the composed run, which uses the real draw, does not spawn.
2. **A power-up can give ten bullets** (1460). `addPickupToAmmo` ends with a `BVC`; if `waitTurn` has just computed
   `$7E + 2` or `$7F + 2` the flag is set, and 05 becomes 10. The same flag acts on every `BVC` until the next
   `ADC` or `SBC`: with ship and bullet in the upper half of the screen, where the rock test does not subtract,
   it reaches `algo1` and keeps the roof from turning (598), the one exception `TurnsInGame` makes; a pilot never does.
3. **The roof of level 2 does not turn** (641). `INC drawDirection` where 1 was stored: two new columns in a row
   at the roof take it from 1 to 2, which draws upward.
4. **The bullet flag goes to 1 on its own** (895). A bullet that is not there is found in rock twice a frame and its
   flag counted down, so after 128 frames without a shot the gun is blocked for one joystick reading. That it
   comes free again is `GunComesFree`.
5. **A thousand changes no level** (1503). 999 to 1000 jumps past the call of `updateLevel`, although the comment
   says "change level every 100 points"; `LevelTracksScore` says what the code does, hundreds less thousands.
6. **The cheat code does not work** (198). The intro counts `cheatFlag` up, where it once stored 1. The flag lies at
   `$1C28`, in the character set: `setchars` has copied the first row of the letter E there, 126, and it becomes
   127. `hitdetect` compares it with 1.
7. **The random bit is not random** (1649). `DEY, CPY #1, BMI` leaves the loop after one round for the digits 2 to
   9, with twice the clock plus one plus the caller's carry flag in the accumulator. The bit kept is the
   complement of that flag, whatever the clock (`StuckBit`, `ClockHolds`), but for an interrupt in the very draw
   or a clock about to wrap. So for eight digits of ten the choices level 2 draws "randomly" are fixed by the
   comparison or sum that came before the call.

Not a disagreement with any text, but visible in the models: `bulletWall` starts its scan at the ship's column when
the bullet is in the wall's column (`BlocksStopShots` says exactly which blocks that lets a bullet pass; with the ship
in column 14 the first byte compared is the wall's flag, and a match overwrites it with 255). That last hit stops the
wall where it is, as 255 is not 1; `spawn` takes it for absent, puts it back to the right edge with new blocks and
counts its flag to 0, so that it stays there until the next draw. `FlagsSay`, `NothingJumps` and `ObstaclesLeave` name
this exception (`FlagShot`), and nothing else of the kind happens. In the game as it is no wall is ever spawned
(finding 1), so that nobody sees it. Further, the score and the ammunition lose a carry at the top (99999 to 90000, 99
to 90; part of `Counter`). With the overflow flag set `updateLevel` falls through to the start and goes back to stage
1.1 from any stage, which is why `Tunnel!updateLevel` takes the flag. The first and the last row of the screen always
have the colour of rock, also where the tunnel is open there (`Agrees` allows just that). The power-up the game starts
with is drawn over the obstacle where their paths cross, so that the obstacle cannot be seen then, only hit; `Agrees`
lets a deadly square be covered for that reason. The comment at the data says "DATA 6144-7168", but the data begins at
7025 and goes on to 7208: the last notes of the tune and the three bytes `musicLoopOffset`, `randobyte` and
`cheatFlag` lie in the characters' place. The first are overwritten by the character set (and never played, because of
finding 1); the other three are rows of the letters D and E, whose pictures the game spoils while it runs.
`TextsReadable` holds as D is only needed for the title, before the music starts, and E after it only in games started
with fire; who has pressed down reads the E of GAME OVER with a longer first row.

## 5. Proofs

Checked by TLAPS for all values of the constants. The assumptions are the named ones of the modules
(`StatsAssumption`, `TunnelAssumption`, `ObjectsAssumption`, `WeaponsAssumption`, `ClockAssumption`,
`GameAssumption`: what the constants are, no more), what a theorem names as its own, and in `TunnelInvaders` three
statements about constants that a fold over the list of copies computes, which the provers cannot evaluate and TLC
does on every run of that module: `LoadedAssumption` (the byte `setchars` leaves for the cheat flag is 126),
`PicturesAssumption` (each code of the game shows its own picture) and `LettersAssumption` (which codes still show
the ROM's characters, and among which letters the last variables lie).

### 5.1 Score and levels (`StatsProofs`)

- `TypeCorrect`: `Spec => []TypeOK`, whatever the overflow flag. The type invariant is inductive. The lemmas follow
  the carry chain: `DigitStep` for one digit, `CarryDigits` for the chain, `LevelStages` for the level routines with
  and without a fall-through.
- `LevelsInStep`: `Spec => []LevelTracksScore` if the overflow flag is always clear (`Overflows \subseteq {FALSE}`).
  The invariant is stated with `Turns`, the number of hundreds counted up, and the stage's rank; `TurnsStep` says how
  a carry out of the tens changes it, `StageStep` how `updateLevel` moves the rank by one mod 6, and `PointInStep`
  and `PickInStep` put the two together for a point and for one half of a power-up.
- `DigitsCount`: under the same condition, `Spec` implements `Counter`. The refinement is proved step by step:
  initial states map to initial states, and a frame (`PointCounts`, with `HundredCounts` for the carries beyond the
  tens), a power-up (`PickCounts` for each half, `PickupLoads` for the magazine) and a shot (`ShotSpends`) each map to
  the counter's own step, carry by carry (`CarryNumbers`). `StaysInStep`
  and `StepCounts` say the same of a single call with the flag clear (`ClearStep`), whatever it was before, which is what
  the game's proof needs. `TotalBound` keeps five digits below 100000.
- `LevelMoves`, `OneLevelUp`: `updateLevel` goes one stage on or back to the first, and a power-up counts at most
  one hundred up. `EarlyTotal`, `EarlyStage`, `EarlyBefore`: a score below 200 in step with its stage is played in the
  first level, and no carry, with or without an overflow, leads back to such a score. `EarlyReward`: a power-up that
  ends at one has counted right, overflow or not. The game's proofs use them.

### 5.2 Tunnel (`TunnelProofs`)

- `TunnelHolds`: `Spec => [](TypeOK /\ Corridors /\ Slopes)` for every screen width, every set of levels and every
  overflow flag. The three are only inductive together: what a generator draws depends on the last column, and the
  shift turns the last pair into an older one. `SteadyFits`, `RoughFits` and `OpenFits` say what each generator may
  return, `ColumnsMove` what the shift does.
- `FirstLevelPassable` and `FirstLevelTurns`: in level 1, with the overflow flag clear, `Passable` and `Band` always
  hold, and `DownFromRoof` does (which fails in level 2), for every screen width. `Passable` is not inductive; `Band`
  is, on top of the first theorem: the direction is 0 or 1, the roof is in rows 0..8, and at the two ends the
  direction already points back (`ZigZag`). With the roof in those rows, `OpenBelowRoof` and `BandPassable` give
  rows that two neighbours share in both halves. For the game's proofs, `FrameMoves` says what a frame does to every
  column and which two rows the next roof can be in, and `OpenAround` which rows about the middle of a corridor
  are open.

### 5.3 Objects, ship and bullet (`ObjectsProofs`, `WeaponsProofs`)

- `FlagsHold`: `Spec => [](TypeOK /\ FlagsSay)`, and `MovesSmoothly`: `Spec => NothingJumps`, for every set of draws
  and roofs and every set of bytes a bullet may overwrite, the flag behind the blocks included. `FlagsSay` is not
  inductive, as a counted flag could be any byte. `IInv` says for each object where it can be and what its flag is
  then: the obstacle is on the diagonal or gone (`FallingIn`), the wall is on its way, gone, at the right edge with no
  flag set, or in sight with its flag shot (`WallIn`), and the power-up's flag is a function of its column, from 0 to
  22 or, with the sign bit masked, 128 to 150 (`PowerUpIn`), except in the call of `spawn` itself. With that, a spawn
  only happens where the object is out of sight, and a flag is counted from 0 to 1 and from 1 to 0; but for the wall
  whose flag was shot, which is counted from 255 to 0.
- `FlagHolds`: `Spec => [](TypeOK /\ FlagCoversFlight)`, and `Straight`: `Spec => ShotsFlyOn`, for every tunnel, every
  place to start from and every order of moves and shots. The strengthening is `BulletIn`: a bullet at column 255
  is also at row 255. So when its counted flag comes by 1 and moves it to column 0, it is in no row of the screen,
  and the flag need not say it is there. The hit test can only leave the bullet or lose it (`BulletLookedAt`), so
  that nothing need be known of the tunnel or of the bytes behind the arrays.
- `BlocksStop`: `Spec => BlocksStopShots`. The property speaks of single steps but needs a fact about the past, that
  the wall and the bullet have been compared since either last moved: `Passed` says what is left of a block in
  the bullet's row in each phase of the frame.
- `WallSeen`: `Spec => []WallIsSeen`, from `Pictured` and 5.5. The run looks at two values of the bullet's flag
  (`MCWallIsSeen`), the theorem at all. `WallSeenInScenes` is the same for the run's scenes: `MCSpec => []MCWallIsSeen`.

### 5.4 Clock (`ClockProofs`)

- `ClockHolds`: `Spec => [](TypeOK /\ TwoTicks /\ StuckBit)` for every digit, every clock and frames of every length.
  Lemma `Wait`: no digits the status line prints carry, so that the sum of `waitTurn` gets none. `TwoTicks` holds as
  the wait's target is computed from the clock and not from the last target, and as the wait ends when it is reached.
  `StuckBit` needs what the registers hold in the loop: with a digit of 2 to 9 there is one round, and the accumulator
  enters it with the clock.

### 5.5 Picture (`ScreenProofs`)

- `LooksAreTrue`: for *any* tables, obstacle and wall - not only those a game reaches - a square that `hitdetect`
  would find deadly does not look open, and one that looks deadly is. `PlaceOf` shows that `mul22` puts each square
  where the video chip shows it, `FillIs` that `fill` is decided by the first layer that is drawn (`LayersAre`,
  `FirstOf`), and `RockIs` that the drawing's comparison of a row with the tables is the hit test's, in each half.
- `AllPainted`, `TitleShown`, `StatusShown`, `GameOverShown`: the two halves fill the screen down to the status
  line, and each text stays in squares that are cleared and white.

### 5.6 The game (`TunnelInvadersProofs`)

For all inputs, every overflow flag the clock may leave, and games of every length.

- `TypesInGame`: `Spec => []Typed`, the inductive invariant of the composition: the types of all parts, the ship on
  the screen, the bullet and the wall as in 5.3, corridors and slopes as in 5.2. It is proved together with what
  each call does to a part: `StatusStep`, `TunnelStep`, `ObjectStep`, `GunStep`, `ThingStep`. The
  parts' lemmas are taken from their modules through an `INSTANCE` with the game's own values, and `StatSame`,
  `CaveSame`, `GunSame`, `ThingSame` identify the operators of the two instances.
- `StatusCountsInGame`: `Spec => StatusCounts`, for every clock. The flag `updateScore` finds comes from
  `fillscreen`, not from the clock: its invariant is `DrawnClear`, that when the score is counted the flag is clear or
  the last roof is at $80. With that, each call is a step of `Counter` with the flag clear (5.1), or a power-up met with
  the flag set, which finding 2 is about.
- `CaveInGame`, `ThingsInGame`: `Spec => CaveKept`, `ThingsKept`. Each is a refinement: every call is a step of the
  part's specification or leaves its variables alone. Hard in it are a power-up that moves level and score at once (it
  moves the level at most once, `PickupLevel`), and what a shot leaves of the wall (`WallShot`).
- `FlagsInGame`, `MovesInGame`: `Spec => []FlagsSay` and `NothingJumps` of the game's objects. `Typed` contains the
  inductive invariant of 5.3 with the game's phases (`ObjectsIn`), which `ObjectStep` keeps through all hits that
  `bulletWall` can make.
- `ShotsInGame`: `[]ShotsTracked`. `PaidFor`: `ShotsPaid`, where `Spent` is the payment as numbers, and a bullet
  that the hit test loses must not look like one that leaves.
- `NothingPasses`: `[]NothingSlipsBy`. It is inductive only with `Typed` and `CheatIn`: the cheat flag is 126 or 127,
  never the 1 that would make `hitdetect` do nothing; nothing is ever drawn by `spawn` (`NothingDrawn`, finding 1), so
  that nothing appears on the ship between two tests; and a shot only takes blocks away (`WallGoes`).
- `SeenInGame`: `[]SeenIsMet(Across)`, from `Typed` and 5.5: the whole screen, for every game, where the run's
  `WhatIsSeenIsMet` looks at the squares that change.
- `HitsEndTheGame`: whatever was pressed at the start screen, a hit that is tested for ends the game. It is
  `CheatIn` again, and finding 6 as a theorem.
- `NoneReturns`: `Spec => []Deserted`, finding 1 for a game of any length: as nothing is ever drawn, the wall never
  has a block, and the one obstacle is on its diagonal or gone for good.
- `FirstLevelInGame`: `Spec /\ [](Opening => RoofClear) => [](Opening => stage.level = 1 /\ Passable)`; `TurnsInGame`:
  `Spec /\ []Opening /\ []RoofClear => RoofTurns`. Both are for every clock. `Opening` is a score below 200, the bound of
  the run `game`; `RoofClear` excludes finding 2, no more: no overflow is pending when `algo1` is called with a roof in
  row 0 or 1. The invariant is `FirstLevel`: in the opening, score and stage are in step, and it is `Calm`, which is
  the band and no overflow when the frame is counted. The two need each other: the carry chains count right only
  without an overflow, so that the level is still the first; and there `fillscreen` leaves none, as it does for a
  roof at $80 only. A power-up may find one, but where that would carry, the score is not below 200 after it
  (`EarlyReward`). `OpeningStep` also shows that the opening is never come back to. The first level is, after the
  third, but with whatever direction level 2 has left (finding 3), so that the theorems are about the score.
- `OpeningQuiet`: with a clock that leaves no overflow (`Clocks \subseteq {FALSE}`, all but two of 256 values) there is
  none in the opening at all, and `RoofClear` holds (`QuietTurns`): the subtractions of the rock test do not overflow
  for roofs in the band, their floors, or any byte a bullet reads behind them (`NoBorrow`, `LowColumns`).
- `PaysUnlessOverflow`: for any clock, a power-up taken with the flag clear pays its one bullet. `OpeningPays`: so
  `PowerUpPays` holds in the opening with a clock that leaves none: the overflow of `waitTurn` is the whole
  cause of finding 2.
- `TextsInGame`: `Spec /\ [][NoDown]_vars => []TextsReadable`: in a game not started with down, as the flag that
  down counts is a row of the letter E.

The players of the runs are in `MCTunnelInvaders`; their games are games (`Plays`: `MCSpec => Spec`).

- `SeenByPlayers`: `MCSpec => []WhatIsSeenIsMet`. `TextsForPlayers`: the explorer and the pilot start with fire, so
  that `TextsReadable` needs no hypothesis there.
- `PilotSurvives`: `MCSpec => [](Opening => PilotAlive)`, `PilotHasWay`: `MCSpec => [](Opening => PilotsPassable)`, and
  `PilotTurns`: `RoofTurns` in his games; for every clock and with no further hypothesis. That the tunnel is
  passable does not say that someone who sees two columns ahead and moves one row a frame gets through it. The
  invariant is `Flown`: `FirstLevel`, `Settled` and `OnTrack`, which TLC has checked before they were proved:
  - `Settled`: whatever the clock leaves, the second hit test clears it, as the ship is in the lower half then and the
    test subtracts, or, every other frame, the first one has. So no overflow of his clock gets to `algo1`.
  - `Paired`: the first level repeats each column once, so that columns come in pairs, at the even columns or at the
    odd ones as `upFlag` says;
  - `Floors`, `Gentle`: a lower corridor is six or five rows high, the five being the columns the game was started
    with, and a roof moves by two rows at most, by one after such a column;
  - `Dawn`: that is because the first new column is drawn in the third frame, when the sub-level must still be the
    first. It is tied to where the first power-up is, which could have moved the level if it had been met;
  - `Peaks`: of two different columns in a row one is above the bottom of the band, which keeps the pilot in the lower
    half for one of the two tests;
  - `Course`: before the second hit test the ship is where the pilot's last move has left it, and by `upFlag` it is
    in the middle of its pair of columns, or within a row of the middles of the pair it leaves and of the next.

  `TrackClear` derives from it that nothing is met, `PilotSteers` that his move keeps the course, `CourseMoves` and
  `TrackMoves` that the next frame does, and `TrackStep` goes through the other calls.

### 5.7 Bertie (`BertieProofs`)

- `WinnerNamed`: `Spec => []NamesTheWinner`. The invariant is `Standing`: who can have a line from where `main` is,
  and that nobody is asked for a move in a game that is over. `GameOverNames` shows that the eight lists `gameOver`
  goes through are the lines of the rules, and that the first full one names the side that has won.
- `RulesKept`: `Spec => PlaysByTheRules`, the refinement of `TicTacToe`. Whose turn it is by the rules is a matter of
  counting marks, so that it needs `Balanced`: as many marks of both sides or one more of the player's, as `pc` says.
- `MarksStand`: `Spec => MarksStay`.
- `TyStands`: `Spec => TyStopsPlayer`. `MiddleFirst` says that where the script looks for doubles the middle is taken,
  by the player or by itself; `DoubleThreatens` and `ThreatenedIsBeside` compare its partial scans with the
  eight lines.

### 5.8 What stays with TLC

- Liveness under fairness, out of the prover's reach: `ObstaclesLeave`, `GunComesFree`, `FramesGoOn`,
  `BertieAnswers`.
- What a fold over a sequence computes (`Boot!Origin`, `Address`): the three assumptions above.
- The violations of section 4: they are counterexamples, which TLC finds.

## 6. What is not modelled

- The sound registers, and the colour of the word FIRE in the title: output only. Of the texts, places and codes
  are modelled.
- The joystick's port: its masks and the direction register; what is modelled is which movement a reading yields.
- The clock's reset after 24 hours; it sets the byte back, and a wait in that moment takes about four seconds.
- In `Tunnel` the bit of `getrng` is a free choice of 0 or 1, which is more than `Clock` says it
  does; the explorer's clock in `game` leaves no overflow, which excludes the two of 256 clocks that `game_powerup`
  is about.
- `src/Ass2/duktape*`: a vendored JavaScript engine, in several copies. `as2.c` calls ten of its functions, and a
  script's call that fails or answers is modelled in `Bertie`. These copies are all but some 3 000 of the
  repository's 375 000 lines of code, so that the share of *lines* modelled stays tiny although the two programs
  written here are modelled nearly whole.
- `*.po`: wording.
- `src/Tests`: ten experiments of at most eighty lines with the hardware. The pause of `test10.asm` is a bit that
  every poll of a held button toggles; the game does not use it.
- Memory beyond the bytes named: a read behind an array is modelled as far as a program's own run gets.

## 7. Plan

Done, in this order: `Stats`, `Tunnel`, `Objects`, `Weapons`, `Music`, the composition, `Bertie`; then `Boot`, `Screen`,
their place in the composition, and `Clock`; the proofs of section 5.

The second round of proofs added the refinements (`Stats` of `Counter`, `Bertie` of `TicTacToe`, the game of each
part), the picture, and the invariants of the composition.

The third added the players: the pilot's track, the opening by its score, and findings 1, 2 and 6 as theorems. Every
invariant and every action property of a passing run is now proved.

The fourth widened what a bullet may overwrite to the wall's flag, in the model, the run and the proofs of the objects,
and replaced the plain refinement of the status line by `StatusCounts`.

Left: the overflow flag beyond the first level, which calls can set it for which roofs.

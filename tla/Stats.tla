------------------------------- MODULE Stats -------------------------------
(***************************************************************************)
(* The status line of Tunnel Invaders: the five decimal digits of the      *)
(* score, the level and sub-level with the colour that goes with them, and *)
(* the two digits of the ammunition.                                       *)
(*                                                                         *)
(* The code jumps out of its carry chains with BVC, meant as "branch       *)
(* always".  BVC branches only while the overflow flag is clear, and INC,  *)
(* DEC and CMP leave that flag alone, so every operation below takes the   *)
(* flag v that an earlier ADC or SBC left: with v set, control falls       *)
(* through into the next label.                                            *)
(***************************************************************************)
EXTENDS Integers

CONSTANTS
  Overflows,     \* the values the overflow flag may have on entry
  MaxScore,      \* bound: no point is added at or above this score
  BusyScores,    \* bound: the scores at which the ammunition may change
  MaxAmmo        \* bound: no power-up is met with this many bullets

ASSUME StatsAssumption ==
  /\ Overflows \subseteq BOOLEAN
  /\ MaxScore \in Nat
  /\ MaxAmmo \in Nat

VARIABLES
  currTurn,  \* frames since the last point, 0..2
  score,     \* the digits currScoreOnes .. currScoreTThous
  stage,     \* currLevel, currSubLevel and levelcolor
  ammo       \* the digits bulletAmmoOnes and bulletAmmoTens

vars == <<currTurn, score, stage, ammo>>

Digit == 0..9

Scores == [ones : Digit, tens : Digit, huns : Digit, thous : Digit, tthous : Digit]
Stages == [level : 1..3, sub : 1..2, color : 1..6]

-----------------------------------------------------------------------------
(* The carry chain.  Each label zeroes the digit below it, then either     *)
(* goes on to the next label (the digit is 9, or BVC falls through, and    *)
(* the next label zeroes the digit that was just counted up) or stops.     *)

Carries(digit, v) == digit = 9 \/ v

(* Mutated form: the top digit is counted up unchecked.                    *)
AddTThousUnchecked(s) == [s EXCEPT !.thous = 0, !.tthous = @ + 1]

AddTThousToScore(s) ==
  LET t == [s EXCEPT !.thous = 0]
  IN  IF t.tthous = 9 THEN t ELSE [t EXCEPT !.tthous = @ + 1]

AddThouToScore(s, v) ==
  LET t == [s EXCEPT !.huns = 0]
  IN  IF Carries(t.thous, v) THEN AddTThousToScore(t)
                             ELSE [t EXCEPT !.thous = @ + 1]

AddHunToScore(s, v) ==
  LET t == [s EXCEPT !.tens = 0]
  IN  IF Carries(t.huns, v) THEN AddThouToScore(t, v)
                            ELSE [t EXCEPT !.huns = @ + 1]

AddTenToScore(s, v) ==
  LET t == [s EXCEPT !.ones = 0]
  IN  IF Carries(t.tens, v) THEN AddHunToScore(t, v)
                            ELSE [t EXCEPT !.tens = @ + 1]

AddOneToScore(s, v) ==
  IF Carries(s.ones, v) THEN AddTenToScore(s, v)
                        ELSE [s EXCEPT !.ones = @ + 1]

(* The power-up's entry into the chain: it returns after counting a ten up *)
(* and only shares the carry out of the tens.                              *)
AddTenPickScore(s, v) ==
  IF s.tens = 9 THEN AddHunToScore(s, v) ELSE [s EXCEPT !.tens = @ + 1]

(* Mutated form: a carry out of the hundreds counts too.                   *)
LevelsUpCarry(s, v) == Carries(s.ones, v) /\ Carries(s.tens, v)

(* addHunToScore calls updateLevel only when it counts the hundreds up,    *)
(* never when they carry.                                                  *)
LevelsUpOne(s, v) == Carries(s.ones, v) /\ Carries(s.tens, v) /\ s.huns # 9
LevelsUpPick(s) == s.tens = 9 /\ s.huns # 9

-----------------------------------------------------------------------------
(* Levels.                                                                 *)

NextLevelHandler(g) == [g EXCEPT !.color = IF @ + 1 < 7 THEN @ + 1 ELSE 1]

ResetLevel(g) == NextLevelHandler([g EXCEPT !.level = 1])

NextLevel(g, v) ==
  LET h == NextLevelHandler([g EXCEPT !.sub = 1, !.level = @ + 1])
  IN  CASE g.level = 3       -> ResetLevel([g EXCEPT !.sub = 1])
        [] g.level # 3 /\ v  -> ResetLevel(h)
        [] g.level # 3 /\ ~v -> h

UpdateLevel(g, v) ==
  LET h == NextLevelHandler([g EXCEPT !.sub = @ + 1])
  IN  CASE g.sub = 2       -> NextLevel(g, v)
        [] g.sub # 2 /\ v  -> NextLevel(h, v)
        [] g.sub # 2 /\ ~v -> h

-----------------------------------------------------------------------------
(* Ammunition.                                                             *)

(* Mutated form: nothing is carried into the tens.                         *)
AddPickupNoCarry(a, v) == [a EXCEPT !.ones = IF @ = 9 THEN 0 ELSE @ + 1]

AddPickupToAmmo(a, v) ==
  IF Carries(a.ones, v)
  THEN [ones |-> 0, tens |-> IF a.tens = 9 THEN 9 ELSE a.tens + 1]
  ELSE [a EXCEPT !.ones = @ + 1]

HasAmmo == ammo.ones # 0 \/ ammo.tens # 0

OneBulletLess(a) ==
  IF a.ones = 0 THEN [ones |-> 9, tens |-> a.tens - 1]
                ELSE [a EXCEPT !.ones = @ - 1]

-----------------------------------------------------------------------------
(* What the digits stand for.                                              *)

Total(s) == s.ones + 10 * s.tens + 100 * s.huns + 1000 * s.thous + 10000 * s.tthous
Bullets(a) == a.ones + 10 * a.tens

-----------------------------------------------------------------------------
Init ==
  /\ currTurn = 0
  /\ score = [ones |-> 0, tens |-> 0, huns |-> 0, thous |-> 0, tthous |-> 0]
  /\ stage = [level |-> 1, sub |-> 1, color |-> 1]
  /\ ammo = [ones |-> 5, tens |-> 0]

(* updateScore, once a frame: a point every third frame. *)
CountFrame(v) ==
  /\ currTurn # 2 /\ ~v
  /\ currTurn' = currTurn + 1
  /\ UNCHANGED <<score, stage, ammo>>

AddPoint(v) ==
  /\ currTurn = 2 \/ v
  /\ currTurn' = 0
  /\ score' = AddOneToScore(score, v)
  /\ stage' = IF LevelsUpOne(score, v) THEN UpdateLevel(stage, v) ELSE stage
  /\ UNCHANGED ammo

UpdateScore(v) == CountFrame(v) \/ AddPoint(v)

(* powerUpDetect on a hit: addPickupToScore runs addTenPickScore once from *)
(* its loop and once more by falling into it, then addPickupToAmmo.        *)
Pickup(v) ==
  LET once  == AddTenPickScore(score, v)
      level == IF LevelsUpPick(score) THEN UpdateLevel(stage, v) ELSE stage
  IN  /\ score' = AddTenPickScore(once, v)
      /\ stage' = IF LevelsUpPick(once) THEN UpdateLevel(level, v) ELSE level
      /\ ammo' = AddPickupToAmmo(ammo, v)
      /\ UNCHANGED currTurn

(* The part of fireBullet that pays for the shot. *)
SpendBullet ==
  /\ HasAmmo
  /\ ammo' = OneBulletLess(ammo)
  /\ UNCHANGED <<currTurn, score, stage>>

Next ==
  \/ \E v \in Overflows :
        \/ Total(score) < MaxScore /\ UpdateScore(v)
        \/ /\ Total(score) \in BusyScores
           /\ Bullets(ammo) < MaxAmmo
           /\ Pickup(v)
  \/ Total(score) \in BusyScores /\ SpendBullet

Spec == Init /\ [][Next]_vars

-----------------------------------------------------------------------------
(* Every digit stays a digit, the level in 1..3, the sub-level in 1..2 and *)
(* the colour in 1..6, whatever the overflow flag does to the carry chain. *)
TypeOK ==
  /\ currTurn \in 0..2
  /\ score \in Scores
  /\ stage \in Stages
  /\ ammo \in [ones : Digit, tens : Digit]

Hundreds(s) == s.huns + 10 * s.thous + 100 * s.tthous
Thousands(s) == s.thous + 10 * s.tthous
Rank(g) == 2 * (g.level - 1) + (g.sub - 1)

(* The six stages come round in step with the score, and the colour with   *)
(* the stage: updateLevel has run once for every hundred counted up, and   *)
(* not once for the hundreds that carried into a thousand, although the    *)
(* comment on its call in addHunToScore says "change level every 100       *)
(* points".  It holds even where the top digit loses its carry, at 99999.  *)
LevelTracksScore ==
  /\ Rank(stage) = (Hundreds(score) - Thousands(score)) % 6
  /\ stage.color = Rank(stage) + 1

(* With the overflow flag clear, the digit and carry code is a counter of  *)
(* points, frames and bullets.                                             *)
Abstract == INSTANCE Counter WITH
  total <- Total(score), frames <- currTurn, bullets <- Bullets(ammo)

CountsPoints == Abstract!Spec
=============================================================================

---------------------------- MODULE StatsProofs ----------------------------
(***************************************************************************)
(* Theorems about the status line, for every bound and, where they say so, *)
(* for every behaviour of the overflow flag.                               *)
(***************************************************************************)
EXTENDS Stats, TLAPS

(* The two things the chain does to a digit: zero it, or count it up below *)
(* nine.                                                                   *)
LEMMA DigitStep ==
  ASSUME NEW s \in Scores
  PROVE  /\ [s EXCEPT !.ones = 0] \in Scores
         /\ [s EXCEPT !.tens = 0] \in Scores
         /\ [s EXCEPT !.huns = 0] \in Scores
         /\ [s EXCEPT !.thous = 0] \in Scores
         /\ s.ones # 9 => [s EXCEPT !.ones = @ + 1] \in Scores
         /\ s.tens # 9 => [s EXCEPT !.tens = @ + 1] \in Scores
         /\ s.huns # 9 => [s EXCEPT !.huns = @ + 1] \in Scores
         /\ s.thous # 9 => [s EXCEPT !.thous = @ + 1] \in Scores
         /\ s.tthous # 9 => [s EXCEPT !.tthous = @ + 1] \in Scores
<1>1. ASSUME NEW d \in Digit, d # 9 PROVE d + 1 \in Digit
  BY <1>1 DEF Digit
<1>2. 0 \in Digit
  BY DEF Digit
<1> QED  BY <1>1, <1>2 DEF Scores

(* The digits stay digits through the whole chain, with the overflow flag  *)
(* set or clear.                                                           *)
LEMMA CarryDigits ==
  ASSUME NEW s \in Scores, NEW v \in BOOLEAN
  PROVE  /\ AddOneToScore(s, v) \in Scores
         /\ AddTenPickScore(s, v) \in Scores
         /\ AddHunToScore(s, v) \in Scores
<1>1. ASSUME NEW r \in Scores PROVE AddTThousToScore(r) \in Scores
  <2> DEFINE t == [r EXCEPT !.thous = 0]
  <2>1. t \in Scores  BY DigitStep
  <2>2. t.tthous # 9 => [t EXCEPT !.tthous = @ + 1] \in Scores
    BY <2>1, DigitStep
  <2> HIDE DEF t
  <2>3. (IF t.tthous = 9 THEN t ELSE [t EXCEPT !.tthous = @ + 1]) \in Scores
    BY <2>1, <2>2
  <2> QED  BY <2>3 DEF t, AddTThousToScore
<1>2. ASSUME NEW r \in Scores PROVE AddThouToScore(r, v) \in Scores
  <2> DEFINE t == [r EXCEPT !.huns = 0]
  <2>1. t \in Scores  BY DigitStep
  <2>2. t.thous # 9 => [t EXCEPT !.thous = @ + 1] \in Scores
    BY <2>1, DigitStep
  <2>3. AddTThousToScore(t) \in Scores  BY <1>1, <2>1
  <2> HIDE DEF t
  <2>4. (IF Carries(t.thous, v) THEN AddTThousToScore(t)
                                ELSE [t EXCEPT !.thous = @ + 1]) \in Scores
    BY <2>2, <2>3 DEF Carries
  <2> QED  BY <2>4 DEF t, AddThouToScore
<1>3. ASSUME NEW r \in Scores PROVE AddHunToScore(r, v) \in Scores
  <2> DEFINE t == [r EXCEPT !.tens = 0]
  <2>1. t \in Scores  BY DigitStep
  <2>2. t.huns # 9 => [t EXCEPT !.huns = @ + 1] \in Scores
    BY <2>1, DigitStep
  <2>3. AddThouToScore(t, v) \in Scores  BY <1>2, <2>1
  <2> HIDE DEF t
  <2>4. (IF Carries(t.huns, v) THEN AddThouToScore(t, v)
                                ELSE [t EXCEPT !.huns = @ + 1]) \in Scores
    BY <2>2, <2>3 DEF Carries
  <2> QED  BY <2>4 DEF t, AddHunToScore
<1>4. ASSUME NEW r \in Scores PROVE AddTenToScore(r, v) \in Scores
  <2> DEFINE t == [r EXCEPT !.ones = 0]
  <2>1. t \in Scores  BY DigitStep
  <2>2. t.tens # 9 => [t EXCEPT !.tens = @ + 1] \in Scores
    BY <2>1, DigitStep
  <2>3. AddHunToScore(t, v) \in Scores  BY <1>3, <2>1
  <2> HIDE DEF t
  <2>4. (IF Carries(t.tens, v) THEN AddHunToScore(t, v)
                                ELSE [t EXCEPT !.tens = @ + 1]) \in Scores
    BY <2>2, <2>3 DEF Carries
  <2> QED  BY <2>4 DEF t, AddTenToScore
<1>5. AddHunToScore(s, v) \in Scores
  BY <1>3
<1>6. AddOneToScore(s, v) \in Scores
  BY <1>4, DigitStep DEF AddOneToScore, Carries
<1>7. AddTenPickScore(s, v) \in Scores
  BY <1>3, DigitStep DEF AddTenPickScore
<1> QED  BY <1>5, <1>6, <1>7

(* updateLevel leaves a stage of the game, with the flag set or clear.     *)
LEMMA LevelStages ==
  ASSUME NEW g \in Stages, NEW v \in BOOLEAN
  PROVE  UpdateLevel(g, v) \in Stages
<1>1. ASSUME NEW h \in Stages PROVE NextLevelHandler(h) \in Stages
  BY DEF NextLevelHandler, Stages
<1>2. ASSUME NEW h \in Stages PROVE ResetLevel(h) \in Stages
  <2>1. [h EXCEPT !.level = 1] \in Stages  BY DEF Stages
  <2> QED  BY <1>1, <2>1 DEF ResetLevel
<1>3. ASSUME NEW h \in Stages PROVE NextLevel(h, v) \in Stages
  <2> DEFINE up == [h EXCEPT !.sub = 1, !.level = @ + 1]
  <2>1. CASE h.level = 3
    <3>1. [h EXCEPT !.sub = 1] \in Stages  BY DEF Stages
    <3> QED  BY <1>2, <2>1, <3>1 DEF NextLevel
  <2>2. CASE h.level # 3
    <3>0. h.level + 1 \in 1..3  BY <2>2 DEF Stages
    <3>1. up \in Stages
      <4>1. [h EXCEPT !.sub = 1] \in Stages  BY DEF Stages
      <4>2. up = [[h EXCEPT !.sub = 1] EXCEPT !.level = h.level + 1]
        BY DEF Stages
      <4> HIDE DEF up
      <4> QED  BY <3>0, <4>1, <4>2 DEF Stages
    <3>2. NextLevelHandler(up) \in Stages  BY <1>1, <3>1
    <3>3. ResetLevel(NextLevelHandler(up)) \in Stages  BY <1>2, <3>2
    <3>4. CASE v  BY <2>2, <3>3, <3>4 DEF NextLevel
    <3>5. CASE ~v  BY <2>2, <3>2, <3>5 DEF NextLevel
    <3> QED  BY <3>4, <3>5
  <2> QED  BY <2>1, <2>2
<1>4. CASE g.sub = 2  BY <1>3, <1>4 DEF UpdateLevel
<1>5. CASE g.sub # 2
  <2> DEFINE h == NextLevelHandler([g EXCEPT !.sub = @ + 1])
  <2>1. [g EXCEPT !.sub = @ + 1] \in Stages  BY <1>5 DEF Stages
  <2>2. h \in Stages  BY <1>1, <2>1
  <2>3. NextLevel(h, v) \in Stages  BY <1>3, <2>2
  <2>4. CASE v  BY <1>5, <2>3, <2>4 DEF UpdateLevel
  <2>5. CASE ~v  BY <1>5, <2>2, <2>5 DEF UpdateLevel
  <2> QED  BY <2>4, <2>5
<1> QED  BY <1>4, <1>5

(* One step, with the overflow flag as it may be.                          *)
LEMMA TypeStep ==
  ASSUME TypeOK, [Next]_vars
  PROVE  TypeOK'
<1>1. ASSUME NEW v \in Overflows, UpdateScore(v) PROVE TypeOK'
  <2>0. v \in BOOLEAN  BY StatsAssumption
  <2>1. CASE CountFrame(v)  BY <2>1 DEF CountFrame, TypeOK
  <2>2. CASE AddPoint(v)
    <3>1. score' \in Scores  BY <2>0, <2>2, CarryDigits DEF AddPoint, TypeOK
    <3>2. stage' \in Stages  BY <2>0, <2>2, LevelStages DEF AddPoint, TypeOK
    <3> QED  BY <2>2, <3>1, <3>2 DEF AddPoint, TypeOK
  <2> QED  BY <1>1, <2>1, <2>2 DEF UpdateScore
<1>2. ASSUME NEW v \in Overflows, Pickup(v) PROVE TypeOK'
  <2> DEFINE once == AddTenPickScore(score, v)
             level == IF LevelsUpPick(score) THEN UpdateLevel(stage, v) ELSE stage
  <2>0. v \in BOOLEAN  BY StatsAssumption
  <2>1. once \in Scores  BY <2>0, CarryDigits DEF TypeOK
  <2>2. score' \in Scores  BY <1>2, <2>0, <2>1, CarryDigits DEF Pickup
  <2>3. level \in Stages  BY <2>0, LevelStages DEF TypeOK
  <2>4. stage' \in Stages  BY <1>2, <2>0, <2>3, LevelStages DEF Pickup
  <2>5. AddPickupToAmmo(ammo, v) \in [ones : Digit, tens : Digit]
    BY <2>0 DEF TypeOK, AddPickupToAmmo, Carries, Digit
  <2> QED  BY <1>2, <2>2, <2>4, <2>5 DEF Pickup, TypeOK
<1>3. CASE SpendBullet
  <2>1. OneBulletLess(ammo) \in [ones : Digit, tens : Digit]
    BY <1>3 DEF SpendBullet, HasAmmo, OneBulletLess, TypeOK, Digit
  <2> QED  BY <1>3, <2>1 DEF SpendBullet, TypeOK
<1>4. CASE UNCHANGED vars  BY <1>4 DEF TypeOK, vars
<1> QED  BY <1>1, <1>2, <1>3, <1>4 DEF Next

(* Whatever the overflow flag does and however high the score: the digits  *)
(* printed stay digits, and level, sub-level and colour in their ranges.   *)
THEOREM TypeCorrect == Spec => []TypeOK
<1>1. Init => TypeOK
  BY DEF Init, TypeOK, Scores, Stages, Digit
<1>2. TypeOK /\ [Next]_vars => TypeOK'
  BY TypeStep
<1> QED  BY <1>1, <1>2, PTL DEF Spec

-----------------------------------------------------------------------------
(* From here on the overflow flag is clear: the game as it runs when no    *)
(* sum overflowed since the flag was last written.                         *)

(* How many hundreds were counted up and not carried, up to full rounds.   *)
Turns(s) == Hundreds(s) - Thousands(s)

LEMMA TurnsDigits ==
  ASSUME NEW s \in Scores
  PROVE  /\ Turns(s) = s.huns + 9 * s.thous + 90 * s.tthous
         /\ Turns(s) \in Int
         /\ s.huns \in 0..9 /\ s.thous \in 0..9 /\ s.tthous \in 0..9
<1>1. s.huns \in 0..9 /\ s.thous \in 0..9 /\ s.tthous \in 0..9
  BY DEF Scores, Digit
<1> QED  BY <1>1 DEF Turns, Hundreds, Thousands

(* Counting a hundred up turns the stages by one; carrying it takes off    *)
(* full rounds of six.                                                     *)
LEMMA TurnsStep ==
  ASSUME NEW s \in Scores
  PROVE  LET h == AddHunToScore(s, FALSE)
         IN  IF s.huns = 9 THEN Turns(h) % 6 = Turns(s) % 6
                           ELSE Turns(h) = Turns(s) + 1
<1> DEFINE h == AddHunToScore(s, FALSE)
<1>0. h \in Scores
  BY CarryDigits
<1>1. CASE s.huns # 9
  <2>1. h.huns = s.huns + 1 /\ h.thous = s.thous /\ h.tthous = s.tthous
    BY <1>1 DEF AddHunToScore, Carries, Scores
  <2> HIDE DEF h
  <2>2. Turns(h) = Turns(s) + 1
    <3>1. Turns(h) = h.huns + 9 * h.thous + 90 * h.tthous
      BY <1>0, TurnsDigits
    <3>2. /\ Turns(s) = s.huns + 9 * s.thous + 90 * s.tthous
          /\ s.huns \in 0..9 /\ s.thous \in 0..9 /\ s.tthous \in 0..9
      BY TurnsDigits
    <3> QED  BY <2>1, <3>1, <3>2
  <2> QED  BY <1>1, <2>2 DEF h
<1>2. CASE s.huns = 9 /\ s.thous # 9
  <2>1. h.huns = 0 /\ h.thous = s.thous + 1 /\ h.tthous = s.tthous
    BY <1>2 DEF AddHunToScore, AddThouToScore, Carries, Scores
  <2> HIDE DEF h
  <2>2. Turns(h) = Turns(s)
    BY <1>0, <1>2, <2>1, TurnsDigits
  <2> QED  BY <1>2, <2>2 DEF h
<1>3. CASE s.huns = 9 /\ s.thous = 9
  <2>1. /\ h.huns = 0 /\ h.thous = 0
        /\ h.tthous = IF s.tthous = 9 THEN 9 ELSE s.tthous + 1
    BY <1>3 DEF AddHunToScore, AddThouToScore, AddTThousToScore, Carries, Scores
  <2> HIDE DEF h
  <2>2. Turns(h) = Turns(s) \/ Turns(h) = Turns(s) - 90
    BY <1>0, <1>3, <2>1, TurnsDigits
  <2>3. Turns(h) % 6 = Turns(s) % 6
    BY <2>2, TurnsDigits
  <2> QED  BY <1>3, <2>3 DEF h
<1> QED  BY <1>1, <1>2, <1>3

(* The handler moves the colour on and nothing else.                       *)
LEMMA HandlerFields ==
  ASSUME NEW r \in [level : Int, sub : Int, color : 1..6],
         NEW h, h = NextLevelHandler(r)
  PROVE  /\ h.level = r.level /\ h.sub = r.sub
         /\ h.color = IF r.color = 6 THEN 1 ELSE r.color + 1
<1>1. (IF r.color + 1 < 7 THEN r.color + 1 ELSE 1)
        = IF r.color = 6 THEN 1 ELSE r.color + 1
  OBVIOUS
<1> QED  BY <1>1 DEF NextLevelHandler

(* Rank numbers the six stages, tabulated so that no product is left.      *)
LEMMA RankTable ==
  ASSUME NEW g
  PROVE  /\ g.level = 1 /\ g.sub = 1 => Rank(g) = 0
         /\ g.level = 1 /\ g.sub = 2 => Rank(g) = 1
         /\ g.level = 2 /\ g.sub = 1 => Rank(g) = 2
         /\ g.level = 2 /\ g.sub = 2 => Rank(g) = 3
         /\ g.level = 3 /\ g.sub = 1 => Rank(g) = 4
         /\ g.level = 3 /\ g.sub = 2 => Rank(g) = 5
BY DEF Rank

(* updateLevel goes once round the six stages, colour and all.             *)
LEMMA StageStep ==
  ASSUME NEW g \in Stages, g.color = Rank(g) + 1,
         NEW v \in BOOLEAN, ~v, NEW h, h = UpdateLevel(g, v)
  PROVE  /\ Rank(h) = (Rank(g) + 1) % 6
         /\ h.color = Rank(h) + 1
<1> DEFINE Rec == [level : Int, sub : Int, color : 1..6]
<1>0. g.level \in 1..3 /\ g.sub \in 1..2 /\ g.color \in 1..6 /\ g \in Rec
  BY DEF Stages
<1>1. /\ g.level = 1 /\ g.sub = 1 => g.color = 1
      /\ g.level = 1 /\ g.sub = 2 => g.color = 2
      /\ g.level = 2 /\ g.sub = 1 => g.color = 3
      /\ g.level = 2 /\ g.sub = 2 => g.color = 4
      /\ g.level = 3 /\ g.sub = 1 => g.color = 5
      /\ g.level = 3 /\ g.sub = 2 => g.color = 6
  BY RankTable
<1> HIDE DEF Rec
<1>2. CASE g.sub = 1
  <2> DEFINE r == [g EXCEPT !.sub = @ + 1]
  <2>1. r.level = g.level /\ r.sub = 2 /\ r.color = g.color
    BY <1>0, <1>2 DEF Rec
  <2>2. r \in Rec
    <3>1. g.sub + 1 \in Int  BY <1>0
    <3> QED  BY <1>0, <3>1 DEF Rec
  <2>3. h = NextLevelHandler(r)
    BY <1>2 DEF UpdateLevel
  <2> HIDE DEF r
  <2>4. h.level = g.level /\ h.sub = 2 /\ h.color = g.color + 1
    BY <1>0, <1>1, <1>2, <2>1, <2>2, <2>3, HandlerFields DEF Rec
  <2> QED  BY <1>0, <1>1, <1>2, <2>4, RankTable
<1>3. CASE g.sub = 2 /\ g.level # 3
  <2> DEFINE r == [g EXCEPT !.sub = 1, !.level = @ + 1]
  <2>1. r.level = g.level + 1 /\ r.sub = 1 /\ r.color = g.color
    BY <1>0 DEF Rec
  <2>2. r \in Rec
    <3>1. g.level + 1 \in Int  BY <1>0
    <3>2. [g EXCEPT !.sub = 1] \in Rec  BY <1>0 DEF Rec
    <3> QED  BY <3>1, <3>2 DEF Rec
  <2>3. h = NextLevelHandler(r)
    BY <1>3 DEF UpdateLevel, NextLevel
  <2> HIDE DEF r
  <2>4. h.level = g.level + 1 /\ h.sub = 1 /\ h.color = g.color + 1
    BY <1>0, <1>1, <1>3, <2>1, <2>2, <2>3, HandlerFields DEF Rec
  <2> QED  BY <1>0, <1>1, <1>3, <2>4, RankTable
<1>4. CASE g.sub = 2 /\ g.level = 3
  <2> DEFINE r == [[g EXCEPT !.sub = 1] EXCEPT !.level = 1]
  <2>1. r.level = 1 /\ r.sub = 1 /\ r.color = g.color
    BY <1>0 DEF Rec
  <2>2. r \in Rec
    <3>1. [g EXCEPT !.sub = 1] \in Rec  BY <1>0 DEF Rec
    <3> QED  BY <3>1 DEF Rec
  <2>3. h = NextLevelHandler(r)
    BY <1>4 DEF UpdateLevel, NextLevel, ResetLevel
  <2> HIDE DEF r
  <2>4. h.level = 1 /\ h.sub = 1 /\ h.color = 1
    BY <1>0, <1>1, <1>4, <2>1, <2>2, <2>3, HandlerFields DEF Rec
  <2> QED  BY <1>0, <1>1, <1>4, <2>4, RankTable
<1> QED  BY <1>0, <1>2, <1>3, <1>4

(* A score and a stage in step stay in step through the two entries of the *)
(* carry chain.                                                            *)
InStep(s, g) == Rank(g) = Turns(s) % 6 /\ g.color = Rank(g) + 1

LEMMA HundredInStep ==
  ASSUME NEW s \in Scores, NEW g \in Stages, InStep(s, g)
  PROVE  InStep(AddHunToScore(s, FALSE),
                IF s.huns # 9 THEN UpdateLevel(g, FALSE) ELSE g)
<1>1. CASE s.huns = 9
  BY <1>1, TurnsStep DEF InStep
<1>2. CASE s.huns # 9
  <2> DEFINE t == Turns(s)
             r == AddHunToScore(s, FALSE)
             h == UpdateLevel(g, FALSE)
  <2>1. Turns(r) = t + 1  BY <1>2, TurnsStep
  <2>2. t \in Int  BY TurnsDigits
  <2>3. Rank(h) = (Rank(g) + 1) % 6 /\ h.color = Rank(h) + 1
    BY StageStep DEF InStep
  <2>4. Rank(g) = t % 6  BY DEF InStep
  <2> HIDE DEF t, r, h
  <2>5. Rank(h) = Turns(r) % 6  BY <2>1, <2>2, <2>3, <2>4
  <2>6. InStep(r, h)  BY <2>3, <2>5 DEF InStep
  <2> QED  BY <1>2, <2>6 DEF r, h
<1> QED  BY <1>1, <1>2

(* The digits below the hundreds do not count.                             *)
LEMMA LowDigits ==
  ASSUME NEW s \in Scores, NEW r \in Scores, NEW g \in Stages, InStep(s, g),
         r.huns = s.huns, r.thous = s.thous, r.tthous = s.tthous
  PROVE  InStep(r, g)
BY DEF InStep, Turns, Hundreds, Thousands

LEMMA PointInStep ==
  ASSUME NEW s \in Scores, NEW g \in Stages, InStep(s, g)
  PROVE  InStep(AddOneToScore(s, FALSE),
                IF LevelsUpOne(s, FALSE) THEN UpdateLevel(g, FALSE) ELSE g)
<1>1. CASE s.ones # 9
  <2> DEFINE r == AddOneToScore(s, FALSE)
  <2>1. r = [s EXCEPT !.ones = @ + 1] /\ ~ LevelsUpOne(s, FALSE)
    BY <1>1 DEF AddOneToScore, LevelsUpOne, Carries
  <2>2. r \in Scores  BY CarryDigits
  <2>3. r.huns = s.huns /\ r.thous = s.thous /\ r.tthous = s.tthous
    BY <2>1 DEF Scores
  <2> HIDE DEF r
  <2>4. InStep(r, g)  BY <2>2, <2>3, LowDigits
  <2> QED  BY <2>1, <2>4 DEF r
<1>2. CASE s.ones = 9
  <2> DEFINE t == [s EXCEPT !.ones = 0]
  <2>1. /\ t \in Scores
        /\ t.huns = s.huns /\ t.thous = s.thous /\ t.tthous = s.tthous
        /\ t.tens = s.tens
    BY DigitStep DEF Scores
  <2>2. AddOneToScore(s, FALSE) =
          IF t.tens = 9 THEN AddHunToScore(t, FALSE) ELSE [t EXCEPT !.tens = @ + 1]
    BY <1>2 DEF AddOneToScore, AddTenToScore, Carries
  <2>3. LevelsUpOne(s, FALSE) <=> t.tens = 9 /\ t.huns # 9
    BY <1>2, <2>1 DEF LevelsUpOne, Carries
  <2> HIDE DEF t
  <2>4. InStep(t, g)  BY <2>1, LowDigits
  <2>5. CASE t.tens = 9
    BY <2>1, <2>2, <2>3, <2>4, <2>5, HundredInStep
  <2>6. CASE t.tens # 9
    <3> DEFINE r == [t EXCEPT !.tens = @ + 1]
    <3>1. r \in Scores  BY <2>1, <2>6, DigitStep
    <3>2. r.huns = t.huns /\ r.thous = t.thous /\ r.tthous = t.tthous
      BY <2>1 DEF Scores
    <3> HIDE DEF r
    <3>3. InStep(r, g)  BY <2>1, <2>4, <3>1, <3>2, LowDigits
    <3> QED  BY <2>2, <2>3, <2>6, <3>3 DEF r
  <2> QED  BY <2>5, <2>6
<1> QED  BY <1>1, <1>2

LEMMA PickInStep ==
  ASSUME NEW s \in Scores, NEW g \in Stages, InStep(s, g)
  PROVE  InStep(AddTenPickScore(s, FALSE),
                IF LevelsUpPick(s) THEN UpdateLevel(g, FALSE) ELSE g)
<1>1. CASE s.tens = 9
  BY <1>1, HundredInStep DEF AddTenPickScore, LevelsUpPick
<1>2. CASE s.tens # 9
  <2> DEFINE r == [s EXCEPT !.tens = @ + 1]
  <2>1. r \in Scores  BY <1>2, DigitStep
  <2>2. r.huns = s.huns /\ r.thous = s.thous /\ r.tthous = s.tthous
    BY DEF Scores
  <2>3. AddTenPickScore(s, FALSE) = r /\ ~ LevelsUpPick(s)
    BY <1>2 DEF AddTenPickScore, LevelsUpPick
  <2> HIDE DEF r
  <2>4. InStep(r, g)  BY <2>1, <2>2, LowDigits
  <2> QED  BY <2>3, <2>4
<1> QED  BY <1>1, <1>2

(* What a routine may do to the status line while no overflow is pending.  *)
ClearStep == UpdateScore(FALSE) \/ Pickup(FALSE) \/ SpendBullet \/ UNCHANGED vars

LEMMA ClearNext ==
  ASSUME Overflows \subseteq {FALSE}, [Next]_vars
  PROVE  ClearStep
BY DEF Next, ClearStep

LEMMA StaysInStep ==
  ASSUME TypeOK, InStep(score, stage), ClearStep
  PROVE  InStep(score', stage')
<1>0. score \in Scores /\ stage \in Stages  BY DEF TypeOK
<1>1. CASE CountFrame(FALSE)  BY <1>1 DEF CountFrame
<1>2. CASE AddPoint(FALSE)  BY <1>0, <1>2, PointInStep DEF AddPoint
<1>3. CASE Pickup(FALSE)
  <2> DEFINE once == AddTenPickScore(score, FALSE)
             lev == IF LevelsUpPick(score) THEN UpdateLevel(stage, FALSE) ELSE stage
  <2>1. once \in Scores /\ lev \in Stages  BY <1>0, CarryDigits, LevelStages
  <2>2. InStep(once, lev)  BY <1>0, PickInStep
  <2>3. /\ score' = AddTenPickScore(once, FALSE)
        /\ stage' = IF LevelsUpPick(once) THEN UpdateLevel(lev, FALSE) ELSE lev
    BY <1>3 DEF Pickup
  <2> HIDE DEF once, lev
  <2> QED  BY <2>1, <2>2, <2>3, PickInStep
<1>4. CASE SpendBullet  BY <1>4 DEF SpendBullet
<1>5. CASE UNCHANGED vars  BY <1>5 DEF vars
<1> QED  BY <1>1, <1>2, <1>3, <1>4, <1>5 DEF ClearStep, UpdateScore

LEMMA InStepIs == InStep(score, stage) <=> LevelTracksScore
BY DEF InStep, LevelTracksScore, Turns

(* The stage follows the score for every number of points, power-ups and   *)
(* shots, as long as no overflow is pending when the counters run.         *)
THEOREM LevelsInStep ==
  ASSUME Overflows \subseteq {FALSE}
  PROVE  Spec => []LevelTracksScore
<1> DEFINE IInv == TypeOK /\ InStep(score, stage)
<1>1. Init => IInv
  BY DEF Init, TypeOK, Scores, Stages, Digit, InStep, Turns, Hundreds, Thousands, Rank
<1>2. IInv /\ TypeOK' /\ [Next]_vars => IInv'
  BY ClearNext, StaysInStep
<1>3. IInv => LevelTracksScore
  BY InStepIs
<1> QED  BY <1>1, <1>2, <1>3, TypeCorrect, PTL DEF Spec

-----------------------------------------------------------------------------
(* The number five digits stand for.                                       *)
Number(a, b, c, d, e) == a + 10 * b + 100 * c + 1000 * d + 10000 * e

LEMMA NumberOf ==
  ASSUME NEW s \in Scores
  PROVE  Total(s) = Number(s.ones, s.tens, s.huns, s.thous, s.tthous)
BY DEF Total, Number

FiveDigits(n) == n \in Nat /\ n < 100000

LEMMA NumberBound ==
  ASSUME NEW a \in 0..9, NEW b \in 0..9, NEW c \in 0..9, NEW d \in 0..9, NEW e \in 0..9
  PROVE  FiveDigits(Number(a, b, c, d, e))
BY DEF Number, FiveDigits

LEMMA TotalBound ==
  ASSUME NEW s \in Scores
  PROVE  FiveDigits(Total(s))
<1>1. /\ s.ones \in 0..9 /\ s.tens \in 0..9
      /\ s.huns \in 0..9 /\ s.thous \in 0..9 /\ s.tthous \in 0..9
  BY DEF Scores, Digit
<1>2. FiveDigits(Number(s.ones, s.tens, s.huns, s.thous, s.tthous))
  BY <1>1, NumberBound, Zenon
<1> QED  BY <1>2, NumberOf

(* Where a point's carry may end: in the ones or in the tens.              *)
LEMMA PointNumbers ==
  ASSUME NEW a \in Digit, NEW b \in Digit, NEW c \in Digit, NEW d \in Digit, NEW e \in Digit
  PROVE  /\ a # 9 => Number(a + 1, b, c, d, e) = Abstract!Add(Number(a, b, c, d, e), 1)
         /\ b # 9 => Number(0, b + 1, c, d, e) = Abstract!Add(Number(9, b, c, d, e), 1)
         /\ b # 9 => Number(a, b + 1, c, d, e) = Abstract!Add(Number(a, b, c, d, e), 10)
<1>1. a # 9 => Number(a + 1, b, c, d, e) = Abstract!Add(Number(a, b, c, d, e), 1)
  BY DEF Digit, Number, Abstract!Add
<1>2. b # 9 => Number(0, b + 1, c, d, e) = Abstract!Add(Number(9, b, c, d, e), 1)
  BY DEF Digit, Number, Abstract!Add
<1>3. b # 9 => Number(a, b + 1, c, d, e) = Abstract!Add(Number(a, b, c, d, e), 10)
  BY DEF Digit, Number, Abstract!Add
<1> QED  BY <1>1, <1>2, <1>3

(* Where a carry out of the tens may end, down to the one that is lost at  *)
(* the top.                                                                *)
LEMMA CarryNumbers ==
  ASSUME NEW a \in Digit, NEW c \in Digit, NEW d \in Digit, NEW e \in Digit
  PROVE  /\ c # 9 => Number(a, 0, c + 1, d, e) = Abstract!Add(Number(a, 9, c, d, e), 10)
         /\ d # 9 => Number(a, 0, 0, d + 1, e) = Abstract!Add(Number(a, 9, 9, d, e), 10)
         /\ e # 9 => Number(a, 0, 0, 0, e + 1) = Abstract!Add(Number(a, 9, 9, 9, e), 10)
         /\ Number(a, 0, 0, 0, 9) = Abstract!Add(Number(a, 9, 9, 9, 9), 10)
         /\ Abstract!Add(Number(0, 9, c, d, e), 10) = Abstract!Add(Number(9, 9, c, d, e), 1)
<1>1. c # 9 => Number(a, 0, c + 1, d, e) = Abstract!Add(Number(a, 9, c, d, e), 10)
  BY DEF Digit, Number, Abstract!Add
<1>2. d # 9 => Number(a, 0, 0, d + 1, e) = Abstract!Add(Number(a, 9, 9, d, e), 10)
  BY DEF Digit, Number, Abstract!Add
<1>3. e # 9 => Number(a, 0, 0, 0, e + 1) = Abstract!Add(Number(a, 9, 9, 9, e), 10)
  BY DEF Digit, Number, Abstract!Add
<1>4. Number(a, 0, 0, 0, 9) = Abstract!Add(Number(a, 9, 9, 9, 9), 10)
  BY DEF Digit, Number, Abstract!Add
<1>5. Abstract!Add(Number(0, 9, c, d, e), 10) = Abstract!Add(Number(9, 9, c, d, e), 1)
  BY DEF Digit, Number, Abstract!Add
<1> QED  BY <1>1, <1>2, <1>3, <1>4, <1>5

LEMMA DigitsOf ==
  ASSUME NEW s \in Scores
  PROVE  /\ s.ones \in Digit /\ s.tens \in Digit
         /\ s.huns \in Digit /\ s.thous \in Digit /\ s.tthous \in Digit
BY DEF Scores

(* A carry out of the tens is worth ten points.                            *)
LEMMA HundredCounts ==
  ASSUME NEW s \in Scores, s.tens = 9
  PROVE  Total(AddHunToScore(s, FALSE)) = Abstract!Add(Total(s), 10)
<1> SUFFICES ASSUME NEW h, h = AddHunToScore(s, FALSE)
             PROVE  Total(h) = Abstract!Add(Total(s), 10)
  OBVIOUS
<1>h. h \in Scores
  BY CarryDigits
<1>t. /\ Total(h) = Number(h.ones, h.tens, h.huns, h.thous, h.tthous)
      /\ Total(s) = Number(s.ones, 9, s.huns, s.thous, s.tthous)
  BY <1>h, NumberOf
<1>d. s.ones \in Digit /\ s.huns \in Digit /\ s.thous \in Digit /\ s.tthous \in Digit
  BY DigitsOf
<1>1. CASE s.huns # 9
  <2>1. /\ h.ones = s.ones /\ h.tens = 0
        /\ h.huns = s.huns + 1 /\ h.thous = s.thous /\ h.tthous = s.tthous
    BY <1>1 DEF AddHunToScore, Carries, Scores
  <2>2. Number(s.ones, 0, s.huns + 1, s.thous, s.tthous)
          = Abstract!Add(Number(s.ones, 9, s.huns, s.thous, s.tthous), 10)
    BY <1>d, <1>1, CarryNumbers
  <2>3. Total(h) = Number(s.ones, 0, s.huns + 1, s.thous, s.tthous)
    BY <1>t, <2>1
  <2> QED  BY <1>t, <1>1, <2>2, <2>3
<1>2. CASE s.huns = 9 /\ s.thous # 9
  <2>1. /\ h.ones = s.ones /\ h.tens = 0
        /\ h.huns = 0 /\ h.thous = s.thous + 1 /\ h.tthous = s.tthous
    BY <1>2 DEF AddHunToScore, AddThouToScore, Carries, Scores
  <2>2. Number(s.ones, 0, 0, s.thous + 1, s.tthous)
          = Abstract!Add(Number(s.ones, 9, 9, s.thous, s.tthous), 10)
    BY <1>d, <1>2, CarryNumbers
  <2>3. Total(h) = Number(s.ones, 0, 0, s.thous + 1, s.tthous)
    BY <1>t, <2>1
  <2> QED  BY <1>t, <1>2, <2>2, <2>3
<1>3. CASE s.huns = 9 /\ s.thous = 9 /\ s.tthous # 9
  <2>1. /\ h.ones = s.ones /\ h.tens = 0
        /\ h.huns = 0 /\ h.thous = 0 /\ h.tthous = s.tthous + 1
    BY <1>3 DEF AddHunToScore, AddThouToScore, AddTThousToScore, Carries, Scores
  <2>2. Number(s.ones, 0, 0, 0, s.tthous + 1)
          = Abstract!Add(Number(s.ones, 9, 9, 9, s.tthous), 10)
    BY <1>d, <1>3, CarryNumbers
  <2>3. Total(h) = Number(s.ones, 0, 0, 0, s.tthous + 1)
    BY <1>t, <2>1
  <2> QED  BY <1>t, <1>3, <2>2, <2>3
<1>4. CASE s.huns = 9 /\ s.thous = 9 /\ s.tthous = 9
  <2>1. /\ h.ones = s.ones /\ h.tens = 0
        /\ h.huns = 0 /\ h.thous = 0 /\ h.tthous = 9
    BY <1>4 DEF AddHunToScore, AddThouToScore, AddTThousToScore, Carries, Scores
  <2>2. Number(s.ones, 0, 0, 0, 9)
          = Abstract!Add(Number(s.ones, 9, 9, 9, 9), 10)
    BY <1>d, <1>4, CarryNumbers
  <2>3. Total(h) = Number(s.ones, 0, 0, 0, 9)
    BY <1>t, <2>1
  <2> QED  BY <1>t, <1>4, <2>2, <2>3
<1> QED  BY <1>1, <1>2, <1>3, <1>4

(* A point is one more, wherever its carry ends.                           *)
LEMMA PointCounts ==
  ASSUME NEW s \in Scores
  PROVE  Total(AddOneToScore(s, FALSE)) = Abstract!Add(Total(s), 1)
<1> SUFFICES ASSUME NEW h, h = AddOneToScore(s, FALSE)
             PROVE  Total(h) = Abstract!Add(Total(s), 1)
  OBVIOUS
<1>h. h \in Scores
  BY CarryDigits
<1>t. /\ Total(h) = Number(h.ones, h.tens, h.huns, h.thous, h.tthous)
      /\ Total(s) = Number(s.ones, s.tens, s.huns, s.thous, s.tthous)
  BY <1>h, NumberOf
<1>d. /\ s.ones \in Digit /\ s.tens \in Digit
      /\ s.huns \in Digit /\ s.thous \in Digit /\ s.tthous \in Digit
  BY DigitsOf
<1>1. CASE s.ones # 9
  <2>1. /\ h.ones = s.ones + 1 /\ h.tens = s.tens
        /\ h.huns = s.huns /\ h.thous = s.thous /\ h.tthous = s.tthous
    BY <1>1 DEF AddOneToScore, Carries, Scores
  <2>2. Number(s.ones + 1, s.tens, s.huns, s.thous, s.tthous)
          = Abstract!Add(Number(s.ones, s.tens, s.huns, s.thous, s.tthous), 1)
    BY <1>d, <1>1, PointNumbers
  <2>3. Total(h) = Number(s.ones + 1, s.tens, s.huns, s.thous, s.tthous)
    BY <1>t, <2>1
  <2> QED  BY <1>t, <1>1, <2>2, <2>3
<1>2. CASE s.ones = 9 /\ s.tens # 9
  <2>1. /\ h.ones = 0 /\ h.tens = s.tens + 1
        /\ h.huns = s.huns /\ h.thous = s.thous /\ h.tthous = s.tthous
    BY <1>2 DEF AddOneToScore, AddTenToScore, Carries, Scores
  <2>2. Number(0, s.tens + 1, s.huns, s.thous, s.tthous)
          = Abstract!Add(Number(9, s.tens, s.huns, s.thous, s.tthous), 1)
    BY <1>d, <1>2, PointNumbers
  <2>3. Total(h) = Number(0, s.tens + 1, s.huns, s.thous, s.tthous)
    BY <1>t, <2>1
  <2> QED  BY <1>t, <1>2, <2>2, <2>3
<1>3. CASE s.ones = 9 /\ s.tens = 9
  <2> DEFINE t == [s EXCEPT !.ones = 0]
  <2>1. t \in Scores
    BY DigitStep
  <2>2. /\ t.ones = 0 /\ t.tens = 9
        /\ t.huns = s.huns /\ t.thous = s.thous /\ t.tthous = s.tthous
    BY <1>3 DEF Scores
  <2>3. h = AddHunToScore(t, FALSE)
    BY <1>3, <2>2 DEF AddOneToScore, AddTenToScore, Carries
  <2> HIDE DEF t
  <2>4. Total(h) = Abstract!Add(Total(t), 10)
    BY <2>1, <2>2, <2>3, HundredCounts
  <2>5. Total(t) = Number(0, 9, s.huns, s.thous, s.tthous)
    BY <2>1, <2>2, NumberOf
  <2>6. Abstract!Add(Number(0, 9, s.huns, s.thous, s.tthous), 10)
          = Abstract!Add(Number(9, 9, s.huns, s.thous, s.tthous), 1)
    BY <1>d, CarryNumbers
  <2> QED  BY <1>t, <1>3, <2>4, <2>5, <2>6, Zenon
<1> QED  BY <1>1, <1>2, <1>3

(* Either half of a power-up's reward is ten more.                         *)
LEMMA PickCounts ==
  ASSUME NEW s \in Scores
  PROVE  Total(AddTenPickScore(s, FALSE)) = Abstract!Add(Total(s), 10)
<1>1. CASE s.tens = 9
  BY <1>1, HundredCounts DEF AddTenPickScore
<1>2. CASE s.tens # 9
  <2> DEFINE h == AddTenPickScore(s, FALSE)
  <2>1. h \in Scores
    BY CarryDigits
  <2>2. /\ h.ones = s.ones /\ h.tens = s.tens + 1
        /\ h.huns = s.huns /\ h.thous = s.thous /\ h.tthous = s.tthous
    BY <1>2 DEF AddTenPickScore, Scores
  <2> HIDE DEF h
  <2>3. /\ Total(h) = Number(h.ones, h.tens, h.huns, h.thous, h.tthous)
        /\ Total(s) = Number(s.ones, s.tens, s.huns, s.thous, s.tthous)
    BY <2>1, NumberOf
  <2>4. /\ s.ones \in Digit /\ s.tens \in Digit
        /\ s.huns \in Digit /\ s.thous \in Digit /\ s.tthous \in Digit
    BY DigitsOf
  <2>5. Number(s.ones, s.tens + 1, s.huns, s.thous, s.tthous)
          = Abstract!Add(Number(s.ones, s.tens, s.huns, s.thous, s.tthous), 10)
    BY <1>2, <2>4, PointNumbers
  <2>6. Total(h) = Number(s.ones, s.tens + 1, s.huns, s.thous, s.tthous)
    BY <2>2, <2>3
  <2>7. Total(h) = Abstract!Add(Total(s), 10)
    BY <2>3, <2>5, <2>6
  <2> QED  BY <2>7 DEF h
<1> QED  BY <1>1, <1>2

Ammo == [ones : Digit, tens : Digit]

LEMMA PickupLoads ==
  ASSUME NEW a \in Ammo
  PROVE  Bullets(AddPickupToAmmo(a, FALSE)) =
           IF Bullets(a) = 99 THEN 90 ELSE Bullets(a) + 1
<1> DEFINE b == AddPickupToAmmo(a, FALSE)
<1>0. a.ones \in 0..9 /\ a.tens \in 0..9
  BY DEF Ammo, Digit
<1>1. CASE a.ones # 9
  <2>1. b.ones = a.ones + 1 /\ b.tens = a.tens
    BY <1>1 DEF AddPickupToAmmo, Carries, Ammo
  <2> HIDE DEF b
  <2>2. Bullets(b) = Bullets(a) + 1 /\ Bullets(a) # 99  BY <1>0, <1>1, <2>1 DEF Bullets
  <2> QED  BY <2>2 DEF b
<1>2. CASE a.ones = 9 /\ a.tens # 9
  <2>1. b.ones = 0 /\ b.tens = a.tens + 1
    BY <1>2 DEF AddPickupToAmmo, Carries
  <2> HIDE DEF b
  <2>2. Bullets(b) = Bullets(a) + 1 /\ Bullets(a) # 99  BY <1>0, <1>2, <2>1 DEF Bullets
  <2> QED  BY <2>2 DEF b
<1>3. CASE a.ones = 9 /\ a.tens = 9
  <2>1. b.ones = 0 /\ b.tens = 9
    BY <1>3 DEF AddPickupToAmmo, Carries
  <2> HIDE DEF b
  <2>2. Bullets(b) = 90 /\ Bullets(a) = 99  BY <1>3, <2>1 DEF Bullets
  <2> QED  BY <2>2 DEF b
<1> QED  BY <1>1, <1>2, <1>3

LEMMA ShotSpends ==
  ASSUME NEW a \in Ammo, a.ones # 0 \/ a.tens # 0
  PROVE  Bullets(a) > 0 /\ Bullets(OneBulletLess(a)) = Bullets(a) - 1
<1>0. a.ones \in 0..9 /\ a.tens \in 0..9
  BY DEF Ammo, Digit
<1>1. CASE a.ones # 0
  <2>1. OneBulletLess(a).ones = a.ones - 1 /\ OneBulletLess(a).tens = a.tens
    BY <1>1 DEF OneBulletLess, Ammo
  <2> QED  BY <1>0, <1>1, <2>1 DEF Bullets
<1>2. CASE a.ones = 0
  <2>1. OneBulletLess(a).ones = 9 /\ OneBulletLess(a).tens = a.tens - 1
    BY <1>2 DEF OneBulletLess
  <2> QED  BY <1>0, <1>2, <2>1 DEF Bullets
<1> QED  BY <1>1, <1>2

(* Each routine of the status line is then one step of Counter.            *)
LEMMA StepCounts ==
  ASSUME TypeOK, ClearStep
  PROVE  [Abstract!Next]_(Abstract!vars)
<1>0. score \in Scores /\ ammo \in Ammo /\ currTurn \in 0..2
  BY DEF TypeOK, Ammo
<1>1. CASE CountFrame(FALSE)
  BY <1>0, <1>1 DEF CountFrame, Abstract!Next, Abstract!Frame
<1>2. CASE AddPoint(FALSE)
  <2>1. score' = AddOneToScore(score, FALSE) /\ currTurn = 2 /\ currTurn' = 0 /\ ammo' = ammo
    BY <1>2 DEF AddPoint
  <2>2. Total(score') = Abstract!Add(Total(score), 1)
    BY <1>0, <2>1, PointCounts
  <2> QED  BY <2>1, <2>2 DEF Abstract!Next, Abstract!Point
<1>3. CASE Pickup(FALSE)
  <2> DEFINE once == AddTenPickScore(score, FALSE)
  <2>1. score' = AddTenPickScore(once, FALSE) /\ currTurn' = currTurn
    BY <1>3 DEF Pickup
  <2>2. ammo' = AddPickupToAmmo(ammo, FALSE)
    BY <1>3 DEF Pickup
  <2>3. once \in Scores  BY <1>0, CarryDigits
  <2>4. Total(once) = Abstract!Add(Total(score), 10)  BY <1>0, PickCounts
  <2> HIDE DEF once
  <2>5. Total(score') = Abstract!Add(Abstract!Add(Total(score), 10), 10)
    BY <2>1, <2>3, <2>4, PickCounts
  <2>6. Bullets(ammo') = IF Bullets(ammo) = 99 THEN 90 ELSE Bullets(ammo) + 1
    BY <1>0, <2>2, PickupLoads
  <2> QED  BY <2>1, <2>5, <2>6 DEF Abstract!Next, Abstract!Reward
<1>4. CASE SpendBullet
  <2>1. ammo' = OneBulletLess(ammo) /\ score' = score /\ currTurn' = currTurn
    BY <1>4 DEF SpendBullet
  <2>2. Bullets(ammo) > 0 /\ Bullets(ammo') = Bullets(ammo) - 1
    BY <1>0, <1>4, <2>1, ShotSpends DEF SpendBullet, HasAmmo
  <2> QED  BY <2>1, <2>2 DEF Abstract!Next, Abstract!Shot
<1>5. CASE UNCHANGED vars
  BY <1>5 DEF vars, Abstract!vars
<1> QED  BY <1>1, <1>2, <1>3, <1>4, <1>5 DEF ClearStep, UpdateScore

(* Refinement: with the overflow flag clear, five decimal digits, two more *)
(* and their carry chains are a counter of points, frames and bullets, at  *)
(* every score and for every bound.                                        *)
THEOREM DigitsCount ==
  ASSUME Overflows \subseteq {FALSE}
  PROVE  Spec => CountsPoints
<1>1. Init => Abstract!Init
  BY DEF Init, Abstract!Init, Total, Bullets
<1>2. TypeOK /\ [Next]_vars => [Abstract!Next]_(Abstract!vars)
  BY ClearNext, StepCounts
<1> QED  BY <1>1, <1>2, TypeCorrect, PTL DEF Spec, CountsPoints, Abstract!Spec

-----------------------------------------------------------------------------
(* What updateLevel comes to, as the tunnel sees it.                       *)
LEMMA LevelMoves ==
  ASSUME NEW g \in Stages, NEW v \in BOOLEAN
  PROVE  LET h == UpdateLevel(g, v)
         IN  /\ v => h.level = 1 /\ h.sub = 1
             /\ ~v /\ g.sub = 1 => h.level = g.level /\ h.sub = 2
             /\ ~v /\ g.sub = 2 => /\ h.sub = 1
                                   /\ h.level = IF g.level = 3 THEN 1 ELSE g.level + 1
<1> DEFINE h == UpdateLevel(g, v)
<1>1. ASSUME NEW k \in Stages
      PROVE  /\ NextLevelHandler(k).level = k.level /\ NextLevelHandler(k).sub = k.sub
             /\ ResetLevel(k).level = 1 /\ ResetLevel(k).sub = k.sub
  <2>1. [k EXCEPT !.level = 1] \in Stages
    BY DEF Stages
  <2> QED  BY <2>1 DEF NextLevelHandler, ResetLevel, Stages
<1>2. ASSUME NEW k \in Stages
      PROVE  /\ NextLevel(k, v).sub = 1
             /\ NextLevel(k, v).level = IF k.level = 3 \/ v THEN 1 ELSE k.level + 1
  <2> DEFINE up == [k EXCEPT !.sub = 1, !.level = @ + 1]
  <2>1. CASE k.level = 3
    <3>1. [k EXCEPT !.sub = 1] \in Stages /\ [k EXCEPT !.sub = 1].sub = 1
      BY DEF Stages
    <3> QED  BY <1>1, <2>1, <3>1 DEF NextLevel
  <2>2. CASE k.level # 3
    <3>0. up = [[k EXCEPT !.sub = 1] EXCEPT !.level = k.level + 1]
      BY DEF Stages
    <3>1. up \in Stages /\ up.sub = 1 /\ up.level = k.level + 1
      <4>1. [k EXCEPT !.sub = 1] \in Stages /\ [k EXCEPT !.sub = 1].sub = 1
        BY DEF Stages
      <4>2. k.level + 1 \in 1..3
        BY <2>2 DEF Stages
      <4> HIDE DEF up
      <4> QED  BY <3>0, <4>1, <4>2 DEF Stages
    <3> HIDE DEF up
    <3>2. NextLevelHandler(up) \in Stages
      BY <3>1 DEF NextLevelHandler, Stages
    <3>3. CASE v
      <4>1. NextLevel(k, v) = ResetLevel(NextLevelHandler(up))
        BY <2>2, <3>3 DEF NextLevel, up
      <4> QED  BY <1>1, <3>1, <3>2, <3>3, <4>1
    <3>4. CASE ~v
      <4>1. NextLevel(k, v) = NextLevelHandler(up)
        BY <2>2, <3>4 DEF NextLevel, up
      <4> QED  BY <1>1, <2>2, <3>1, <3>4, <4>1
    <3> QED  BY <3>3, <3>4
  <2> QED  BY <2>1, <2>2
<1>3. CASE g.sub = 2
  <2>1. h = NextLevel(g, v)
    BY <1>3 DEF UpdateLevel
  <2> QED  BY <1>2, <1>3, <2>1
<1>4. CASE g.sub # 2
  <2> DEFINE j == [g EXCEPT !.sub = @ + 1]
             k == NextLevelHandler(j)
  <2>1. [g EXCEPT !.sub = @ + 1] \in Stages /\ g.sub = 1
    <3>1. g.sub = 1
      BY <1>4 DEF Stages
    <3>2. [g EXCEPT !.sub = @ + 1] = [g EXCEPT !.sub = 2]
      BY <3>1 DEF Stages
    <3> QED  BY <3>1, <3>2 DEF Stages
  <2>2. k \in Stages /\ k.level = g.level /\ k.sub = 2
    <3>1. j.level = g.level /\ j.sub = 2
      BY <2>1 DEF Stages
    <3>2. j \in Stages
      BY <2>1
    <3> HIDE DEF j
    <3>3. k \in Stages
      BY <3>2 DEF NextLevelHandler, Stages
    <3>4. k.level = j.level /\ k.sub = j.sub
      BY <1>1, <3>2
    <3> QED  BY <3>1, <3>3, <3>4
  <2> HIDE DEF k
  <2>3. CASE v
    <3>1. h = NextLevel(k, v)
      BY <1>4, <2>3 DEF UpdateLevel, k
    <3> QED  BY <1>2, <2>2, <2>3, <3>1
  <2>4. CASE ~v
    <3>1. h = k
      BY <1>4, <2>4 DEF UpdateLevel, k
    <3> QED  BY <2>1, <2>2, <2>4, <3>1
  <2> QED  BY <2>3, <2>4
<1> QED  BY <1>3, <1>4 DEF Stages

(* A power-up counts at most one hundred up.                               *)
LEMMA OneLevelUp ==
  ASSUME NEW s \in Scores, NEW v \in BOOLEAN, LevelsUpPick(s)
  PROVE  ~LevelsUpPick(AddTenPickScore(s, v))
<1>1. AddTenPickScore(s, v).tens = 0
  <2>1. s.tens = 9 /\ s.huns # 9
    BY DEF LevelsUpPick
  <2> DEFINE t == [s EXCEPT !.tens = 0]
  <2>2. t \in Scores /\ t.tens = 0
    BY DEF Scores, Digit
  <2>3. AddTenPickScore(s, v) = IF Carries(t.huns, v) THEN AddThouToScore(t, v)
                                                     ELSE [t EXCEPT !.huns = @ + 1]
    BY <2>1 DEF AddTenPickScore, AddHunToScore
  <2> HIDE DEF t
  <2>4. [t EXCEPT !.huns = @ + 1].tens = 0
    BY <2>2 DEF Scores
  <2>5. AddThouToScore(t, v).tens = 0
    BY <2>2 DEF AddThouToScore, AddTThousToScore, Scores
  <2> QED  BY <2>3, <2>4, <2>5
<1> QED  BY <1>1 DEF LevelsUpPick

-----------------------------------------------------------------------------
(* The first two hundred points are the first level's.                     *)
Early(s) == s.huns <= 1 /\ s.thous = 0 /\ s.tthous = 0

Small(n) == n < 200

LEMMA SmallNumber ==
  ASSUME NEW a \in 0..9, NEW b \in 0..9, NEW c \in 0..9, NEW d \in 0..9, NEW e \in 0..9
  PROVE  Small(Number(a, b, c, d, e)) <=> c <= 1 /\ d = 0 /\ e = 0
<1>1. ASSUME Small(Number(a, b, c, d, e)) PROVE c <= 1 /\ d = 0 /\ e = 0
  <2>1. e = 0
    BY <1>1 DEF Number, Small
  <2>2. d = 0
    BY <1>1, <2>1 DEF Number, Small
  <2>3. c <= 1
    BY <1>1, <2>1, <2>2 DEF Number, Small
  <2> QED  BY <2>1, <2>2, <2>3
<1>2. ASSUME c <= 1, d = 0, e = 0 PROVE Small(Number(a, b, c, d, e))
  BY <1>2 DEF Number, Small
<1> QED  BY <1>1, <1>2

LEMMA EarlyTotal ==
  ASSUME NEW s \in Scores
  PROVE  Small(Total(s)) <=> Early(s)
<1>1. /\ s.ones \in 0..9 /\ s.tens \in 0..9
      /\ s.huns \in 0..9 /\ s.thous \in 0..9 /\ s.tthous \in 0..9
  BY DEF Scores, Digit
<1>2. Small(Number(s.ones, s.tens, s.huns, s.thous, s.tthous)) <=>
        s.huns <= 1 /\ s.thous = 0 /\ s.tthous = 0
  BY <1>1, SmallNumber, Zenon
<1> QED  BY <1>2, NumberOf DEF Early

LEMMA EarlyStage ==
  ASSUME NEW s \in Scores, NEW g \in Stages, InStep(s, g), Early(s)
  PROVE  g.level = 1
<1>1. Turns(s) \in 0..1
  BY TurnsDigits DEF Early
<1>2. g.level \in 1..3 /\ g.sub \in 1..2
  BY DEF Stages
<1> QED  BY <1>1, <1>2 DEF InStep, Rank

(* No call takes the score back to them, whatever the overflow flag, which *)
(* would carry a hundred counted up on into the thousands.                 *)
LEMMA EarlyHundred ==
  ASSUME NEW s \in Scores, NEW v \in BOOLEAN, Early(AddHunToScore(s, v))
  PROVE  Early(s) /\ ~v
<1>0. s.huns \in 0..9 /\ s.thous \in 0..9 /\ s.tthous \in 0..9
  BY DEF Scores, Digit
<1> DEFINE t == [s EXCEPT !.tens = 0]
           u == [t EXCEPT !.huns = 0]
           w == [u EXCEPT !.thous = 0]
<1>1. /\ t \in Scores /\ t.huns = s.huns /\ t.thous = s.thous /\ t.tthous = s.tthous
      /\ u \in Scores /\ u.thous = s.thous /\ u.tthous = s.tthous
      /\ w \in Scores /\ w.tthous = s.tthous
  <2>1. t \in Scores /\ t.huns = s.huns /\ t.thous = s.thous /\ t.tthous = s.tthous
    BY DEF Scores, Digit
  <2> HIDE DEF t
  <2>2. u \in Scores /\ u.thous = s.thous /\ u.tthous = s.tthous
    BY <2>1 DEF Scores, Digit
  <2> HIDE DEF u
  <2>3. w \in Scores /\ w.tthous = s.tthous
    BY <2>2 DEF Scores, Digit
  <2> QED  BY <2>1, <2>2, <2>3
<1>2. AddHunToScore(s, v) = IF Carries(t.huns, v) THEN AddThouToScore(t, v)
                                                  ELSE [t EXCEPT !.huns = @ + 1]
  BY DEF AddHunToScore
<1>3. AddThouToScore(t, v) = IF Carries(u.thous, v) THEN AddTThousToScore(u)
                                                    ELSE [u EXCEPT !.thous = @ + 1]
  BY DEF AddThouToScore
<1>4. AddTThousToScore(u) = IF w.tthous = 9 THEN w ELSE [w EXCEPT !.tthous = @ + 1]
  BY DEF AddTThousToScore
<1> HIDE DEF t, u, w
<1>5. AddTThousToScore(u).tthous # 0
  BY <1>0, <1>1, <1>4 DEF Scores
<1>6. [u EXCEPT !.thous = @ + 1].thous # 0
  BY <1>0, <1>1 DEF Scores
<1>7. ~Early(AddThouToScore(t, v))
  BY <1>3, <1>5, <1>6 DEF Early
<1>v. ~Carries(t.huns, v)
  BY <1>2, <1>7
<1>8. AddHunToScore(s, v) = [t EXCEPT !.huns = @ + 1]
  BY <1>2, <1>v
<1>9. /\ AddHunToScore(s, v).huns = s.huns + 1
      /\ AddHunToScore(s, v).thous = s.thous
      /\ AddHunToScore(s, v).tthous = s.tthous
  BY <1>1, <1>8 DEF Scores
<1> QED  BY <1>0, <1>v, <1>9 DEF Early, Carries

LEMMA EarlyBefore ==
  ASSUME NEW s \in Scores, NEW v \in BOOLEAN
  PROVE  /\ Early(AddOneToScore(s, v)) => Early(s)
         /\ Early(AddTenPickScore(s, v)) => Early(s)
<1> DEFINE t == [s EXCEPT !.ones = 0]
<1>1. t \in Scores /\ (Early(t) => Early(s)) /\ t.tens = s.tens
  BY DEF Scores, Digit, Early
<1>2. \A r \in Scores : Early([r EXCEPT !.tens = @ + 1]) => Early(r)
  BY DEF Scores, Early
<1>3. Early([s EXCEPT !.ones = @ + 1]) => Early(s)
  BY DEF Scores, Early
<1>4. Early(AddTenPickScore(s, v)) => Early(s)
  BY <1>2, EarlyHundred DEF AddTenPickScore
<1>5. Early(AddTenToScore(s, v)) => Early(s)
  <2>1. AddTenToScore(s, v) = IF Carries(t.tens, v) THEN AddHunToScore(t, v)
                                                    ELSE [t EXCEPT !.tens = @ + 1]
    BY DEF AddTenToScore
  <2> HIDE DEF t
  <2> QED  BY <1>1, <1>2, <2>1, EarlyHundred
<1>6. Early(AddOneToScore(s, v)) => Early(s)
  BY <1>3, <1>5 DEF AddOneToScore
<1> QED  BY <1>4, <1>6

(* A power-up taken in them counts right whatever the flag: a carry into   *)
(* the hundreds with the flag set leads out of them.                       *)
LEMMA EarlyTen ==
  ASSUME NEW s \in Scores, NEW v \in BOOLEAN, Early(AddTenPickScore(s, v))
  PROVE  /\ AddTenPickScore(s, v) = AddTenPickScore(s, FALSE)
         /\ LevelsUpPick(s) => v = FALSE
<1>1. CASE s.tens # 9
  BY <1>1 DEF AddTenPickScore, LevelsUpPick
<1>2. CASE s.tens = 9
  <2>1. ~v
    BY <1>2, EarlyHundred DEF AddTenPickScore
  <2> QED  BY <2>1
<1> QED  BY <1>1, <1>2

LEMMA EarlyReward ==
  ASSUME score \in Scores, stage \in Stages, NEW v \in BOOLEAN, Pickup(v),
         Early(score'), InStep(score, stage)
  PROVE  /\ InStep(score', stage')
         /\ stage' = stage \/ stage' = UpdateLevel(stage, FALSE)
<1> DEFINE once == AddTenPickScore(score, FALSE)
           lev  == IF LevelsUpPick(score) THEN UpdateLevel(stage, FALSE) ELSE stage
<1>1. /\ AddTenPickScore(score, v) \in Scores
      /\ score' = AddTenPickScore(AddTenPickScore(score, v), v)
  BY CarryDigits DEF Pickup
<1>2. Early(AddTenPickScore(score, v))
  BY <1>1, EarlyBefore
<1>3. AddTenPickScore(score, v) = once /\ (LevelsUpPick(score) => v = FALSE)
  BY <1>2, EarlyTen
<1>4. score' = AddTenPickScore(once, FALSE) /\ (LevelsUpPick(once) => v = FALSE)
  BY <1>1, <1>3, EarlyTen
<1>5. stage' = IF LevelsUpPick(once) THEN UpdateLevel(lev, FALSE) ELSE lev
  BY <1>3, <1>4 DEF Pickup
<1>6. once \in Scores /\ UpdateLevel(stage, FALSE) \in Stages
  BY FALSE \in BOOLEAN, CarryDigits, LevelStages
<1>7. InStep(once, lev)
  BY PickInStep
<1>8. LevelsUpPick(score) => ~LevelsUpPick(once)
  BY FALSE \in BOOLEAN, OneLevelUp
<1>9. stage' = stage \/ stage' = UpdateLevel(stage, FALSE)
  BY <1>5, <1>8
<1>10. lev \in Stages
  BY <1>6
<1> HIDE DEF once, lev
<1>11. InStep(AddTenPickScore(once, FALSE),
              IF LevelsUpPick(once) THEN UpdateLevel(lev, FALSE) ELSE lev)
  BY <1>6, <1>7, <1>10, PickInStep
<1> QED  BY <1>4, <1>5, <1>9, <1>11
=============================================================================

------------------------------- MODULE Tunnel -------------------------------
(***************************************************************************)
(* The scrolling tunnel.  For every column of the screen the game keeps    *)
(* the row where the upper corridor begins (topset) and the first row      *)
(* below it (emptyset); the lower half of the screen is their mirror       *)
(* image.  Every frame updatedata moves all columns one to the left, and   *)
(* every second or third frame algomain draws a new column at the right    *)
(* edge, where the roof goes on up or down as drawDirection says.          *)
(*                                                                         *)
(* drawDirection was a flag; the code now counts it up where it means      *)
(* "down" and counts it down where it means "up" (the stores of 1 and 0    *)
(* are commented out), so that only a value of exactly 1 draws downward.   *)
(***************************************************************************)
EXTENDS Corridor

CONSTANTS
  Width,      \* columns on the screen, 22 in the game
  Overflows,  \* the values the overflow flag may have when a routine starts
  Levels,     \* bound: the levels the score gets to
  MaxDrift    \* bound: how far drawDirection may be from the flag it was

ASSUME TunnelAssumption ==
  /\ Width \in Nat /\ Width >= 2
  /\ Overflows \subseteq BOOLEAN
  /\ MaxDrift \in Nat

VARIABLES
  topset,         \* per column, the first row of the upper corridor
  emptyset,       \* per column, the first row of rock below it
  drawDirection,  \* 1 for down, anything else for up
  upFlag,         \* frames since the last new column
  currLevel, currSubLevel

tunnel == <<topset, emptyset, drawDirection, upFlag>>
stage == <<currLevel, currSubLevel>>
vars == <<tunnel, stage>>

Last == Width - 1
Columns == 0..Last

-----------------------------------------------------------------------------
(* Drawing a column.  The generators read column $14 after the shift, which *)
(* is the old right edge.                                                   *)

(* Mutated form: the roof turns up a row too late.                         *)
SteerLate(t, lo, hi, v) ==
  CASE Below(t, lo)                       -> Wrap(drawDirection + 1)
    [] ~Below(t, lo) /\ Below(t, hi + 1)  -> drawDirection
    [] ~Below(t, lo) /\ ~Below(t, hi + 1) -> Wrap(drawDirection - 1)

(* Mutated form: the roof never turns down.                                *)
SteerUp(t, lo, hi, v) == IF Below(t, hi) THEN drawDirection ELSE Wrap(drawDirection - 1)

(* Which way to go from a roof at row t.  INC and DEC leave the overflow   *)
(* flag alone, and with v set each BVC falls into the next label.          *)
Steer(t, lo, hi, v) ==
  CASE Below(t, lo)                   -> IF v THEN drawDirection
                                              ELSE Wrap(drawDirection + 1)
    [] ~Below(t, lo) /\ Below(t, hi)  -> drawDirection
    [] ~Below(t, lo) /\ ~Below(t, hi) -> Wrap(drawDirection - 1)

Column(top, height) == [top |-> top, empty |-> Wrap(top + height)]

(* Mutated form: an upward floor is drawn at the old roof.                 *)
SteadyColumnFlat(t, d) ==
  IF d = 1 THEN Column(Wrap(t + currSubLevel), 6)
           ELSE [top |-> Wrap(t - currSubLevel), empty |-> t]

(* Level 1: one row per column in the first sub-level, two in the second;  *)
(* a corridor of six rows.  An upward roof whose floor overflows is drawn  *)
(* again, downward.                                                        *)
SteadyColumn(t, d) ==
  LET up == Wrap(t - currSubLevel)
  IN  CASE d = 1                          -> Column(Wrap(t + currSubLevel), 6)
        [] d # 1 /\ AddOverflows(up, 6)   -> Column(Wrap(up + currSubLevel), 6)
        [] d # 1 /\ ~AddOverflows(up, 6)  -> Column(up, 6)

(* Level 2: the slope and the height vary by a random bit each.  A floor   *)
(* six rows away that overflows is drawn again, five rows away.            *)
RoughHeight(top, bit) == IF bit = 1 \/ AddOverflows(top, 6) THEN 5 ELSE 6

RoughDown(t) ==
  { Column(top, RoughHeight(top, bit)) :
      top \in {Wrap(t + currSubLevel + b) : b \in 0..1}, bit \in 0..1 }

RoughUp(t) ==
  UNION { IF AddOverflows(up, 5)
          THEN RoughDown(up)
          ELSE {Column(up, RoughHeight(up, bit)) : bit \in 0..1} :
            up \in {Wrap(t - currSubLevel - b) : b \in 0..1} }

RoughColumns(t, d) == IF d = 1 THEN RoughDown(t) ELSE RoughUp(t)

(* Level 3: one row at a time, and no rock between the two corridors.      *)
OpenColumn(t, d) == [top |-> Wrap(IF d = 1 THEN t + 1 ELSE t - 1), empty |-> 13]

-----------------------------------------------------------------------------
(* Mutated form: the loop ends one column early.                           *)
ShiftShort(set) == [c \in Columns |-> IF c >= Last - 1 THEN set[c] ELSE set[c + 1]]

Shift(set) == [c \in Columns |-> IF c = Last THEN set[c] ELSE set[c + 1]]

(* Mutated form: the floors are not moved.                                 *)
DrawRoofOnly(column) ==
  /\ topset' = [Shift(topset) EXCEPT ![Last] = column.top]
  /\ emptyset' = [emptyset EXCEPT ![Last] = column.empty]

Draw(column) ==
  /\ topset' = [Shift(topset) EXCEPT ![Last] = column.top]
  /\ emptyset' = [Shift(emptyset) EXCEPT ![Last] = column.empty]

Steered(lo, hi, v) == drawDirection' = Steer(topset[Last], lo, hi, v)

algo1(v) ==
  /\ Steered(2, 7, v)
  /\ Draw(SteadyColumn(topset[Last], drawDirection'))

algo2(v) ==
  /\ Steered(2, 8, v)
  /\ \E column \in RoughColumns(topset[Last], drawDirection') : Draw(column)

(* The limits are computed with ADC, so the overflow flag is clear here.   *)
algo3 ==
  /\ Steered(2 * currSubLevel + 3, 2 * currSubLevel + 4, FALSE)
  /\ Draw(OpenColumn(topset[Last], drawDirection'))

-----------------------------------------------------------------------------
Init ==
  /\ topset = [c \in Columns |-> 2]
  /\ emptyset = [c \in Columns |-> 7]
  /\ drawDirection = 1
  /\ upFlag = 0
  /\ currLevel = 1 /\ currSubLevel = 1

Drifted == Signed(drawDirection) \notin -MaxDrift..(1 + MaxDrift)

(* Mutated form: the frames are counted past the third.                    *)
noUpdateLate ==
  /\ upFlag' = upFlag + 1
  /\ topset' = Shift(topset) /\ emptyset' = Shift(emptyset)
  /\ UNCHANGED <<drawDirection, stage>>

(* updatedata on a frame without a new column. *)
noUpdate ==
  /\ upFlag < 2
  /\ upFlag' = upFlag + 1
  /\ topset' = Shift(topset) /\ emptyset' = Shift(emptyset)
  /\ UNCHANGED <<drawDirection, stage>>

(* updatedata on a frame with one.  algo1 is called and returns into the   *)
(* tests of the other levels, which count the flag up once more; the other *)
(* two are jumped to.                                                      *)
NewColumn(v) ==
  /\ upFlag = 2 /\ ~Drifted
  /\ \/ currLevel = 1 /\ algo1(v) /\ upFlag' = 1
     \/ currLevel = 2 /\ algo2(v) /\ upFlag' = 0
     \/ currLevel = 3 /\ algo3    /\ upFlag' = 0
  /\ UNCHANGED stage

(* updateLevel, whenever the score gets to another hundred.  With the       *)
(* overflow flag set its BVCs fall through to the start of the game.       *)
updateLevel(v) ==
  /\ \/ ~v /\ currSubLevel = 1 /\ currSubLevel' = 2 /\ UNCHANGED currLevel
     \/ /\ ~v /\ currSubLevel = 2 /\ currSubLevel' = 1
        /\ currLevel' = IF currLevel = 3 THEN 1 ELSE currLevel + 1
     \/ v /\ currSubLevel' = 1 /\ currLevel' = 1
  /\ currLevel' \in Levels
  /\ UNCHANGED tunnel

Next ==
  \/ noUpdate
  \/ \E v \in Overflows : NewColumn(v) \/ updateLevel(v)

Spec == Init /\ [][Next]_vars

-----------------------------------------------------------------------------
TypeOK ==
  /\ topset \in [Columns -> Byte]
  /\ emptyset \in [Columns -> Byte]
  /\ drawDirection \in Byte
  /\ upFlag \in 0..2
  /\ currLevel \in 1..3 /\ currSubLevel \in 1..2

(* The two arrays are shifted and drawn apart from each other and meet     *)
(* again in every test and every picture: in each column the floor is five *)
(* or six rows below the roof, or at row 13 where level 3 drew it.  It     *)
(* holds in every level, whatever the overflow flag makes of the branches. *)
InBounds(t, e) == e = 13 \/ Wrap(e - t) \in {5, 6}

Corridors == \A c \in Columns : InBounds(topset[c], emptyset[c])

(* A roof never jumps: from one column to the next it moves by at most     *)
(* three rows, however the generators are entered and left.                *)
Step(t, u) == Signed(Wrap(u - t)) \in -3..3

Slopes == \A c \in 0..(Last - 1) : Step(topset[c], topset[c + 1])

(* The rows of a column that hitdetect lets the ship pass. *)
OpenRows(c) == {y \in 0..21 : Open(topset[c], emptyset[c], y)}

(* In the first level, entered without a pending overflow, the roof turns  *)
(* before it leaves the screen and the ship can always get through: two    *)
(* neighbouring columns have open rows in common, in both halves.          *)
Passable ==
  \A c \in 0..(Last - 1) :
    /\ OpenRows(c) \cap OpenRows(c + 1) \cap 0..10 # {}
    /\ OpenRows(c) \cap OpenRows(c + 1) \cap 11..21 # {}

(* Why it does: the direction has kept the two values of the flag it was,  *)
(* and the roof turns at rows 2 and 7, at most one step of the sub-level   *)
(* further out.                                                            *)
Band ==
  LET t == topset[Last]
  IN  /\ drawDirection \in 0..1
      /\ \A c \in Columns : topset[c] \in 0..8
      /\ currSubLevel = 1 => t \in 1..7
      /\ t < 2 => drawDirection = 0
      /\ t >= 7 => drawDirection = 1

(* "up either 1 or 2 until roof, then down" (the comment of algo1, "same   *)
(* as algorithm1" that of algo2): a column drawn after one at the roof is  *)
(* lower than it.                                                          *)
DownFromRoof ==
  [][ (upFlag' < upFlag /\ Signed(topset[Last]) < 2)
        => Signed(topset'[Last]) > Signed(topset[Last]) ]_vars
=============================================================================

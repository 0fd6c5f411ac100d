---------------------------- MODULE TunnelProofs ----------------------------
(***************************************************************************)
(* Theorems about the tunnel, for every width of the screen.               *)
(***************************************************************************)
EXTENDS Tunnel, TLAPS

-----------------------------------------------------------------------------
(* Byte arithmetic.                                                        *)

(* A wrapped number is a byte, and a whole turn away from what it wraps.   *)
LEMMA WrapIs ==
  ASSUME NEW n \in Int
  PROVE  /\ Wrap(n) \in Byte
         /\ n \in Byte => Wrap(n) = n
         /\ n \in -256..-1 => Wrap(n) = n + 256
         /\ n \in 256..511 => Wrap(n) = n - 256
BY DEF Wrap, Byte

(* Wrapping half way through a sum makes no difference.                    *)
LEMMA WrapTwice ==
  ASSUME NEW a \in Int, NEW k \in Int
  PROVE  Wrap(Wrap(a) + k) = Wrap(a + k)
BY DEF Wrap

(* Three rows up or down, wrapped or not, is a step.                       *)
LEMMA SmallStep ==
  ASSUME NEW t \in Byte, NEW k \in -3..3
  PROVE  Step(t, Wrap(t + k))
<1>1. t \in 0..255 /\ t + k \in -3..258
  BY DEF Byte
<1>2. Wrap(t + k) \in {t + k, t + k + 256, t + k - 256}
  BY <1>1, WrapIs DEF Byte
<1>3. Wrap(Wrap(t + k) - t) = Wrap(k)
  <2>1. Wrap(t + k) - t \in {k, k + 256, k - 256}  BY <1>1, <1>2
  <2> QED  BY <2>1 DEF Wrap
<1>4. Wrap(k) = IF k < 0 THEN k + 256 ELSE k
  BY DEF Wrap
<1>5. Signed(Wrap(k)) = k
  BY <1>4 DEF Signed
<1> QED  BY <1>3, <1>5 DEF Step

-----------------------------------------------------------------------------
(* The three generators.                                                   *)

(* What is asked of a new column next to a roof at t.                      *)
Fits(t, column) ==
  /\ column.top \in Byte /\ column.empty \in Byte
  /\ Step(t, column.top)
  /\ InBounds(column.top, column.empty)

LEMMA ColumnFits ==
  ASSUME NEW t \in Byte, NEW k \in -3..3, NEW h \in {5, 6}
  PROVE  Fits(t, Column(Wrap(t + k), h))
<1> DEFINE top == Wrap(t + k)
<1>0. t + k \in Int
  BY DEF Byte
<1>1. top \in Byte /\ Step(t, top)
  BY <1>0, WrapIs, SmallStep
<1>2. Wrap(top + h) \in Byte
  BY <1>1, WrapIs DEF Byte
<1>3. Wrap(Wrap(top + h) - top) = h
  <2>1. Wrap(top + h) = top + h \/ Wrap(top + h) = top + h - 256
    BY <1>1, WrapIs DEF Byte
  <2> HIDE DEF top
  <2>2. Wrap(top + h) - top = h \/ Wrap(top + h) - top = h - 256
    BY <1>1, <2>1 DEF Byte
  <2> QED  BY <2>2 DEF Wrap
<1> HIDE DEF top
<1>4. Fits(t, Column(top, h))
  BY <1>1, <1>2, <1>3 DEF Fits, InBounds, Column
<1> QED  BY <1>4 DEF top

LEMMA SteadyFits ==
  ASSUME NEW t \in Byte, NEW d, currSubLevel \in 1..2
  PROVE  Fits(t, SteadyColumn(t, d))
<1> DEFINE up == Wrap(t - currSubLevel)
<1>0. currSubLevel \in -3..3 /\ -currSubLevel \in -3..3 /\ 0 \in -3..3
      /\ t \in Int
  BY DEF Byte
<1>1. CASE d = 1
  BY <1>0, <1>1, ColumnFits DEF SteadyColumn
<1>2. CASE d # 1 /\ AddOverflows(up, 6)
  <2>1. Wrap(up + currSubLevel) = Wrap(t + 0)
    <3>1. t - currSubLevel \in Int  BY <1>0
    <3>2. Wrap(up + currSubLevel) = Wrap(t - currSubLevel + currSubLevel)
      BY <1>0, <3>1, WrapTwice
    <3>3. t - currSubLevel + currSubLevel = t + 0  BY <1>0
    <3> QED  BY <3>2, <3>3
  <2> QED  BY <1>0, <1>2, <2>1, ColumnFits DEF SteadyColumn
<1>3. CASE d # 1 /\ ~AddOverflows(up, 6)
  <2>1. t - currSubLevel = t + (-currSubLevel)  BY <1>0
  <2> QED  BY <1>0, <1>3, <2>1, ColumnFits DEF SteadyColumn
<1> QED  BY <1>1, <1>2, <1>3

LEMMA RoughHeights ==
  ASSUME NEW top, NEW bit
  PROVE  RoughHeight(top, bit) \in {5, 6}
BY DEF RoughHeight

LEMMA RoughFits ==
  ASSUME NEW t \in Byte, NEW d, currSubLevel \in 1..2,
         NEW column \in RoughColumns(t, d)
  PROVE  Fits(t, column)
<1>0. t \in Int /\ currSubLevel \in Int
  BY DEF Byte
<1>1. CASE d = 1
  <2>1. PICK b \in 0..1, bit \in 0..1 :
          column = Column(Wrap(t + currSubLevel + b),
                          RoughHeight(Wrap(t + currSubLevel + b), bit))
    BY <1>1 DEF RoughColumns, RoughDown
  <2>2. t + currSubLevel + b = t + (currSubLevel + b) /\ currSubLevel + b \in -3..3
    BY <1>0
  <2> QED  BY <2>1, <2>2, ColumnFits, RoughHeights
<1>2. CASE d # 1
  <2>1. PICK b \in 0..1 :
          column \in LET up == Wrap(t - currSubLevel - b)
                     IN  IF AddOverflows(up, 5)
                         THEN RoughDown(up)
                         ELSE {Column(up, RoughHeight(up, bit)) : bit \in 0..1}
    BY <1>2 DEF RoughColumns, RoughUp
  <2> DEFINE up == Wrap(t - currSubLevel - b)
  <2>2. CASE AddOverflows(up, 5)
    <3>1. PICK b2 \in 0..1, bit \in 0..1 :
            column = Column(Wrap(up + currSubLevel + b2),
                            RoughHeight(Wrap(up + currSubLevel + b2), bit))
      BY <2>1, <2>2 DEF RoughDown
    <3>2. Wrap(up + currSubLevel + b2) = Wrap(t + (b2 - b))
      <4>1. up \in Int  BY <1>0, WrapIs DEF Byte
      <4>2. up + currSubLevel + b2 = up + (currSubLevel + b2)  BY <1>0, <4>1
      <4>3. Wrap(up + (currSubLevel + b2))
              = Wrap((t - currSubLevel - b) + (currSubLevel + b2))
        BY <1>0, WrapTwice
      <4>4. (t - currSubLevel - b) + (currSubLevel + b2) = t + (b2 - b)
        BY <1>0
      <4> QED  BY <4>2, <4>3, <4>4
    <3>3. b2 - b \in -3..3  OBVIOUS
    <3> QED  BY <3>1, <3>2, <3>3, ColumnFits, RoughHeights
  <2>3. CASE ~AddOverflows(up, 5)
    <3>1. PICK bit \in 0..1 : column = Column(up, RoughHeight(up, bit))
      BY <2>1, <2>3
    <3>2. t - currSubLevel - b = t + (-currSubLevel - b) /\ -currSubLevel - b \in -3..3
      BY <1>0
    <3> QED  BY <3>1, <3>2, ColumnFits, RoughHeights
  <2> QED  BY <2>2, <2>3
<1> QED  BY <1>1, <1>2

LEMMA OpenFits ==
  ASSUME NEW t \in Byte, NEW d
  PROVE  Fits(t, OpenColumn(t, d))
<1>0. t \in Int /\ 13 \in Byte /\ 1 \in -3..3 /\ -1 \in -3..3
  BY DEF Byte
<1>1. t - 1 = t + (-1)
  BY <1>0
<1>2. /\ Wrap(t + 1) \in Byte /\ Step(t, Wrap(t + 1))
      /\ Wrap(t - 1) \in Byte /\ Step(t, Wrap(t - 1))
  BY <1>0, <1>1, WrapIs, SmallStep
<1> QED  BY <1>0, <1>2 DEF Fits, OpenColumn, InBounds

-----------------------------------------------------------------------------
(* One frame.                                                              *)

(* The invariant of every level: bytes, floors and slopes.                 *)
IInv == TypeOK /\ Corridors /\ Slopes

LEMMA Edges == Last \in Nat /\ Last >= 1 /\ Last \in Columns /\ Last - 1 \in Columns
BY TunnelAssumption DEF Last, Columns

(* The arrays after a frame: all columns but the last have moved up.       *)
LEMMA ColumnsMove ==
  ASSUME NEW column, NEW c \in Columns,
         topset' = [Shift(topset) EXCEPT ![Last] = column.top],
         emptyset' = [Shift(emptyset) EXCEPT ![Last] = column.empty]
  PROVE  /\ c = Last => topset'[c] = column.top /\ emptyset'[c] = column.empty
         /\ c # Last => /\ c + 1 \in Columns
                        /\ topset'[c] = topset[c + 1]
                        /\ emptyset'[c] = emptyset[c + 1]
<1>1. c # Last => c + 1 \in Columns
  BY Edges DEF Columns
<1> QED  BY <1>1 DEF Shift

(* If the last one fits the old last one, the arrays keep the invariant.   *)
LEMMA FrameKeeps ==
  ASSUME IInv, NEW column, Fits(topset[Last], column),
         topset' = [Shift(topset) EXCEPT ![Last] = column.top],
         emptyset' = [Shift(emptyset) EXCEPT ![Last] = column.empty]
  PROVE  /\ topset' \in [Columns -> Byte] /\ emptyset' \in [Columns -> Byte]
         /\ Corridors' /\ Slopes'
<1>1. ASSUME NEW c \in Columns
      PROVE  /\ c = Last => topset'[c] = column.top /\ emptyset'[c] = column.empty
             /\ c # Last => /\ c + 1 \in Columns
                            /\ topset'[c] = topset[c + 1]
                            /\ emptyset'[c] = emptyset[c + 1]
  BY ColumnsMove
<1>2. topset \in [Columns -> Byte] /\ emptyset \in [Columns -> Byte]
  BY DEF IInv, TypeOK
<1>3. topset' \in [Columns -> Byte]
  <2>1. \A c \in Columns : topset'[c] \in Byte
    BY <1>1, <1>2 DEF Fits
  <2> QED  BY <2>1 DEF Shift
<1>4. emptyset' \in [Columns -> Byte]
  <2>1. \A c \in Columns : emptyset'[c] \in Byte
    BY <1>1, <1>2 DEF Fits
  <2> QED  BY <2>1 DEF Shift
<1>5. Corridors'
  <2> SUFFICES ASSUME NEW c \in Columns PROVE InBounds(topset'[c], emptyset'[c])
    BY DEF Corridors
  <2>1. CASE c = Last  BY <1>1, <2>1 DEF Fits
  <2>2. CASE c # Last  BY <1>1, <2>2 DEF IInv, Corridors
  <2> QED  BY <2>1, <2>2
<1>6. Slopes'
  <2> SUFFICES ASSUME NEW c \in 0..(Last - 1) PROVE Step(topset'[c], topset'[c + 1])
    BY DEF Slopes, Last
  <2>1. c \in Columns /\ c # Last /\ c + 1 \in Columns
    BY Edges DEF Columns
  <2>2. topset'[c] = topset[c + 1]
    BY <1>1, <2>1
  <2>3. CASE c + 1 = Last
    BY <1>1, <2>1, <2>2, <2>3 DEF Fits
  <2>4. CASE c + 1 # Last
    <3>1. topset'[c + 1] = topset[(c + 1) + 1]  BY <1>1, <2>1, <2>4
    <3>2. c + 1 \in 0..(Last - 1)  BY <2>4, Edges
    <3> QED  BY <2>2, <3>1, <3>2 DEF IInv, Slopes
  <2> QED  BY <2>3, <2>4
<1> QED  BY <1>3, <1>4, <1>5, <1>6

(* A frame without a new column repeats the last one.                      *)
LEMMA HoldKeeps ==
  ASSUME IInv, noUpdate
  PROVE  IInv'
<1> DEFINE column == [top |-> topset[Last], empty |-> emptyset[Last]]
<1>1. topset[Last] \in Byte /\ emptyset[Last] \in Byte
  BY Edges DEF IInv, TypeOK
<1>2. Fits(topset[Last], column)
  <2>1. Step(topset[Last], topset[Last])
    <3>1. topset[Last] - topset[Last] = 0  BY <1>1 DEF Byte
    <3> QED  BY <3>1 DEF Step, Signed, Wrap
  <2>2. InBounds(topset[Last], emptyset[Last])
    BY Edges DEF IInv, Corridors
  <2> QED  BY <1>1, <2>1, <2>2 DEF Fits
<1>3. /\ Shift(topset) = [Shift(topset) EXCEPT ![Last] = column.top]
      /\ Shift(emptyset) = [Shift(emptyset) EXCEPT ![Last] = column.empty]
  BY DEF Shift
<1>4. /\ topset' \in [Columns -> Byte] /\ emptyset' \in [Columns -> Byte]
      /\ Corridors' /\ Slopes'
  BY <1>2, <1>3, FrameKeeps DEF noUpdate
<1> QED  BY <1>4 DEF IInv, TypeOK, noUpdate, stage

LEMMA SteerByte ==
  ASSUME NEW t, NEW lo, NEW hi, NEW v \in BOOLEAN, drawDirection \in Byte
  PROVE  Steer(t, lo, hi, v) \in Byte
<1>0. drawDirection + 1 \in Int /\ drawDirection - 1 \in Int
  BY DEF Byte
<1>1. /\ Wrap(drawDirection + 1) \in Byte
      /\ Wrap(drawDirection - 1) \in Byte
  BY <1>0, WrapIs
<1>2. CASE Below(t, lo)  BY <1>1, <1>2 DEF Steer
<1>3. CASE ~Below(t, lo) /\ Below(t, hi)  BY <1>3 DEF Steer
<1>4. CASE ~Below(t, lo) /\ ~Below(t, hi)  BY <1>1, <1>4 DEF Steer
<1> QED  BY <1>2, <1>3, <1>4

LEMMA NewColumnKeeps ==
  ASSUME IInv, NEW v \in BOOLEAN, NewColumn(v)
  PROVE  IInv'
<1> DEFINE t == topset[Last]
<1>0. t \in Byte /\ drawDirection \in Byte /\ currSubLevel \in 1..2
  BY Edges DEF IInv, TypeOK
<1>1. drawDirection' \in Byte
  BY <1>0, SteerByte DEF NewColumn, algo1, algo2, algo3, Steered
<1>2. PICK column : Fits(t, column) /\ Draw(column)
  <2>1. CASE currLevel = 1 /\ algo1(v)  BY <1>0, <2>1, SteadyFits DEF algo1
  <2>2. CASE currLevel = 2 /\ algo2(v)  BY <1>0, <2>2, RoughFits DEF algo2
  <2>3. CASE currLevel = 3 /\ algo3  BY <1>0, <2>3, OpenFits DEF algo3
  <2> QED  BY <2>1, <2>2, <2>3 DEF NewColumn
<1>3. /\ topset' \in [Columns -> Byte] /\ emptyset' \in [Columns -> Byte]
      /\ Corridors' /\ Slopes'
  BY <1>2, FrameKeeps DEF Draw
<1>4. upFlag' \in 0..2
  BY DEF NewColumn
<1> QED  BY <1>1, <1>3, <1>4 DEF IInv, TypeOK, NewColumn, stage

(* One step, in any level and with any overflow pending.                   *)
LEMMA Holds ==
  ASSUME IInv, [Next]_vars
  PROVE  IInv'
<1>1. CASE noUpdate  BY <1>1, HoldKeeps
<1>2. ASSUME NEW v \in Overflows, NewColumn(v) PROVE IInv'
  BY <1>2, TunnelAssumption, NewColumnKeeps
<1>3. ASSUME NEW v \in Overflows, updateLevel(v) PROVE IInv'
  BY <1>3 DEF updateLevel, IInv, TypeOK, Corridors, Slopes, tunnel
<1>4. CASE UNCHANGED vars
  BY <1>4 DEF vars, tunnel, stage, IInv, TypeOK, Corridors, Slopes
<1> QED  BY <1>1, <1>2, <1>3, <1>4 DEF Next

(* In every level, with every pending overflow and for every width: rows   *)
(* are bytes, floors are under their roofs and roofs do not jump.          *)
THEOREM TunnelHolds == Spec => [](TypeOK /\ Corridors /\ Slopes)
<1>1. Init => IInv
  <2> SUFFICES ASSUME Init PROVE IInv
    OBVIOUS
  <2>1. TypeOK  BY DEF Init, TypeOK, Byte
  <2>2. Corridors  BY DEF Init, Corridors, InBounds, Wrap
  <2>3. Slopes
    <3> SUFFICES ASSUME NEW c \in 0..(Last - 1) PROVE Step(topset[c], topset[c + 1])
      BY DEF Slopes
    <3>1. topset[c] = 2 /\ topset[c + 1] = 2  BY Edges DEF Init, Columns
    <3> QED  BY <3>1 DEF Step, Signed, Wrap
  <2> QED  BY <2>1, <2>2, <2>3 DEF IInv
<1>2. IInv /\ [Next]_vars => IInv'
  BY Holds
<1>3. IInv => TypeOK /\ Corridors /\ Slopes
  BY DEF IInv
<1> QED  BY <1>1, <1>2, <1>3, PTL DEF Spec

-----------------------------------------------------------------------------
(* The first level, with no overflow pending.                              *)

(* On rows of the screen a comparison with BMI is the order of the rows.   *)
LEMMA BelowIsLess ==
  ASSUME NEW a \in -20..40, NEW b \in -20..40
  PROVE  Below(a, b) <=> a < b
<1>1. a - b \in -60..60 /\ (a - b < 0 <=> a < b)
  OBVIOUS
<1>2. Wrap(a - b) = IF a - b < 0 THEN a - b + 256 ELSE a - b
  BY <1>1 DEF Wrap
<1> QED  BY <1>1, <1>2 DEF Below

(* The zig-zag: from a roof in the band the next one is in the band, and   *)
(* the direction is right for it.  An overflow makes a difference in the   *)
(* uppermost rows only.                                                    *)
LEMMA ZigZag ==
  ASSUME IInv, Band, currLevel = 1, NEW v \in BOOLEAN, ~v \/ topset[Last] >= 2, algo1(v)
  PROVE  /\ drawDirection' \in 0..1
         /\ topset'[Last] \in 0..8
         /\ currSubLevel = 1 => topset'[Last] \in 1..7
         /\ topset'[Last] < 2 => drawDirection' = 0
         /\ topset'[Last] >= 7 => drawDirection' = 1
         /\ topset[Last] < 2 => topset'[Last] > topset[Last]
         /\ topset[Last] >= 7 => topset'[Last] < 7
         /\ topset'[Last] \in {topset[Last] - currSubLevel, topset[Last] + currSubLevel}
         /\ emptyset'[Last] = topset'[Last] + 6
<1> DEFINE t == topset[Last]
           u == topset'[Last]
           sub == currSubLevel
           e == emptyset'[Last]
<1>0. t \in 0..8 /\ sub \in 1..2 /\ drawDirection \in 0..1
  BY Edges DEF IInv, TypeOK, Band
<1>1. u = SteadyColumn(t, drawDirection').top /\ e = SteadyColumn(t, drawDirection').empty
  <2>1. /\ Last \in Columns
        /\ Shift(topset) \in [Columns -> {Shift(topset)[c] : c \in Columns}]
        /\ Shift(emptyset) \in [Columns -> {Shift(emptyset)[c] : c \in Columns}]
    BY Edges DEF Shift
  <2> QED  BY <2>1 DEF algo1, Draw
<1>2. drawDirection' = 1 => u = t + sub /\ e = u + 6
  <2>1. Wrap(t + sub) = t + sub /\ Wrap(t + sub + 6) = t + sub + 6
    BY <1>0, WrapIs DEF Byte
  <2> QED  BY <1>1, <2>1 DEF SteadyColumn, Column
<1>3. drawDirection' # 1 /\ t >= sub => u = t - sub /\ e = u + 6
  <2> SUFFICES ASSUME drawDirection' # 1, t >= sub PROVE u = t - sub /\ e = u + 6
    OBVIOUS
  <2>1. Wrap(t - sub) = t - sub /\ Wrap(t - sub + 6) = t - sub + 6
    BY <1>0, WrapIs DEF Byte
  <2>2. ~AddOverflows(t - sub, 6)  BY <1>0 DEF AddOverflows, Signed
  <2> QED  BY <1>1, <2>1, <2>2 DEF SteadyColumn, Column
<1>4. drawDirection' = IF t < 2 THEN Wrap(drawDirection + 1)
                       ELSE IF t < 7 THEN drawDirection
                       ELSE Wrap(drawDirection - 1)
  <2>0. t < 2 => ~v
    BY <1>0
  <2>1. (Below(t, 2) <=> t < 2) /\ (Below(t, 7) <=> t < 7)
    <3>1. t \in -20..40 /\ 2 \in -20..40 /\ 7 \in -20..40  BY <1>0
    <3> HIDE DEF t
    <3> QED  BY <3>1, BelowIsLess
  <2> QED  BY <1>0, <2>0, <2>1 DEF algo1, Steered, Steer
<1>5. CASE t < 2
  <2>1. drawDirection = 0  BY <1>5 DEF Band
  <2>2. drawDirection' = 1  BY <1>4, <1>5, <2>1, WrapIs DEF Byte
  <2>3. sub = 1 => t = 1  BY <1>0, <1>5 DEF Band
  <2> QED  BY <1>0, <1>2, <1>5, <2>2, <2>3
<1>6. CASE t >= 7
  <2>1. drawDirection = 1  BY <1>6 DEF Band
  <2>2. drawDirection' = 0  BY <1>0, <1>4, <1>6, <2>1, WrapIs DEF Byte
  <2>3. sub = 1 => t = 7  BY <1>0, <1>6 DEF Band
  <2> QED  BY <1>0, <1>3, <1>6, <2>2, <2>3
<1>7. CASE t \in 2..6
  <2>1. drawDirection' = drawDirection  BY <1>4, <1>7
  <2>2. CASE drawDirection = 1  BY <1>0, <1>2, <1>7, <2>1, <2>2
  <2>3. CASE drawDirection = 0  BY <1>0, <1>3, <1>7, <2>1, <2>3
  <2> QED  BY <1>0, <2>2, <2>3
<1> QED  BY <1>0, <1>5, <1>6, <1>7

(* The floor under a roof of the band.                                     *)
LEMMA FloorIs ==
  ASSUME NEW r \in 0..8, NEW e \in Byte, InBounds(r, e)
  PROVE  e = 13 \/ e = r + 5 \/ e = r + 6
<1>1. e \in 0..255 /\ e - r \in Int
  BY DEF Byte
<1>2. Wrap(e - r) = IF e < r THEN e - r + 256 ELSE e - r
  BY <1>1 DEF Wrap
<1>3. CASE e < r
  <2>1. Wrap(e - r) > 6  BY <1>1, <1>2, <1>3
  <2> QED  BY <2>1 DEF InBounds
<1>4. CASE ~(e < r)
  BY <1>1, <1>2, <1>4 DEF InBounds
<1> QED  BY <1>3, <1>4

(* A row up to three below such a roof is open, and so is its mirror image *)
(* in the lower half.                                                      *)
LEMMA OpenBelowRoof ==
  ASSUME NEW r \in 0..8, NEW e, e = 13 \/ e = r + 5 \/ e = r + 6,
         NEW y \in 0..8, r <= y, y <= r + 3
  PROVE  Open(r, e, y) /\ Open(r, e, 21 - y)
<1>0. e \in 5..14 /\ y < e
  OBVIOUS
<1>1. Open(r, e, y)
  <2>0. y \in -20..40 /\ r \in -20..40 /\ e \in -20..40 /\ ~(y < r)
    BY <1>0
  <2>1. ~Below(y, r)  BY <2>0, BelowIsLess
  <2>2. Below(y, e)  BY <1>0, <2>0, BelowIsLess
  <2>3. InUpperHalf(y)
    <3>1. y \in -20..40 /\ 11 \in -20..40 /\ y < 11  OBVIOUS
    <3> QED  BY <3>1, BelowIsLess DEF InUpperHalf
  <2> QED  BY <2>1, <2>2, <2>3 DEF Open
<1>2. Open(r, e, 21 - y)
  <2>1. 21 - y - 11 = 10 - y /\ ~InUpperHalf(21 - y)
    <3>1. 21 - y \in -20..40 /\ 11 \in -20..40 /\ ~(21 - y < 11)  OBVIOUS
    <3>2. ~Below(21 - y, 11)  BY <3>1, BelowIsLess
    <3> QED  BY <3>2 DEF InUpperHalf
  <2>2. Below(10 - y, Wrap(11 - r))
    <3>1. Wrap(11 - r) = 11 - r  BY WrapIs DEF Byte
    <3>2. 10 - y \in -20..40 /\ 11 - r \in -20..40 /\ 10 - y < 11 - r
      OBVIOUS
    <3> QED  BY <3>1, <3>2, BelowIsLess
  <2>3. ~Below(10 - y, Wrap(11 - e))
    <3>1. (10 - y) - (11 - e) = e - y - 1 /\ e - y - 1 \in 0..13
      BY <1>0
    <3>2. Wrap(11 - e) = 11 - e \/ Wrap(11 - e) = 267 - e
      BY <1>0 DEF Wrap
    <3>3. (10 - y) - Wrap(11 - e) = e - y - 1 \/ (10 - y) - Wrap(11 - e) = e - y - 257
      BY <1>0, <3>2
    <3>4. Wrap((10 - y) - Wrap(11 - e)) = e - y - 1
      BY <1>0, <3>1, <3>3 DEF Wrap
    <3> QED  BY <3>1, <3>4 DEF Below
  <2> QED  BY <2>1, <2>2, <2>3 DEF Open
<1> QED  BY <1>1, <1>2

(* Two neighbouring columns of the band share the row where the lower roof *)
(* of the two begins, and its mirror image.                                *)
LEMMA BandPassable ==
  ASSUME IInv, \A c \in Columns : topset[c] \in 0..8
  PROVE  Passable
<1> SUFFICES ASSUME NEW c \in 0..(Last - 1)
             PROVE  /\ OpenRows(c) \cap OpenRows(c + 1) \cap 0..10 # {}
                    /\ OpenRows(c) \cap OpenRows(c + 1) \cap 11..21 # {}
  BY DEF Passable
<1> DEFINE t == topset[c]
           u == topset[c + 1]
           y == IF t < u THEN u ELSE t
<1>1. c \in Columns /\ c + 1 \in Columns
  BY Edges DEF Columns
<1>2. t \in 0..8 /\ u \in 0..8
  BY <1>1
<1>3. u - t \in -3..3
  <2>1. Signed(Wrap(u - t)) \in -3..3  BY DEF IInv, Slopes, Step
  <2>2. Wrap(u - t) = IF u < t THEN u - t + 256 ELSE u - t
    BY <1>2, WrapIs DEF Byte
  <2> QED  BY <1>2, <2>1, <2>2 DEF Signed
<1>4. y \in 0..8 /\ t <= y /\ u <= y /\ y <= t + 3 /\ y <= u + 3
  BY <1>2, <1>3
<1>5. ASSUME NEW d \in Columns, topset[d] <= y, y <= topset[d] + 3
      PROVE  y \in OpenRows(d) /\ 21 - y \in OpenRows(d)
  <2>1. topset[d] \in 0..8 /\ emptyset[d] \in Byte
        /\ InBounds(topset[d], emptyset[d])
    BY DEF IInv, TypeOK, Corridors
  <2>2. Open(topset[d], emptyset[d], y) /\ Open(topset[d], emptyset[d], 21 - y)
    BY <1>4, <1>5, <2>1, FloorIs, OpenBelowRoof
  <2> QED  BY <1>4, <2>2 DEF OpenRows
<1>6. /\ y \in OpenRows(c) /\ 21 - y \in OpenRows(c)
      /\ y \in OpenRows(c + 1) /\ 21 - y \in OpenRows(c + 1)
  BY <1>1, <1>4, <1>5
<1>7. y \in 0..10 /\ 21 - y \in 11..21
  BY <1>4
<1> QED  BY <1>6, <1>7

RoofTurnsDown ==
  upFlag' < upFlag /\ Signed(topset[Last]) < 2 => Signed(topset'[Last]) > Signed(topset[Last])

(* What a frame or a new hundred makes of the band while the first level   *)
(* lasts and no overflow is pending when a column is drawn at the roof.    *)
LEMMA BandStep ==
  ASSUME IInv, Band, currLevel = 1,
         \/ noUpdate
         \/ \E v \in BOOLEAN : (~v \/ topset[Last] >= 2) /\ NewColumn(v)
         \/ UNCHANGED tunnel /\ currSubLevel' \in {currSubLevel, 2}
  PROVE  Band' /\ RoofTurnsDown
<1>0. ASSUME NEW column,
             topset' = [Shift(topset) EXCEPT ![Last] = column.top],
             emptyset' = [Shift(emptyset) EXCEPT ![Last] = column.empty],
             column.top \in 0..8
      PROVE  \A c \in Columns : topset'[c] \in 0..8
  BY <1>0, ColumnsMove DEF Band
<1>1. CASE noUpdate
  <2> DEFINE column == [top |-> topset[Last], empty |-> emptyset[Last]]
  <2>1. /\ topset' = [Shift(topset) EXCEPT ![Last] = column.top]
        /\ emptyset' = [Shift(emptyset) EXCEPT ![Last] = column.empty]
    BY <1>1 DEF noUpdate, Shift
  <2>2. topset[Last] \in 0..8  BY Edges DEF Band
  <2>3. \A c \in Columns : topset'[c] \in 0..8
    BY <1>0, <2>1, <2>2
  <2>4. topset'[Last] = topset[Last]  BY <1>1, Edges DEF noUpdate, Shift
  <2>5. ~(upFlag' < upFlag)  BY <1>1 DEF noUpdate, IInv, TypeOK
  <2> QED  BY <1>1, <2>3, <2>4, <2>5 DEF noUpdate, Band, RoofTurnsDown, stage, Last
<1>2. ASSUME NEW v \in BOOLEAN, ~v \/ topset[Last] >= 2, NewColumn(v)
      PROVE  Band' /\ RoofTurnsDown
  <2>2. algo1(v) /\ UNCHANGED stage  BY <1>2 DEF NewColumn
  <2>3. PICK column : Draw(column)  BY <2>2 DEF algo1
  <2>4. topset'[Last] = column.top  BY <2>3, Edges, ColumnsMove DEF Draw
  <2>5. \A c \in Columns : topset'[c] \in 0..8
    BY <1>0, <1>2, <2>2, <2>3, <2>4, ZigZag DEF Draw
  <2>6. Band'
    BY <1>2, <2>2, <2>5, ZigZag DEF Band, stage, Last
  <2>7. topset[Last] \in 0..8 /\ topset'[Last] \in 0..8
    BY <1>2, <2>2, Edges, ZigZag DEF Band
  <2>8. Signed(topset[Last]) = topset[Last] /\ Signed(topset'[Last]) = topset'[Last]
    BY <2>7 DEF Signed
  <2> QED  BY <1>2, <2>2, <2>6, <2>8, ZigZag DEF RoofTurnsDown
<1>3. CASE UNCHANGED tunnel /\ currSubLevel' \in {currSubLevel, 2}
  <2>1. ~(upFlag' < upFlag)  BY <1>3 DEF tunnel, IInv, TypeOK
  <2> QED  BY <1>3, <2>1 DEF tunnel, Band, RoofTurnsDown, Last
<1> QED  BY <1>1, <1>2, <1>3

LEMMA FirstLevelStep ==
  ASSUME Levels = {1}, Overflows \subseteq {FALSE}, IInv, Band, currLevel = 1, [Next]_vars
  PROVE  Band' /\ currLevel' = 1 /\ RoofTurnsDown
<1>1. CASE noUpdate
  BY <1>1, BandStep DEF noUpdate, stage
<1>2. ASSUME NEW v \in Overflows, NewColumn(v)
      PROVE  (\E w \in BOOLEAN : (~w \/ topset[Last] >= 2) /\ NewColumn(w)) /\ currLevel' = 1
  BY <1>2 DEF NewColumn, stage
<1>3. ASSUME NEW v \in Overflows, updateLevel(v)
      PROVE  UNCHANGED tunnel /\ currSubLevel' \in {currSubLevel, 2} /\ currLevel' = 1
  <2>1. ~v  BY <1>3
  <2>2. currLevel' = 1 /\ currSubLevel' = 2  BY <1>3, <2>1 DEF updateLevel, IInv, TypeOK
  <2> QED  BY <1>3, <2>2 DEF updateLevel
<1>4. CASE UNCHANGED vars
  BY <1>4, BandStep DEF vars, stage
<1> QED  BY <1>1, <1>2, <1>3, <1>4, BandStep DEF Next

(* What a frame does there to the columns: they all move up, and the last  *)
(* one stays or is the next stroke of the zig-zag.                         *)
Moved ==
  \A c \in 0..(Last - 1) : topset'[c] = topset[c + 1] /\ emptyset'[c] = emptyset[c + 1]

LEMMA FrameMoves ==
  ASSUME IInv, Band, currLevel = 1, NEW v \in BOOLEAN, ~v \/ topset[Last] >= 2,
         noUpdate \/ NewColumn(v)
  PROVE  /\ Moved
         /\ \/ /\ upFlag \in 0..1 /\ upFlag' = upFlag + 1
               /\ topset'[Last] = topset[Last] /\ emptyset'[Last] = emptyset[Last]
            \/ /\ upFlag = 2 /\ upFlag' = 1
               /\ topset'[Last] \in {topset[Last] - currSubLevel, topset[Last] + currSubLevel}
               /\ topset[Last] >= 7 => topset'[Last] < 7
               /\ emptyset'[Last] = topset'[Last] + 6
<1>1. 0..(Last - 1) \subseteq Columns \ {Last} /\ Last \in Columns
  BY Edges DEF Columns
<1>2. CASE noUpdate
  <2>1. Moved /\ topset'[Last] = topset[Last] /\ emptyset'[Last] = emptyset[Last]
    BY <1>1, <1>2 DEF noUpdate, Shift, Moved
  <2> QED  BY <1>2, <2>1 DEF noUpdate, IInv, TypeOK
<1>3. CASE NewColumn(v)
  <2>1. algo1(v) /\ upFlag = 2 /\ upFlag' = 1
    BY <1>3 DEF NewColumn
  <2>2. PICK column : Draw(column)
    BY <2>1 DEF algo1
  <2>3. Moved
    BY <1>1, <2>2, ColumnsMove DEF Draw, Moved
  <2> QED  BY <2>1, <2>3, ZigZag
<1> QED  BY <1>2, <1>3

(* The rows around the middle of the lower corridor under such a roof.     *)
LEMMA OpenAround ==
  ASSUME NEW t \in 0..8, NEW e \in {t + 5, t + 6}, NEW k \in -2..2, e = t + 5 => k # -2
  PROVE  Open(t, e, 18 - t + k)
<1> DEFINE y == 18 - t + k
<1>0. y \in 8..20 /\ y + e \in 22..26 /\ y + t \in 16..20 /\ e \in 5..14
  OBVIOUS
<1> HIDE DEF y
<1>r. y \in -20..40 /\ t \in -20..40 /\ e \in -20..40 /\ 11 \in -20..40
  BY <1>0
<1>1. InUpperHalf(y) <=> y < 11
  BY <1>r, BelowIsLess DEF InUpperHalf
<1>2. CASE y < 11
  <2>1. ~(y < t) /\ y < e
    BY <1>0, <1>2
  <2>2. ~Below(y, t) /\ Below(y, e)
    BY <1>r, <2>1, BelowIsLess
  <2> QED  BY <1>1, <1>2, <2>2 DEF Open, y
<1>3. CASE ~(y < 11)
  <2>1. Below(y - 11, Wrap(11 - t))
    <3>1. Wrap(11 - t) = 11 - t  BY WrapIs DEF Byte
    <3>2. y - 11 \in -20..40 /\ 11 - t \in -20..40 /\ y - 11 < 11 - t
      BY <1>0, <1>3
    <3> QED  BY <3>1, <3>2, BelowIsLess
  <2>2. ~Below(y - 11, Wrap(11 - e))
    <3>1. Wrap(11 - e) = 11 - e \/ Wrap(11 - e) = 267 - e
      BY <1>0 DEF Wrap
    <3>2. (y - 11) - Wrap(11 - e) = y + e - 22 \/ (y - 11) - Wrap(11 - e) = y + e - 278
      BY <1>0, <3>1
    <3>3. Wrap((y - 11) - Wrap(11 - e)) = y + e - 22
      BY <1>0, <3>2 DEF Wrap
    <3> QED  BY <1>0, <3>3 DEF Below
  <2> QED  BY <1>1, <1>3, <2>1, <2>2 DEF Open, y
<1> QED  BY <1>2, <1>3

(* As long as the score stays in the first level and no overflow is        *)
(* pending, the roof zig-zags in its band and the ship can always get      *)
(* through, on a screen of any width.                                      *)
THEOREM FirstLevelPassable ==
  ASSUME Levels = {1}, Overflows \subseteq {FALSE}
  PROVE  Spec => [](Band /\ Passable)
<1>1. Init => Band /\ currLevel = 1
  BY Edges DEF Init, Band
<1>2. IInv /\ Band /\ currLevel = 1 /\ [Next]_vars => Band' /\ (currLevel = 1)'
  BY FirstLevelStep
<1>3. IInv /\ Band => Passable
  BY BandPassable DEF Band
<1>4. TypeOK /\ Corridors /\ Slopes <=> IInv
  BY DEF IInv
<1> QED  BY <1>1, <1>2, <1>3, <1>4, TunnelHolds, PTL DEF Spec

(* There, too, a column drawn after one at the roof is lower than it:      *)
(* algo1 does what its comment says, as algo2 does not.                    *)
THEOREM FirstLevelTurns ==
  ASSUME Levels = {1}, Overflows \subseteq {FALSE}
  PROVE  Spec => DownFromRoof
<1>1. Init => Band /\ currLevel = 1
  BY Edges DEF Init, Band
<1>2. IInv /\ Band /\ currLevel = 1 /\ [Next]_vars => Band' /\ (currLevel = 1)' /\ RoofTurnsDown
  BY FirstLevelStep
<1>3. TypeOK /\ Corridors /\ Slopes <=> IInv
  BY DEF IInv
<1>4. Spec => [][RoofTurnsDown]_vars
  BY <1>1, <1>2, <1>3, TunnelHolds, PTL DEF Spec
<1> QED  BY <1>4 DEF DownFromRoof, RoofTurnsDown
=============================================================================

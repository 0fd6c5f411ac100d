---------------------------- MODULE ClockProofs ----------------------------
(***************************************************************************)
(* The wait and the draw, for every digit, every value of the clock and    *)
(* every length of the frame.                                              *)
(***************************************************************************)
EXTENDS Clock, TLAPS

(* What is still to wait for, and whether the interrupt has come since the *)
(* last look at the clock.                                                 *)
Waiting ==
  pc = "hold" =>
    \/ Wrap(currTime - clock) = 2 /\ ticks = 0
    \/ Wrap(currTime - clock) = 1 /\ ticks \in 0..1
    \/ Wrap(currTime - clock) = 0 /\ ticks = 1

(* With a digit of 2 to 9 a draw is one round of the loop: before it the   *)
(* registers are as loaded, and after it they hold twice the clock.        *)
Drawing ==
  (currScoreOnes >= 2 /\ ticks = 0) =>
    /\ pc = "rngloop" => a = clock /\ y = currScoreOnes /\ carry = borrowed
    /\ (pc = "drawn" /\ clock < 254) => a = Wrap(2 * clock + 1 + borrowed)

IInv == TypeOK /\ Waiting /\ Drawing

LEMMA WrapIs ==
  ASSUME NEW n \in Int
  PROVE  /\ Wrap(n) \in Byte
         /\ n \in Byte => Wrap(n) = n
         /\ n \in -256..-1 => Wrap(n) = n + 256
         /\ n \in 256..511 => Wrap(n) = n - 256
  BY DEF Wrap, Byte

(* The way from c on to t, as a difference of bytes.                       *)
LEMMA Ahead ==
  ASSUME NEW t \in Byte, NEW c \in Byte
  PROVE  Wrap(t - c) = IF t >= c THEN t - c ELSE t - c + 256
<1>1. t - c \in -256..255 /\ (t >= c <=> t - c \in 0..255)
  BY DEF Byte
<1> QED  BY <1>1, WrapIs DEF Byte

(* The interrupt takes one from what is still to wait for.                 *)
LEMMA OneLess ==
  ASSUME NEW t \in Byte, NEW c \in Byte, Wrap(t - c) # 0
  PROVE  Wrap(t - Wrap(c + 1)) = Wrap(t - c) - 1
<1>1. Wrap(c + 1) = (IF c = 255 THEN 0 ELSE c + 1) /\ Wrap(c + 1) \in Byte
  BY WrapIs DEF Byte
<1>2. Wrap(t - c) = IF t >= c THEN t - c ELSE t - c + 256
  BY Ahead
<1>3. Wrap(t - Wrap(c + 1)) =
        IF t >= Wrap(c + 1) THEN t - Wrap(c + 1) ELSE t - Wrap(c + 1) + 256
  BY <1>1, Ahead
<1>4. t # c
  BY <1>2 DEF Byte
<1> QED  BY <1>1, <1>2, <1>3, <1>4 DEF Byte

LEMMA TwoAhead ==
  ASSUME NEW c \in Byte
  PROVE  Wrap(Wrap(c + 2) - c) = 2
<1>1. Wrap(c + 2) = (IF c >= 254 THEN c - 254 ELSE c + 2) /\ Wrap(c + 2) \in Byte
  BY WrapIs DEF Byte
<1>2. Wrap(Wrap(c + 2) - c) =
        IF Wrap(c + 2) >= c THEN Wrap(c + 2) - c ELSE Wrap(c + 2) - c + 256
  BY <1>1, Ahead
<1> QED  BY <1>1, <1>2 DEF Byte

(* No sum of a digit and $30 carries.                                      *)
LEMMA Wait ==
  ASSUME waitTurn, clock \in Byte
  PROVE  currTime' = Wrap(clock + 2)
<1>1. ASSUME NEW n \in 0..255 PROVE CarryOf(n) = 0
  BY DEF CarryOf
<1>2. PICK tens \in 0..9, ones \in 0..9 : currTime' = Wrap(clock + 2 + CarryPrinted(tens, ones))
  BY DEF waitTurn
<1>3. tens + 48 \in 0..255 /\ ones + 48 + 0 \in 0..255
  OBVIOUS
<1>4. CarryPrinted(tens, ones) = 0
  BY <1>1, <1>3 DEF CarryPrinted
<1>5. clock + 2 + 0 = clock + 2
  BY DEF Byte
<1> QED  BY <1>2, <1>4, <1>5

LEMMA OneDigitRound ==
  ASSUME NEW d \in 2..9
  PROVE  ~Again(DEY(d))
<1>1. DEY(d) = d - 1
  BY WrapIs DEF DEY, Byte
<1>2. Wrap(d - 1 - 1) = d - 2
  BY WrapIs DEF Byte
<1> QED  BY <1>1, <1>2 DEF Again, Below

(* Twice the clock is even, so that the bit is what was added to it.       *)
LEMMA LowBit ==
  ASSUME NEW c \in Byte, NEW b \in 0..1
  PROVE  Wrap(2 * c + 1 + b) % 2 = 1 - b
<1>1. Wrap(2 * c + 1 + b) % 2 = (2 * c + 1 + b) % 2
  BY DEF Wrap, Byte
<1>2. (2 * c + 1 + b) % 2 = (1 + b) % 2
  BY DEF Byte
<1> QED  BY <1>1, <1>2

LEMMA Typed ==
  ASSUME TypeOK, [Next]_vars
  PROVE  TypeOK'
<1> USE DEF TypeOK, registers
<1>1. CASE Tick
  BY <1>1, WrapIs, ClockAssumption DEF Tick, Byte
<1>2. CASE waitTurn
  BY <1>2, Wait, WrapIs DEF waitTurn, Byte
<1>3. CASE hold
  BY <1>3 DEF hold
<1>4. CASE getrng
  <2>1. currScoreOnes \in Byte
    BY ClockAssumption DEF Byte
  <2> QED  BY <1>4, <2>1 DEF getrng
<1>5. CASE rngloop
  <2> DEFINE first == a + MusicLoopOffset + carry
  <2>1. first \in Int /\ first \div 256 \in Int
    BY DEF MusicLoopOffset, Byte
  <2>2. Wrap(first) \in Byte
    BY <2>1, WrapIs
  <2>3. Wrap(first) + clock + first \div 256 \in Int
    BY <2>1, <2>2 DEF Byte
  <2>4. a' \in Byte
    BY <1>5, <2>3, WrapIs DEF rngloop
  <2>5. y' \in Byte
    BY <1>5, WrapIs DEF rngloop, DEY, Byte
  <2> HIDE DEF first
  <2> QED  BY <1>5, <2>4, <2>5 DEF rngloop
<1>6. CASE drawn
  BY <1>6 DEF drawn, Byte
<1>7. CASE UNCHANGED vars
  BY <1>7 DEF vars
<1> QED  BY <1>1, <1>2, <1>3, <1>4, <1>5, <1>6, <1>7 DEF Next, Program

LEMMA WaitingKept ==
  ASSUME TypeOK, Waiting, [Next]_vars
  PROVE  Waiting'
<1> USE DEF TypeOK, registers
<1>1. CASE Tick
  <2> SUFFICES ASSUME pc = "hold"
               PROVE  \/ Wrap(currTime' - clock') = 1 /\ ticks' = 1
                      \/ Wrap(currTime' - clock') = 0 /\ ticks' = 1
    BY <1>1 DEF Waiting, Tick
  <2>1. ticks = 0 /\ ticks' = 1 /\ Wrap(currTime - clock) \in 1..2
    BY <1>1 DEF Tick, Waiting
  <2>2. Wrap(currTime' - clock') = Wrap(currTime - clock) - 1
    BY <1>1, <2>1, OneLess DEF Tick
  <2> QED  BY <2>1, <2>2
<1>2. CASE waitTurn
  BY <1>2, Wait, TwoAhead DEF waitTurn, Waiting
<1>3. CASE hold
  <2> SUFFICES ASSUME pc' = "hold"
               PROVE  Waiting'
    BY DEF Waiting
  <2>1. clock # currTime /\ UNCHANGED <<clock, currTime>> /\ pc = "hold" /\ ticks' = 0
    BY <1>3 DEF hold
  <2>2. Wrap(currTime - clock) # 0
    <3>1. Wrap(currTime - clock) =
            IF currTime >= clock THEN currTime - clock ELSE currTime - clock + 256
      BY Ahead
    <3> QED  BY <2>1, <3>1 DEF Byte
  <2> QED  BY <2>1, <2>2 DEF Waiting
<1>4. CASE getrng
  BY <1>4 DEF getrng, Waiting
<1>5. CASE rngloop
  BY <1>5 DEF rngloop, Waiting
<1>6. CASE drawn
  BY <1>6 DEF drawn, Waiting
<1>7. CASE UNCHANGED vars
  BY <1>7 DEF vars, Waiting
<1> QED  BY <1>1, <1>2, <1>3, <1>4, <1>5, <1>6, <1>7 DEF Next, Program

LEMMA DrawingKept ==
  ASSUME TypeOK, Drawing, [Next]_vars
  PROVE  Drawing'
<1> USE DEF TypeOK, registers
<1>1. CASE Tick
  BY <1>1 DEF Tick, Drawing
<1>2. CASE waitTurn
  BY <1>2 DEF waitTurn, Drawing
<1>3. CASE hold
  BY <1>3 DEF hold, Drawing
<1>4. CASE getrng
  BY <1>4 DEF getrng, Drawing
<1>5. CASE rngloop
  <2> SUFFICES ASSUME currScoreOnes >= 2, ticks = 0
               PROVE  pc' = "drawn" /\ (clock < 254 => a' = Wrap(2 * clock + 1 + borrowed))
    BY <1>5 DEF Drawing, rngloop
  <2>1. a = clock /\ y = currScoreOnes /\ carry = borrowed
    BY <1>5 DEF Drawing, rngloop
  <2>2. currScoreOnes \in 2..9
    BY ClockAssumption
  <2>3. pc' = "drawn"
    BY <1>5, <2>1, <2>2, OneDigitRound DEF rngloop
  <2>4. ASSUME clock < 254
        PROVE  a' = Wrap(2 * clock + 1 + borrowed)
    <3>1. PICK first : first = clock + MusicLoopOffset + borrowed
      OBVIOUS
    <3>2. a' = Wrap(Wrap(first) + clock + first \div 256)
      BY <1>5, <2>1, <3>1 DEF rngloop
    <3>3. first = clock + 1 + borrowed /\ first \in Byte
      BY <2>4, <3>1 DEF MusicLoopOffset, Byte
    <3>4. Wrap(first) = first
      BY <3>3, WrapIs DEF Byte
    <3>5. first \div 256 = 0
      BY <3>3 DEF Byte
    <3>6. first + clock + 0 = 2 * clock + 1 + borrowed
      BY <3>3 DEF Byte
    <3> QED  BY <3>2, <3>4, <3>5, <3>6
  <2> QED  BY <2>3, <2>4
<1>6. CASE drawn
  BY <1>6 DEF drawn, Drawing
<1>7. CASE UNCHANGED vars
  BY <1>7 DEF vars, Drawing
<1> QED  BY <1>1, <1>2, <1>3, <1>4, <1>5, <1>6, <1>7 DEF Next, Program

(* The wait is never longer than two interrupts, and away from an          *)
(* interrupt and from the clock's wrapping the bit drawn in level 2 is the *)
(* complement of the carry flag, for every digit from 2 on, every value of *)
(* the clock and every length of a frame.                                  *)
THEOREM ClockHolds == Spec => [](TypeOK /\ TwoTicks /\ StuckBit)
<1>1. Init => IInv
  BY ClockAssumption DEF Init, IInv, TypeOK, Waiting, Drawing, Byte
<1>2. IInv /\ [Next]_vars => IInv'
  BY Typed, WaitingKept, DrawingKept DEF IInv
<1>3. IInv => TypeOK /\ TwoTicks /\ StuckBit
  <2>1. IInv => TypeOK /\ TwoTicks
    BY DEF IInv, Waiting, TwoTicks
  <2>2. IInv => StuckBit
    BY LowBit DEF IInv, TypeOK, Drawing, StuckBit, bit
  <2> QED  BY <2>1, <2>2
<1> QED  BY <1>1, <1>2, <1>3, PTL DEF Spec
=============================================================================

------------------------------- MODULE Clock -------------------------------
(***************************************************************************)
(* The least significant byte of the system clock, which an interrupt      *)
(* counts sixty times a second, and the two routines that read it: waitTurn *)
(* ends a frame by waiting for the clock to get two further, and getrng    *)
(* makes of it a bit for each of the two choices of level 2.               *)
(*                                                                         *)
(* An interrupt may come between any two steps, but it is rare: a round of *)
(* the busy wait takes some ten cycles and all of getrng fewer than four   *)
(* thousand, of the eighteen thousand between two interrupts: no second    *)
(* one comes in either.                                                    *)
(***************************************************************************)
EXTENDS Machine6502

CONSTANTS
  Digits,     \* the values of currScoreOnes a frame may show
  DrawClocks, \* bound: getrng is looked at from these values of the clock
  MaxTicks    \* bound: the interrupts in the rest of a frame

ASSUME ClockAssumption ==
  /\ Digits \subseteq 0..9
  /\ DrawClocks \subseteq Byte
  /\ MaxTicks \in Nat

VARIABLES
  clock,     \* the byte at $A2
  currTime,  \* the value of it the frame ends at
  pc,        \* "frame" is the rest of the game loop
  ticks,     \* the interrupts since the last look at the clock
  calls,     \* the calls of getrng in this frame
  currScoreOnes,
  a, y, carry,  \* the registers and the carry flag in getrng
  borrowed   \* the carry flag getrng was called with

registers == <<a, y, carry, borrowed>>
vars == <<clock, currTime, pc, ticks, calls, currScoreOnes, registers>>

MusicLoopOffset == 1   \* what every call of musicLoop leaves

-----------------------------------------------------------------------------
(* The interrupt. *)
Tick ==
  /\ ticks < IF pc \in {"rngloop", "hold"} THEN 1 ELSE MaxTicks
  /\ clock' = Wrap(clock + 1) /\ ticks' = ticks + 1
  /\ UNCHANGED <<currTime, pc, calls, currScoreOnes, registers>>

(* The carry flag the routine before, printScoreLevel, returns with: that  *)
(* of the second of the two sums that make characters of the digits of the *)
(* ammunition, with one CLC before them.                                   *)
CarryOf(sum) == sum \div 256

(* Mutated form: the flag is left set, as by the last comparison of the    *)
(* busy wait.                                                              *)
CarryUnprinted(tens, ones) == 1

CarryPrinted(tens, ones) == CarryOf(ones + 48 + CarryOf(tens + 48))

(* The ADC has no CLC of its own: it adds that flag too.                   *)
waitTurn ==
  /\ pc = "frame"
  /\ \E tens \in 0..9, ones \in 0..9 :
        currTime' = Wrap(clock + 2 + CarryPrinted(tens, ones))
  /\ pc' = "hold" /\ ticks' = 0 /\ calls' = 0
  /\ UNCHANGED <<clock, currScoreOnes, registers>>

(* One round of the busy wait; after the last one comes the next frame.    *)
hold ==
  /\ pc = "hold"
  /\ IF clock = currTime THEN pc' = "frame" /\ currScoreOnes' \in Digits
                         ELSE UNCHANGED <<pc, currScoreOnes>>
  /\ ticks' = 0
  /\ UNCHANGED <<clock, currTime, calls, registers>>

-----------------------------------------------------------------------------
(* getrng does not clear the carry flag before its first ADC either; what  *)
(* its callers leave there is a comparison or a sum of the roof.           *)
getrng ==
  /\ pc = "frame" /\ calls < 2 /\ clock \in DrawClocks
  /\ a' = clock /\ y' = currScoreOnes
  /\ carry' \in 0..1 /\ borrowed' = carry'
  /\ pc' = "rngloop" /\ ticks' = 0 /\ calls' = calls + 1
  /\ UNCHANGED <<clock, currTime, currScoreOnes>>

(* Mutated form: the loop runs while the counter is not negative.          *)
AgainPositive(n) == ~Below(n, 1)

(* DEY, CPY #1, BMI: the loop runs on while the counter less one has its   *)
(* sign bit set, that is not at all from 2 to 9, and from 1 and 0 until it *)
(* has come down from 255 to 128.                                          *)
Again(n) == Below(n, 1)

(* Mutated form: the counter is not counted.                               *)
DEYDropped(n) == n

DEY(n) == Wrap(n - 1)

rngloop ==
  LET first == a + MusicLoopOffset + carry
      second == Wrap(first) + clock + first \div 256
      next == DEY(y)
  IN  /\ pc = "rngloop"
      /\ a' = Wrap(second) /\ y' = next
      /\ carry' = IF next >= 1 THEN 1 ELSE 0
      /\ pc' = IF Again(next) THEN "rngloop" ELSE "drawn"
      /\ UNCHANGED <<clock, currTime, ticks, calls, currScoreOnes, borrowed>>

(* The bit the caller finds in the Y register; the rest is not used again. *)
bit == a % 2

drawn ==
  /\ pc = "drawn" /\ pc' = "frame"
  /\ a' = 0 /\ y' = 0 /\ carry' = 0 /\ borrowed' = 0
  /\ UNCHANGED <<clock, currTime, ticks, calls, currScoreOnes>>

-----------------------------------------------------------------------------
Init ==
  /\ clock \in Byte /\ currTime = 0
  /\ pc = "frame" /\ ticks = 0 /\ calls = 0
  /\ currScoreOnes \in Digits
  /\ a = 0 /\ y = 0 /\ carry = 0 /\ borrowed = 0

Program == waitTurn \/ hold \/ getrng \/ rngloop \/ drawn

Next == Tick \/ Program

(* The processor goes on, and the interrupt comes; a frame that calls      *)
(* getrng twice or not at all gets to waitTurn.                            *)
Spec == Init /\ [][Next]_vars /\ WF_vars(Program) /\ WF_vars(Tick)

-----------------------------------------------------------------------------
TypeOK ==
  /\ clock \in Byte /\ currTime \in Byte
  /\ a \in Byte /\ y \in Byte /\ carry \in 0..1 /\ borrowed \in 0..1
  /\ pc \in {"frame", "hold", "rngloop", "drawn"}
  /\ calls \in 0..2 /\ currScoreOnes \in Digits
  /\ ticks \in Nat

(* The busy wait ends and so does every draw: the game loop always comes   *)
(* round again.  The wait compares for equality, so this needs that the    *)
(* clock cannot pass the value between two looks at it.                    *)
FramesGoOn == []<>(pc = "frame") /\ []<>(pc = "hold")

(* However long the frame took, the wait is for at most two interrupts:    *)
(* the clock is never past the value waited for.                           *)
TwoTicks == pc = "hold" => Wrap(currTime - clock) \in 0..2

(* What "chooses 1 or 0 randomly" comes to: with a digit of 2 to 9 in the  *)
(* score, the bit is the complement of the carry flag the caller left,     *)
(* whatever the clock, unless the interrupt comes in the very draw or the  *)
(* clock is about to wrap.                                                 *)
StuckBit ==
  (pc = "drawn" /\ currScoreOnes >= 2 /\ ticks = 0 /\ clock < 254) =>
    bit = 1 - borrowed
=============================================================================

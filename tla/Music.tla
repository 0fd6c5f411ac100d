------------------------------- MODULE Music -------------------------------
(***************************************************************************)
(* The tune, and the draw that decides what appears.  musicLoop is called  *)
(* once a frame and is to play the sonata note by note; spawn mixes the    *)
(* note at the place the tune has got to with the ones of the score, and   *)
(* brings in a power-up, an obstacle or a wall on 2, 4 or 6.               *)
(***************************************************************************)
EXTENDS Integers

VARIABLES
  musicLoopOffset,         \* the place in the tune, counted from 0
  randobyte,               \* the byte drawn, of which spawn keeps five bits
  currTurn, currScoreOnes  \* the frame count and the digit updateScore counts

vars == <<musicLoopOffset, randobyte, currTurn, currScoreOnes>>

Notes == 52

sonata ==
  <<  0, 201,   0, 209, 219, 215, 219, 219,   0, 201,   0, 209, 219,
    209, 215,   0, 215, 201,   0, 201, 215,   0, 195,   0, 219, 219,
      0,   0, 219, 219, 223, 223, 225, 223, 215, 207, 209, 207, 209,
    209,   0, 209, 209, 159, 147,   0, 147,   0, 147, 195,   0, 201>>

-----------------------------------------------------------------------------
(* The note played is the one at the X register, and X is loaded with 0    *)
(* on every call and not with the place the last call left.                *)
NextPlace(x) == IF x = Notes THEN 0 ELSE x + 1

musicLoop == musicLoopOffset' = NextPlace(0)

(* EOR and AND #$1F: each of the lower five bits that differ. *)
Differ(m, n, bit) == IF (m \div bit) % 2 # (n \div bit) % 2 THEN bit ELSE 0

Xor5(m, n) ==
  Differ(m, n, 1) + Differ(m, n, 2) + Differ(m, n, 4) + Differ(m, n, 8) + Differ(m, n, 16)

(* The first lines of spawn, which clear randobyte before they mix. *)
draw == randobyte' = Xor5(currScoreOnes, sonata[musicLoopOffset' + 1])

-----------------------------------------------------------------------------
Init ==
  /\ musicLoopOffset = 0 /\ randobyte = 0
  /\ currTurn = 0 /\ currScoreOnes = 0

(* One frame: the tune goes on, and every third frame the score does. *)
Frame ==
  /\ musicLoop /\ draw
  /\ currTurn' = (currTurn + 1) % 3
  /\ currScoreOnes' = IF currTurn = 2 THEN (currScoreOnes + 1) % 10 ELSE currScoreOnes

Next == Frame

Spec == Init /\ [][Next]_vars /\ WF_vars(Frame)

-----------------------------------------------------------------------------
(* "Randomness in ... item spawns (obstacles/power-ups)" (src/README.txt): *)
(* as the tune and the score go on, a power-up is drawn again and again,   *)
(* and so is an obstacle.                                                  *)
ItemsSpawn ==
  /\ []<>(randobyte = 2)
  /\ []<>(randobyte = 4)
=============================================================================

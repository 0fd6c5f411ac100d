------------------------------ MODULE Counter ------------------------------
(***************************************************************************)
(* What the status line promises: a number of points, a number of bullets  *)
(* and a frame count, with no digits and no carry chains.  Two decimal     *)
(* counters lose a carry at their top: five digits of points fall back     *)
(* from 99999 to 90000, two digits of bullets from 99 to 90.               *)
(***************************************************************************)
EXTENDS Integers

VARIABLES total, frames, bullets

vars == <<total, frames, bullets>>

Add(n, points) == IF n + points > 99999 THEN n + points - 10000 ELSE n + points

Init == total = 0 /\ frames = 0 /\ bullets = 5

(* One frame has gone by; the third one is worth a point. *)
Frame ==
  /\ frames < 2
  /\ frames' = frames + 1
  /\ UNCHANGED <<total, bullets>>

Point ==
  /\ frames = 2
  /\ frames' = 0
  /\ total' = Add(total, 1)
  /\ UNCHANGED bullets

(* A power-up is worth twenty points and a bullet. *)
Reward ==
  /\ total' = Add(Add(total, 10), 10)
  /\ bullets' = IF bullets = 99 THEN 90 ELSE bullets + 1
  /\ UNCHANGED frames

Shot ==
  /\ bullets > 0
  /\ bullets' = bullets - 1
  /\ UNCHANGED <<total, frames>>

Next == Frame \/ Point \/ Reward \/ Shot

Spec == Init /\ [][Next]_vars
=============================================================================

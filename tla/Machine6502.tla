---------------------------- MODULE Machine6502 ----------------------------
(***************************************************************************)
(* The 8-bit arithmetic of the processor the game runs on, as far as the   *)
(* game's branches can see it.  A comparison followed by BMI or BPL tests  *)
(* bit 7 of the byte difference, which is neither the signed nor the       *)
(* unsigned order; BVC tests the overflow flag that the last ADC or SBC    *)
(* left behind.                                                            *)
(***************************************************************************)
EXTENDS Integers

Byte == 0..255

Wrap(n) == n % 256

Signed(b) == IF b < 128 THEN b ELSE b - 256

(* CMP/CPX/CPY b with a in the register, then BMI: the branch is taken. *)
Below(a, b) == Wrap(a - b) >= 128

(* The overflow flag after CLC, ADC b. *)
AddOverflows(a, b) == Signed(a) + Signed(b) \notin -128..127

(* The overflow flag after CLC, SBC b: the clear carry borrows one more. *)
BorrowOverflows(a, b) == Signed(a) - Signed(b) - 1 \notin -128..127
=============================================================================

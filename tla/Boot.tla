-------------------------------- MODULE Boot --------------------------------
(***************************************************************************)
(* What lies where in memory once setchars has run.  The video chip is     *)
(* told to take its characters from $1C00, eight bytes per screen code;    *)
(* setchars copies the first codes there from the ROM and puts the game's  *)
(* own pictures over a few of them.  The assembled data begins at $1B71,   *)
(* "DATA 6144-7168" in the words of the source, and reaches past $1C00.    *)
(*                                                                         *)
(* Memory is modelled by where each byte came from: Origin(a) is the       *)
(* address whose first content is at address a after the copying.          *)
(***************************************************************************)
EXTENDS Machine6502, SequencesExt

(* The assembled data: the labels in their order, with their lengths. *)
Data == \h1B71

Layout ==
  << <<"currTime", 1>>, <<"currTurn", 1>>, <<"stage", 2>>, <<"score", 5>>,
     <<"drawDirection", 1>>, <<"ship", 8>>, <<"upFlag", 1>>, <<"topset", 22>>,
     <<"emptyset", 22>>, <<"shipco", 2>>, <<"bulletXYFlag", 3>>, <<"bulletAmmo", 2>>,
     <<"powerUpXYFlag", 3>>, <<"fallingobsXYFlag", 3>>, <<"staticobsXYFlag", 16>>,
     <<"depth", 1>>, <<"internum", 3>>, <<"powerup", 8>>, <<"fallingobs", 8>>,
     <<"staticobs", 8>>, <<"bullet", 8>>, <<"levelcolor", 1>>, <<"sonata", 52>>,
     <<"musicLoopOffset", 1>>, <<"randobyte", 1>>, <<"cheatFlag", 1>> >>

Entry(label) == CHOOSE i \in DOMAIN Layout : Layout[i][1] = label

Address(label) ==
  FoldLeft(LAMBDA a, item : a + item[2], Data, SubSeq(Layout, 1, Entry(label) - 1))

-----------------------------------------------------------------------------
(* The character ROM begins at $8000, eight bytes per code.                *)
Rom == \h8000
RomCell(code) == Rom + 8 * code

Charset == \h1C00
Cell(code) == Charset + 8 * code

(* The screen codes that get pictures of the game's own.                   *)
Pictures ==
  << <<"ship", \h22>>, <<"powerup", \h23>>, <<"fallingobs", \h24>>,
     <<"staticobs", \h25>>, <<"bullet", \h26>> >>

Copy(from, to, n) == [from |-> from, to |-> to, n |-> n]

PictureStored(picture) == Copy(Address(picture[1]), Cell(picture[2]), 8)

(* setchars, loop by loop.  Both loops over the ROM end when the index     *)
(* gets to 255, so that the last byte of each page is not copied; the      *)
(* checkered block of the ROM, code $66, becomes code 0.                   *)
setchars ==
  << Copy(Rom, Charset, 255), Copy(Rom + 256, Charset + 256, 255),
     PictureStored(Pictures[1]), Copy(RomCell(\h66), Cell(0), 8),
     PictureStored(Pictures[2]), PictureStored(Pictures[3]),
     PictureStored(Pictures[4]), PictureStored(Pictures[5]) >>

Before(copy, a) == IF a \in copy.to..(copy.to + copy.n - 1) THEN copy.from + (a - copy.to) ELSE a

(* The byte at an address, traced back through the copies, last one first. *)
Origin(a) == FoldRight(Before, setchars, a)

(* What the screen shows for a code: the address of the picture's bytes.   *)
ShownAs(code, picture) == \A row \in 0..7 : Origin(Cell(code) + row) = picture + row

(* The codes that show the characters of the ROM.                          *)
Letters == {code \in 0..63 : ShownAs(code, RomCell(code))}

(* The last variables of the data lie among the characters: they are the   *)
(* last two rows of the letter D and the first of the letter E.            *)
CodeOf(label) == (Address(label) - Charset) \div 8

CodeAt ==
  [musicLoopOffset |-> CodeOf("musicLoopOffset"), randobyte |-> CodeOf("randobyte"),
   cheatFlag |-> CodeOf("cheatFlag")]

(* The bytes of the ROM that land on them.                                 *)
RomByte == (RomCell(4) + 6 :> 120) @@ (RomCell(4) + 7 :> 0) @@ (RomCell(5) :> 126)

(* The value of a one-byte variable after setchars, assembled as value.    *)
AfterSetchars(label, value) ==
  LET a == Address(label)
  IN  IF Origin(a) = a THEN value ELSE RomByte[Origin(a)]

Loaded ==
  [musicLoopOffset |-> AfterSetchars("musicLoopOffset", 0),
   randobyte |-> AfterSetchars("randobyte", 0), cheatFlag |-> AfterSetchars("cheatFlag", 0)]
=============================================================================

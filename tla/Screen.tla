------------------------------- MODULE Screen -------------------------------
(***************************************************************************)
(* What fillscreen shows.  Every square of the 22 columns gets a character *)
(* and a colour.  The upper half is drawn from the tables as they are, the *)
(* lower half from their mirror images, by routines of their own; neither  *)
(* calls hitdetect, which compares the same tables once more.              *)
(*                                                                         *)
(* A scene is a record of what is drawn: topset, emptyset, ship, bullet,   *)
(* powerUp, fallingobs and staticobs.  y counts the rows of a half, 0..10. *)
(***************************************************************************)
EXTENDS Boot

Halves == {"top", "bottom"}

Across == 0..21
HalfRows == 0..10

(* fillscreen looks for these in turn, and behind all of them is a block.  *)
Layers == <<"ship", "bullet", "powerUp", "fallingobs", "staticobs">>

Code ==
  [ship |-> \h22, bullet |-> \h26, powerUp |-> \h23, fallingobs |-> \h24,
   staticobs |-> \h25, block |-> 0]

(* Rows above 11 are not compared in the lower half, others 11 rows lower. *)
At(half, thing, x, y) ==
  /\ thing.x = x
  /\ \/ half = "top" /\ thing.y = y
     \/ half = "bottom" /\ ~Below(thing.y, 11) /\ Wrap(thing.y - 11) = y

(* Mutated form: the lower half of the wall is drawn a row too low.        *)
InWallLow(half, wall, x, y) ==
  /\ wall.x = x
  /\ \E i \in DOMAIN wall.rows :
        \/ half = "top" /\ wall.rows[i] = y
        \/ half = "bottom" /\ Wrap(wall.rows[i] - 10) = y

InWall(half, wall, x, y) ==
  /\ wall.x = x
  /\ \E i \in DOMAIN wall.rows :
        \/ half = "top" /\ wall.rows[i] = y
        \/ half = "bottom" /\ Wrap(wall.rows[i] - 11) = y

(* Outside of both corridors no block of the wall is drawn. *)
Beyond(half, scene, x, y) ==
  \/ half = "top" /\ Below(y, scene.topset[x])
  \/ half = "bottom" /\ ~Below(y, Wrap(11 - scene.topset[x]))

Drawn(half, scene, layer, x, y) ==
  IF layer = "staticobs"
  THEN InWall(half, scene.staticobs, x, y) /\ ~Beyond(half, scene, x, y)
  ELSE At(half, scene[layer], x, y)

(* filltop and fillbottom: the first of the layers that is at the square,  *)
(* whose code is printed there.                                            *)
fill(half, scene, x, y) ==
  LET found == {i \in DOMAIN Layers : Drawn(half, scene, Layers[i], x, y)}
  IN  IF found = {} THEN "block" ELSE Layers[Min(found)]

-----------------------------------------------------------------------------
(* colortop and colorbottom.  The squares around the rock's limits, and    *)
(* the first and last row of the screen, have the colour of the level.     *)

(* Mutated form: the lower half is mirrored a row too high.                *)
RockOffByOne(half, scene, x, y) ==
  \/ half = "top" /\ (y = 0 \/ Below(y, scene.topset[x]) \/ ~Below(y, scene.emptyset[x]))
  \/ half = "bottom" /\ ( \/ y = 10 \/ Below(y, Wrap(12 - scene.emptyset[x]))
                          \/ ~Below(y, Wrap(11 - scene.topset[x])) )

Rock(half, scene, x, y) ==
  \/ half = "top" /\ (y = 0 \/ Below(y, scene.topset[x]) \/ ~Below(y, scene.emptyset[x]))
  \/ half = "bottom" /\ ( \/ y = 10 \/ Below(y, Wrap(11 - scene.emptyset[x]))
                          \/ ~Below(y, Wrap(11 - scene.topset[x])) )

color(half, scene, x, y) ==
  LET Is(layer) == At(half, scene[layer], x, y)
  IN  CASE Is("ship") \/ Is("bullet") -> "white"
        [] ~(Is("ship") \/ Is("bullet")) /\ Is("powerUp") -> "yellow"
        [] OTHER -> IF \/ Is("fallingobs")
                       \/ InWall(half, scene.staticobs, x, y)
                       \/ Rock(half, scene, x, y)
                    THEN "level" ELSE "black"

-----------------------------------------------------------------------------
(* Where on the screen a square is drawn: mul22 multiplies in a byte, and  *)
(* the column is added to it.                                              *)

(* Mutated form: one shift less.                                           *)
mul14(y) == Wrap(Wrap(2 * y) + Wrap(4 * y) + Wrap(8 * y))

mul22(y) == Wrap(Wrap(2 * y) + Wrap(4 * y) + Wrap(16 * y))

Target(half, x, y) == (IF half = "top" THEN \h1E00 ELSE \h1EF2) + Wrap(mul22(y) + x)

(* The video chip shows 22 columns a row from $1E00 on. *)
Column(place) == (place - \h1E00) % 22
Row(place) == (place - \h1E00) \div 22

Painted == {Target(s[1], s[2], s[3]) : s \in Halves \X Across \X HalfRows}

-----------------------------------------------------------------------------
(* Text is printed code by code from a place on; a text is a set of places *)
(* with their codes.                                                       *)
Text(place, codes) == {<<place + i - 1, codes[i]>> : i \in DOMAIN codes}

Digit(d) == \h30 + d

Score(score) ==
  <<Digit(score.tthous), Digit(score.thous), Digit(score.huns), Digit(score.tens), Digit(score.ones)>>

(* intro: TUNNEL INVADERS, and below it PRESS FIRE.                        *)
Title ==
  Text(\h1E46, <<\h14, \h15, \h0E, \h0E, \h05, \h0C>>) \cup
  Text(\h1E4D, <<\h09, \h0E, \h16, \h01, \h04, \h05, \h12, \h13>>) \cup
  Text(\h1EB6, <<\h10, \h12, \h05, \h13, \h13>>) \cup
  Text(\h1EBC, <<\h06, \h09, \h12, \h05>>)

(* gameOver: GAME OVER, and above it the score.                            *)
GameOver(score) ==
  Text(\h1EB6, <<\h07, \h01, \h0D, \h05>>) \cup
  Text(\h1EBB, <<\h0F, \h16, \h05, \h12>>) \cup
  Text(\h1E47, <<\h13, \h03, \h0F, \h12, \h05>>) \cup
  Text(\h1E4D, Score(score))

(* printScoreLevel: the status line below the tunnel.                      *)
StatusAt == \h1FE4

StatusLine(score, stage, ammo) ==
  Text(StatusAt, <<\h13, \h03, \h12>>) \cup
  Text(\h1FE8, Score(score)) \cup
  Text(\h1FEE, <<\h0C>>) \cup
  Text(\h1FF0, <<Digit(stage.level), \h2D, Digit(stage.sub)>>) \cup
  Text(\h1FF4, <<\h01, \h0D, \h0D>>) \cup
  Text(\h1FF8, <<Digit(ammo.tens), Digit(ammo.ones)>>)

(* The loops of intro and gameOver that turn the screen white, and those   *)
(* of clearscreen; all of them count from 255 down to 1.                   *)
From(place) == place + 1..place + 255

ColorOf(place) == place + \h7800

Whitened == {place \in \h1E00..\h1FF9 : ColorOf(place) \in From(\h95FE) \cup From(\h9700)}
Cleared == From(\h1DFE) \cup From(\h1EFD)
Visible == Whitened \cap Cleared

TunnelPainted == Painted = \h1E00..(StatusAt - 1)

-----------------------------------------------------------------------------
(* The picture the character set holds for the code of each layer.         *)
PictureOf(code) ==
  {Pictures[i][1] : i \in {j \in DOMAIN Pictures : ShownAs(code, Address(Pictures[j][1]))}}

Picture ==
  [ship |-> PictureOf(Code.ship), bullet |-> PictureOf(Code.bullet),
   powerUp |-> PictureOf(Code.powerUp), fallingobs |-> PictureOf(Code.fallingobs),
   staticobs |-> PictureOf(Code.staticobs), block |-> PictureOf(Code.block)]

(* With the pictures where setchars puts them.                             *)
Pictured ==
  Picture = [ship |-> {"ship"}, bullet |-> {"bullet"}, powerUp |-> {"powerup"},
             fallingobs |-> {"fallingobs"}, staticobs |-> {"staticobs"}, block |-> {}]

(* What the player makes of a square: a thing of the game's own in front   *)
(* of whatever is there, something to keep away from, or open space.       *)
Sight(half, scene, x, y) ==
  LET seen == Picture[fill(half, scene, x, y)]
  IN  CASE seen \cap {"ship", "bullet", "powerup"} # {} -> "covered"
        [] seen \cap {"fallingobs", "staticobs"} # {} -> "danger"
        [] seen = {} -> IF color(half, scene, x, y) = "level" THEN "danger" ELSE "open"

(* A deadly square does not look open, and one that looks deadly is, but   *)
(* for the first and last row of the screen, which always look like rock.  *)
Agrees(sight, deadly, row) ==
  /\ deadly => sight # "open"
  /\ sight = "danger" => deadly \/ row \in {0, 21}
=============================================================================

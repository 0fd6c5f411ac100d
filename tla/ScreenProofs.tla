---------------------------- MODULE ScreenProofs ----------------------------
(***************************************************************************)
(* The picture, for every tunnel and wherever the things in it are: what   *)
(* fillscreen makes of a square and what hitdetect makes of it, two sets   *)
(* of routines over the same tables, come to the same.                     *)
(***************************************************************************)
EXTENDS Screen, Corridor, TLAPS

(* The row of the screen that row y of a half is.                          *)
RowOf(half, y) == IF half = "top" THEN y ELSE y + 11

(* What hitdetect finds deadly at a place.                                 *)
Deadly(scene, x, row) ==
  \/ scene.fallingobs.x = x /\ scene.fallingobs.y = row
  \/ scene.staticobs.x = x /\ \E i \in DOMAIN scene.staticobs.rows : scene.staticobs.rows[i] = row
  \/ ~Open(scene.topset[x], scene.emptyset[x], row)

-----------------------------------------------------------------------------
LEMMA WrapsTo ==
  ASSUME NEW n \in Int
  PROVE  /\ n \in 0..255 => Wrap(n) = n
         /\ n \in -256..-1 => Wrap(n) = n + 256
BY DEF Wrap

(* mul22 multiplies by 22, as far as there are rows in a half.             *)
LEMMA Multiplies ==
  ASSUME NEW y \in HalfRows
  PROVE  mul22(y) = 22 * y
<1>1. y \in 0..10
  BY DEF HalfRows
<1>2. /\ 2 * y \in 0..255 /\ 4 * y \in 0..255 /\ 16 * y \in 0..255
      /\ 2 * y + 4 * y + 16 * y \in 0..255
  BY <1>1
<1>3. Wrap(2 * y) = 2 * y /\ Wrap(4 * y) = 4 * y /\ Wrap(16 * y) = 16 * y
  BY <1>2, WrapsTo
<1>4. Wrap(2 * y + 4 * y + 16 * y) = 2 * y + 4 * y + 16 * y
  BY <1>2, WrapsTo
<1> QED  BY <1>1, <1>3, <1>4 DEF mul22

(* So every square is drawn where the video chip shows it.                 *)
LEMMA PlaceOf ==
  ASSUME NEW half \in Halves, NEW x \in Across, NEW y \in HalfRows
  PROVE  /\ Target(half, x, y) = \h1E00 + 22 * RowOf(half, y) + x
         /\ Column(Target(half, x, y)) = x /\ Row(Target(half, x, y)) = RowOf(half, y)
<1>1. x \in 0..21 /\ y \in 0..10
  BY DEF Across, HalfRows
<1>2. Wrap(mul22(y) + x) = 22 * y + x
  <2>1. 22 * y + x \in 0..255
    BY <1>1
  <2> QED  BY <2>1, Multiplies, WrapsTo
<1>3. Target(half, x, y) = 7680 + 22 * RowOf(half, y) + x
  BY <1>1, <1>2 DEF Target, RowOf
<1>4. RowOf(half, y) \in 0..21
  BY <1>1 DEF RowOf
<1>5. ASSUME NEW r \in 0..21
      PROVE  (22 * r + x) % 22 = x /\ (22 * r + x) \div 22 = r
  BY <1>1
<1> QED  BY <1>1, <1>3, <1>4, <1>5 DEF Column, Row

-----------------------------------------------------------------------------
(* The first of some layers is one of them.                                *)
LEMMA FirstOf ==
  ASSUME NEW S \in SUBSET (1..5), S # {}
  PROVE  Min(S) \in S
<1>1. \E i \in S : \A j \in S : i <= j
  <2>1. CASE 1 \in S  BY <2>1
  <2>2. CASE 1 \notin S /\ 2 \in S  BY <2>2
  <2>3. CASE 1 \notin S /\ 2 \notin S /\ 3 \in S  BY <2>3
  <2>4. CASE 1 \notin S /\ 2 \notin S /\ 3 \notin S /\ 4 \in S  BY <2>4
  <2>5. CASE 1 \notin S /\ 2 \notin S /\ 3 \notin S /\ 4 \notin S
    <3>1. \A j \in S : j = 5
      <4>1. \A j \in S : j \in 1..5
        OBVIOUS
      <4> QED  BY <2>5, <4>1
    <3>2. PICK k \in S : TRUE
      OBVIOUS
    <3>3. \A j \in S : k <= j
      BY <3>1, <3>2
    <3> QED  BY <3>2, <3>3
  <2> QED  BY <2>1, <2>2, <2>3, <2>4, <2>5
<1> QED  BY <1>1, Zenon DEF Min

Things == {"ship", "bullet", "powerUp", "fallingobs", "staticobs"}

LEMMA LayersAre ==
  /\ DOMAIN Layers = 1..5
  /\ \A i \in 1..5 : Layers[i] \in Things
  /\ \A layer \in Things : \E i \in 1..5 : Layers[i] = layer
<1>1. DOMAIN Layers = 1..5
  BY DEF Layers
<1>2. /\ Layers[1] = "ship" /\ Layers[2] = "bullet" /\ Layers[3] = "powerUp"
      /\ Layers[4] = "fallingobs" /\ Layers[5] = "staticobs"
  BY DEF Layers
<1> QED  BY <1>1, <1>2 DEF Things

(* What is printed is there, and a block is printed only where nothing is. *)
LEMMA FillIs ==
  ASSUME NEW half, NEW scene, NEW x, NEW y
  PROVE  LET drawn == fill(half, scene, x, y)
         IN  \/ drawn \in Things /\ Drawn(half, scene, drawn, x, y)
             \/ drawn = "block" /\ \A layer \in Things : ~Drawn(half, scene, layer, x, y)
<1> DEFINE found == {i \in DOMAIN Layers : Drawn(half, scene, Layers[i], x, y)}
<1>1. CASE found = {}
  <2>1. fill(half, scene, x, y) = "block"
    BY <1>1 DEF fill
  <2>2. \A layer \in Things : ~Drawn(half, scene, layer, x, y)
    BY <1>1, LayersAre
  <2> QED  BY <2>1, <2>2
<1>2. CASE found # {}
  <2>1. fill(half, scene, x, y) = Layers[Min(found)]
    BY <1>2 DEF fill
  <2>2. found \in SUBSET (1..5)
    BY LayersAre
  <2>3. Min(found) \in found
    BY <1>2, <2>2, FirstOf
  <2> QED  BY <2>1, <2>2, <2>3, LayersAre
<1> QED  BY <1>1, <1>2

-----------------------------------------------------------------------------
(* A thing that is drawn at a square is where hitdetect looks for it.      *)
LEMMA RowsAre ==
  ASSUME NEW half \in Halves, NEW y \in HalfRows, NEW r \in Byte
  PROVE  /\ half = "top" /\ r = y => r = RowOf(half, y)
         /\ half = "bottom" =>
              /\ Wrap(r - 11) = y <=> r = RowOf(half, y)
              /\ r = RowOf(half, y) => ~Below(r, 11)
<1>1. y \in 0..10 /\ r \in 0..255
  BY DEF HalfRows, Byte
<1>2. CASE r < 11
  <2>1. Wrap(r - 11) = r - 11 + 256
    BY <1>1, <1>2, WrapsTo
  <2> QED  BY <1>1, <1>2, <2>1 DEF RowOf
<1>3. CASE r >= 11
  <2>1. Wrap(r - 11) = r - 11
    BY <1>1, <1>3, WrapsTo
  <2> QED  BY <1>1, <1>3, <2>1 DEF RowOf, Below
<1> QED  BY <1>1, <1>2, <1>3

LEMMA AtIs ==
  ASSUME NEW half \in Halves, NEW x \in Across, NEW y \in HalfRows,
         NEW thing, thing.y \in Byte
  PROVE  At(half, thing, x, y) <=> thing.x = x /\ thing.y = RowOf(half, y)
<1>1. CASE half = "top"
  BY <1>1 DEF At, RowOf
<1>2. CASE half = "bottom"
  BY <1>2, RowsAre DEF At
<1> QED  BY <1>1, <1>2 DEF Halves

LEMMA InWallIs ==
  ASSUME NEW half \in Halves, NEW x \in Across, NEW y \in HalfRows,
         NEW wall, \A i \in DOMAIN wall.rows : wall.rows[i] \in Byte
  PROVE  InWall(half, wall, x, y) <=>
           wall.x = x /\ \E i \in DOMAIN wall.rows : wall.rows[i] = RowOf(half, y)
<1>1. CASE half = "top"
  BY <1>1 DEF InWall, RowOf
<1>2. CASE half = "bottom"
  BY <1>2, RowsAre DEF InWall
<1> QED  BY <1>1, <1>2 DEF Halves

(* The rock that is coloured is the rock that is hit, but for the edges.   *)
LEMMA RockIs ==
  ASSUME NEW half \in Halves, NEW scene, NEW x \in Across, NEW y \in HalfRows
  PROVE  Rock(half, scene, x, y) <=>
           \/ RowOf(half, y) \in {0, 21}
           \/ ~Open(scene.topset[x], scene.emptyset[x], RowOf(half, y))
<1>0. y \in 0..10
  BY DEF HalfRows
<1>1. CASE half = "top"
  <2>1. InUpperHalf(y)
    <3>1. Wrap(y - 11) = y - 11 + 256
      BY <1>0, WrapsTo
    <3> QED  BY <1>0, <3>1 DEF InUpperHalf, Below
  <2> QED  BY <1>0, <1>1, <2>1 DEF Rock, RowOf, Open
<1>2. CASE half = "bottom"
  <2>1. ~InUpperHalf(y + 11) /\ (y + 11) - 11 = y
    <3>1. Wrap((y + 11) - 11) = y
      BY <1>0, WrapsTo
    <3> QED  BY <1>0, <3>1 DEF InUpperHalf, Below
  <2>2. y + 11 \in {0, 21} <=> y = 10
    BY <1>0
  <2> QED  BY <1>2, <2>1, <2>2 DEF Rock, RowOf, Open
<1> QED  BY <1>1, <1>2 DEF Halves

-----------------------------------------------------------------------------
(* In any scene, with the pictures where setchars puts them: a square that *)
(* hitdetect would find deadly does not look open, and one that looks      *)
(* deadly is.                                                              *)
THEOREM LooksAreTrue ==
  ASSUME Pictured,
         NEW scene, scene.fallingobs.y \in Byte,
         \A i \in DOMAIN scene.staticobs.rows : scene.staticobs.rows[i] \in Byte,
         NEW half \in Halves, NEW x \in Across, NEW y \in HalfRows
  PROVE  Agrees(Sight(half, scene, x, y), Deadly(scene, x, RowOf(half, y)), RowOf(half, y))
<1> DEFINE drawn == fill(half, scene, x, y)
           deadly == Deadly(scene, x, RowOf(half, y))
<1>1. /\ Drawn(half, scene, "fallingobs", x, y) <=> At(half, scene.fallingobs, x, y)
      /\ At(half, scene.fallingobs, x, y) => deadly
  BY AtIs DEF Drawn, Deadly
<1>2. /\ Drawn(half, scene, "staticobs", x, y) => InWall(half, scene.staticobs, x, y)
      /\ InWall(half, scene.staticobs, x, y) => deadly
  BY InWallIs DEF Drawn, Deadly
<1>3. CASE drawn \in {"ship", "bullet", "powerUp"}
  <2>1. /\ Picture[drawn] \cap {"ship", "bullet", "powerup"} # {}
        /\ Picture[drawn] \cap {"fallingobs", "staticobs"} = {}
        /\ Picture[drawn] # {}
    BY <1>3 DEF Pictured
  <2>2. Sight(half, scene, x, y) = "covered"
    BY <2>1 DEF Sight
  <2> QED  BY <2>2 DEF Agrees
<1>4. CASE drawn \in {"fallingobs", "staticobs"}
  <2>1. /\ Picture[drawn] \cap {"ship", "bullet", "powerup"} = {}
        /\ Picture[drawn] \cap {"fallingobs", "staticobs"} # {}
    BY <1>4 DEF Pictured
  <2>2. Sight(half, scene, x, y) = "danger"
    BY <2>1 DEF Sight
  <2>3. Drawn(half, scene, drawn, x, y)
    BY <1>4, FillIs DEF Things
  <2>4. deadly
    BY <1>1, <1>2, <1>4, <2>3
  <2> QED  BY <2>2, <2>4 DEF Agrees
<1>5. CASE drawn = "block"
  <2>1. Picture[drawn] = {}
    BY <1>5 DEF Pictured
  <2>2. Sight(half, scene, x, y) =
          IF color(half, scene, x, y) = "level" THEN "danger" ELSE "open"
    BY <2>1 DEF Sight
  <2>3. \A layer \in Things : ~Drawn(half, scene, layer, x, y)
    BY <1>5, FillIs DEF Things
  <2>4. /\ ~At(half, scene["ship"], x, y) /\ ~At(half, scene["bullet"], x, y)
        /\ ~At(half, scene["powerUp"], x, y) /\ ~At(half, scene["fallingobs"], x, y)
    BY <2>3 DEF Things, Drawn
  <2>5. color(half, scene, x, y) = "level" <=>
          InWall(half, scene.staticobs, x, y) \/ Rock(half, scene, x, y)
    BY <2>4 DEF color
  <2>6. Rock(half, scene, x, y) => deadly \/ RowOf(half, y) \in {0, 21}
    BY RockIs DEF Deadly
  <2>7. deadly => InWall(half, scene.staticobs, x, y) \/ Rock(half, scene, x, y)
    BY <2>4, AtIs, InWallIs, RockIs DEF Deadly
  <2> QED  BY <1>2, <2>2, <2>5, <2>6, <2>7 DEF Agrees
<1>6. drawn \in Things \/ drawn = "block"
  BY FillIs
<1> QED  BY <1>3, <1>4, <1>5, <1>6 DEF Things

-----------------------------------------------------------------------------
(* The two halves fill the screen down to the status line.                 *)
LEMMA AllPainted == TunnelPainted
<1>0. StatusAt - 1 = 7680 + 483 /\ \h1E00 = 7680
  BY DEF StatusAt
<1>1. ASSUME NEW half \in Halves, NEW x \in Across, NEW y \in HalfRows
      PROVE  Target(half, x, y) \in 7680..(7680 + 483)
  <2>1. RowOf(half, y) \in 0..21 /\ x \in 0..21
    BY DEF RowOf, Across, HalfRows
  <2> QED  BY <2>1, PlaceOf
<1>2. ASSUME NEW p \in 7680..(7680 + 483)
      PROVE  \E half \in Halves, x \in Across, y \in HalfRows : Target(half, x, y) = p
  <2> DEFINE r == (p - 7680) \div 22
             x == (p - 7680) % 22
             half == IF r <= 10 THEN "top" ELSE "bottom"
             y == IF r <= 10 THEN r ELSE r - 11
  <2>1. r \in 0..21 /\ x \in 0..21 /\ 22 * r + x = p - 7680
    <3>1. p - 7680 \in 0..483
      OBVIOUS
    <3> QED  BY <3>1
  <2> HIDE DEF r, x
  <2>2. half \in Halves /\ x \in Across /\ y \in HalfRows /\ RowOf(half, y) = r
    BY <2>1 DEF Halves, Across, HalfRows, RowOf
  <2>3. Target(half, x, y) = 7680 + 22 * r + x
    BY <2>2, PlaceOf
  <2>4. Target(half, x, y) = p
    BY <2>1, <2>3
  <2> HIDE DEF half, y
  <2> QED  BY <2>2, <2>4
<1> DEFINE squares == 7680..(7680 + 483)
<1>3. /\ \A half \in Halves, x \in Across, y \in HalfRows : Target(half, x, y) \in squares
      /\ \A p \in squares :
            \E half \in Halves, x \in Across, y \in HalfRows : Target(half, x, y) = p
  BY <1>1, <1>2
<1> HIDE DEF squares
<1>4. Painted = squares
  <2>1. ASSUME NEW p \in Painted PROVE p \in squares
    BY <1>3, <2>1 DEF Painted
  <2>2. ASSUME NEW p \in squares PROVE p \in Painted
    <3>1. PICK half \in Halves, x \in Across, y \in HalfRows : Target(half, x, y) = p
      BY <1>3
    <3>2. <<half, x, y>> \in Halves \X Across \X HalfRows
      OBVIOUS
    <3> QED  BY <3>1, <3>2 DEF Painted
  <2> QED  BY <2>1, <2>2
<1> QED  BY <1>0, <1>4 DEF TunnelPainted, squares

-----------------------------------------------------------------------------
(* What the loops of clearscreen and of the texts reach.                   *)
LEMMA VisibleIs == Visible = 7680..7933 \cup 7937..8185
<1>1. Whitened = 7680..7933 \cup 7937..8185
  <2>1. ASSUME NEW place \in 7680..8185
        PROVE  /\ ColorOf(place) \in From(\h95FE) <=> place \in 7680..7933
               /\ ColorOf(place) \in From(\h9700) <=> place \in 7937..8185
    <3>1. ColorOf(place) = place + 30720
      BY DEF ColorOf
    <3>2. From(\h95FE) = 38399..38653 /\ From(\h9700) = 38657..38911
      BY DEF From
    <3>3. /\ place + 30720 \in 38399..38653 <=> place \in 7680..7933
          /\ place + 30720 \in 38657..38911 <=> place \in 7937..8185
      OBVIOUS
    <3> QED  BY <3>1, <3>2, <3>3
  <2>2. \A place : place \in 7680..7933 \cup 7937..8185 => place \in 7680..8185
    OBVIOUS
  <2>3. \A place : place \in Whitened <=> place \in 7680..7933 \cup 7937..8185
    BY <2>1, <2>2 DEF Whitened
  <2> QED  BY <2>3
<1>2. Cleared = 7679..7933 \cup 7934..8188
  BY DEF Cleared, From
<1> QED  BY <1>1, <1>2 DEF Visible

(* A text with room there shows its codes, in squares one can see.         *)
Room(place, n) ==
  /\ place \in Int
  /\ \/ 7680 <= place /\ place + n <= 7934
     \/ 7937 <= place /\ place + n <= 8186

LEMMA TextIs ==
  ASSUME NEW place, NEW n \in Nat, Room(place, n),
         NEW Codes, NEW codes \in Seq(Codes), Len(codes) = n,
         NEW square \in Text(place, codes)
  PROVE  square[1] \in Visible /\ square[2] \in Codes
<1>1. PICK i \in 1..n : square = <<place + i - 1, codes[i]>>
  BY DEF Text
<1>2. place + i - 1 \in 7680..7933 \cup 7937..8185
  BY DEF Room
<1> QED  BY <1>1, <1>2, VisibleIs

LEMMA TitleShown ==
  ASSUME NEW square \in Title
  PROVE  square[1] \in Visible /\ square[2] \in 1..22
<1> DEFINE Codes == 1..22
           tunnel == <<\h14, \h15, \h0E, \h0E, \h05, \h0C>>
           invaders == <<\h09, \h0E, \h16, \h01, \h04, \h05, \h12, \h13>>
           press == <<\h10, \h12, \h05, \h13, \h13>>
           fire == <<\h06, \h09, \h12, \h05>>
           p == \h1E46
           q == \h1E4D
           r == \h1EB6
           s == \h1EBC
<1>1. /\ tunnel \in Seq(Codes) /\ Len(tunnel) = 6
      /\ invaders \in Seq(Codes) /\ Len(invaders) = 8
      /\ press \in Seq(Codes) /\ Len(press) = 5
      /\ fire \in Seq(Codes) /\ Len(fire) = 4
  OBVIOUS
<1>2. Room(p, 6) /\ Room(q, 8) /\ Room(r, 5) /\ Room(s, 4)
  BY DEF Room
<1>3. 6 \in Nat /\ 8 \in Nat /\ 5 \in Nat /\ 4 \in Nat
  OBVIOUS
<1>4. \/ square \in Text(p, tunnel) \/ square \in Text(q, invaders)
      \/ square \in Text(r, press) \/ square \in Text(s, fire)
  BY DEF Title
<1> HIDE DEF Codes, tunnel, invaders, press, fire, p, q, r, s
<1>5. square[1] \in Visible /\ square[2] \in Codes
  BY <1>1, <1>2, <1>3, <1>4, TextIs, Zenon
<1> QED  BY <1>5 DEF Codes

(* The digits of the score, the levels and the magazine.                   *)
Digits == \h30..\h39

LEMMA DigitIs ==
  ASSUME NEW d \in 0..9
  PROVE  Digit(d) \in Digits
BY DEF Digit, Digits

LEMMA ScoreIs ==
  ASSUME NEW score,
         /\ score.tthous \in 0..9 /\ score.thous \in 0..9 /\ score.huns \in 0..9
         /\ score.tens \in 0..9 /\ score.ones \in 0..9
  PROVE  Score(score) \in Seq(Digits) /\ Len(Score(score)) = 5
BY DigitIs DEF Score

LEMMA StatusShown ==
  ASSUME NEW score, Score(score) \in Seq(Digits), Len(Score(score)) = 5,
         NEW stage, stage.level \in 1..3, stage.sub \in 1..2,
         NEW ammo, ammo.tens \in 0..9, ammo.ones \in 0..9,
         NEW square \in StatusLine(score, stage, ammo)
  PROVE  /\ square[1] \in Visible
         /\ square[2] \in {\h01, \h03, \h0C, \h0D, \h12, \h13, \h2D} \cup Digits
<1> DEFINE Codes == {\h01, \h03, \h0C, \h0D, \h12, \h13, \h2D} \cup Digits
           scr == <<\h13, \h03, \h12>>
           points == Score(score)
           l == <<\h0C>>
           level == <<Digit(stage.level), \h2D, Digit(stage.sub)>>
           amm == <<\h01, \h0D, \h0D>>
           bullets == <<Digit(ammo.tens), Digit(ammo.ones)>>
           p == StatusAt
           q == \h1FE8
           r == \h1FEE
           s == \h1FF0
           t == \h1FF4
           u == \h1FF8
<1>1. /\ scr \in Seq(Codes) /\ Len(scr) = 3
      /\ l \in Seq(Codes) /\ Len(l) = 1
      /\ amm \in Seq(Codes) /\ Len(amm) = 3
  OBVIOUS
<1>2. points \in Seq(Codes) /\ Len(points) = 5
  OBVIOUS
<1>3. level \in Seq(Codes) /\ Len(level) = 3
  <2>1. stage.level \in 0..9 /\ stage.sub \in 0..9
    OBVIOUS
  <2>2. Digit(stage.level) \in Digits /\ Digit(stage.sub) \in Digits
    BY <2>1, DigitIs
  <2> QED  BY <2>2
<1>4. bullets \in Seq(Codes) /\ Len(bullets) = 2
  <2>1. Digit(ammo.tens) \in Digits /\ Digit(ammo.ones) \in Digits
    BY DigitIs
  <2> QED  BY <2>1
<1>5. Room(p, 3) /\ Room(q, 5) /\ Room(r, 1) /\ Room(s, 3) /\ Room(t, 3) /\ Room(u, 2)
  BY DEF Room, StatusAt
<1>6. 1 \in Nat /\ 2 \in Nat /\ 3 \in Nat /\ 5 \in Nat
  OBVIOUS
<1>7. \/ square \in Text(p, scr) \/ square \in Text(q, points) \/ square \in Text(r, l)
      \/ square \in Text(s, level) \/ square \in Text(t, amm) \/ square \in Text(u, bullets)
  BY DEF StatusLine
<1> HIDE DEF Codes, scr, points, l, level, amm, bullets, p, q, r, s, t, u
<1>8. square[1] \in Visible /\ square[2] \in Codes
  BY <1>1, <1>2, <1>3, <1>4, <1>5, <1>6, <1>7, TextIs, Zenon
<1> QED  BY <1>8 DEF Codes

LEMMA GameOverShown ==
  ASSUME NEW score, Score(score) \in Seq(Digits), Len(Score(score)) = 5,
         NEW square \in GameOver(score)
  PROVE  /\ square[1] \in Visible
         /\ square[2] \in {\h01, \h03, \h05, \h07, \h0D, \h0F, \h12, \h13, \h16} \cup Digits
<1> DEFINE Codes == {\h01, \h03, \h05, \h07, \h0D, \h0F, \h12, \h13, \h16} \cup Digits
           game == <<\h07, \h01, \h0D, \h05>>
           over == <<\h0F, \h16, \h05, \h12>>
           word == <<\h13, \h03, \h0F, \h12, \h05>>
           points == Score(score)
           p == \h1EB6
           q == \h1EBB
           r == \h1E47
           s == \h1E4D
<1>1. /\ game \in Seq(Codes) /\ Len(game) = 4
      /\ over \in Seq(Codes) /\ Len(over) = 4
      /\ word \in Seq(Codes) /\ Len(word) = 5
  OBVIOUS
<1>2. points \in Seq(Codes) /\ Len(points) = 5
  OBVIOUS
<1>3. Room(p, 4) /\ Room(q, 4) /\ Room(r, 5) /\ Room(s, 5)
  BY DEF Room
<1>4. 4 \in Nat /\ 5 \in Nat
  OBVIOUS
<1>5. \/ square \in Text(p, game) \/ square \in Text(q, over)
      \/ square \in Text(r, word) \/ square \in Text(s, points)
  BY DEF GameOver
<1> HIDE DEF Codes, game, over, word, points, p, q, r, s
<1>6. square[1] \in Visible /\ square[2] \in Codes
  BY <1>1, <1>2, <1>3, <1>4, <1>5, TextIs, Zenon
<1> QED  BY <1>6 DEF Codes
=============================================================================

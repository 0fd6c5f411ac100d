---------------------------- MODULE BertieProofs ----------------------------
(***************************************************************************)
(* The game of tic-tac-toe against a script: the rules it keeps, the name  *)
(* it announces and the marks it leaves alone, in every game.              *)
(***************************************************************************)
EXTENDS Bertie, FiniteSetTheorems, SequenceTheorems, TLAPS

Boards == [Squares -> {" ", "O", "X"}]

TypeOK ==
  /\ board \in Boards
  /\ script \in Scripts
  /\ pc \in {"player", "over1", "bertie", "over2", "done", "exit"}

Threes ==
  { <<0, 1, 2>>, <<3, 4, 5>>, <<6, 7, 8>>,
    <<0, 3, 6>>, <<1, 4, 7>>, <<2, 5, 8>>, <<0, 4, 8>>, <<2, 4, 6>> }

-----------------------------------------------------------------------------
(* The lists gameOver goes through are the lines of the rules.             *)
LEMMA ChecksThrees ==
  /\ DOMAIN Checked = 1..8
  /\ \A i \in 1..8 : Checked[i] \in Threes
  /\ \A line \in Threes : \E i \in 1..8 : Checked[i] = line
<1> DEFINE Straight == Rows \o Cols
<1>1. /\ Rows \in Seq(Seq(Int)) /\ Len(Rows) = 3
      /\ Cols \in Seq(Seq(Int)) /\ Len(Cols) = 3
      /\ Diagonals \in Seq(Seq(Int)) /\ Len(Diagonals) = 2
  BY DEF Rows, Cols, Diagonals
<1>2. Straight \in Seq(Seq(Int))
  BY <1>1, ConcatProperties, Zenon
<1>3. /\ Len(Straight) = Len(Rows) + Len(Cols)
      /\ \A i \in 1..(Len(Rows) + Len(Cols)) :
            Straight[i] = IF i <= Len(Rows) THEN Rows[i] ELSE Cols[i - Len(Rows)]
  BY <1>1, ConcatProperties, Zenon
<1> HIDE DEF Straight
<1>4. Straight \o Diagonals \in Seq(Seq(Int))
  BY <1>1, <1>2, ConcatProperties, Zenon
<1>5. /\ Len(Straight \o Diagonals) = Len(Straight) + Len(Diagonals)
      /\ \A i \in 1..(Len(Straight) + Len(Diagonals)) :
            (Straight \o Diagonals)[i] = IF i <= Len(Straight) THEN Straight[i]
                                         ELSE Diagonals[i - Len(Straight)]
  BY <1>1, <1>2, ConcatProperties, Zenon
<1>6. Checked = Straight \o Diagonals
  BY DEF Checked, Straight
<1>7. Len(Straight) = 6 /\ \A i \in 1..6 : Straight[i] = IF i <= 3 THEN Rows[i] ELSE Cols[i - 3]
  BY <1>1, <1>3
<1>8. /\ Len(Checked) = 8
      /\ \A i \in 1..8 : Checked[i] = IF i <= 6 THEN Straight[i] ELSE Diagonals[i - 6]
  <2>1. /\ Len(Checked) = Len(Straight) + Len(Diagonals)
        /\ \A i \in 1..(Len(Straight) + Len(Diagonals)) :
            Checked[i] = IF i <= Len(Straight) THEN Straight[i] ELSE Diagonals[i - Len(Straight)]
    BY <1>5, <1>6, Zenon
  <2> QED  BY <1>1, <1>7, <2>1
<1>9. /\ Checked[1] = Rows[1] /\ Checked[2] = Rows[2] /\ Checked[3] = Rows[3]
      /\ Checked[4] = Cols[1] /\ Checked[5] = Cols[2] /\ Checked[6] = Cols[3]
      /\ Checked[7] = Diagonals[1] /\ Checked[8] = Diagonals[2]
  BY <1>7, <1>8
<1>10. /\ Checked[1] = <<0, 1, 2>> /\ Checked[2] = <<3, 4, 5>> /\ Checked[3] = <<6, 7, 8>>
      /\ Checked[4] = <<0, 3, 6>> /\ Checked[5] = <<1, 4, 7>> /\ Checked[6] = <<2, 5, 8>>
      /\ Checked[7] = <<0, 4, 8>> /\ Checked[8] = <<2, 4, 6>>
  BY <1>9 DEF Rows, Cols, Diagonals
<1>11. DOMAIN Checked = 1..8
  <2>1. DOMAIN Checked = 1..Len(Checked)
    BY <1>4, <1>6, LenProperties, Zenon
  <2> QED  BY <1>8, <2>1
<1>12. \A i \in 1..8 : Checked[i] \in Threes
  BY <1>10 DEF Threes
<1>13. \A line \in Threes : \E i \in 1..8 : Checked[i] = line
  BY <1>10 DEF Threes
<1> QED  BY <1>11, <1>12, <1>13

LEMMA LinesAre ==
  Rules!Lines =
    { {0, 1, 2}, {3, 4, 5}, {6, 7, 8}, {0, 3, 6}, {1, 4, 7}, {2, 5, 8}, {0, 4, 8}, {2, 4, 6} }
<1>0. 0..2 = {0, 1, 2}
  OBVIOUS
<1>1. { {3 * r, 3 * r + 1, 3 * r + 2} : r \in 0..2 } = { {0, 1, 2}, {3, 4, 5}, {6, 7, 8} }
  <2>1. { {3 * r, 3 * r + 1, 3 * r + 2} : r \in {0, 1, 2} } =
          { {3 * 0, 3 * 0 + 1, 3 * 0 + 2}, {3 * 1, 3 * 1 + 1, 3 * 1 + 2},
            {3 * 2, 3 * 2 + 1, 3 * 2 + 2} }
    BY Zenon
  <2> QED  BY <1>0, <2>1
<1>2. { {c, c + 3, c + 6} : c \in 0..2 } = { {0, 3, 6}, {1, 4, 7}, {2, 5, 8} }
  <2>1. { {c, c + 3, c + 6} : c \in {0, 1, 2} } =
          { {0, 0 + 3, 0 + 6}, {1, 1 + 3, 1 + 6}, {2, 2 + 3, 2 + 6} }
    BY Zenon
  <2> QED  BY <1>0, <2>1
<1> QED  BY <1>1, <1>2 DEF Rules!Lines

LEMMA LinesAreThrees ==
  /\ \A line \in Threes : {line[1], line[2], line[3]} \in Rules!Lines
  /\ \A line \in Rules!Lines : \E three \in Threes : line = {three[1], three[2], three[3]}
BY LinesAre DEF Threes

LEMMA ThreesInBoard ==
  /\ 0 \in Squares
  /\ \A three \in Threes : three[1] \in Squares /\ three[2] \in Squares /\ three[3] \in Squares
BY DEF Threes, Squares

LEMMA LinesInBoard ==
  ASSUME NEW line \in Rules!Lines
  PROVE  line \subseteq Squares
BY ThreesInBoard, LinesAreThrees

(* A side has won when it fills one of the eight.                          *)
LEMMA WonIs ==
  \A mark : Rules!Won(mark) <=>
    \E line \in Threes : board[line[1]] = mark /\ board[line[2]] = mark /\ board[line[3]] = mark
  BY LinesAreThrees DEF Rules!Won, Rules!Has

-----------------------------------------------------------------------------
(* The end of the game.                                                    *)
LEMMA FullIsWon ==
  ASSUME TypeOK
  PROVE  /\ \A line \in Threes : Full(line) =>
              board[line[1]] \in {"O", "X"} /\ Rules!Won(board[line[1]])
         /\ \A mark \in {"O", "X"} : Rules!Won(mark) =>
              \E line \in Threes : Full(line)
<1>1. \A line \in Threes : line[1] \in Squares /\ line[2] \in Squares /\ line[3] \in Squares
  BY DEF Threes, Squares
<1>2. \A s \in Squares : board[s] \in {" ", "O", "X"}
  BY DEF TypeOK, Boards
<1> QED  BY <1>1, <1>2, WonIs DEF Full

LEMMA Least ==
  ASSUME NEW S \in SUBSET (1..8), S # {}
  PROVE  \E i \in S : \A j \in S : i <= j
<1>1. CASE 1 \in S  BY <1>1
<1>2. CASE 2 \in S /\ 1 \notin S  BY <1>2
<1>3. CASE 3 \in S /\ 1 \notin S /\ 2 \notin S  BY <1>3
<1>4. CASE 4 \in S /\ \A k \in 1..3 : k \notin S  BY <1>4
<1>5. CASE 5 \in S /\ \A k \in 1..4 : k \notin S  BY <1>5
<1>6. CASE 6 \in S /\ \A k \in 1..5 : k \notin S  BY <1>6
<1>7. CASE 7 \in S /\ \A k \in 1..6 : k \notin S  BY <1>7
<1>8. CASE 8 \in S /\ \A k \in 1..7 : k \notin S  BY <1>8
<1>9. \E k \in 1..8 : k \in S  OBVIOUS
<1> QED  BY <1>1, <1>2, <1>3, <1>4, <1>5, <1>6, <1>7, <1>8, <1>9

LEMMA LeastSquare ==
  ASSUME NEW S \in SUBSET (0..8), S # {}
  PROVE  \E i \in S : \A j \in S : i <= j
<1>1. CASE 0 \in S  BY <1>1
<1>2. CASE 0 \notin S
  <2>1. S \in SUBSET (1..8)  BY <1>2
  <2> QED  BY <2>1, Least
<1> QED  BY <1>1, <1>2

(* gameOver goes on just when the game is not over by the rules, and else  *)
(* names the side with a line.                                             *)
LEMMA GameOverNames ==
  ASSUME TypeOK, NEW next, gameOver(next), ~(Rules!Won("O") /\ Rules!Won("X"))
  PROVE  \/ ~Rules!Over /\ pc' = next /\ winner' = winner
         \/ /\ Rules!Over /\ pc' = "done"
            /\ winner' = "PLAYER" <=> Rules!Won("O")
            /\ winner' = "BERTIE" <=> Rules!Won("X")
<1> DEFINE found == {i \in DOMAIN Checked : Full(Checked[i])}
           first == CHOOSE i \in found : \A j \in found : i <= j
<1>1. found \in SUBSET (1..8)
  BY ChecksThrees
<1>2. Rules!Over <=> Free = {} \/ Rules!Won("O") \/ Rules!Won("X")
  BY DEF Rules!Over, Rules!Free, Rules!Marks, Rules!Squares, Free, Squares
<1>3. CASE found # {}
  <2>1. first \in found
    <3>1. \E i \in found : \A j \in found : i <= j
      BY <1>1, <1>3, Least
    <3> QED  BY <3>1, Zenon
  <2>2. Full(Checked[first]) /\ Checked[first] \in Threes
    BY <2>1, ChecksThrees
  <2>3. pc' = "done" /\ winner' = IF board[Checked[first][1]] = "X" THEN "BERTIE" ELSE "PLAYER"
    BY <1>3 DEF gameOver
  <2> HIDE DEF first
  <2>4. board[Checked[first][1]] \in {"O", "X"} /\ Rules!Won(board[Checked[first][1]])
    BY <2>2, FullIsWon
  <2> QED  BY <1>2, <2>3, <2>4
<1>4. CASE found = {}
  <2>1. \A line \in Threes : ~Full(line)
    BY <1>4, ChecksThrees
  <2>2. ~Rules!Won("O") /\ ~Rules!Won("X")
    BY <2>1, FullIsWon
  <2>3. CASE Free = {}
    <3>1. pc' = "done" /\ winner' = "NO ONE"
      BY <1>4, <2>3 DEF gameOver
    <3> QED  BY <1>2, <2>2, <2>3, <3>1
  <2>4. CASE Free # {}
    <3>1. pc' = next /\ winner' = winner
      BY <1>4, <2>4 DEF gameOver
    <3> QED  BY <1>2, <2>2, <2>4, <3>1
  <2> QED  BY <2>3, <2>4
<1> QED  BY <1>3, <1>4

(* A mark put in a free square makes no line of the other side's.          *)
LEMMA OthersLines ==
  ASSUME TypeOK, NEW s \in Free, NEW m \in {"O", "X"}, NEW n \in {"O", "X"}, n # m,
         board' = [board EXCEPT ![s] = m]
  PROVE  Rules!Won(n)' => Rules!Won(n)
<1>1. \A u \in Squares : board'[u] = n => board[u] = n
  BY DEF TypeOK, Boards, Free
<1> QED  BY <1>1, LinesInBoard DEF Rules!Won, Rules!Has

-----------------------------------------------------------------------------
(* What one turn does to the board and to the program's place.             *)
LEMMA PlacedFree ==
  ASSUME TypeOK, ByRule
  PROVE  Placed \in Free
<1>1. CASE 4 \in Free  BY <1>1 DEF Placed
<1>2. CASE 4 \notin Free
  <2>1. NextToDouble # {} /\ NextToDouble \subseteq Free
    BY <1>2 DEF ByRule, NextToDouble
  <2>2. NextToDouble \in SUBSET (0..8)
    BY <2>1 DEF Free, Squares
  <2>3. \E s \in NextToDouble : \A u \in NextToDouble : s <= u
    BY <2>1, <2>2, LeastSquare
  <2>4. Placed \in NextToDouble
    BY <1>2, <2>3 DEF Placed
  <2> QED  BY <2>1, <2>4
<1> QED  BY <1>1, <1>2

(* A turn of either side.                                                  *)
Marked(s, mark) == s \in Free /\ board' = [board EXCEPT ![s] = mark]

Turn ==
  \/ /\ pc = "player" /\ pc' = "over1" /\ winner' = winner
     /\ \E s \in Squares : Marked(s, "O")
  \/ /\ pc = "bertie" /\ pc' = "over2" /\ winner' = winner
     /\ script # "no bertieMove" /\ \E s \in Squares : Marked(s, "X")
  \/ /\ pc = "bertie" /\ pc' = "over2" /\ winner' = winner
     /\ script = "no bertieMove" /\ board' = board
  \/ pc' \in {pc, "exit"} /\ board' = board /\ winner' = winner
  \/ pc = "over1" /\ gameOver("bertie") /\ board' = board
  \/ pc = "over2" /\ gameOver("player") /\ board' = board

LEMMA Turns ==
  ASSUME TypeOK, [Next]_vars
  PROVE  script' = script /\ Turn
<1>0. script' = script
  BY DEF Next, vars
<1>1. CASE PlayerMove
  <2>1. PICK s \in Squares \cup {-1} :
          IF s \in Free THEN board' = [board EXCEPT ![s] = "O"] /\ pc' = "over1"
                        ELSE UNCHANGED <<board, pc>>
    BY <1>1 DEF PlayerMove
  <2>2. CASE s \in Free
    <3>1. Marked(s, "O") /\ s \in Squares /\ pc' = "over1"
      BY <2>1, <2>2 DEF Marked, Free
    <3> QED  BY <1>0, <1>1, <3>1 DEF PlayerMove, Turn
  <2>3. CASE s \notin Free
    BY <1>0, <1>1, <2>1, <2>3 DEF PlayerMove, Turn
  <2> QED  BY <2>2, <2>3
<1>2. CASE Ruled
  <2>1. Marked(Placed, "X") /\ Placed \in Squares
    BY <1>2, PlacedFree DEF Ruled, Crossed, Marked, Free
  <2>2. script # "no bertieMove"
    BY <1>2 DEF Ruled, ByRule
  <2> QED  BY <1>0, <1>2, <2>1, <2>2 DEF Ruled, Turn
<1>3. ASSUME NEW s \in Squares, Guessed(s) PROVE Turn
  <2>1. CASE s \in Free
    <3>1. Marked(s, "X") /\ pc' = "over2"
      BY <1>3, <2>1 DEF Guessed, Guess, Crossed, Marked
    <3> QED  BY <1>3, <3>1 DEF Guessed, Turn
  <2>2. CASE s \notin Free
    BY <1>3, <2>2 DEF Guessed, Guess, Turn
  <2> QED  BY <2>1, <2>2
<1>4. CASE Failed  BY <1>0, <1>4 DEF Failed, Turn
<1>5. CASE CheckAfterPlayer  BY <1>0, <1>5 DEF CheckAfterPlayer, Turn
<1>6. CASE CheckAfterBertie  BY <1>0, <1>6 DEF CheckAfterBertie, Turn
<1>7. CASE Finish  BY <1>0, <1>7 DEF Finish, Turn
<1>8. CASE Exited  BY <1>0, <1>8 DEF Exited, game, Turn
<1>9. CASE UNCHANGED vars  BY <1>0, <1>9 DEF vars, game, Turn
<1> QED
  BY <1>0, <1>1, <1>2, <1>3, <1>4, <1>5, <1>6, <1>7, <1>8, <1>9 DEF Next, BertieMove

LEMMA MarkedBoard ==
  ASSUME TypeOK, NEW s \in Squares, NEW m \in {"O", "X"}, Marked(s, m)
  PROVE  /\ board' \in Boards
         /\ \A u \in Squares : board[u] # " " => board'[u] = board[u]
BY DEF Marked, TypeOK, Boards, Free

LEMMA TypeInvariant == Spec => []TypeOK
<1>1. Init => TypeOK
  BY DEF Init, TypeOK, Boards
<1>2. TypeOK /\ [Next]_vars => TypeOK'
  <2> SUFFICES ASSUME TypeOK, [Next]_vars PROVE TypeOK'
    OBVIOUS
  <2>1. script' = script /\ Turn
    BY Turns
  <2>2. board' \in Boards
    BY <2>1, MarkedBoard DEF Turn, TypeOK
  <2>3. pc' \in {"player", "over1", "bertie", "over2", "done", "exit"}
    <3>1. ASSUME NEW next \in {"player", "bertie"}, gameOver(next)
          PROVE  pc' \in {"player", "bertie", "done"}
      BY <3>1 DEF gameOver
    <3> QED  BY <2>1, <3>1 DEF Turn, TypeOK
  <2> QED  BY <2>1, <2>2, <2>3 DEF TypeOK
<1> QED  BY <1>1, <1>2, PTL DEF Spec

(* Whatever becomes of the call of the script, no mark is ever changed or  *)
(* taken off the board.                                                    *)
THEOREM MarksStand == Spec => MarksStay
<1>1. TypeOK /\ [Next]_vars =>
        [\A s \in Squares : board[s] # " " => board'[s] = board[s]]_vars
  <2> SUFFICES ASSUME TypeOK, [Next]_vars, NEW s \in Squares, board[s] # " "
               PROVE  board'[s] = board[s]
    OBVIOUS
  <2>1. Turn  BY Turns
  <2> QED  BY <2>1, MarkedBoard DEF Turn
<1> QED  BY <1>1, TypeInvariant, PTL DEF Spec, MarksStay

-----------------------------------------------------------------------------
(* Who can have a line when; while either side is asked for a move, the    *)
(* game is not over.                                                       *)
Standing ==
  /\ pc \in {"player", "bertie"} => ~Rules!Over
  /\ pc = "over1" => ~Rules!Won("X")
  /\ pc = "over2" => ~Rules!Won("O")
  /\ NamesTheWinner

LEMMA OverIs ==
  Rules!Over <=> Free = {} \/ Rules!Won("O") \/ Rules!Won("X")
BY DEF Rules!Over, Rules!Free, Rules!Marks, Rules!Squares, Free, Squares

LEMMA BlankIsOpen ==
  ASSUME board \in Boards, \A s \in Squares : board[s] = " "
  PROVE  ~Rules!Over
<1>1. 0 \in Free  BY ThreesInBoard, Zenon DEF Free
<1>2. ~Rules!Won("O") /\ ~Rules!Won("X")  BY ThreesInBoard, WonIs
<1> QED  BY <1>1, <1>2, OverIs

LEMMA SameBoard ==
  ASSUME board' = board
  PROVE  /\ Rules!Over' <=> Rules!Over
         /\ \A mark : Rules!Won(mark)' <=> Rules!Won(mark)
BY DEF Rules!Over, Rules!Free, Rules!Won, Rules!Has

LEMMA StandingInvariant == Spec => []Standing
<1>1. Init => Standing
  <2>1. Init => board \in Boards /\ \A s \in Squares : board[s] = " "  BY DEF Init, Boards
  <2> QED  BY <2>1, BlankIsOpen DEF Init, Standing, NamesTheWinner
<1>2. TypeOK /\ Standing /\ [Next]_vars => Standing'
  <2> SUFFICES ASSUME TypeOK, Standing, [Next]_vars PROVE Standing'
    OBVIOUS
  <2>0. Turn  BY Turns
  <2>1. ASSUME NEW s \in Squares, Marked(s, "O"), pc = "player", pc' = "over1" PROVE Standing'
    <3>1. ~Rules!Won("X")  BY <2>1, OverIs DEF Standing
    <3>2. ~Rules!Won("X")'  BY <2>1, <3>1, OthersLines DEF Marked
    <3> QED  BY <2>1, <3>2 DEF Standing, NamesTheWinner
  <2>2. ASSUME NEW s \in Squares, Marked(s, "X"), pc = "bertie", pc' = "over2" PROVE Standing'
    <3>1. ~Rules!Won("O")  BY <2>2, OverIs DEF Standing
    <3>2. ~Rules!Won("O")'  BY <2>2, <3>1, OthersLines DEF Marked
    <3> QED  BY <2>2, <3>2 DEF Standing, NamesTheWinner
  <2>3. CASE pc = "bertie" /\ pc' = "over2" /\ board' = board
    <3>1. ~Rules!Won("O")'  BY <2>3, OverIs, SameBoard DEF Standing
    <3> QED  BY <2>3, <3>1 DEF Standing, NamesTheWinner
  <2>4. CASE pc' \in {pc, "exit"} /\ board' = board /\ winner' = winner
    BY <2>4, SameBoard DEF Standing, NamesTheWinner
  <2>5. ASSUME NEW now \in {"over1", "over2"}, NEW next \in {"player", "bertie"},
               pc = now, gameOver(next), board' = board
        PROVE  Standing'
    <3>1. ~(Rules!Won("O") /\ Rules!Won("X"))  BY <2>5 DEF Standing
    <3>2. CASE ~Rules!Over /\ pc' = next
      BY <2>5, <3>2, SameBoard DEF Standing, NamesTheWinner
    <3>3. CASE /\ Rules!Over /\ pc' = "done"
               /\ winner' = "PLAYER" <=> Rules!Won("O")
               /\ winner' = "BERTIE" <=> Rules!Won("X")
      BY <2>5, <3>3, SameBoard DEF Standing, NamesTheWinner
    <3> QED  BY <2>5, <3>1, <3>2, <3>3, GameOverNames
  <2> QED  BY <2>0, <2>1, <2>2, <2>3, <2>4, <2>5 DEF Turn
<1> QED  BY <1>1, <1>2, TypeInvariant, PTL DEF Spec

(* The name announced at the end is that of the side with a line, in every *)
(* game with every script, and nobody's just when the board is full        *)
(* without one.                                                            *)
THEOREM WinnerNamed == Spec => []NamesTheWinner
<1>1. Standing => NamesTheWinner
  BY DEF Standing
<1> QED  BY <1>1, StandingInvariant, PTL

-----------------------------------------------------------------------------
(* The marks on the board.                                                 *)
Balanced ==
  script # "no bertieMove" =>
    /\ pc \in {"player", "over2"} => Rules!Count("O") = Rules!Count("X")
    /\ pc \in {"bertie", "over1"} => Rules!Count("O") = Rules!Count("X") + 1

LEMMA SameCardinality ==
  ASSUME NEW S
  PROVE  Rules!Cardinality(S) = Cardinality(S)
BY DEF Rules!Cardinality, Cardinality

LEMMA Countable ==
  ASSUME NEW m
  PROVE  IsFiniteSet({s \in Squares : board[s] = m}) /\ Rules!Count(m) \in Nat
<1>1. IsFiniteSet(0..8)
  <2>1. 0 \in Int /\ 8 \in Int  OBVIOUS
  <2> QED  BY <2>1, FS_Interval, Zenon
<1>2. {s \in Squares : board[s] = m} \subseteq 0..8
  BY Zenon DEF Squares
<1>3. IsFiniteSet({s \in Squares : board[s] = m})
  BY <1>1, <1>2, FS_Subset, Zenon
<1>4. Cardinality({s \in Squares : board[s] = m}) \in Nat
  BY <1>3, FS_CardinalityType, Zenon
<1> QED  BY <1>3, <1>4, SameCardinality, Zenon DEF Rules!Count, Rules!Squares, Squares

LEMMA Uneven == \A n \in Nat : n + 1 # n
OBVIOUS

LEMMA OneMore ==
  ASSUME TypeOK, NEW s \in Squares, NEW m \in {"O", "X"}, NEW n \in {"O", "X"}, n # m,
         Marked(s, m)
  PROVE  Rules!Count(m)' = Rules!Count(m) + 1 /\ Rules!Count(n)' = Rules!Count(n)
<1> DEFINE Those(k) == {u \in Squares : board[u] = k}
           These(k) == {u \in Squares : board'[u] = k}
<1>1. /\ board[s] = " " /\ \A u \in Squares : board'[u] = IF u = s THEN m ELSE board[u]
  BY DEF Marked, TypeOK, Boards, Free
<1>2. These(m) = Those(m) \cup {s} /\ s \notin Those(m)
  BY <1>1
<1>3. These(n) = Those(n)
  BY <1>1
<1>4. /\ Rules!Count(m)' = Cardinality(These(m)) /\ Rules!Count(m) = Cardinality(Those(m))
      /\ Rules!Count(n)' = Cardinality(These(n)) /\ Rules!Count(n) = Cardinality(Those(n))
  BY SameCardinality, Zenon DEF Rules!Count, Rules!Squares, Squares
<1>5. IsFiniteSet(Those(m))
  BY Countable
<1> HIDE DEF These, Those
<1>6. Cardinality(Those(m) \cup {s}) = Cardinality(Those(m)) + 1
  BY <1>2, <1>5, FS_AddElement
<1> QED  BY <1>2, <1>3, <1>4, <1>6

LEMMA SameCount ==
  ASSUME board' = board
  PROVE  \A m : Rules!Count(m)' = Rules!Count(m)
BY DEF Rules!Count

LEMMA BalancedInvariant == Spec => []Balanced
<1>1. Init => Balanced
  <2> SUFFICES ASSUME Init PROVE Rules!Count("O") = Rules!Count("X")
    BY DEF Init, Balanced
  <2>1. {s \in Squares : board[s] = "O"} = {s \in Squares : board[s] = "X"}
    BY DEF Init
  <2> QED  BY <2>1 DEF Rules!Count, Rules!Squares, Squares
<1>2. TypeOK /\ Balanced /\ [Next]_vars => Balanced'
  <2> SUFFICES ASSUME TypeOK, Balanced, [Next]_vars, script # "no bertieMove" PROVE Balanced'
    BY Turns DEF Balanced
  <2>0. Turn /\ script' = script  BY Turns
  <2>1. ASSUME NEW s \in Squares, Marked(s, "O"), pc = "player", pc' = "over1" PROVE Balanced'
    BY <2>0, <2>1, OneMore DEF Balanced
  <2>2. ASSUME NEW s \in Squares, Marked(s, "X"), pc = "bertie", pc' = "over2" PROVE Balanced'
    <3>1. Rules!Count("X")' = Rules!Count("X") + 1 /\ Rules!Count("O")' = Rules!Count("O")
      BY <2>2, OneMore
    <3>2. Rules!Count("O") = Rules!Count("X") + 1
      BY <2>2 DEF Balanced
    <3> QED  BY <2>0, <2>2, <3>1, <3>2 DEF Balanced
  <2>3. CASE pc' \in {pc, "exit"} /\ board' = board
    BY <2>0, <2>3, SameCount DEF Balanced
  <2>4. CASE pc = "over1" /\ gameOver("bertie") /\ board' = board
    <3>1. pc' \in {"done", "bertie"}  BY <2>4 DEF gameOver
    <3> QED  BY <2>0, <2>4, <3>1, SameCount DEF Balanced
  <2>5. CASE pc = "over2" /\ gameOver("player") /\ board' = board
    <3>1. pc' \in {"done", "player"}  BY <2>5 DEF gameOver
    <3> QED  BY <2>0, <2>5, <3>1, SameCount DEF Balanced
  <2> QED  BY <2>0, <2>1, <2>2, <2>3, <2>4, <2>5 DEF Turn
<1> QED  BY <1>1, <1>2, TypeInvariant, PTL DEF Spec

(* Refinement: as long as the script answers, the program plays the game   *)
(* of the rules, whatever the player enters and whichever script it is.    *)
THEOREM RulesKept == Spec => PlaysByTheRules
<1>1. Init => Rules!Init
  BY DEF Init, Rules!Init, Rules!Squares, Squares
<1>2. TypeOK /\ Standing /\ Balanced /\ [Next]_vars =>
        [script # "no bertieMove" => Rules!Next]_board
  <2> SUFFICES ASSUME TypeOK, Standing, Balanced, [Next]_vars, script # "no bertieMove",
                      board' # board
               PROVE  Rules!Next
    OBVIOUS
  <2>1. \/ pc = "player" /\ \E s \in Squares : Marked(s, "O")
        \/ pc = "bertie" /\ \E s \in Squares : Marked(s, "X")
    BY Turns DEF Turn
  <2>2. ~Rules!Over
    BY <2>1 DEF Standing
  <2>3. pc = "player" => Rules!Turn = "O"
    BY DEF Balanced, Rules!Turn
  <2>4. pc = "bertie" => Rules!Turn = "X"
    <3>1. Rules!Count("X") \in Nat  BY Countable, Zenon
    <3>2. Rules!Count("X") + 1 # Rules!Count("X")  BY <3>1, Uneven, Zenon
    <3> QED  BY <3>2 DEF Balanced, Rules!Turn
  <2>5. Rules!Free = Free
    BY DEF Rules!Free, Rules!Squares, Free, Squares
  <2>6. \E s \in Free : board' = [board EXCEPT ![s] = Rules!Turn]
    BY <2>1, <2>3, <2>4 DEF Marked
  <2> QED  BY <2>2, <2>5, <2>6 DEF Rules!Next
<1> QED  BY <1>1, <1>2, TypeInvariant, StandingInvariant, BalancedInvariant, PTL
         DEF Spec, PlaysByTheRules

-----------------------------------------------------------------------------
(* The geometry nextToDouble relies on: a square it finds lies in a line   *)
(* with the double, and once the middle is taken it finds a square of      *)
(* every line that only wants one.                                         *)
Corners == {0, 2, 6, 8}
Beside(s) == AlongRow(s) \/ AlongColumn(s) \/ (s \in Corners /\ AlongDiagonal(s))

LEMMA Neighbours ==
  /\ Beside(0) <=> Double(1, 2) \/ Double(3, 6) \/ Double(4, 8)
  /\ Beside(1) <=> Double(2, 0) \/ Double(4, 7)
  /\ Beside(2) <=> Double(0, 1) \/ Double(5, 8) \/ Double(4, 6)
  /\ Beside(3) <=> Double(4, 5) \/ Double(6, 0)
  /\ Beside(4) <=> Double(5, 3) \/ Double(7, 1)
  /\ Beside(5) <=> Double(3, 4) \/ Double(8, 2)
  /\ Beside(6) <=> Double(7, 8) \/ Double(0, 3) \/ Double(4, 2)
  /\ Beside(7) <=> Double(8, 6) \/ Double(1, 4)
  /\ Beside(8) <=> Double(6, 7) \/ Double(2, 5) \/ Double(4, 0)
BY DEF Beside, Corners, AlongRow, AlongColumn, AlongDiagonal

LEMMA DoubleThreatens ==
  ASSUME TypeOK, NEW s \in Free, NEW a \in Squares, NEW b \in Squares,
         {s, a, b} \in Rules!Lines, Double(a, b)
  PROVE  s \in Threats("O") \/ s \in Threats("X")
<1>1. PICK m \in {"O", "X"} : board[a] = m /\ board[b] = m
  BY DEF Double, TypeOK, Boards
<1>2. s \in {s, a, b} /\ \A u \in {s, a, b} \ {s} : board[u] = m
  BY <1>1
<1>3. s \in Threats(m)
  BY <1>2 DEF Threats
<1> QED  BY <1>3

LEMMA Thirds ==
  /\ {0, 1, 2} \in Rules!Lines /\ {0, 3, 6} \in Rules!Lines /\ {0, 4, 8} \in Rules!Lines
  /\ {1, 2, 0} \in Rules!Lines /\ {1, 4, 7} \in Rules!Lines
  /\ {2, 0, 1} \in Rules!Lines /\ {2, 5, 8} \in Rules!Lines /\ {2, 4, 6} \in Rules!Lines
  /\ {3, 4, 5} \in Rules!Lines /\ {3, 6, 0} \in Rules!Lines
  /\ {4, 5, 3} \in Rules!Lines /\ {4, 7, 1} \in Rules!Lines
  /\ {5, 3, 4} \in Rules!Lines /\ {5, 8, 2} \in Rules!Lines
  /\ {6, 7, 8} \in Rules!Lines /\ {6, 0, 3} \in Rules!Lines /\ {6, 4, 2} \in Rules!Lines
  /\ {7, 8, 6} \in Rules!Lines /\ {7, 1, 4} \in Rules!Lines
  /\ {8, 6, 7} \in Rules!Lines /\ {8, 2, 5} \in Rules!Lines /\ {8, 4, 0} \in Rules!Lines
BY LinesAre

LEMMA BesideThreatens ==
  ASSUME TypeOK, NEW s \in Free, Beside(s)
  PROVE  s \in Threats("O") \/ s \in Threats("X")
<1>0. s \in 0..8 /\ Squares = 0..8
  BY DEF Free, Squares
<1> DEFINE At(k) == \E a, b \in Squares : {k, a, b} \in Rules!Lines /\ Double(a, b)
<1>1. At(s)
  <2>1. CASE s = 0  BY <1>0, <2>1, Neighbours, Thirds
  <2>2. CASE s = 1  BY <1>0, <2>2, Neighbours, Thirds
  <2>3. CASE s = 2  BY <1>0, <2>3, Neighbours, Thirds
  <2>4. CASE s = 3  BY <1>0, <2>4, Neighbours, Thirds
  <2>5. CASE s = 4  BY <1>0, <2>5, Neighbours, Thirds
  <2>6. CASE s = 5  BY <1>0, <2>6, Neighbours, Thirds
  <2>7. CASE s = 6  BY <1>0, <2>7, Neighbours, Thirds
  <2>8. CASE s = 7  BY <1>0, <2>8, Neighbours, Thirds
  <2>9. CASE s = 8  BY <1>0, <2>9, Neighbours, Thirds
  <2> QED  BY <1>0, <2>1, <2>2, <2>3, <2>4, <2>5, <2>6, <2>7, <2>8, <2>9
<1> QED  BY <1>1, DoubleThreatens

Pair(a, b) == Double(a, b) /\ Double(b, a)

LEMMA Wants ==
  ASSUME NEW a, NEW b, NEW c, a # b, a # c, b # c,
         NEW s \in {a, b, c}, \A u \in {a, b, c} \ {s} : board[u] = "O"
  PROVE  (s = a /\ Pair(b, c)) \/ (s = b /\ Pair(a, c)) \/ (s = c /\ Pair(a, b))
<1>1. \A u \in {a, b, c} : u # s => board[u] = "O"
  BY Zenon
<1>2. CASE s = a
  <2>1. board[b] = "O" /\ board[c] = "O"  BY <1>1, <1>2, Zenon
  <2> QED  BY <1>2, <2>1 DEF Pair, Double
<1>3. CASE s = b
  <2>1. board[a] = "O" /\ board[c] = "O"  BY <1>1, <1>3, Zenon
  <2> QED  BY <1>3, <2>1 DEF Pair, Double
<1>4. CASE s = c
  <2>1. board[a] = "O" /\ board[b] = "O"  BY <1>1, <1>4, Zenon
  <2> QED  BY <1>4, <2>1 DEF Pair, Double
<1> QED  BY <1>2, <1>3, <1>4, Zenon

LEMMA ThreatenedIsBeside ==
  ASSUME NEW s \in 0..8, s \in Threats("O"), s # 4
  PROVE  Beside(s)
<1>1. PICK line \in Rules!Lines : s \in line /\ \A u \in line \ {s} : board[u] = "O"
  BY DEF Threats
<1>2. CASE line = {0, 1, 2}
  <2>0. (s = 0 /\ Pair(1, 2)) \/ (s = 1 /\ Pair(0, 2)) \/ (s = 2 /\ Pair(0, 1))
    BY <1>1, <1>2, Wants
  <2>1. CASE s = 0 /\ Pair(1, 2)  BY <2>1, Neighbours, Zenon DEF Pair
  <2>2. CASE s = 1 /\ Pair(0, 2)  BY <2>2, Neighbours, Zenon DEF Pair
  <2>3. CASE s = 2 /\ Pair(0, 1)  BY <2>3, Neighbours, Zenon DEF Pair
  <2> QED  BY <2>0, <2>1, <2>2, <2>3
<1>3. CASE line = {3, 4, 5}
  <2>0. (s = 3 /\ Pair(4, 5)) \/ (s = 4 /\ Pair(3, 5)) \/ (s = 5 /\ Pair(3, 4))
    BY <1>1, <1>3, Wants
  <2>1. CASE s = 3 /\ Pair(4, 5)  BY <2>1, Neighbours, Zenon DEF Pair
  <2>2. CASE s = 4 /\ Pair(3, 5)  BY <2>2, Neighbours, Zenon DEF Pair
  <2>3. CASE s = 5 /\ Pair(3, 4)  BY <2>3, Neighbours, Zenon DEF Pair
  <2> QED  BY <2>0, <2>1, <2>2, <2>3
<1>4. CASE line = {6, 7, 8}
  <2>0. (s = 6 /\ Pair(7, 8)) \/ (s = 7 /\ Pair(6, 8)) \/ (s = 8 /\ Pair(6, 7))
    BY <1>1, <1>4, Wants
  <2>1. CASE s = 6 /\ Pair(7, 8)  BY <2>1, Neighbours, Zenon DEF Pair
  <2>2. CASE s = 7 /\ Pair(6, 8)  BY <2>2, Neighbours, Zenon DEF Pair
  <2>3. CASE s = 8 /\ Pair(6, 7)  BY <2>3, Neighbours, Zenon DEF Pair
  <2> QED  BY <2>0, <2>1, <2>2, <2>3
<1>5. CASE line = {0, 3, 6}
  <2>0. (s = 0 /\ Pair(3, 6)) \/ (s = 3 /\ Pair(0, 6)) \/ (s = 6 /\ Pair(0, 3))
    BY <1>1, <1>5, Wants
  <2>1. CASE s = 0 /\ Pair(3, 6)  BY <2>1, Neighbours, Zenon DEF Pair
  <2>2. CASE s = 3 /\ Pair(0, 6)  BY <2>2, Neighbours, Zenon DEF Pair
  <2>3. CASE s = 6 /\ Pair(0, 3)  BY <2>3, Neighbours, Zenon DEF Pair
  <2> QED  BY <2>0, <2>1, <2>2, <2>3
<1>6. CASE line = {1, 4, 7}
  <2>0. (s = 1 /\ Pair(4, 7)) \/ (s = 4 /\ Pair(1, 7)) \/ (s = 7 /\ Pair(1, 4))
    BY <1>1, <1>6, Wants
  <2>1. CASE s = 1 /\ Pair(4, 7)  BY <2>1, Neighbours, Zenon DEF Pair
  <2>2. CASE s = 4 /\ Pair(1, 7)  BY <2>2, Neighbours, Zenon DEF Pair
  <2>3. CASE s = 7 /\ Pair(1, 4)  BY <2>3, Neighbours, Zenon DEF Pair
  <2> QED  BY <2>0, <2>1, <2>2, <2>3
<1>7. CASE line = {2, 5, 8}
  <2>0. (s = 2 /\ Pair(5, 8)) \/ (s = 5 /\ Pair(2, 8)) \/ (s = 8 /\ Pair(2, 5))
    BY <1>1, <1>7, Wants
  <2>1. CASE s = 2 /\ Pair(5, 8)  BY <2>1, Neighbours, Zenon DEF Pair
  <2>2. CASE s = 5 /\ Pair(2, 8)  BY <2>2, Neighbours, Zenon DEF Pair
  <2>3. CASE s = 8 /\ Pair(2, 5)  BY <2>3, Neighbours, Zenon DEF Pair
  <2> QED  BY <2>0, <2>1, <2>2, <2>3
<1>8. CASE line = {0, 4, 8}
  <2>0. (s = 0 /\ Pair(4, 8)) \/ (s = 4 /\ Pair(0, 8)) \/ (s = 8 /\ Pair(0, 4))
    BY <1>1, <1>8, Wants
  <2>1. CASE s = 0 /\ Pair(4, 8)  BY <2>1, Neighbours, Zenon DEF Pair
  <2>2. CASE s = 8 /\ Pair(0, 4)  BY <2>2, Neighbours, Zenon DEF Pair
  <2> QED  BY <2>0, <2>1, <2>2
<1>9. CASE line = {2, 4, 6}
  <2>0. (s = 2 /\ Pair(4, 6)) \/ (s = 4 /\ Pair(2, 6)) \/ (s = 6 /\ Pair(2, 4))
    BY <1>1, <1>9, Wants
  <2>1. CASE s = 2 /\ Pair(4, 6)  BY <2>1, Neighbours, Zenon DEF Pair
  <2>2. CASE s = 6 /\ Pair(2, 4)  BY <2>2, Neighbours, Zenon DEF Pair
  <2> QED  BY <2>0, <2>1, <2>2
<1> QED  BY <1>2, <1>3, <1>4, <1>5, <1>6, <1>7, <1>8, <1>9, LinesAre

-----------------------------------------------------------------------------
(* ty.js takes the middle if the player has left it, so that where it      *)
(* looks for doubles the middle is taken.                                  *)
MiddleFirst ==
  (script = "ty.js" /\ 4 \in Free) =>
    /\ pc = "player" => \A s \in Squares : board[s] = " "
    /\ pc \in {"over1", "bertie"} =>
         \E s \in Squares : \A u \in Squares \ {s} : board[u] = " "
    /\ pc # "over2"

LEMMA TyMoves ==
  ASSUME TypeOK, Next, script = "ty.js", pc = "bertie", pc' = "over2"
  PROVE  ByRule => board' = [board EXCEPT ![Placed] = "X"]
<1> SUFFICES ASSUME ByRule PROVE board' = [board EXCEPT ![Placed] = "X"]
  OBVIOUS
<1>1. BertieMove
  BY DEF Next, PlayerMove, CheckAfterPlayer, CheckAfterBertie, Finish, Exited
<1>2. Ruled
  BY <1>1 DEF BertieMove, Guessed, Failed
<1> QED  BY <1>2 DEF Ruled, Crossed

LEMMA FourIsSquare == 4 \in Squares
BY DEF Squares

LEMMA MiddleInvariant == Spec => []MiddleFirst
<1>1. Init => MiddleFirst
  BY Zenon DEF Init, MiddleFirst
<1>2. TypeOK /\ MiddleFirst /\ [Next]_vars => MiddleFirst'
  <2> SUFFICES ASSUME TypeOK, MiddleFirst, [Next]_vars, script' = "ty.js", 4 \in Free'
               PROVE  /\ pc' = "player" => \A s \in Squares : board'[s] = " "
                      /\ pc' \in {"over1", "bertie"} =>
                           \E s \in Squares : \A u \in Squares \ {s} : board'[u] = " "
                      /\ pc' # "over2"
    BY DEF MiddleFirst
  <2>0. Turn /\ script = "ty.js"  BY Turns
  <2>1. ASSUME NEW s \in Squares, Marked(s, "O"), pc = "player", pc' = "over1"
        PROVE  \A u \in Squares \ {s} : board'[u] = " "
    <3>1. \A u \in Squares : board[u] # " " => board'[u] # " "
      BY <2>1, MarkedBoard
    <3>2. 4 \in Free  BY <3>1, FourIsSquare DEF Free
    <3>3. \A u \in Squares : board[u] = " "
      BY <2>0, <2>1, <3>2 DEF MiddleFirst
    <3> QED  BY <2>1, <3>3 DEF Marked, TypeOK, Boards
  <2>2. ASSUME NEW s \in Squares, Marked(s, "X"), pc = "bertie", pc' = "over2"
        PROVE  FALSE
    <3>1. \A u \in Squares : board[u] # " " => board'[u] # " "
      BY <2>2, MarkedBoard
    <3>2. 4 \in Free  BY <3>1, FourIsSquare DEF Free
    <3>3. Next  BY <2>2 DEF vars, game
    <3>4. board' = [board EXCEPT ![4] = "X"]
      BY <2>0, <2>2, <3>2, <3>3, TyMoves DEF ByRule, Placed
    <3>5. board'[4] = "X"  BY <3>4, FourIsSquare DEF TypeOK, Boards
    <3> QED  BY <3>5 DEF Free
  <2>3. CASE board' = board
    <3>1. 4 \in Free  BY <2>3 DEF Free
    <3>2. pc # "over2"  BY <2>0, <3>1 DEF MiddleFirst
    <3>3. CASE pc' \in {pc, "exit"}  BY <2>0, <2>3, <3>1, <3>2, <3>3 DEF MiddleFirst
    <3>4. CASE pc = "over1" /\ gameOver("bertie")
      <4>1. pc' \in {"done", "bertie"}  BY <3>4 DEF gameOver
      <4> QED  BY <2>0, <2>3, <3>1, <3>4, <4>1 DEF MiddleFirst
    <3> QED  BY <2>0, <3>2, <3>3, <3>4, <2>1, <2>2 DEF Turn
  <2> QED  BY <2>0, <2>1, <2>2, <2>3 DEF Turn
<1> QED  BY <1>1, <1>2, TypeInvariant, PTL DEF Spec

(* Where ty.js is asked while the player threatens a line, it completes    *)
(* its own or takes a square the player needs.                             *)
LEMMA TyAnswers ==
  ASSUME TypeOK, MiddleFirst, Next, script = "ty.js", pc = "bertie", pc' = "over2",
         NEW t \in Threats("O")
  PROVE  Rules!Won("X")' \/ \E s \in Threats("O") : board'[s] = "X"
<1>1. t \in Free /\ t \in 0..8
  BY DEF Threats, Free, Squares
<1>2. 4 \notin Free
  <2> SUFFICES ASSUME 4 \in Free PROVE FALSE
    OBVIOUS
  <2>1. PICK s \in Squares : \A u \in Squares \ {s} : board[u] = " "
    BY DEF MiddleFirst
  <2>2. PICK line \in Rules!Lines : t \in line /\ \A u \in line \ {t} : board[u] = "O"
    BY DEF Threats
  <2>3. PICK u \in line \ {t}, w \in line \ {t} : u # w
    <3>1. CASE line \in { {0, 1, 2}, {3, 4, 5}, {6, 7, 8} }  BY <1>1, <2>2, <3>1
    <3>2. CASE line \in { {0, 3, 6}, {1, 4, 7}, {2, 5, 8} }  BY <1>1, <2>2, <3>2
    <3>3. CASE line \in { {0, 4, 8}, {2, 4, 6} }  BY <1>1, <2>2, <3>3
    <3> QED  BY <3>1, <3>2, <3>3, LinesAre
  <2>4. u \in Squares /\ w \in Squares  BY <2>3, LinesInBoard
  <2>5. board[u] = "O" /\ board[w] = "O"  BY <2>2, <2>3, Zenon
  <2>6. u = s  BY <2>1, <2>4, <2>5
  <2>7. w = s  BY <2>1, <2>4, <2>5
  <2> QED  BY <2>3, <2>6, <2>7
<1>3. Beside(t)
  BY <1>1, <1>2, ThreatenedIsBeside
<1>4. NextToDouble # {} /\ \A s \in NextToDouble : s \in Free /\ Beside(s)
  <2>1. Free \cap {0, 2, 6, 8} = {s \in Free : s \in Corners}
    BY DEF Corners
  <2> QED  BY <1>1, <1>3, <2>1 DEF NextToDouble, Beside
<1>5. board' = [board EXCEPT ![Placed] = "X"]
  BY <1>4, TyMoves DEF ByRule
<1>6. Placed \in NextToDouble
  <2>1. NextToDouble \in SUBSET (0..8)  BY <1>4 DEF Free, Squares
  <2>2. \E s \in NextToDouble : \A u \in NextToDouble : s <= u
    BY <1>4, <2>1, LeastSquare
  <2> QED  BY <1>2, <2>2 DEF Placed
<1>7. Placed \in Free /\ Beside(Placed) /\ Placed \in Squares
  BY <1>4, <1>6 DEF Free
<1> DEFINE p == Placed
<1> HIDE DEF p
<1>8. p \in Threats("O") \/ p \in Threats("X")
  BY <1>7, BesideThreatens DEF p
<1>9. board'[p] = "X" /\ \A u \in Squares : u # p => board'[u] = board[u]
  BY <1>5, <1>7 DEF p, TypeOK, Boards
<1>10. CASE p \in Threats("O")  BY <1>9, <1>10
<1>11. CASE p \in Threats("X")
  <2>1. PICK line \in Rules!Lines : p \in line /\ \A u \in line \ {p} : board[u] = "X"
    BY <1>11 DEF Threats
  <2>2. \A u \in line : board'[u] = "X"
    BY <1>9, <2>1, LinesInBoard
  <2> QED  BY <2>2 DEF Rules!Won, Rules!Has
<1> QED  BY <1>8, <1>10, <1>11

(* "plays next to a double to either win, or stop player" (ty.js), in      *)
(* every game against that script.                                         *)
THEOREM TyStands == Spec => TyStopsPlayer
<1>1. TypeOK /\ MiddleFirst /\ [Next]_vars =>
        [ (script = "ty.js" /\ pc = "bertie" /\ pc' = "over2" /\ Threats("O") # {}) =>
            \/ Rules!Won("X")'
            \/ \E s \in Threats("O") : board'[s] = "X" ]_vars
  BY TyAnswers
<1> QED  BY <1>1, TypeInvariant, MiddleInvariant, PTL DEF Spec, TyStopsPlayer
=============================================================================

------------------------------- MODULE Bertie -------------------------------
(***************************************************************************)
(* Bertie the Brain: the C program keeps the board and asks the player and *)
(* a script in turn; the script, ty.js or randy.js, gets the board as a    *)
(* string of nine characters and returns it with one more cross in it.     *)
(* Rows and columns of the board are squares 3 * row + column here, which  *)
(* is how boardToString lays them out.                                     *)
(***************************************************************************)
EXTENDS FiniteSets, Integers, Sequences

CONSTANT
  Scripts  \* the files the program may be started with

ASSUME BertieAssumption == Scripts \subseteq {"ty.js", "randy.js", "no bertieMove"}

VARIABLES
  script,    \* argv[1]
  board,     \* board[3][3] of as2.c, also boardString between two calls
  winner,
  pc         \* what main does next

game == <<board, winner, pc>>
vars == <<script, game>>

Squares == 0..8
Free == {s \in Squares : board[s] = " "}

-----------------------------------------------------------------------------
(* gameOver looks at rows, columns, the two diagonals and then for a free  *)
(* square, and names the winner of the first line it finds.                *)
Rows == << <<0, 1, 2>>, <<3, 4, 5>>, <<6, 7, 8>> >>
Cols == << <<0, 3, 6>>, <<1, 4, 7>>, <<2, 5, 8>> >>
Diagonals == << <<0, 4, 8>>, <<2, 4, 6>> >>
Checked == Rows \o Cols \o Diagonals

Full(line) == /\ board[line[1]] # " "
              /\ board[line[1]] = board[line[2]] /\ board[line[1]] = board[line[3]]

(* Mutated form: a full board without a line does not end the game.        *)
gameOverNoTie(next) ==
  LET found == {i \in DOMAIN Checked : Full(Checked[i])}
  IN  IF found # {}
      THEN /\ pc' = "done"
           /\ winner' = IF board[Checked[CHOOSE i \in found : TRUE][1]] = "X"
                        THEN "BERTIE" ELSE "PLAYER"
      ELSE pc' = next /\ UNCHANGED winner

(* Mutated form: only rows and columns are looked at.                      *)
gameOverNoDiagonals(next) ==
  LET found == {i \in 1..6 : Full(Checked[i])}
  IN  CASE found # {} ->
             /\ pc' = "done"
             /\ winner' = IF board[Checked[CHOOSE i \in found : TRUE][1]] = "X"
                          THEN "BERTIE" ELSE "PLAYER"
        [] found = {} /\ Free = {} -> pc' = "done" /\ winner' = "NO ONE"
        [] found = {} /\ Free # {} -> pc' = next /\ UNCHANGED winner

gameOver(next) ==
  LET found == {i \in DOMAIN Checked : Full(Checked[i])}
      first == CHOOSE i \in found : \A j \in found : i <= j
  IN  CASE found # {} ->
             /\ pc' = "done"
             /\ winner' = IF board[Checked[first][1]] = "X" THEN "BERTIE" ELSE "PLAYER"
        [] found = {} /\ Free = {} -> pc' = "done" /\ winner' = "NO ONE"
        [] found = {} /\ Free # {} -> pc' = next /\ UNCHANGED winner

-----------------------------------------------------------------------------
(* The scripts. *)

(* Squares next to a double of either side, as nextToDouble looks for one: *)
(* row by row, for each square first along its row, then along its column; *)
(* the corners of the diagonals come last, in the order 0, 2, 6, 8.        *)
Double(a, b) == board[a] = board[b] /\ board[a] # " "

AlongRow(s) ==
  LET r == 3 * (s \div 3) IN Double(r + ((s + 1) % 3), r + ((s + 2) % 3))
AlongColumn(s) == Double((s + 3) % 9, (s + 6) % 9)
AlongDiagonal(s) == Double(4, 8 - s)

(* Mutated form: the columns are not looked at.                            *)
NextToDoubleRows ==
  {s \in Free : AlongRow(s)} \cup {s \in Free \cap {0, 2, 6, 8} : AlongDiagonal(s)}

NextToDouble ==
  LET straight == {s \in Free : AlongRow(s) \/ AlongColumn(s)}
  IN  IF straight # {} THEN straight
                       ELSE {s \in Free \cap {0, 2, 6, 8} : AlongDiagonal(s)}

Crossed(s) == board' = [board EXCEPT ![s] = "X"]

(* Mutated form: the square is not looked at.                              *)
GuessAny(s) == Crossed(s) /\ pc' = "over2"

(* The random loop: it draws a square, and again until it is a free one.   *)
Guess(s) == IF s \in Free THEN Crossed(s) /\ pc' = "over2"
                          ELSE UNCHANGED <<board, pc>>

ByRule == script = "ty.js" /\ (4 \in Free \/ NextToDouble # {})

Placed ==
  IF 4 \in Free THEN 4 ELSE CHOOSE s \in NextToDouble : \A u \in NextToDouble : s <= u

-----------------------------------------------------------------------------
(* A file that cannot be evaluated ends the program before the game; one   *)
(* that can need not define bertieMove.                                    *)
Init ==
  /\ script \in Scripts
  /\ board = [s \in Squares |-> " "]
  /\ winner = ""
  /\ pc = "player"

(* A letter and a number outside the board, or a square that is taken, end *)
(* in errorMove, which asks again.                                         *)
PlayerMove ==
  /\ pc = "player"
  /\ \E s \in Squares \cup {-1} :
        IF s \in Free THEN board' = [board EXCEPT ![s] = "O"] /\ pc' = "over1"
                      ELSE UNCHANGED <<board, pc>>
  /\ UNCHANGED winner

Ruled == pc = "bertie" /\ ByRule /\ Crossed(Placed) /\ pc' = "over2" /\ UNCHANGED winner

Guessed(s) ==
  /\ pc = "bertie" /\ script # "no bertieMove" /\ ~ByRule
  /\ Guess(s) /\ UNCHANGED winner

(* Mutated form: what came back is read into the board all the same.       *)
FailedLost ==
  /\ script = "no bertieMove" /\ pc = "bertie"
  /\ pc' = "over2" /\ board' = [s \in Squares |-> " "] /\ UNCHANGED winner

(* A call that raised an error leaves boardString as it was sent, and the  *)
(* board is read back from it.                                             *)
Failed ==
  /\ script = "no bertieMove" /\ pc = "bertie"
  /\ pc' = "over2" /\ UNCHANGED <<board, winner>>

BertieMove == Ruled \/ (\E s \in Squares : Guessed(s)) \/ Failed

CheckAfterPlayer == pc = "over1" /\ gameOver("bertie") /\ UNCHANGED board
CheckAfterBertie == pc = "over2" /\ gameOver("player") /\ UNCHANGED board

(* The end of the game, or the interrupt key at any time: both end in      *)
(* finish, which leaves the program.                                       *)
Finish == pc # "exit" /\ pc' = "exit" /\ UNCHANGED <<board, winner>>

Exited == pc = "exit" /\ UNCHANGED game

Next ==
  /\ \/ PlayerMove \/ BertieMove
     \/ CheckAfterPlayer \/ CheckAfterBertie
     \/ Finish \/ Exited
  /\ UNCHANGED script

(* The program runs on; a square that can be drawn again and again is      *)
(* drawn in the end.  Nothing makes the player move.                       *)
Fairness ==
  /\ WF_vars((Ruled \/ Failed \/ CheckAfterPlayer \/ CheckAfterBertie) /\ UNCHANGED script)
  /\ \A s \in Squares : WF_vars(Guessed(s) /\ UNCHANGED script)

Spec == Init /\ [][Next]_vars /\ Fairness

-----------------------------------------------------------------------------
Rules == INSTANCE TicTacToe

(* The program and a script that answers play the game TicTacToe           *)
(* describes: moves alternate, no mark is overwritten, and play stops with *)
(* the first line.                                                         *)
PlaysByTheRules ==
  Rules!Init /\ [][ script # "no bertieMove" => Rules!Next ]_board

(* The name that is announced is that of the side with a line, and nobody's *)
(* only when there is none.                                                *)
NamesTheWinner ==
  pc = "done" =>
    /\ winner = "PLAYER" <=> Rules!Won("O")
    /\ winner = "BERTIE" <=> Rules!Won("X")
    /\ Rules!Over

(* Whatever comes of the call, a mark stays on the board.                  *)
MarksStay == [][ \A s \in Squares : board[s] # " " => board'[s] = board[s] ]_vars

(* The script is never left looking for a free square on a full board.     *)
BertieAnswers == (pc = "bertie") ~> (pc # "bertie")

(* "plays next to a double to either win, or stop player" (ty.js): where   *)
(* the player threatens to complete a line when Bertie is asked, Bertie    *)
(* wins at once or takes one of the threatened squares.                    *)
Threats(mark) ==
  {s \in Free : \E line \in Rules!Lines :
      s \in line /\ \A u \in line \ {s} : board[u] = mark}

TyStopsPlayer ==
  [][ (script = "ty.js" /\ pc = "bertie" /\ pc' = "over2" /\ Threats("O") # {}) =>
        \/ Rules!Won("X")'
        \/ \E s \in Threats("O") : board'[s] = "X" ]_vars
=============================================================================

----------------------------- MODULE TicTacToe -----------------------------
(***************************************************************************)
(* What a game against Bertie promises: the player's noughts and Bertie's  *)
(* crosses alternate, the player first, each in a free square, and nobody  *)
(* moves once there are three in a row.                                    *)
(***************************************************************************)
EXTENDS FiniteSets, Integers

VARIABLE board

Squares == 0..8
Marks == {"O", "X"}

Lines ==
  { {3 * r, 3 * r + 1, 3 * r + 2} : r \in 0..2 } \cup
  { {c, c + 3, c + 6} : c \in 0..2 } \cup
  { {0, 4, 8}, {2, 4, 6} }

Free == {s \in Squares : board[s] = " "}
Count(mark) == Cardinality({s \in Squares : board[s] = mark})
Has(mark, line) == \A s \in line : board[s] = mark
Won(mark) == \E line \in Lines : Has(mark, line)

Over == Free = {} \/ \E mark \in Marks : Won(mark)

Turn == IF Count("O") = Count("X") THEN "O" ELSE "X"

Init == board = [s \in Squares |-> " "]

Next == ~Over /\ \E s \in Free : board' = [board EXCEPT ![s] = Turn]

Spec == Init /\ [][Next]_board
=============================================================================

-------------------------------- MODULE Grid ---------------------------------
(***************************************************************************)
(* The board of the game (domain/board.py): cells, moves and distances.    *)
(* A cell is a pair <<row, column>>.                                       *)
(***************************************************************************)
EXTENDS Integers

CONSTANT Size  \* the board is Size x Size

ASSUME SizeAssumption == Size \in Nat \ {0}

Cell == (0 .. Size - 1) \X (0 .. Size - 1)

Moves == {"N", "S", "E", "W", "STAY"}

\* The cell a move leads to, on the board or not.
Destination(cell, move) ==
    CASE move = "N" -> <<cell[1] - 1, cell[2]>>
      [] move = "S" -> <<cell[1] + 1, cell[2]>>
      [] move = "W" -> <<cell[1], cell[2] - 1>>
      [] move = "E" -> <<cell[1], cell[2] + 1>>
      [] OTHER -> cell

Gap(i, j) == IF i < j THEN j - i ELSE i - j
Distance(a, b) == Gap(a[1], b[1]) + Gap(a[2], b[2])

Neighbors(cell) == {c \in Cell : Distance(c, cell) = 1}
=============================================================================

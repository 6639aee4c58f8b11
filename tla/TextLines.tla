------------------------------ MODULE TextLines ------------------------------
(***************************************************************************)
(* What a text editor promises: the text is a sequence of lines, the       *)
(* cursor stands in one of them, and a key changes the text where the      *)
(* cursor stands and nowhere else.                                         *)
(***************************************************************************)
EXTENDS Integers, Sequences

CONSTANTS Letters, Capacity

VARIABLES
  lines, row, col,  \* the text, and the cursor in it
  size,             \* its length, a line break counting as one
  marked            \* "there are unsaved changes"

vars == <<lines, row, col, size, marked>>

Lesser(m, n) == IF m < n THEN m ELSE n

Before  == SubSeq(lines[row], 1, col)
After   == SubSeq(lines[row], col + 1, Len(lines[row]))
Above   == SubSeq(lines, 1, row - 1)
Below   == SubSeq(lines, row + 1, Len(lines))

Init == lines = << <<>> >> /\ row = 1 /\ col = 0 /\ size = 0 /\ marked = FALSE

Place(r, c) == row' = r /\ col' = c
Changed(text, by) == lines' = text /\ size' = size + by /\ marked' = TRUE
Moved(r, c) == Place(r, c) /\ UNCHANGED <<lines, size, marked>>

Letter(c) ==
  /\ size < Capacity
  /\ Changed(Above \o <<Before \o <<c>> \o After>> \o Below, 1) /\ Place(row, col + 1)

Break ==
  /\ size < Capacity
  /\ Changed(Above \o <<Before, After>> \o Below, 1) /\ Place(row + 1, 0)

\* The letter before the cursor, or the break above it, goes; and so after it.
Erase ==
  \/ /\ col > 0
     /\ Changed(Above \o <<SubSeq(lines[row], 1, col - 1) \o After>> \o Below, -1)
     /\ Place(row, col - 1)
  \/ /\ col = 0 /\ row > 1
     /\ Changed(SubSeq(lines, 1, row - 2) \o <<lines[row - 1] \o lines[row]>> \o Below, -1)
     /\ Place(row - 1, Len(lines[row - 1]))

Delete ==
  \/ /\ col < Len(lines[row])
     /\ Changed(Above \o <<Before \o Tail(After)>> \o Below, -1)
     /\ Place(row, col)
  \/ /\ col = Len(lines[row]) /\ row < Len(lines)
     /\ Changed(Above \o <<lines[row] \o lines[row + 1]>> \o Tail(Below), -1)
     /\ Place(row, col)

Up   == row > 1 /\ Moved(row - 1, Lesser(col, Len(lines[row - 1])))
Down == row < Len(lines) /\ Moved(row + 1, Lesser(col, Len(lines[row + 1])))

Left ==
  \/ col > 0 /\ Moved(row, col - 1)
  \/ col = 0 /\ row > 1 /\ Moved(row - 1, Len(lines[row - 1]))

Right ==
  \/ col < Len(lines[row]) /\ Moved(row, col + 1)
  \/ col = Len(lines[row]) /\ row < Len(lines) /\ Moved(row + 1, 0)

Home == Moved(row, 0)
End  == Moved(row, Len(lines[row]))

Saved == marked' = FALSE /\ UNCHANGED <<lines, row, col, size>>

Next ==
  \/ \E c \in Letters : Letter(c)
  \/ Break \/ Erase \/ Delete \/ Up \/ Down \/ Left \/ Right \/ Home \/ End
  \/ Saved

Spec == Init /\ [][Next]_vars
=============================================================================

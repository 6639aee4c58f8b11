----------------------------- MODULE KateEditor -----------------------------
(***************************************************************************)
(* The editor of kernel/desktop.c: one buffer of bytes, a position in it,  *)
(* and line arithmetic that is done afresh by every key.  Its loop draws,  *)
(* then reads a key; an action is a key together with the draw after it.   *)
(* The editor is only ever opened on an empty buffer.                      *)
(***************************************************************************)
EXTENDS Integers, FiniteSets, SequencesExt

CONSTANTS
  Letters,      \* printable characters
  MaxLen,       \* KATE_MAXBUF - 1
  Rows, Cols    \* KATE_VROWS and KATE_VCOLS, the text part of the window

NL == "newline"
Chars == Letters \cup {NL}

ASSUME EditorAssumption ==
  /\ NL \notin Letters
  /\ {MaxLen, Rows, Cols} \subseteq Nat \ {0}

VARIABLES
  buf,          \* kate_buf up to kate_len
  pos,          \* kate_pos
  top,          \* kate_vscroll, the first line in the window
  mod           \* kate_mod

vars == <<buf, pos, top, mod>>

------------------------------------------------------------------------------
(* Lines, counted from 0.  Byte i of the buffer is b[i + 1]. *)

LineOf(b, p) == Cardinality({i \in 1..p : b[i] = NL})
ColOf(b, p)  == p - Max({0} \cup {i \in 1..p : b[i] = NL})

\* Beyond the last line it is the end of the buffer.
LineStart(b, n) ==
  IF n = 0 THEN 0
  ELSE Min({Len(b)} \cup {i \in DOMAIN b : b[i] = NL /\ LineOf(b, i) = n})

\* Where the line ends that goes on at byte s.
EndAfter(b, s) == Min({Len(b)} \cup {i \in s..(Len(b) - 1) : b[i + 1] = NL})

LineEnd(b, n) == EndAfter(b, LineStart(b, n))

Lesser(m, n) == IF m < n THEN m ELSE n

\* Mutant: lets the cursor's line go one row below the window.
ScrolledLate(t, line) ==
  IF line < t THEN line ELSE IF line > t + Rows THEN line - Rows + 1 ELSE t

\* The scroll adjustment of kate_draw.
Scrolled(t, line) ==
  IF line < t THEN line ELSE IF line >= t + Rows THEN line - Rows + 1 ELSE t

\* The byte at which kate_draw leaves off after r rows, t the first line in the window.
RowStarts(b, t) ==
  LET from[r \in 0..Rows] ==
        IF r = 0 THEN LineStart(b, t) ELSE Lesser(Len(b), EndAfter(b, from[r - 1]) + 1)
  IN  from

\* The rows of text it paints, each from where the row above left off.
Window(b, t) ==
  [r \in 1..Rows |->
     LET s == RowStarts(b, t)[r - 1]
     IN  SubSeq(b, s + 1, Lesser(EndAfter(b, s), s + Cols))]

\* The hardware cursor, as row and column of the window.
CursorAt == <<LineOf(buf, pos) - top, Lesser(ColOf(buf, pos), Cols - 1)>>

------------------------------------------------------------------------------
(* The keys of run_kate *)

Init == buf = <<>> /\ pos = 0 /\ top = 0 /\ mod = FALSE

\* The draw that ends every turn of the loop.
Draw == top' = Scrolled(top, LineOf(buf', pos'))

MoveTo(p) == pos' = p /\ UNCHANGED <<buf, mod>> /\ Draw
Alter(b, p) == buf' = b /\ pos' = p /\ mod' = TRUE /\ Draw

Insert(c) == Len(buf) < MaxLen /\ Alter(InsertAt(buf, pos + 1, c), pos + 1)

Backspace == pos > 0 /\ Alter(RemoveAt(buf, pos), pos - 1)
DelKey    == pos < Len(buf) /\ Alter(RemoveAt(buf, pos + 1), pos)

\* Mutant: the column is kept even if the line above is shorter.
MoveUpStraight ==
  LET n == LineOf(buf, pos)
  IN  n > 0 /\ MoveTo(LineStart(buf, n - 1) + ColOf(buf, pos))

MoveUp ==
  LET n     == LineOf(buf, pos)
      above == LineStart(buf, n - 1)
  IN  n > 0 /\ MoveTo(above + Lesser(ColOf(buf, pos), LineEnd(buf, n - 1) - above))

\* The way down is barred where no line starts; but a text may end in a newline.
MoveDown ==
  LET n     == LineOf(buf, pos)
      below == LineStart(buf, n + 1)
  IN  /\ below < Len(buf) \/ (buf # <<>> /\ Last(buf) = NL)
      /\ MoveTo(below + Lesser(ColOf(buf, pos), LineEnd(buf, n + 1) - below))

Left  == pos > 0 /\ MoveTo(pos - 1)
Right == pos < Len(buf) /\ MoveTo(pos + 1)
Home  == MoveTo(LineStart(buf, LineOf(buf, pos)))
End   == MoveTo(LineEnd(buf, LineOf(buf, pos)))

\* kate_save when fs_write_file took the text.  When it did not, nothing changes.
Save == mod' = FALSE /\ UNCHANGED <<buf, pos>> /\ Draw

Next ==
  \/ \E c \in Chars : Insert(c)
  \/ Backspace \/ DelKey
  \/ MoveUp \/ MoveDown \/ Left \/ Right \/ Home \/ End
  \/ Save

Spec == Init /\ [][Next]_vars

------------------------------------------------------------------------------
(* Properties *)

\* The text fits into kate_buf with its terminating 0, and the position, from
\* which every key computes where it writes, stays inside the text.
TypeOK ==
  /\ buf \in Seq(Chars) /\ Len(buf) <= MaxLen
  /\ pos \in 0..Len(buf)
  /\ top \in 0..MaxLen
  /\ mod \in BOOLEAN

\* The buffer cut at its newlines.
LinesOf(b) ==
  [n \in 1..(LineOf(b, Len(b)) + 1) |->
     SubSeq(b, LineStart(b, n - 1) + 1, LineEnd(b, n - 1))]

\* The row of the cursor is a row of the window.
CursorSeen == CursorAt[1] \in 0..(Rows - 1)

\* What the user sees is the text, and the cursor is in it: each row of the
\* window shows the line it stands for, cut at the right edge, whatever was
\* scrolled, split or joined before, and the row of the cursor is one of them
\* (desktop.c 878-880, 898-928, 955-963).
WindowShowsText ==
  /\ CursorSeen
  /\ \A r \in 1..Rows :
       LET n == top + r
       IN  Window(buf, top)[r] =
             IF n > Len(LinesOf(buf)) THEN <<>>
             ELSE SubSeq(LinesOf(buf)[n], 1, Lesser(Cols, Len(LinesOf(buf)[n])))

Lines == INSTANCE TextLines WITH
  Capacity <- MaxLen,
  lines    <- LinesOf(buf),
  row      <- LineOf(buf, pos) + 1,
  col      <- ColOf(buf, pos),
  size     <- Len(buf),
  marked   <- mod

\* The bytes behave as lines with a cursor: no key, wherever the cursor stands
\* and however the lines begin, end or lack a newline, moves it off its line but
\* the keys that should, or changes a line it is not in, and every change of the
\* text is marked (desktop.c 844-872, 967-1014).
ImplementsTextLines == Lines!Spec
=============================================================================

--------------------------- MODULE TerminalProofs ---------------------------
(***************************************************************************)
(* Proofs about what a terminal session stands on: the console, the        *)
(* keyboard with its driver, and the packages and the wireless link.  The  *)
(* three share no state.                                                   *)
(***************************************************************************)
EXTENDS Console, Keyboard, FurNetwork, SequenceTheorems, TLAPS

-------------------------------------------------------------------------------
(* The console                                                              *)

\* The positions of the viewport in reading order: row y begins at Start(y).
Start(y) == (y - Top) * Width

Tties == [screen : [Rows -> [Cols -> Cells]], row : Rows, col : Cols]

Pos(t) == Start(t.row) + t.col

\* What s says stands before the cursor, its last character next to it.
Echo(t, s) ==
    /\ Len(s) <= Pos(t)
    /\ \A y \in Top .. Bottom, x \in Cols :
          LET k == Pos(t) - (Start(y) + x)
          IN k \in 1 .. Len(s) => t.screen[y][x] = s[Len(s) - k + 1]

\* Outside the desktop the cursor is in the viewport and the line is echoed before it.
ConsoleInv ==
    /\ tty \in Tties
    /\ pc # "desktop" => tty.row \in Top .. Bottom
    /\ view = IF pc = "desktop" THEN Whole ELSE [top |-> Top, bot |-> Bottom]
    /\ pc \in {"desktop", "output", "prompt", "line"}
    /\ shown \in Seq(Letters \cup {Mark})
    /\ Len(shown) <= PromptLen + LineMax
    /\ pc \in {"desktop", "output"} => shown = <<>>
    /\ pc # "desktop" => Echo(tty, shown)

\* Rows follow each other without gap or overlap.
LEMMA Starts ==
  /\ \A y \in Int : Start(y) \in Int /\ Start(y + 1) = Start(y) + Width
  /\ Start(Top) = 0
  /\ Start(Bottom) = Width * (Bottom - Top)
  /\ \A y, z \in Int : y < z => Start(y) + Width <= Start(z)
  /\ \A y \in Top .. Bottom : Start(y) >= 0
  <1>0. Top \in Int /\ Bottom \in Int /\ Width \in Int /\ Width > 0
    BY ConsoleAssumption
  <1>1. \A y \in Int : Start(y) \in Int /\ Start(y + 1) = Start(y) + Width
    BY <1>0 DEF Start
  <1>2. Start(Top) = 0
    BY <1>0 DEF Start
  <1>3. Start(Bottom) = Width * (Bottom - Top)
    BY <1>0 DEF Start
  <1>4. ASSUME NEW y \in Int, NEW z \in Int, y < z
        PROVE  Start(y) + Width <= Start(z)
    <2>1. Start(z) = Start(y) + (z - y) * Width
      BY <1>0 DEF Start
    <2>2. (z - y) * Width >= Width
      <3>1. \A d \in Int, w \in Int : d >= 1 /\ w > 0 => d * w >= w
        OBVIOUS
      <3> QED BY <1>0, <1>4, <3>1
    <2> QED BY <1>0, <1>1, <2>1, <2>2
  <1>5. ASSUME NEW y \in Top .. Bottom
        PROVE  Start(y) >= 0
    <2>1. CASE y = Top
      BY <1>2, <2>1
    <2>2. CASE Top < y
      <3>1. Start(Top) + Width <= Start(y) /\ Start(y) \in Int
        BY <1>0, <1>1, <1>4, <2>2
      <3> QED BY <1>0, <1>2, <3>1
    <2> QED BY <1>0, <2>1, <2>2
  <1> QED BY <1>1, <1>2, <1>3, <1>4, <1>5

\* The parts of Starts without a product.
LEMMA StartNext == \A y \in Int : Start(y) \in Int /\ Start(y + 1) = Start(y) + Width
  BY Starts

LEMMA StartEnds == /\ Start(Top) = 0 /\ PromptLen + LineMax <= Start(Bottom)
                   /\ \A y \in Top .. Bottom : Start(y) \in Int /\ Start(y) >= 0
  <1>1. \A y \in Top .. Bottom : y \in Int
    BY ConsoleAssumption
  <1> QED BY <1>1, Starts, ConsoleAssumption

\* Positions are numbers.
LEMMA CellsAreNumbered ==
  ASSUME NEW y \in Top .. Bottom, NEW x \in Cols
  PROVE  y \in Int /\ x \in Int /\ x >= 0 /\ Start(y) \in Int /\ Start(y) + x \in Int
  <1>1. y \in Int /\ x \in Int /\ x >= 0
    BY ConsoleAssumption DEF Cols
  <1>2. Start(y) \in Int
    BY <1>1, StartNext
  <1> QED BY <1>1, <1>2

\* Two cells at one position are one cell.
LEMMA OnePlace ==
  ASSUME NEW y \in Int, NEW z \in Int, NEW x \in Cols, NEW u \in Cols
  PROVE  /\ Start(y) + x = Start(z) + u => y = z /\ x = u
         /\ Start(y) + x < Start(z) + u => y <= z
  <1>0. Width \in Int /\ Width > 0 /\ x \in 0 .. Width - 1 /\ u \in 0 .. Width - 1
    BY ConsoleAssumption DEF Cols
  <1>1. Start(y) \in Int /\ Start(z) \in Int
    BY Starts
  <1>2. y < z => Start(y) + Width <= Start(z)
    BY Starts
  <1>3. z < y => Start(z) + Width <= Start(y)
    BY Starts
  <1>4. CASE y = z
    BY <1>0, <1>1, <1>4
  <1>5. CASE y < z
    BY <1>0, <1>1, <1>2, <1>5
  <1>6. CASE z < y
    BY <1>0, <1>1, <1>3, <1>6
  <1> QED BY <1>4, <1>5, <1>6

\* Every position is a row and a column.
LEMMA DivMod ==
  ASSUME NEW n \in Nat
  PROVE  /\ n \div Width \in Nat /\ n % Width \in Cols
         /\ n = (n \div Width) * Width + (n % Width)
  <1>0. Width \in Nat /\ Width > 0
    BY ConsoleAssumption
  <1> QED BY <1>0 DEF Cols

\* Screens, and the viewport of run_terminal.
Screens  == [Rows -> [Cols -> Cells]]
Viewport == [top |-> Top, bot |-> Bottom]

\* Scrolling moves the rows of the viewport up and leaves the others alone.
LEMMA Scrolls ==
  ASSUME view = Viewport, NEW s \in Screens
  PROVE  /\ Scroll(s) \in Screens
         /\ \A y \in Top .. Bottom - 1 : Scroll(s)[y] = s[y + 1]
         /\ \A y \in Rows \ (Top .. Bottom) : Scroll(s)[y] = s[y]
  <1>0. Top \in Nat /\ Bottom \in Top .. Height - 1 /\ Height \in Nat
    BY ConsoleAssumption
  <1>1. view.top = Top /\ view.bot = Bottom
    BY DEF Viewport
  <1>2. BlankRow \in [Cols -> Cells]
    BY DEF BlankRow, Cells
  <1>3. ASSUME NEW y \in Rows
        PROVE  /\ y \in Top .. Bottom - 1 => Scroll(s)[y] = s[y + 1] /\ y + 1 \in Rows
               /\ y = Bottom => Scroll(s)[y] = BlankRow
               /\ y \notin Top .. Bottom => Scroll(s)[y] = s[y]
    BY <1>0, <1>1 DEF Scroll, Rows
  <1>4. \A y \in Rows : Scroll(s)[y] \in [Cols -> Cells]
    <2> TAKE y \in Rows
    <2>1. y \in Top .. Bottom - 1 \/ y = Bottom \/ y \notin Top .. Bottom
      BY <1>0 DEF Rows
    <2> QED BY <1>2, <1>3, <2>1 DEF Screens
  <1>5. Scroll(s) \in Screens
    <2>1. Scroll(s) = [y \in Rows |-> Scroll(s)[y]]
      BY DEF Scroll
    <2> QED BY <1>4, <2>1 DEF Screens
  <1>6. \A y \in Top .. Bottom - 1 : y \in Rows
    BY <1>0 DEF Rows
  <1> QED BY <1>3, <1>5, <1>6

\* A new row: the next one, or the last one of the viewport after a scroll.
LEMMA NewRows ==
  ASSUME view = Viewport, NEW s \in Screens, NEW a \in Top .. Bottom, NEW b
  PROVE  LET t == NewRow([screen |-> s, row |-> a, col |-> b])
         IN /\ t \in Tties /\ t.row \in Top .. Bottom /\ t.col = 0
            /\ \A y \in Rows \ (Top .. Bottom) : t.screen[y] = s[y]
            /\ \/ a < Bottom /\ t.row = a + 1 /\ t.screen = s
               \/ a = Bottom /\ t.row = Bottom /\ t.screen = Scroll(s)
  <1> DEFINE r == [screen |-> s, row |-> a, col |-> b]
             t == NewRow(r)
  <1>0. Top \in Nat /\ Bottom \in Top .. Height - 1 /\ Height \in Nat /\ 0 \in Cols
        /\ view.bot = Bottom /\ a \in Int
    BY ConsoleAssumption DEF Viewport, Cols
  <1>1. Scroll(s) \in Screens /\ \A y \in Rows \ (Top .. Bottom) : Scroll(s)[y] = s[y]
    BY Scrolls
  <1>2. CASE a < Bottom
    <2>1. t = [screen |-> s, row |-> a + 1, col |-> 0]
      BY <1>0, <1>2 DEF NewRow
    <2>2. a + 1 \in Top .. Bottom /\ a + 1 \in Rows
      BY <1>0, <1>2 DEF Rows
    <2>3. t \in Tties
      BY <1>0, <2>1, <2>2 DEF Tties, Screens
    <2> QED BY <1>2, <2>1, <2>2, <2>3
  <1>3. CASE a = Bottom
    <2>1. t = [screen |-> Scroll(s), row |-> Bottom, col |-> 0]
      BY <1>0, <1>3 DEF NewRow
    <2>2. Bottom \in Top .. Bottom /\ Bottom \in Rows
      BY <1>0 DEF Rows
    <2>3. t \in Tties
      BY <1>0, <1>1, <2>1, <2>2 DEF Tties, Screens
    <2> QED BY <1>1, <1>3, <2>1, <2>2, <2>3
  <1> QED BY <1>0, <1>2, <1>3

\* What vga_putchar writes and where the cursor goes.
LEMMA Puts ==
  ASSUME view = Viewport, tty \in Tties, tty.row \in Top .. Bottom, NEW c \in Cells
  PROVE  LET t == PutChar(tty, c)
             s == [tty.screen EXCEPT ![tty.row][tty.col] = c]
         IN /\ s \in Screens
            /\ t \in Tties /\ t.row \in Top .. Bottom
            /\ \A y \in Rows \ (Top .. Bottom) : t.screen[y] = tty.screen[y]
            /\ \/ /\ tty.col + 1 < Width
                  /\ t.screen = s /\ t.row = tty.row /\ t.col = tty.col + 1
               \/ /\ tty.col + 1 = Width /\ tty.row < Bottom
                  /\ t.screen = s /\ t.row = tty.row + 1 /\ t.col = 0
               \/ /\ tty.col + 1 = Width /\ tty.row = Bottom
                  /\ t.screen = Scroll(s) /\ t.row = Bottom /\ t.col = 0
  <1> DEFINE t   == PutChar(tty, c)
             s   == [tty.screen EXCEPT ![tty.row][tty.col] = c]
             put == [screen |-> s, row |-> tty.row, col |-> tty.col + 1]
  <1>0. Top \in Nat /\ Bottom \in Top .. Height - 1 /\ Height \in Nat
        /\ Width \in Nat /\ Width > 0
    BY ConsoleAssumption
  <1>1. /\ tty.screen \in Screens /\ tty.row \in Rows /\ tty.col \in Cols
        /\ tty = [screen |-> tty.screen, row |-> tty.row, col |-> tty.col]
    BY DEF Tties, Screens
  <1>2. s \in Screens /\ \A y \in Rows \ {tty.row} : s[y] = tty.screen[y]
    BY <1>1 DEF Screens
  <1>3. \A y \in Rows \ (Top .. Bottom) : s[y] = tty.screen[y]
    BY <1>2
  <1>4. t = IF tty.col + 1 >= Width THEN NewRow(put) ELSE put
    <2>1. c # Newline
      BY ConsoleAssumption DEF Cells
    <2> QED BY <2>1 DEF PutChar
  <1> HIDE DEF t, s
  <1>5. CASE tty.col + 1 < Width
    <2>1. t = put /\ tty.col + 1 \in Cols
      BY <1>0, <1>1, <1>4, <1>5 DEF Cols
    <2>2. t \in Tties
      BY <1>1, <1>2, <2>1 DEF Tties, Screens
    <2> QED BY <1>2, <1>3, <1>5, <2>1, <2>2 DEF t, s
  <1>6. CASE tty.col + 1 = Width
    <2>1. t = NewRow(put)
      BY <1>0, <1>4, <1>6
    <2>2. /\ t \in Tties /\ t.row \in Top .. Bottom /\ t.col = 0
          /\ \A y \in Rows \ (Top .. Bottom) : t.screen[y] = s[y]
          /\ \/ tty.row < Bottom /\ t.row = tty.row + 1 /\ t.screen = s
             \/ tty.row = Bottom /\ t.row = Bottom /\ t.screen = Scroll(s)
      BY <1>2, <2>1, NewRows
    <2> QED BY <1>2, <1>3, <1>6, <2>2 DEF t, s
  <1>7. tty.col + 1 < Width \/ tty.col + 1 = Width
    BY <1>0, <1>1 DEF Cols
  <1> QED BY <1>5, <1>6, <1>7

\* A character typed is the last one before the cursor, wherever the line wraps.
LEMMA PutEchoes ==
  ASSUME view = Viewport, tty \in Tties, tty.row \in Top .. Bottom,
         NEW c \in Cells, NEW s \in Seq(Cells), Echo(tty, s),
         Len(s) < PromptLen + LineMax
  PROVE  Echo(PutChar(tty, c), Append(s, c))
  <1> DEFINE t  == PutChar(tty, c)
             s2 == Append(s, c)
             n  == Len(s)
             w  == [tty.screen EXCEPT ![tty.row][tty.col] = c]
             P  == Pos(tty)
  <1>0. /\ Top \in Int /\ Bottom \in Int /\ Width \in Int /\ Width > 0 /\ Height \in Nat
        /\ Top \in Nat /\ Bottom \in Top .. Height - 1
        /\ n \in Nat /\ tty.row \in Top .. Bottom /\ tty.row \in Int
        /\ tty.col \in Cols /\ tty.col \in 0 .. Width - 1 /\ tty.screen \in Screens
    BY ConsoleAssumption DEF Tties, Cols, Screens
  <1>1. /\ s2 \in Seq(Cells) /\ Len(s2) = n + 1 /\ s2[n + 1] = c
        /\ \A i \in 1 .. n : s2[i] = s[i]
    BY <1>0
  <1>2. /\ w \in Screens
        /\ \/ /\ tty.col + 1 < Width
              /\ t.screen = w /\ t.row = tty.row /\ t.col = tty.col + 1
           \/ /\ tty.col + 1 = Width /\ tty.row < Bottom
              /\ t.screen = w /\ t.row = tty.row + 1 /\ t.col = 0
           \/ /\ tty.col + 1 = Width /\ tty.row = Bottom
              /\ t.screen = Scroll(w) /\ t.row = Bottom /\ t.col = 0
    BY Puts
  <1>3. P \in Int /\ P = Start(tty.row) + tty.col /\ n <= P
        /\ \A y \in Top .. Bottom : Start(y) \in Int
    BY <1>0, StartEnds DEF Pos, Echo
  <1>4. ASSUME NEW y \in Top .. Bottom, NEW x \in Cols
        PROVE  w[y][x] = IF y = tty.row /\ x = tty.col THEN c ELSE tty.screen[y][x]
    BY <1>0 DEF Screens, Rows
  <1> HIDE DEF t, w, n, s2, P
  \* what stands where after the character is written, before anything scrolls
  <1>5. ASSUME NEW y \in Top .. Bottom, NEW x \in Cols,
               P + 1 - (Start(y) + x) \in 1 .. n + 1
        PROVE  w[y][x] = s2[(n + 1) - (P + 1 - (Start(y) + x)) + 1]
    <2> DEFINE a == Start(y) + x
               k == P + 1 - a
    <2>1. Start(y) \in Int /\ x \in Int /\ y \in Int /\ a \in Int
      BY CellsAreNumbered
    <2>2. k \in 1 .. n + 1 /\ P \in Int /\ n \in Nat
      BY <1>0, <1>3, <1>5
    <2>3. CASE y = tty.row /\ x = tty.col
      <3>1. a = P
        BY <1>3, <2>3
      <3>2. (n + 1) - k + 1 = n + 1
        <4> HIDE DEF a
        <4> QED BY <2>1, <2>2, <3>1
      <3> QED BY <1>1, <1>4, <2>3, <3>2
    <2>4. CASE ~(y = tty.row /\ x = tty.col)
      <3>1. a # P
        BY <1>0, <1>3, <2>1, <2>4, OnePlace
      <3>2. /\ P - a \in 1 .. n /\ n - (P - a) + 1 \in 1 .. n
            /\ (n + 1) - k + 1 = n - (P - a) + 1
        <4> HIDE DEF a
        <4> QED BY ONLY <2>1, <2>2, <3>1
      <3>3. tty.screen[y][x] = s[n - (P - a) + 1]
        BY <3>2 DEF Echo, P, n
      <3> QED BY <1>1, <1>4, <2>4, <3>2, <3>3
    <2> QED BY <2>3, <2>4
  <1>6. CASE t.screen = w /\ Pos(t) = P + 1
    <2>1. Len(s2) <= Pos(t)
      BY <1>0, <1>1, <1>3, <1>6
    <2>2. \A y \in Top .. Bottom, x \in Cols :
             Pos(t) - (Start(y) + x) \in 1 .. Len(s2) =>
                t.screen[y][x] = s2[Len(s2) - (Pos(t) - (Start(y) + x)) + 1]
      <3> TAKE y \in Top .. Bottom, x \in Cols
      <3> DEFINE a == Start(y) + x
      <3>1. Pos(t) = P + 1 /\ Len(s2) = n + 1 /\ t.screen = w
        BY <1>1, <1>6
      <3>2. P + 1 - a \in 1 .. n + 1 => w[y][x] = s2[(n + 1) - (P + 1 - a) + 1]
        BY <1>5
      <3>0. a \in Int /\ P \in Int /\ n \in Nat
        BY <1>0, <1>3, CellsAreNumbered
      <3> HIDE DEF a
      <3>3. Pos(t) - a \in 1 .. Len(s2) =>
               t.screen[y][x] = s2[Len(s2) - (Pos(t) - a) + 1]
        BY ONLY <3>0, <3>1, <3>2
      <3> QED BY <3>3 DEF a
    <2> QED BY <2>1, <2>2 DEF Echo, t, s2
  <1>7. CASE /\ tty.row = Bottom /\ tty.col + 1 = Width
             /\ t.screen = Scroll(w) /\ t.row = Bottom /\ t.col = 0
    <2>1. Pos(t) = P + 1 - Width /\ Pos(t) = Start(Bottom)
      <3>1. Start(Bottom) \in Int /\ P = Start(Bottom) + tty.col /\ tty.col = Width - 1
        BY <1>0, <1>3, <1>7
      <3>2. Pos(t) = Start(Bottom) + 0
        BY <1>7 DEF Pos
      <3> QED BY <1>0, <3>1, <3>2
    <2>2. Len(s2) <= Pos(t)
      BY <1>0, <1>1, <2>1, StartEnds, ConsoleAssumption DEF n
    <2>3. ASSUME NEW y \in Top .. Bottom, NEW x \in Cols,
                 Pos(t) - (Start(y) + x) \in 1 .. Len(s2)
          PROVE  t.screen[y][x] = s2[Len(s2) - (Pos(t) - (Start(y) + x)) + 1]
      <3>0. y \in Int /\ x \in Int /\ x >= 0 /\ Start(y) \in Int /\ Pos(t) = Start(Bottom)
            /\ Start(Bottom) \in Int
        BY <1>0, <2>1, StartNext DEF Cols
      <3>1. y # Bottom
        BY <1>0, <1>1, <2>3, <3>0
      <3>2. y \in Top .. Bottom - 1 /\ y + 1 \in Top .. Bottom
        BY <1>0, <3>1
      <3>3. Start(y + 1) = Start(y) + Width
        BY <3>0, StartNext
      <3>4. P + 1 - (Start(y + 1) + x) = Pos(t) - (Start(y) + x)
        <4>1. /\ P \in Int /\ Start(y) \in Int /\ x \in Int /\ Width \in Int
              /\ Pos(t) = P + 1 - Width /\ Start(y + 1) = Start(y) + Width
          BY <1>0, <1>3, <2>1, <3>0, <3>3
        <4> QED BY ONLY <4>1
      <3>5. w[y + 1][x] = s2[(n + 1) - (P + 1 - (Start(y + 1) + x)) + 1]
        BY <1>1, <1>5, <2>3, <3>2, <3>4
      <3>6. t.screen[y] = w[y + 1]
        BY <1>2, <1>7, <3>2, Scrolls
      <3> QED BY <1>1, <3>4, <3>5, <3>6
    <2> QED BY <2>2, <2>3 DEF Echo, t, s2
  <1>8. \/ t.screen = w /\ Pos(t) = P + 1
        \/ /\ tty.row = Bottom /\ tty.col + 1 = Width
           /\ t.screen = Scroll(w) /\ t.row = Bottom /\ t.col = 0
    <2>1. CASE t.screen = w /\ t.row = tty.row /\ t.col = tty.col + 1
      BY <1>0, <1>3, <2>1 DEF Pos
    <2>2. CASE /\ tty.col + 1 = Width /\ t.screen = w
               /\ t.row = tty.row + 1 /\ t.col = 0
      <3>1. Start(tty.row + 1) = Start(tty.row) + Width
        BY <1>0, StartNext
      <3> QED BY <1>0, <1>3, <2>2, <3>1 DEF Pos
    <2> QED BY <1>2, <2>1, <2>2
  <1> QED BY <1>6, <1>7, <1>8 DEF t, s2

\* Backspace takes the last character away, in the row above if it stood there.
LEMMA BackspaceEchoes ==
  ASSUME view = Viewport, tty \in Tties, tty.row \in Top .. Bottom,
         NEW s \in Seq(Cells), Echo(tty, s), Len(s) > 0
  PROVE  /\ Backspace(tty) \in Tties /\ Backspace(tty).row \in Top .. Bottom
         /\ Echo(Backspace(tty), SubSeq(s, 1, Len(s) - 1))
         /\ \A y \in Rows \ (Top .. Bottom) : Backspace(tty).screen[y] = tty.screen[y]
  <1> DEFINE t   == Backspace(tty)
             n   == Len(s)
             s2  == SubSeq(s, 1, n - 1)
             P   == Pos(tty)
             row == IF tty.col = 0 THEN tty.row - 1 ELSE tty.row
             col == IF tty.col = 0 THEN Width - 1 ELSE tty.col - 1
             w   == [tty.screen EXCEPT ![row][col] = Blank]
  <1>0. /\ Top \in Int /\ Bottom \in Int /\ Width \in Int /\ Width > 0 /\ Height \in Nat
        /\ Top \in Nat /\ Bottom \in Top .. Height - 1
        /\ n \in Nat /\ n > 0 /\ tty.row \in Top .. Bottom /\ tty.row \in Int
        /\ tty.col \in Cols /\ tty.col \in 0 .. Width - 1 /\ tty.screen \in Screens
    BY ConsoleAssumption DEF Tties, Cols, Screens
  <1>1. s2 \in Seq(Cells) /\ Len(s2) = n - 1 /\ \A i \in 1 .. n - 1 : s2[i] = s[i]
    <2>1. 1 \in Int /\ n - 1 \in Int /\ 1 <= n /\ \A i \in 1 .. n - 1 : s[i] \in Cells
      BY <1>0
    <2>2. /\ s2 \in Seq(Cells)
          /\ Len(s2) = IF 1 <= n - 1 THEN (n - 1) - 1 + 1 ELSE 0
          /\ \A i \in 1 .. (n - 1) - 1 + 1 : s2[i] = s[1 + i - 1]
      <3> HIDE DEF n
      <3> QED BY <2>1, SubSeqProperties
    <2> HIDE DEF n, s2
    <2> QED BY <1>0, <2>1, <2>2
  <1>2. P \in Int /\ P = Start(tty.row) + tty.col /\ n <= P
        /\ \A y \in Top .. Bottom : Start(y) \in Int
    BY <1>0, StartEnds DEF Pos, Echo
  <1>3. ~(tty.row = Top /\ tty.col = 0)
    BY <1>0, <1>2, StartEnds
  <1>4. row \in Top .. Bottom /\ row \in Rows /\ col \in Cols
    BY <1>0, <1>3 DEF Rows, Cols
  <1>5. t = [screen |-> w, row |-> row, col |-> col]
    <2>1. view.top = Top
      BY DEF Viewport
    <2> QED BY <1>3, <2>1 DEF Backspace
  <1>6. w \in Screens /\ Blank \in Cells
    BY <1>0, <1>4 DEF Screens, Cells
  <1>7. ASSUME NEW y \in Top .. Bottom, NEW x \in Cols, ~(y = row /\ x = col)
        PROVE  w[y][x] = tty.screen[y][x]
    BY <1>0, <1>4, <1>7 DEF Screens, Rows
  <1>8. \A y \in Rows \ {row} : w[y] = tty.screen[y]
    BY <1>0, <1>4 DEF Screens
  <1>9. Pos(t) = P - 1 /\ Pos(t) = Start(row) + col
    <2>1. CASE tty.col # 0
      BY <1>0, <1>2, <1>5, <2>1 DEF Pos
    <2>2. CASE tty.col = 0
      <3>1. row + 1 = tty.row /\ row \in Int
        BY <1>0, <2>2
      <3>2. Start(tty.row) = Start(row) + Width /\ Start(row) \in Int
        BY <3>1, StartNext
      <3> QED BY <1>0, <1>2, <1>5, <2>2, <3>2 DEF Pos
    <2> QED BY <2>1, <2>2
  <1> HIDE DEF w, n, s2, P, row, col
  <1>10. t \in Tties /\ t.row \in Top .. Bottom
    BY <1>4, <1>5, <1>6 DEF Tties, Screens
  <1>11. \A y \in Rows \ (Top .. Bottom) : t.screen[y] = tty.screen[y]
    BY <1>4, <1>5, <1>8
  <1>12. ASSUME NEW y \in Top .. Bottom, NEW x \in Cols,
                Pos(t) - (Start(y) + x) \in 1 .. Len(s2)
         PROVE  t.screen[y][x] = s2[Len(s2) - (Pos(t) - (Start(y) + x)) + 1]
    <2> DEFINE a == Start(y) + x
    <2>1. Start(y) \in Int /\ x \in Int /\ y \in Int /\ a \in Int
      BY CellsAreNumbered
    <2>2. Pos(t) - a \in 1 .. n - 1 /\ Pos(t) = P - 1 /\ Len(s2) = n - 1
      BY <1>1, <1>9, <1>12
    <2>3. ~(y = row /\ x = col)
      <3>1. a # Pos(t)
        <4> HIDE DEF a
        <4> QED BY ONLY <2>1, <2>2, <1>2, <1>0
      <3> QED BY <1>9, <3>1
    <2>4. /\ P - a \in 1 .. n /\ n - (P - a) + 1 \in 1 .. n - 1
          /\ n - (P - a) + 1 = Len(s2) - (Pos(t) - a) + 1
      <3>1. P \in Int /\ n \in Nat /\ a \in Int
        BY <1>0, <1>2, <2>1
      <3> HIDE DEF a
      <3> QED BY ONLY <2>2, <3>1
    <2>5. tty.screen[y][x] = s[n - (P - a) + 1]
      BY <2>4 DEF Echo, P, n
    <2> QED BY <1>1, <1>5, <1>7, <2>3, <2>4, <2>5
  <1>13. Len(s2) <= Pos(t)
    BY <1>0, <1>1, <1>2, <1>9
  <1>14. Echo(t, s2)
    BY <1>12, <1>13 DEF Echo
  <1> QED BY <1>10, <1>11, <1>14 DEF s2, n

\* The rows around the terminal window stay as they are.
FrameKept == \A y \in Rows \ (Top .. Bottom) : tty'.screen[y] = tty.screen[y]

\* An empty line is echoed wherever the cursor is.
LEMMA EmptyEchoes ==
  ASSUME NEW t \in Tties, t.row \in Top .. Bottom
  PROVE  Echo(t, <<>>)
  <1>1. t.col \in Cols
    BY DEF Tties
  <1>2. t.col \in Int /\ t.col >= 0 /\ Start(t.row) \in Int /\ Start(t.row) >= 0
    BY <1>1, CellsAreNumbered, StartEnds
  <1>3. Len(<<>>) <= Pos(t) /\ Len(<<>>) = 0
    BY <1>2 DEF Pos
  <1> QED BY <1>3 DEF Echo

\* vga_clear empties the viewport and nothing else.
LEMMA Clears ==
  ASSUME NEW t, t.screen \in Screens
  PROVE  /\ Clear(t, Viewport) \in Tties /\ Clear(t, Viewport).row \in Top .. Bottom
         /\ \A y \in Rows \ (Top .. Bottom) : Clear(t, Viewport).screen[y] = t.screen[y]
  <1> DEFINE u == [y \in Rows |-> IF y \in Top .. Bottom THEN BlankRow ELSE t.screen[y]]
  <1>1. BlankRow \in [Cols -> Cells]
    BY DEF BlankRow, Cells
  <1>2. u \in Screens
    BY <1>1 DEF Screens
  <1>3. Clear(t, Viewport) = [screen |-> u, row |-> Top, col |-> 0]
    BY DEF Clear, Viewport
  <1>4. Top \in Top .. Bottom /\ Top \in Rows /\ 0 \in Cols
    BY ConsoleAssumption DEF Rows, Cols
  <1>5. \A y \in Rows \ (Top .. Bottom) : u[y] = t.screen[y]
    OBVIOUS
  <1> HIDE DEF u
  <1> QED BY <1>2, <1>3, <1>4, <1>5 DEF Tties, Screens

\* vga_putchar in the viewport, newline included.
LEMMA PutStays ==
  ASSUME view = Viewport, tty \in Tties, tty.row \in Top .. Bottom,
         NEW c \in Cells \cup {Newline}
  PROVE  /\ PutChar(tty, c) \in Tties /\ PutChar(tty, c).row \in Top .. Bottom
         /\ \A y \in Rows \ (Top .. Bottom) : PutChar(tty, c).screen[y] = tty.screen[y]
  <1>1. CASE c = Newline
    <2>1. /\ tty.screen \in Screens
          /\ tty = [screen |-> tty.screen, row |-> tty.row, col |-> tty.col]
      BY DEF Tties, Screens
    <2>2. PutChar(tty, c) = NewRow(tty)
      BY <1>1 DEF PutChar
    <2> QED BY <2>1, <2>2, NewRows
  <1>2. CASE c \in Cells
    BY <1>2, Puts
  <1> QED BY <1>1, <1>2

\* The desktop starts with the screen it has drawn.
LEMMA ConsoleInitiates == Init => ConsoleInv
  <1> SUFFICES ASSUME Init PROVE ConsoleInv
    OBVIOUS
  <1>1. 0 \in Rows /\ 0 \in Cols /\ Framed \in Screens
    BY ConsoleAssumption DEF Rows, Cols, Framed, Screens, Cells
  <1>2. tty \in Tties
    BY <1>1 DEF Init, Tties, Screens
  <1>3. <<>> \in Seq(Letters \cup {Mark}) /\ Len(<<>>) <= PromptLen + LineMax
    BY ConsoleAssumption
  <1> QED BY <1>2, <1>3 DEF Init, ConsoleInv

\* Each step keeps the invariant, and text output stays in the viewport.
LEMMA ConsoleKeeps ==
  ASSUME ConsoleInv, [Next]_vars
  PROVE  ConsoleInv' /\ (pc # "desktop" => FrameKept)
  <1> DEFINE Shown == Seq(Letters \cup {Mark})
  <1>0. /\ tty \in Tties /\ tty.screen \in Screens /\ shown \in Shown
        /\ pc # "desktop" => /\ tty.row \in Top .. Bottom /\ view = Viewport
                             /\ Echo(tty, shown)
    BY DEF ConsoleInv, Viewport, Tties, Screens
  <1>1. PromptLen \in Nat /\ LineMax \in Nat
    BY ConsoleAssumption
  <1>2. Shown \subseteq Seq(Cells) /\ Letters \subseteq Cells /\ Mark \in Cells
    BY DEF Cells
  <1>3. ASSUME NEW c \in Letters \cup {Mark}, pc # "desktop",
               tty' = PutChar(tty, c), shown' = Append(shown, c), UNCHANGED view,
               Len(shown) < PromptLen + LineMax, pc' \in {"prompt", "line"}
        PROVE  ConsoleInv' /\ FrameKept
    <2>1. c \in Cells
      BY <1>2
    <2>2. tty' \in Tties /\ tty'.row \in Top .. Bottom /\ FrameKept
      BY <1>0, <1>3, <2>1, PutStays DEF FrameKept
    <2>3. Echo(tty', shown')
      BY <1>0, <1>2, <1>3, <2>1, PutEchoes
    <2>4. shown' \in Shown /\ Len(shown') <= PromptLen + LineMax
      BY <1>0, <1>1, <1>3
    <2>5. Echo(tty, shown)'
      BY <2>3 DEF Echo, Pos
    <2> QED BY <1>0, <1>3, <2>2, <2>4, <2>5 DEF ConsoleInv, Viewport
  <1>4. ASSUME tty' \in Tties, tty'.row \in Top .. Bottom, shown' = <<>>,
               pc' = "output", view' = Viewport
        PROVE  ConsoleInv'
    <2>1. Echo(tty', <<>>)
      BY <1>4, EmptyEchoes
    <2>2. Echo(tty, shown)'
      BY <1>4, <2>1 DEF Echo, Pos
    <2>3. shown' \in Shown /\ Len(shown') <= PromptLen + LineMax
      BY <1>1, <1>4
    <2> QED BY <1>4, <2>2, <2>3 DEF ConsoleInv, Viewport
  <1>5. CASE Draw
    <2>1. /\ pc = "desktop" /\ pc' = "desktop" /\ shown' = shown /\ view' = view
          /\ \E y \in Rows, x \in Cols : tty' = [screen |-> Framed, row |-> y, col |-> x]
      BY <1>5 DEF Draw
    <2>2. Framed \in Screens
      BY DEF Framed, Screens, Cells
    <2>3. tty' \in Tties
      BY <2>1, <2>2 DEF Tties, Screens
    <2> QED BY <2>1, <2>3 DEF ConsoleInv
  <1>6. CASE Open
    <2>1. /\ pc = "desktop" /\ view' = Viewport /\ pc' = "output" /\ shown' = shown
          /\ tty' = Clear(Confine(tty), Viewport) /\ shown = <<>>
      BY <1>6 DEF Open, Viewport, ConsoleInv
    <2>2. Confine(tty).screen = tty.screen
      BY <1>0 DEF Confine, Tties
    <2>3. tty' \in Tties /\ tty'.row \in Top .. Bottom
      BY <1>0, <2>1, <2>2, Clears
    <2> QED BY <1>4, <2>1, <2>3
  <1>7. CASE Close
    BY <1>0, <1>7 DEF Close, ConsoleInv, FrameKept
  <1>8. CASE Say
    <2>1. /\ pc = "output" /\ pc' = "output" /\ shown' = shown /\ view' = view
          /\ \E c \in Letters \cup {Newline} : tty' = PutChar(tty, c)
          /\ shown = <<>>
      BY <1>8 DEF Say, ConsoleInv
    <2>2. tty' \in Tties /\ tty'.row \in Top .. Bottom /\ FrameKept
      BY <1>0, <1>2, <2>1, PutStays DEF FrameKept
    <2> QED BY <1>0, <1>4, <2>1, <2>2
  <1>9. CASE ClearScreen
    <2>1. /\ pc = "output" /\ pc' = "output" /\ shown' = shown /\ view' = view
          /\ tty' = Clear(tty, Viewport) /\ shown = <<>>
      BY <1>0, <1>9 DEF ClearScreen, ConsoleInv
    <2>2. tty' \in Tties /\ tty'.row \in Top .. Bottom /\ FrameKept
      BY <1>0, <2>1, Clears DEF FrameKept
    <2> QED BY <1>0, <1>4, <2>1, <2>2
  <1>10. CASE Prompt
    <2>1. pc # "desktop" /\ view' = view
      BY <1>10 DEF Prompt
    <2>2. CASE Len(shown) < PromptLen
      <3>1. Len(shown) < PromptLen + LineMax
        BY <1>0, <1>1, <2>2
      <3>2. tty' = PutChar(tty, Mark) /\ shown' = Append(shown, Mark) /\ pc' = "prompt"
        BY <1>10, <2>2 DEF Prompt
      <3> QED BY <1>3, <2>1, <3>1, <3>2
    <2>3. CASE ~(Len(shown) < PromptLen)
      <3>1. pc' = "line" /\ tty' = tty /\ shown' = shown
        BY <1>10, <2>3 DEF Prompt
      <3>2. Echo(tty, shown)'
        BY <1>0, <2>1, <3>1 DEF Echo, Pos
      <3> QED BY <1>0, <2>1, <3>1, <3>2 DEF ConsoleInv, FrameKept
    <2> QED BY <2>2, <2>3
  <1>11. CASE Type
    <2>1. /\ pc = "line" /\ pc' = "line" /\ view' = view
          /\ Len(shown) < PromptLen + LineMax
          /\ \E c \in Letters : tty' = PutChar(tty, c) /\ shown' = Append(shown, c)
      BY <1>11 DEF Type
    <2> QED BY <1>3, <2>1
  <1>12. CASE Erase
    <2>1. /\ pc = "line" /\ pc' = "line" /\ view' = view
          /\ Len(shown) > PromptLen /\ tty' = Backspace(tty)
          /\ shown' = SubSeq(shown, 1, Len(shown) - 1)
      BY <1>12 DEF Erase
    <2>2. Len(shown) \in Nat /\ Len(shown) > 0 /\ shown \in Seq(Cells)
      BY <1>0, <1>1, <1>2, <2>1
    <2>3. /\ tty' \in Tties /\ tty'.row \in Top .. Bottom
          /\ Echo(tty', shown') /\ FrameKept
      BY <1>0, <2>1, <2>2, BackspaceEchoes DEF FrameKept
    <2>4. shown' \in Shown /\ Len(shown') <= PromptLen + LineMax
      <3>1. Len(shown) <= PromptLen + LineMax
        BY DEF ConsoleInv
      <3>2. \A i \in 1 .. Len(shown) - 1 : shown[i] \in Letters \cup {Mark}
        BY <1>0, <2>2
      <3>3. /\ shown' \in Shown
            /\ Len(shown') = IF 1 <= Len(shown) - 1 THEN (Len(shown) - 1) - 1 + 1 ELSE 0
        BY <2>1, <2>2, <3>2, SubSeqProperties
      <3> QED BY <1>1, <2>2, <3>1, <3>3
    <2>5. Echo(tty, shown)'
      BY <2>3 DEF Echo, Pos
    <2> QED BY <1>0, <2>1, <2>3, <2>4, <2>5 DEF ConsoleInv, Viewport
  <1>13. CASE Enter
    <2>1. /\ pc = "line" /\ pc' = "output" /\ view' = view /\ shown' = <<>>
          /\ tty' = PutChar(tty, Newline)
      BY <1>13 DEF Enter
    <2>2. tty' \in Tties /\ tty'.row \in Top .. Bottom /\ FrameKept
      BY <1>0, <2>1, PutStays DEF FrameKept
    <2> QED BY <1>0, <1>4, <2>1, <2>2
  <1>14. CASE UNCHANGED vars
    <2>1. Echo(tty, shown)' <=> Echo(tty, shown)
      BY <1>14 DEF Echo, Pos, vars
    <2> QED BY <1>14, <2>1 DEF ConsoleInv, FrameKept, vars
  <1> QED BY <1>5, <1>6, <1>7, <1>8, <1>9, <1>10, <1>11, <1>12, <1>13, <1>14 DEF Next

\* Type correctness of vga.c under the shell; the cursor never leaves the viewport
\* while a session runs.
THEOREM ConsoleTypeCorrect == Spec => []TypeOK
  <1>1. ConsoleInv => TypeOK
    <2> SUFFICES ASSUME ConsoleInv PROVE TypeOK
      OBVIOUS
    <2>1. \A i \in DOMAIN shown : shown[i] \in Letters \cup {Mark}
      BY DEF ConsoleInv
    <2>2. tty.row \in IF pc = "desktop" THEN Rows ELSE view.top .. view.bot
      BY DEF ConsoleInv, Tties
    <2> QED BY <2>1, <2>2 DEF ConsoleInv, TypeOK, Tties
  <1>2. ConsoleInv /\ [Next]_vars => ConsoleInv'
    BY ConsoleKeeps
  <1> QED BY <1>1, <1>2, ConsoleInitiates, PTL DEF Spec

\* For every size of screen and window, prompt and line: what shell_read_line has in
\* its buffer is what stands on the screen before the cursor, however vga_putchar has
\* wrapped and scrolled it and vga_backspace taken it back.
THEOREM EchoStandsThere == Spec => []EchoIsTheLine
  <1>1. ConsoleInv => EchoIsTheLine
    <2> DEFINE Before(k) == (tty.row - view.top) * Width + tty.col - k
               CellAt(n) == tty.screen[view.top + n \div Width][n % Width]
               n == Len(shown)
    <2> SUFFICES ASSUME ConsoleInv, pc \in {"prompt", "line"}
                 PROVE  /\ Before(Len(shown)) >= 0
                        /\ \A i \in DOMAIN shown :
                              shown[i] = CellAt(Before(Len(shown) - i + 1))
      BY DEF EchoIsTheLine
    <2>1. /\ tty \in Tties /\ tty.row \in Top .. Bottom /\ tty.col \in Cols
          /\ view.top = Top /\ Echo(tty, shown) /\ shown \in Seq(Letters \cup {Mark})
      BY DEF ConsoleInv, Tties
    <2>2. /\ tty.row \in Int /\ tty.col \in Int /\ Start(tty.row) \in Int
          /\ Pos(tty) = Start(tty.row) + tty.col /\ Pos(tty) \in Int
      BY <2>1, CellsAreNumbered DEF Pos
    <2>3. \A k \in Int : Before(k) = Pos(tty) - k
      <3>1. (tty.row - view.top) * Width = Start(tty.row)
        BY <2>1 DEF Start
      <3>2. \A k \in Int : Start(tty.row) + (tty.col - k) = Pos(tty) - k
        BY <2>2
      <3> QED BY <3>1, <3>2
    <2>4. n \in Nat /\ n <= Pos(tty) /\ DOMAIN shown = 1 .. n
      BY <2>1 DEF Echo
    <2>5. ASSUME NEW i \in 1 .. n
          PROVE  shown[i] = CellAt(Before(n - i + 1))
      <3> DEFINE m == Pos(tty) - (n - i + 1)
                 y == Top + m \div Width
                 x == m % Width
      <3>1. m \in Nat /\ m < Pos(tty)
        <4> HIDE DEF n
        <4> QED BY <2>2, <2>4
      <3> HIDE DEF m
      <3>2. m \div Width \in Nat /\ x \in Cols /\ m = (m \div Width) * Width + x
        BY <3>1, DivMod
      <3>3. /\ Top \in Int /\ Bottom \in Int /\ y \in Int /\ y >= Top
            /\ Width \in Int
        BY <3>2, ConsoleAssumption
      <3>4. m = Start(y) + x
        <4> DEFINE d == m \div Width
        <4>1. d \in Int /\ y = Top + d /\ Start(y) = (y - Top) * Width
          BY <3>2 DEF Start
        <4> HIDE DEF d, x
        <4>2. Start(y) = d * Width
          BY <3>3, <4>1
        <4> QED BY <3>2, <4>2 DEF d
      <3> HIDE DEF x
      <3>5. y <= tty.row
        BY <2>1, <2>2, <3>1, <3>2, <3>3, <3>4, OnePlace
      <3>6. y \in Top .. Bottom
        BY <2>1, <2>2, <3>3, <3>5
      <3> HIDE DEF y
      <3>7. Pos(tty) - m = n - i + 1 /\ n - i + 1 \in 1 .. n /\ n - (n - i + 1) + 1 = i
        <4> HIDE DEF n
        <4> QED BY <2>2, <2>4 DEF m
      <3>8. tty.screen[y][x] = shown[i]
        BY <2>1, <3>2, <3>4, <3>6, <3>7 DEF Echo
      <3>9. Before(n - i + 1) = m
        <4>1. n - i + 1 \in Int
          BY <2>4
        <4> QED BY <2>3, <4>1 DEF m
      <3> QED BY <2>1, <3>8, <3>9 DEF y, x
    <2>6. Before(n) >= 0
      BY <2>2, <2>3, <2>4
    <2> QED BY <2>4, <2>5, <2>6
  <1>2. ConsoleInv /\ [Next]_vars => ConsoleInv'
    BY ConsoleKeeps
  <1> QED BY <1>1, <1>2, ConsoleInitiates, PTL DEF Spec

\* vga_putchar, vga_clear and scrolling keep to the viewport of run_terminal.
THEOREM FrameStays == Spec => FrameIsKept
  <1>1. ConsoleInv /\ [Next]_vars =>
           [pc # "desktop" =>
               \A y \in Rows \ (Top .. Bottom) : tty'.screen[y] = tty.screen[y]]_vars
    BY ConsoleKeeps DEF FrameKept
  <1>2. ConsoleInv /\ [Next]_vars => ConsoleInv'
    BY ConsoleKeeps
  <1> QED BY <1>1, <1>2, ConsoleInitiates, PTL DEF Spec, FrameIsKept

-------------------------------------------------------------------------------
(* The keyboard and its driver                                              *)

\* What is sent, what is typed, and what the driver knows between two bytes: its
\* flags, and how many of the keys typed it has returned.
Bytes   == [code : Codes, up : BOOLEAN]
Presses == [key : Meaningful, shift : BOOLEAN, ctrl : BOOLEAN]
States  == [ext : BOOLEAN, shift : BOOLEAN, ctrl : BOOLEAN, seen : Nat]

\* The driver in state st returns a key for this byte,
Returns(st, byte) ==
    ~byte.up /\ IF st.ext THEN byte.code = "up" ELSE byte.code \in {"letter", "slash"}

\* and it is the next one typed, with no modifier that was not held.
Matches(st, byte, ty, ov) ==
    /\ st.seen < Len(ty)
    /\ ty[st.seen + 1].key = byte.code
    /\ st.shift => ty[st.seen + 1].shift \/ ov
    /\ st.ctrl => ty[st.seen + 1].ctrl \/ ov

\* What the byte leaves behind.
After(st, byte) ==
    [ext   |-> byte = E0,
     shift |-> /\ ~(byte.up /\ byte.code \in Shifts)
               /\ st.shift \/ (~byte.up /\ ~st.ext /\ byte.code \in Shifts),
     ctrl  |-> /\ ~(byte.up /\ byte.code = "ctrl")
               /\ st.ctrl \/ (~byte.up /\ ~st.ext /\ byte.code = "ctrl"),
     seen  |-> IF Returns(st, byte) THEN st.seen + 1 ELSE st.seen]

\* The driver's way through the bytes that wait: it will return keys that match.
Course(run, q, ty, ov) ==
    /\ run \in [1 .. Len(q) + 1 -> States]
    /\ run[1].seen = 0
    /\ \A i \in 1 .. Len(q) :
          /\ Returns(run[i], q[i]) => Matches(run[i], q[i], ty, ov)
          /\ run[i + 1] = After(run[i], q[i])
    /\ \A i, j \in 1 .. Len(q) + 1 : i <= j => run[i].seen <= run[j].seen

\* The way starts from the flags the driver has, or from more of them (keyboard_init
\* clears them while bytes wait),
Begins(st) ==
    /\ st.ext <=> ext
    /\ shift => st.shift
    /\ ctrl => st.ctrl

\* leads to st at the end of the bytes,
Leads(q, st, ty, ov) ==
    \E run : Course(run, q, ty, ov) /\ Begins(run[1]) /\ run[Len(q) + 1] = st

\* and ends when every key typed is returned and no modifier is left that is not held.
Ends(st, ty, h, ov) ==
    /\ st \in States
    /\ ~st.ext
    /\ st.seen = Len(ty)
    /\ st.shift => h \cap Shifts # {} \/ ov
    /\ st.ctrl => h \cap Ctrls # {} \/ ov

Types ==
    /\ held \subseteq Keys /\ "pause" \notin held
    /\ queue \in Seq(Bytes)
    /\ shift \in BOOLEAN /\ ctrl \in BOOLEAN /\ caps \in BOOLEAN
    /\ ext \in BOOLEAN /\ listening \in BOOLEAN
    /\ answer.key \in Meaningful \cup {"none"}
    /\ typed \in Seq(Presses)
    /\ overrun \in BOOLEAN

\* What the bytes that wait will do is settled when they are sent.
Foreseen(q, ty, h, ov) == \E st : Leads(q, st, ty, ov) /\ Ends(st, ty, h, ov)

KeyboardInv == Types /\ (ext => listening) /\ Foreseen(queue, typed, held, overrun)

\* The flags and the count after a byte.
LEMMA AfterIsState ==
  ASSUME NEW st \in States, NEW byte \in Bytes
  PROVE  /\ After(st, byte) \in States
         /\ After(st, byte).seen >= st.seen
         /\ After(st, byte).ext <=> byte = E0
  <1>1. After(st, byte).ext \in BOOLEAN /\ After(st, byte).shift \in BOOLEAN
        /\ After(st, byte).ctrl \in BOOLEAN
    BY DEF After
  <1>2. After(st, byte).seen \in Nat /\ After(st, byte).seen >= st.seen
    BY DEF After, States
  <1>3. After(st, byte).ext <=> byte = E0
    BY DEF After
  <1>4. After(st, byte) = [ext |-> After(st, byte).ext, shift |-> After(st, byte).shift,
                           ctrl |-> After(st, byte).ctrl, seen |-> After(st, byte).seen]
    BY DEF After
  <1>5. After(st, byte) \in States
    BY <1>1, <1>2, <1>4 DEF States
  <1> QED BY <1>2, <1>3, <1>5

\* One more byte is sent: the way goes on by one step.
LEMMA OneMore ==
  ASSUME NEW q \in Seq(Bytes), NEW ty \in Seq(Presses),
         NEW ov \in BOOLEAN, NEW st,
         Leads(q, st, ty, ov), NEW byte \in Bytes,
         Returns(st, byte) => Matches(st, byte, ty, ov)
  PROVE  /\ st \in States
         /\ Append(q, byte) \in Seq(Bytes)
         /\ Leads(Append(q, byte), After(st, byte), ty, ov)
  <1> DEFINE n == Len(q)
             q2 == Append(q, byte)
  <1>0. n \in Nat /\ q2 \in Seq(Bytes) /\ Len(q2) = n + 1 /\ q2[n + 1] = byte
        /\ \A i \in 1..n : q2[i] = q[i]
    OBVIOUS
  <1>1. PICK run : Course(run, q, ty, ov) /\ Begins(run[1]) /\ run[n + 1] = st
    BY DEF Leads
  <1>2. st \in States
    BY <1>0, <1>1 DEF Course
  <1>3. After(st, byte) \in States /\ After(st, byte).seen >= st.seen
    BY <1>2, AfterIsState
  <1> DEFINE run2 == [i \in 1 .. n + 2 |-> IF i = n + 2 THEN After(st, byte) ELSE run[i]]
  <1>4. /\ \A i \in 1 .. n + 1 : run2[i] = run[i] /\ run[i] \in States
        /\ run2[n + 2] = After(st, byte)
        /\ run2 \in [1 .. Len(q2) + 1 -> States]
    BY <1>0, <1>1, <1>3 DEF Course
  <1> HIDE DEF run2, n, q2
  <1>5. \A i \in 1 .. Len(q2) :
          /\ Returns(run2[i], q2[i]) => Matches(run2[i], q2[i], ty, ov)
          /\ run2[i + 1] = After(run2[i], q2[i])
    <2> TAKE i \in 1 .. Len(q2)
    <2>1. CASE i = n + 1
      BY <1>0, <1>1, <1>4, <2>1
    <2>2. CASE i # n + 1
      <3>1. i \in 1 .. n /\ i + 1 \in 1 .. n + 1 /\ i \in 1 .. n + 1
        BY <1>0, <2>2
      <3> QED BY <1>0, <1>1, <1>4, <3>1 DEF Course, n
    <2> QED BY <2>1, <2>2
  <1>6. \A i, j \in 1 .. Len(q2) + 1 : i <= j => run2[i].seen <= run2[j].seen
    <2> TAKE i, j \in 1 .. Len(q2) + 1
    <2> HAVE i <= j
    <2>1. \A k \in 1 .. n + 1 : run[k].seen \in Nat /\ run[k].seen <= st.seen
      <3> TAKE k \in 1 .. n + 1
      <3>1. run[k].seen \in Nat
        BY <1>4 DEF States
      <3>2. run[k].seen <= run[n + 1].seen
        BY <1>0, <1>1 DEF Course, n
      <3> QED BY <1>1, <3>1, <3>2
    <2>2. After(st, byte).seen \in Nat /\ st.seen \in Nat
      BY <1>2, <1>3 DEF States
    <2>3. CASE j = n + 2 /\ i = n + 2
      BY <2>3, <2>2, <1>4
    <2>4. CASE j = n + 2 /\ i # n + 2
      <3>1. i \in 1 .. n + 1
        BY <1>0, <2>4
      <3> QED BY <1>4, <2>1, <2>2, <1>3, <2>4, <3>1
    <2>5. CASE j # n + 2
      <3>1. i \in 1 .. n + 1 /\ j \in 1 .. n + 1
        BY <1>0, <2>5
      <3> QED BY <1>1, <1>4, <3>1 DEF Course, n
    <2> QED BY <2>3, <2>4, <2>5
  <1>7. run2[1].seen = 0 /\ run2[1] = run[1] /\ run2[Len(q2) + 1] = After(st, byte)
    BY <1>0, <1>1, <1>4 DEF Course
  <1>8. Course(run2, q2, ty, ov)
    BY <1>4, <1>5, <1>6, <1>7 DEF Course
  <1> QED BY <1>0, <1>1, <1>2, <1>7, <1>8 DEF Leads, q2

\* A key more at the end of typed, or an overrun, changes no way.
LEMMA MoreTyped ==
  ASSUME NEW q \in Seq(Bytes), NEW ty \in Seq(Presses), NEW more \in Seq(Presses),
         NEW ov \in BOOLEAN, NEW ov2 \in BOOLEAN, ov => ov2, NEW st, Leads(q, st, ty, ov)
  PROVE  Leads(q, st, ty \o more, ov2)
  <1> DEFINE ty2 == ty \o more
  <1>0. Len(ty) \in Nat /\ Len(ty2) >= Len(ty) /\ Len(ty2) \in Nat
        /\ \A k \in 1 .. Len(ty) : ty2[k] = ty[k]
    OBVIOUS
  <1> HIDE DEF ty2
  <1>1. PICK run : Course(run, q, ty, ov) /\ Begins(run[1]) /\ run[Len(q) + 1] = st
    BY DEF Leads
  <1>2. ASSUME NEW s \in States, NEW byte, Matches(s, byte, ty, ov)
        PROVE  Matches(s, byte, ty2, ov2)
    <2>1. s.seen + 1 \in 1 .. Len(ty)
      BY <1>0, <1>2 DEF Matches, States
    <2>2. ty2[s.seen + 1] = ty[s.seen + 1] /\ s.seen < Len(ty2)
      BY <1>0, <2>1 DEF States
    <2>3. ty2[s.seen + 1].key = byte.code
      BY <1>2, <2>2 DEF Matches
    <2>4. s.shift => ty2[s.seen + 1].shift \/ ov2
      BY <1>2, <2>2 DEF Matches
    <2>5. s.ctrl => ty2[s.seen + 1].ctrl \/ ov2
      BY <1>2, <2>2 DEF Matches
    <2> QED BY <2>2, <2>3, <2>4, <2>5 DEF Matches
  <1>3. \A i \in 1 .. Len(q) : run[i] \in States
    <2>1. Len(q) \in Nat /\ 1 .. Len(q) \subseteq 1 .. Len(q) + 1
      OBVIOUS
    <2>2. run \in [1 .. Len(q) + 1 -> States]
      BY <1>1 DEF Course
    <2> QED BY <2>1, <2>2
  <1>4. Course(run, q, ty2, ov2)
    BY <1>1, <1>2, <1>3 DEF Course
  <1> QED BY <1>1, <1>4 DEF Leads, ty2

\* A prefix sets its flag and nothing else.
LEMMA QuietPrefix ==
  ASSUME NEW q \in Seq(Bytes), NEW ty \in Seq(Presses), NEW ov \in BOOLEAN, NEW st,
         Leads(q, st, ty, ov)
  PROVE  /\ st \in States
         /\ After(st, E0) \in States
         /\ Leads(Append(q, E0), After(st, E0), ty, ov)
         /\ After(st, E0) = [st EXCEPT !.ext = TRUE]
  <1>1. E0 \in Bytes /\ ~Returns(st, E0)
    BY DEF E0, Up, Bytes, Codes, Returns
  <1>2. st \in States /\ Leads(Append(q, E0), After(st, E0), ty, ov)
    BY <1>1, OneMore
  <1>3. After(st, E0) \in States
    BY <1>1, <1>2, AfterIsState
  <1>4. After(st, E0) = [st EXCEPT !.ext = TRUE]
    <2>1. E0.up /\ E0.code = "e0" /\ ~(E0.code \in Shifts) /\ E0.code # "ctrl"
      BY DEF E0, Up, Shifts
    <2>2. After(st, E0).shift = st.shift /\ After(st, E0).ctrl = st.ctrl
      BY <1>2, <2>1 DEF After, States
    <2>3. After(st, E0).seen = st.seen /\ After(st, E0).ext = TRUE
      BY <1>1 DEF After
    <2> QED BY <1>2, <1>3, <2>2, <2>3 DEF States
  <1> QED BY <1>2, <1>3, <1>4

\* A byte without a prefix.
LEMMA Plain ==
  ASSUME NEW q \in Seq(Bytes), NEW ty \in Seq(Presses), NEW ov \in BOOLEAN, NEW st,
         Leads(q, st, ty, ov), ~st.ext, NEW b \in Bytes, b # E0,
         (~b.up /\ b.code \in {"letter", "slash"}) => Matches(st, b, ty, ov)
  PROVE  \E st2 \in States :
            /\ Leads(q \o <<b>>, st2, ty, ov)
            /\ ~st2.ext
            /\ st2.seen = IF ~b.up /\ b.code \in {"letter", "slash"}
                          THEN st.seen + 1 ELSE st.seen
            /\ st2.shift <=> /\ ~(b.up /\ b.code \in Shifts)
                             /\ st.shift \/ (~b.up /\ b.code \in Shifts)
            /\ st2.ctrl <=> /\ ~(b.up /\ b.code = "ctrl")
                            /\ st.ctrl \/ (~b.up /\ b.code = "ctrl")
  <1>1. Returns(st, b) <=> (~b.up /\ b.code \in {"letter", "slash"})
    BY DEF Returns
  <1>2. st \in States /\ Leads(Append(q, b), After(st, b), ty, ov)
    BY <1>1, OneMore
  <1>3. After(st, b) \in States
    BY <1>2, AfterIsState
  <1>4. Append(q, b) = q \o <<b>>
    OBVIOUS
  <1>5. ~After(st, b).ext
    BY DEF After
  <1>6. After(st, b).seen = IF ~b.up /\ b.code \in {"letter", "slash"}
                            THEN st.seen + 1 ELSE st.seen
    BY <1>1 DEF After
  <1>7. /\ After(st, b).shift <=> /\ ~(b.up /\ b.code \in Shifts)
                                  /\ st.shift \/ (~b.up /\ b.code \in Shifts)
        /\ After(st, b).ctrl <=> /\ ~(b.up /\ b.code = "ctrl")
                                 /\ st.ctrl \/ (~b.up /\ b.code = "ctrl")
    BY DEF After
  <1> QED BY <1>2, <1>3, <1>4, <1>5, <1>6, <1>7

\* A byte with its prefix.
LEMMA Prefixed ==
  ASSUME NEW q \in Seq(Bytes), NEW ty \in Seq(Presses), NEW ov \in BOOLEAN, NEW st,
         Leads(q, st, ty, ov), NEW b \in Bytes, b # E0,
         (~b.up /\ b.code = "up") => Matches(st, b, ty, ov)
  PROVE  \E st2 \in States :
            /\ Leads(q \o <<E0, b>>, st2, ty, ov)
            /\ ~st2.ext
            /\ st2.seen = IF ~b.up /\ b.code = "up" THEN st.seen + 1 ELSE st.seen
            /\ st2.shift <=> ~(b.up /\ b.code \in Shifts) /\ st.shift
            /\ st2.ctrl <=> ~(b.up /\ b.code = "ctrl") /\ st.ctrl
  <1> DEFINE s1 == After(st, E0)
             q1 == Append(q, E0)
  <1>1. /\ st \in States /\ s1 \in States /\ Leads(q1, s1, ty, ov)
        /\ s1 = [st EXCEPT !.ext = TRUE]
    BY QuietPrefix
  <1>2. /\ s1.ext = TRUE /\ s1.seen = st.seen /\ s1.shift = st.shift
        /\ s1.ctrl = st.ctrl
    BY <1>1 DEF States
  <1>3. E0 \in Bytes /\ q1 \in Seq(Bytes)
    BY DEF E0, Up, Bytes, Codes
  <1> HIDE DEF s1, q1
  <1>4. Returns(s1, b) <=> (~b.up /\ b.code = "up")
    BY <1>2 DEF Returns
  <1>5. Returns(s1, b) => Matches(s1, b, ty, ov)
    BY <1>2, <1>4 DEF Matches
  <1>6. Leads(Append(q1, b), After(s1, b), ty, ov)
    BY <1>1, <1>3, <1>5, OneMore
  <1>7. After(s1, b) \in States
    BY <1>1, AfterIsState
  <1>8. Append(q1, b) = q \o <<E0, b>>
    BY <1>3 DEF q1
  <1>9. ~After(s1, b).ext
    BY DEF After
  <1>10. After(s1, b).seen = IF ~b.up /\ b.code = "up" THEN st.seen + 1 ELSE st.seen
    BY <1>2, <1>4 DEF After
  <1>11. /\ After(s1, b).shift <=> ~(b.up /\ b.code \in Shifts) /\ st.shift
         /\ After(s1, b).ctrl <=> ~(b.up /\ b.code = "ctrl") /\ st.ctrl
    BY <1>2 DEF After
  <1> QED BY <1>6, <1>7, <1>8, <1>9, <1>10, <1>11

\* What Press sends and what it adds to typed.
PressBytes(key, numlock) ==
    IF key = "pause" THEN PauseBytes
    ELSE FakeBefore(key, numlock) \o Prefix(key) \o <<Down(Code(key))>>

Pressed(key, h) ==
    IF key \in Meaningful
    THEN <<[key |-> key, shift |-> h \cap Shifts # {}, ctrl |-> h \cap Ctrls # {}]>>
    ELSE <<>>

\* The shifts that are pretended around an arrow.
Fakes == {<<>>, <<E0, Up("lshift")>>, <<E0, Down("lshift")>>}

\* A pretended shift changes nothing for what follows.
LEMMA FakeLeads ==
  ASSUME NEW q \in Seq(Bytes), NEW ty \in Seq(Presses), NEW ov \in BOOLEAN,
         NEW seen \in Seq(Presses), NEW h, NEW st,
         Leads(q, st, ty, ov), Ends(st, seen, h, ov), NEW fake \in Fakes
  PROVE  /\ q \o fake \in Seq(Bytes)
         /\ \E st2 : Leads(q \o fake, st2, ty, ov) /\ Ends(st2, seen, h, ov)
  <1>1. CASE fake = <<>>
    <2>1. q \o fake = q
      BY <1>1
    <2> QED BY <2>1
  <1>2. ASSUME NEW b \in Bytes, b = Up("lshift") \/ b = Down("lshift"), fake = <<E0, b>>
        PROVE  /\ q \o fake \in Seq(Bytes)
               /\ \E st2 : Leads(q \o fake, st2, ty, ov) /\ Ends(st2, seen, h, ov)
    <2>1. b # E0 /\ b.code = "lshift" /\ E0 \in Bytes
      BY <1>2 DEF E0, Up, Down, Bytes, Codes
    <2>2. PICK st2 \in States :
            /\ Leads(q \o <<E0, b>>, st2, ty, ov)
            /\ ~st2.ext
            /\ st2.seen = IF ~b.up /\ b.code = "up" THEN st.seen + 1 ELSE st.seen
            /\ st2.shift <=> ~(b.up /\ b.code \in Shifts) /\ st.shift
            /\ st2.ctrl <=> ~(b.up /\ b.code = "ctrl") /\ st.ctrl
      BY <2>1, Prefixed
    <2>3. Ends(st2, seen, h, ov)
      BY <2>1, <2>2 DEF Ends
    <2>4. q \o <<E0, b>> \in Seq(Bytes)
      BY <2>1
    <2> QED BY <1>2, <2>2, <2>3, <2>4
  <1>3. Up("lshift") \in Bytes /\ Down("lshift") \in Bytes
    BY DEF Up, Down, Bytes, Codes
  <1> QED BY <1>1, <1>2, <1>3 DEF Fakes

\* The bytes of a press after its pretended shifts.
LEMMA PressLeads ==
  ASSUME NEW q \in Seq(Bytes), NEW ty \in Seq(Presses), NEW ov \in BOOLEAN,
         NEW h, NEW st, NEW key \in AllKeys \ {"pause"},
         Leads(q, st, ty \o Pressed(key, h), ov), Ends(st, ty, h, ov)
  PROVE  /\ q \o (Prefix(key) \o <<Down(Code(key))>>) \in Seq(Bytes)
         /\ \E st2 :
              /\ Leads(q \o (Prefix(key) \o <<Down(Code(key))>>), st2,
                       ty \o Pressed(key, h), ov)
              /\ Ends(st2, ty \o Pressed(key, h), h \cup {key}, ov)
  <1> DEFINE b   == Down(Code(key))
             ty2 == ty \o Pressed(key, h)
  <1>1. b \in Bytes /\ b # E0 /\ ~b.up /\ b.code = Code(key) /\ E0 \in Bytes
    BY DEF Down, Code, AllKeys, Bytes, Codes, E0, Up
  <1>2. ty2 \in Seq(Presses) /\ Leads(q, st, ty2, ov)
    <2> DEFINE r == [key |-> key, shift |-> h \cap Shifts # {}, ctrl |-> h \cap Ctrls # {}]
    <2>1. key \in Meaningful => r \in Presses
      <3>1. (h \cap Shifts # {}) \in BOOLEAN /\ (h \cap Ctrls # {}) \in BOOLEAN
        OBVIOUS
      <3> QED BY <3>1 DEF Presses
    <2> HIDE DEF r
    <2>2. key \in Meaningful => <<r>> \in Seq(Presses)
      BY <2>1
    <2>3. Pressed(key, h) \in Seq(Presses)
      BY <2>2 DEF Pressed, r
    <2> QED BY <2>3
  <1>3. key \in Meaningful =>
            /\ Len(ty2) = Len(ty) + 1 /\ ty2[Len(ty) + 1].key = key
            /\ ty2[Len(ty) + 1].shift = (h \cap Shifts # {})
            /\ ty2[Len(ty) + 1].ctrl = (h \cap Ctrls # {})
    BY DEF Pressed
  <1>4. key \notin Meaningful => ty2 = ty
    BY DEF Pressed
  <1>5. key \in Shifts => (h \cup {key}) \cap Shifts # {}
    OBVIOUS
  <1>6. key \in Ctrls => (h \cup {key}) \cap Ctrls # {}
    OBVIOUS
  <1>7. /\ h \cap Shifts # {} => (h \cup {key}) \cap Shifts # {}
        /\ h \cap Ctrls # {} => (h \cup {key}) \cap Ctrls # {}
    OBVIOUS
  <1>8. key \in Meaningful => Code(key) = key
    BY DEF Meaningful, Code
  <1>9. key \in Meaningful => Matches(st, b, ty2, ov)
    <2> HAVE key \in Meaningful
    <2>1. st.seen = Len(ty) /\ Len(ty) \in Nat
      BY DEF Ends
    <2>2. st.seen < Len(ty2) /\ ty2[st.seen + 1].key = b.code
      BY <1>1, <1>3, <1>8, <2>1
    <2>3. st.shift => ty2[st.seen + 1].shift \/ ov
      BY <1>3, <2>1 DEF Ends
    <2>4. st.ctrl => ty2[st.seen + 1].ctrl \/ ov
      BY <1>3, <2>1 DEF Ends
    <2> QED BY <2>2, <2>3, <2>4 DEF Matches
  <1> HIDE DEF b, ty2
  <1>10. CASE key \in {"rctrl", "kpslash", "up"}
    <2>1. q \o (Prefix(key) \o <<b>>) = q \o <<E0, b>>
      <3>1. Prefix(key) = <<E0>>
        BY <1>10 DEF Prefix
      <3>2. q \o (<<E0>> \o <<b>>) = (q \o <<E0>>) \o <<b>>
        BY <1>1
      <3>3. (q \o <<E0>>) \o <<b>> = q \o <<E0, b>>
        BY <1>1
      <3> QED BY <3>1, <3>2, <3>3
    <2>2. /\ b.code = "up" <=> key = "up"
          /\ b.code = "up" <=> key \in Meaningful
          /\ key \notin Shifts
      BY <1>1, <1>10 DEF Code, Meaningful, Shifts
    <2>3. PICK st2 \in States :
            /\ Leads(q \o <<E0, b>>, st2, ty2, ov)
            /\ ~st2.ext
            /\ st2.seen = IF ~b.up /\ b.code = "up" THEN st.seen + 1 ELSE st.seen
            /\ st2.shift <=> ~(b.up /\ b.code \in Shifts) /\ st.shift
            /\ st2.ctrl <=> ~(b.up /\ b.code = "ctrl") /\ st.ctrl
      BY <1>1, <1>2, <1>9, <2>2, Prefixed
    <2>4. st2.seen = Len(ty2)
      BY <1>1, <1>3, <1>4, <2>2, <2>3 DEF Ends
    <2>5. Ends(st2, ty2, h \cup {key}, ov)
      BY <1>1, <1>7, <2>3, <2>4 DEF Ends
    <2>6. q \o <<E0, b>> \in Seq(Bytes)
      BY <1>1
    <2> QED BY <2>1, <2>3, <2>5, <2>6 DEF ty2, b
  <1>11. CASE key \notin {"rctrl", "kpslash", "up"}
    <2>1. q \o (Prefix(key) \o <<b>>) = q \o <<b>>
      <3>1. Prefix(key) = <<>>
        BY <1>11 DEF Prefix
      <3> QED BY <1>1, <3>1
    <2>2. /\ b.code \in {"letter", "slash"} <=> key \in Meaningful
          /\ b.code \in Shifts => key \in Shifts
          /\ b.code = "ctrl" => key \in Ctrls
      BY <1>1, <1>11 DEF Code, Meaningful, Shifts, Ctrls, AllKeys
    <2>3. PICK st2 \in States :
            /\ Leads(q \o <<b>>, st2, ty2, ov)
            /\ ~st2.ext
            /\ st2.seen = IF ~b.up /\ b.code \in {"letter", "slash"}
                          THEN st.seen + 1 ELSE st.seen
            /\ st2.shift <=> /\ ~(b.up /\ b.code \in Shifts)
                             /\ st.shift \/ (~b.up /\ b.code \in Shifts)
            /\ st2.ctrl <=> /\ ~(b.up /\ b.code = "ctrl")
                            /\ st.ctrl \/ (~b.up /\ b.code = "ctrl")
      <3>1. ~st.ext
        BY DEF Ends
      <3> QED BY <1>1, <1>2, <1>9, <2>2, <3>1, Plain
    <2>4. st2.seen = Len(ty2)
      BY <1>1, <1>3, <1>4, <2>2, <2>3 DEF Ends
    <2>5. Ends(st2, ty2, h \cup {key}, ov)
      BY <1>1, <1>5, <1>6, <1>7, <2>2, <2>3, <2>4 DEF Ends
    <2>6. q \o <<b>> \in Seq(Bytes)
      BY <1>1
    <2> QED BY <2>1, <2>3, <2>5, <2>6 DEF ty2, b
  <1> QED BY <1>10, <1>11

\* Four bytes are sent one after the other.
LEMMA FourBytes ==
  ASSUME NEW q \in Seq(Bytes), NEW a \in Bytes, NEW b \in Bytes, NEW c \in Bytes,
         NEW d \in Bytes
  PROVE  q \o <<a, b, c, d>> = (((q \o <<a>>) \o <<b>>) \o <<c>>) \o <<d>>
  <1> DEFINE s == (((q \o <<a>>) \o <<b>>) \o <<c>>) \o <<d>>
             t == q \o <<a, b, c, d>>
  <1>1. s \in Seq(Bytes) /\ t \in Seq(Bytes) /\ Len(s) = Len(q) + 4 /\ Len(t) = Len(s)
    OBVIOUS
  <1>2. ASSUME NEW i \in 1 .. Len(s)
        PROVE  s[i] = t[i]
    <2>1. CASE i \in 1 .. Len(q)
      BY <2>1
    <2>2. CASE i = Len(q) + 1
      BY <2>2
    <2>3. CASE i = Len(q) + 2
      BY <2>3
    <2>4. CASE i = Len(q) + 3
      BY <2>4
    <2>5. CASE i = Len(q) + 4
      BY <2>5
    <2> QED BY <1>1, <2>1, <2>2, <2>3, <2>4, <2>5
  <1> HIDE DEF s, t
  <1> QED BY <1>1, <1>2, SeqEqual DEF s, t

\* Pause leaves the driver as it was, but for control.
LEMMA PauseLeads ==
  ASSUME NEW q \in Seq(Bytes), NEW ty \in Seq(Presses), NEW ov \in BOOLEAN,
         NEW h, NEW st, Leads(q, st, ty, ov), Ends(st, ty, h, ov)
  PROVE  /\ q \o PauseBytes \in Seq(Bytes)
         /\ \E st2 : Leads(q \o PauseBytes, st2, ty, ov) /\ Ends(st2, ty, h, ov)
  <1> DEFINE d  == Down("ctrl")
             u  == Up("ctrl")
             q1 == q \o <<E1>>
             q2 == q1 \o <<d>>
             q3 == q2 \o <<E1>>
             Step(p, s, b, s2) ==
                /\ Leads(p \o <<b>>, s2, ty, ov)
                /\ ~s2.ext
                /\ s2.seen = s.seen
                /\ s2.shift <=> s.shift
  <1>1. /\ E1 \in Bytes /\ d \in Bytes /\ u \in Bytes
        /\ E1 # E0 /\ E1.up /\ E1.code = "e1"
        /\ d # E0 /\ ~d.up /\ d.code = "ctrl"
        /\ u # E0 /\ u.up /\ u.code = "ctrl"
    BY DEF E0, E1, Up, Down, Bytes, Codes
  <1>2. q1 \in Seq(Bytes) /\ q2 \in Seq(Bytes) /\ q3 \in Seq(Bytes)
        /\ q3 \o <<u>> \in Seq(Bytes)
    BY <1>1
  <1>3. q \o PauseBytes = q3 \o <<u>>
    <2> DEFINE e == E1
    <2>1. PauseBytes = <<e, d, e, u>>
      BY DEF PauseBytes
    <2>2. e \in Bytes /\ d \in Bytes /\ u \in Bytes
      BY <1>1
    <2>3. q3 \o <<u>> = (((q \o <<e>>) \o <<d>>) \o <<e>>) \o <<u>>
      OBVIOUS
    <2> HIDE DEF d, u, e, q1, q2, q3, Step
    <2>4. q \o <<e, d, e, u>> = (((q \o <<e>>) \o <<d>>) \o <<e>>) \o <<u>>
      BY <2>2, FourBytes
    <2> QED BY <2>1, <2>3, <2>4
  <1>4. "ctrl" \notin Shifts /\ "e1" \notin Shifts
    BY DEF Shifts
  <1> HIDE DEF d, u, q1, q2, q3
  <1>5. ASSUME NEW p \in Seq(Bytes), NEW s, NEW b \in Bytes, Leads(p, s, ty, ov), ~s.ext,
               b # E0, b.code = "ctrl" \/ (b.up /\ b.code = "e1")
        PROVE  \E s2 \in States : /\ Step(p, s, b, s2)
                                  /\ b.up /\ b.code = "ctrl" => ~s2.ctrl
    <2>1. /\ ~(~b.up /\ b.code \in {"letter", "slash"})
          /\ b.code \notin Shifts
      BY <1>4, <1>5
    <2>2. PICK st2 \in States :
            /\ Leads(p \o <<b>>, st2, ty, ov)
            /\ ~st2.ext
            /\ st2.seen = IF ~b.up /\ b.code \in {"letter", "slash"}
                          THEN s.seen + 1 ELSE s.seen
            /\ st2.shift <=> /\ ~(b.up /\ b.code \in Shifts)
                             /\ s.shift \/ (~b.up /\ b.code \in Shifts)
            /\ st2.ctrl <=> /\ ~(b.up /\ b.code = "ctrl")
                            /\ s.ctrl \/ (~b.up /\ b.code = "ctrl")
      BY <1>5, <2>1, Plain
    <2> QED BY <2>1, <2>2
  <1>6. ~st.ext
    BY DEF Ends
  <1> HIDE DEF Step
  <1>7. PICK s1 \in States : Step(q, st, E1, s1)
    BY <1>1, <1>5, <1>6
  <1>8. PICK s2 \in States : Step(q1, s1, d, s2)
    BY <1>1, <1>2, <1>5, <1>7 DEF q1, Step
  <1>9. PICK s3 \in States : Step(q2, s2, E1, s3)
    BY <1>1, <1>2, <1>5, <1>8 DEF q2, Step
  <1>10. PICK s4 \in States : Step(q3, s3, u, s4) /\ ~s4.ctrl
    <2>1. Leads(q3, s3, ty, ov) /\ ~s3.ext
      BY <1>9 DEF q3, Step
    <2> QED BY <1>1, <1>2, <1>5, <2>1
  <1>11. Ends(s4, ty, h, ov)
    BY <1>7, <1>8, <1>9, <1>10 DEF Ends, Step
  <1> QED BY <1>2, <1>3, <1>10, <1>11 DEF Step

\* The bytes of a release before its pretended shifts.
LEMMA ReleaseLeads ==
  ASSUME NEW q \in Seq(Bytes), NEW ty \in Seq(Presses), NEW ov \in BOOLEAN,
         NEW h, NEW st, NEW key \in AllKeys \ {"pause"},
         Leads(q, st, ty, ov), Ends(st, ty, h, ov)
  PROVE  /\ q \o (Prefix(key) \o <<Up(Code(key))>>) \in Seq(Bytes)
         /\ \E st2 : /\ Leads(q \o (Prefix(key) \o <<Up(Code(key))>>), st2, ty, ov)
                     /\ Ends(st2, ty, h \ {key}, ov)
  <1> DEFINE b == Up(Code(key))
  <1>1. b \in Bytes /\ b # E0 /\ b.up /\ b.code = Code(key) /\ E0 \in Bytes
    BY DEF Up, Code, AllKeys, Bytes, Codes, E0
  <1>2. /\ key \notin Shifts /\ h \cap Shifts # {} => (h \ {key}) \cap Shifts # {}
        /\ key \notin Ctrls /\ h \cap Ctrls # {} => (h \ {key}) \cap Ctrls # {}
    OBVIOUS
  <1>3. /\ key \in Shifts => b.code \in Shifts
        /\ key \in Ctrls => b.code = "ctrl"
    BY <1>1 DEF Code, Shifts, Ctrls
  <1> HIDE DEF b
  <1>4. ASSUME NEW st2 \in States, ~st2.ext, st2.seen = st.seen,
               st2.shift => st.shift /\ b.code \notin Shifts,
               st2.ctrl => st.ctrl /\ b.code # "ctrl"
        PROVE  Ends(st2, ty, h \ {key}, ov)
    BY <1>2, <1>3, <1>4 DEF Ends
  <1>5. CASE key \in {"rctrl", "kpslash", "up"}
    <2>1. q \o (Prefix(key) \o <<b>>) = q \o <<E0, b>>
      <3>1. Prefix(key) = <<E0>>
        BY <1>5 DEF Prefix
      <3>2. q \o (<<E0>> \o <<b>>) = (q \o <<E0>>) \o <<b>>
        BY <1>1
      <3>3. (q \o <<E0>>) \o <<b>> = q \o <<E0, b>>
        BY <1>1
      <3> QED BY <3>1, <3>2, <3>3
    <2>2. PICK st2 \in States :
            /\ Leads(q \o <<E0, b>>, st2, ty, ov)
            /\ ~st2.ext
            /\ st2.seen = IF ~b.up /\ b.code = "up" THEN st.seen + 1 ELSE st.seen
            /\ st2.shift <=> ~(b.up /\ b.code \in Shifts) /\ st.shift
            /\ st2.ctrl <=> ~(b.up /\ b.code = "ctrl") /\ st.ctrl
      BY <1>1, Prefixed
    <2>3. Ends(st2, ty, h \ {key}, ov)
      BY <1>1, <1>4, <2>2
    <2>4. q \o <<E0, b>> \in Seq(Bytes)
      BY <1>1
    <2> QED BY <2>1, <2>2, <2>3, <2>4 DEF b
  <1>6. CASE key \notin {"rctrl", "kpslash", "up"}
    <2>1. q \o (Prefix(key) \o <<b>>) = q \o <<b>>
      <3>1. Prefix(key) = <<>>
        BY <1>6 DEF Prefix
      <3> QED BY <1>1, <3>1
    <2>2. PICK st2 \in States :
            /\ Leads(q \o <<b>>, st2, ty, ov)
            /\ ~st2.ext
            /\ st2.seen = IF ~b.up /\ b.code \in {"letter", "slash"}
                          THEN st.seen + 1 ELSE st.seen
            /\ st2.shift <=> /\ ~(b.up /\ b.code \in Shifts)
                             /\ st.shift \/ (~b.up /\ b.code \in Shifts)
            /\ st2.ctrl <=> /\ ~(b.up /\ b.code = "ctrl")
                            /\ st.ctrl \/ (~b.up /\ b.code = "ctrl")
      <3>1. ~st.ext
        BY DEF Ends
      <3> QED BY <1>1, <3>1, Plain
    <2>3. Ends(st2, ty, h \ {key}, ov)
      BY <1>1, <1>4, <2>2
    <2>4. q \o <<b>> \in Seq(Bytes)
      BY <1>1
    <2> QED BY <2>1, <2>2, <2>3, <2>4 DEF b
  <1> QED BY <1>5, <1>6

\* What is lost makes the promise weaker.
LEMMA Weaker ==
  ASSUME NEW q \in Seq(Bytes), NEW ty \in Seq(Presses), NEW ov \in BOOLEAN,
         NEW h, NEW h2, Foreseen(q, ty, h, ov)
  PROVE  Foreseen(q, ty, h2, TRUE)
  <1>1. PICK st : Leads(q, st, ty, ov) /\ Ends(st, ty, h, ov)
    BY DEF Foreseen
  <1>2. <<>> \in Seq(Presses) /\ ty \o <<>> = ty
    OBVIOUS
  <1>3. Leads(q, st, ty \o <<>>, TRUE)
    BY <1>1, <1>2, MoreTyped
  <1>4. Ends(st, ty, h2, TRUE)
    BY <1>1 DEF Ends
  <1> QED BY <1>2, <1>3, <1>4 DEF Foreseen

\* A press keeps the invariant.
LEMMA PressKeeps ==
  ASSUME KeyboardInv, NEW key \in Keys, NEW numlock \in BOOLEAN,
         Press(key, numlock)
  PROVE  KeyboardInv'
  <1> DEFINE bytes == PressBytes(key, numlock)
             more  == Pressed(key, held)
  <1>1. /\ queue \in Seq(Bytes) /\ typed \in Seq(Presses) /\ overrun \in BOOLEAN
        /\ held \subseteq Keys /\ "pause" \notin held
    BY DEF KeyboardInv, Types
  <1>2. UNCHANGED driver /\ held' = IF key = "pause" THEN held ELSE held \cup {key}
    BY DEF Press
  <1>3. more \in Seq(Presses) /\ (key = "pause" => more = <<>>)
    <2> DEFINE r == [key |-> key, shift |-> held \cap Shifts # {},
                     ctrl |-> held \cap Ctrls # {}]
    <2>1. key \in Meaningful => r \in Presses
      <3>1. (held \cap Shifts # {}) \in BOOLEAN /\ (held \cap Ctrls # {}) \in BOOLEAN
        OBVIOUS
      <3> QED BY <3>1 DEF Presses
    <2> HIDE DEF r
    <2>2. key \in Meaningful => <<r>> \in Seq(Presses)
      BY <2>1
    <2>3. Pressed(key, held) \in Seq(Presses)
      BY <2>2 DEF Pressed, r
    <2>4. key = "pause" => more = <<>>
      BY DEF Pressed, Meaningful
    <2> QED BY <2>3, <2>4
  <1>4. PICK st : Leads(queue, st, typed, overrun) /\ Ends(st, typed, held, overrun)
    BY DEF KeyboardInv, Foreseen
  <1>5. /\ queue \o bytes \in Seq(Bytes)
        /\ \E st2 : /\ Leads(queue \o bytes, st2, typed \o more, overrun)
                    /\ Ends(st2, typed \o more, held', overrun)
    <2>1. CASE key = "pause"
      <3>1. bytes = PauseBytes /\ typed \o more = typed /\ held' = held
        BY <1>1, <1>2, <1>3, <2>1 DEF PressBytes
      <3> HIDE DEF bytes, more
      <3> QED BY <1>1, <1>4, <3>1, PauseLeads
    <2>2. CASE key # "pause"
      <3> DEFINE fake == FakeBefore(key, numlock)
                 rest == Prefix(key) \o <<Down(Code(key))>>
      <3>1. fake \in Fakes
        BY DEF FakeBefore, Fakes
      <3>2. Leads(queue, st, typed \o more, overrun)
        BY <1>1, <1>3, <1>4, MoreTyped
      <3>3. typed \o more \in Seq(Presses)
        BY <1>1, <1>3
      <3>4. PICK st1 : /\ queue \o fake \in Seq(Bytes)
                       /\ Leads(queue \o fake, st1, typed \o more, overrun)
                       /\ Ends(st1, typed, held, overrun)
        <4> HIDE DEF fake, more
        <4> QED BY <1>1, <1>4, <3>1, <3>2, <3>3, FakeLeads
      <3>5. key \in AllKeys \ {"pause"}
        BY <2>2, KeyboardAssumption
      <3>6. /\ (queue \o fake) \o rest \in Seq(Bytes)
            /\ \E st2 : /\ Leads((queue \o fake) \o rest, st2, typed \o more, overrun)
                        /\ Ends(st2, typed \o more, held \cup {key}, overrun)
        <4> HIDE DEF fake
        <4> QED BY <1>1, <3>4, <3>5, PressLeads
      <3>7. (queue \o fake) \o rest = queue \o bytes
        <4>1. E0 \in Bytes /\ Up("lshift") \in Bytes /\ Down("lshift") \in Bytes
              /\ Down(Code(key)) \in Bytes
          BY <3>5 DEF Down, Up, Code, AllKeys, Bytes, Codes, E0
        <4>2. fake \in Seq(Bytes)
          <5>1. /\ <<>> \in Seq(Bytes) /\ <<E0, Up("lshift")>> \in Seq(Bytes)
                /\ <<E0, Down("lshift")>> \in Seq(Bytes)
            BY <4>1
          <5> HIDE DEF fake
          <5> QED BY <3>1, <5>1 DEF Fakes
        <4>3. Prefix(key) \in Seq(Bytes) /\ <<Down(Code(key))>> \in Seq(Bytes)
          BY <4>1 DEF Prefix
        <4>4. bytes = (fake \o Prefix(key)) \o <<Down(Code(key))>>
          BY <2>2 DEF PressBytes
        <4> HIDE DEF fake, bytes
        <4>5. bytes = fake \o rest
          BY <4>2, <4>3, <4>4, ConcatAssociative
        <4>6. rest \in Seq(Bytes)
          BY <4>3
        <4> HIDE DEF rest
        <4>7. (queue \o fake) \o rest = queue \o (fake \o rest)
          BY <1>1, <4>2, <4>6, ConcatAssociative
        <4> QED BY <4>5, <4>7
      <3> QED BY <1>2, <2>2, <3>6, <3>7
    <2> QED BY <2>1, <2>2
  <1>6. held' \subseteq Keys /\ "pause" \notin held'
    BY <1>1, <1>2
  <1>7. CASE Len(queue) + Len(bytes) <= QueueMax
    <2>1. queue' = queue \o bytes /\ typed' = typed \o more /\ overrun' = overrun
      BY <1>7 DEF Press, Send, PressBytes, Pressed
    <2>2. typed' \in Seq(Presses) /\ queue' \in Seq(Bytes)
      BY <1>1, <1>3, <1>5, <2>1
    <2> HIDE DEF bytes, more
    <2>3. Foreseen(queue', typed', held', overrun')
      BY <1>5, <2>1 DEF Foreseen
    <2> QED BY <1>2, <1>6, <2>1, <2>2, <2>3
            DEF KeyboardInv, Types, Foreseen, Leads, Begins, driver
  <1>8. CASE ~(Len(queue) + Len(bytes) <= QueueMax)
    <2>1. queue' = queue /\ typed' = typed /\ overrun' = TRUE
      BY <1>8 DEF Press, Send, PressBytes, Pressed
    <2> HIDE DEF bytes, more
    <2>2. Foreseen(queue', typed', held', overrun')
      BY <1>1, <2>1, Weaker DEF KeyboardInv
    <2> QED BY <1>1, <1>2, <1>6, <2>1, <2>2
            DEF KeyboardInv, Types, Foreseen, Leads, Begins, driver
  <1> QED BY <1>7, <1>8

\* A release keeps the invariant.
LEMMA ReleaseKeeps ==
  ASSUME KeyboardInv, NEW key \in Keys, NEW numlock \in BOOLEAN,
         Release(key, numlock)
  PROVE  KeyboardInv'
  <1> DEFINE rest  == Prefix(key) \o <<Up(Code(key))>>
             fake  == FakeAfter(key, numlock)
             bytes == rest \o fake
  <1>1. /\ queue \in Seq(Bytes) /\ typed \in Seq(Presses) /\ overrun \in BOOLEAN
        /\ held \subseteq Keys /\ "pause" \notin held
    BY DEF KeyboardInv, Types
  <1>2. UNCHANGED driver /\ held' = held \ {key} /\ key \in AllKeys \ {"pause"}
    BY <1>1, KeyboardAssumption DEF Release
  <1>3. PICK st : Leads(queue, st, typed, overrun) /\ Ends(st, typed, held, overrun)
    BY DEF KeyboardInv, Foreseen
  <1>4. typed \o <<>> = typed
    BY <1>1
  <1>5. PICK st1 : /\ queue \o rest \in Seq(Bytes)
                   /\ Leads(queue \o rest, st1, typed, overrun)
                   /\ Ends(st1, typed, held', overrun)
    <2>1. /\ queue \o rest \in Seq(Bytes)
          /\ \E st1 : /\ Leads(queue \o rest, st1, typed, overrun)
                      /\ Ends(st1, typed, held \ {key}, overrun)
      BY <1>1, <1>2, <1>3, ReleaseLeads
    <2> HIDE DEF rest
    <2> QED BY <1>2, <2>1
  <1>6. fake \in Fakes
    BY DEF FakeAfter, Fakes
  <1>7. /\ (queue \o rest) \o fake \in Seq(Bytes)
        /\ \E st2 : /\ Leads((queue \o rest) \o fake, st2, typed, overrun)
                    /\ Ends(st2, typed, held', overrun)
    <2> HIDE DEF rest, fake
    <2> QED BY <1>1, <1>5, <1>6, FakeLeads
  <1>8. (queue \o rest) \o fake = queue \o bytes
    <2>1. E0 \in Bytes /\ Up("lshift") \in Bytes /\ Down("lshift") \in Bytes
          /\ Up(Code(key)) \in Bytes
      BY <1>2 DEF Down, Up, Code, AllKeys, Bytes, Codes, E0
    <2>2. fake \in Seq(Bytes)
      <3>1. /\ <<>> \in Seq(Bytes) /\ <<E0, Up("lshift")>> \in Seq(Bytes)
            /\ <<E0, Down("lshift")>> \in Seq(Bytes)
        BY <2>1
      <3> HIDE DEF fake
      <3> QED BY <1>6, <3>1 DEF Fakes
    <2>3. rest \in Seq(Bytes)
      <3>1. Prefix(key) \in Seq(Bytes) /\ <<Up(Code(key))>> \in Seq(Bytes)
        BY <2>1 DEF Prefix
      <3> QED BY <3>1
    <2> HIDE DEF rest, fake
    <2> QED BY <1>1, <2>2, <2>3, ConcatAssociative
  <1>9. held' \subseteq Keys /\ "pause" \notin held'
    BY <1>1, <1>2
  <1>10. CASE Len(queue) + Len(bytes) <= QueueMax
    <2>1. queue' = queue \o bytes /\ typed' = typed \o <<>> /\ overrun' = overrun
      BY <1>10 DEF Release, Send
    <2> HIDE DEF bytes, rest, fake
    <2>2. typed' \in Seq(Presses) /\ queue' \in Seq(Bytes)
      BY <1>1, <1>4, <1>7, <1>8, <2>1
    <2>3. Foreseen(queue', typed', held', overrun')
      BY <1>4, <1>7, <1>8, <2>1 DEF Foreseen
    <2> QED BY <1>1, <1>2, <1>9, <2>1, <2>2, <2>3
            DEF KeyboardInv, Types, Foreseen, Leads, Begins, driver
  <1>11. CASE ~(Len(queue) + Len(bytes) <= QueueMax)
    <2>1. queue' = queue /\ typed' = typed /\ overrun' = TRUE
      BY <1>11 DEF Release, Send
    <2> HIDE DEF bytes
    <2>2. Foreseen(queue', typed', held', overrun')
      BY <1>1, <2>1, Weaker DEF KeyboardInv
    <2> QED BY <1>1, <1>2, <1>9, <2>1, <2>2
            DEF KeyboardInv, Types, Foreseen, Leads, Begins, driver
  <1> QED BY <1>10, <1>11

\* The driver's next byte: what is left of the course is the course of what is left.
LEMMA OneLess ==
  ASSUME NEW q \in Seq(Bytes), q # <<>>, NEW ty \in Seq(Presses),
         NEW ov \in BOOLEAN, NEW run, Course(run, q, ty, ov)
  PROVE  LET ret  == Returns(run[1], Head(q))
             rest == IF ret THEN Tail(ty) ELSE ty
         IN /\ run[1] \in States
            /\ ret => Len(ty) > 0 /\ Matches(run[1], Head(q), ty, ov)
            /\ \E run2 :
                  /\ Course(run2, Tail(q), rest, ov)
                  /\ run2[1].ext = After(run[1], Head(q)).ext
                  /\ run2[1].shift = After(run[1], Head(q)).shift
                  /\ run2[1].ctrl = After(run[1], Head(q)).ctrl
                  /\ \A h : Ends(run[Len(q) + 1], ty, h, ov)
                               => Ends(run2[Len(Tail(q)) + 1], rest, h, ov)
  <1> DEFINE n    == Len(q)
             ret  == Returns(run[1], Head(q))
             rest == IF ret THEN Tail(ty) ELSE ty
             d    == IF ret THEN 1 ELSE 0
             Less(s) == [ext |-> s.ext, shift |-> s.shift, ctrl |-> s.ctrl,
                         seen |-> s.seen - d]
             run2 == [i \in 1 .. n |-> Less(run[i + 1])]
  <1>1. /\ n \in Nat /\ n >= 1 /\ Head(q) = q[1] /\ Head(q) \in Bytes
        /\ Tail(q) \in Seq(Bytes) /\ Len(Tail(q)) = n - 1
        /\ \A i \in 1 .. n - 1 : Tail(q)[i] = q[i + 1]
    OBVIOUS
  <1>2. /\ \A i \in 1 .. n + 1 : run[i] \in States
        /\ run[1].seen = 0
        /\ \A i \in 1 .. n : /\ Returns(run[i], q[i]) => Matches(run[i], q[i], ty, ov)
                             /\ run[i + 1] = After(run[i], q[i])
        /\ \A i, j \in 1 .. n + 1 : i <= j => run[i].seen <= run[j].seen
    BY DEF Course
  <1>3. run[1] \in States /\ run[2] = After(run[1], Head(q))
        /\ (ret => Matches(run[1], Head(q), ty, ov))
    BY <1>1, <1>2
  <1>4. run[2].seen = d
    BY <1>2, <1>3 DEF After
  <1>5. ret => Len(ty) > 0
    BY <1>2, <1>3 DEF Matches
  <1>6. /\ rest \in Seq(Presses) /\ Len(rest) = Len(ty) - d
        /\ \A k \in 1 .. Len(rest) : rest[k] = ty[k + d]
    BY <1>5
  <1> HIDE DEF n, rest, run2
  <1>7. \A i \in 2 .. n + 1 : run[i].seen \in Nat /\ run[i].seen >= d
    <2> TAKE i \in 2 .. n + 1
    <2>1. run[i].seen \in Nat
      BY <1>1, <1>2 DEF States
    <2>2. run[2].seen <= run[i].seen
      BY <1>1, <1>2
    <2> QED BY <1>4, <2>1, <2>2
  <1>8. \A i \in 1 .. n : run2[i] = Less(run[i + 1])
    BY DEF run2
  <1>9. d \in {0, 1}
    OBVIOUS
  <1> HIDE DEF d, ret
  <1>10. ASSUME NEW s \in States, s.seen >= d
         PROVE  Less(s) \in States
    <2>1. s.seen - d \in Nat
      BY <1>9, <1>10 DEF States
    <2> QED BY <2>1 DEF States
  <1>11. run2 \in [1 .. n -> States]
    <2>1. \A i \in 1 .. n : Less(run[i + 1]) \in States
      <3> TAKE i \in 1 .. n
      <3>1. i + 1 \in 2 .. n + 1 /\ i + 1 \in 1 .. n + 1
        BY <1>1
      <3> HIDE DEF Less
      <3> QED BY <1>2, <1>7, <1>10, <3>1
    <2> QED BY <2>1 DEF run2
  <1>12. run2[1] = Less(run[2]) /\ run2[1].seen = 0
    <2>1. 1 \in 1 .. n /\ 1 + 1 = 2
      BY <1>1
    <2>2. run2[1] = Less(run[1 + 1])
      BY <1>8, <2>1
    <2>3. run2[1] = Less(run[2])
      BY <2>1, <2>2
    <2> QED BY <1>4, <1>9, <2>3
  <1>13. ASSUME NEW s \in States, s.seen >= d, NEW b
         PROVE  /\ Returns(Less(s), b) <=> Returns(s, b)
                /\ Matches(s, b, ty, ov) => Matches(Less(s), b, rest, ov)
                /\ Less(After(s, b)) = After(Less(s), b)
    <2>1. Returns(Less(s), b) <=> Returns(s, b)
      BY DEF Returns
    <2>2. ASSUME Matches(s, b, ty, ov)
          PROVE  Matches(Less(s), b, rest, ov)
      <3>1. s.seen \in Nat /\ s.seen < Len(ty)
        BY <2>2 DEF Matches, States
      <3>2. s.seen - d + 1 \in 1 .. Len(rest)
        BY <1>6, <1>9, <1>13, <3>1
      <3>3. rest[s.seen - d + 1] = ty[s.seen + 1]
        BY <1>6, <1>9, <3>1, <3>2
      <3>4. s.seen - d < Len(rest)
        BY <1>6, <1>9, <3>1
      <3>5. Less(s).seen = s.seen - d /\ Less(s).shift = s.shift /\ Less(s).ctrl = s.ctrl
        OBVIOUS
      <3> HIDE DEF Less
      <3>6. Less(s).seen < Len(rest) /\ rest[Less(s).seen + 1].key = b.code
        BY <2>2, <3>3, <3>4, <3>5 DEF Matches
      <3>7. Less(s).shift => rest[Less(s).seen + 1].shift \/ ov
        BY <2>2, <3>3, <3>5 DEF Matches
      <3>8. Less(s).ctrl => rest[Less(s).seen + 1].ctrl \/ ov
        BY <2>2, <3>3, <3>5 DEF Matches
      <3> QED BY <3>6, <3>7, <3>8 DEF Matches
    <2>3. Less(After(s, b)) = After(Less(s), b)
      <3>1. Less(After(s, b)).seen = After(Less(s), b).seen
        BY <1>9, <1>13, <2>1 DEF After, States
      <3>2. Less(After(s, b)).ext = After(Less(s), b).ext
        BY DEF After
      <3>3. Less(After(s, b)).shift = After(Less(s), b).shift
        BY DEF After
      <3>4. Less(After(s, b)).ctrl = After(Less(s), b).ctrl
        BY DEF After
      <3> QED BY <3>1, <3>2, <3>3, <3>4 DEF After
    <2> QED BY <2>1, <2>2, <2>3
  <1>14. \A i \in 1 .. Len(Tail(q)) :
          /\ Returns(run2[i], Tail(q)[i]) => Matches(run2[i], Tail(q)[i], rest, ov)
          /\ run2[i + 1] = After(run2[i], Tail(q)[i])
    <2> TAKE i \in 1 .. Len(Tail(q))
    <2>1. i \in 1 .. n - 1 /\ i + 1 \in 2 .. n + 1 /\ i + 1 \in 1 .. n /\ i \in 1 .. n
      BY <1>1
    <2>2. Tail(q)[i] = q[i + 1] /\ run2[i] = Less(run[i + 1])
          /\ run2[i + 1] = Less(run[(i + 1) + 1])
      BY <1>1, <1>8, <2>1
    <2>3. run[i + 1] \in States /\ run[i + 1].seen >= d
      BY <1>1, <1>2, <1>7, <2>1
    <2>4. /\ Returns(run[i + 1], q[i + 1]) => Matches(run[i + 1], q[i + 1], ty, ov)
          /\ run[(i + 1) + 1] = After(run[i + 1], q[i + 1])
      BY <1>2, <2>1
    <2> HIDE DEF Less
    <2> QED BY <1>13, <2>2, <2>3, <2>4
  <1>15. \A i, j \in 1 .. Len(Tail(q)) + 1 : i <= j => run2[i].seen <= run2[j].seen
    <2> TAKE i, j \in 1 .. Len(Tail(q)) + 1
    <2> HAVE i <= j
    <2>1. i \in 1 .. n /\ j \in 1 .. n /\ i + 1 \in 2 .. n + 1 /\ j + 1 \in 2 .. n + 1
      BY <1>1
    <2>2. run[i + 1].seen <= run[j + 1].seen
      BY <1>1, <1>2, <2>1
    <2>3. run2[i].seen = run[i + 1].seen - d /\ run2[j].seen = run[j + 1].seen - d
      <3>1. run2[i] = Less(run[i + 1]) /\ run2[j] = Less(run[j + 1])
        BY <1>8, <2>1
      <3> QED BY <3>1
    <2> QED BY <1>7, <1>9, <2>1, <2>2, <2>3
  <1>16. Course(run2, Tail(q), rest, ov)
    <2>1. Len(Tail(q)) + 1 = n
      BY <1>1
    <2> HIDE DEF Less
    <2> QED BY <1>11, <1>12, <1>14, <1>15, <2>1 DEF Course
  <1>17. run2[1] = Less(After(run[1], Head(q)))
    BY <1>3, <1>12
  <1>18. ASSUME NEW h, Ends(run[Len(q) + 1], ty, h, ov)
         PROVE  Ends(run2[Len(Tail(q)) + 1], rest, h, ov)
    <2>1. Len(Tail(q)) + 1 = n /\ run2[n] = Less(run[n + 1]) /\ run2[n] \in States
      BY <1>1, <1>8, <1>11
    <2>2. /\ run2[n].ext = run[n + 1].ext /\ run2[n].shift = run[n + 1].shift
          /\ run2[n].ctrl = run[n + 1].ctrl /\ run2[n].seen = run[n + 1].seen - d
      BY <2>1
    <2>3. run2[n].seen = Len(rest)
      BY <1>6, <1>18, <2>2 DEF Ends, n
    <2> QED BY <1>18, <2>1, <2>2, <2>3 DEF Ends, n
  <1>19. /\ run2[1].ext = After(run[1], Head(q)).ext
         /\ run2[1].shift = After(run[1], Head(q)).shift
         /\ run2[1].ctrl = After(run[1], Head(q)).ctrl
    BY <1>17
  <1> QED BY <1>3, <1>5, <1>16, <1>18, <1>19 DEF rest, ret

\* One round of the loop keeps the invariant, and returns the next key typed.
LEMMA TakeByteKeeps ==
  ASSUME KeyboardInv, TakeByte
  PROVE  /\ KeyboardInv'
         /\ ~listening' =>
               /\ typed # <<>>
               /\ answer'.key = Head(typed).key
               /\ answer'.shift => Head(typed).shift \/ overrun
               /\ answer'.ctrl => Head(typed).ctrl \/ overrun
  <1> DEFINE byte == Head(queue)
  <1>1. /\ queue \in Seq(Bytes) /\ queue # <<>> /\ typed \in Seq(Presses)
        /\ overrun \in BOOLEAN /\ held \subseteq Keys /\ "pause" \notin held
        /\ shift \in BOOLEAN /\ ctrl \in BOOLEAN /\ caps \in BOOLEAN /\ ext \in BOOLEAN
        /\ listening = TRUE /\ answer.key \in Meaningful \cup {"none"}
    BY DEF KeyboardInv, Types, TakeByte
  <1>2. /\ queue' = Tail(queue) /\ held' = held /\ overrun' = overrun
        /\ Tail(queue) \in Seq(Bytes) /\ byte \in Bytes
    BY <1>1 DEF TakeByte
  <1>3. PICK run : /\ Course(run, queue, typed, overrun) /\ Begins(run[1])
                   /\ Ends(run[Len(queue) + 1], typed, held, overrun)
    BY DEF KeyboardInv, Foreseen, Leads
  <1> DEFINE ret  == Returns(run[1], byte)
             rest == IF ret THEN Tail(typed) ELSE typed
  <1>4. PICK run2 :
           /\ run[1] \in States
           /\ ret => Len(typed) > 0 /\ Matches(run[1], byte, typed, overrun)
           /\ Course(run2, Tail(queue), rest, overrun)
           /\ run2[1].ext = After(run[1], byte).ext
           /\ run2[1].shift = After(run[1], byte).shift
           /\ run2[1].ctrl = After(run[1], byte).ctrl
           /\ Ends(run2[Len(Tail(queue)) + 1], rest, held, overrun)
    BY <1>1, <1>3, OneLess
  <1>5. /\ run[1].ext = ext /\ (shift => run[1].shift) /\ (ctrl => run[1].ctrl)
    BY <1>1, <1>3, <1>4 DEF Begins, States
  <1>6. E0.up
    BY DEF E0, Up
  <1>7. /\ run[1].seen = 0
        /\ ret => typed # <<>> /\ Head(typed) = typed[1]
    BY <1>1, <1>3, <1>4 DEF Course
  \* what the driver does, byte by byte
  <1> DEFINE Told ==
               /\ answer' = [key |-> byte.code, shift |-> shift, ctrl |-> ctrl,
                             caps |-> caps]
               /\ listening' = FALSE
               /\ typed' = Tail(typed)
             Kept == answer' = answer /\ listening' = listening /\ typed' = typed
             Flags == /\ ext' = (byte = E0)
                      /\ shift' = (/\ ~(byte.up /\ byte.code \in Shifts)
                                   /\ shift \/ (~byte.up /\ ~ext /\ byte.code \in Shifts))
                      /\ ctrl' = (/\ ~(byte.up /\ byte.code = "ctrl")
                                  /\ ctrl \/ (~byte.up /\ ~ext /\ byte.code = "ctrl"))
                      /\ caps' \in BOOLEAN
  <1> HIDE DEF byte
  <1>8. Flags /\ (IF ret THEN Told ELSE Kept)
    <2>1. CASE byte = E0 /\ ext' = TRUE /\ UNCHANGED <<shift, ctrl, caps>> /\ Ignored
      <3>1. byte.up /\ byte.code \notin Shifts /\ byte.code # "ctrl" /\ ~ret
        BY <2>1 DEF E0, Up, Shifts, Returns
      <3> QED BY <1>1, <2>1, <3>1 DEF Ignored
    <2>2. CASE byte # E0 /\ byte.up /\ TakeRelease(byte)
      <3>1. ~ret
        BY <2>2 DEF Returns
      <3> QED BY <1>1, <2>2, <3>1 DEF TakeRelease, Ignored
    <2>3. CASE ~byte.up /\ ext /\ TakeExtended(byte)
      <3>1. byte # E0 /\ (ret <=> byte.code = "up")
        BY <1>5, <1>6, <2>3 DEF Returns
      <3>2. Flags
        BY <1>1, <2>3, <3>1 DEF TakeExtended
      <3> HIDE DEF Flags, ret
      <3>3. CASE ret
        <4>1. typed # <<>>
          BY <1>7, <3>3
        <4> QED BY <4>1, <2>3, <3>1, <3>2, <3>3 DEF TakeExtended, Returned
      <3>4. CASE ~ret
        BY <2>3, <3>1, <3>2, <3>4 DEF TakeExtended, Ignored
      <3> QED BY <3>2, <3>3, <3>4
    <2>4. CASE ~byte.up /\ ~ext /\ TakePlain(byte)
      <3>1. byte # E0 /\ (ret <=> byte.code \in {"letter", "slash"})
        BY <1>5, <1>6, <2>4 DEF Returns
      <3>2. Flags
        BY <1>1, <2>4, <3>1 DEF TakePlain
      <3> HIDE DEF Flags, ret
      <3>3. CASE ret
        <4>1. typed # <<>>
          BY <1>7, <3>3
        <4> QED BY <4>1, <2>4, <3>1, <3>2, <3>3 DEF TakePlain, Returned
      <3>4. CASE ~ret
        BY <2>4, <3>1, <3>2, <3>4 DEF TakePlain, Ignored
      <3> QED BY <3>2, <3>3, <3>4
    <2> QED BY <2>1, <2>2, <2>3, <2>4 DEF TakeByte, byte
  <1> HIDE DEF Told, Kept, Flags
  <1>9. typed' = rest
    BY <1>8 DEF Told, Kept
  <1>10. rest \in Seq(Presses)
    BY <1>1, <1>7
  <1>11. ret => byte.code \in Meaningful
    BY DEF Returns, Meaningful
  <1> HIDE DEF ret, rest
  <1>12. Begins(run2[1])'
    <2>1. /\ run2[1].ext = (byte = E0)
          /\ run2[1].shift = (/\ ~(byte.up /\ byte.code \in Shifts)
                              /\ run[1].shift \/ (~byte.up /\ ~ext /\ byte.code \in Shifts))
          /\ run2[1].ctrl = (/\ ~(byte.up /\ byte.code = "ctrl")
                             /\ run[1].ctrl \/ (~byte.up /\ ~ext /\ byte.code = "ctrl"))
      BY <1>4, <1>5 DEF After
    <2>2. ext' <=> run2[1].ext
      BY <1>8, <2>1 DEF Flags
    <2>3. shift' => run2[1].shift
      BY <1>5, <1>8, <2>1 DEF Flags
    <2>4. ctrl' => run2[1].ctrl
      BY <1>5, <1>8, <2>1 DEF Flags
    <2> QED BY <2>2, <2>3, <2>4 DEF Begins
  <1>13. Foreseen(queue, typed, held, overrun)'
    <2>1. /\ Course(run2, queue', typed', overrun')
          /\ Ends(run2[Len(queue') + 1], typed', held', overrun')
      BY <1>2, <1>4, <1>9
    <2> QED BY <1>12, <2>1 DEF Foreseen, Leads
  <1>14. Types'
    <2>1. answer'.key \in Meaningful \cup {"none"} /\ listening' \in BOOLEAN
      <3>1. CASE ret
        <4>1. Told
          BY <1>8, <3>1
        <4>2. answer'.key = byte.code /\ listening' = FALSE
          BY <4>1 DEF Told
        <4> QED BY <1>11, <3>1, <4>2
      <3>2. CASE ~ret
        BY <1>1, <1>8, <3>2 DEF Kept
      <3> QED BY <3>1, <3>2
    <2>2. /\ shift' \in BOOLEAN /\ ctrl' \in BOOLEAN /\ ext' \in BOOLEAN
          /\ caps' \in BOOLEAN
      BY <1>1, <1>8 DEF Flags
    <2> QED BY <1>1, <1>2, <1>9, <1>10, <2>1, <2>2 DEF Types
  <1>15. ext' => listening'
    <2>1. ret => byte # E0
      BY <1>6 DEF ret, Returns
    <2>2. CASE ret
      BY <1>8, <2>1, <2>2 DEF Flags
    <2>3. CASE ~ret
      BY <1>1, <1>8, <2>3 DEF Kept
    <2> QED BY <2>2, <2>3
  <1>16. ASSUME ~listening'
         PROVE  /\ typed # <<>>
                /\ answer'.key = Head(typed).key
                /\ answer'.shift => Head(typed).shift \/ overrun
                /\ answer'.ctrl => Head(typed).ctrl \/ overrun
    <2>1. ret /\ Told
      BY <1>1, <1>8, <1>16 DEF Kept
    <2>2. typed # <<>> /\ Head(typed) = typed[1]
      BY <1>7, <2>1 DEF ret
    <2>3. Matches(run[1], byte, typed, overrun)
      BY <1>4, <2>1 DEF ret
    <2>4. /\ typed[1].key = byte.code
          /\ run[1].shift => typed[1].shift \/ overrun
          /\ run[1].ctrl => typed[1].ctrl \/ overrun
      BY <1>7, <2>3 DEF Matches
    <2>5. answer'.key = byte.code /\ answer'.shift = shift /\ answer'.ctrl = ctrl
      BY <2>1 DEF Told
    <2> QED BY <1>5, <2>2, <2>4, <2>5
  <1> QED BY <1>13, <1>14, <1>15, <1>16 DEF KeyboardInv

\* No byte waits at the start.
LEMMA KeyboardInitiates == KeyboardAtRest => KeyboardInv
  <1> SUFFICES ASSUME KeyboardAtRest PROVE KeyboardInv
    OBVIOUS
  <1> DEFINE st  == [ext |-> FALSE, shift |-> FALSE, ctrl |-> FALSE, seen |-> 0]
             run == [i \in 1 .. 1 |-> st]
  <1>1. st \in States
    BY DEF States
  <1>2. Len(queue) = 0 /\ Len(typed) = 0 /\ typed = <<>> /\ queue = <<>>
    BY DEF KeyboardAtRest
  <1>3. run \in [1 .. 0 + 1 -> States] /\ run[1] = st /\ \A i \in 1 .. 0 + 1 : run[i] = st
    BY <1>1
  <1> HIDE DEF run
  <1>4. Course(run, queue, typed, overrun)
    BY <1>2, <1>3 DEF Course
  <1>5. Begins(run[1])
    BY <1>3 DEF Begins, KeyboardAtRest
  <1>6. Ends(run[Len(queue) + 1], typed, held, overrun)
    BY <1>1, <1>2, <1>3 DEF Ends
  <1>7. Foreseen(queue, typed, held, overrun)
    BY <1>4, <1>5, <1>6 DEF Foreseen, Leads
  <1>8. Types
    <2>1. <<>> \in Seq(Bytes) /\ <<>> \in Seq(Presses)
      OBVIOUS
    <2>2. answer.key = "none"
      BY DEF KeyboardAtRest, NoKey
    <2> QED BY <2>1, <2>2 DEF Types, KeyboardAtRest
  <1> QED BY <1>7, <1>8 DEF KeyboardInv, KeyboardAtRest

\* Each step keeps the invariant.
LEMMA KeyboardKeeps ==
  ASSUME KeyboardInv, [KeyboardNext]_keyboardVars
  PROVE  KeyboardInv'
  <1>1. CASE KeyboardInit
    <2>1. Types' /\ ~ext'
      BY <1>1 DEF KeyboardInv, Types, KeyboardInit
    <2>2. /\ queue' = queue /\ typed' = typed /\ held' = held /\ overrun' = overrun
          /\ ~ext /\ ~ext' /\ ~shift' /\ ~ctrl'
      BY <1>1 DEF KeyboardInv, KeyboardInit
    <2>3. \A st : Begins(st) => Begins(st)'
      BY <2>2 DEF Begins
    <2>4. Foreseen(queue, typed, held, overrun)'
      BY <2>2, <2>3 DEF KeyboardInv, Foreseen, Leads
    <2> QED BY <2>1, <2>4 DEF KeyboardInv
  <1>2. CASE GetKey
    <2>1. Types' /\ listening'
      BY <1>2 DEF KeyboardInv, Types, GetKey, NoKey
    <2>2. Foreseen(queue, typed, held, overrun)'
      BY <1>2 DEF KeyboardInv, Foreseen, Leads, Begins, GetKey
    <2> QED BY <2>1, <2>2 DEF KeyboardInv
  <1>3. CASE UNCHANGED keyboardVars
    <2>1. Types'
      BY <1>3 DEF KeyboardInv, Types, keyboardVars
    <2>2. Foreseen(queue, typed, held, overrun)'
      BY <1>3 DEF KeyboardInv, Foreseen, Leads, Begins, keyboardVars
    <2> QED BY <1>3, <2>1, <2>2 DEF KeyboardInv, keyboardVars
  <1> QED BY <1>1, <1>2, <1>3, PressKeeps, ReleaseKeeps, TakeByteKeeps DEF KeyboardNext

\* Type correctness of the keyboard and keyboard_get_key: only keys that mean something
\* are returned, for every subset of the keys and every length of the queue.
THEOREM KeyboardTypeCorrect ==
  KeyboardSpec => []KeyboardTypeOK
  <1>1. KeyboardInv => KeyboardTypeOK
    <2> SUFFICES ASSUME KeyboardInv PROVE KeyboardTypeOK
      OBVIOUS
    <2>1. \A i \in DOMAIN queue : queue[i] \in [code : Codes, up : BOOLEAN]
      <3> TAKE i \in DOMAIN queue
      <3>1. queue[i] \in Bytes
        BY DEF KeyboardInv, Types
      <3> QED BY <3>1 DEF Bytes
    <2>2. \A i \in DOMAIN typed : typed[i].key \in Meaningful
      <3> TAKE i \in DOMAIN typed
      <3>1. typed[i] \in Presses
        BY DEF KeyboardInv, Types
      <3> QED BY <3>1 DEF Presses
    <2> QED BY <2>1, <2>2 DEF KeyboardInv, Types, KeyboardTypeOK
  <1>2. KeyboardInv /\ [KeyboardNext]_keyboardVars => KeyboardInv'
    BY KeyboardKeeps
  <1> QED BY <1>1, <1>2, KeyboardInitiates, PTL DEF KeyboardSpec

\* When keyboard_get_key has read every byte, no key typed, no prefix and, with no key
\* down and no byte lost, no modifier is left over.
THEOREM NothingStaysBehind ==
  KeyboardSpec => []NothingLeftOver
  <1>1. KeyboardInv => NothingLeftOver
    <2> SUFFICES ASSUME KeyboardInv, queue = <<>>
                 PROVE  /\ typed = <<>>
                        /\ ~ext
                        /\ held = {} => (~shift /\ ~ctrl) \/ overrun
      BY DEF NothingLeftOver
    <2>1. PICK run : /\ Course(run, queue, typed, overrun) /\ Begins(run[1])
                     /\ Ends(run[Len(queue) + 1], typed, held, overrun)
      BY DEF KeyboardInv, Foreseen, Leads
    <2>2. Len(queue) = 0
      OBVIOUS
    <2>3. run[1].seen = 0 /\ Ends(run[1], typed, held, overrun)
      BY <2>1, <2>2 DEF Course
    <2>4. typed = <<>>
      BY <2>3 DEF Ends, KeyboardInv, Types
    <2>5. ~ext
      BY <2>1, <2>3 DEF Ends, Begins
    <2>6. held = {} => (~shift /\ ~ctrl) \/ overrun
      <3> HAVE held = {}
      <3>1. held \cap Shifts = {} /\ held \cap Ctrls = {}
        OBVIOUS
      <3> QED BY <2>1, <2>3, <3>1 DEF Ends, Begins
    <2> QED BY <2>4, <2>5, <2>6
  <1>2. KeyboardInv /\ [KeyboardNext]_keyboardVars => KeyboardInv'
    BY KeyboardKeeps
  <1> QED BY <1>1, <1>2, KeyboardInitiates, PTL DEF KeyboardSpec

\* Each key keyboard_get_key returns is the next one that was pressed, with shift or
\* control only if it was held then, whatever is pressed, repeated, released and lost.
THEOREM KeysComeAsTyped ==
  KeyboardSpec => KeysAsTyped
  <1> DEFINE A == listening /\ ~listening' =>
                     /\ typed # <<>>
                     /\ answer'.key = Head(typed).key
                     /\ answer'.shift => Head(typed).shift \/ overrun
                     /\ answer'.ctrl => Head(typed).ctrl \/ overrun
  <1>1. KeyboardInv /\ [KeyboardNext]_keyboardVars => [A]_keyboardVars
    <2> SUFFICES ASSUME KeyboardInv, KeyboardNext, listening, ~listening'
                 PROVE  A
      BY DEF keyboardVars
    <2>1. TakeByte
      BY DEF KeyboardNext, Press, Release, KeyboardInit, GetKey, driver
    <2> QED BY <2>1, TakeByteKeeps
  <1>2. KeyboardInv /\ [KeyboardNext]_keyboardVars => KeyboardInv'
    BY KeyboardKeeps
  <1>3. KeyboardSpec => [][A]_keyboardVars
    BY <1>1, <1>2, KeyboardInitiates, PTL DEF KeyboardSpec
  <1> QED BY <1>3 DEF KeysAsTyped

-------------------------------------------------------------------------------
(* Packages and the wireless link                                           *)

NetworkInv == NetworkTypeOK /\ ReportsAgree /\ RemovedIsDown

\* For every package repository and every set of access points: whatever takes the
\* manager, the radio or the package away takes the link and its name with it.
THEOREM NetworkInvariant == NetworkSpec => []NetworkInv
  <1>1. NetworkInit => NetworkInv
    BY NetworkAssumption DEF NetworkInit, NetworkInv, NetworkTypeOK, ReportsAgree, RemovedIsDown
  <1>2. NetworkInv /\ [NetworkNext]_networkVars => NetworkInv'
    <2> SUFFICES ASSUME NetworkInv, [NetworkNext]_networkVars PROVE NetworkInv'
      OBVIOUS
    <2> USE NetworkAssumption DEF NetworkInv, NetworkTypeOK, ReportsAgree, RemovedIsDown,
                NetworkReady, NmcliAnswers
    <2>1. CASE StartManager
      BY <2>1 DEF StartManager
    <2>2. CASE StopManager
      BY <2>2 DEF StopManager
    <2>3. CASE Connect
      BY <2>3 DEF Connect
    <2>4. CASE RadioOn
      BY <2>4 DEF RadioOn
    <2>5. CASE RadioOff
      BY <2>5 DEF RadioOff
    <2>6. CASE NetworkingOn
      BY <2>6 DEF NetworkingOn
    <2>7. CASE NetworkingOff
      BY <2>7 DEF NetworkingOff
    <2>8. CASE AptInstall
      BY <2>8 DEF AptInstall, SyncStateWithPackages, wifi
    <2>9. CASE AptRemove
      BY <2>9 DEF AptRemove, SyncStateWithPackages, wifi
    <2>10. CASE WarmReset
      BY <2>10 DEF WarmReset
    <2>11. CASE ColdStart
      BY <2>11 DEF ColdStart
    <2>12. CASE UNCHANGED networkVars
      BY <2>12 DEF networkVars
    <2> QED
      BY <2>1, <2>2, <2>3, <2>4, <2>5, <2>6, <2>7, <2>8, <2>9, <2>10, <2>11, <2>12
      DEF NetworkNext
  <1> QED BY <1>1, <1>2, PTL DEF NetworkSpec

\* What nmcli (wifi_connected) and ifconfig (network_ready) report agrees in every
\* reachable state.
THEOREM ReportsDoAgree == NetworkSpec => []ReportsAgree
  <1>1. NetworkSpec => []NetworkInv
    BY NetworkInvariant
  <1>2. NetworkInv => ReportsAgree
    BY DEF NetworkInv
  <1> QED BY <1>1, <1>2, PTL

\* apt remove network-manager leaves no state of it behind
\* (sync_state_with_packages).
THEOREM RemovalIsComplete == NetworkSpec => []RemovedIsDown
  <1>1. NetworkSpec => []NetworkInv
    BY NetworkInvariant
  <1>2. NetworkInv => RemovedIsDown
    BY DEF NetworkInv
  <1> QED BY <1>1, <1>2, PTL
===============================================================================

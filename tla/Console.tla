------------------------------- MODULE Console -------------------------------
(***************************************************************************)
(* The text console of kernel/vga.c under its one scrolling user, the      *)
(* terminal shell: run_terminal confines it to some rows of the desktop,   *)
(* commands print, the shell prompts and echoes the line being typed.      *)
(* Colours are left out: a cell holds a character.                         *)
(***************************************************************************)
EXTENDS Integers, Sequences

CONSTANTS
    Width, Height,    \* VGA_WIDTH, VGA_HEIGHT
    Top, Bottom,      \* CTOP, CBOT: the rows of the terminal window
    Letters,          \* printable characters
    Blank, Newline,   \* ' ' and '\n'
    Frame,            \* what the desktop draws
    Mark, PromptLen,  \* the prompt is so many marks
    LineMax           \* what shell_read_line accepts of a line

ASSUME ConsoleAssumption ==
    /\ Width \in Nat \ {0} /\ Height \in Nat \ {0}
    /\ Top \in Nat /\ Bottom \in Top .. Height - 1
    /\ PromptLen \in Nat /\ LineMax \in Nat
    /\ PromptLen + LineMax <= Width * (Bottom - Top)
    /\ Newline \notin Letters \cup {Blank, Frame, Mark}

VARIABLES
    tty,      \* the screen memory and the cursor
    view,     \* vga_vp_top and vga_vp_bot
    pc,       \* what the program is doing
    shown     \* the prompt and the line typed so far

vars == <<tty, view, pc, shown>>

Rows  == 0 .. Height - 1
Cols  == 0 .. Width - 1
Cells == Letters \cup {Blank, Frame, Mark}
Whole == [top |-> 0, bot |-> Height - 1]

BlankRow == [x \in Cols |-> Blank]
Framed   == [y \in Rows |-> [x \in Cols |-> Frame]]

Init ==
    /\ tty = [screen |-> Framed, row |-> 0, col |-> 0]
    /\ view = Whole
    /\ pc = "desktop"
    /\ shown = <<>>

-------------------------------------------------------------------------------
(* vga.c                                                                    *)

\* Mutant of Scroll: scrolls from the top of the screen.
ScrollAll(screen) ==
    [y \in Rows |-> CASE y < view.bot -> screen[y + 1]
                      [] y = view.bot -> BlankRow
                      [] OTHER        -> screen[y]]

Scroll(screen) ==
    [y \in Rows |-> CASE y \in view.top .. view.bot - 1 -> screen[y + 1]
                      [] y = view.bot                   -> BlankRow
                      [] OTHER                          -> screen[y]]

Clear(t, v) ==
    [screen |-> [y \in Rows |-> IF y \in v.top .. v.bot THEN BlankRow
                                                        ELSE t.screen[y]],
     row |-> v.top, col |-> 0]

\* Mutant of NewRow: scrolls one row too late.
NewRowLate(t) ==
    IF t.row > view.bot
    THEN [screen |-> Scroll(t.screen), row |-> view.bot, col |-> 0]
    ELSE [screen |-> t.screen, row |-> t.row + 1, col |-> 0]

NewRow(t) ==
    IF t.row + 1 > view.bot
    THEN [screen |-> Scroll(t.screen), row |-> view.bot, col |-> 0]
    ELSE [screen |-> t.screen, row |-> t.row + 1, col |-> 0]

PutChar(t, c) ==
    IF c = Newline
    THEN NewRow(t)
    ELSE LET put == [screen |-> [t.screen EXCEPT ![t.row][t.col] = c],
                     row |-> t.row, col |-> t.col + 1]
         IN IF put.col >= Width THEN NewRow(put) ELSE put

\* Mutant of Backspace: stays in its row.
BackspaceInRow(t) ==
    IF t.col = 0 THEN t
    ELSE [t EXCEPT !.screen[t.row][t.col - 1] = Blank, !.col = @ - 1]

Backspace(t) ==
    IF t.row = view.top /\ t.col = 0
    THEN t
    ELSE LET row == IF t.col = 0 THEN t.row - 1 ELSE t.row
             col == IF t.col = 0 THEN Width - 1 ELSE t.col - 1
         IN [screen |-> [t.screen EXCEPT ![row][col] = Blank], row |-> row, col |-> col]

\* vga_set_viewport, with the rows that run_terminal passes.
Confine(t) ==
    [t EXCEPT !.row = IF @ < Top THEN Top ELSE IF @ > Bottom THEN Bottom ELSE @]

-------------------------------------------------------------------------------
(* The desktop                                                              *)

\* Windows are drawn, and an editor leaves the cursor anywhere.
Draw ==
    /\ pc = "desktop"
    /\ \E y \in Rows, x \in Cols : tty' = [screen |-> Framed, row |-> y, col |-> x]
    /\ UNCHANGED <<view, pc, shown>>

\* run_terminal up to shell_run.
Open ==
    /\ pc = "desktop"
    /\ view' = [top |-> Top, bot |-> Bottom]
    /\ tty' = Clear(Confine(tty), view')
    /\ pc' = "output"
    /\ UNCHANGED shown

\* shell_run returns.
Close ==
    /\ pc = "output"
    /\ view' = Whole
    /\ pc' = "desktop"
    /\ UNCHANGED <<tty, shown>>

-------------------------------------------------------------------------------
(* The shell                                                                *)

\* A command prints.
Say ==
    /\ pc = "output"
    /\ \E c \in Letters \cup {Newline} : tty' = PutChar(tty, c)
    /\ UNCHANGED <<view, pc, shown>>

\* The command clear.
ClearScreen ==
    /\ pc = "output"
    /\ tty' = Clear(tty, view)
    /\ UNCHANGED <<view, pc, shown>>

\* shell_prompt, a character at a time, then shell_read_line.
Prompt ==
    /\ pc \in {"output", "prompt"}
    /\ IF Len(shown) < PromptLen
       THEN /\ tty' = PutChar(tty, Mark)
            /\ shown' = Append(shown, Mark)
            /\ pc' = "prompt"
       ELSE pc' = "line" /\ UNCHANGED <<tty, shown>>
    /\ UNCHANGED view

Type ==
    /\ pc = "line"
    /\ Len(shown) < PromptLen + LineMax
    /\ \E c \in Letters :
          /\ tty' = PutChar(tty, c)
          /\ shown' = Append(shown, c)
    /\ UNCHANGED <<view, pc>>

Erase ==
    /\ pc = "line"
    /\ Len(shown) > PromptLen
    /\ tty' = Backspace(tty)
    /\ shown' = SubSeq(shown, 1, Len(shown) - 1)
    /\ UNCHANGED <<view, pc>>

Enter ==
    /\ pc = "line"
    /\ tty' = PutChar(tty, Newline)
    /\ shown' = <<>>
    /\ pc' = "output"
    /\ UNCHANGED view

Next == Draw \/ Open \/ Close \/ Say \/ ClearScreen \/ Prompt \/ Type \/ Erase \/ Enter

Spec == Init /\ [][Next]_vars

-------------------------------------------------------------------------------
(* Properties                                                               *)

\* Types; the cursor is on the screen, and in the viewport of the terminal.
TypeOK ==
    /\ tty.screen \in [Rows -> [Cols -> Cells]]
    /\ tty.col \in Cols
    /\ tty.row \in IF pc = "desktop" THEN Rows ELSE view.top .. view.bot
    /\ view = IF pc = "desktop" THEN Whole ELSE [top |-> Top, bot |-> Bottom]
    /\ pc \in {"desktop", "output", "prompt", "line"}
    /\ Len(shown) <= PromptLen + LineMax
    /\ \A i \in DOMAIN shown : shown[i] \in Letters \cup {Mark}

\* The prompt and the line in the buffer of shell_read_line are what stands on
\* the screen before the cursor, however the line has wrapped, scrolled and been
\* erased: what Enter runs is what the user sees.
EchoIsTheLine ==
    LET Before(k) == (tty.row - view.top) * Width + tty.col - k
        CellAt(n) == tty.screen[view.top + n \div Width][n % Width]
    IN pc \in {"prompt", "line"} =>
           /\ Before(Len(shown)) >= 0
           /\ \A i \in DOMAIN shown :
                 shown[i] = CellAt(Before(Len(shown) - i + 1))

\* "Rows outside the viewport are never touched by normal text output." (vga.h)
FrameIsKept ==
    [][pc # "desktop" =>
          \A y \in Rows \ (Top .. Bottom) : tty'.screen[y] = tty.screen[y]]_vars
===============================================================================

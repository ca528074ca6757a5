------------------------------- MODULE Screen -------------------------------
(***************************************************************************)
(* put_char of lib/kernel/print.S: the characters in the video memory and  *)
(* the cursor, and the text that a reader of the screen expects to see.    *)
(*                                                                         *)
(* Attributes are left out, and so is backspace, which nothing prints.     *)
(***************************************************************************)
EXTENDS Integers, Sequences

CONSTANTS
    Columns, Rows,  \* 80 and 25
    Blank, LF       \* the space, and '\n', for which '\r' is another name

ASSUME ScreenAssumption == Columns \in Nat \ {0} /\ Rows \in Nat \ {0}

Size == Columns * Rows
Cells == 0..Size - 1

-----------------------------------------------------------------------------
\* .roll_screen: every row moves up one, the last one is cleared.
Rolled(cells) ==
    [i \in Cells |-> IF i < Size - Columns THEN cells[i + Columns] ELSE Blank]

\* The cursor at bx, which may be one past the screen or a row below it.
Settled(cells, bx) ==
    IF bx < Size THEN [cells |-> cells, cursor |-> bx]
    ELSE [cells |-> Rolled(cells), cursor |-> Size - Columns]

\* .is_line_feed and .is_carriage_return: the start of the next row.
LineFeed(cells, bx) == Settled(cells, bx - (bx % Columns) + Columns)

\* .put_other: past the last cell it falls through to the line feed.
PutOther(cells, bx, c) ==
    LET written == [cells EXCEPT ![bx] = c]
    IN  IF bx + 1 < Size THEN [cells |-> written, cursor |-> bx + 1]
        ELSE LineFeed(written, bx + 1)

\* put_char once it has read the cursor into bx.
PutChar(cells, bx, c) == IF c = LF THEN LineFeed(cells, bx) ELSE PutOther(cells, bx, c)

-----------------------------------------------------------------------------
(* The text as its reader sees it: the last lines, the last one not full.  *)

LastLines(text) == IF Len(text) > Rows THEN Tail(text) ELSE text

TextPut(text, c) ==
    LET n    == Len(text)
        line == IF c = LF THEN text[n] ELSE Append(text[n], c)
        put  == [text EXCEPT ![n] = line]
    IN  IF c = LF \/ Len(line) = Columns THEN LastLines(Append(put, <<>>)) ELSE put

\* What the screen has to show for a text.
ShownCells(text) ==
    [i \in Cells |->
        LET row == i \div Columns + 1
            col == (i % Columns) + 1
        IN  IF row <= Len(text) /\ col <= Len(text[row]) THEN text[row][col] ELSE Blank]

ShownCursor(text) == (Len(text) - 1) * Columns + Len(text[Len(text)])
=============================================================================

------------------------------ MODULE ScreenLines ------------------------------
(***************************************************************************)
(* What TerminalBuffer promises the emulator: the lines of a screen and,   *)
(* above them, those that have scrolled off its top, oldest first.  There  *)
(* is no ring here and no row number that could be off.  A line is the     *)
(* sequence of the characters in its cells.                                *)
(***************************************************************************)
EXTENDS Integers, SequencesExt

CONSTANTS
  Blank,          \* the character of an empty cell
  Chars,          \* the characters that are written
  Sizes,          \* the sizes a screen is given: [columns, rows]
  MainRows        \* rows the main screen keeps, transcript and screen

VARIABLES
  transcript, screen,
  cursor,         \* [column, row] on the screen, from 0
  margin,         \* [top, bottom]: lines top to bottom - 1 scroll
  wrapNext,       \* the next character starts a line
  alt             \* the alternate screen keeps no transcript

vars == <<transcript, screen, cursor, margin, wrapNext, alt>>

Rows == Len(screen)
Columns == Len(screen[1])
Room == IF alt THEN Rows ELSE MainRows
lines == transcript \o screen

BlankLines(n, columns) == [r \in 1..n |-> [c \in 1..columns |-> Blank]]
IsBlank(line) == \A c \in DOMAIN line : line[c] = Blank
LastOf(s, n) == SubSeq(s, Len(s) - n + 1, Len(s))
AtMostLast(s, n) == IF Len(s) <= n THEN s ELSE LastOf(s, n)
Smaller(m, n) == IF m < n THEN m ELSE n

\* Everything written in lines, in the order it is read.
Ink(some) == SelectSeq(FlattenSeq(some), LAMBDA c : c # Blank)

Init ==
  /\ alt \in BOOLEAN
  /\ transcript = <<>>
  /\ \E size \in Sizes : screen = BlankLines(size.rows, size.columns)
  /\ cursor = [column |-> 0, row |-> 0]
  /\ margin = [top |-> 0, bottom |-> Rows]
  /\ wrapNext = FALSE

-----------------------------------------------------------------------------
(* Lines that scroll.                                                      *)

Above(row) == SubSeq(screen, 1, row)
Below(row) == SubSeq(screen, row + 1, Rows)

\* The top line of the region joins the transcript, wherever the region is.
Scrolled == Above(margin.top) \o SubSeq(screen, margin.top + 2, margin.bottom)
              \o BlankLines(1, Columns) \o Below(margin.bottom)
WithScrolledOff == AtMostLast(Append(transcript, screen[margin.top + 1]), Room - Rows)

\* At the end of a line a character wraps; at the end of the region it scrolls.
Put(char) ==
  LET wraps == wrapNext /\ cursor.column = Columns - 1
      scrolls == wraps /\ cursor.row + 1 >= margin.bottom
      row == IF wraps /\ ~scrolls THEN cursor.row + 1 ELSE cursor.row
      column == IF wraps THEN 0 ELSE cursor.column
  IN  /\ cursor' = [column |-> Smaller(column + 1, Columns - 1), row |-> row]
      /\ wrapNext' = (column = Columns - 1)
      /\ transcript' = IF scrolls THEN WithScrolledOff ELSE transcript
      /\ screen' = [(IF scrolls THEN Scrolled ELSE screen) EXCEPT ![row + 1][column + 1] = char]
      /\ UNCHANGED <<margin, alt>>

LineFeed ==
  /\ wrapNext' = FALSE
  /\ IF cursor.row + 1 = margin.bottom
     THEN UNCHANGED cursor /\ screen' = Scrolled /\ transcript' = WithScrolledOff
     ELSE /\ cursor.row < Rows - 1
          /\ cursor' = [cursor EXCEPT !.row = @ + 1]
          /\ UNCHANGED <<transcript, screen>>
  /\ UNCHANGED <<margin, alt>>

ReverseIndex ==
  /\ IF cursor.row <= margin.top
     THEN /\ UNCHANGED cursor
          /\ screen' = Above(margin.top) \o BlankLines(1, Columns)
                         \o SubSeq(screen, margin.top + 1, margin.bottom - 1) \o Below(margin.bottom)
     ELSE cursor' = [cursor EXCEPT !.row = @ - 1] /\ UNCHANGED screen
  /\ UNCHANGED <<transcript, margin, wrapNext, alt>>

\* Blank lines push those from the cursor to the end of the region down.
InsertLines(n) ==
  LET k == Smaller(n, margin.bottom - cursor.row)
  IN  /\ UNCHANGED <<cursor, margin, wrapNext, alt, transcript>>
      /\ screen' = IF k <= 0 THEN screen
                   ELSE Above(cursor.row) \o BlankLines(k, Columns)
                          \o SubSeq(screen, cursor.row + 1, margin.bottom - k) \o Below(margin.bottom)

DeleteLines(n) ==
  LET k == Smaller(n, margin.bottom - cursor.row)
  IN  /\ wrapNext' = FALSE
      /\ UNCHANGED <<cursor, margin, alt, transcript>>
      /\ screen' = IF k <= 0 THEN screen
                   ELSE Above(cursor.row) \o SubSeq(screen, cursor.row + k + 1, margin.bottom)
                          \o BlankLines(k, Columns) \o Below(margin.bottom)

-----------------------------------------------------------------------------
(* Cells of the cursor's line, and cells that are erased.                  *)

WithLine(line) ==
  /\ wrapNext' = FALSE
  /\ UNCHANGED <<cursor, margin, alt, transcript>>
  /\ screen' = [screen EXCEPT ![cursor.row + 1] = line]

Line == screen[cursor.row + 1]
Blanks(n) == [c \in 1..n |-> Blank]

InsertCells(n) ==
  LET k == Smaller(n, Columns - cursor.column)
  IN  WithLine(SubSeq(Line, 1, cursor.column) \o Blanks(k)
                 \o SubSeq(Line, cursor.column + 1, Columns - k))

DeleteCells(n) ==
  LET k == Smaller(n, Columns - cursor.column)
  IN  WithLine(SubSeq(Line, 1, cursor.column) \o SubSeq(Line, cursor.column + k + 1, Columns)
                 \o Blanks(k))

\* The cells from here on, up to here or all; of the screen or of the line.
EraseIn(area, part) ==
  LET at(r, c) == (r - 1) * Columns + c - 1
      here == at(cursor.row + 1, cursor.column + 1)
      erased(r, c) == /\ area = "line" => r = cursor.row + 1
                      /\ part = "after" => at(r, c) >= here
                      /\ part = "before" => at(r, c) <= here
  IN  /\ wrapNext' = FALSE
      /\ UNCHANGED <<cursor, margin, alt, transcript>>
      /\ screen' = [r \in 1..Rows |-> [c \in 1..Columns |->
                      IF erased(r, c) THEN Blank ELSE screen[r][c]]]

ClearTranscript ==
  transcript' = <<>> /\ wrapNext' = FALSE /\ UNCHANGED <<screen, cursor, margin, alt>>

MoveCursor ==
  /\ cursor' \in [column : 0..Columns - 1, row : 0..Rows - 1]
  /\ wrapNext' = FALSE
  /\ UNCHANGED <<margin, alt, transcript, screen>>

SetMargins ==
  /\ \E top \in 0..Rows - 2 : \E bottom \in top + 2..Rows :
       margin' = [top |-> top, bottom |-> bottom]
  /\ cursor' = [column |-> 0, row |-> 0] /\ wrapNext' = FALSE
  /\ UNCHANGED <<transcript, screen, alt>>

-----------------------------------------------------------------------------
(* A screen of another size.                                               *)

\* The blank lines below the cursor, and those of them at the bottom.
BlankBelow == {r \in cursor.row + 1..Rows - 1 : IsBlank(screen[r + 1])}
BlankAtBottom == {r \in BlankBelow : \A q \in r..Rows - 1 : IsBlank(screen[q + 1])}

\* The cursor stays on its line; when that has left the screen it goes home.
CursorShifted(shift) ==
  cursor' = IF cursor.row < shift THEN [column |-> 0, row |-> 0]
            ELSE [cursor EXCEPT !.row = @ - shift]

\* Lines are cut off at the bottom, and the others that leave the screen join
\* the transcript.
CutAndShrink(n, cut) ==
  LET left == SubSeq(lines, 1, Len(lines) - cut)
  IN  /\ screen' = LastOf(left, n)
      /\ transcript' = SubSeq(left, 1, Len(left) - n)
      /\ CursorShifted(Rows - n - cut)

\* Fewer rows: only blank lines at the bottom are cut off.
Shrink(n) == CutAndShrink(n, Smaller(Cardinality(BlankAtBottom), Rows - n))

\* Where TerminalBuffer departs from that: it counts the blank lines anywhere
\* below the cursor and cuts off as many at the bottom.  With a blank line
\* between the cursor and written ones, the last written ones are lost.
ShrinkOverGap(n) ==
  LET cut == Smaller(Cardinality(BlankBelow), Rows - n)
  IN  cut > Cardinality(BlankAtBottom) /\ CutAndShrink(n, cut)

\* More rows: the transcript comes back, and below it are blank lines.
Expand(n) ==
  LET back == Smaller(n - Rows, Len(transcript))
  IN  /\ screen' = LastOf(lines, Rows + back) \o BlankLines(n - Rows - back, Columns)
      /\ transcript' = SubSeq(transcript, 1, Len(transcript) - back)
      /\ CursorShifted(-back)

\* Where it departs from that on the alternate screen: its ring is cut short
\* in use, so that the screen keeps n of its lines, any of them, in any order.
ShrinkAlternateShuffled(n) ==
  /\ \E from \in Injection(1..n, 1..Rows) : screen' = [r \in 1..n |-> screen[from[r]]]
  /\ transcript' = <<>>
  /\ \E shift \in 0..Rows - n : CursorShifted(shift)

\* Other columns: the text flows into the new lines.  Of what is written only
\* that to the right of the cursor is lost, and what no longer fits.
Reflow(columns, n) ==
  LET cut == [r \in 1..Rows |-> IF r = cursor.row + 1 THEN SubSeq(screen[r], 1, cursor.column + 1)
                                ELSE screen[r]]
      ink == Ink(transcript \o cut)
      room == (IF alt THEN n ELSE MainRows) - n
  IN  /\ Len(screen') = n
      /\ Len(transcript') <= room
      /\ \E after \in {transcript' \o screen'} :
           /\ \A r \in DOMAIN after : Len(after[r]) = columns
           /\ IsSuffix(Ink(after), ink)
           /\ Ink(after) # ink => Len(transcript') = room
      /\ cursor' \in [column : 0..columns - 1, row : 0..n - 1]

Resize(size) ==
  /\ \/ /\ size.columns = Columns /\ size.rows < Rows /\ ~alt
        /\ Shrink(size.rows) \/ ShrinkOverGap(size.rows)
     \/ size.columns = Columns /\ size.rows > Rows /\ ~alt /\ Expand(size.rows)
     \/ size.columns = Columns /\ size.rows < Rows /\ alt /\ ShrinkAlternateShuffled(size.rows)
     \/ /\ size.columns # Columns \/ (alt /\ size.rows > Rows)
        /\ Reflow(size.columns, size.rows)
  /\ margin' = IF size.rows = Rows THEN margin ELSE [top |-> 0, bottom |-> size.rows]
  /\ UNCHANGED <<wrapNext, alt>>

-----------------------------------------------------------------------------

Next ==
  \/ MoveCursor \/ SetMargins
  \/ \E char \in Chars : Put(char)
  \/ LineFeed \/ ReverseIndex
  \/ \E n \in 1..Rows : InsertLines(n) \/ DeleteLines(n)
  \/ \E n \in 1..Columns : InsertCells(n) \/ DeleteCells(n)
  \/ \E area \in {"screen", "line"}, part \in {"after", "before", "all"} : EraseIn(area, part)
  \/ ClearTranscript
  \/ \E size \in Sizes : Resize(size)

Spec == Init /\ [][Next]_vars

=============================================================================

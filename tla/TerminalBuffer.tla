---------------------------- MODULE TerminalBuffer ----------------------------
(***************************************************************************)
(* TerminalBuffer, as TerminalEmulator uses it: the rows of a screen and   *)
(* its transcript in a ring whose first screen row moves.  Rows are        *)
(* recycled when they fall off the transcript and allocated when they are  *)
(* first needed.  A buffer is a record of the fields of the class, so that *)
(* resize can work on one while it is being filled.  All characters are    *)
(* one cell wide, the left and right margins are the screen's.             *)
(***************************************************************************)
EXTENDS Integers, FiniteSets

CONSTANTS
  Blank, Chars,   \* the space and the other characters
  Sizes,          \* sizes of the screen: [columns, rows]
  MainRows,       \* mTotalRows of the main screen
  NoRow           \* null

ASSUME SizesAssumption ==
  MainRows \in Nat /\ Sizes \subseteq [columns : Nat \ {0, 1}, rows : 2..MainRows]
ASSUME BlankAssumption == Blank \notin Chars
ASSUME NoRowAssumption ==
  \A size \in Sizes :
    NoRow \notin [text : [1..size.columns -> Chars \cup {Blank}], mLineWrap : BOOLEAN]

VARIABLES
  buffer,         \* the fields of the TerminalBuffer
  cursor,         \* mCursorCol and mCursorRow: [column, row]
  margin,         \* mTopMargin and mBottomMargin: [top, bottom]
  mAboutToAutoWrap,
  alt,            \* this is the emulator's mAltBuffer
  written         \* characters that have been printed, each once

vars == <<buffer, cursor, margin, mAboutToAutoWrap, alt, written>>

\* A TerminalRow that is new or cleared; clear() leaves mLineWrap as it is.
TerminalRow(columns, wrap) == [text |-> [c \in 1..columns |-> Blank], mLineWrap |-> wrap]
isBlank(row) == \A c \in DOMAIN row.text : row.text[c] = Blank
cleared(row, columns) == TerminalRow(columns, row # NoRow /\ row.mLineWrap)
allocated(row, columns) == IF row = NoRow THEN TerminalRow(columns, FALSE) ELSE row

Home == [column |-> 0, row |-> 0]

Init ==
  /\ alt \in BOOLEAN
  /\ \E size \in Sizes :
       LET total == IF alt THEN size.rows ELSE MainRows
       IN  buffer = [mLines |-> [i \in 0..total - 1 |->
                                   IF i < size.rows THEN TerminalRow(size.columns, FALSE) ELSE NoRow],
                     mTotalRows |-> total, mScreenRows |-> size.rows, mColumns |-> size.columns,
                     mActiveTranscriptRows |-> 0, mScreenFirstRow |-> 0]
  /\ cursor = Home
  /\ margin = [top |-> 0, bottom |-> buffer.mScreenRows]
  /\ mAboutToAutoWrap = FALSE
  /\ written = {}

-----------------------------------------------------------------------------
(* The ring.                                                               *)

externalToInternalRow(b, externalRow) ==
  LET internalRow == b.mScreenFirstRow + externalRow
  IN  IF internalRow < 0 THEN b.mTotalRows + internalRow ELSE internalRow % b.mTotalRows

Row(b, externalRow) == b.mLines[externalToInternalRow(b, externalRow)]

WithRow(b, externalRow, row) ==
  [b EXCEPT !.mLines[externalToInternalRow(b, externalRow)] = row]

\* Mutant of blockCopyLinesDown: the overwritten row is not put back.
blockCopyLinesDownOver(b, src, len) ==
  LET T == b.mTotalRows
      k(i) == (i - src) % T
  IN  [b EXCEPT !.mLines =
         [i \in DOMAIN b.mLines |->
            IF i < T /\ k(i) \in 1..len THEN b.mLines[(src + k(i) - 1) % T] ELSE b.mLines[i]]]

\* len rows move down by one, and the row below them moves above them.
blockCopyLinesDown(b, src, len) ==
  LET T == b.mTotalRows
      k(i) == (i - src) % T
  IN  [b EXCEPT !.mLines =
         [i \in DOMAIN b.mLines |->
            IF i < T /\ k(i) \in 0..len
            THEN b.mLines[(src + (IF k(i) = 0 THEN len ELSE k(i) - 1)) % T]
            ELSE b.mLines[i]]]

scrollDownOneLine(b, topMargin, bottomMargin) ==
  LET b1 == blockCopyLinesDown(b, b.mScreenFirstRow, topMargin)
      b2 == blockCopyLinesDown(b1, externalToInternalRow(b1, bottomMargin), b.mScreenRows - bottomMargin)
      b3 == [b2 EXCEPT !.mScreenFirstRow = (@ + 1) % b.mTotalRows,
                       !.mActiveTranscriptRows = IF @ < b.mTotalRows - b.mScreenRows THEN @ + 1 ELSE @]
  IN  WithRow(b3, bottomMargin - 1, cleared(Row(b3, bottomMargin - 1), b.mColumns))

setChar(b, column, row, char) ==
  WithRow(b, row, [allocated(Row(b, row), b.mColumns) EXCEPT
                     !.text = [c \in DOMAIN @ |-> IF c = column + 1 THEN char ELSE @[c]]])

setLineWrap(b, row, wrap) == WithRow(b, row, [Row(b, row) EXCEPT !.mLineWrap = wrap])

\* copyInterval of a row to another or to itself: the source is read first.
copyInterval(b, sx, sy, w, dx, dy) ==
  LET source == allocated(Row(b, sy), b.mColumns)
      b1 == WithRow(b, sy, source)
      row == allocated(Row(b1, dy), b.mColumns)
  IN  WithRow(b1, dy, [row EXCEPT !.text = [c \in DOMAIN @ |->
                         IF c - dx \in 1..w THEN source.text[c - dx + sx] ELSE @[c]]])

\* Row by row, from the top when copying up and from the bottom otherwise.
blockCopy(b, sx, sy, w, h, dx, dy) ==
  LET y2(y) == IF sy > dy THEN y - 1 ELSE h - y
      copied[y \in 0..h] == IF y = 0 THEN b
                            ELSE copyInterval(copied[y - 1], sx, sy + y2(y), w, dx, dy + y2(y))
  IN  copied[h]

\* blockSet with a space.
blockSet(b, sx, sy, w, h) ==
  LET rows == {externalToInternalRow(b, r) : r \in sy..sy + h - 1}
      blanked(row) == [row EXCEPT !.text = [c \in DOMAIN row.text |->
                         IF c - sx \in 1..w THEN Blank ELSE row.text[c]]]
  IN  [b EXCEPT !.mLines = [i \in DOMAIN b.mLines |->
         IF i \in rows THEN blanked(allocated(b.mLines[i], b.mColumns)) ELSE b.mLines[i]]]

clearTranscript(b) ==
  LET first == b.mScreenFirstRow
      active == b.mActiveTranscriptRows
      rows == IF first < active
              THEN (b.mTotalRows + first - active..b.mTotalRows - 1) \cup (0..first - 1)
              ELSE first - active..first - 1
  IN  [b EXCEPT !.mLines = [i \in DOMAIN @ |-> IF i \in rows THEN NoRow ELSE @[i]],
                !.mActiveTranscriptRows = 0]

-----------------------------------------------------------------------------
(* resize, when only the number of rows changes.                           *)

\* Blank rows below the cursor are skipped when the screen shrinks, rows come
\* back from the transcript when it grows.
Shift(b, newRows) ==
  LET shift == b.mScreenRows - newRows
      blank == {i \in 1..b.mScreenRows - 1 :
                  cursor.row < i /\ (Row(b, i) = NoRow \/ isBlank(Row(b, i)))}
  IN  CASE shift > 0 -> IF Cardinality(blank) < shift THEN shift - Cardinality(blank) ELSE 0
        [] shift < 0 -> IF shift < -b.mActiveTranscriptRows THEN -b.mActiveTranscriptRows ELSE shift
        [] OTHER -> 0

FastResize(b, newRows, newTotalRows) ==
  LET shift == Shift(b, newRows)
      fresh == newRows - b.mScreenRows + shift
      revealed == {(b.mScreenFirstRow + b.mScreenRows + i) % b.mTotalRows : i \in 0..fresh - 1}
      first == b.mScreenFirstRow + shift
      active == b.mActiveTranscriptRows + shift
  IN  [b EXCEPT
         !.mLines = [i \in DOMAIN @ |-> IF i \in revealed THEN cleared(@[i], b.mColumns) ELSE @[i]],
         !.mScreenFirstRow = IF first < 0 THEN first + b.mTotalRows ELSE first % b.mTotalRows,
         !.mTotalRows = newTotalRows,
         !.mActiveTranscriptRows = IF alt \/ active < 0 THEN 0 ELSE active,
         !.mScreenRows = newRows]

-----------------------------------------------------------------------------
(* resize, when every character finds a new place.                         *)

\* Where the output is: the new buffer, its next cell, the rows of blanks not
\* yet put out and the new cursor, [column, row], -1 until it has been placed.
Nowhere == [column |-> -1, row |-> -1]

NextRow(out, follows) ==
  IF out.row < out.b.mScreenRows - 1 THEN [out EXCEPT !.row = @ + 1, !.column = 0]
  ELSE [out EXCEPT !.b = scrollDownOneLine(@, 0, @.mScreenRows), !.column = 0,
                   !.cursor.row = IF follows /\ out.placed THEN @ - 1 ELSE @]

SkippedRows(out) ==
  LET put[n \in 0..out.skipped] == IF n = 0 THEN out ELSE NextRow(put[n - 1], FALSE)
  IN  [put[out.skipped] EXCEPT !.skipped = 0]

\* One character; at the end of the row the output wraps before it.
PutChar(out, char, atCursor) ==
  LET next == IF out.column + 1 > out.b.mColumns
              THEN NextRow([out EXCEPT !.b = setLineWrap(@, out.row, TRUE)], TRUE) ELSE out
      put == [next EXCEPT !.b = setChar(@, next.column, next.row, char), !.column = @ + 1]
  IN  IF atCursor
      THEN [put EXCEPT !.cursor = [column |-> next.column, row |-> next.row], !.placed = TRUE]
      ELSE put

\* How many characters of a row are copied: those up to the cursor, all of a
\* wrapped row, or those up to the last that is not a space.
Copied(row, here) ==
  LET ink == {c \in DOMAIN row.text : row.text[c] # Blank}
  IN  CASE here -> cursor.column + 1
        [] ~here /\ row.mLineWrap -> Cardinality(DOMAIN row.text)
        [] OTHER -> CHOOSE n \in ink : \A c \in ink : c <= n

\* One row of the old buffer b; a blank one is put out only if more follows.
PutRow(out, b, externalOldRow) ==
  LET row == Row(b, externalOldRow)
      here == externalOldRow = cursor.row
      put[n \in 0..b.mColumns] ==
        IF n = 0 THEN SkippedRows(out)
        ELSE PutChar(put[n - 1], row.text[n], here /\ n = cursor.column + 1)
      done == put[Copied(row, here)]
  IN  IF row = NoRow \/ (~here /\ isBlank(row)) THEN [out EXCEPT !.skipped = @ + 1]
      ELSE IF externalOldRow # b.mScreenRows - 1 /\ ~row.mLineWrap THEN NextRow(done, TRUE)
      ELSE done

Reflowed(b, newColumns, newRows, newTotalRows) ==
  LET empty == [mLines |-> [i \in 0..newTotalRows - 1 |-> TerminalRow(newColumns, FALSE)],
                mTotalRows |-> newTotalRows, mScreenRows |-> newRows, mColumns |-> newColumns,
                mActiveTranscriptRows |-> 0, mScreenFirstRow |-> 0]
      start == [b |-> empty, row |-> 0, column |-> 0, skipped |-> 0, cursor |-> Nowhere, placed |-> FALSE]
      out[n \in 0..b.mActiveTranscriptRows + b.mScreenRows] ==
        IF n = 0 THEN start ELSE PutRow(out[n - 1], b, n - 1 - b.mActiveTranscriptRows)
  IN  out[b.mActiveTranscriptRows + b.mScreenRows]

-----------------------------------------------------------------------------
(* The emulator's operations.                                              *)

Columns == buffer.mColumns
Rows == buffer.mScreenRows
Smaller(m, n) == IF m < n THEN m ELSE n

OnScreen(position) == IF position.column < 0 \/ position.row < 0 THEN Home ELSE position

resize(size) ==
  LET b == buffer
      total == IF alt THEN size.rows ELSE MainRows
      out == Reflowed(b, size.columns, size.rows, total)
  IN  /\ size # [columns |-> Columns, rows |-> Rows]
      /\ IF size.columns = Columns /\ size.rows <= b.mTotalRows
         THEN /\ buffer' = FastResize(b, size.rows, total)
              /\ cursor' = OnScreen([cursor EXCEPT !.row = @ - Shift(b, size.rows)])
         ELSE /\ buffer' = out.b
              /\ cursor' = OnScreen(out.cursor)
      /\ margin' = IF size.rows = Rows THEN margin ELSE [top |-> 0, bottom |-> size.rows]
      /\ UNCHANGED <<mAboutToAutoWrap, alt, written>>

Scrolled == scrollDownOneLine(buffer, margin.top, margin.bottom)

emitCodePoint(char) ==
  LET wraps == mAboutToAutoWrap /\ cursor.column = Columns - 1
      down == wraps /\ cursor.row + 1 < margin.bottom
      wrapped == IF wraps THEN setLineWrap(buffer, cursor.row, TRUE) ELSE buffer
      b == IF wraps /\ ~down THEN scrollDownOneLine(wrapped, margin.top, margin.bottom) ELSE wrapped
      column == IF wraps THEN 0 ELSE cursor.column
      row == IF down THEN cursor.row + 1 ELSE cursor.row
  IN  /\ char \notin written
      /\ written' = written \cup {char}
      /\ buffer' = setChar(b, column, row, char)
      /\ mAboutToAutoWrap' = (column = Columns - 1)
      /\ cursor' = [column |-> Smaller(column + 1, Columns - 1), row |-> row]
      /\ UNCHANGED <<margin, alt>>

doLinefeed ==
  LET moves == cursor.row + 1 # margin.bottom
  IN  /\ cursor.row + 1 < Rows \/ ~moves
      /\ buffer' = IF moves THEN buffer ELSE Scrolled
      /\ cursor' = IF moves THEN [cursor EXCEPT !.row = @ + 1] ELSE cursor
      /\ mAboutToAutoWrap' = FALSE
      /\ UNCHANGED <<margin, alt, written>>

ReverseIndex ==
  LET top == margin.top
      lines == margin.bottom - (top + 1)
  IN  /\ IF cursor.row <= top
         THEN /\ buffer' = blockSet(blockCopy(buffer, 0, top, Columns, lines, 0, top + 1),
                                    0, top, Columns, 1)
              /\ UNCHANGED cursor
         ELSE cursor' = [cursor EXCEPT !.row = @ - 1] /\ UNCHANGED buffer
      /\ UNCHANGED <<margin, mAboutToAutoWrap, alt, written>>

Backspace ==
  LET previous == cursor.row - 1
  IN  /\ \/ /\ cursor.column > 0
            /\ cursor' = [cursor EXCEPT !.column = @ - 1]
            /\ UNCHANGED buffer
         \/ /\ cursor.column = 0 /\ previous >= 0
            /\ Row(buffer, previous).mLineWrap
            /\ buffer' = setLineWrap(buffer, previous, FALSE)
            /\ cursor' = [column |-> Columns - 1, row |-> previous]
      /\ mAboutToAutoWrap' = FALSE
      /\ UNCHANGED <<margin, alt, written>>

\* A buffer that an operation at the cursor leaves behind.
Set(b) == buffer' = b /\ UNCHANGED <<cursor, margin, alt, written>>

InsertLines(n) ==
  LET after == margin.bottom - cursor.row
      k == Smaller(n, after)
  IN  /\ Set(blockSet(blockCopy(buffer, 0, cursor.row, Columns, after - k, 0, cursor.row + k),
                      0, cursor.row, Columns, k))
      /\ UNCHANGED mAboutToAutoWrap

DeleteLines(n) ==
  LET after == margin.bottom - cursor.row
      k == Smaller(n, after)
  IN  /\ Set(blockSet(blockCopy(buffer, 0, cursor.row + k, Columns, after - k, 0, cursor.row),
                      0, cursor.row + after - k, Columns, k))
      /\ mAboutToAutoWrap' = FALSE

InsertCells(n) ==
  LET after == Columns - cursor.column
      k == Smaller(n, after)
  IN  /\ Set(blockSet(blockCopy(buffer, cursor.column, cursor.row, after - k, 1,
                                cursor.column + k, cursor.row),
                      cursor.column, cursor.row, k, 1))
      /\ mAboutToAutoWrap' = FALSE

DeleteCells(n) ==
  LET after == Columns - cursor.column
      k == Smaller(n, after)
  IN  /\ Set(blockSet(blockCopy(buffer, cursor.column + k, cursor.row, after - k, 1,
                                cursor.column, cursor.row),
                      cursor.column + after - k, cursor.row, k, 1))
      /\ mAboutToAutoWrap' = FALSE

EraseInLine(b, part) ==
  CASE part = "after" -> blockSet(b, cursor.column, cursor.row, Columns - cursor.column, 1)
    [] part = "before" -> blockSet(b, 0, cursor.row, cursor.column + 1, 1)
    [] OTHER -> blockSet(b, 0, cursor.row, Columns, 1)

EraseInDisplay(b, part) ==
  CASE part = "after" ->
         blockSet(EraseInLine(b, part), 0, cursor.row + 1, Columns, Rows - (cursor.row + 1))
    [] part = "before" -> EraseInLine(blockSet(b, 0, 0, Columns, cursor.row), part)
    [] part = "all" -> blockSet(b, 0, 0, Columns, Rows)
    [] OTHER -> IF alt THEN b ELSE clearTranscript(b)

Erase ==
  /\ \/ \E part \in {"after", "before", "all"} : Set(EraseInLine(buffer, part))
     \/ \E part \in {"after", "before", "all", "saved"} : Set(EraseInDisplay(buffer, part))
  /\ mAboutToAutoWrap' = FALSE

setCursorRowCol ==
  /\ cursor' \in [column : 0..Columns - 1, row : 0..Rows - 1]
  /\ mAboutToAutoWrap' = FALSE
  /\ UNCHANGED <<buffer, margin, alt, written>>

SetMargins ==
  /\ \E top \in 0..Rows - 2 : \E bottom \in top + 2..Rows :
       margin' = [top |-> top, bottom |-> bottom]
  /\ cursor' = Home /\ mAboutToAutoWrap' = FALSE
  /\ UNCHANGED <<buffer, alt, written>>

Next ==
  \/ \E char \in Chars : emitCodePoint(char)
  \/ doLinefeed \/ ReverseIndex \/ Backspace
  \/ \E n \in 1..Rows : InsertLines(n) \/ DeleteLines(n)
  \/ \E n \in 1..Columns : InsertCells(n) \/ DeleteCells(n)
  \/ Erase \/ setCursorRowCol \/ SetMargins
  \/ \E size \in Sizes : resize(size)

Spec == Init /\ [][Next]_vars

-----------------------------------------------------------------------------
(* Properties.                                                             *)

Texts(from, to) == [n \in 1..to - from + 1 |-> Row(buffer, from + n - 1).text]

Lines == INSTANCE ScreenLines WITH
  transcript <- Texts(-buffer.mActiveTranscriptRows, -1),
  screen <- Texts(0, buffer.mScreenRows - 1),
  wrapNext <- mAboutToAutoWrap

\* The ring is a list of lines: whatever scrolls, in whatever region, is
\* copied, cleared or resized, with whatever row first in the ring, no line of
\* the screen or the transcript is lost, doubled or out of its place but as
\* ScreenLines says, and the cursor stays on the screen.  What the comments of the
\* code promise of a shrink and it does not keep are actions of their own there:
\* ShrinkOverGap and ShrinkAlternateShuffled.
ImplementsLines == Lines!Spec

=============================================================================

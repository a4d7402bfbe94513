------------------------- MODULE TerminalBufferProofs -------------------------
(***************************************************************************)
(* The ring of TerminalBuffer is the list of lines of ScreenLines.  First  *)
(* what each operation of the class does to the rows that are in use, by   *)
(* row numbers; then the inductive invariant RingInv, which needs the      *)
(* reflow of a resize to end with a ring too; then, action by action, that *)
(* the lines change as ScreenLines says.  The text of a reflow, which the  *)
(* abstract module defines by recursion over the lines, is TLC's: Flows is *)
(* all that ScreenLines says of a reflow but that, and the last theorem is *)
(* the full refinement of the behaviours in which no resize reflows.       *)
(***************************************************************************)
EXTENDS TerminalBuffer, WellFoundedInduction, FiniteSetTheorems, SequenceTheorems, TLAPS

-----------------------------------------------------------------------------
(* Arithmetic and induction.                                               *)

\* Division with remainder.
LEMMA Residue ==
    ASSUME NEW T \in Nat \ {0}, NEW a \in Int
    PROVE  a % T \in 0..T - 1 /\ a \div T \in Int /\ a = (a % T) + T * (a \div T)
<1>1. a % T \in 0..T - 1
  OBVIOUS
<1>2. a \div T \in Int
  OBVIOUS
<1>3. a = (a % T) + T * (a \div T)
  OBVIOUS
<1>4. QED  BY <1>1, <1>2, <1>3

\* Every integer is a multiple of T and a remainder.
LEMMA Quotient ==
    ASSUME NEW T \in Nat \ {0}, NEW a \in Int
    PROVE  \E q \in Int, r \in 0..T - 1 : a = T * q + r
<1>. DEFINE q == a \div T
            r == a % T
<1>1. q \in Int /\ r \in 0..T - 1 /\ a = r + T * q
  BY Residue
<1>. HIDE DEF q, r
<1>2. a = T * q + r
  BY <1>1
<1>3. QED  BY <1>1, <1>2

\* A multiple of T and a remainder have that remainder.
LEMMA ResidueOf ==
    ASSUME NEW T \in Nat \ {0}, NEW q \in Int, NEW r \in 0..T - 1
    PROVE  (T * q + r) % T = r
OBVIOUS

\* A step of T around the ring ends in the same slot.
LEMMA ResidueShifts ==
    ASSUME NEW T \in Nat \ {0}, NEW a \in Int
    PROVE  (a + T) % T = a % T /\ (a - T) % T = a % T
<1>1. PICK q \in Int, r \in 0..T - 1 : a = T * q + r
  BY Quotient
<1>2. a + T = T * (q + 1) + r /\ a - T = T * (q - 1) + r
  BY <1>1
<1>3. QED
  BY <1>1, <1>2, ResidueOf

\* Steps around the ring may be reduced at any point.
LEMMA ResidueAdds ==
    ASSUME NEW T \in Nat \ {0}, NEW a \in Int, NEW n \in Int
    PROVE  ((a % T) + n) % T = (a + n) % T
<1>1. PICK q \in Int, r \in 0..T - 1 : a = T * q + r
  BY Quotient
<1>2. PICK p \in Int, s \in 0..T - 1 : r + n = T * p + s
  <2>1. r + n \in Int
    OBVIOUS
  <2>2. QED  BY <2>1, Quotient
<1>3. a % T = r
  BY <1>1, ResidueOf
<1>4. (r + n) % T = s
  BY <1>2, ResidueOf
<1>5. a + n = T * (q + p) + s /\ q + p \in Int
  BY <1>1, <1>2
<1>6. (a + n) % T = s
  BY <1>5, ResidueOf
<1>7. QED  BY <1>3, <1>4, <1>6

\* Two slot numbers less than T apart that agree modulo T are the same.
LEMMA ResidueOne ==
    ASSUME NEW T \in Nat \ {0}, NEW a \in Int, NEW b \in Int, a % T = b % T, a - b \in -(T - 1)..T - 1
    PROVE  a = b
<1>1. PICK q \in Int, r \in 0..T - 1 : a = T * q + r
  BY Quotient
<1>2. PICK p \in Int, s \in 0..T - 1 : b = T * p + s
  BY Quotient
<1>3. r = s
  BY <1>1, <1>2, ResidueOf
<1>4. a - b = T * (q - p)
  <2>1. T * q - T * p = T * (q - p)
    OBVIOUS
  <2>2. QED  BY <1>1, <1>2, <1>3, <2>1
<1>5. ASSUME NEW d \in Nat \ {0}
      PROVE  T * d >= T
  <2>1. d - 1 \in Nat /\ d = (d - 1) + 1
    OBVIOUS
  <2>2. T * d = T * (d - 1) + T
    OBVIOUS
  <2>3. T * (d - 1) >= 0
    BY <2>1
  <2>4. QED  BY <2>2, <2>3
<1>6. q - p = 0
  <2>1. CASE q - p > 0
    BY <1>4, <1>5, <2>1
  <2>2. CASE q - p < 0
    <3>1. p - q \in Nat \ {0} /\ T * (p - q) = -(T * (q - p))
      BY <2>2
    <3>2. QED  BY <1>4, <1>5, <3>1
  <2>3. QED  BY <2>1, <2>2
<1>7. a - b = 0
  BY <1>4, <1>6
<1>8. QED  BY <1>7

\* A set of numbers that is not empty has a least one.
LEMMA Least ==
    ASSUME NEW S \in SUBSET Nat, S # {}
    PROVE  \E x \in S : \A y \in S : x <= y
<1>1. PICK x \in S : \A y \in S : <<y, x>> \notin OpToRel(<, Nat)
  BY WFMin, NatLessThanWellFounded
<1>2. ASSUME NEW y \in S, y < x
      PROVE  <<y, x>> \in OpToRel(<, Nat)
  <2>1. x \in Nat /\ y \in Nat
    OBVIOUS
  <2>2. QED  BY <1>2, <2>1, SMT DEF OpToRel
<1>3. \A y \in S : x \in Nat /\ y \in Nat /\ ~(y < x)
  BY <1>1, <1>2
<1>4. QED  BY <1>3

\* Induction over 0..n with a set for the predicate, from the least number that is
\* missing: the library's induction theorems take an operator instead.
LEMMA Induction ==
    ASSUME NEW n \in Nat, NEW S, 0 \in S, \A i \in 1..n : i - 1 \in S => i \in S
    PROVE  0..n \subseteq S
<1>1. SUFFICES ASSUME (0..n) \ S # {} PROVE FALSE
  OBVIOUS
<1>2. PICK x \in (0..n) \ S : \A y \in (0..n) \ S : x <= y
  <2>1. (0..n) \ S \in SUBSET Nat
    OBVIOUS
  <2>2. QED  BY <1>1, <2>1, Least
<1>3. x # 0 /\ x \in 1..n
  BY <1>2
<1>4. x - 1 \in S
  <2>1. x - 1 \in 0..n /\ ~(x <= x - 1)
    BY <1>3
  <2>2. QED  BY <1>2, <2>1
<1>5. QED  BY <1>2, <1>3, <1>4

\* The step functions of a recursion of n steps over V, and what such a recursion is.
Steps(n, V) == [(1..n) \X V -> V]
Run(n, start, F, f) == f = [i \in 0..n |-> IF i = 0 THEN start ELSE F[<<i, f[i - 1]>>]]

\* A function that is defined by such a recursion exists and stays in V.  It is how
\* the recursive functions of the model, which copy rows and characters one at a
\* time, are reasoned about.
LEMMA Recursion ==
    ASSUME NEW n \in Nat, NEW V, NEW start \in V, NEW F \in Steps(n, V)
    PROVE  \E f \in [0..n -> V] : Run(n, start, F, f)
<1>. DEFINE Upto(k) == {f \in [0..k -> V] :
                          f[0] = start /\ \A i \in 1..k : f[i] = F[<<i, f[i - 1]>>]}
            S == {k \in 0..n : Upto(k) # {}}
<1>1. F \in [(1..n) \X V -> V]
  BY DEF Steps
<1>2. 0 \in S
  <2>1. [i \in 0..0 |-> start] \in Upto(0)
    OBVIOUS
  <2>2. QED  BY <2>1
<1>3. ASSUME NEW k \in 1..n, k - 1 \in S
      PROVE  k \in S
  <2>1. PICK f : f \in Upto(k - 1)
    BY <1>3
  <2>2. f \in [0..k - 1 -> V] /\ f[0] = start /\ \A i \in 1..k - 1 : f[i] = F[<<i, f[i - 1]>>]
    BY <2>1
  <2>. DEFINE g == [i \in 0..k |-> IF i = k THEN F[<<k, f[k - 1]>>] ELSE f[i]]
  <2>3. f[k - 1] \in V /\ F[<<k, f[k - 1]>>] \in V
    BY <1>1, <2>2
  <2>4. g \in [0..k -> V]
    BY <2>2, <2>3
  <2>5. g[0] = start
    BY <2>2
  <2>6. ASSUME NEW i \in 1..k
        PROVE  g[i] = F[<<i, g[i - 1]>>]
    <3>1. g[i - 1] = f[i - 1]
      OBVIOUS
    <3>2. CASE i = k
      BY <3>1, <3>2
    <3>3. CASE i # k
      <4>1. i \in 1..k - 1 /\ g[i] = f[i]
        BY <3>3
      <4>2. QED  BY <4>1, <3>1, <2>2
    <3>4. QED  BY <3>2, <3>3
  <2>. HIDE DEF g
  <2>7. g \in Upto(k)
    BY <2>4, <2>5, <2>6
  <2>8. QED  BY <2>7
<1>. HIDE DEF S
<1>4. n \in S
  <2>1. 0..n \subseteq S
    BY <1>2, <1>3, Induction
  <2>2. QED  BY <2>1
<1>5. PICK f : f \in Upto(n)
  BY <1>4 DEF S
<1>6. f = [i \in 0..n |-> IF i = 0 THEN start ELSE F[<<i, f[i - 1]>>]]
  <2>1. f \in [0..n -> V] /\ f[0] = start /\ \A i \in 1..n : f[i] = F[<<i, f[i - 1]>>]
    BY <1>5
  <2>. DEFINE h == [i \in 0..n |-> IF i = 0 THEN start ELSE F[<<i, f[i - 1]>>]]
  <2>2. \A i \in 0..n : f[i] = h[i]
    BY <2>1
  <2>3. QED  BY <2>1, <2>2
<1>7. QED  BY <1>5, <1>6 DEF Run

-----------------------------------------------------------------------------
(* The ring.                                                               *)

\* The rows of some number of columns, and the buffers of a shape.
RowsOf(columns) == [text : [1..columns -> Chars \cup {Blank}], mLineWrap : BOOLEAN]

Buffers(total, rows, columns, slots) ==
    [mLines : [slots -> RowsOf(columns) \cup {NoRow}],
     mTotalRows : {total}, mScreenRows : {rows}, mColumns : {columns},
     mActiveTranscriptRows : 0..total - rows, mScreenFirstRow : Nat]

\* The slots of the ring, and the rows that are in use: the transcript has negative numbers.
Slots(b) == DOMAIN b.mLines

Window(b) == -b.mActiveTranscriptRows..b.mScreenRows - 1

\* A buffer whose fields agree with each other.
WellFormed(b) ==
    /\ b \in Buffers(b.mTotalRows, b.mScreenRows, b.mColumns, DOMAIN b.mLines)
    /\ b.mTotalRows \in Nat /\ b.mScreenRows \in 2..b.mTotalRows
    /\ b.mColumns \in {size.columns : size \in Sizes}
    /\ 0..b.mTotalRows - 1 \subseteq DOMAIN b.mLines
    /\ b.mActiveTranscriptRows = 0 \/ b.mScreenFirstRow < b.mTotalRows

\* The rows in use have all been allocated.
IsRing(b) == WellFormed(b) /\ \A e \in Window(b) : Row(b, e) # NoRow

\* The same buffer but for its rows.
Alike(b, c) ==
    /\ DOMAIN c.mLines = DOMAIN b.mLines
    /\ c.mTotalRows = b.mTotalRows /\ c.mScreenRows = b.mScreenRows /\ c.mColumns = b.mColumns
    /\ c.mActiveTranscriptRows = b.mActiveTranscriptRows /\ c.mScreenFirstRow = b.mScreenFirstRow

\* The fields of a well formed buffer, spelled out.
LEMMA Fields ==
    ASSUME NEW b, WellFormed(b)
    PROVE  /\ b = [mLines |-> b.mLines, mTotalRows |-> b.mTotalRows, mScreenRows |-> b.mScreenRows,
                   mColumns |-> b.mColumns, mActiveTranscriptRows |-> b.mActiveTranscriptRows,
                   mScreenFirstRow |-> b.mScreenFirstRow]
           /\ b.mLines \in [DOMAIN b.mLines -> RowsOf(b.mColumns) \cup {NoRow}]
           /\ b.mTotalRows \in Nat \ {0} /\ b.mScreenRows \in 2..b.mTotalRows
           /\ b.mColumns \in Nat \ {0, 1}
           /\ b.mActiveTranscriptRows \in 0..b.mTotalRows - b.mScreenRows
           /\ b.mScreenFirstRow \in Nat
           /\ NoRow \notin RowsOf(b.mColumns)
<1>1. b \in Buffers(b.mTotalRows, b.mScreenRows, b.mColumns, DOMAIN b.mLines)
  BY DEF WellFormed
<1>2. /\ b = [mLines |-> b.mLines, mTotalRows |-> b.mTotalRows, mScreenRows |-> b.mScreenRows,
                   mColumns |-> b.mColumns, mActiveTranscriptRows |-> b.mActiveTranscriptRows,
                   mScreenFirstRow |-> b.mScreenFirstRow]
  BY <1>1 DEF Buffers
<1>3. /\ b.mLines \in [DOMAIN b.mLines -> RowsOf(b.mColumns) \cup {NoRow}]
      /\ b.mActiveTranscriptRows \in 0..b.mTotalRows - b.mScreenRows
      /\ b.mScreenFirstRow \in Nat
  BY <1>1 DEF Buffers
<1>4. b.mTotalRows \in Nat \ {0} /\ b.mScreenRows \in 2..b.mTotalRows
  BY DEF WellFormed
<1>5. b.mColumns \in Nat \ {0, 1} /\ NoRow \notin RowsOf(b.mColumns)
  BY SizesAssumption, NoRowAssumption DEF WellFormed, RowsOf
<1>6. QED  BY <1>2, <1>3, <1>4, <1>5

\* Other rows in the same places.
LEMMA OtherLines ==
    ASSUME NEW b, WellFormed(b), NEW lines \in [DOMAIN b.mLines -> RowsOf(b.mColumns) \cup {NoRow}]
    PROVE  /\ WellFormed([b EXCEPT !.mLines = lines])
           /\ Alike(b, [b EXCEPT !.mLines = lines])
           /\ [b EXCEPT !.mLines = lines].mLines = lines
<1>. DEFINE c == [b EXCEPT !.mLines = lines]
<1>1. c = [mLines |-> lines, mTotalRows |-> b.mTotalRows, mScreenRows |-> b.mScreenRows,
                   mColumns |-> b.mColumns, mActiveTranscriptRows |-> b.mActiveTranscriptRows,
                   mScreenFirstRow |-> b.mScreenFirstRow]
  BY Fields
<1>2. DOMAIN lines = DOMAIN b.mLines
  OBVIOUS
<1>. HIDE DEF c
<1>3. Alike(b, c) /\ c.mLines = lines
  BY <1>1, <1>2 DEF Alike
<1>4. c \in Buffers(b.mTotalRows, b.mScreenRows, b.mColumns, DOMAIN b.mLines)
  BY <1>1, Fields DEF Buffers
<1>5. WellFormed(c)
  BY <1>3, <1>4 DEF WellFormed, Alike
<1>6. QED  BY <1>3, <1>5 DEF c

\* externalToInternalRow goes once around the ring at most and finds a slot.
LEMMA SlotIs ==
    ASSUME NEW b, WellFormed(b), NEW e \in -b.mActiveTranscriptRows..b.mTotalRows
    PROVE  /\ externalToInternalRow(b, e) = (b.mScreenFirstRow + e) % b.mTotalRows
           /\ externalToInternalRow(b, e) \in 0..b.mTotalRows - 1
           /\ externalToInternalRow(b, e) \in DOMAIN b.mLines
<1>. DEFINE T == b.mTotalRows
            i == b.mScreenFirstRow + e
<1>1. /\ T \in Nat \ {0} /\ b.mActiveTranscriptRows \in 0..T - b.mScreenRows
      /\ b.mScreenRows \in 2..T /\ b.mScreenFirstRow \in Nat
      /\ 0..T - 1 \subseteq DOMAIN b.mLines
      /\ b.mActiveTranscriptRows = 0 \/ b.mScreenFirstRow < T
  BY Fields DEF WellFormed
<1>2. i \in Int /\ i % T \in 0..T - 1
  <2>1. i \in Int
    BY <1>1
  <2>2. QED  BY <1>1, <2>1, Residue
<1>3. externalToInternalRow(b, e) = i % T
  <2>1. CASE i >= 0
    BY <2>1, <1>1 DEF externalToInternalRow
  <2>2. CASE i < 0
    <3>1. T + i \in 0..T - 1
      BY <1>1, <2>2
    <3>2. (T + i) % T = T + i
      BY <1>1, <3>1
    <3>3. (i + T) % T = i % T
      BY <1>1, <1>2, ResidueShifts
    <3>4. i + T = T + i
      BY <1>1, <1>2
    <3>5. externalToInternalRow(b, e) = T + i
      BY <2>2 DEF externalToInternalRow
    <3>6. QED  BY <3>2, <3>3, <3>4, <3>5
  <2>3. QED  BY <1>2, <2>1, <2>2
<1>4. QED  BY <1>1, <1>2, <1>3

\* No two rows in use share a slot.
LEMMA SlotOne ==
    ASSUME NEW b, WellFormed(b), NEW e \in Window(b), NEW f \in Window(b),
           externalToInternalRow(b, e) = externalToInternalRow(b, f)
    PROVE  e = f
<1>. DEFINE T == b.mTotalRows
<1>1. /\ T \in Nat \ {0} /\ b.mActiveTranscriptRows \in 0..T - b.mScreenRows
      /\ b.mScreenRows \in 2..T /\ b.mScreenFirstRow \in Nat
  BY Fields
<1>2. e \in -b.mActiveTranscriptRows..T /\ f \in -b.mActiveTranscriptRows..T
  BY <1>1 DEF Window
<1>3. (b.mScreenFirstRow + e) % T = (b.mScreenFirstRow + f) % T
  BY <1>2, SlotIs
<1>4. /\ (b.mScreenFirstRow + e) \in Int /\ (b.mScreenFirstRow + f) \in Int
      /\ (b.mScreenFirstRow + e) - (b.mScreenFirstRow + f) \in -(T - 1)..T - 1
  BY <1>1, <1>2 DEF Window
<1>5. b.mScreenFirstRow + e = b.mScreenFirstRow + f
  BY <1>1, <1>3, <1>4, ResidueOne
<1>6. QED  BY <1>1, <1>2, <1>5

\* A row in use is a row, not null.
LEMMA InWindow ==
    ASSUME NEW b, IsRing(b), NEW e \in Window(b)
    PROVE  /\ e \in -b.mActiveTranscriptRows..b.mTotalRows
           /\ Row(b, e) \in RowsOf(b.mColumns) /\ Row(b, e) # NoRow
           /\ allocated(Row(b, e), b.mColumns) = Row(b, e)
<1>1. e \in -b.mActiveTranscriptRows..b.mTotalRows
  BY Fields DEF IsRing, Window
<1>2. Row(b, e) \in RowsOf(b.mColumns) \cup {NoRow}
  BY <1>1, SlotIs, Fields DEF IsRing, Row
<1>3. QED  BY <1>1, <1>2 DEF IsRing, allocated

\* A row that may have been missing.
LEMMA AllocatedRow ==
    ASSUME NEW b, WellFormed(b), NEW e \in Window(b), NEW row \in RowsOf(b.mColumns),
           \A f \in Window(b) \ {e} : Row(b, f) # NoRow
    PROVE  /\ IsRing(WithRow(b, e, row)) /\ Alike(b, WithRow(b, e, row))
           /\ Row(WithRow(b, e, row), e) = row
           /\ \A f \in Window(b) \ {e} : Row(WithRow(b, e, row), f) = Row(b, f)
<1>. DEFINE c == WithRow(b, e, row)
            lines == [b.mLines EXCEPT ![externalToInternalRow(b, e)] = row]
<1>1. WellFormed(b) /\ b.mLines \in [DOMAIN b.mLines -> RowsOf(b.mColumns) \cup {NoRow}]
  BY Fields
<1>2. lines \in [DOMAIN b.mLines -> RowsOf(b.mColumns) \cup {NoRow}]
  BY <1>1
<1>3. c = [b EXCEPT !.mLines = lines]
  BY DEF WithRow
<1>. HIDE DEF c
<1>4. WellFormed(c) /\ Alike(b, c) /\ c.mLines = lines
  BY <1>1, <1>2, <1>3, OtherLines
<1>5. \A f : externalToInternalRow(c, f) = externalToInternalRow(b, f)
  BY <1>4 DEF Alike, externalToInternalRow
<1>6. \A f \in Window(b) : externalToInternalRow(b, f) \in DOMAIN b.mLines
  <2>1. \A f \in Window(b) : f \in -b.mActiveTranscriptRows..b.mTotalRows
    BY Fields DEF Window
  <2>2. QED  BY <2>1, SlotIs
<1>7. Row(c, e) = row
  BY <1>1, <1>4, <1>5, <1>6 DEF Row
<1>8. ASSUME NEW f \in Window(b) \ {e}
      PROVE  Row(c, f) = Row(b, f)
  <2>1. externalToInternalRow(b, f) # externalToInternalRow(b, e)
    BY <1>1, SlotOne
  <2>2. QED  BY <1>1, <1>4, <1>5, <1>6, <2>1 DEF Row
<1>9. IsRing(c)
  <2>1. Window(c) = Window(b)
    BY <1>4 DEF Alike, Window
  <2>2. row # NoRow
    BY <1>1, Fields
  <2>3. QED  BY <1>4, <1>7, <1>8, <2>1, <2>2 DEF IsRing
<1>10. QED  BY <1>4, <1>7, <1>8, <1>9 DEF c

\* Assigning a row in use changes that row and no other.
LEMMA WithRowIs ==
    ASSUME NEW b, IsRing(b), NEW e \in Window(b), NEW row \in RowsOf(b.mColumns)
    PROVE  /\ IsRing(WithRow(b, e, row)) /\ Alike(b, WithRow(b, e, row))
           /\ Row(WithRow(b, e, row), e) = row
           /\ \A f \in Window(b) \ {e} : Row(WithRow(b, e, row), f) = Row(b, f)
<1>1. WellFormed(b) /\ \A f \in Window(b) \ {e} : Row(b, f) # NoRow
  BY DEF IsRing
<1>2. QED  BY <1>1, AllocatedRow

\* The row of the ring that is n after its first screen row, going round.
At(b, n) == b.mLines[(b.mScreenFirstRow + n) % b.mTotalRows]

\* What Row reads, with the slot number as a remainder.
LEMMA RowAt ==
    ASSUME NEW b, WellFormed(b), NEW e \in -b.mActiveTranscriptRows..b.mTotalRows
    PROVE  Row(b, e) = At(b, e)
BY SlotIs DEF Row, At

\* Once around the ring is the same row.
LEMMA AtAround ==
    ASSUME NEW b, WellFormed(b), NEW n \in Int
    PROVE  At(b, n + b.mTotalRows) = At(b, n)
<1>1. b.mTotalRows \in Nat \ {0} /\ b.mScreenFirstRow + n \in Int
  BY Fields
<1>2. (b.mScreenFirstRow + n + b.mTotalRows) % b.mTotalRows = (b.mScreenFirstRow + n) % b.mTotalRows
  BY <1>1, ResidueShifts
<1>3. b.mScreenFirstRow + (n + b.mTotalRows) = b.mScreenFirstRow + n + b.mTotalRows
  BY <1>1, Fields
<1>4. QED  BY <1>2, <1>3 DEF At

\* len rows from the one at n on move down by one, the one below them moves up.
LEMMA CopiedDown ==
    ASSUME NEW b, WellFormed(b), NEW src \in Int, NEW n \in Int, NEW len \in 0..b.mTotalRows,
           src % b.mTotalRows = (b.mScreenFirstRow + n) % b.mTotalRows
    PROVE  /\ WellFormed(blockCopyLinesDown(b, src, len))
           /\ Alike(b, blockCopyLinesDown(b, src, len))
           /\ \A m \in n..n + b.mTotalRows - 1 :
                At(blockCopyLinesDown(b, src, len), m) =
                  IF m = n THEN At(b, n + len) ELSE IF m <= n + len THEN At(b, m - 1) ELSE At(b, m)
<1>. DEFINE T == b.mTotalRows
            F == b.mScreenFirstRow
            k(i) == (i - src) % T
            from(i) == (src + (IF k(i) = 0 THEN len ELSE k(i) - 1)) % T
            lines == [i \in DOMAIN b.mLines |->
                        IF i < T /\ k(i) \in 0..len THEN b.mLines[from(i)] ELSE b.mLines[i]]
            c == blockCopyLinesDown(b, src, len)
<1>1. /\ T \in Nat \ {0} /\ F \in Nat /\ 0..T - 1 \subseteq DOMAIN b.mLines
      /\ b.mLines \in [DOMAIN b.mLines -> RowsOf(b.mColumns) \cup {NoRow}]
  BY Fields DEF WellFormed
<1>2. c = [b EXCEPT !.mLines = lines]
  BY DEF blockCopyLinesDown
<1>3. ASSUME NEW a \in Int PROVE a % T \in DOMAIN b.mLines
  BY <1>1, Residue
<1>4. ASSUME NEW i \in DOMAIN b.mLines, i < T /\ k(i) \in 0..len
      PROVE  from(i) \in DOMAIN b.mLines
  <2>1. src + (IF k(i) = 0 THEN len ELSE k(i) - 1) \in Int
    BY <1>4
  <2>2. QED  BY <1>3, <2>1
<1>5. lines \in [DOMAIN b.mLines -> RowsOf(b.mColumns) \cup {NoRow}]
  <2>. HIDE DEF k, from, T
  <2>1. QED  BY <1>1, <1>4
<1>. HIDE DEF c, lines
<1>6. WellFormed(c) /\ Alike(b, c) /\ c.mLines = lines
  BY <1>2, <1>5, OtherLines
<1>7. \A a, d \in Int : a % T = d % T => \A x \in Int : (a + x) % T = (d + x) % T
  <2>1. SUFFICES ASSUME NEW a \in Int, NEW d \in Int, a % T = d % T, NEW x \in Int
                 PROVE  (a + x) % T = (d + x) % T
    OBVIOUS
  <2>2. ((a % T) + x) % T = (a + x) % T /\ ((d % T) + x) % T = (d + x) % T
    BY <1>1, ResidueAdds
  <2>3. QED  BY <2>1, <2>2
<1>8. ASSUME NEW m \in n..n + T - 1
      PROVE  At(c, m) = IF m = n THEN At(b, n + len) ELSE IF m <= n + len THEN At(b, m - 1) ELSE At(b, m)
  <2>. DEFINE i == (F + m) % T
  <2>1. F + m \in Int /\ m \in Int /\ m - n \in 0..T - 1 /\ i \in 0..T - 1 /\ i \in DOMAIN b.mLines
    <3>1. F + m \in Int
      BY <1>1
    <3>2. QED  BY <1>1, <3>1, Residue
  <2>2. k(i) = m - n
    <3>1. i % T = (F + m) % T
      <4>1. \A j \in 0..T - 1 : j % T = j
        BY <1>1
      <4>2. QED  BY <2>1, <4>1
    <3>2. (i - src) % T = (F + m - src) % T
      <4>1. (i + (0 - src)) % T = (F + m + (0 - src)) % T
        BY <1>7, <2>1, <3>1
      <4>2. i \in Int /\ F \in Int /\ m \in Int
        BY <1>1, <2>1
      <4>. HIDE DEF i, F
      <4>4. i + (0 - src) = i - src /\ F + m + (0 - src) = F + m - src
        BY <4>2
      <4>5. QED  BY <4>1, <4>4
    <3>3. (src + (F + m - src - (F + n))) % T = (F + n + (F + m - src - (F + n))) % T
      <4>1. F + n \in Int /\ F + m - src - (F + n) \in Int
        BY <1>1
      <4>2. QED  BY <1>7, <4>1
    <3>4. /\ src + (F + m - src - (F + n)) = m - n
          /\ F + n + (F + m - src - (F + n)) = F + m - src
      BY <1>1, <2>1
    <3>5. (m - n) % T = m - n
      BY <1>1, <2>1
    <3>6. QED  BY <3>2, <3>3, <3>4, <3>5
  <2>3. At(c, m) = lines[i]
    BY <1>6 DEF At, Alike
  <2>4. \A x \in Int : b.mLines[(src + x) % T] = At(b, n + x)
    <3>1. SUFFICES ASSUME NEW x \in Int PROVE (src + x) % T = (F + (n + x)) % T
      BY DEF At
    <3>2. (src + x) % T = (F + n + x) % T
      <4>1. F + n \in Int
        BY <1>1
      <4>2. QED  BY <1>7, <4>1
    <3>3. F + n + x = F + (n + x)
      BY <1>1
    <3>4. QED  BY <3>2, <3>3
  <2>5. CASE m = n
    <3>1. k(i) = 0 /\ i < T /\ k(i) \in 0..len
      BY <1>1, <2>1, <2>2, <2>5
    <3>2. lines[i] = b.mLines[(src + len) % T]
      BY <2>1, <3>1 DEF lines
    <3>3. QED  BY <2>3, <2>4, <2>5, <3>2
  <2>6. CASE m # n /\ m <= n + len
    <3>1. k(i) = m - n /\ k(i) # 0 /\ i < T /\ k(i) \in 0..len
      BY <1>1, <2>1, <2>2, <2>6
    <3>2. lines[i] = b.mLines[(src + (m - n - 1)) % T]
      BY <2>1, <3>1 DEF lines
    <3>3. m - n - 1 \in Int /\ n + (m - n - 1) = m - 1
      BY <2>1
    <3>4. b.mLines[(src + (m - n - 1)) % T] = At(b, m - 1)
      BY <2>4, <3>3
    <3>5. QED  BY <2>3, <2>6, <3>2, <3>4
  <2>7. CASE m # n /\ ~(m <= n + len)
    <3>1. k(i) \notin 0..len
      BY <2>1, <2>2, <2>7
    <3>2. lines[i] = b.mLines[i]
      BY <2>1, <3>1 DEF lines
    <3>3. QED  BY <2>3, <2>7, <3>2 DEF At
  <2>8. QED  BY <2>5, <2>6, <2>7
<1>9. QED  BY <1>6, <1>8 DEF c

-----------------------------------------------------------------------------
(* Scrolling, characters, blocks.                                          *)

\* A cleared row.
LEMMA ClearedIs ==
    ASSUME NEW b, WellFormed(b), NEW row \in RowsOf(b.mColumns) \cup {NoRow}
    PROVE  /\ cleared(row, b.mColumns) \in RowsOf(b.mColumns)
           /\ cleared(row, b.mColumns).text = [c \in 1..b.mColumns |-> Blank]
<1>1. NoRow \notin RowsOf(b.mColumns)
  BY Fields
<1>2. (row # NoRow /\ row.mLineWrap) \in BOOLEAN
  OBVIOUS
<1>. DEFINE wrap == row # NoRow /\ row.mLineWrap
<1>. HIDE DEF wrap
<1>3. [text |-> [c \in 1..b.mColumns |-> Blank], mLineWrap |-> wrap] \in RowsOf(b.mColumns)
  BY <1>2 DEF RowsOf, wrap
<1>4. cleared(row, b.mColumns) = [text |-> [c \in 1..b.mColumns |-> Blank], mLineWrap |-> wrap]
  BY DEF cleared, TerminalRow, wrap
<1>5. QED  BY <1>3, <1>4

\* Another first row and another length of the transcript.
LEMMA OtherStart ==
    ASSUME NEW b, WellFormed(b), NEW first \in 0..b.mTotalRows - 1,
           NEW active \in 0..b.mTotalRows - b.mScreenRows
    PROVE  \E c : /\ c = [b EXCEPT !.mScreenFirstRow = first, !.mActiveTranscriptRows = active]
                  /\ WellFormed(c) /\ c.mLines = b.mLines
                  /\ c.mTotalRows = b.mTotalRows /\ c.mScreenRows = b.mScreenRows
                  /\ c.mColumns = b.mColumns
                  /\ c.mActiveTranscriptRows = active /\ c.mScreenFirstRow = first
<1>1. PICK c : c = [b EXCEPT !.mScreenFirstRow = first, !.mActiveTranscriptRows = active]
  OBVIOUS
<1>2. c = [mLines |-> b.mLines, mTotalRows |-> b.mTotalRows, mScreenRows |-> b.mScreenRows,
           mColumns |-> b.mColumns, mActiveTranscriptRows |-> active, mScreenFirstRow |-> first]
  <2>1. PICK l, t, r, w, a, f :
          b = [mLines |-> l, mTotalRows |-> t, mScreenRows |-> r, mColumns |-> w,
               mActiveTranscriptRows |-> a, mScreenFirstRow |-> f]
    BY Fields
  <2>2. /\ b.mLines = l /\ b.mTotalRows = t /\ b.mScreenRows = r /\ b.mColumns = w
        /\ c = [mLines |-> l, mTotalRows |-> t, mScreenRows |-> r, mColumns |-> w,
                mActiveTranscriptRows |-> active, mScreenFirstRow |-> first]
    BY <1>1, <2>1
  <2>3. QED  BY <2>2
<1>3. c.mScreenFirstRow < b.mTotalRows /\ first \in Nat
  BY <1>2, Fields
<1>4. c \in Buffers(b.mTotalRows, b.mScreenRows, b.mColumns, DOMAIN b.mLines)
  BY <1>2, <1>3, Fields DEF Buffers
<1>5. WellFormed(c)
  BY <1>2, <1>3, <1>4 DEF WellFormed
<1>6. QED  BY <1>1, <1>2, <1>5

\* scrollDownOneLine: the top line of the region joins the transcript, the lines
\* of the region below it move up, the last one is blank and all others stay. The
\* lines that do not scroll have been copied in the ring for that.
LEMMA ScrollIs ==
    ASSUME NEW b, IsRing(b), NEW top \in 0..b.mScreenRows - 1, NEW bottom \in top + 1..b.mScreenRows,
           NEW c, c = scrollDownOneLine(b, top, bottom)
    PROVE  /\ IsRing(c) /\ Slots(c) = Slots(b)
           /\ c.mTotalRows = b.mTotalRows /\ c.mScreenRows = b.mScreenRows /\ c.mColumns = b.mColumns
           /\ c.mActiveTranscriptRows = IF b.mActiveTranscriptRows < b.mTotalRows - b.mScreenRows
                                        THEN b.mActiveTranscriptRows + 1 ELSE b.mActiveTranscriptRows
           /\ c.mScreenFirstRow \in 0..b.mTotalRows - 1
           /\ \A e \in Window(c) :
                 /\ e < -1 => Row(c, e) = Row(b, e + 1)
                 /\ e = -1 => Row(c, e) = Row(b, top)
                 /\ e \in 0..top - 1 \/ e >= bottom => Row(c, e) = Row(b, e)
                 /\ e \in top..bottom - 2 => Row(c, e) = Row(b, e + 1)
                 /\ e = bottom - 1 => Row(c, e).text = [n \in 1..b.mColumns |-> Blank]
<1>. DEFINE T == b.mTotalRows
            R == b.mScreenRows
            A == b.mActiveTranscriptRows
            F == b.mScreenFirstRow
            b1 == blockCopyLinesDown(b, F, top)
            b2 == blockCopyLinesDown(b1, externalToInternalRow(b1, bottom), R - bottom)
            first == (F + 1) % T
            active == IF A < T - R THEN A + 1 ELSE A
            b3 == [b2 EXCEPT !.mScreenFirstRow = first, !.mActiveTranscriptRows = active]
            blank == cleared(Row(b3, bottom - 1), b.mColumns)
<1>1. /\ WellFormed(b)
      /\ T \in Nat \ {0} /\ R \in 2..T /\ F \in Nat /\ A \in 0..T - R
  BY Fields DEF IsRing
<1>2. top \in 0..T /\ top \in Int /\ bottom \in 1..R /\ bottom \in Int /\ R - bottom \in 0..T
      /\ top < T /\ top < bottom
  BY <1>1
<1>3. /\ WellFormed(b1) /\ Alike(b, b1)
      /\ \A m \in 0..T - 1 :
           At(b1, m) = IF m = 0 THEN At(b, top) ELSE IF m <= top THEN At(b, m - 1) ELSE At(b, m)
  <2>1. F % T = (F + 0) % T /\ F \in Int /\ 0 \in Int /\ 0..0 + T - 1 = 0..T - 1 /\ \A x \in Int : 0 + x = x
    BY <1>1
  <2>2. top \in Int
    BY <1>2
  <2>3. QED  BY <1>1, <1>2, <2>1, <2>2, CopiedDown
<1>. HIDE DEF b1
<1>4. /\ WellFormed(b2) /\ Alike(b1, b2)
      /\ \A m \in bottom..bottom + T - 1 :
           At(b2, m) = IF m = bottom THEN At(b1, R)
                       ELSE IF m <= R THEN At(b1, m - 1) ELSE At(b1, m)
  <2>. DEFINE src == externalToInternalRow(b1, bottom)
  <2>1. /\ b1.mTotalRows = T /\ b1.mScreenRows = R /\ b1.mScreenFirstRow = F
        /\ b1.mActiveTranscriptRows = A
    BY <1>3 DEF Alike
  <2>2. bottom \in -A..T
    BY <1>1, <1>2
  <2>3. src = (F + bottom) % T /\ src \in 0..T - 1
    BY <1>3, <2>1, <2>2, SlotIs
  <2>. HIDE DEF src
  <2>4. src % T = (F + bottom) % T /\ src \in Int
    <3>1. \A j \in 0..T - 1 : j % T = j
      BY <1>1
    <3>2. QED  BY <1>1, <2>3, <3>1
  <2>5. bottom + (R - bottom) = R
    BY <1>1, <1>2
  <2>6. b2 = blockCopyLinesDown(b1, src, R - bottom)
    BY DEF src
  <2>. HIDE DEF b2
  <2>7. QED  BY <1>2, <1>3, <2>1, <2>4, <2>5, <2>6, CopiedDown
<1>. HIDE DEF b2
<1>5. ASSUME NEW m \in 1..T
      PROVE  At(b2, m) = IF m = bottom THEN At(b1, R)
                         ELSE IF m >= bottom /\ m <= R THEN At(b1, m - 1) ELSE At(b1, m)
  <2>1. CASE m >= bottom
    <3>1. m \in bottom..bottom + T - 1
      BY <1>1, <1>2, <2>1
    <3>2. QED  BY <1>4, <2>1, <3>1
  <2>2. CASE m < bottom
    <3>1. m + T \in bottom..bottom + T - 1 /\ m + T # bottom /\ ~(m + T <= R) /\ m \in Int
      BY <1>1, <1>2, <2>2
    <3>2. At(b2, m + T) = At(b1, m + T)
      BY <1>4, <3>1
    <3>3. At(b2, m + T) = At(b2, m) /\ At(b1, m + T) = At(b1, m)
      BY <1>3, <1>4, <3>1, AtAround DEF Alike
    <3>4. m # bottom /\ ~(m >= bottom)
      BY <1>2, <2>2
    <3>5. QED  BY <3>2, <3>3, <3>4
  <2>3. QED  BY <1>2, <2>1, <2>2
<1>6. /\ b2.mTotalRows = T /\ b2.mScreenRows = R /\ b2.mScreenFirstRow = F
      /\ b2.mActiveTranscriptRows = A /\ b2.mColumns = b.mColumns /\ DOMAIN b2.mLines = DOMAIN b.mLines
  BY <1>3, <1>4 DEF Alike
<1>7. first \in 0..T - 1 /\ active \in 0..T - R
  <2>1. F + 1 \in Int
    BY <1>1
  <2>2. first \in 0..T - 1
    BY <1>1, <2>1, Residue
  <2>. HIDE DEF first
  <2>3. QED  BY <1>1, <2>2
<1>8. /\ WellFormed(b3) /\ b3.mLines = b2.mLines
      /\ b3.mTotalRows = T /\ b3.mScreenRows = R /\ b3.mColumns = b.mColumns
      /\ b3.mActiveTranscriptRows = active /\ b3.mScreenFirstRow = first
  <2>. HIDE DEF first, active
  <2>1. first \in 0..b2.mTotalRows - 1 /\ active \in 0..b2.mTotalRows - b2.mScreenRows
    BY <1>6, <1>7
  <2>. HIDE DEF b3
  <2>2. PICK d : /\ d = [b2 EXCEPT !.mScreenFirstRow = first, !.mActiveTranscriptRows = active]
                 /\ WellFormed(d) /\ d.mLines = b2.mLines
                 /\ d.mTotalRows = b2.mTotalRows /\ d.mScreenRows = b2.mScreenRows
                 /\ d.mColumns = b2.mColumns
                 /\ d.mActiveTranscriptRows = active /\ d.mScreenFirstRow = first
    BY <1>4, <2>1, OtherStart
  <2>3. d = b3
    BY <2>2 DEF b3
  <2>4. QED  BY <1>6, <2>2, <2>3
<1>9. b3 = [b2 EXCEPT !.mScreenFirstRow = (@ + 1) % b.mTotalRows,
                      !.mActiveTranscriptRows = IF @ < b.mTotalRows - b.mScreenRows THEN @ + 1 ELSE @]
  BY <1>6
<1>10. c = WithRow(b3, bottom - 1, blank)
  BY <1>9 DEF scrollDownOneLine, b2, b1
<1>. HIDE DEF b3
<1>11. ASSUME NEW e \in -active..T - 1
       PROVE  Row(b3, e) = At(b2, e + 1)
  <2>1. e \in -active..T /\ e \in Int
    BY <1>1, <1>7
  <2>2. Row(b3, e) = At(b3, e)
    BY <1>8, <2>1, RowAt
  <2>3. (first + e) % T = (F + 1 + e) % T
    <3>1. F + 1 \in Int
      BY <1>1
    <3>2. QED  BY <1>1, <2>1, <3>1, ResidueAdds
  <2>4. F + 1 + e = F + (e + 1)
    BY <1>1, <2>1
  <2>5. QED  BY <1>6, <1>8, <2>2, <2>3, <2>4 DEF At
<1>. HIDE DEF first
\* The rows above the screen.
<1>12. ASSUME NEW e \in -active..-1
       PROVE  Row(b3, e) = IF e = -1 THEN Row(b, top) ELSE Row(b, e + 1)
  <2>1. e + 1 \in Int /\ e + 1 + T \in R + 1..T /\ e \in -active..T - 1
    BY <1>1, <1>7
  <2>2. At(b2, e + 1) = At(b2, e + 1 + T)
    BY <1>4, <1>6, <2>1, AtAround
  <2>3. At(b2, e + 1 + T) = At(b1, e + 1 + T)
    <3>1. e + 1 + T \in 1..T /\ e + 1 + T # bottom /\ ~(e + 1 + T <= R)
      BY <1>1, <1>2, <2>1
    <3>2. QED  BY <1>5, <3>1
  <2>4. CASE e = -1
    <3>1. At(b1, e + 1 + T) = At(b1, 0)
      <4>1. At(b1, 0 + b1.mTotalRows) = At(b1, 0)
        BY <1>3, AtAround
      <4>2. e + 1 + T = 0 + b1.mTotalRows
        BY <1>1, <1>3, <2>4 DEF Alike
      <4>3. QED  BY <4>1, <4>2
    <3>2. At(b1, 0) = At(b, top)
      BY <1>1, <1>3
    <3>3. Row(b, top) = At(b, top)
      <4>1. top \in -A..T
        BY <1>1, <1>2
      <4>2. QED  BY <1>1, <4>1, RowAt
    <3>4. QED  BY <1>11, <2>1, <2>2, <2>3, <2>4, <3>1, <3>2, <3>3
  <2>5. CASE e # -1
    <3>1. e + 1 + T \in 0..T - 1 /\ e + 1 + T # 0 /\ ~(e + 1 + T <= top)
      BY <1>1, <1>2, <2>1, <2>5
    <3>2. At(b1, e + 1 + T) = At(b, e + 1 + T)
      BY <1>3, <3>1
    <3>3. At(b, e + 1 + T) = At(b, e + 1)
      BY <1>1, <2>1, AtAround
    <3>4. Row(b, e + 1) = At(b, e + 1)
      <4>1. e + 1 \in -A..T
        BY <1>1, <1>7, <2>5
      <4>2. QED  BY <1>1, <4>1, RowAt
    <3>5. QED  BY <1>11, <2>1, <2>2, <2>3, <2>5, <3>2, <3>3, <3>4
  <2>6. QED  BY <2>4, <2>5
\* The rows on the screen.
<1>13. ASSUME NEW e \in 0..R - 1, e # bottom - 1
       PROVE  Row(b3, e) = IF e < top \/ e >= bottom THEN Row(b, e) ELSE Row(b, e + 1)
  <2>1. e + 1 \in 1..R /\ e + 1 \in 1..T /\ e + 1 # bottom /\ e \in -active..T - 1 /\ e + 1 - 1 = e
    BY <1>1, <1>2, <1>7, <1>13
  <2>2. Row(b3, e) = IF e + 1 >= bottom THEN At(b1, e) ELSE At(b1, e + 1)
    <3>1. e + 1 <= R
      BY <1>1, <2>1
    <3>2. QED  BY <1>5, <1>11, <2>1, <3>1
  <2>3. Row(b, e) = At(b, e) /\ Row(b, e + 1) = At(b, e + 1)
    <3>1. e \in -A..T /\ e + 1 \in -A..T
      BY <1>1
    <3>2. QED  BY <1>1, <3>1, RowAt
  <2>4. CASE e >= bottom
    <3>1. e \in 0..T - 1 /\ e # 0 /\ ~(e <= top) /\ e + 1 >= bottom
      BY <1>1, <1>2, <2>4
    <3>2. At(b1, e) = At(b, e)
      BY <1>3, <3>1
    <3>3. QED  BY <2>2, <2>3, <2>4, <3>1, <3>2
  <2>5. CASE e < top
    <3>1. e + 1 \in 0..T - 1 /\ e + 1 # 0 /\ e + 1 <= top /\ ~(e + 1 >= bottom)
      BY <1>1, <1>2, <2>5
    <3>2. At(b1, e + 1) = At(b, e)
      BY <1>3, <2>1, <3>1
    <3>3. QED  BY <2>2, <2>3, <2>5, <3>1, <3>2
  <2>6. CASE e >= top /\ e < bottom
    <3>1. e + 1 \in 0..T - 1 /\ e + 1 # 0 /\ ~(e + 1 <= top) /\ ~(e + 1 >= bottom)
      BY <1>1, <1>2, <2>1, <2>6, <1>13
    <3>2. At(b1, e + 1) = At(b, e + 1)
      BY <1>3, <3>1
    <3>3. ~(e < top \/ e >= bottom)
      BY <1>2, <2>6
    <3>4. QED  BY <2>2, <2>3, <3>1, <3>2, <3>3
  <2>7. QED  BY <1>2, <2>4, <2>5, <2>6
<1>14. bottom - 1 \in Window(b3) /\ bottom - 1 \in 0..R - 1
  BY <1>1, <1>2, <1>7, <1>8 DEF Window
<1>15. ASSUME NEW f \in Window(b3) \ {bottom - 1}
       PROVE  Row(b3, f) # NoRow
  <2>1. f \in -active..-1 \/ f \in 0..R - 1
    BY <1>1, <1>7, <1>8 DEF Window
  <2>2. ASSUME NEW g \in Window(b) PROVE Row(b, g) # NoRow
    BY DEF IsRing
  <2>3. CASE f \in -active..-1
    <3>1. f = -1 => top \in Window(b)
      BY <1>1, <1>2 DEF Window
    <3>2. f # -1 => f + 1 \in Window(b)
      BY <1>1, <2>3 DEF Window
    <3>3. QED  BY <1>12, <2>2, <2>3, <3>1, <3>2
  <2>4. CASE f \in 0..R - 1
    <3>1. f \in Window(b)
      BY <1>1, <2>4 DEF Window
    <3>2. ~(f < top \/ f >= bottom) => f + 1 \in Window(b)
      BY <1>1, <1>2, <2>4 DEF Window
    <3>3. QED  BY <1>13, <2>2, <2>4, <3>1, <3>2
  <2>5. QED  BY <2>1, <2>3, <2>4
<1>16. blank \in RowsOf(b3.mColumns) /\ blank.text = [n \in 1..b.mColumns |-> Blank]
  <2>1. Row(b3, bottom - 1) \in RowsOf(b3.mColumns) \cup {NoRow}
    <3>1. bottom - 1 \in -active..T
      BY <1>1, <1>2, <1>7
    <3>2. QED  BY <1>8, <3>1, SlotIs, Fields DEF Row
  <2>2. QED  BY <1>8, <2>1, ClearedIs
<1>. HIDE DEF blank
<1>17. /\ IsRing(c) /\ Alike(b3, c) /\ Row(c, bottom - 1) = blank
       /\ \A f \in Window(b3) \ {bottom - 1} : Row(c, f) = Row(b3, f)
  BY <1>8, <1>10, <1>14, <1>15, <1>16, AllocatedRow
<1>18. Window(c) = Window(b3) /\ Window(c) = -active..R - 1
  BY <1>8, <1>17 DEF Alike, Window
<1>19. ASSUME NEW e \in Window(c)
       PROVE  /\ e < -1 => Row(c, e) = Row(b, e + 1)
              /\ e = -1 => Row(c, e) = Row(b, top)
              /\ e \in 0..top - 1 \/ e >= bottom => Row(c, e) = Row(b, e)
              /\ e \in top..bottom - 2 => Row(c, e) = Row(b, e + 1)
              /\ e = bottom - 1 => Row(c, e).text = [n \in 1..b.mColumns |-> Blank]
  <2>1. e \in Int /\ e >= -active /\ e <= R - 1
    BY <1>1, <1>7, <1>18
  <2>2. CASE e < 0
    <3>1. e \in -active..-1 /\ e # bottom - 1 /\ ~(e >= bottom) /\ e \notin 0..top - 1
          /\ e \notin top..bottom - 2
      BY <1>1, <1>2, <1>7, <2>1, <2>2
    <3>2. Row(c, e) = Row(b3, e)
      BY <1>17, <1>18, <3>1
    <3>3. e < -1 => e # -1
      BY <2>1
    <3>4. QED  BY <1>12, <3>1, <3>2, <3>3
  <2>3. CASE e = bottom - 1
    <3>1. ~(e < -1) /\ e # -1 /\ e \notin 0..top - 1 /\ ~(e >= bottom) /\ e \notin top..bottom - 2
      BY <1>1, <1>2, <2>1, <2>3
    <3>2. QED  BY <1>16, <1>17, <2>3, <3>1
  <2>4. CASE e >= 0 /\ e # bottom - 1
    <3>1. e \in 0..R - 1 /\ ~(e < -1) /\ e # -1
      BY <1>1, <2>1, <2>4
    <3>2. Row(c, e) = Row(b3, e)
      BY <1>17, <1>18, <2>4
    <3>3. Row(b3, e) = IF e < top \/ e >= bottom THEN Row(b, e) ELSE Row(b, e + 1)
      BY <1>13, <2>4, <3>1
    <3>4. /\ e \in 0..top - 1 => e < top
          /\ e \in top..bottom - 2 => ~(e < top \/ e >= bottom)
      BY <1>2, <2>1
    <3>5. QED  BY <2>4, <3>1, <3>2, <3>3, <3>4
  <2>5. QED  BY <2>1, <2>2, <2>3, <2>4
<1>20. QED
  <2>1. /\ Slots(c) = Slots(b)
        /\ c.mTotalRows = b.mTotalRows /\ c.mScreenRows = b.mScreenRows /\ c.mColumns = b.mColumns
        /\ c.mActiveTranscriptRows = active /\ c.mScreenFirstRow = first
    BY <1>6, <1>8, <1>17 DEF Alike, Slots
  <2>2. QED  BY <1>7, <1>17, <1>19, <2>1

\* What a cell holds.
Cells == Chars \cup {Blank}

\* A row with another text is a row.
LEMMA OtherText ==
    ASSUME NEW C, NEW row \in RowsOf(C), NEW text \in [1..C -> Cells]
    PROVE  /\ row.text \in [1..C -> Cells] /\ row.mLineWrap \in BOOLEAN
           /\ DOMAIN row.text = 1..C
           /\ [row EXCEPT !.text = text] \in RowsOf(C)
           /\ [row EXCEPT !.text = text].text = text
BY DEF RowsOf, Cells

\* setChar changes one cell of one row.
LEMMA SetCharIs ==
    ASSUME NEW b, IsRing(b), NEW row \in Window(b), NEW column \in 0..b.mColumns - 1, NEW char \in Cells,
           NEW c, c = setChar(b, column, row, char)
    PROVE  /\ IsRing(c) /\ Alike(b, c)
           /\ Row(c, row).text = [Row(b, row).text EXCEPT ![column + 1] = char]
           /\ \A f \in Window(b) \ {row} : Row(c, f) = Row(b, f)
<1>. DEFINE old == Row(b, row)
            text == [n \in DOMAIN old.text |-> IF n = column + 1 THEN char ELSE old.text[n]]
<1>1. old \in RowsOf(b.mColumns) /\ allocated(old, b.mColumns) = old
  BY InWindow
<1>2. b.mColumns \in Nat
  BY Fields DEF IsRing
<1>3. old.text \in [1..b.mColumns -> Cells] /\ DOMAIN old.text = 1..b.mColumns
  BY <1>1 DEF RowsOf, Cells
<1>. HIDE DEF old
<1>4. text \in [1..b.mColumns -> Cells]
  BY <1>3
<1>5. text = [old.text EXCEPT ![column + 1] = char]
  BY <1>2, <1>3
<1>6. c = WithRow(b, row, [old EXCEPT !.text = text])
  BY <1>1 DEF setChar, old
<1>. HIDE DEF text
<1>7. [old EXCEPT !.text = text] \in RowsOf(b.mColumns) /\ [old EXCEPT !.text = text].text = text
  BY <1>1, <1>4, OtherText
<1>. DEFINE new == [old EXCEPT !.text = text]
<1>8. new \in RowsOf(b.mColumns) /\ new.text = [old.text EXCEPT ![column + 1] = char]
      /\ c = WithRow(b, row, new)
  BY <1>5, <1>6, <1>7
<1>. HIDE DEF new
<1>9. /\ IsRing(c) /\ Alike(b, c) /\ Row(c, row) = new
      /\ \A f \in Window(b) \ {row} : Row(c, f) = Row(b, f)
  BY <1>8, WithRowIs
<1>10. QED  BY <1>8, <1>9 DEF old

\* setLineWrap changes no text.
LEMMA SetLineWrapIs ==
    ASSUME NEW b, IsRing(b), NEW row \in Window(b), NEW wrap \in BOOLEAN,
           NEW c, c = setLineWrap(b, row, wrap)
    PROVE  /\ IsRing(c) /\ Alike(b, c)
           /\ \A f \in Window(b) : Row(c, f).text = Row(b, f).text
<1>. DEFINE new == [Row(b, row) EXCEPT !.mLineWrap = wrap]
<1>1. Row(b, row) \in RowsOf(b.mColumns)
  BY InWindow
<1>2. new \in RowsOf(b.mColumns) /\ new.text = Row(b, row).text
  BY <1>1 DEF RowsOf
<1>3. c = WithRow(b, row, new)
  BY DEF setLineWrap
<1>. HIDE DEF new
<1>4. QED  BY <1>2, <1>3, WithRowIs

\* The rows of a window may change one by one.
LEMMA RowsAre ==
    ASSUME NEW b, IsRing(b), NEW lines \in [DOMAIN b.mLines -> RowsOf(b.mColumns) \cup {NoRow}],
           \A e \in Window(b) : lines[externalToInternalRow(b, e)] # NoRow,
           NEW c, c = [b EXCEPT !.mLines = lines]
    PROVE  /\ IsRing(c) /\ Alike(b, c)
           /\ \A e \in Window(b) : Row(c, e) = lines[externalToInternalRow(b, e)]
<1>1. WellFormed(c) /\ Alike(b, c) /\ c.mLines = lines
  BY OtherLines DEF IsRing
<1>2. \A e : externalToInternalRow(c, e) = externalToInternalRow(b, e)
  BY <1>1 DEF Alike, externalToInternalRow
<1>3. \A e \in Window(b) : Row(c, e) = lines[externalToInternalRow(b, e)]
  BY <1>1, <1>2 DEF Row
<1>4. Window(c) = Window(b)
  BY <1>1 DEF Alike, Window
<1>5. QED  BY <1>1, <1>3, <1>4 DEF IsRing

\* The text of a row with w cells from the cell sx on blanked.
Blanked(row, columns, sx, w) ==
    [n \in 1..columns |-> IF n - sx \in 1..w THEN Blank ELSE row.text[n]]

\* blockSet blanks the cells of its block and no others.
LEMMA BlockSetIs ==
    ASSUME NEW b, IsRing(b), NEW sx \in Int, NEW sy \in Int, NEW w \in Int, NEW h \in Int,
           sy..sy + h - 1 \subseteq Window(b),
           NEW c, c = blockSet(b, sx, sy, w, h)
    PROVE  /\ IsRing(c) /\ Alike(b, c)
           /\ \A e \in sy..sy + h - 1 : Row(c, e).text = Blanked(Row(b, e), b.mColumns, sx, w)
           /\ \A e \in Window(b) : e \notin sy..sy + h - 1 => Row(c, e) = Row(b, e)
<1>. DEFINE C == b.mColumns
            L == b.mLines
            slot(e) == externalToInternalRow(b, e)
            rows == {slot(r) : r \in sy..sy + h - 1}
            blanked(row) == [n \in DOMAIN row.text |-> IF n - sx \in 1..w THEN Blank ELSE row.text[n]]
            lines == [i \in DOMAIN L |-> IF i \in rows
                                         THEN [allocated(L[i], C) EXCEPT !.text = blanked(allocated(L[i], C))]
                                         ELSE L[i]]
<1>1. WellFormed(b) /\ L \in [DOMAIN L -> RowsOf(C) \cup {NoRow}] /\ NoRow \notin RowsOf(C)
  BY Fields DEF IsRing
<1>2. ASSUME NEW row \in RowsOf(C)
      PROVE  /\ [row EXCEPT !.text = blanked(row)] \in RowsOf(C)
             /\ [row EXCEPT !.text = blanked(row)].text = Blanked(row, C, sx, w)
  <2>1. row.text \in [1..C -> Cells] /\ DOMAIN row.text = 1..C
    BY DEF RowsOf, Cells
  <2>2. blanked(row) = Blanked(row, C, sx, w)
    BY <2>1 DEF Blanked
  <2>3. blanked(row) \in [1..C -> Cells]
    BY <2>1 DEF Cells
  <2>. HIDE DEF blanked
  <2>4. QED  BY <2>2, <2>3, OtherText
<1>3. ASSUME NEW e \in Window(b)
      PROVE  /\ slot(e) \in DOMAIN L /\ L[slot(e)] = Row(b, e)
             /\ Row(b, e) \in RowsOf(C) /\ allocated(Row(b, e), C) = Row(b, e)
  <2>1. e \in -b.mActiveTranscriptRows..b.mTotalRows
    BY InWindow
  <2>2. QED  BY <1>1, <2>1, InWindow, SlotIs DEF Row
<1>4. \A i \in rows : \E e \in Window(b) : i = slot(e) /\ e \in sy..sy + h - 1
  OBVIOUS
<1>. HIDE DEF slot, rows
<1>5. lines \in [DOMAIN L -> RowsOf(C) \cup {NoRow}]
  <2>1. ASSUME NEW i \in DOMAIN L PROVE lines[i] \in RowsOf(C) \cup {NoRow}
    <3>1. CASE i \in rows
      <4>1. L[i] \in RowsOf(C) /\ allocated(L[i], C) = L[i]
        BY <1>3, <1>4, <3>1
      <4>2. lines[i] = [L[i] EXCEPT !.text = blanked(L[i])]
        BY <3>1, <4>1
      <4>. HIDE DEF lines, blanked
      <4>3. QED  BY <1>2, <4>1, <4>2
    <3>2. CASE i \notin rows
      BY <1>1, <3>2
    <3>3. QED  BY <3>1, <3>2
  <2>2. QED  BY <2>1
<1>6. ASSUME NEW e \in Window(b), e \in sy..sy + h - 1
      PROVE  lines[slot(e)] = [Row(b, e) EXCEPT !.text = blanked(Row(b, e))]
  <2>1. slot(e) \in rows
    BY <1>6 DEF rows
  <2>2. QED  BY <1>3, <2>1
<1>7. ASSUME NEW e \in Window(b), e \notin sy..sy + h - 1
      PROVE  lines[slot(e)] = Row(b, e)
  <2>1. slot(e) \notin rows
    <3>1. SUFFICES ASSUME NEW f \in Window(b), slot(e) = slot(f), f \in sy..sy + h - 1 PROVE FALSE
      BY <1>4
    <3>2. e = f
      BY <1>1, <3>1, SlotOne DEF slot
    <3>3. QED  BY <1>7, <3>1, <3>2
  <2>2. QED  BY <1>3, <2>1
<1>8. c = [b EXCEPT !.mLines = lines]
  BY DEF blockSet, rows, slot
<1>. HIDE DEF lines, blanked
<1>9. ASSUME NEW e \in Window(b) PROVE lines[slot(e)] # NoRow
  <2>1. Row(b, e) \in RowsOf(C) /\ NoRow \notin RowsOf(C)
    BY <1>1, <1>3
  <2>2. CASE e \in sy..sy + h - 1
    BY <1>2, <1>6, <2>1, <2>2
  <2>3. CASE e \notin sy..sy + h - 1
    BY <1>7, <2>1, <2>3
  <2>4. QED  BY <2>2, <2>3
<1>10. /\ IsRing(c) /\ Alike(b, c)
       /\ \A e \in Window(b) : Row(c, e) = lines[slot(e)]
  BY <1>5, <1>8, <1>9, RowsAre DEF slot
<1>11. ASSUME NEW e \in sy..sy + h - 1
       PROVE  Row(c, e).text = Blanked(Row(b, e), C, sx, w)
  <2>1. e \in Window(b) /\ Row(b, e) \in RowsOf(C)
    BY <1>3
  <2>2. Row(c, e) = [Row(b, e) EXCEPT !.text = blanked(Row(b, e))]
    BY <1>6, <1>10, <2>1
  <2>3. QED  BY <1>2, <2>1, <2>2
<1>12. ASSUME NEW e \in Window(b), e \notin sy..sy + h - 1
       PROVE  Row(c, e) = Row(b, e)
  BY <1>7, <1>10, <1>12
<1>13. QED  BY <1>10, <1>11, <1>12

\* clearTranscript drops the transcript's rows and none of the screen's.
LEMMA ClearTranscriptIs ==
    ASSUME NEW b, IsRing(b), NEW c, c = clearTranscript(b)
    PROVE  /\ IsRing(c) /\ Slots(c) = Slots(b)
           /\ c.mTotalRows = b.mTotalRows /\ c.mScreenRows = b.mScreenRows /\ c.mColumns = b.mColumns
           /\ c.mActiveTranscriptRows = 0 /\ c.mScreenFirstRow = b.mScreenFirstRow
           /\ \A e \in 0..b.mScreenRows - 1 : Row(c, e) = Row(b, e)
<1>. DEFINE T == b.mTotalRows
            R == b.mScreenRows
            A == b.mActiveTranscriptRows
            F == b.mScreenFirstRow
            L == b.mLines
            rows == IF F < A THEN (T + F - A..T - 1) \cup (0..F - 1) ELSE F - A..F - 1
            lines == [i \in DOMAIN L |-> IF i \in rows THEN NoRow ELSE L[i]]
<1>1. /\ WellFormed(b) /\ L \in [DOMAIN L -> RowsOf(b.mColumns) \cup {NoRow}]
      /\ T \in Nat \ {0} /\ R \in 2..T /\ F \in Nat /\ A \in 0..T - R /\ (A = 0 \/ F < T)
  BY Fields DEF IsRing, WellFormed
<1>2. ASSUME NEW i \in rows
      PROVE  \E e \in -A..-1 : i = externalToInternalRow(b, e)
  <2>1. CASE i >= F
    <3>1. i - T - F \in -A..-1 /\ F + (i - T - F) < 0 /\ T + (F + (i - T - F)) = i
      BY <1>1, <2>1
    <3>2. externalToInternalRow(b, i - T - F) = i
      BY <3>1 DEF externalToInternalRow
    <3>3. QED  BY <3>1, <3>2
  <2>2. CASE i < F
    <3>1. i - F \in -A..-1 /\ F + (i - F) = i /\ i >= 0 /\ i \in 0..T - 1
      BY <1>1, <2>2
    <3>2. i % T = i
      BY <1>1, <3>1
    <3>3. externalToInternalRow(b, i - F) = i
      BY <3>1, <3>2 DEF externalToInternalRow
    <3>4. QED  BY <3>1, <3>3
  <2>3. QED  BY <1>1, <2>1, <2>2
<1>3. lines \in [DOMAIN L -> RowsOf(b.mColumns) \cup {NoRow}]
  <2>. HIDE DEF rows
  <2>1. QED  BY <1>1
<1>4. PICK d : d = [b EXCEPT !.mLines = lines]
  OBVIOUS
<1>5. WellFormed(d) /\ Alike(b, d) /\ d.mLines = lines
  BY <1>1, <1>3, <1>4, OtherLines
<1>6. c = [d EXCEPT !.mActiveTranscriptRows = 0]
  BY <1>4, <1>5 DEF clearTranscript, Alike
<1>7. c = [mLines |-> lines, mTotalRows |-> T, mScreenRows |-> R, mColumns |-> b.mColumns,
           mActiveTranscriptRows |-> 0, mScreenFirstRow |-> F]
  <2>. HIDE DEF lines
  <2>1. PICK l, t, r, w, a, f :
          d = [mLines |-> l, mTotalRows |-> t, mScreenRows |-> r, mColumns |-> w,
               mActiveTranscriptRows |-> a, mScreenFirstRow |-> f]
    BY <1>5, Fields
  <2>2. /\ d.mLines = l /\ d.mTotalRows = t /\ d.mScreenRows = r /\ d.mColumns = w
        /\ d.mScreenFirstRow = f
        /\ c = [mLines |-> l, mTotalRows |-> t, mScreenRows |-> r, mColumns |-> w,
                mActiveTranscriptRows |-> 0, mScreenFirstRow |-> f]
    BY <1>6, <2>1
  <2>3. QED  BY <1>5, <2>2 DEF Alike
<1>8. ASSUME NEW e \in 0..R - 1
      PROVE  Row(c, e) = Row(b, e)
  <2>1. externalToInternalRow(c, e) = externalToInternalRow(b, e)
    BY <1>7 DEF externalToInternalRow
  <2>2. externalToInternalRow(b, e) \in DOMAIN L
    <3>1. e \in -A..T
      BY <1>1
    <3>2. QED  BY <1>1, <3>1, SlotIs
  <2>3. externalToInternalRow(b, e) \notin rows
    <3>1. SUFFICES ASSUME NEW f \in -A..-1, externalToInternalRow(b, e) = externalToInternalRow(b, f)
                   PROVE  FALSE
      <4>. HIDE DEF rows
      <4>1. QED  BY <1>2
    <3>2. e \in Window(b) /\ f \in Window(b) /\ e # f
      BY <1>1 DEF Window
    <3>3. QED  BY <1>1, <3>1, <3>2, SlotOne
  <2>. HIDE DEF rows
  <2>4. QED  BY <1>7, <2>1, <2>2, <2>3 DEF Row
<1>. HIDE DEF lines
<1>9. WellFormed(c)
  <2>1. c \in Buffers(T, R, b.mColumns, DOMAIN L)
    BY <1>1, <1>3, <1>7 DEF Buffers
  <2>2. DOMAIN lines = DOMAIN L
    BY <1>3
  <2>3. QED  BY <1>1, <1>7, <2>1, <2>2 DEF WellFormed
<1>10. IsRing(c)
  <2>1. Window(c) = 0..R - 1
    BY <1>1, <1>7 DEF Window
  <2>2. \A e \in 0..R - 1 : Row(b, e) # NoRow
    BY <1>1 DEF IsRing, Window
  <2>3. QED  BY <1>8, <1>9, <2>1, <2>2 DEF IsRing
<1>11. QED
  <2>1. DOMAIN lines = DOMAIN L
    BY <1>3
  <2>2. QED  BY <1>7, <1>8, <1>10, <2>1 DEF Slots

\* The text of a row with w cells of another from the cell sx on put into it at dx.
Pasted(row, from, columns, sx, w, dx) ==
    [n \in 1..columns |-> IF n - dx \in 1..w THEN from.text[n - dx + sx] ELSE row.text[n]]

\* copyInterval pastes cells of one row into another, or into itself.
LEMMA CopyIntervalIs ==
    ASSUME NEW b, IsRing(b), NEW sy \in Window(b), NEW dy \in Window(b),
           NEW sx \in Nat, NEW dx \in Nat, NEW w \in Int, sx + w <= b.mColumns,
           NEW c, c = copyInterval(b, sx, sy, w, dx, dy)
    PROVE  /\ IsRing(c) /\ Alike(b, c)
           /\ Row(c, dy).text = Pasted(Row(b, dy), Row(b, sy), b.mColumns, sx, w, dx)
           /\ \A f \in Window(b) \ {dy} : Row(c, f) = Row(b, f)
<1>. DEFINE C == b.mColumns
            source == Row(b, sy)
            b1 == WithRow(b, sy, source)
            row == Row(b1, dy)
            text == [n \in DOMAIN row.text |-> IF n - dx \in 1..w THEN source.text[n - dx + sx]
                                               ELSE row.text[n]]
            new == [row EXCEPT !.text = text]
<1>1. source \in RowsOf(C) /\ allocated(source, C) = source
  BY InWindow
<1>2. C \in Nat
  BY Fields DEF IsRing
<1>3. IsRing(b1) /\ Alike(b, b1) /\ \A f \in Window(b) : Row(b1, f) = Row(b, f)
  <2>. HIDE DEF b1
  <2>1. b1 = WithRow(b, sy, source)
    BY DEF b1
  <2>2. QED  BY <1>1, <2>1, WithRowIs
<1>4. /\ row = Row(b, dy) /\ row \in RowsOf(C) /\ allocated(row, C) = row
      /\ b1.mColumns = C /\ Window(b1) = Window(b)
  <2>1. row = Row(b, dy)
    BY <1>3
  <2>2. row \in RowsOf(C) /\ allocated(row, C) = row
    BY <2>1, InWindow
  <2>3. b1.mColumns = C /\ Window(b1) = Window(b)
    BY <1>3 DEF Alike, Window
  <2>4. QED  BY <2>1, <2>2, <2>3
<1>5. c = WithRow(b1, dy, new)
  BY <1>1, <1>4 DEF copyInterval
<1>. HIDE DEF b1, row, source
<1>6. /\ source.text \in [1..C -> Cells] /\ row.text \in [1..C -> Cells]
      /\ DOMAIN row.text = 1..C
  BY <1>1, <1>4 DEF RowsOf, Cells
<1>7. text \in [1..C -> Cells]
  <2>1. \A n \in 1..C : n - dx \in 1..w => n - dx + sx \in 1..C
    BY <1>2
  <2>2. QED  BY <1>6, <2>1
<1>8. text = Pasted(row, source, C, sx, w, dx)
  BY <1>6 DEF Pasted
<1>. HIDE DEF text
<1>9. new \in RowsOf(C) /\ new.text = text
  BY <1>4, <1>7, OtherText
<1>. HIDE DEF new
<1>10. /\ IsRing(c) /\ Alike(b1, c) /\ Row(c, dy) = new
       /\ \A f \in Window(b) \ {dy} : Row(c, f) = Row(b1, f)
  BY <1>3, <1>4, <1>5, <1>9, WithRowIs
<1>11. Alike(b, c)
  BY <1>3, <1>10 DEF Alike
<1>12. QED  BY <1>3, <1>4, <1>8, <1>9, <1>10, <1>11 DEF source

\* blockCopy, which copies row by row within the buffer, pastes what the rows held
\* before it began: no source row is overwritten before it has been read.
LEMMA BlockCopyIs ==
    ASSUME NEW b, IsRing(b), NEW sy \in Int, NEW dy \in Int, NEW sx \in Nat, NEW dx \in Nat,
           NEW w \in Int, NEW h \in Nat, sx + w <= b.mColumns,
           sy..sy + h - 1 \subseteq Window(b), dy..dy + h - 1 \subseteq Window(b),
           NEW c, c = blockCopy(b, sx, sy, w, h, dx, dy)
    PROVE  /\ IsRing(c) /\ Alike(b, c)
           /\ \A e \in dy..dy + h - 1 :
                 Row(c, e).text = Pasted(Row(b, e), Row(b, e - dy + sy), b.mColumns, sx, w, dx)
           /\ \A e \in Window(b) : e \notin dy..dy + h - 1 => Row(c, e) = Row(b, e)
<1>. DEFINE y2(y) == IF sy > dy THEN y - 1 ELSE h - y
            V == {x \in Buffers(b.mTotalRows, b.mScreenRows, b.mColumns, DOMAIN b.mLines) :
                    IsRing(x) /\ Alike(b, x)}
            step(x, y) == copyInterval(x, sx, sy + y2(y), w, dx, dy + y2(y))
            F == [p \in (1..h) \X V |-> step(p[2], p[1])]
            copied == CHOOSE f : f = [y \in 0..h |-> IF y = 0 THEN b ELSE step(f[y - 1], y)]
            text(e) == Pasted(Row(b, e), Row(b, e - dy + sy), b.mColumns, sx, w, dx)
            done(y) == IF sy > dy THEN dy..dy + y - 1 ELSE dy + h - y..dy + h - 1
<1>1. b \in V
  BY DEF IsRing, WellFormed, Alike
<1>2. ASSUME NEW y \in 1..h
      PROVE  /\ y2(y) \in 0..h - 1 /\ y2(y) \in Int
             /\ sy + y2(y) \in sy..sy + h - 1 /\ dy + y2(y) \in dy..dy + h - 1
             /\ sy + y2(y) \in Window(b) /\ dy + y2(y) \in Window(b)
             /\ sy + y2(y) = (dy + y2(y)) - dy + sy
  OBVIOUS
<1>3. ASSUME NEW y \in 1..h, dy + y2(y) \in Int
      PROVE  /\ sy + y2(y) \notin done(y - 1)
             /\ done(y) = done(y - 1) \cup {dy + y2(y)} /\ dy + y2(y) \notin done(y - 1)
  OBVIOUS
<1>4. ASSUME NEW x \in V, NEW y \in 1..h
      PROVE  LET d == step(x, y)
             IN  /\ d \in V
                 /\ Row(d, dy + y2(y)).text
                      = Pasted(Row(x, dy + y2(y)), Row(x, sy + y2(y)), b.mColumns, sx, w, dx)
                 /\ \A e \in Window(b) \ {dy + y2(y)} : Row(d, e) = Row(x, e)
  <2>1. PICK d : d = copyInterval(x, sx, sy + y2(y), w, dx, dy + y2(y))
    OBVIOUS
  <2>2. IsRing(x) /\ Alike(b, x) /\ Window(x) = Window(b) /\ x.mColumns = b.mColumns
    BY DEF Alike, Window
  <2>. DEFINE r == sy + y2(y)
              s == dy + y2(y)
  <2>3. r \in Window(x) /\ s \in Window(x)
    BY <1>2, <2>2
  <2>. HIDE DEF r, s
  <2>4. d = copyInterval(x, sx, r, w, dx, s)
    BY <2>1 DEF r, s
  <2>5. /\ IsRing(d) /\ Alike(x, d)
        /\ Row(d, s).text = Pasted(Row(x, s), Row(x, r), b.mColumns, sx, w, dx)
        /\ \A f \in Window(b) \ {s} : Row(d, f) = Row(x, f)
    <3>. HIDE DEF V
    <3>1. sx + w <= x.mColumns
      BY <2>2
    <3>2. /\ IsRing(d) /\ Alike(x, d)
          /\ Row(d, s).text = Pasted(Row(x, s), Row(x, r), x.mColumns, sx, w, dx)
          /\ \A f \in Window(x) \ {s} : Row(d, f) = Row(x, f)
      BY <2>2, <2>3, <2>4, <3>1, CopyIntervalIs
    <3>3. QED  BY <2>2, <3>2
  <2>6. Alike(b, d)
    BY <2>2, <2>5 DEF Alike
  <2>7. d \in Buffers(b.mTotalRows, b.mScreenRows, b.mColumns, DOMAIN b.mLines)
    BY <2>5, <2>6 DEF IsRing, WellFormed, Alike
  <2>8. QED  BY <2>1, <2>5, <2>6, <2>7 DEF r, s
<1>5. F \in Steps(h, V)
  <2>. HIDE DEF step, V
  <2>1. QED  BY <1>4 DEF Steps
<1>6. PICK f \in [0..h -> V] : f = [y \in 0..h |-> IF y = 0 THEN b ELSE F[<<y, f[y - 1]>>]]
  <2>. HIDE DEF F, V
  <2>1. \E f \in [0..h -> V] : Run(h, b, F, f)
    BY <1>1, <1>5, Recursion
  <2>2. QED  BY <2>1 DEF Run
<1>7. f = [y \in 0..h |-> IF y = 0 THEN b ELSE step(f[y - 1], y)]
  <2>1. \A y \in 0..h : y # 0 => y \in 1..h /\ f[y - 1] \in V
    OBVIOUS
  <2>. HIDE DEF step, V
  <2>2. \A y \in 1..h : f[y - 1] \in V => F[<<y, f[y - 1]>>] = step(f[y - 1], y)
    OBVIOUS
  <2>. HIDE DEF F
  <2>3. QED  BY <1>6, <2>1, <2>2
<1>8. copied = [y \in 0..h |-> IF y = 0 THEN b ELSE step(copied[y - 1], y)]
  <2>. HIDE DEF step
  <2>1. QED  BY <1>7
<1>. HIDE DEF copied, F
<1>9. c = copied[h]
  BY DEF blockCopy, copied
<1>. DEFINE S == {y \in 0..h : /\ copied[y] \in V
                               /\ \A e \in Window(b) :
                                    /\ e \in done(y) => Row(copied[y], e).text = text(e)
                                    /\ e \notin done(y) => Row(copied[y], e) = Row(b, e)}
<1>10. 0 \in S
  <2>1. done(0) = {}
    OBVIOUS
  <2>2. copied[0] = b
    BY <1>8
  <2>. HIDE DEF done, V
  <2>3. QED  BY <1>1, <2>1, <2>2
<1>11. ASSUME NEW y \in 1..h, y - 1 \in S
       PROVE  y \in S
  <2>. DEFINE x == copied[y - 1]
              d == copied[y]
              s == dy + y2(y)
              r == sy + y2(y)
  <2>1. d = step(x, y)
    <3>. HIDE DEF step
    <3>1. QED  BY <1>8
  <2>2. x \in V /\ \A e \in Window(b) : /\ e \in done(y - 1) => Row(x, e).text = text(e)
                                        /\ e \notin done(y - 1) => Row(x, e) = Row(b, e)
    BY <1>11
  <2>. HIDE DEF x, d, V, step
  <2>3. /\ d \in V
        /\ Row(d, s).text = Pasted(Row(x, s), Row(x, r), b.mColumns, sx, w, dx)
        /\ \A e \in Window(b) \ {s} : Row(d, e) = Row(x, e)
    BY <1>4, <2>1, <2>2
  <2>4. /\ r \notin done(y - 1) /\ s \notin done(y - 1) /\ done(y) = done(y - 1) \cup {s}
        /\ r \in Window(b) /\ s \in Window(b) /\ r = s - dy + sy
    <3>1. s \in Int
      BY <1>2
    <3>2. QED  BY <1>2, <1>3, <3>1
  <2>. HIDE DEF done, r, s
  <2>5. Row(x, r) = Row(b, r) /\ Row(x, s) = Row(b, s)
    BY <2>2, <2>4
  <2>6. Row(d, s).text = text(s)
    BY <2>3, <2>4, <2>5
  <2>. HIDE DEF text
  <2>7. ASSUME NEW e \in Window(b)
        PROVE  /\ e \in done(y) => Row(d, e).text = text(e)
               /\ e \notin done(y) => Row(d, e) = Row(b, e)
    <3>1. CASE e = s
      BY <2>4, <2>6, <3>1
    <3>2. CASE e # s
      BY <2>2, <2>3, <2>4, <3>2
    <3>3. QED  BY <3>1, <3>2
  <2>8. QED  BY <2>3, <2>7 DEF d
<1>12. 0..h \subseteq S
  <2>. HIDE DEF S
  <2>1. QED  BY <1>10, <1>11, Induction
<1>13. h \in S
  <2>. HIDE DEF S
  <2>1. QED  BY <1>12
<1>14. done(h) = dy..dy + h - 1
  OBVIOUS
<1>15. /\ c \in V
       /\ \A e \in Window(b) : /\ e \in dy..dy + h - 1 => Row(c, e).text = text(e)
                               /\ e \notin dy..dy + h - 1 => Row(c, e) = Row(b, e)
  <2>. HIDE DEF done, text, V
  <2>1. QED  BY <1>9, <1>13, <1>14
<1>16. \A e \in dy..dy + h - 1 : e \in Window(b)
  OBVIOUS
<1>17. QED  BY <1>15, <1>16

-----------------------------------------------------------------------------
(* The inductive invariant.                                                *)

\* The inductive invariant: the buffer is a ring of allocated rows for a size the
\* screen may have, the cursor is on the screen and the margins are in it.
RingInv ==
    /\ IsRing(buffer)
    /\ [columns |-> Columns, rows |-> Rows] \in Sizes
    /\ buffer.mTotalRows = IF alt THEN Rows ELSE MainRows
    /\ ~alt => buffer.mScreenFirstRow < MainRows
    /\ cursor \in [column : 0..Columns - 1, row : 0..Rows - 1]
    /\ margin.top \in 0..Rows - 2 /\ margin.bottom \in margin.top + 2..Rows
    /\ mAboutToAutoWrap \in BOOLEAN /\ alt \in BOOLEAN

\* What a size is.
LEMMA SizeIs ==
    ASSUME NEW size \in Sizes
    PROVE  /\ size.columns \in Nat \ {0, 1} /\ size.rows \in 2..MainRows
           /\ size = [columns |-> size.columns, rows |-> size.rows]
BY SizesAssumption

\* A new buffer.
LEMMA FreshIs ==
    ASSUME NEW size \in Sizes, NEW total \in size.rows..MainRows,
           NEW lines \in [0..total - 1 -> RowsOf(size.columns) \cup {NoRow}],
           \A e \in 0..size.rows - 1 : lines[e] # NoRow,
           NEW b, b = [mLines |-> lines, mTotalRows |-> total, mScreenRows |-> size.rows,
                       mColumns |-> size.columns, mActiveTranscriptRows |-> 0, mScreenFirstRow |-> 0]
    PROVE  IsRing(b) /\ \A e \in 0..size.rows - 1 : Row(b, e) = lines[e]
<1>. DEFINE C == size.columns
            R == size.rows
<1>1. C \in Nat \ {0, 1} /\ R \in 2..MainRows /\ MainRows \in Nat /\ C \in {s.columns : s \in Sizes}
  BY SizeIs, SizesAssumption
<1>2. total \in Nat \ {0} /\ R \in 2..total
  BY <1>1
<1>3. WellFormed(b)
  <2>1. b \in Buffers(total, R, C, 0..total - 1)
    BY <1>2 DEF Buffers
  <2>2. QED  BY <1>1, <1>2, <2>1 DEF WellFormed
<1>4. ASSUME NEW e \in 0..R - 1
      PROVE  Row(b, e) = lines[e]
  <2>1. externalToInternalRow(b, e) = (0 + e) % total
    BY <1>2 DEF externalToInternalRow
  <2>2. e % total = e /\ 0 + e = e
    BY <1>2
  <2>3. QED  BY <2>1, <2>2 DEF Row
<1>5. Window(b) = 0..R - 1
  BY <1>1 DEF Window
<1>6. QED  BY <1>3, <1>4, <1>5 DEF IsRing

\* A new terminal has such a ring.
LEMMA InitRing == Init => RingInv
<1>1. SUFFICES ASSUME Init PROVE RingInv
  OBVIOUS
<1>2. PICK size \in Sizes :
        LET total == IF alt THEN size.rows ELSE MainRows
        IN  buffer = [mLines |-> [i \in 0..total - 1 |->
                                    IF i < size.rows THEN TerminalRow(size.columns, FALSE) ELSE NoRow],
                      mTotalRows |-> total, mScreenRows |-> size.rows, mColumns |-> size.columns,
                      mActiveTranscriptRows |-> 0, mScreenFirstRow |-> 0]
  BY <1>1 DEF Init
<1>. DEFINE total == IF alt THEN size.rows ELSE MainRows
<1>3. /\ size.columns \in Nat \ {0, 1} /\ size.rows \in 2..MainRows /\ MainRows \in Nat
      /\ size = [columns |-> size.columns, rows |-> size.rows]
  BY SizeIs, SizesAssumption
<1>4. total \in size.rows..MainRows /\ size.rows \in size.rows..total
  BY <1>3
<1>5. IsRing(buffer)
  <2>. DEFINE lines == [i \in 0..total - 1 |-> IF i < size.rows THEN TerminalRow(size.columns, FALSE)
                                               ELSE NoRow]
  <2>1. TerminalRow(size.columns, FALSE) \in RowsOf(size.columns) /\ NoRow \notin RowsOf(size.columns)
    BY NoRowAssumption DEF TerminalRow, RowsOf
  <2>2. buffer = [mLines |-> lines, mTotalRows |-> total, mScreenRows |-> size.rows,
                  mColumns |-> size.columns, mActiveTranscriptRows |-> 0, mScreenFirstRow |-> 0]
    BY <1>2
  <2>. HIDE DEF total
  <2>3. lines \in [0..total - 1 -> RowsOf(size.columns) \cup {NoRow}]
    BY <2>1
  <2>4. \A e \in 0..size.rows - 1 : lines[e] # NoRow
    <3>1. \A e \in 0..size.rows - 1 : e \in 0..total - 1 /\ e < size.rows
      BY <1>3, <1>4
    <3>2. QED  BY <2>1, <3>1
  <2>. HIDE DEF lines
  <2>5. QED  BY <1>4, <2>2, <2>3, <2>4, FreshIs
<1>6. /\ Columns = size.columns /\ Rows = size.rows /\ buffer.mTotalRows = total
      /\ buffer.mScreenFirstRow = 0
  BY <1>2 DEF Columns, Rows
<1>7. cursor \in [column : 0..Columns - 1, row : 0..Rows - 1]
  BY <1>1, <1>3, <1>6 DEF Init, Home
<1>8. margin.top \in 0..Rows - 2 /\ margin.bottom \in margin.top + 2..Rows
  BY <1>1, <1>3, <1>6 DEF Init, Rows
<1>9. alt \in BOOLEAN /\ mAboutToAutoWrap \in BOOLEAN
  BY <1>1 DEF Init
<1>10. /\ buffer.mTotalRows = IF alt THEN Rows ELSE MainRows
       /\ ~alt => buffer.mScreenFirstRow < MainRows
       /\ [columns |-> Columns, rows |-> Rows] \in Sizes
  BY <1>3, <1>6
<1>11. QED  BY <1>5, <1>7, <1>8, <1>9, <1>10 DEF RingInv

-----------------------------------------------------------------------------
(* A resize that only changes the rows.                                    *)

\* The fields of the invariant, for the provers.
LEMMA RingFields ==
    ASSUME RingInv
    PROVE  /\ WellFormed(buffer) /\ IsRing(buffer)
           /\ Columns \in Nat \ {0, 1} /\ Rows \in 2..MainRows /\ MainRows \in Nat
           /\ Rows \in 2..buffer.mTotalRows
           /\ buffer.mTotalRows \in Nat \ {0} /\ buffer.mTotalRows = IF alt THEN Rows ELSE MainRows
           /\ buffer.mActiveTranscriptRows \in 0..buffer.mTotalRows - Rows
           /\ buffer.mScreenFirstRow \in Nat
           /\ Window(buffer) = -buffer.mActiveTranscriptRows..Rows - 1
           /\ cursor.column \in 0..Columns - 1 /\ cursor.row \in 0..Rows - 1
           /\ cursor = [column |-> cursor.column, row |-> cursor.row]
           /\ margin.top \in 0..Rows - 2 /\ margin.bottom \in margin.top + 2..Rows
<1>1. WellFormed(buffer) /\ IsRing(buffer)
  BY DEF RingInv, IsRing
<1>2. /\ Columns \in Nat \ {0, 1} /\ Rows \in 2..MainRows /\ MainRows \in Nat
  BY SizesAssumption DEF RingInv
<1>3. /\ buffer.mTotalRows \in Nat \ {0}
      /\ buffer.mActiveTranscriptRows \in 0..buffer.mTotalRows - Rows
      /\ buffer.mScreenFirstRow \in Nat /\ Rows \in 2..buffer.mTotalRows
  BY <1>1, Fields DEF Rows
<1>4. buffer.mTotalRows = IF alt THEN Rows ELSE MainRows
  BY DEF RingInv
<1>5. Window(buffer) = -buffer.mActiveTranscriptRows..Rows - 1
  BY DEF Window, Rows
<1>6. /\ cursor.column \in 0..Columns - 1 /\ cursor.row \in 0..Rows - 1
      /\ cursor = [column |-> cursor.column, row |-> cursor.row]
      /\ margin.top \in 0..Rows - 2 /\ margin.bottom \in margin.top + 2..Rows
  BY DEF RingInv
<1>7. QED  BY <1>1, <1>2, <1>3, <1>4, <1>5, <1>6

\* The rows below the cursor that a screen that shrinks may drop.
BlankRows == {i \in 1..Rows - 1 : cursor.row < i /\ isBlank(Row(buffer, i))}

\* The bounds of the shift of a resize that only changes the rows, and what it is.
LEMMA ShiftIs ==
    ASSUME RingInv, NEW n \in 2..buffer.mTotalRows
    PROVE  LET s == Shift(buffer, n)
               A == buffer.mActiveTranscriptRows
           IN  /\ Cardinality(BlankRows) \in 0..Rows - 1 - cursor.row
               /\ n < Rows => /\ s \in 0..Rows - n
                              /\ s = IF Cardinality(BlankRows) < Rows - n
                                     THEN Rows - n - Cardinality(BlankRows) ELSE 0
               /\ n > Rows => /\ s \in -A..0
                              /\ s = IF n - Rows > A THEN 0 - A ELSE Rows - n
               /\ n = Rows => s = 0
               /\ cursor.row - s <= n - 1
               /\ s \in Int
<1>. DEFINE blank == {i \in 1..buffer.mScreenRows - 1 :
                        cursor.row < i /\ (Row(buffer, i) = NoRow \/ isBlank(Row(buffer, i)))}
            s == Shift(buffer, n)
            A == buffer.mActiveTranscriptRows
<1>1. /\ Rows \in 2..MainRows /\ MainRows \in Nat /\ cursor.row \in 0..Rows - 1
      /\ A \in Nat /\ buffer.mScreenRows = Rows /\ n \in Nat
  BY RingFields DEF Rows
<1>2. \A i \in 1..Rows - 1 : Row(buffer, i) # NoRow
  <2>1. \A i \in 1..Rows - 1 : i \in Window(buffer)
    BY <1>1, RingFields
  <2>2. QED  BY <2>1, RingFields, InWindow
<1>3. blank = BlankRows
  BY <1>1, <1>2 DEF BlankRows
<1>4. BlankRows \subseteq cursor.row + 1..Rows - 1
  BY <1>1 DEF BlankRows
<1>5. Cardinality(BlankRows) \in 0..Rows - 1 - cursor.row
  <2>1. /\ IsFiniteSet(cursor.row + 1..Rows - 1)
        /\ Cardinality(cursor.row + 1..Rows - 1) = Rows - 1 - cursor.row
    <3>1. cursor.row + 1 \in Int /\ Rows - 1 \in Int
      BY <1>1
    <3>2. /\ IsFiniteSet(cursor.row + 1..Rows - 1)
          /\ Cardinality(cursor.row + 1..Rows - 1)
               = IF cursor.row + 1 > Rows - 1 THEN 0 ELSE (Rows - 1) - (cursor.row + 1) + 1
      BY <3>1, FS_Interval
    <3>3. QED  BY <1>1, <3>2
  <2>2. /\ IsFiniteSet(BlankRows)
        /\ Cardinality(BlankRows) <= Cardinality(cursor.row + 1..Rows - 1)
    BY <1>4, <2>1, FS_Subset
  <2>3. Cardinality(BlankRows) \in Nat
    BY <2>2, FS_CardinalityType
  <2>4. QED  BY <1>1, <2>1, <2>2, <2>3
<1>6. s = LET shift == Rows - n
              k == Cardinality(BlankRows)
          IN  CASE shift > 0 -> IF k < shift THEN shift - k ELSE 0
                [] shift < 0 -> IF shift < -A THEN -A ELSE shift
                [] OTHER -> 0
  <2>. HIDE DEF A
  <2>1. QED  BY <1>1, <1>3 DEF Shift, A
<1>. HIDE DEF s, blank, A
<1>7. PICK k : k = Cardinality(BlankRows) /\ k \in 0..Rows - 1 - cursor.row
  BY <1>5
<1>8. s = CASE Rows - n > 0 -> IF k < Rows - n THEN Rows - n - k ELSE 0
            [] Rows - n < 0 -> IF Rows - n < -A THEN -A ELSE Rows - n
            [] OTHER -> 0
  BY <1>6, <1>7
<1>9. CASE n < Rows
  <2>1. s = IF k < Rows - n THEN Rows - n - k ELSE 0
    BY <1>1, <1>8, <1>9
  <2>2. QED  BY <1>1, <1>7, <1>9, <2>1 DEF s, A
<1>10. CASE n > Rows
  <2>1. s = IF Rows - n < -A THEN -A ELSE Rows - n
    BY <1>1, <1>8, <1>10
  <2>2. QED  BY <1>1, <1>7, <1>10, <2>1 DEF s, A
<1>11. CASE n = Rows
  <2>1. s = 0
    BY <1>1, <1>8, <1>11
  <2>2. QED  BY <1>1, <1>7, <1>11, <2>1 DEF s, A
<1>12. QED  BY <1>1, <1>9, <1>10, <1>11

\* Every place of the ring is so far after the first row of the screen.
LEMMA SlotFor ==
    ASSUME NEW T \in Nat \ {0}, NEW first \in Int, NEW j \in 0..T - 1
    PROVE  (j - first) % T \in 0..T - 1 /\ (first + ((j - first) % T)) % T = j
<1>1. j - first \in Int
  OBVIOUS
<1>2. (j - first) % T \in 0..T - 1
  BY <1>1, Residue
<1>3. (((j - first) % T) + first) % T = (j - first + first) % T
  BY <1>1, ResidueAdds
<1>4. j - first + first = j /\ j % T = j
  OBVIOUS
<1>5. ((j - first) % T) + first = first + ((j - first) % T)
  BY <1>2
<1>6. QED  BY <1>2, <1>3, <1>4, <1>5

\* The slots that the new screen reveals, and the rows once those have been cleared.
Revealed(b, n, s) == {(b.mScreenFirstRow + b.mScreenRows + i) % b.mTotalRows : i \in 0..(n - b.mScreenRows + s) - 1}
Uncovered(b, n, s) == [i \in DOMAIN b.mLines |-> IF i \in Revealed(b, n, s) THEN cleared(b.mLines[i], b.mColumns)
                                                 ELSE b.mLines[i]]

\* The fields of the buffer after such a resize.
LEMMA FastResizeFields ==
    ASSUME RingInv, NEW n \in 2..buffer.mTotalRows, NEW total,
           NEW c, c = FastResize(buffer, n, total)
    PROVE  LET s == Shift(buffer, n)
               first == buffer.mScreenFirstRow + s
               active == buffer.mActiveTranscriptRows + s
           IN  /\ c = [mLines |-> Uncovered(buffer, n, s), mTotalRows |-> total, mScreenRows |-> n,
                       mColumns |-> Columns,
                       mActiveTranscriptRows |-> IF alt \/ active < 0 THEN 0 ELSE active,
                       mScreenFirstRow |-> IF first < 0 THEN first + buffer.mTotalRows
                                           ELSE first % buffer.mTotalRows]
               /\ Uncovered(buffer, n, s) \in [DOMAIN buffer.mLines -> RowsOf(Columns) \cup {NoRow}]
<1>. DEFINE s == Shift(buffer, n)
            T == buffer.mTotalRows
            first == buffer.mScreenFirstRow + s
            active == buffer.mActiveTranscriptRows + s
            lines == Uncovered(buffer, n, s)
            newFirst == IF first < 0 THEN first + T ELSE first % T
            newActive == IF alt \/ active < 0 THEN 0 ELSE active
<1>1. c = [buffer EXCEPT !.mLines = lines, !.mScreenFirstRow = newFirst, !.mTotalRows = total,
                         !.mActiveTranscriptRows = newActive, !.mScreenRows = n]
  BY DEF FastResize, Uncovered, Revealed
<1>2. WellFormed(buffer) /\ buffer.mLines \in [DOMAIN buffer.mLines -> RowsOf(Columns) \cup {NoRow}]
  BY RingFields, Fields DEF Columns
<1>3. ASSUME NEW i \in DOMAIN buffer.mLines
      PROVE  lines[i] \in RowsOf(Columns) \cup {NoRow}
  <2>1. buffer.mLines[i] \in RowsOf(buffer.mColumns) \cup {NoRow}
    BY <1>2 DEF Columns
  <2>2. cleared(buffer.mLines[i], buffer.mColumns) \in RowsOf(Columns)
    BY <1>2, <2>1, ClearedIs DEF Columns
  <2>3. QED  BY <2>1, <2>2 DEF Uncovered, Columns
<1>4. lines \in [DOMAIN buffer.mLines -> RowsOf(Columns) \cup {NoRow}]
  BY <1>3 DEF Uncovered
<1>. HIDE DEF lines, newFirst, newActive
<1>5. c = [mLines |-> lines, mTotalRows |-> total, mScreenRows |-> n, mColumns |-> Columns,
           mActiveTranscriptRows |-> newActive, mScreenFirstRow |-> newFirst]
  <2>1. PICK l, t, r, w, a, f :
          buffer = [mLines |-> l, mTotalRows |-> t, mScreenRows |-> r, mColumns |-> w,
                    mActiveTranscriptRows |-> a, mScreenFirstRow |-> f]
    BY <1>2, Fields
  <2>2. /\ Columns = w
        /\ c = [mLines |-> lines, mTotalRows |-> total, mScreenRows |-> n, mColumns |-> w,
                mActiveTranscriptRows |-> newActive, mScreenFirstRow |-> newFirst]
    BY <1>1, <2>1 DEF Columns
  <2>3. QED  BY <2>2
<1>6. QED  BY <1>4, <1>5 DEF lines, newFirst, newActive

\* What the rows of the main screen read when they are shifted by s rows: a
\* row is where it was, or it is new and blank.
ReadsShifted(c, n, s) ==
  /\ IsRing(c) /\ c.mTotalRows = MainRows /\ c.mScreenRows = n /\ c.mColumns = Columns
  /\ c.mActiveTranscriptRows = buffer.mActiveTranscriptRows + s
  /\ c.mScreenFirstRow \in 0..MainRows - 1
  /\ \A e \in Window(c) : /\ e + s < Rows => Row(c, e) = Row(buffer, e + s)
                          /\ e + s >= Rows => Row(c, e).text = [i \in 1..Columns |-> Blank]

\* On the main screen the rows are those of before, shifted, and blank below.
LEMMA FastResizeMain ==
    ASSUME RingInv, ~alt, NEW n \in 2..MainRows, NEW c, c = FastResize(buffer, n, MainRows)
    PROVE  ReadsShifted(c, n, Shift(buffer, n))
<1>. DEFINE T == buffer.mTotalRows
            R == Rows
            A == buffer.mActiveTranscriptRows
            F == buffer.mScreenFirstRow
<1>1. PICK s : s = Shift(buffer, n)
  OBVIOUS
<1>2. /\ T = MainRows /\ T \in Nat \ {0} /\ R \in 2..T /\ F \in 0..T - 1 /\ A \in 0..T - R
      /\ n \in 2..T /\ buffer.mScreenRows = R /\ buffer.mColumns = Columns
      /\ Columns \in Nat /\ 0..T - 1 \subseteq DOMAIN buffer.mLines
      /\ Columns \in {size.columns : size \in Sizes}
  BY RingFields DEF RingInv, Rows, Columns, WellFormed
<1>3. /\ s \in Int /\ (n < R => s \in 0..R - n)
      /\ (n > R => s = IF n - R > A THEN 0 - A ELSE R - n) /\ (n = R => s = 0)
  BY <1>1, <1>2, ShiftIs
<1>4. /\ A + s \in 0..T - n /\ F + s \in -T..T + T - 1 /\ A + n + s <= T
  BY <1>2, <1>3
<1>. DEFINE first == IF F + s < 0 THEN F + s + T ELSE (F + s) % T
            lines == Uncovered(buffer, n, s)
<1>5. /\ c = [mLines |-> lines, mTotalRows |-> T, mScreenRows |-> n, mColumns |-> Columns,
              mActiveTranscriptRows |-> A + s, mScreenFirstRow |-> first]
      /\ lines \in [DOMAIN buffer.mLines -> RowsOf(Columns) \cup {NoRow}]
  <2>1. n \in 2..buffer.mTotalRows /\ c = FastResize(buffer, n, T)
    BY <1>2
  <2>2. /\ c = [mLines |-> lines, mTotalRows |-> T, mScreenRows |-> n, mColumns |-> Columns,
                mActiveTranscriptRows |-> IF alt \/ A + s < 0 THEN 0 ELSE A + s,
                mScreenFirstRow |-> first]
        /\ lines \in [DOMAIN buffer.mLines -> RowsOf(Columns) \cup {NoRow}]
    BY <1>1, <2>1, FastResizeFields
  <2>3. ~(alt \/ A + s < 0)
    BY <1>4
  <2>4. QED  BY <2>2, <2>3
<1>6. first \in 0..T - 1 /\ first % T = (F + s) % T
  <2>1. CASE F + s < 0
    <3>1. F + s + T \in 0..T - 1 /\ F + s \in Int
      BY <1>2, <1>4, <2>1, <1>3
    <3>2. (F + s + T) % T = (F + s) % T
      BY <1>2, <3>1, ResidueShifts
    <3>3. QED  BY <2>1, <3>1, <3>2
  <2>2. CASE ~(F + s < 0)
    <3>1. F + s \in Int
      BY <1>2, <1>3
    <3>2. (F + s) % T \in 0..T - 1
      BY <1>2, <3>1, Residue
    <3>3. \A j \in 0..T - 1 : j % T = j
      BY <1>2
    <3>4. QED  BY <2>2, <3>2, <3>3
  <2>3. QED  BY <2>1, <2>2
<1>. HIDE DEF first, lines
<1>7. /\ c.mLines = lines /\ c.mTotalRows = T /\ c.mScreenRows = n /\ c.mColumns = Columns
      /\ c.mActiveTranscriptRows = A + s /\ c.mScreenFirstRow = first /\ DOMAIN lines = DOMAIN buffer.mLines
  BY <1>5
<1>8. WellFormed(c)
  <2>1. c \in Buffers(T, n, Columns, DOMAIN buffer.mLines)
    BY <1>2, <1>4, <1>5, <1>6 DEF Buffers
  <2>2. QED  BY <1>2, <1>6, <1>7, <2>1 DEF WellFormed
<1>9. Window(c) = -(A + s)..n - 1
  BY <1>7 DEF Window
<1>10. ASSUME NEW e \in Window(c)
       PROVE  /\ externalToInternalRow(c, e) = (F + (e + s)) % T
              /\ (F + (e + s)) % T \in 0..T - 1 /\ e + s \in Int
              /\ Row(c, e) = lines[(F + (e + s)) % T]
  <2>1. e \in -c.mActiveTranscriptRows..c.mTotalRows /\ e \in Int
    BY <1>2, <1>4, <1>7, <1>9
  <2>2. externalToInternalRow(c, e) = (first + e) % T /\ externalToInternalRow(c, e) \in 0..T - 1
    BY <1>7, <1>8, <2>1, SlotIs
  <2>3. ((first % T) + e) % T = (first + e) % T /\ (((F + s) % T) + e) % T = (F + s + e) % T
    <3>1. first \in Int /\ F + s \in Int
      BY <1>2, <1>3, <1>6
    <3>2. QED  BY <1>2, <2>1, <3>1, ResidueAdds
  <2>4. F + s + e = F + (e + s) /\ e + s \in Int
    BY <1>2, <1>3, <2>1
  <2>5. QED  BY <1>6, <1>7, <2>2, <2>3, <2>4 DEF Row
\* A row that comes to light is not a row of the old screen or its transcript.
<1>11. ASSUME NEW e \in Window(c)
       PROVE  (F + (e + s)) % T \in Revealed(buffer, n, s) <=> e + s >= R
  <2>1. Revealed(buffer, n, s) = {(F + R + i) % T : i \in 0..(n - R + s) - 1}
    BY <1>2 DEF Revealed
  <2>2. e + s \in -A..n - 1 + s /\ e + s \in Int
    BY <1>2, <1>3, <1>9
  <2>3. ASSUME e + s >= R
        PROVE  (F + (e + s)) % T \in Revealed(buffer, n, s)
    <3>1. e + s - R \in 0..(n - R + s) - 1 /\ F + R + (e + s - R) = F + (e + s)
      <4>1. n \in Int /\ s \in Int /\ R \in Int /\ F \in Int /\ e \in Int /\ e <= n - 1
        BY <1>2, <1>3, <1>9
      <4>. HIDE DEF R, F
      <4>2. QED  BY <2>2, <2>3, <4>1
    <3>2. QED  BY <2>1, <3>1
  <2>4. ASSUME (F + (e + s)) % T \in Revealed(buffer, n, s)
        PROVE  e + s >= R
    <3>1. PICK i \in 0..(n - R + s) - 1 : (F + (e + s)) % T = (F + R + i) % T
      BY <2>1, <2>4
    <3>2. /\ F + (e + s) \in Int /\ F + R + i \in Int
          /\ (F + (e + s)) - (F + R + i) \in -(T - 1)..T - 1
      BY <1>2, <1>3, <1>4, <2>2
    <3>3. F + (e + s) = F + R + i
      BY <1>2, <3>1, <3>2, ResidueOne
    <3>4. QED  BY <1>2, <2>2, <3>3
  <2>5. QED  BY <2>3, <2>4
<1>12. ASSUME NEW e \in Window(c)
       PROVE  /\ e + s < R => /\ e + s \in Window(buffer) /\ Row(c, e) = Row(buffer, e + s)
                              /\ Row(c, e) # NoRow
              /\ e + s >= R => Row(c, e).text = [i \in 1..Columns |-> Blank] /\ Row(c, e) # NoRow
  <2>. DEFINE slot == (F + (e + s)) % T
  <2>1. Row(c, e) = lines[slot] /\ slot \in DOMAIN buffer.mLines /\ e + s \in Int
    BY <1>2, <1>10
  <2>2. slot \in Revealed(buffer, n, s) <=> e + s >= R
    BY <1>11
  <2>. HIDE DEF slot
  <2>3. lines[slot] = IF e + s >= R THEN cleared(buffer.mLines[slot], Columns) ELSE buffer.mLines[slot]
    BY <1>2, <2>1, <2>2 DEF lines, Uncovered
  <2>4. CASE e + s >= R
    <3>1. buffer.mLines[slot] \in RowsOf(buffer.mColumns) \cup {NoRow} /\ NoRow \notin RowsOf(Columns)
      BY <1>2, <2>1, RingFields, Fields
    <3>2. /\ cleared(buffer.mLines[slot], Columns) \in RowsOf(Columns)
          /\ cleared(buffer.mLines[slot], Columns).text = [i \in 1..Columns |-> Blank]
      BY <1>2, <3>1, RingFields, ClearedIs
    <3>3. ~(e + s < R)
      BY <1>2, <2>1, <2>4
    <3>4. QED  BY <2>1, <2>3, <2>4, <3>1, <3>2, <3>3
  <2>5. CASE e + s < R
    <3>1. e + s \in Window(buffer) /\ e + s \in -A..T /\ ~(e + s >= R)
      <4>1. e \in -(A + s)..n - 1 /\ A \in Int /\ s \in Int /\ n \in Int /\ R \in Int /\ T \in Int /\ R <= T
        BY <1>2, <1>3, <1>9
      <4>2. Window(buffer) = -A..R - 1
        BY RingFields
      <4>. HIDE DEF R, A, T
      <4>3. QED  BY <2>5, <4>1, <4>2
    <3>2. externalToInternalRow(buffer, e + s) = slot
      BY <3>1, RingFields, SlotIs DEF slot
    <3>3. Row(c, e) = Row(buffer, e + s)
      BY <2>1, <2>3, <3>1, <3>2 DEF Row
    <3>4. Row(buffer, e + s) # NoRow
      BY <3>1, RingFields, InWindow
    <3>5. QED  BY <3>1, <3>3, <3>4
  <2>6. QED  BY <1>2, <2>1, <2>4, <2>5
<1>13. IsRing(c)
  <2>1. \A e \in Window(c) : e + s < R \/ e + s >= R
    BY <1>2, <1>10
  <2>2. QED  BY <1>8, <1>12, <2>1 DEF IsRing
<1>14. QED  BY <1>1, <1>2, <1>6, <1>7, <1>12, <1>13 DEF ReadsShifted

\* The rows of an alternate screen that shrinks: rows it had, in some order.
RowsAmong(c, n) ==
  /\ IsRing(c) /\ c.mTotalRows = n /\ c.mScreenRows = n /\ c.mColumns = Columns
  /\ c.mActiveTranscriptRows = 0
  /\ \E from \in [1..n -> 1..Rows] : /\ \A i, j \in 1..n : from[i] = from[j] => i = j
                                    /\ \A i \in 1..n : Row(c, i - 1) = Row(buffer, from[i] - 1)

\* On the alternate screen every row is one of those of before, each of them once.
LEMMA FastResizeAlternate ==
    ASSUME RingInv, alt, NEW n \in 2..Rows, NEW c, c = FastResize(buffer, n, n)
    PROVE  RowsAmong(c, n) /\ Shift(buffer, n) \in 0..Rows - n
<1>. DEFINE R == Rows
            F == buffer.mScreenFirstRow
            L == buffer.mLines
<1>1. PICK s : s = Shift(buffer, n)
  OBVIOUS
<1>2. /\ buffer.mTotalRows = R /\ R \in Nat \ {0} /\ R \in 2..MainRows /\ F \in Nat
      /\ buffer.mActiveTranscriptRows = 0
      /\ n \in Nat \ {0} /\ n <= R /\ buffer.mScreenRows = R /\ buffer.mColumns = Columns
      /\ Columns \in Nat /\ 0..R - 1 \subseteq DOMAIN L
      /\ Columns \in {size.columns : size \in Sizes}
  BY RingFields DEF RingInv, Rows, Columns, WellFormed
<1>3. s \in 0..R - n /\ n \in 2..buffer.mTotalRows
  <2>1. n \in 2..buffer.mTotalRows
    BY <1>2
  <2>2. (n < R => s \in 0..R - n) /\ (n = R => s = 0)
    BY <1>1, <2>1, ShiftIs
  <2>3. QED  BY <1>2, <2>1, <2>2
<1>. DEFINE first == (F + s) % R
            lines == Uncovered(buffer, n, s)
<1>4. lines = L
  <2>1. Revealed(buffer, n, s) = {}
    BY <1>2, <1>3 DEF Revealed
  <2>2. L \in [DOMAIN L -> RowsOf(buffer.mColumns) \cup {NoRow}]
    BY RingFields, Fields
  <2>3. QED  BY <2>1, <2>2 DEF Uncovered
<1>5. /\ c = [mLines |-> L, mTotalRows |-> n, mScreenRows |-> n, mColumns |-> Columns,
              mActiveTranscriptRows |-> 0, mScreenFirstRow |-> first]
      /\ L \in [DOMAIN L -> RowsOf(Columns) \cup {NoRow}]
  <2>1. /\ c = [mLines |-> lines, mTotalRows |-> n, mScreenRows |-> n, mColumns |-> Columns,
                mActiveTranscriptRows |-> IF alt \/ buffer.mActiveTranscriptRows + s < 0 THEN 0
                                          ELSE buffer.mActiveTranscriptRows + s,
                mScreenFirstRow |-> IF F + s < 0 THEN F + s + buffer.mTotalRows
                                    ELSE (F + s) % buffer.mTotalRows]
        /\ lines \in [DOMAIN L -> RowsOf(Columns) \cup {NoRow}]
    BY <1>1, <1>3, FastResizeFields
  <2>2. ~(F + s < 0)
    BY <1>2, <1>3
  <2>3. QED  BY <1>2, <1>4, <2>1, <2>2
<1>6. first \in 0..R - 1
  <2>1. F + s \in Int
    BY <1>2, <1>3
  <2>2. QED  BY <1>2, <2>1, Residue
<1>. HIDE DEF first, lines
<1>7. /\ c.mLines = L /\ c.mTotalRows = n /\ c.mScreenRows = n /\ c.mColumns = Columns
      /\ c.mActiveTranscriptRows = 0 /\ c.mScreenFirstRow = first
  BY <1>5
<1>8. WellFormed(c)
  <2>1. first \in Nat /\ 0 \in 0..n - n
    BY <1>2, <1>6
  <2>2. c \in Buffers(n, n, Columns, DOMAIN L)
    BY <1>5, <2>1 DEF Buffers
  <2>3. 0..n - 1 \subseteq DOMAIN L /\ n \in Nat /\ n \in 2..n
    BY <1>2
  <2>4. QED  BY <1>2, <1>7, <2>2, <2>3 DEF WellFormed
<1>9. Window(c) = 0..n - 1
  BY <1>2, <1>7 DEF Window
<1>. DEFINE slot(i) == (first + (i - 1)) % n
            from == [i \in 1..n |-> ((slot(i) - F) % R) + 1]
<1>10. ASSUME NEW i \in 1..n
       PROVE  /\ slot(i) \in 0..n - 1 /\ slot(i) \in 0..R - 1 /\ Row(c, i - 1) = L[slot(i)]
              /\ from[i] \in 1..R /\ (F + (from[i] - 1)) % R = slot(i)
              /\ Row(buffer, from[i] - 1) = L[slot(i)]
              /\ Row(buffer, from[i] - 1) # NoRow
  <2>1. i - 1 \in -c.mActiveTranscriptRows..c.mTotalRows
    BY <1>2, <1>7
  <2>2. externalToInternalRow(c, i - 1) = slot(i) /\ slot(i) \in 0..n - 1
    BY <1>7, <1>8, <2>1, SlotIs
  <2>3. slot(i) \in 0..R - 1
    BY <1>2, <2>2
  <2>4. Row(c, i - 1) = L[slot(i)]
    BY <1>7, <2>2 DEF Row
  <2>. HIDE DEF slot
  <2>5. /\ (slot(i) - F) % R \in 0..R - 1 /\ (F + ((slot(i) - F) % R)) % R = slot(i)
    <3>1. PICK j \in 0..R - 1 : j = slot(i)
      BY <2>3
    <3>2. R \in Nat \ {0} /\ F \in Int
      BY <1>2
    <3>. HIDE DEF R, F
    <3>3. (j - F) % R \in 0..R - 1 /\ (F + ((j - F) % R)) % R = j
      BY <3>2, SlotFor
    <3>4. QED  BY <3>1, <3>3
  <2>6. from[i] - 1 = (slot(i) - F) % R /\ from[i] \in 1..R
    <3>1. PICK r \in 0..R - 1 : r = (slot(i) - F) % R
      BY <2>5
    <3>2. from[i] = r + 1
      BY <3>1
    <3>3. QED  BY <1>2, <3>1, <3>2
  <2>. HIDE DEF from
  <2>7. from[i] - 1 \in -buffer.mActiveTranscriptRows..buffer.mTotalRows /\ from[i] - 1 \in Window(buffer)
    BY <1>2, <2>6, RingFields
  <2>8. externalToInternalRow(buffer, from[i] - 1) = (F + (from[i] - 1)) % R
    BY <1>2, <2>7, RingFields, SlotIs
  <2>9. Row(buffer, from[i] - 1) # NoRow
    BY <2>7, RingFields, InWindow
  <2>10. QED  BY <2>2, <2>3, <2>4, <2>5, <2>6, <2>8, <2>9 DEF Row
<1>11. from \in [1..n -> 1..R]
  <2>1. DOMAIN from = 1..n /\ from = [i \in 1..n |-> from[i]]
    OBVIOUS
  <2>. HIDE DEF from
  <2>2. QED  BY <1>10, <2>1
<1>12. ASSUME NEW i \in 1..n, NEW j \in 1..n, from[i] = from[j]
       PROVE  i = j
  <2>. HIDE DEF from
  <2>1. slot(i) = slot(j)
    BY <1>10, <1>12
  <2>2. (first + (i - 1)) \in Int /\ (first + (j - 1)) \in Int
        /\ (first + (i - 1)) - (first + (j - 1)) \in -(n - 1)..n - 1
    BY <1>2, <1>6
  <2>3. first + (i - 1) = first + (j - 1)
    BY <1>2, <2>1, <2>2, ResidueOne
  <2>4. QED  BY <1>2, <1>6, <2>3
<1>13. IsRing(c)
  <2>1. \A e \in 0..n - 1 : e + 1 \in 1..n /\ e + 1 - 1 = e
    BY <1>2
  <2>. HIDE DEF from, slot
  <2>2. \A i \in 1..n : Row(c, i - 1) # NoRow
    BY <1>10
  <2>3. QED  BY <1>8, <1>9, <2>1, <2>2 DEF IsRing
<1>14. QED
  <2>. HIDE DEF from, slot
  <2>1. \A i \in 1..n : Row(c, i - 1) = Row(buffer, from[i] - 1)
    BY <1>10
  <2>2. QED  BY <1>1, <1>3, <1>7, <1>11, <1>12, <1>13, <2>1 DEF RowsAmong

-----------------------------------------------------------------------------
(* A resize that reflows.                                                  *)

\* The rings with the slots that a new buffer has.
Rings(total, rows, columns) ==
    {b \in Buffers(total, rows, columns, 0..total - 1) : IsRing(b) /\ b.mScreenFirstRow < total}

\* What the reflow may have put out.
Outs(total, rows, columns) ==
    [b : Rings(total, rows, columns), row : 0..rows - 1, column : 0..columns, skipped : Nat,
     cursor : [column : -1..columns - 1, row : {r \in Int : r < rows}], placed : BOOLEAN]

\* Their fields.
LEMMA RingIs ==
    ASSUME NEW T, NEW R, NEW C, NEW b \in Rings(T, R, C)
    PROVE  /\ IsRing(b) /\ b.mTotalRows = T /\ b.mScreenRows = R /\ b.mColumns = C
           /\ Slots(b) = 0..T - 1
           /\ T \in Nat \ {0} /\ R \in 2..T /\ C \in Nat \ {0, 1}
           /\ 0..R - 1 \subseteq Window(b) /\ b.mScreenFirstRow \in Nat /\ b.mScreenFirstRow < T
<1>1. /\ IsRing(b) /\ b.mTotalRows = T /\ b.mScreenRows = R /\ b.mColumns = C /\ Slots(b) = 0..T - 1
      /\ b.mScreenFirstRow \in Nat /\ b.mScreenFirstRow < T
  BY DEF Rings, Buffers, Slots
<1>2. T \in Nat \ {0} /\ R \in 2..T /\ C \in Nat \ {0, 1} /\ b.mActiveTranscriptRows \in Nat
  BY <1>1, Fields DEF IsRing
<1>3. QED  BY <1>1, <1>2 DEF Window

\* A ring with these slots is one of them.
LEMMA IsInRings ==
    ASSUME NEW b, IsRing(b), Slots(b) = 0..b.mTotalRows - 1, b.mScreenFirstRow < b.mTotalRows
    PROVE  b \in Rings(b.mTotalRows, b.mScreenRows, b.mColumns)
BY DEF Rings, IsRing, WellFormed, Slots

\* The fields of an output, one by one.
LEMMA OutIs ==
    ASSUME NEW T, NEW R, NEW C, NEW out \in Outs(T, R, C)
    PROVE  /\ out.b \in Rings(T, R, C) /\ out.row \in 0..R - 1 /\ out.column \in 0..C
           /\ out.skipped \in Nat /\ out.placed \in BOOLEAN
           /\ out.cursor \in [column : -1..C - 1, row : {r \in Int : r < R}]
           /\ out.cursor.row \in Int /\ out.cursor.row < R
BY DEF Outs

\* The fields of the output of a reflow.
LEMMA OutShape ==
    ASSUME NEW T, NEW R, NEW C, NEW out \in Outs(T, R, C)
    PROVE  \E q, r, c, s, u, p :
              out = [b |-> q, row |-> r, column |-> c, skipped |-> s, cursor |-> u, placed |-> p]
BY DEF Outs

\* A reflow's scrolling keeps the buffer a ring of its size.
LEMMA ScrollKeeps ==
    ASSUME NEW b, IsRing(b), NEW bottom \in 1..b.mScreenRows, NEW c, c = scrollDownOneLine(b, 0, bottom)
    PROVE  /\ IsRing(c) /\ Slots(c) = Slots(b) /\ c.mScreenFirstRow < b.mTotalRows
           /\ c.mTotalRows = b.mTotalRows /\ c.mScreenRows = b.mScreenRows /\ c.mColumns = b.mColumns
<1>1. b.mScreenRows \in Nat /\ b.mScreenRows >= 2 /\ b.mTotalRows \in Nat
  BY Fields DEF IsRing
<1>2. ASSUME NEW top \in 0..b.mScreenRows - 1, NEW to \in top + 1..b.mScreenRows,
             NEW d, d = scrollDownOneLine(b, top, to)
      PROVE  /\ IsRing(d) /\ Slots(d) = Slots(b)
             /\ d.mTotalRows = b.mTotalRows /\ d.mScreenRows = b.mScreenRows /\ d.mColumns = b.mColumns
             /\ d.mScreenFirstRow \in 0..b.mTotalRows - 1
  BY <1>2, ScrollIs
<1>3. 0 \in 0..b.mScreenRows - 1 /\ bottom \in 0 + 1..b.mScreenRows
  BY <1>1
<1>4. c.mScreenFirstRow \in 0..b.mTotalRows - 1
  BY <1>2, <1>3
<1>5. QED  BY <1>1, <1>2, <1>3, <1>4

\* The output stays on the new screen when it goes to its next row,
LEMMA NextRowIs ==
    ASSUME NEW T, NEW R, NEW C, NEW out \in Outs(T, R, C), NEW follows \in BOOLEAN,
           NEW next, next = NextRow(out, follows)
    PROVE  next \in Outs(T, R, C) /\ next.column = 0
<1>1. /\ out.b \in Rings(T, R, C) /\ out.row \in 0..R - 1 /\ out.column \in 0..C
      /\ out.skipped \in Nat /\ out.placed \in BOOLEAN
      /\ out.cursor \in [column : -1..C - 1, row : {r \in Int : r < R}]
      /\ out.b.mScreenRows = R /\ R \in Nat /\ R >= 2 /\ C \in Nat
      /\ out.b.mTotalRows = T /\ out.b.mColumns = C /\ IsRing(out.b) /\ Slots(out.b) = 0..T - 1
  BY OutIs, RingIs
<1>2. CASE out.row < R - 1
  <2>1. next = [out EXCEPT !.row = out.row + 1, !.column = 0]
    BY <1>1, <1>2 DEF NextRow
  <2>2. next = [b |-> out.b, row |-> out.row + 1, column |-> 0, skipped |-> out.skipped,
                cursor |-> out.cursor, placed |-> out.placed]
    <3>1. PICK q, r, c, s, u, p :
            out = [b |-> q, row |-> r, column |-> c, skipped |-> s, cursor |-> u, placed |-> p]
      BY OutShape
    <3>2. QED  BY <2>1, <3>1
  <2>3. out.row + 1 \in 0..R - 1 /\ 0 \in 0..C
    BY <1>1, <1>2
  <2>4. QED  BY <1>1, <2>2, <2>3 DEF Outs
<1>3. CASE ~(out.row < R - 1)
  <2>1. PICK c : c = scrollDownOneLine(out.b, 0, out.b.mScreenRows)
    OBVIOUS
  <2>2. PICK row : row = IF follows /\ out.placed THEN out.cursor.row - 1 ELSE out.cursor.row
    OBVIOUS
  <2>3. next = [out EXCEPT !.b = c, !.column = 0, !.cursor.row = row]
    BY <1>1, <1>3, <2>1, <2>2 DEF NextRow
  <2>4. next = [b |-> c, row |-> out.row, column |-> 0, skipped |-> out.skipped,
                cursor |-> [column |-> out.cursor.column, row |-> row], placed |-> out.placed]
    <3>1. PICK q, r, k, s, u, p :
            out = [b |-> q, row |-> r, column |-> k, skipped |-> s, cursor |-> u, placed |-> p]
      BY OutShape
    <3>2. PICK i, j : u = [column |-> i, row |-> j]
      BY <1>1, <3>1
    <3>3. QED  BY <2>3, <3>1, <3>2
  <2>5. c \in Rings(T, R, C)
    <3>1. PICK d : d = out.b
      OBVIOUS
    <3>2. d.mScreenRows \in 1..d.mScreenRows
      BY <1>1, <3>1
    <3>3. /\ IsRing(c) /\ Slots(c) = Slots(d) /\ c.mScreenFirstRow < d.mTotalRows
          /\ c.mTotalRows = d.mTotalRows /\ c.mScreenRows = d.mScreenRows /\ c.mColumns = d.mColumns
      <4>1. IsRing(d) /\ c = scrollDownOneLine(d, 0, d.mScreenRows)
        BY <1>1, <2>1, <3>1
      <4>2. QED  BY <3>2, <4>1, ScrollKeeps
    <3>4. Slots(c) = 0..c.mTotalRows - 1 /\ c.mScreenFirstRow < c.mTotalRows /\ c.mTotalRows = T /\ c.mScreenRows = R /\ c.mColumns = C
      BY <1>1, <3>1, <3>3
    <3>5. QED  BY <3>3, <3>4, IsInRings
  <2>6. [column |-> out.cursor.column, row |-> row] \in [column : -1..C - 1, row : {r \in Int : r < R}]
    <3>1. out.cursor.column \in -1..C - 1 /\ out.cursor.row \in Int /\ out.cursor.row < R
      BY <1>1
    <3>2. row \in Int /\ row < R
      BY <1>1, <2>2, <3>1
    <3>3. QED  BY <3>1, <3>2
  <2>7. QED  BY <1>1, <2>4, <2>5, <2>6 DEF Outs
<1>4. QED  BY <1>2, <1>3

\* when it puts out the blank rows it owes,
LEMMA SkippedRowsIs ==
    ASSUME NEW T, NEW R, NEW C, NEW out \in Outs(T, R, C)
    PROVE  SkippedRows(out) \in Outs(T, R, C)
<1>. DEFINE V == Outs(T, R, C)
            k == out.skipped
            F == [p \in (1..k) \X V |-> NextRow(p[2], FALSE)]
            put == CHOOSE f : f = [n \in 0..k |-> IF n = 0 THEN out ELSE NextRow(f[n - 1], FALSE)]
<1>1. k \in Nat
  BY OutIs
<1>2. F \in Steps(k, V)
  <2>1. \A x \in V : NextRow(x, FALSE) \in V
    BY NextRowIs
  <2>. HIDE DEF V
  <2>2. QED  BY <2>1 DEF Steps
<1>3. PICK f \in [0..k -> V] : f = [n \in 0..k |-> IF n = 0 THEN out ELSE NextRow(f[n - 1], FALSE)]
  <2>. HIDE DEF V, k
  <2>1. PICK f \in [0..k -> V] : Run(k, out, F, f)
    <3>. HIDE DEF F
    <3>1. out \in V
      BY DEF V
    <3>2. QED  BY <1>1, <1>2, <3>1, Recursion
  <2>2. f = [n \in 0..k |-> IF n = 0 THEN out ELSE F[<<n, f[n - 1]>>]]
    BY <2>1 DEF Run
  <2>3. \A n \in 0..k : n # 0 => n \in 1..k /\ f[n - 1] \in V
    BY <1>1
  <2>4. \A n \in 1..k : f[n - 1] \in V => F[<<n, f[n - 1]>>] = NextRow(f[n - 1], FALSE)
    OBVIOUS
  <2>. HIDE DEF F
  <2>5. f = [n \in 0..k |-> IF n = 0 THEN out ELSE NextRow(f[n - 1], FALSE)]
    BY <2>2, <2>3, <2>4
  <2>6. QED  BY <2>5
<1>4. put = [n \in 0..k |-> IF n = 0 THEN out ELSE NextRow(put[n - 1], FALSE)]
  BY <1>3
<1>5. ASSUME NEW g, g = [n \in 0..k |-> IF n = 0 THEN out ELSE NextRow(g[n - 1], FALSE)]
      PROVE  g[k] \in V
  <2>1. \A n \in 1..k : g[n] = NextRow(g[n - 1], FALSE)
    <3>. HIDE DEF k
    <3>1. SUFFICES ASSUME NEW n \in 1..k PROVE g[n] = NextRow(g[n - 1], FALSE)
      OBVIOUS
    <3>2. n \in 0..k /\ n # 0
      BY <1>1
    <3>3. QED  BY <1>5, <3>2
  <2>. DEFINE S == {n \in 0..k : g[n] \in V}
  <2>2. 0 \in S
    BY <1>1, <1>5
  <2>3. ASSUME NEW n \in 1..k, n - 1 \in S
        PROVE  n \in S
    <3>. HIDE DEF V
    <3>1. g[n] = NextRow(g[n - 1], FALSE) /\ g[n - 1] \in V
      BY <2>1, <2>3
    <3>2. g[n] \in V
      BY <3>1, NextRowIs DEF V
    <3>3. QED  BY <3>2
  <2>. HIDE DEF S
  <2>4. 0..k \subseteq S
    BY <1>1, <2>2, <2>3, Induction
  <2>5. QED  BY <1>1, <2>4 DEF S
<1>6. PICK done : done = put[k] /\ done \in V
  <2>. HIDE DEF put, V
  <2>1. QED  BY <1>4, <1>5
<1>7. SkippedRows(out) = [done EXCEPT !.skipped = 0]
  BY <1>6 DEF SkippedRows
<1>. HIDE DEF put
<1>8. PICK q, r, c, s, u, p :
        done = [b |-> q, row |-> r, column |-> c, skipped |-> s, cursor |-> u, placed |-> p]
  <2>1. done \in Outs(T, R, C)
    BY <1>6
  <2>. HIDE DEF V
  <2>2. QED  BY <2>1, OutShape, Zenon
<1>9. SkippedRows(out) = [b |-> q, row |-> r, column |-> c, skipped |-> 0, cursor |-> u, placed |-> p]
  BY <1>7, <1>8
<1>10. /\ q \in Rings(T, R, C) /\ r \in 0..R - 1 /\ c \in 0..C
       /\ u \in [column : -1..C - 1, row : {i \in Int : i < R}] /\ p \in BOOLEAN
  BY <1>6, <1>8 DEF Outs
<1>11. QED  BY <1>9, <1>10 DEF Outs

\* when it puts out a character,
LEMMA PutCharIs ==
    ASSUME NEW T, NEW R, NEW C, NEW out \in Outs(T, R, C), NEW char \in Cells, NEW atCursor \in BOOLEAN
    PROVE  PutChar(out, char, atCursor) \in Outs(T, R, C)
<1>. DEFINE wrapped == [out EXCEPT !.b = setLineWrap(@, out.row, TRUE)]
            next == IF out.column + 1 > out.b.mColumns THEN NextRow(wrapped, TRUE) ELSE out
            put == [next EXCEPT !.b = setChar(@, next.column, next.row, char), !.column = @ + 1]
<1>1. out.b \in Rings(T, R, C) /\ out.row \in 0..R - 1 /\ out.column \in 0..C
  BY OutIs
<1>2. /\ IsRing(out.b) /\ out.b.mTotalRows = T /\ out.b.mScreenRows = R /\ out.b.mColumns = C
      /\ Slots(out.b) = 0..T - 1 /\ out.b.mScreenFirstRow < T /\ C \in Nat \ {0, 1} /\ R \in Nat /\ out.row \in Window(out.b)
  BY <1>1, RingIs
<1>3. wrapped \in Outs(T, R, C)
  <2>1. PICK c : c = setLineWrap(out.b, out.row, TRUE)
    OBVIOUS
  <2>2. IsRing(c) /\ Alike(out.b, c)
    BY <1>2, <2>1, SetLineWrapIs
  <2>3. c \in Rings(T, R, C)
    BY <1>2, <2>2, IsInRings DEF Alike, Slots
  <2>4. PICK q, r, k, s, u, p :
          out = [b |-> q, row |-> r, column |-> k, skipped |-> s, cursor |-> u, placed |-> p]
    BY OutShape
  <2>5. wrapped = [b |-> c, row |-> r, column |-> k, skipped |-> s, cursor |-> u, placed |-> p]
    <3>1. wrapped = [out EXCEPT !.b = c]
      BY <2>1
    <3>. HIDE DEF wrapped
    <3>2. QED  BY <2>4, <3>1
  <2>6. /\ r \in 0..R - 1 /\ k \in 0..C /\ s \in Nat /\ p \in BOOLEAN
        /\ u \in [column : -1..C - 1, row : {i \in Int : i < R}]
    BY <2>4 DEF Outs
  <2>7. QED  BY <2>3, <2>5, <2>6 DEF Outs
<1>. HIDE DEF wrapped
<1>4. next \in Outs(T, R, C) /\ next.column \in 0..C - 1
  <2>1. CASE out.column + 1 > C
    <3>1. next = NextRow(wrapped, TRUE)
      BY <1>2, <2>1
    <3>2. next \in Outs(T, R, C) /\ next.column = 0
      BY <1>3, <3>1, NextRowIs
    <3>. HIDE DEF next
    <3>3. QED  BY <1>2, <3>2
  <2>2. CASE ~(out.column + 1 > C)
    <3>1. next = out
      BY <1>2, <2>2
    <3>2. out.column \in 0..C - 1
      BY <1>1, <1>2, <2>2
    <3>. HIDE DEF next
    <3>3. QED  BY <3>1, <3>2
  <2>3. QED  BY <2>1, <2>2
<1>5. PutChar(out, char, atCursor) =
        IF atCursor THEN [put EXCEPT !.cursor = [column |-> next.column, row |-> next.row], !.placed = TRUE]
        ELSE put
  BY DEF PutChar, wrapped
<1>. HIDE DEF next
<1>6. PICK q, r, k, s, u, p :
        next = [b |-> q, row |-> r, column |-> k, skipped |-> s, cursor |-> u, placed |-> p]
  BY <1>4, OutShape
<1>7. /\ q \in Rings(T, R, C) /\ r \in 0..R - 1 /\ k \in 0..C - 1 /\ s \in Nat /\ p \in BOOLEAN
      /\ u \in [column : -1..C - 1, row : {i \in Int : i < R}]
  BY <1>4, <1>6 DEF Outs
<1>8. PICK c : c = setChar(q, k, r, char)
  OBVIOUS
<1>9. put = [b |-> c, row |-> r, column |-> k + 1, skipped |-> s, cursor |-> u, placed |-> p]
  <2>1. next.b = q /\ next.row = r /\ next.column = k
    BY <1>6
  <2>2. put = [next EXCEPT !.b = c, !.column = k + 1]
    BY <1>8, <2>1
  <2>. HIDE DEF put
  <2>3. QED  BY <1>6, <2>2
<1>10. c \in Rings(T, R, C)
  <2>1. /\ IsRing(q) /\ q.mTotalRows = T /\ q.mScreenRows = R /\ q.mColumns = C
        /\ Slots(q) = 0..T - 1 /\ q.mScreenFirstRow < T /\ r \in Window(q)
    BY <1>7, RingIs
  <2>2. IsRing(c) /\ Alike(q, c)
    BY <1>7, <1>8, <2>1, SetCharIs
  <2>3. QED  BY <2>1, <2>2, IsInRings DEF Alike, Slots
<1>11. k + 1 \in 0..C /\ k \in -1..C - 1 /\ r \in Int /\ r < R
  BY <1>2, <1>7
<1>12. CASE atCursor
  <2>1. PutChar(out, char, atCursor)
          = [b |-> c, row |-> r, column |-> k + 1, skipped |-> s,
             cursor |-> [column |-> k, row |-> r], placed |-> TRUE]
    BY <1>5, <1>6, <1>9, <1>12
  <2>2. QED  BY <1>7, <1>10, <1>11, <2>1 DEF Outs
<1>13. CASE ~atCursor
  <2>1. PutChar(out, char, atCursor)
          = [b |-> c, row |-> r, column |-> k + 1, skipped |-> s, cursor |-> u, placed |-> p]
    BY <1>5, <1>9, <1>13
  <2>2. QED  BY <1>7, <1>10, <1>11, <2>1 DEF Outs
<1>14. QED  BY <1>12, <1>13

\* The last of some places.
LEMMA Greatest ==
    ASSUME NEW n \in Nat, NEW S \in SUBSET (1..n), S # {}
    PROVE  \E x \in S : \A y \in S : y <= x
<1>. DEFINE M == {n - x : x \in S}
<1>1. M \in SUBSET Nat /\ M # {}
  OBVIOUS
<1>2. PICK m \in M : \A y \in M : m <= y
  <2>. HIDE DEF M
  <2>1. QED  BY <1>1, Least
<1>3. PICK x \in S : m = n - x
  OBVIOUS
<1>4. ASSUME NEW y \in S PROVE y <= x
  <2>1. n - y \in M
    OBVIOUS
  <2>2. n - x <= n - y
    BY <1>2, <1>3, <2>1
  <2>3. QED  BY <2>2
<1>5. QED  BY <1>4

\* The number of characters that are copied of a row is one that the row has.
LEMMA CopiedIs ==
    ASSUME NEW C \in Nat, cursor.column \in 0..C - 1, NEW row \in RowsOf(C), NEW here \in BOOLEAN,
           here \/ ~isBlank(row)
    PROVE  Copied(row, here) \in 0..C
<1>. DEFINE ink == {c \in DOMAIN row.text : row.text[c] # Blank}
<1>1. DOMAIN row.text = 1..C /\ row.mLineWrap \in BOOLEAN
  BY OtherText DEF RowsOf
<1>2. CASE here
  <2>1. Copied(row, here) = cursor.column + 1
    BY <1>2 DEF Copied
  <2>2. QED  BY <2>1
<1>3. CASE ~here /\ row.mLineWrap
  <2>1. Copied(row, here) = Cardinality(1..C)
    BY <1>1, <1>3 DEF Copied
  <2>2. Cardinality(1..C) = C
    BY FS_Interval
  <2>3. QED  BY <2>1, <2>2
<1>4. CASE ~here /\ ~row.mLineWrap
  <2>1. Copied(row, here) = CHOOSE n \in ink : \A c \in ink : c <= n
    BY <1>4 DEF Copied
  <2>2. ink \in SUBSET (1..C) /\ ink # {}
    BY <1>1, <1>4 DEF isBlank
  <2>. HIDE DEF ink
  <2>3. \E n \in ink : \A c \in ink : c <= n
    BY <2>2, Greatest
  <2>4. Copied(row, here) \in ink
    BY <2>1, <2>3
  <2>5. Copied(row, here) \in 1..C
    BY <2>2, <2>4
  <2>6. QED  BY <2>5
<1>5. QED  BY <1>1, <1>2, <1>3, <1>4

\* What a run comes to when it is a recursive function.
LEMMA RunIs ==
    ASSUME NEW n \in Nat, NEW V, NEW start \in V, NEW F \in Steps(n, V),
           NEW f, Run(n, start, F, f)
    PROVE  \A i \in 0..n : f[i] \in V
<1>. DEFINE S == {i \in 0..n : f[i] \in V}
<1>1. f = [i \in 0..n |-> IF i = 0 THEN start ELSE F[<<i, f[i - 1]>>]]
  BY DEF Run
<1>2. 0 \in S
  <2>1. f[0] = start
    BY <1>1
  <2>2. QED  BY <2>1
<1>3. ASSUME NEW i \in 1..n, i - 1 \in S
      PROVE  i \in S
  <2>1. i \in 0..n /\ i # 0 /\ f[i - 1] \in V
    BY <1>3
  <2>2. f[i] = F[<<i, f[i - 1]>>]
    BY <1>1, <2>1
  <2>3. F[<<i, f[i - 1]>>] \in V
    BY <2>1 DEF Steps
  <2>4. QED  BY <2>1, <2>2, <2>3
<1>. HIDE DEF S
<1>4. 0..n \subseteq S
  BY <1>2, <1>3, Induction
<1>5. QED  BY <1>4 DEF S

\* and when it puts out a row.
LEMMA PutRowIs ==
    ASSUME NEW T, NEW R, NEW C, NEW out \in Outs(T, R, C), NEW b, IsRing(b),
           cursor.column \in 0..b.mColumns - 1, NEW e \in Window(b)
    PROVE  PutRow(out, b, e) \in Outs(T, R, C)
<1>. DEFINE V == Outs(T, R, C)
            k == b.mColumns
            row == Row(b, e)
            here == e = cursor.row
            G(x, n) == PutChar(x, row.text[n], here /\ n = cursor.column + 1)
            start == SkippedRows(out)
            F == [p \in (1..k) \X V |-> G(p[2], p[1])]
            put == CHOOSE f : f = [n \in 0..k |-> IF n = 0 THEN start ELSE G(f[n - 1], n)]
<1>1. k \in Nat /\ row \in RowsOf(k) /\ start \in V /\ row # NoRow
  BY Fields, InWindow, SkippedRowsIs DEF IsRing
<1>2. ASSUME NEW x \in V, NEW n \in 1..k
      PROVE  G(x, n) \in V
  <2>1. row.text[n] \in Cells
    BY <1>1 DEF RowsOf, Cells
  <2>2. PICK at \in BOOLEAN : at = (here /\ n = cursor.column + 1)
    OBVIOUS
  <2>3. PutChar(x, row.text[n], at) \in V
    <3>. HIDE DEF row
    <3>1. QED  BY <2>1, PutCharIs
  <2>4. QED  BY <2>2, <2>3
<1>. HIDE DEF G, V, k, start
<1>3. F \in Steps(k, V)
  BY <1>2 DEF Steps
<1>4. \A f : Run(k, start, F, f) => f = [n \in 0..k |-> IF n = 0 THEN start ELSE G(f[n - 1], n)]
  <2>1. SUFFICES ASSUME NEW f, Run(k, start, F, f)
                 PROVE  f = [n \in 0..k |-> IF n = 0 THEN start ELSE G(f[n - 1], n)]
    OBVIOUS
  <2>2. f = [n \in 0..k |-> IF n = 0 THEN start ELSE F[<<n, f[n - 1]>>]]
    BY <2>1 DEF Run
  <2>3. \A n \in 0..k : f[n] \in V
    <3>. HIDE DEF F
    <3>1. QED  BY <1>1, <1>3, <2>1, RunIs
  <2>4. \A n \in 0..k : n # 0 => n \in 1..k /\ n - 1 \in 0..k
    BY <1>1
  <2>5. \A n \in 1..k : f[n - 1] \in V => F[<<n, f[n - 1]>>] = G(f[n - 1], n)
    OBVIOUS
  <2>. HIDE DEF F
  <2>6. QED  BY <2>2, <2>3, <2>4, <2>5
<1>5. \A f : f = [n \in 0..k |-> IF n = 0 THEN start ELSE G(f[n - 1], n)] => \A n \in 0..k : f[n] \in V
  <2>1. SUFFICES ASSUME NEW f, f = [n \in 0..k |-> IF n = 0 THEN start ELSE G(f[n - 1], n)]
                 PROVE  \A n \in 0..k : f[n] \in V
    OBVIOUS
  <2>. DEFINE S == {n \in 0..k : f[n] \in V}
  <2>2. 0 \in S
    <3>1. f[0] = start
      BY <1>1, <2>1
    <3>2. QED  BY <1>1, <3>1
  <2>3. ASSUME NEW n \in 1..k, n - 1 \in S
        PROVE  n \in S
    <3>1. n \in 0..k /\ n # 0 /\ f[n - 1] \in V
      BY <1>1, <2>3
    <3>2. f[n] = G(f[n - 1], n)
      BY <2>1, <3>1
    <3>3. QED  BY <1>2, <3>1, <3>2
  <2>. HIDE DEF S
  <2>4. 0..k \subseteq S
    BY <1>1, <2>2, <2>3, Induction
  <2>5. QED  BY <2>4 DEF S
<1>6. put = [n \in 0..k |-> IF n = 0 THEN start ELSE G(put[n - 1], n)]
  <2>1. PICK f \in [0..k -> V] : Run(k, start, F, f)
    <3>. HIDE DEF F
    <3>1. QED  BY <1>1, <1>3, Recursion
  <2>2. f = [n \in 0..k |-> IF n = 0 THEN start ELSE G(f[n - 1], n)]
    BY <1>4, <2>1
  <2>3. QED  BY <2>2
<1>7. \A n \in 0..k : put[n] \in V
  <2>. HIDE DEF put
  <2>1. QED  BY <1>5, <1>6
<1>. DEFINE done == put[Copied(row, here)]
<1>8. PutRow(out, b, e) =
        IF row = NoRow \/ (~here /\ isBlank(row)) THEN [out EXCEPT !.skipped = @ + 1]
        ELSE IF e # b.mScreenRows - 1 /\ ~row.mLineWrap THEN NextRow(done, TRUE) ELSE done
  BY DEF PutRow, G, k, start
<1>. HIDE DEF put
<1>9. CASE ~here /\ isBlank(row)
  <2>1. PICK s \in Nat : s = out.skipped + 1
    BY OutIs
  <2>2. PutRow(out, b, e) = [out EXCEPT !.skipped = s]
    BY <1>8, <1>9, <2>1
  <2>3. PICK q, r, c, z, u, p :
          out = [b |-> q, row |-> r, column |-> c, skipped |-> z, cursor |-> u, placed |-> p]
    BY OutShape
  <2>4. PutRow(out, b, e) = [b |-> q, row |-> r, column |-> c, skipped |-> s, cursor |-> u, placed |-> p]
    BY <2>2, <2>3
  <2>5. /\ q \in Rings(T, R, C) /\ r \in 0..R - 1 /\ c \in 0..C
        /\ u \in [column : -1..C - 1, row : {i \in Int : i < R}] /\ p \in BOOLEAN
    BY <2>3 DEF Outs
  <2>6. QED  BY <2>4, <2>5 DEF Outs
<1>10. CASE here \/ ~isBlank(row)
  <2>1. Copied(row, here) \in 0..k
    <3>1. PICK h \in BOOLEAN : h = here
      OBVIOUS
    <3>2. cursor.column \in 0..k - 1
      BY DEF k
    <3>. HIDE DEF row, here
    <3>3. QED  BY <1>1, <1>10, <3>1, <3>2, CopiedIs
  <2>2. done \in V
    BY <1>7, <2>1
  <2>3. PutRow(out, b, e) = IF e # b.mScreenRows - 1 /\ ~row.mLineWrap THEN NextRow(done, TRUE) ELSE done
    BY <1>1, <1>8, <1>10
  <2>. HIDE DEF done
  <2>4. NextRow(done, TRUE) \in V
    BY <2>2, NextRowIs DEF V
  <2>5. QED  BY <2>2, <2>3, <2>4 DEF V
<1>11. QED  BY <1>9, <1>10

\* So a reflow ends with a ring of the new size and the output on its screen.
LEMMA ReflowedIs ==
    ASSUME RingInv, NEW size \in Sizes, NEW total \in size.rows..MainRows,
           NEW out, out = Reflowed(buffer, size.columns, size.rows, total)
    PROVE  out \in Outs(total, size.rows, size.columns)
<1>. DEFINE b == buffer
            C == size.columns
            R == size.rows
            V == Outs(total, R, C)
            A == b.mActiveTranscriptRows
            k == A + b.mScreenRows
            row == TerminalRow(C, FALSE)
            lines == [i \in 0..total - 1 |-> row]
            empty == [mLines |-> lines, mTotalRows |-> total, mScreenRows |-> R, mColumns |-> C,
                      mActiveTranscriptRows |-> 0, mScreenFirstRow |-> 0]
            start == [b |-> empty, row |-> 0, column |-> 0, skipped |-> 0, cursor |-> Nowhere,
                      placed |-> FALSE]
            G(x, n) == PutRow(x, b, n - 1 - A)
            F == [p \in (1..k) \X V |-> G(p[2], p[1])]
            put == CHOOSE f : f = [n \in 0..k |-> IF n = 0 THEN start ELSE G(f[n - 1], n)]
<1>1. /\ A \in Nat /\ b.mScreenRows \in Nat /\ k \in Nat /\ Window(b) = -A..b.mScreenRows - 1
      /\ IsRing(b) /\ cursor.column \in 0..b.mColumns - 1
  BY RingFields DEF Rows, Columns
<1>2. C \in Nat \ {0, 1} /\ R \in 2..MainRows /\ MainRows \in Nat
  BY SizeIs, SizesAssumption
<1>3. start \in V
  <2>1. row \in RowsOf(C) /\ NoRow \notin RowsOf(C)
    BY NoRowAssumption DEF TerminalRow, RowsOf
  <2>. HIDE DEF row
  <2>2. lines \in [0..total - 1 -> RowsOf(C) \cup {NoRow}]
    BY <2>1
  <2>3. \A e \in 0..R - 1 : lines[e] # NoRow
    <3>1. \A e \in 0..R - 1 : e \in 0..total - 1
      BY <1>2
    <3>2. QED  BY <2>1, <3>1
  <2>. HIDE DEF lines
  <2>4. PICK d : d = empty
    OBVIOUS
  <2>5. IsRing(d)
    BY <2>2, <2>3, <2>4, FreshIs
  <2>6. /\ d.mTotalRows = total /\ d.mScreenRows = R /\ d.mColumns = C /\ Slots(d) = 0..total - 1
        /\ d.mScreenFirstRow < d.mTotalRows
    BY <1>2, <2>2, <2>4 DEF Slots
  <2>7. d \in Rings(total, R, C)
    BY <2>5, <2>6, IsInRings
  <2>8. start = [b |-> d, row |-> 0, column |-> 0, skipped |-> 0,
                 cursor |-> [column |-> -1, row |-> -1], placed |-> FALSE]
    BY <2>4 DEF Nowhere
  <2>. HIDE DEF start
  <2>9. /\ 0 \in 0..R - 1 /\ 0 \in 0..C /\ -1 \in -1..C - 1 /\ -1 \in Int /\ -1 < R
    BY <1>2
  <2>10. QED  BY <2>7, <2>8, <2>9 DEF Outs
<1>4. ASSUME NEW x \in V, NEW n \in 1..k
      PROVE  G(x, n) \in V
  <2>1. n - 1 - A \in Window(b)
    BY <1>1
  <2>. HIDE DEF b, A
  <2>2. QED  BY <1>1, <2>1, PutRowIs
<1>5. out = put[k]
  BY DEF Reflowed
<1>. HIDE DEF G, V, k, start
<1>6. F \in Steps(k, V)
  BY <1>4 DEF Steps
<1>7. \A f : Run(k, start, F, f) => f = [n \in 0..k |-> IF n = 0 THEN start ELSE G(f[n - 1], n)]
  <2>1. SUFFICES ASSUME NEW f, Run(k, start, F, f)
                 PROVE  f = [n \in 0..k |-> IF n = 0 THEN start ELSE G(f[n - 1], n)]
    OBVIOUS
  <2>2. f = [n \in 0..k |-> IF n = 0 THEN start ELSE F[<<n, f[n - 1]>>]]
    BY <2>1 DEF Run
  <2>3. \A n \in 0..k : f[n] \in V
    <3>. HIDE DEF F
    <3>1. QED  BY <1>1, <1>3, <1>6, <2>1, RunIs
  <2>4. \A n \in 0..k : n # 0 => n \in 1..k /\ n - 1 \in 0..k
    BY <1>1
  <2>5. \A n \in 1..k : f[n - 1] \in V => F[<<n, f[n - 1]>>] = G(f[n - 1], n)
    OBVIOUS
  <2>. HIDE DEF F
  <2>6. QED  BY <2>2, <2>3, <2>4, <2>5
<1>8. \A f : f = [n \in 0..k |-> IF n = 0 THEN start ELSE G(f[n - 1], n)] => \A n \in 0..k : f[n] \in V
  <2>1. SUFFICES ASSUME NEW f, f = [n \in 0..k |-> IF n = 0 THEN start ELSE G(f[n - 1], n)]
                 PROVE  \A n \in 0..k : f[n] \in V
    OBVIOUS
  <2>. DEFINE S == {n \in 0..k : f[n] \in V}
  <2>2. 0 \in S
    <3>1. f[0] = start
      BY <1>1, <2>1
    <3>2. QED  BY <1>1, <1>3, <3>1
  <2>3. ASSUME NEW n \in 1..k, n - 1 \in S
        PROVE  n \in S
    <3>1. n \in 0..k /\ n # 0 /\ f[n - 1] \in V
      BY <1>1, <2>3
    <3>2. f[n] = G(f[n - 1], n)
      BY <2>1, <3>1
    <3>3. QED  BY <1>4, <3>1, <3>2
  <2>. HIDE DEF S
  <2>4. 0..k \subseteq S
    BY <1>1, <2>2, <2>3, Induction
  <2>5. QED  BY <2>4 DEF S
<1>9. put = [n \in 0..k |-> IF n = 0 THEN start ELSE G(put[n - 1], n)]
  <2>1. PICK f \in [0..k -> V] : Run(k, start, F, f)
    <3>. HIDE DEF F
    <3>1. QED  BY <1>1, <1>3, <1>6, Recursion
  <2>2. f = [n \in 0..k |-> IF n = 0 THEN start ELSE G(f[n - 1], n)]
    BY <1>7, <2>1
  <2>3. QED  BY <2>2
<1>10. \A n \in 0..k : put[n] \in V
  <2>. HIDE DEF put
  <2>1. QED  BY <1>8, <1>9
<1>11. k \in 0..k
  BY <1>1
<1>12. QED
  <2>. HIDE DEF put
  <2>1. QED  BY <1>5, <1>10, <1>11 DEF V

-----------------------------------------------------------------------------
(* Rows and cells that move.                                               *)

\* A blank line.
BlankText(columns) == [n \in 1..columns |-> Blank]

\* Whole rows are copied, then whole rows are blanked.
RowsShifted(b, sy, dy, h, y, k, c) ==
  /\ IsRing(c) /\ Alike(b, c)
  /\ \A e \in Window(b) :
       /\ e \in y..y + k - 1 => Row(c, e).text = BlankText(b.mColumns)
       /\ e \notin y..y + k - 1 /\ e \in dy..dy + h - 1 => Row(c, e).text = Row(b, e - dy + sy).text
       /\ e \notin y..y + k - 1 /\ e \notin dy..dy + h - 1 => Row(c, e) = Row(b, e)

\* Copying whole rows and blanking others, as the operations on lines do.
LEMMA RowsShiftedIs ==
    ASSUME NEW b, IsRing(b), NEW sy \in Int, NEW dy \in Int, NEW h \in Nat, NEW y \in Int, NEW k \in Int,
           sy..sy + h - 1 \subseteq Window(b), dy..dy + h - 1 \subseteq Window(b),
           y..y + k - 1 \subseteq Window(b),
           NEW c, c = blockSet(blockCopy(b, 0, sy, b.mColumns, h, 0, dy), 0, y, b.mColumns, k)
    PROVE  RowsShifted(b, sy, dy, h, y, k, c)
<1>. DEFINE C == b.mColumns
<1>1. C \in Nat
  BY Fields DEF IsRing
<1>2. PICK a : a = blockCopy(b, 0, sy, C, h, 0, dy)
  OBVIOUS
<1>3. PICK z \in Nat : z = 0 /\ z + C <= C
  BY <1>1
<1>4. /\ IsRing(a) /\ Alike(b, a)
      /\ \A e \in dy..dy + h - 1 :
            Row(a, e).text = Pasted(Row(b, e), Row(b, e - dy + sy), C, z, C, z)
      /\ \A e \in Window(b) : e \notin dy..dy + h - 1 => Row(a, e) = Row(b, e)
  <2>1. a = blockCopy(b, z, sy, C, h, z, dy) /\ C \in Int /\ z + C <= b.mColumns
    BY <1>1, <1>2, <1>3
  <2>. HIDE DEF C
  <2>2. QED  BY <2>1, BlockCopyIs DEF C
<1>5. ASSUME NEW e \in dy..dy + h - 1
      PROVE  Row(a, e).text = Row(b, e - dy + sy).text
  <2>1. e - dy + sy \in Window(b)
    <3>1. e - dy + sy \in sy..sy + h - 1
      OBVIOUS
    <3>2. QED  BY <3>1
  <2>2. Row(b, e - dy + sy) \in RowsOf(C)
    BY <2>1, InWindow
  <2>3. PICK t \in [1..C -> Cells] : t = Row(b, e - dy + sy).text
    <3>1. Row(b, e - dy + sy).text \in [1..C -> Cells]
      <4>1. PICK row \in RowsOf(C) : row = Row(b, e - dy + sy)
        BY <2>2
      <4>2. row.text \in [1..C -> Cells]
        BY DEF RowsOf, Cells
      <4>3. QED  BY <4>1, <4>2
    <3>2. QED  BY <3>1
  <2>4. Pasted(Row(b, e), Row(b, e - dy + sy), C, z, C, z) = [n \in 1..C |-> t[n]]
    <3>1. \A n \in 1..C : n - z \in 1..C /\ n - z + z = n
      BY <1>1, <1>3
    <3>2. QED  BY <2>3, <3>1 DEF Pasted
  <2>5. QED  BY <1>4, <2>3, <2>4
<1>6. Window(a) = Window(b) /\ a.mColumns = C
  BY <1>4 DEF Alike, Window
<1>7. /\ IsRing(c) /\ Alike(a, c)
      /\ \A e \in y..y + k - 1 :
            Row(c, e).text = Blanked(Row(a, e), C, z, C)
      /\ \A e \in Window(b) : e \notin y..y + k - 1 => Row(c, e) = Row(a, e)
  <2>1. c = blockSet(a, z, y, C, k) /\ z \in Int /\ C \in Int
    BY <1>1, <1>2, <1>3
  <2>2. y..y + k - 1 \subseteq Window(a)
    BY <1>6
  <2>. HIDE DEF C
  <2>3. /\ IsRing(c) /\ Alike(a, c)
        /\ \A e \in y..y + k - 1 :
              Row(c, e).text = Blanked(Row(a, e), a.mColumns, z, C)
        /\ \A e \in Window(a) : e \notin y..y + k - 1 => Row(c, e) = Row(a, e)
    BY <1>4, <2>1, <2>2, BlockSetIs
  <2>4. QED  BY <1>6, <2>3
<1>8. ASSUME NEW e \in y..y + k - 1
      PROVE  Row(c, e).text = BlankText(C)
  <2>1. \A n \in 1..C : n - z \in 1..C
    BY <1>1, <1>3
  <2>2. QED  BY <1>7, <2>1 DEF BlankText, Blanked
<1>9. Alike(b, c)
  BY <1>4, <1>7 DEF Alike
<1>10. ASSUME NEW e \in Window(b)
       PROVE  /\ e \in y..y + k - 1 => Row(c, e).text = BlankText(C)
              /\ e \notin y..y + k - 1 /\ e \in dy..dy + h - 1 => Row(c, e).text = Row(b, e - dy + sy).text
              /\ e \notin y..y + k - 1 /\ e \notin dy..dy + h - 1 => Row(c, e) = Row(b, e)
  BY <1>4, <1>5, <1>7, <1>8
<1>11. QED  BY <1>7, <1>9, <1>10 DEF RowsShifted

\* Cells of a row are copied within it, then some are blanked.
Shifted(text, columns, sx, dx, w, x, k) ==
  [n \in 1..columns |-> IF n - x \in 1..k THEN Blank
                        ELSE IF n - dx \in 1..w THEN text[n - dx + sx] ELSE text[n]]

\* Copying cells of one row and blanking others, as the operations on cells do.
LEMMA CellsShiftedIs ==
    ASSUME NEW b, IsRing(b), NEW r \in Window(b), NEW sx \in Nat, NEW dx \in Nat, NEW w \in Int,
           sx + w <= b.mColumns, NEW x \in Int, NEW k \in Int,
           NEW c, c = blockSet(blockCopy(b, sx, r, w, 1, dx, r), x, r, k, 1)
    PROVE  /\ IsRing(c) /\ Alike(b, c)
           /\ \A e \in Window(b) \ {r} : Row(c, e) = Row(b, e)
           /\ Row(c, r).text = Shifted(Row(b, r).text, b.mColumns, sx, dx, w, x, k)
<1>. DEFINE C == b.mColumns
<1>1. C \in Nat /\ r \in Int
  BY Fields DEF IsRing, Window
<1>2. PICK a : a = blockCopy(b, sx, r, w, 1, dx, r)
  OBVIOUS
<1>3. PICK h \in Nat : h = 1 /\ r..r + h - 1 = {r}
  BY <1>1
<1>4. /\ IsRing(a) /\ Alike(b, a)
      /\ Row(a, r).text = Pasted(Row(b, r), Row(b, r - r + r), C, sx, w, dx)
      /\ \A e \in Window(b) : e # r => Row(a, e) = Row(b, e)
  <2>1. a = blockCopy(b, sx, r, w, h, dx, r) /\ r..r + h - 1 \subseteq Window(b)
    BY <1>2, <1>3
  <2>2. /\ IsRing(a) /\ Alike(b, a)
        /\ \A e \in r..r + h - 1 :
             Row(a, e).text = Pasted(Row(b, e), Row(b, e - r + r), b.mColumns, sx, w, dx)
        /\ \A e \in Window(b) : e \notin r..r + h - 1 => Row(a, e) = Row(b, e)
    BY <1>1, <2>1, BlockCopyIs
  <2>3. QED  BY <1>3, <2>2
<1>5. Row(a, r).text = [n \in 1..C |-> IF n - dx \in 1..w THEN Row(b, r).text[n - dx + sx]
                                       ELSE Row(b, r).text[n]]
  <2>1. r - r + r = r
    BY <1>1
  <2>2. QED  BY <1>4, <2>1 DEF Pasted
<1>6. Window(a) = Window(b) /\ a.mColumns = C
  BY <1>4 DEF Alike, Window
<1>7. /\ IsRing(c) /\ Alike(a, c)
      /\ Row(c, r).text = Blanked(Row(a, r), C, x, k)
      /\ \A e \in Window(b) : e # r => Row(c, e) = Row(a, e)
  <2>1. c = blockSet(a, x, r, k, h) /\ r..r + h - 1 \subseteq Window(a) /\ h \in Int
    BY <1>2, <1>3, <1>6
  <2>2. /\ IsRing(c) /\ Alike(a, c)
        /\ \A e \in r..r + h - 1 :
              Row(c, e).text = Blanked(Row(a, e), a.mColumns, x, k)
        /\ \A e \in Window(a) : e \notin r..r + h - 1 => Row(c, e) = Row(a, e)
    BY <1>1, <1>4, <2>1, BlockSetIs
  <2>3. QED  BY <1>3, <1>6, <2>2
<1>8. Alike(b, c)
  BY <1>4, <1>7 DEF Alike
<1>9. Row(c, r).text = [n \in 1..C |->
                          IF n - x \in 1..k THEN Blank
                          ELSE IF n - dx \in 1..w THEN Row(b, r).text[n - dx + sx] ELSE Row(b, r).text[n]]
  BY <1>5, <1>7 DEF Blanked
<1>10. QED  BY <1>4, <1>7, <1>8, <1>9 DEF Shifted

-----------------------------------------------------------------------------
(* Lines as sequences.                                                     *)

\* A function from 1..n is a sequence of length n.
LEMMA FunctionSeq ==
    ASSUME NEW n \in Nat, NEW S, NEW f \in [1..n -> S]
    PROVE  f \in Seq(S) /\ Len(f) = n
OBVIOUS

\* A part of a sequence, cell by cell.
LEMMA PartIs ==
    ASSUME NEW S, NEW s \in Seq(S), NEW m \in 1..Len(s) + 1, NEW n \in 0..Len(s)
    PROVE  /\ SubSeq(s, m, n) \in Seq(S)
           /\ Len(SubSeq(s, m, n)) = IF m <= n THEN n - m + 1 ELSE 0
           /\ \A i \in 1..n - m + 1 : SubSeq(s, m, n)[i] = s[m + i - 1]
<1>1. Len(s) \in Nat
  BY LenProperties
<1>2. \A i \in m..n : s[i] \in S
  <2>1. \A i \in m..n : i \in 1..Len(s)
    BY <1>1
  <2>2. QED  BY <2>1, ElementOfSeq
<1>3. m \in Int /\ n \in Int
  BY <1>1
<1>4. QED  BY <1>2, <1>3, SubSeqProperties

\* Three parts put together, and four.
LEMMA ThreeParts ==
    ASSUME NEW S, NEW p \in Seq(S), NEW q \in Seq(S), NEW r \in Seq(S)
    PROVE  /\ p \o q \o r \in Seq(S)
           /\ Len(p) \in Nat /\ Len(q) \in Nat /\ Len(r) \in Nat
           /\ Len(p \o q \o r) = Len(p) + Len(q) + Len(r)
           /\ \A i \in 1..Len(p) + Len(q) + Len(r) :
                 (p \o q \o r)[i] = IF i <= Len(p) THEN p[i]
                                    ELSE IF i <= Len(p) + Len(q) THEN q[i - Len(p)]
                                    ELSE r[i - Len(p) - Len(q)]
<1>1. Len(p) \in Nat /\ Len(q) \in Nat /\ Len(r) \in Nat
  BY LenProperties
<1>. DEFINE pq == p \o q
<1>2. /\ pq \in Seq(S) /\ Len(pq) = Len(p) + Len(q)
      /\ \A i \in 1..Len(p) + Len(q) : pq[i] = IF i <= Len(p) THEN p[i] ELSE q[i - Len(p)]
  BY ConcatProperties
<1>. HIDE DEF pq
<1>3. /\ pq \o r \in Seq(S) /\ Len(pq \o r) = Len(pq) + Len(r)
      /\ \A i \in 1..Len(pq) + Len(r) : (pq \o r)[i] = IF i <= Len(pq) THEN pq[i] ELSE r[i - Len(pq)]
  <2>1. pq \in Seq(S) /\ r \in Seq(S)
    BY <1>2
  <2>2. QED  BY <2>1, ConcatProperties, Zenon
<1>4. ASSUME NEW i \in 1..Len(p) + Len(q) + Len(r)
      PROVE  (pq \o r)[i] = IF i <= Len(p) THEN p[i] ELSE IF i <= Len(p) + Len(q) THEN q[i - Len(p)]
                            ELSE r[i - Len(p) - Len(q)]
  <2>1. i \in 1..Len(pq) + Len(r)
    BY <1>2
  <2>2. CASE i <= Len(pq)
    <3>1. i \in 1..Len(p) + Len(q) /\ (pq \o r)[i] = pq[i]
      BY <1>1, <1>2, <1>3, <2>1, <2>2
    <3>2. QED  BY <1>1, <1>2, <2>2, <3>1
  <2>3. CASE ~(i <= Len(pq))
    <3>1. (pq \o r)[i] = r[i - Len(pq)]
      BY <1>3, <2>1, <2>3
    <3>2. ~(i <= Len(p)) /\ ~(i <= Len(p) + Len(q)) /\ i - Len(pq) = i - Len(p) - Len(q)
      BY <1>1, <1>2, <2>1, <2>3
    <3>3. QED  BY <3>1, <3>2
  <2>4. QED  BY <2>2, <2>3
<1>5. QED  BY <1>1, <1>2, <1>3, <1>4 DEF pq

\* Four sequences one after the other, cell by cell.
LEMMA FourParts ==
    ASSUME NEW S, NEW p \in Seq(S), NEW q \in Seq(S), NEW r \in Seq(S), NEW t \in Seq(S)
    PROVE  /\ p \o q \o r \o t \in Seq(S)
           /\ Len(p) \in Nat /\ Len(q) \in Nat /\ Len(r) \in Nat /\ Len(t) \in Nat
           /\ Len(p \o q \o r \o t) = Len(p) + Len(q) + Len(r) + Len(t)
           /\ \A i \in 1..Len(p) + Len(q) + Len(r) + Len(t) :
                 (p \o q \o r \o t)[i] = IF i <= Len(p) THEN p[i]
                                         ELSE IF i <= Len(p) + Len(q) THEN q[i - Len(p)]
                                         ELSE IF i <= Len(p) + Len(q) + Len(r) THEN r[i - Len(p) - Len(q)]
                                         ELSE t[i - Len(p) - Len(q) - Len(r)]
<1>. DEFINE pqr == p \o q \o r
<1>1. /\ pqr \in Seq(S) /\ Len(pqr) = Len(p) + Len(q) + Len(r)
      /\ Len(p) \in Nat /\ Len(q) \in Nat /\ Len(r) \in Nat /\ Len(t) \in Nat
      /\ \A i \in 1..Len(p) + Len(q) + Len(r) :
           pqr[i] = IF i <= Len(p) THEN p[i] ELSE IF i <= Len(p) + Len(q) THEN q[i - Len(p)]
                    ELSE r[i - Len(p) - Len(q)]
  BY ThreeParts, LenProperties
<1>. HIDE DEF pqr
<1>2. /\ pqr \o t \in Seq(S) /\ Len(pqr \o t) = Len(pqr) + Len(t)
      /\ \A i \in 1..Len(pqr) + Len(t) : (pqr \o t)[i] = IF i <= Len(pqr) THEN pqr[i] ELSE t[i - Len(pqr)]
  <2>1. pqr \in Seq(S) /\ t \in Seq(S)
    BY <1>1
  <2>2. QED  BY <2>1, ConcatProperties, Zenon
<1>3. ASSUME NEW i \in 1..Len(p) + Len(q) + Len(r) + Len(t)
      PROVE  (pqr \o t)[i] = IF i <= Len(p) THEN p[i] ELSE IF i <= Len(p) + Len(q) THEN q[i - Len(p)]
                             ELSE IF i <= Len(p) + Len(q) + Len(r) THEN r[i - Len(p) - Len(q)]
                             ELSE t[i - Len(p) - Len(q) - Len(r)]
  <2>1. i \in 1..Len(pqr) + Len(t)
    BY <1>1
  <2>2. CASE i <= Len(pqr)
    <3>1. i \in 1..Len(p) + Len(q) + Len(r) /\ (pqr \o t)[i] = pqr[i]
      BY <1>1, <1>2, <2>1, <2>2
    <3>2. QED  BY <1>1, <2>2, <3>1
  <2>3. CASE ~(i <= Len(pqr))
    <3>1. (pqr \o t)[i] = t[i - Len(pqr)]
      BY <1>2, <2>1, <2>3
    <3>2. /\ ~(i <= Len(p)) /\ ~(i <= Len(p) + Len(q)) /\ ~(i <= Len(p) + Len(q) + Len(r))
          /\ i - Len(pqr) = i - Len(p) - Len(q) - Len(r)
      BY <1>1, <2>1, <2>3
    <3>3. QED  BY <3>1, <3>2
  <2>4. QED  BY <2>2, <2>3
<1>4. QED  BY <1>1, <1>2, <1>3 DEF pqr

\* The lines of a buffer.
Screen(b) == [n \in 1..b.mScreenRows |-> Row(b, n - 1).text]

\* The lines of the transcript of a buffer.
Transcript(b) == [n \in 1..b.mActiveTranscriptRows |-> Row(b, n - 1 - b.mActiveTranscriptRows).text]

\* The lines of a ring are sequences of lines.
LEMMA LinesOf ==
    ASSUME NEW b, IsRing(b)
    PROVE  /\ Screen(b) \in Seq([1..b.mColumns -> Cells]) /\ Len(Screen(b)) = b.mScreenRows
           /\ Transcript(b) \in Seq([1..b.mColumns -> Cells])
           /\ Len(Transcript(b)) = b.mActiveTranscriptRows
           /\ \A n \in 1..b.mScreenRows : Screen(b)[n] = Row(b, n - 1).text
           /\ \A n \in 1..b.mActiveTranscriptRows :
                 Transcript(b)[n] = Row(b, n - 1 - b.mActiveTranscriptRows).text
           /\ \A e \in Window(b) : Row(b, e).text \in [1..b.mColumns -> Cells]
<1>. DEFINE R == b.mScreenRows
            A == b.mActiveTranscriptRows
            L == [1..b.mColumns -> Cells]
<1>1. R \in Nat /\ A \in Nat
  BY Fields DEF IsRing
<1>2. ASSUME NEW e \in Window(b)
      PROVE  Row(b, e).text \in L
  <2>1. PICK row \in RowsOf(b.mColumns) : row = Row(b, e)
    BY InWindow
  <2>2. row.text \in L
    BY DEF RowsOf, Cells
  <2>3. QED  BY <2>1, <2>2
<1>3. \A n \in 1..R : n - 1 \in Window(b)
  BY <1>1 DEF Window
<1>4. \A n \in 1..A : n - 1 - A \in Window(b)
  BY <1>1 DEF Window
<1>. HIDE DEF L
<1>5. Screen(b) \in [1..R -> L]
  BY <1>2, <1>3 DEF Screen
<1>6. Transcript(b) \in [1..A -> L]
  BY <1>2, <1>4 DEF Transcript
<1>7. Screen(b) \in Seq(L) /\ Len(Screen(b)) = R
  BY <1>1, <1>5, FunctionSeq
<1>8. Transcript(b) \in Seq(L) /\ Len(Transcript(b)) = A
  BY <1>1, <1>6, FunctionSeq
<1>9. \A n \in 1..R : Screen(b)[n] = Row(b, n - 1).text
  BY DEF Screen
<1>10. \A n \in 1..A : Transcript(b)[n] = Row(b, n - 1 - A).text
  BY DEF Transcript
<1>11. QED  BY <1>2, <1>7, <1>8, <1>9, <1>10 DEF L

\* A sequence that has the lines of the screen is the screen,
LEMMA ScreenEquals ==
    ASSUME NEW c, IsRing(c), NEW s \in Seq([1..c.mColumns -> Cells]), Len(s) = c.mScreenRows,
           \A n \in 1..c.mScreenRows : s[n] = Row(c, n - 1).text
    PROVE  Screen(c) = s
<1>1. /\ Screen(c) \in Seq([1..c.mColumns -> Cells]) /\ Len(Screen(c)) = Len(s)
      /\ \A n \in 1..Len(Screen(c)) : Screen(c)[n] = s[n]
  BY LinesOf
<1>2. QED  BY <1>1, SeqEqual

\* and one that has the lines of the transcript is the transcript.
LEMMA TranscriptEquals ==
    ASSUME NEW c, IsRing(c), NEW s \in Seq([1..c.mColumns -> Cells]),
           Len(s) = c.mActiveTranscriptRows,
           \A n \in 1..c.mActiveTranscriptRows : s[n] = Row(c, n - 1 - c.mActiveTranscriptRows).text
    PROVE  Transcript(c) = s
<1>1. /\ Transcript(c) \in Seq([1..c.mColumns -> Cells]) /\ Len(Transcript(c)) = Len(s)
      /\ \A n \in 1..Len(Transcript(c)) : Transcript(c)[n] = s[n]
  BY LinesOf
<1>2. QED  BY <1>1, SeqEqual

\* The variables of ScreenLines are the lines of the ring in use,
LEMMA LinesAre ==
    ASSUME RingInv
    PROVE  /\ Texts(0, buffer.mScreenRows - 1) = Screen(buffer)
           /\ Texts(-buffer.mActiveTranscriptRows, -1) = Transcript(buffer)
           /\ Lines!Rows = Rows /\ Lines!Columns = Columns /\ Lines!Room = buffer.mTotalRows
<1>1. /\ buffer.mScreenRows \in Nat /\ buffer.mActiveTranscriptRows \in Nat /\ Rows >= 2
      /\ Columns \in Nat
  BY RingFields DEF Rows
<1>2. Texts(0, buffer.mScreenRows - 1) = Screen(buffer)
  <2>1. buffer.mScreenRows - 1 - 0 + 1 = buffer.mScreenRows
    BY <1>1
  <2>2. \A n \in 1..buffer.mScreenRows : 0 + n - 1 = n - 1
    BY <1>1
  <2>3. QED  BY <2>1, <2>2 DEF Texts, Screen
<1>3. Texts(-buffer.mActiveTranscriptRows, -1) = Transcript(buffer)
  <2>1. -1 - (-buffer.mActiveTranscriptRows) + 1 = buffer.mActiveTranscriptRows
    BY <1>1
  <2>2. \A n \in 1..buffer.mActiveTranscriptRows :
          -buffer.mActiveTranscriptRows + n - 1 = n - 1 - buffer.mActiveTranscriptRows
    BY <1>1
  <2>3. QED  BY <2>1, <2>2 DEF Texts, Transcript
<1>4. /\ Screen(buffer) \in Seq([1..Columns -> Cells]) /\ Len(Screen(buffer)) = Rows
      /\ Screen(buffer)[1] \in [1..Columns -> Cells]
  <2>1. Screen(buffer) \in Seq([1..Columns -> Cells]) /\ Len(Screen(buffer)) = Rows
    BY RingFields, LinesOf DEF Rows, Columns
  <2>2. 1 \in 1..Len(Screen(buffer))
    BY <1>1, <2>1
  <2>3. QED  BY <2>1, <2>2, ElementOfSeq
<1>5. Lines!Rows = Rows
  BY <1>2, <1>4 DEF Lines!Rows
<1>6. Len(Screen(buffer)[1]) = Columns
  BY <1>1, <1>4, FunctionSeq
<1>7. Lines!Columns = Columns
  BY <1>2, <1>6 DEF Lines!Columns
<1>8. Lines!Room = buffer.mTotalRows
  BY <1>5, RingFields DEF Lines!Room
<1>9. QED  BY <1>2, <1>3, <1>5, <1>7, <1>8

\* in the next state too.
LEMMA PrimedLines ==
    ASSUME IsRing(buffer')
    PROVE  /\ Texts(0, buffer.mScreenRows - 1)' = Screen(buffer')
           /\ Texts(-buffer.mActiveTranscriptRows, -1)' = Transcript(buffer')
<1>1. buffer'.mScreenRows \in Nat /\ buffer'.mActiveTranscriptRows \in Nat
  BY Fields DEF IsRing
<1>2. Texts(0, buffer.mScreenRows - 1)' = Screen(buffer')
  <2>1. buffer'.mScreenRows - 1 - 0 + 1 = buffer'.mScreenRows
    BY <1>1
  <2>2. \A n \in 1..buffer'.mScreenRows : 0 + n - 1 = n - 1
    BY <1>1
  <2>3. QED  BY <2>1, <2>2 DEF Texts, Screen
<1>3. Texts(-buffer.mActiveTranscriptRows, -1)' = Transcript(buffer')
  <2>1. -1 - (-buffer'.mActiveTranscriptRows) + 1 = buffer'.mActiveTranscriptRows
    BY <1>1
  <2>2. \A n \in 1..buffer'.mActiveTranscriptRows :
          -buffer'.mActiveTranscriptRows + n - 1 = n - 1 - buffer'.mActiveTranscriptRows
    BY <1>1
  <2>3. QED  BY <2>1, <2>2 DEF Texts, Transcript
<1>4. QED  BY <1>2, <1>3

\* Nothing of a step can break the invariant but the buffer it leaves.
LEMMA KeepsRing ==
    ASSUME RingInv, IsRing(buffer'), buffer'.mTotalRows = buffer.mTotalRows,
           buffer'.mScreenRows = Rows, buffer'.mColumns = Columns,
           buffer'.mScreenFirstRow = buffer.mScreenFirstRow
             \/ buffer'.mScreenFirstRow \in 0..buffer.mTotalRows - 1,
           cursor' \in [column : 0..Columns - 1, row : 0..Rows - 1],
           margin' = margin, alt' = alt, mAboutToAutoWrap' \in BOOLEAN
    PROVE  RingInv'
<1>1. Columns' = Columns /\ Rows' = Rows
  BY DEF Columns, Rows
<1>2. ~alt => buffer'.mScreenFirstRow < MainRows
  <2>1. CASE buffer'.mScreenFirstRow = buffer.mScreenFirstRow
    BY <2>1 DEF RingInv
  <2>2. CASE buffer'.mScreenFirstRow \in 0..buffer.mTotalRows - 1
    <3>1. ~alt => buffer.mTotalRows = MainRows /\ MainRows \in Nat
      BY RingFields
    <3>2. QED  BY <2>2, <3>1
  <2>3. QED  BY <2>1, <2>2
<1>3. QED  BY <1>1, <1>2 DEF RingInv

\* The invariant holds after a step that keeps the shape of the buffer.
LEMMA KeepsAlike ==
    ASSUME RingInv, IsRing(buffer'), Alike(buffer, buffer'),
           cursor' \in [column : 0..Columns - 1, row : 0..Rows - 1],
           margin' = margin, alt' = alt, mAboutToAutoWrap' \in BOOLEAN
    PROVE  RingInv'
<1>1. /\ buffer'.mTotalRows = buffer.mTotalRows
      /\ buffer'.mScreenRows = Rows /\ buffer'.mColumns = Columns
      /\ buffer'.mScreenFirstRow = buffer.mScreenFirstRow
  BY DEF Alike, Rows, Columns
<1>2. QED  BY <1>1, KeepsRing

\* PartIs and FourParts as facts with a name, for citing.
PartOf(S, s, m, n, part) ==
  /\ part \in Seq(S) /\ Len(part) = IF m <= n THEN n - m + 1 ELSE 0
  /\ \A i \in 1..n - m + 1 : part[i] = s[m + i - 1]

\* PartIs with its conclusion named.
LEMMA PartOfIs ==
    ASSUME NEW S, NEW s \in Seq(S), NEW m \in 1..Len(s) + 1, NEW n \in 0..Len(s)
    PROVE  PartOf(S, s, m, n, SubSeq(s, m, n))
BY PartIs DEF PartOf

\* FourParts with its conclusion named.
Joined(S, p, q, r, t, all) ==
  /\ all \in Seq(S)
  /\ Len(p) \in Nat /\ Len(q) \in Nat /\ Len(r) \in Nat /\ Len(t) \in Nat
  /\ Len(all) = Len(p) + Len(q) + Len(r) + Len(t)
  /\ \A i \in 1..Len(p) + Len(q) + Len(r) + Len(t) :
        all[i] = IF i <= Len(p) THEN p[i]
                 ELSE IF i <= Len(p) + Len(q) THEN q[i - Len(p)]
                 ELSE IF i <= Len(p) + Len(q) + Len(r) THEN r[i - Len(p) - Len(q)]
                 ELSE t[i - Len(p) - Len(q) - Len(r)]

\* The same, to be cited.
LEMMA JoinedIs ==
    ASSUME NEW S, NEW p \in Seq(S), NEW q \in Seq(S), NEW r \in Seq(S), NEW t \in Seq(S)
    PROVE  Joined(S, p, q, r, t, p \o q \o r \o t)
BY FourParts DEF Joined

\* The elements a + 1 to z of s move up by k, and new ones come in below them;
\* or down, and new ones come in above.
MovedUp(S, s, new, a, z, k, all) ==
  /\ all \in Seq(S) /\ Len(all) = Len(s)
  /\ \A i \in 1..Len(s) : /\ i <= a \/ i > z => all[i] = s[i]
                          /\ i > a /\ i <= z - k => all[i] = s[i + k]
                          /\ i > z - k /\ i <= z => all[i] = new[i - (z - k)]

\* The sequence that ScreenLines writes when lines move up,
LEMMA MovedUpIs ==
    ASSUME NEW S, NEW s \in Seq(S), NEW new \in Seq(S), NEW a \in 0..Len(s), NEW z \in a..Len(s),
           NEW k \in 0..z - a, Len(new) = k, NEW from, from = a + k + 1
    PROVE  MovedUp(S, s, new, a, z, k,
                   SubSeq(s, 1, a) \o SubSeq(s, from, z) \o new \o SubSeq(s, z + 1, Len(s)))
<1>. DEFINE R == Len(s)
            p == SubSeq(s, 1, a)
            q == SubSeq(s, from, z)
            t == SubSeq(s, z + 1, R)
            all == p \o q \o new \o t
<1>1. R \in Nat /\ a \in Nat /\ z \in Nat /\ k \in Nat /\ a + k <= z /\ z <= R
  BY LenProperties
<1>2. PICK one \in 1..R + 1 : one = 1
  BY <1>1
<1>3. PICK z1 \in 1..R + 1 : z1 = z + 1
  BY <1>1
<1>4. /\ from \in 1..R + 1 /\ a \in 0..R /\ z \in 0..R /\ R \in 0..R
  BY <1>1
<1>5. /\ PartOf(S, s, one, a, SubSeq(s, one, a)) /\ PartOf(S, s, from, z, SubSeq(s, from, z))
      /\ PartOf(S, s, z1, R, SubSeq(s, z1, R))
  BY <1>4, PartOfIs, Zenon
<1>. HIDE DEF R, p, q, t, all
<1>6. p \in Seq(S) /\ Len(p) = a /\ \A i \in 1..a : p[i] = s[i]
  <2>1. PartOf(S, s, one, a, p)
    BY <1>2, <1>5 DEF p
  <2>2. \A i \in 1..a : i \in 1..a - one + 1 /\ one + i - 1 = i
    BY <1>1, <1>2
  <2>3. QED  BY <1>1, <1>2, <2>1, <2>2 DEF PartOf
<1>7. q \in Seq(S) /\ Len(q) = z - k - a /\ \A i \in 1..z - k - a : q[i] = s[i + a + k]
  <2>1. PartOf(S, s, from, z, q)
    BY <1>5 DEF q
  <2>2. \A i \in 1..z - k - a : i \in 1..z - from + 1 /\ from + i - 1 = i + a + k
    BY <1>1
  <2>3. QED  BY <1>1, <2>1, <2>2 DEF PartOf
<1>8. t \in Seq(S) /\ Len(t) = R - z /\ \A i \in 1..R - z : t[i] = s[i + z]
  <2>1. PartOf(S, s, z1, R, t)
    BY <1>3, <1>5 DEF t
  <2>2. \A i \in 1..R - z : i \in 1..R - z1 + 1 /\ z1 + i - 1 = i + z
    BY <1>1, <1>3
  <2>3. QED  BY <1>1, <1>3, <2>1, <2>2 DEF PartOf
<1>9. Joined(S, p, q, new, t, all)
  BY <1>6, <1>7, <1>8, JoinedIs, Zenon DEF all
<1>10. /\ all \in Seq(S) /\ Len(all) = R
       /\ \A i \in 1..R : all[i] = IF i <= a THEN p[i] ELSE IF i <= z - k THEN q[i - a]
                                   ELSE IF i <= z THEN new[i - a - (z - k - a)]
                                   ELSE t[i - a - (z - k - a) - k]
  <2>1. a + (z - k - a) = z - k /\ z - k + k = z /\ z + (R - z) = R
    BY <1>1
  <2>2. /\ Len(p) = a /\ Len(p) + Len(q) = z - k /\ Len(p) + Len(q) + Len(new) = z
        /\ Len(p) + Len(q) + Len(new) + Len(t) = R
    BY <1>6, <1>7, <1>8, <2>1
  <2>3. \A i : /\ i - Len(p) = i - a /\ i - Len(p) - Len(q) = i - a - (z - k - a)
               /\ i - Len(p) - Len(q) - Len(new) = i - a - (z - k - a) - k
    BY <1>6, <1>7
  <2>4. QED  BY <1>9, <2>2, <2>3 DEF Joined
<1>11. ASSUME NEW i \in 1..R
       PROVE  /\ i <= a \/ i > z => all[i] = s[i]
              /\ i > a /\ i <= z - k => all[i] = s[i + k]
              /\ i > z - k /\ i <= z => all[i] = new[i - (z - k)]
  <2>1. CASE i <= a
    BY <1>1, <1>6, <1>10, <2>1
  <2>2. CASE i > a /\ i <= z - k
    <3>1. i - a \in 1..z - k - a /\ i - a + a + k = i + k
      BY <1>1, <2>2
    <3>2. q[i - a] = s[i + k]
      BY <1>7, <3>1
    <3>3. QED  BY <1>1, <1>10, <2>2, <3>2
  <2>3. CASE i > z - k /\ i <= z
    <3>1. i - a - (z - k - a) = i - (z - k) /\ ~(i <= a) /\ ~(i <= z - k)
      BY <1>1, <2>3
    <3>2. QED  BY <1>1, <1>10, <2>3, <3>1
  <2>4. CASE i > z
    <3>1. i - a - (z - k - a) - k \in 1..R - z /\ i - a - (z - k - a) - k + z = i
      BY <1>1, <2>4
    <3>2. t[i - a - (z - k - a) - k] = s[i]
      BY <1>8, <3>1
    <3>3. ~(i <= a) /\ ~(i <= z - k) /\ ~(i <= z)
      BY <1>1, <2>4
    <3>4. QED  BY <1>1, <1>10, <3>2, <3>3
  <2>5. QED  BY <1>1, <2>1, <2>2, <2>3, <2>4
<1>12. MovedUp(S, s, new, a, z, k, all)
  BY <1>10, <1>11 DEF MovedUp, R
<1>13. all = SubSeq(s, 1, a) \o SubSeq(s, from, z) \o new \o SubSeq(s, z + 1, Len(s))
  BY DEF all, p, q, t, R
<1>14. QED  BY <1>12, <1>13, Zenon

\* The elements a+1 to z move down by k and new ones fill the gap.
MovedDown(S, s, new, a, z, k, all) ==
  /\ all \in Seq(S) /\ Len(all) = Len(s)
  /\ \A i \in 1..Len(s) : /\ i <= a \/ i > z => all[i] = s[i]
                          /\ i > a + k /\ i <= z => all[i] = s[i - k]
                          /\ i > a /\ i <= a + k => all[i] = new[i - a]

\* and the one when they move down.
LEMMA MovedDownIs ==
    ASSUME NEW S, NEW s \in Seq(S), NEW new \in Seq(S), NEW a \in 0..Len(s), NEW z \in a..Len(s),
           NEW k \in 0..z - a, Len(new) = k
    PROVE  MovedDown(S, s, new, a, z, k,
                     SubSeq(s, 1, a) \o new \o SubSeq(s, a + 1, z - k) \o SubSeq(s, z + 1, Len(s)))
<1>. DEFINE R == Len(s)
            p == SubSeq(s, 1, a)
            q == SubSeq(s, a + 1, z - k)
            t == SubSeq(s, z + 1, R)
            all == p \o new \o q \o t
<1>1. R \in Nat /\ a \in Nat /\ z \in Nat /\ k \in Nat /\ a + k <= z /\ z <= R
  BY LenProperties
<1>2. PICK one \in 1..R + 1 : one = 1
  BY <1>1
<1>3. PICK z1 \in 1..R + 1 : z1 = z + 1
  BY <1>1
<1>4. PICK from \in 1..R + 1 : from = a + 1
  BY <1>1
<1>5. PICK to \in 0..R : to = z - k
  BY <1>1
<1>6. a \in 0..R /\ R \in 0..R
  BY <1>1
<1>7. /\ PartOf(S, s, one, a, SubSeq(s, one, a)) /\ PartOf(S, s, from, to, SubSeq(s, from, to))
      /\ PartOf(S, s, z1, R, SubSeq(s, z1, R))
  BY <1>6, PartOfIs, Zenon
<1>. HIDE DEF R, p, q, t, all
<1>8. p \in Seq(S) /\ Len(p) = a /\ \A i \in 1..a : p[i] = s[i]
  <2>1. PartOf(S, s, one, a, p)
    BY <1>2, <1>7 DEF p
  <2>2. \A i \in 1..a : i \in 1..a - one + 1 /\ one + i - 1 = i
    BY <1>1, <1>2
  <2>3. QED  BY <1>1, <1>2, <2>1, <2>2 DEF PartOf
<1>9. q \in Seq(S) /\ Len(q) = z - k - a /\ \A i \in 1..z - k - a : q[i] = s[i + a]
  <2>1. PartOf(S, s, from, to, q)
    BY <1>4, <1>5, <1>7 DEF q
  <2>2. \A i \in 1..z - k - a : i \in 1..to - from + 1 /\ from + i - 1 = i + a
    BY <1>1, <1>4, <1>5
  <2>3. QED  BY <1>1, <1>4, <1>5, <2>1, <2>2 DEF PartOf
<1>10. t \in Seq(S) /\ Len(t) = R - z /\ \A i \in 1..R - z : t[i] = s[i + z]
  <2>1. PartOf(S, s, z1, R, t)
    BY <1>3, <1>7 DEF t
  <2>2. \A i \in 1..R - z : i \in 1..R - z1 + 1 /\ z1 + i - 1 = i + z
    BY <1>1, <1>3
  <2>3. QED  BY <1>1, <1>3, <2>1, <2>2 DEF PartOf
<1>11. Joined(S, p, new, q, t, all)
  BY <1>8, <1>9, <1>10, JoinedIs, Zenon DEF all
<1>12. /\ all \in Seq(S) /\ Len(all) = R
       /\ \A i \in 1..R : all[i] = IF i <= a THEN p[i] ELSE IF i <= a + k THEN new[i - a]
                                   ELSE IF i <= z THEN q[i - a - k]
                                   ELSE t[i - a - k - (z - k - a)]
  <2>1. a + k + (z - k - a) = z /\ z + (R - z) = R
    BY <1>1
  <2>2. QED  BY <1>8, <1>9, <1>10, <1>11, <2>1 DEF Joined
<1>13. ASSUME NEW i \in 1..R
       PROVE  /\ i <= a \/ i > z => all[i] = s[i]
              /\ i > a + k /\ i <= z => all[i] = s[i - k]
              /\ i > a /\ i <= a + k => all[i] = new[i - a]
  <2>1. CASE i <= a
    BY <1>1, <1>8, <1>12, <2>1
  <2>2. CASE i > a + k /\ i <= z
    <3>1. i - a - k \in 1..z - k - a /\ i - a - k + a = i - k
      BY <1>1, <2>2
    <3>2. q[i - a - k] = s[i - k]
      BY <1>9, <3>1
    <3>3. QED  BY <1>1, <1>12, <2>2, <3>2
  <2>3. CASE i > a /\ i <= a + k
    BY <1>1, <1>12, <2>3
  <2>4. CASE i > z
    <3>1. i - a - k - (z - k - a) \in 1..R - z /\ i - a - k - (z - k - a) + z = i
      BY <1>1, <2>4
    <3>2. t[i - a - k - (z - k - a)] = s[i]
      BY <1>10, <3>1
    <3>3. ~(i <= a) /\ ~(i <= a + k) /\ ~(i <= z)
      BY <1>1, <2>4
    <3>4. QED  BY <1>1, <1>12, <3>2, <3>3
  <2>5. QED  BY <1>1, <2>1, <2>2, <2>3, <2>4
<1>14. MovedDown(S, s, new, a, z, k, all)
  BY <1>12, <1>13 DEF MovedDown, R
<1>15. all = SubSeq(s, 1, a) \o new \o SubSeq(s, a + 1, z - k) \o SubSeq(s, z + 1, Len(s))
  BY DEF all, p, q, t, R
<1>16. QED  BY <1>14, <1>15, Zenon

-----------------------------------------------------------------------------
(* Each action is a step of ScreenLines.                                   *)

\* Blank lines, line by line.
LEMMA BlankLinesAre ==
    ASSUME NEW n \in Nat, NEW C
    PROVE  /\ Lines!BlankLines(n, C) \in Seq([1..C -> Cells]) /\ Len(Lines!BlankLines(n, C)) = n
           /\ \A i \in 1..n : Lines!BlankLines(n, C)[i] = BlankText(C)
<1>. DEFINE L == [1..C -> Cells]
<1>1. BlankText(C) \in L
  BY DEF BlankText, Cells
<1>2. Lines!BlankLines(n, C) = [i \in 1..n |-> BlankText(C)]
  BY DEF Lines!BlankLines, BlankText
<1>. HIDE DEF L
<1>3. Lines!BlankLines(n, C) \in [1..n -> L]
  BY <1>1, <1>2
<1>4. Lines!BlankLines(n, C) \in Seq(L) /\ Len(Lines!BlankLines(n, C)) = n
  BY <1>3, FunctionSeq
<1>5. QED  BY <1>2, <1>4 DEF L

\* scrollDownOneLine of the region is the scrolling of ScreenLines, also when the
\* row of the cursor has just been marked as wrapped.
LEMMA ScrolledIs ==
    ASSUME RingInv, NEW b, IsRing(b), Alike(buffer, b),
           \A e \in Window(buffer) : Row(b, e).text = Row(buffer, e).text,
           NEW c, c = scrollDownOneLine(b, margin.top, margin.bottom)
    PROVE  /\ IsRing(c) /\ c.mTotalRows = buffer.mTotalRows /\ c.mScreenRows = Rows
           /\ c.mColumns = Columns /\ c.mScreenFirstRow \in 0..buffer.mTotalRows - 1
           /\ Screen(c) = Lines!Scrolled /\ Transcript(c) = Lines!WithScrolledOff
           /\ Lines!Scrolled \in Seq([1..Columns -> Cells]) /\ Len(Lines!Scrolled) = Rows
<1>. DEFINE T == buffer.mTotalRows
            R == Rows
            A == buffer.mActiveTranscriptRows
            C == Columns
            top == margin.top
            bottom == margin.bottom
            L == [1..C -> Cells]
            S == Screen(buffer)
            X == Transcript(buffer)
<1>1. /\ R \in 2..T /\ T \in Nat /\ A \in 0..T - R /\ top \in 0..R - 2 /\ bottom \in top + 2..R
      /\ C \in Nat /\ Window(buffer) = -A..R - 1 /\ IsRing(buffer)
      /\ buffer.mScreenRows = R /\ buffer.mColumns = C
      /\ top \in Nat /\ bottom \in Nat /\ R \in Nat /\ A \in Nat
  BY RingFields DEF Rows, Columns
<1>2. /\ b.mTotalRows = T /\ b.mScreenRows = R /\ b.mColumns = C /\ b.mActiveTranscriptRows = A
      /\ Window(b) = Window(buffer)
  BY <1>1 DEF Alike, Window, Rows, Columns
<1>. DEFINE active == IF A < T - R THEN A + 1 ELSE A
<1>3. /\ IsRing(c) /\ c.mTotalRows = T /\ c.mScreenRows = R /\ c.mColumns = C
      /\ c.mActiveTranscriptRows = active /\ c.mScreenFirstRow \in 0..T - 1
      /\ \A e \in Window(c) :
            /\ e < -1 => Row(c, e) = Row(b, e + 1)
            /\ e = -1 => Row(c, e) = Row(b, top)
            /\ e \in 0..top - 1 \/ e >= bottom => Row(c, e) = Row(b, e)
            /\ e \in top..bottom - 2 => Row(c, e) = Row(b, e + 1)
            /\ e = bottom - 1 => Row(c, e).text = BlankText(C)
  <2>1. top \in 0..b.mScreenRows - 1 /\ bottom \in top + 1..b.mScreenRows
    BY <1>1, <1>2
  <2>2. /\ IsRing(c) /\ c.mTotalRows = b.mTotalRows /\ c.mScreenRows = b.mScreenRows /\ c.mColumns = b.mColumns
        /\ c.mActiveTranscriptRows = IF b.mActiveTranscriptRows < b.mTotalRows - b.mScreenRows
                                     THEN b.mActiveTranscriptRows + 1 ELSE b.mActiveTranscriptRows
        /\ c.mScreenFirstRow \in 0..b.mTotalRows - 1
        /\ \A e \in Window(c) :
                 /\ e < -1 => Row(c, e) = Row(b, e + 1)
                 /\ e = -1 => Row(c, e) = Row(b, top)
                 /\ e \in 0..top - 1 \/ e >= bottom => Row(c, e) = Row(b, e)
                 /\ e \in top..bottom - 2 => Row(c, e) = Row(b, e + 1)
                 /\ e = bottom - 1 => Row(c, e).text = [n \in 1..b.mColumns |-> Blank]
    <3>. HIDE DEF top, bottom
    <3>1. c = scrollDownOneLine(b, top, bottom)
      BY DEF top, bottom
    <3>2. QED  BY <2>1, <3>1, ScrollIs
  <2>3. QED  BY <1>2, <2>2 DEF BlankText
<1>4. /\ active \in 0..T - R /\ active \in Nat /\ Window(c) = -active..R - 1
  BY <1>1, <1>3 DEF Window
<1>5. /\ S \in Seq(L) /\ Len(S) = R /\ X \in Seq(L) /\ Len(X) = A
      /\ \A n \in 1..R : S[n] = Row(buffer, n - 1).text
      /\ \A n \in 1..A : X[n] = Row(buffer, n - 1 - A).text
  BY <1>1, LinesOf
<1>6. ASSUME NEW e \in -A..R - 1
      PROVE  Row(b, e).text = Row(buffer, e).text
  BY <1>1
<1>7. /\ Lines!Scrolled = SubSeq(S, 1, top) \o SubSeq(S, top + 2, bottom) \o Lines!BlankLines(1, C)
                            \o SubSeq(S, bottom + 1, R)
      /\ Lines!WithScrolledOff = Lines!AtMostLast(Append(X, S[top + 1]), T - R)
  BY LinesAre DEF Lines!Scrolled, Lines!Above, Lines!Below, Lines!WithScrolledOff
<1>. HIDE DEF top, bottom, L, S, X, T, R, A, C, active
<1>. DEFINE r == Lines!BlankLines(1, C)
            all == SubSeq(S, 1, top) \o SubSeq(S, top + 2, bottom) \o r \o SubSeq(S, bottom + 1, R)
<1>8. r \in Seq(L) /\ Len(r) = 1 /\ r[1] = BlankText(C)
  <2>1. PICK one \in Nat : one = 1
    OBVIOUS
  <2>2. /\ Lines!BlankLines(one, C) \in Seq([1..C -> Cells]) /\ Len(Lines!BlankLines(one, C)) = one
        /\ \A i \in 1..one : Lines!BlankLines(one, C)[i] = BlankText(C)
    BY BlankLinesAre, Zenon
  <2>3. r = Lines!BlankLines(one, C)
    BY <2>1
  <2>. HIDE DEF r
  <2>4. QED  BY <2>1, <2>2, <2>3 DEF L
<1>. HIDE DEF r
<1>9. MovedUp(L, S, r, top, bottom, 1, all)
  <2>1. PICK one \in 0..bottom - top : one = 1
    BY <1>1
  <2>2. PICK from : from = top + 2
    OBVIOUS
  <2>3. from = top + one + 1 /\ top \in 0..Len(S) /\ bottom \in top..Len(S) /\ Len(r) = one
    BY <1>1, <1>5, <1>8, <2>1, <2>2
  <2>4. MovedUp(L, S, r, top, bottom, one,
                SubSeq(S, 1, top) \o SubSeq(S, from, bottom) \o r \o SubSeq(S, bottom + 1, Len(S)))
    BY <1>5, <1>8, <2>3, MovedUpIs, Zenon
  <2>5. QED  BY <1>5, <2>1, <2>2, <2>4
<1>. HIDE DEF all
<1>12. /\ all \in Seq(L) /\ Len(all) = R
       /\ \A i \in 1..R : all[i] = IF i <= top THEN S[i] ELSE IF i <= bottom - 1 THEN S[i + 1]
                                   ELSE IF i = bottom THEN BlankText(C) ELSE S[i]
  <2>1. all \in Seq(L) /\ Len(all) = R
    BY <1>5, <1>9 DEF MovedUp
  <2>2. ASSUME NEW i \in 1..R
        PROVE  all[i] = IF i <= top THEN S[i] ELSE IF i <= bottom - 1 THEN S[i + 1]
                        ELSE IF i = bottom THEN BlankText(C) ELSE S[i]
    <3>1. /\ i <= top \/ i > bottom => all[i] = S[i]
          /\ i > top /\ i <= bottom - 1 => all[i] = S[i + 1]
          /\ i > bottom - 1 /\ i <= bottom => all[i] = r[i - (bottom - 1)]
      BY <1>5, <1>9 DEF MovedUp
    <3>2. i = bottom => i - (bottom - 1) = 1 /\ i > bottom - 1 /\ i <= bottom
      BY <1>1
    <3>3. i = bottom => all[i] = BlankText(C)
      BY <1>8, <3>1, <3>2
    <3>4. QED  BY <1>1, <3>1, <3>3
  <2>3. QED  BY <2>1, <2>2
<1>13. Screen(c) = all
  <2>1. ASSUME NEW n \in 1..R
        PROVE  all[n] = Row(c, n - 1).text
    <3>1. /\ n - 1 \in Window(c) /\ ~(n - 1 < -1) /\ n - 1 # -1 /\ n - 1 \in -A..R - 1
          /\ n \in -A..R
      BY <1>1, <1>4
    <3>2. CASE n <= top \/ n > bottom
      <4>1. n - 1 \in 0..top - 1 \/ n - 1 >= bottom
        BY <1>1, <3>2
      <4>2. Row(c, n - 1) = Row(b, n - 1)
        BY <1>3, <3>1, <4>1
      <4>3. all[n] = S[n]
        BY <1>1, <1>12, <3>2
      <4>4. QED  BY <1>5, <1>6, <3>1, <4>2, <4>3
    <3>3. CASE n > top /\ n < bottom
      <4>1. n - 1 \in top..bottom - 2 /\ n - 1 + 1 = n /\ n + 1 \in 1..R /\ n + 1 - 1 = n /\ n \in -A..R - 1
        BY <1>1, <3>3
      <4>2. Row(c, n - 1) = Row(b, n)
        BY <1>3, <3>1, <4>1
      <4>3. all[n] = S[n + 1]
        BY <1>1, <1>12, <3>3
      <4>4. QED  BY <1>5, <1>6, <4>1, <4>2, <4>3
    <3>4. CASE n = bottom
      <4>1. all[n] = BlankText(C)
        BY <1>1, <1>12, <3>4
      <4>2. QED  BY <1>3, <3>1, <3>4, <4>1
    <3>5. QED  BY <1>1, <3>2, <3>3, <3>4
  <2>2. all \in Seq([1..c.mColumns -> Cells]) /\ Len(all) = c.mScreenRows
    BY <1>3, <1>12 DEF L
  <2>3. QED  BY <1>3, <2>1, <2>2, ScreenEquals
<1>. DEFINE X1 == Append(X, S[top + 1])
<1>14. /\ X1 \in Seq(L) /\ Len(X1) = A + 1 /\ \A i \in 1..A : X1[i] = X[i]
       /\ X1[A + 1] = S[top + 1]
  <2>1. S[top + 1] \in L
    <3>1. top + 1 \in 1..Len(S)
      BY <1>1, <1>5
    <3>2. QED  BY <1>5, <3>1, ElementOfSeq
  <2>2. QED  BY <1>1, <1>5, <2>1
<1>. HIDE DEF X1
<1>15. Lines!AtMostLast(X1, T - R) \in Seq(L) /\ Len(Lines!AtMostLast(X1, T - R)) = active
       /\ \A i \in 1..active : Lines!AtMostLast(X1, T - R)[i] = X1[i + (A + 1 - active)]
  <2>1. CASE A < T - R
    <3>1. Lines!AtMostLast(X1, T - R) = X1 /\ active = A + 1
      BY <1>1, <1>14, <2>1 DEF Lines!AtMostLast, active
    <3>2. QED  BY <1>1, <1>14, <3>1
  <2>2. CASE A = T - R
    <3>1. Lines!AtMostLast(X1, T - R) = SubSeq(X1, 2, A + 1) /\ active = A
      <4>1. ~(Len(X1) <= T - R) /\ Len(X1) - (T - R) + 1 = 2
        BY <1>1, <1>14, <2>2
      <4>2. Lines!AtMostLast(X1, T - R) = SubSeq(X1, 2, A + 1)
        BY <1>14, <4>1 DEF Lines!AtMostLast, Lines!LastOf
      <4>3. QED  BY <1>1, <2>2, <4>2 DEF active
    <3>2. 2 \in 1..Len(X1) + 1 /\ A + 1 \in 0..Len(X1)
      BY <1>1, <1>14
    <3>3. PICK m \in 1..Len(X1) + 1 : m = 2
      BY <3>2
    <3>4. PICK n \in 0..Len(X1) : n = A + 1
      BY <3>2
    <3>5. PICK w : w = Lines!AtMostLast(X1, T - R)
      OBVIOUS
    <3>6. PartOf(L, X1, m, n, SubSeq(X1, m, n))
      BY <1>14, PartOfIs, Zenon
    <3>7. PartOf(L, X1, m, n, w)
      BY <3>1, <3>3, <3>4, <3>5, <3>6
    <3>8. w \in Seq(L) /\ Len(w) = A
      BY <1>1, <3>3, <3>4, <3>7 DEF PartOf
    <3>9. ASSUME NEW i \in 1..A
          PROVE  w[i] = X1[i + 1]
      <4>1. i \in 1..n - m + 1 /\ m + i - 1 = i + 1
        BY <1>1, <3>3, <3>4
      <4>2. QED  BY <3>7, <4>1 DEF PartOf
    <3>10. active = A /\ A + 1 - active = 1
      BY <1>1, <3>1
    <3>11. QED  BY <3>5, <3>8, <3>9, <3>10
  <2>3. QED  BY <1>1, <2>1, <2>2
<1>16. Transcript(c) = Lines!AtMostLast(X1, T - R)
  <2>1. ASSUME NEW n \in 1..active
        PROVE  Lines!AtMostLast(X1, T - R)[n] = Row(c, n - 1 - active).text
    <3>1. /\ n - 1 - active \in Window(c) /\ ~(n - 1 - active \in 0..top - 1 \/ n - 1 - active >= bottom)
          /\ n - 1 - active <= -1
      BY <1>1, <1>4
    <3>2. CASE n = active
      <4>1. n - 1 - active = -1 /\ n + (A + 1 - active) = A + 1
        BY <1>1, <1>4, <3>2
      <4>2. Row(c, n - 1 - active) = Row(b, top)
        BY <1>3, <3>1, <4>1
      <4>3. top \in -A..R - 1 /\ top + 1 \in 1..R /\ top + 1 - 1 = top
        BY <1>1
      <4>4. Lines!AtMostLast(X1, T - R)[n] = X1[A + 1]
        BY <1>15, <4>1
      <4>5. S[top + 1] = Row(buffer, top).text
        <5>1. PICK i \in 1..R : i = top + 1
          BY <4>3
        <5>2. S[i] = Row(buffer, i - 1).text
          BY <1>5
        <5>3. i - 1 = top
          BY <1>1, <5>1
        <5>4. QED  BY <5>1, <5>2, <5>3
      <4>6. QED  BY <1>6, <1>14, <4>1, <4>2, <4>3, <4>4, <4>5
    <3>3. CASE n # active
      <4>1. /\ n - 1 - active < -1 /\ n - 1 - active + 1 = n - active /\ n - active \in -A..R - 1
            /\ n + (A + 1 - active) \in 1..A /\ n + (A + 1 - active) - 1 - A = n - active
        <5>1. active = A \/ active = A + 1
          BY DEF active
        <5>2. QED  BY <1>1, <1>4, <3>3, <5>1
      <4>2. Row(c, n - 1 - active) = Row(b, n - active)
        BY <1>3, <3>1, <4>1
      <4>3. Lines!AtMostLast(X1, T - R)[n] = X[n + (A + 1 - active)]
        BY <1>14, <1>15, <4>1
      <4>4. X[n + (A + 1 - active)] = Row(buffer, n - active).text
        <5>1. PICK i \in 1..A : i = n + (A + 1 - active)
          BY <4>1
        <5>2. X[i] = Row(buffer, i - 1 - A).text
          BY <1>5
        <5>3. i - 1 - A = n - active
          BY <1>1, <1>4, <4>1, <5>1
        <5>4. QED  BY <5>1, <5>2, <5>3
      <4>5. QED  BY <1>6, <4>1, <4>2, <4>3, <4>4
    <3>4. QED  BY <3>2, <3>3
  <2>2. Lines!AtMostLast(X1, T - R) \in Seq([1..c.mColumns -> Cells])
        /\ Len(Lines!AtMostLast(X1, T - R)) = c.mActiveTranscriptRows
    BY <1>3, <1>15 DEF L
  <2>3. QED  BY <1>3, <2>1, <2>2, TranscriptEquals
<1>17. QED
  <2>1. Lines!Scrolled = all /\ Lines!WithScrolledOff = Lines!AtMostLast(X1, T - R)
    BY <1>7 DEF all, r, X1
  <2>2. QED  BY <1>3, <1>12, <1>13, <1>16, <2>1 DEF T, R, C, L

\* Buffers that differ in the texts of the screen only.
LEMMA AlikeLines ==
    ASSUME NEW b, IsRing(b), NEW c, IsRing(c), Alike(b, c),
           \A e \in Window(b) : e < 0 => Row(c, e).text = Row(b, e).text,
           NEW s \in Seq([1..b.mColumns -> Cells]), Len(s) = b.mScreenRows,
           \A n \in 1..b.mScreenRows : Row(c, n - 1).text = s[n]
    PROVE  Screen(c) = s /\ Transcript(c) = Transcript(b)
<1>1. /\ c.mScreenRows = b.mScreenRows /\ c.mColumns = b.mColumns
      /\ c.mActiveTranscriptRows = b.mActiveTranscriptRows
      /\ b.mScreenRows \in Nat /\ b.mActiveTranscriptRows \in Nat
  BY Fields DEF Alike, IsRing
<1>2. Screen(c) = s
  <2>1. s \in Seq([1..c.mColumns -> Cells]) /\ Len(s) = c.mScreenRows
        /\ \A n \in 1..c.mScreenRows : s[n] = Row(c, n - 1).text
    BY <1>1
  <2>2. QED  BY <2>1, ScreenEquals, Zenon
<1>3. Transcript(c) = Transcript(b)
  <2>1. ASSUME NEW n \in 1..b.mActiveTranscriptRows
        PROVE  Row(c, n - 1 - b.mActiveTranscriptRows).text = Row(b, n - 1 - b.mActiveTranscriptRows).text
    <3>1. n - 1 - b.mActiveTranscriptRows \in Window(b) /\ n - 1 - b.mActiveTranscriptRows < 0
      BY <1>1 DEF Window
    <3>2. QED  BY <3>1
  <2>2. QED  BY <1>1, <2>1 DEF Transcript
<1>4. QED  BY <1>2, <1>3

\* The lines of a screen, one of which has changed.
OneLine(b, c, r, text) ==
  Screen(c) = [Screen(b) EXCEPT ![r + 1] = text] /\ Transcript(c) = Transcript(b)

\* When one row of the screen has another text, that line of the screen changes.
LEMMA LineChanged ==
    ASSUME NEW b, IsRing(b), NEW c, IsRing(c), Alike(b, c), NEW r \in 0..b.mScreenRows - 1,
           \A e \in Window(b) \ {r} : Row(c, e).text = Row(b, e).text,
           NEW text \in [1..b.mColumns -> Cells], Row(c, r).text = text
    PROVE  OneLine(b, c, r, text)
<1>. DEFINE S == Screen(b)
            s == [S EXCEPT ![r + 1] = text]
            R == b.mScreenRows
            L == [1..b.mColumns -> Cells]
<1>1. /\ S \in Seq(L) /\ Len(S) = R /\ R \in Nat /\ \A n \in 1..R : S[n] = Row(b, n - 1).text
      /\ Window(b) = -b.mActiveTranscriptRows..R - 1 /\ b.mActiveTranscriptRows \in Nat
  <2>1. R \in Nat /\ b.mActiveTranscriptRows \in Nat
    BY Fields DEF IsRing
  <2>2. S \in Seq(L) /\ Len(S) = R /\ \A n \in 1..R : S[n] = Row(b, n - 1).text
    BY LinesOf
  <2>3. QED  BY <2>1, <2>2 DEF Window
<1>. HIDE DEF L, S, R
<1>2. r + 1 \in 1..R /\ text \in L
  BY <1>1 DEF R, L
<1>3. s \in Seq(L) /\ Len(s) = R /\ s[r + 1] = text /\ \A n \in 1..R : n # r + 1 => s[n] = S[n]
  BY <1>1, <1>2
<1>. HIDE DEF s
<1>4. ASSUME NEW n \in 1..R
      PROVE  Row(c, n - 1).text = s[n]
  <2>1. CASE n = r + 1
    <3>1. n - 1 = r
      BY <1>1, <1>2, <2>1 DEF R
    <3>2. QED  BY <1>3, <2>1, <3>1
  <2>2. CASE n # r + 1
    <3>1. n - 1 \in Window(b) \ {r}
      BY <1>1, <1>2, <2>2 DEF R
    <3>2. QED  BY <1>1, <1>3, <2>2, <3>1
  <2>3. QED  BY <2>1, <2>2
<1>5. \A e \in Window(b) : e < 0 => Row(c, e).text = Row(b, e).text
  <2>1. ASSUME NEW e \in Window(b), e < 0
        PROVE  e \in Window(b) \ {r}
    BY <1>1, <1>2, <2>1 DEF R
  <2>2. QED  BY <2>1
<1>6. Screen(c) = s /\ Transcript(c) = Transcript(b)
  BY <1>3, <1>4, <1>5, AlikeLines, Zenon DEF L, R
<1>7. QED  BY <1>6 DEF s, S, OneLine

\* setChar changes one cell of one line of the screen.
LEMMA PutText ==
    ASSUME NEW b, IsRing(b), NEW row \in 0..b.mScreenRows - 1, NEW column \in 0..b.mColumns - 1,
           NEW char \in Cells, NEW c, c = setChar(b, column, row, char)
    PROVE  /\ IsRing(c) /\ Alike(b, c)
           /\ Screen(c) = [Screen(b) EXCEPT ![row + 1][column + 1] = char]
           /\ Transcript(c) = Transcript(b)
<1>1. /\ b.mScreenRows \in Nat /\ b.mActiveTranscriptRows \in Nat /\ b.mColumns \in Nat
  BY Fields DEF IsRing
<1>2. row \in Window(b)
  BY <1>1 DEF Window
<1>. DEFINE text == [Row(b, row).text EXCEPT ![column + 1] = char]
<1>3. /\ IsRing(c) /\ Alike(b, c) /\ Row(c, row).text = text
      /\ \A f \in Window(b) \ {row} : Row(c, f) = Row(b, f)
  BY <1>2, SetCharIs
<1>4. text \in [1..b.mColumns -> Cells]
  <2>1. Row(b, row).text \in [1..b.mColumns -> Cells]
    BY <1>2, LinesOf
  <2>2. QED  BY <2>1
<1>5. Screen(b)[row + 1] = Row(b, row).text
  <2>1. PICK n \in 1..b.mScreenRows : n = row + 1
    BY <1>1
  <2>2. n - 1 = row
    BY <1>1, <2>1
  <2>3. QED  BY <2>1, <2>2, LinesOf
<1>. HIDE DEF text
<1>6. OneLine(b, c, row, text)
  <2>1. \A f \in Window(b) \ {row} : Row(c, f).text = Row(b, f).text
    BY <1>3
  <2>2. QED  BY <1>3, <1>4, <2>1, LineChanged, Zenon
<1>7. QED  BY <1>3, <1>5, <1>6 DEF text, OneLine

\* What ScreenLines sees of a step.
LEMMA SeenLines ==
    ASSUME RingInv, IsRing(buffer')
    PROVE  /\ Texts(0, buffer.mScreenRows - 1) = Screen(buffer)
           /\ Texts(-buffer.mActiveTranscriptRows, -1) = Transcript(buffer)
           /\ Texts(0, buffer.mScreenRows - 1)' = Screen(buffer')
           /\ Texts(-buffer.mActiveTranscriptRows, -1)' = Transcript(buffer')
           /\ Lines!Rows = Rows /\ Lines!Columns = Columns
BY LinesAre, PrimedLines

\* Printing a character: it may wrap, and wrapping may scroll.
LEMMA PutIs ==
    ASSUME RingInv, NEW char \in Chars, emitCodePoint(char)
    PROVE  RingInv' /\ Lines!Put(char)
<1>. DEFINE wraps == mAboutToAutoWrap /\ cursor.column = Columns - 1
            down == wraps /\ cursor.row + 1 < margin.bottom
            scrolls == wraps /\ cursor.row + 1 >= margin.bottom
            wrapped == IF wraps THEN setLineWrap(buffer, cursor.row, TRUE) ELSE buffer
            b == IF wraps /\ ~down THEN scrollDownOneLine(wrapped, margin.top, margin.bottom) ELSE wrapped
            column == IF wraps THEN 0 ELSE cursor.column
            row == IF down THEN cursor.row + 1 ELSE cursor.row
            C == Columns
            R == Rows
<1>1. /\ C \in Nat /\ C > 1 /\ R \in Nat /\ R > 1 /\ IsRing(buffer) /\ cursor.column \in 0..C - 1 /\ cursor.row \in 0..R - 1
      /\ margin.top \in 0..R - 2 /\ margin.bottom \in margin.top + 2..R /\ margin.bottom \in Nat
      /\ mAboutToAutoWrap \in BOOLEAN /\ cursor.row \in Window(buffer)
      /\ buffer.mScreenRows = R /\ buffer.mColumns = C
  BY RingFields DEF Window, RingInv, Rows, Columns
<1>2. /\ buffer' = setChar(b, column, row, char) /\ mAboutToAutoWrap' = (column = C - 1)
      /\ cursor' = [column |-> Smaller(column + 1, C - 1), row |-> row] /\ margin' = margin /\ alt' = alt
  BY DEF emitCodePoint
<1>3. scrolls <=> wraps /\ ~down
  BY <1>1
<1>4. /\ column \in 0..C - 1 /\ row \in 0..R - 1
      /\ Smaller(column + 1, C - 1) \in 0..C - 1
  BY <1>1 DEF Smaller
<1>5. /\ IsRing(wrapped) /\ Alike(buffer, wrapped)
      /\ \A e \in Window(buffer) : Row(wrapped, e).text = Row(buffer, e).text
  <2>1. CASE wraps
    <3>1. PICK wrap \in BOOLEAN : wrap = TRUE
      OBVIOUS
    <3>2. wrapped = setLineWrap(buffer, cursor.row, wrap)
      BY <2>1, <3>1
    <3>. HIDE DEF wrapped
    <3>3. QED  BY <1>1, <3>2, SetLineWrapIs
  <2>2. CASE ~wraps
    BY <1>1, <2>2 DEF Alike
  <2>3. QED  BY <2>1, <2>2
<1>. HIDE DEF wrapped
<1>6. /\ IsRing(b) /\ b.mTotalRows = buffer.mTotalRows /\ b.mScreenRows = R /\ b.mColumns = C
      /\ b.mScreenFirstRow = buffer.mScreenFirstRow \/ b.mScreenFirstRow \in 0..buffer.mTotalRows - 1
      /\ Screen(b) = IF scrolls THEN Lines!Scrolled ELSE Screen(buffer)
      /\ Transcript(b) = IF scrolls THEN Lines!WithScrolledOff ELSE Transcript(buffer)
  <2>1. CASE scrolls
    <3>1. b = scrollDownOneLine(wrapped, margin.top, margin.bottom)
      BY <1>3, <2>1
    <3>. HIDE DEF b
    <3>2. /\ IsRing(b) /\ b.mTotalRows = buffer.mTotalRows /\ b.mScreenRows = Rows
          /\ b.mColumns = Columns /\ b.mScreenFirstRow \in 0..buffer.mTotalRows - 1
          /\ Screen(b) = Lines!Scrolled /\ Transcript(b) = Lines!WithScrolledOff
      BY <1>5, <3>1, ScrolledIs
    <3>3. QED  BY <2>1, <3>2
  <2>2. CASE ~scrolls
    <3>1. b = wrapped
      BY <1>3, <2>2
    <3>. HIDE DEF b
    <3>2. /\ b.mTotalRows = buffer.mTotalRows /\ b.mScreenRows = R /\ b.mColumns = C
          /\ b.mScreenFirstRow = buffer.mScreenFirstRow
      BY <1>1, <1>5, <3>1 DEF Alike
    <3>3. /\ Screen(buffer) \in Seq([1..buffer.mColumns -> Cells]) /\ Len(Screen(buffer)) = buffer.mScreenRows
          /\ \A n \in 1..buffer.mScreenRows : Row(b, n - 1).text = Screen(buffer)[n]
          /\ \A e \in Window(buffer) : e < 0 => Row(b, e).text = Row(buffer, e).text
      <4>1. \A n \in 1..buffer.mScreenRows : n - 1 \in Window(buffer)
        BY <1>1, RingFields DEF Window
      <4>2. QED  BY <1>1, <1>5, <3>1, <4>1, LinesOf
    <3>4. Screen(b) = Screen(buffer) /\ Transcript(b) = Transcript(buffer)
      BY <1>1, <1>5, <3>1, <3>3, AlikeLines, Zenon
    <3>5. QED  BY <1>5, <2>2, <3>1, <3>2, <3>4
  <2>3. QED  BY <2>1, <2>2
<1>. HIDE DEF b, column, row, wraps, down, scrolls, C, R
<1>7. /\ IsRing(buffer') /\ Alike(b, buffer')
      /\ Screen(buffer') = [Screen(b) EXCEPT ![row + 1][column + 1] = char]
      /\ Transcript(buffer') = Transcript(b)
  <2>1. char \in Cells
    BY DEF Cells
  <2>2. row \in 0..b.mScreenRows - 1 /\ column \in 0..b.mColumns - 1
    BY <1>4, <1>6
  <2>3. QED  BY <1>2, <1>6, <2>1, <2>2, PutText
<1>8. RingInv'
  <2>1. /\ buffer'.mTotalRows = buffer.mTotalRows /\ buffer'.mScreenRows = Rows /\ buffer'.mColumns = Columns
        /\ buffer'.mScreenFirstRow = buffer.mScreenFirstRow
             \/ buffer'.mScreenFirstRow \in 0..buffer.mTotalRows - 1
    BY <1>6, <1>7 DEF Alike, C, R
  <2>2. cursor' \in [column : 0..Columns - 1, row : 0..Rows - 1]
    BY <1>2, <1>4 DEF C, R
  <2>3. QED  BY <1>2, <1>7, <2>1, <2>2, KeepsRing
<1>9. Lines!Put(char)
  <2>1. row = IF wraps /\ ~scrolls THEN cursor.row + 1 ELSE cursor.row
    <3>1. wraps /\ ~scrolls <=> down
      BY <1>1, <1>3 DEF wraps, scrolls, down
    <3>2. QED  BY <3>1 DEF row
  <2>2. Lines!Smaller(column + 1, C - 1) = Smaller(column + 1, C - 1)
    BY DEF Lines!Smaller, Smaller
  <2>3. /\ cursor' = [column |-> Lines!Smaller(column + 1, Lines!Columns - 1), row |-> row]
        /\ mAboutToAutoWrap' = (column = Lines!Columns - 1)
    BY <1>2, <1>7, <2>2, SeenLines DEF C
  <2>4. /\ Transcript(buffer') = IF scrolls THEN Lines!WithScrolledOff ELSE Transcript(buffer)
        /\ Screen(buffer') = [(IF scrolls THEN Lines!Scrolled ELSE Screen(buffer))
                                EXCEPT ![row + 1][column + 1] = char]
    BY <1>6, <1>7
  <2>5. QED
    BY <1>2, <1>7, <2>1, <2>3, <2>4, SeenLines DEF Lines!Put, wraps, scrolls, column, C
<1>10. QED  BY <1>8, <1>9

\* A buffer that stays, and one whose texts stay.
LEMMA SameBuffer ==
    ASSUME RingInv, buffer' = buffer
    PROVE  IsRing(buffer') /\ Alike(buffer, buffer')
BY RingFields DEF Alike

\* A line feed.
LEMMA doLinefeedIs ==
    ASSUME RingInv, doLinefeed
    PROVE  RingInv' /\ Lines!LineFeed
<1>1. /\ Columns \in Nat /\ Rows \in Nat /\ IsRing(buffer) /\ cursor.row \in 0..Rows - 1
      /\ cursor.column \in 0..Columns - 1 /\ cursor = [column |-> cursor.column, row |-> cursor.row]
      /\ margin.bottom \in 0..Rows
  BY RingFields
<1>2. CASE cursor.row + 1 = margin.bottom
  <2>1. /\ buffer' = scrollDownOneLine(buffer, margin.top, margin.bottom)
        /\ cursor' = cursor /\ mAboutToAutoWrap' = FALSE /\ margin' = margin /\ alt' = alt
    BY <1>2 DEF doLinefeed, Scrolled
  <2>2. Alike(buffer, buffer) /\ \A e \in Window(buffer) : Row(buffer, e).text = Row(buffer, e).text
    BY DEF Alike
  <2>3. /\ IsRing(buffer') /\ buffer'.mTotalRows = buffer.mTotalRows /\ buffer'.mScreenRows = Rows
        /\ buffer'.mColumns = Columns /\ buffer'.mScreenFirstRow \in 0..buffer.mTotalRows - 1
        /\ Screen(buffer') = Lines!Scrolled /\ Transcript(buffer') = Lines!WithScrolledOff
    BY <1>1, <2>1, <2>2, ScrolledIs
  <2>4. RingInv'
    BY <2>1, <2>3, KeepsRing DEF RingInv
  <2>5. Lines!LineFeed
    BY <1>2, <2>1, <2>3, SeenLines DEF Lines!LineFeed
  <2>6. QED  BY <2>4, <2>5
<1>3. CASE cursor.row + 1 # margin.bottom
  <2>1. /\ cursor.row + 1 < Rows /\ buffer' = buffer /\ cursor' = [cursor EXCEPT !.row = cursor.row + 1]
        /\ mAboutToAutoWrap' = FALSE /\ margin' = margin /\ alt' = alt
    BY <1>3 DEF doLinefeed
  <2>2. cursor' = [column |-> cursor.column, row |-> cursor.row + 1]
    BY <1>1, <2>1
  <2>3. cursor' \in [column : 0..Columns - 1, row : 0..Rows - 1]
    BY <1>1, <2>1, <2>2
  <2>4. RingInv'
    BY <2>1, <2>3, SameBuffer, KeepsAlike
  <2>5. Lines!LineFeed
    <3>1. cursor.row < Rows - 1
      BY <1>1, <2>1
    <3>2. QED  BY <1>3, <2>1, <3>1, SameBuffer, SeenLines DEF Lines!LineFeed
  <2>6. QED  BY <2>4, <2>5
<1>4. QED  BY <1>2, <1>3

\* Moving the cursor.
LEMMA setCursorRowColIs ==
    ASSUME RingInv, setCursorRowCol
    PROVE  RingInv' /\ Lines!MoveCursor
<1>1. /\ buffer' = buffer /\ cursor' \in [column : 0..Columns - 1, row : 0..Rows - 1]
      /\ mAboutToAutoWrap' = FALSE /\ margin' = margin /\ alt' = alt
  BY DEF setCursorRowCol
<1>2. RingInv'
  BY <1>1, SameBuffer, KeepsAlike
<1>3. Lines!MoveCursor
  BY <1>1, SameBuffer, SeenLines DEF Lines!MoveCursor
<1>4. QED  BY <1>2, <1>3

\* Setting the margins.
LEMMA SetMarginsIs ==
    ASSUME RingInv, SetMargins
    PROVE  RingInv' /\ Lines!SetMargins
<1>1. PICK top \in 0..Rows - 2 : \E bottom \in top + 2..Rows : margin' = [top |-> top, bottom |-> bottom]
  BY DEF SetMargins
<1>2. buffer' = buffer /\ cursor' = [column |-> 0, row |-> 0] /\ mAboutToAutoWrap' = FALSE /\ alt' = alt
  BY DEF SetMargins, Home
<1>3. Columns \in Nat /\ Columns > 1 /\ Rows \in Nat /\ Rows > 1
  BY RingFields
<1>4. RingInv'
  <2>1. Columns' = Columns /\ Rows' = Rows
    BY <1>2 DEF Columns, Rows
  <2>2. cursor' \in [column : 0..Columns - 1, row : 0..Rows - 1]
    BY <1>2, <1>3
  <2>3. margin'.top \in 0..Rows - 2 /\ margin'.bottom \in margin'.top + 2..Rows
    BY <1>1
  <2>4. QED  BY <1>2, <2>1, <2>2, <2>3 DEF RingInv
<1>5. Lines!SetMargins
  <2>1. \E t \in 0..Rows - 2 : \E b \in t + 2..Rows : margin' = [top |-> t, bottom |-> b]
    BY <1>1
  <2>2. QED  BY <1>2, <2>1, SameBuffer, SeenLines DEF Lines!SetMargins
<1>6. QED  BY <1>4, <1>5

\* A backspace: back over the end of a wrapped row it clears a mark and no text.
LEMMA BackspaceIs ==
    ASSUME RingInv, Backspace
    PROVE  RingInv' /\ Lines!MoveCursor
<1>1. /\ Columns \in Nat /\ Columns > 1 /\ Rows \in Nat /\ IsRing(buffer) /\ cursor.row \in 0..Rows - 1
      /\ cursor.column \in 0..Columns - 1 /\ cursor = [column |-> cursor.column, row |-> cursor.row]
      /\ Window(buffer) = -buffer.mActiveTranscriptRows..Rows - 1 /\ buffer.mActiveTranscriptRows \in Nat
      /\ buffer.mScreenRows = Rows
  BY RingFields DEF Rows
<1>2. mAboutToAutoWrap' = FALSE /\ margin' = margin /\ alt' = alt
  BY DEF Backspace
<1>3. CASE cursor.column > 0 /\ cursor' = [cursor EXCEPT !.column = cursor.column - 1] /\ buffer' = buffer
  <2>1. cursor' = [column |-> cursor.column - 1, row |-> cursor.row]
    BY <1>1, <1>3
  <2>2. cursor' \in [column : 0..Columns - 1, row : 0..Rows - 1]
    BY <1>1, <1>3, <2>1
  <2>3. RingInv'
    BY <1>2, <1>3, <2>2, SameBuffer, KeepsAlike
  <2>4. Lines!MoveCursor
    BY <1>2, <1>3, <2>2, SameBuffer, SeenLines DEF Lines!MoveCursor
  <2>5. QED  BY <2>3, <2>4
<1>4. CASE /\ cursor.row - 1 >= 0 /\ buffer' = setLineWrap(buffer, cursor.row - 1, FALSE)
           /\ cursor' = [column |-> Columns - 1, row |-> cursor.row - 1]
  <2>1. cursor' \in [column : 0..Columns - 1, row : 0..Rows - 1] /\ cursor.row - 1 \in Window(buffer)
    BY <1>1, <1>4
  <2>2. /\ IsRing(buffer') /\ Alike(buffer, buffer')
        /\ \A f \in Window(buffer) : Row(buffer', f).text = Row(buffer, f).text
    BY <1>1, <1>4, <2>1, SetLineWrapIs
  <2>3. RingInv'
    BY <1>2, <2>1, <2>2, KeepsAlike
  <2>4. Screen(buffer') = Screen(buffer) /\ Transcript(buffer') = Transcript(buffer)
    <3>1. /\ Screen(buffer) \in Seq([1..buffer.mColumns -> Cells]) /\ Len(Screen(buffer)) = buffer.mScreenRows
          /\ \A n \in 1..buffer.mScreenRows : Row(buffer', n - 1).text = Screen(buffer)[n]
          /\ \A e \in Window(buffer) : e < 0 => Row(buffer', e).text = Row(buffer, e).text
      <4>1. \A n \in 1..buffer.mScreenRows : n - 1 \in Window(buffer)
        BY <1>1
      <4>2. QED  BY <1>1, <2>2, <4>1, LinesOf
    <3>2. QED  BY <1>1, <2>2, <3>1, AlikeLines, Zenon
  <2>5. Lines!MoveCursor
    BY <1>2, <2>1, <2>2, <2>4, SeenLines DEF Lines!MoveCursor
  <2>6. QED  BY <2>3, <2>5
<1>5. QED  BY <1>3, <1>4 DEF Backspace

\* Lines of the screen that move down, or up, with blank ones in their place.
Moved(c, sy, h, dy, y, k) ==
  c = blockSet(blockCopy(buffer, 0, sy, Columns, h, 0, dy), 0, y, Columns, k)

\* A buffer with the transcript of before and this screen.
WithScreen(c, screen) ==
  IsRing(c) /\ Alike(buffer, c) /\ Transcript(c) = Transcript(buffer) /\ Screen(c) = screen

\* The screen after lines a+1 to z have moved down by k, and after they have moved up.
LinesDownTo(a, z, k) ==
  SubSeq(Screen(buffer), 1, a) \o Lines!BlankLines(k, Columns)
    \o SubSeq(Screen(buffer), a + 1, z - k) \o SubSeq(Screen(buffer), z + 1, Rows)

LinesUpTo(a, z, k) ==
  SubSeq(Screen(buffer), 1, a) \o SubSeq(Screen(buffer), a + k + 1, z)
    \o Lines!BlankLines(k, Columns) \o SubSeq(Screen(buffer), z + 1, Rows)

\* Rows that move down in the ring are lines that move down,
LEMMA LinesDown ==
    ASSUME RingInv, NEW a \in 0..Rows, NEW z \in a..Rows, NEW k \in 0..z - a,
           NEW h, h = z - a - k, NEW dy, dy = a + k,
           NEW c, Moved(c, a, h, dy, a, k)
    PROVE  WithScreen(c, LinesDownTo(a, z, k))
<1>. DEFINE R == Rows
            C == Columns
            A == buffer.mActiveTranscriptRows
            S == Screen(buffer)
            L == [1..C -> Cells]
            new == Lines!BlankLines(k, C)
            all == SubSeq(S, 1, a) \o new \o SubSeq(S, a + 1, z - k) \o SubSeq(S, z + 1, R)
<1>1. /\ R \in Nat /\ A \in Nat /\ Window(buffer) = -A..R - 1 /\ IsRing(buffer)
      /\ buffer.mScreenRows = R /\ buffer.mColumns = C /\ C \in Nat
      /\ a \in Nat /\ z \in Nat /\ k \in Nat /\ h \in Nat /\ dy \in Nat /\ a + k <= z /\ z <= R
  <2>1. R \in Nat
    BY RingFields
  <2>2. a \in Nat /\ z \in Nat /\ k \in Nat /\ a + k <= z /\ z <= R
    BY <2>1
  <2>3. h \in Nat /\ dy \in Nat
    BY <2>2
  <2>4. /\ A \in Nat /\ Window(buffer) = -A..R - 1 /\ IsRing(buffer)
        /\ buffer.mScreenRows = R /\ buffer.mColumns = C /\ C \in Nat
    BY RingFields DEF Rows, Columns
  <2>5. QED  BY <2>1, <2>2, <2>3, <2>4
<1>2. /\ S \in Seq(L) /\ Len(S) = R
      /\ \A n \in 1..R : S[n] = Row(buffer, n - 1).text
  BY <1>1, LinesOf
<1>3. /\ IsRing(c) /\ Alike(buffer, c)
      /\ \A e \in Window(buffer) :
           /\ e \in a..a + k - 1 => Row(c, e).text = BlankText(C)
           /\ e \notin a..a + k - 1 /\ e \in dy..dy + h - 1 => Row(c, e).text = Row(buffer, e - dy + a).text
           /\ e \notin a..a + k - 1 /\ e \notin dy..dy + h - 1 => Row(c, e) = Row(buffer, e)
  <2>1. /\ a..a + h - 1 \subseteq Window(buffer) /\ dy..dy + h - 1 \subseteq Window(buffer)
        /\ a..a + k - 1 \subseteq Window(buffer)
    BY <1>1
  <2>2. c = blockSet(blockCopy(buffer, 0, a, buffer.mColumns, h, 0, dy), 0, a, buffer.mColumns, k)
    BY <1>1 DEF Moved
  <2>3. a \in Int /\ dy \in Int /\ k \in Int
    BY <1>1
  <2>4. RowsShifted(buffer, a, dy, h, a, k, c)
    BY <1>1, <2>1, <2>2, <2>3, RowsShiftedIs, Zenon
  <2>5. QED  BY <1>1, <2>4 DEF RowsShifted
<1>4. /\ new \in Seq(L) /\ Len(new) = k /\ \A i \in 1..k : new[i] = BlankText(C)
  BY <1>1, BlankLinesAre
<1>. HIDE DEF L, S, R, C, A, new
<1>5. MovedDown(L, S, new, a, z, k, all)
  <2>1. a \in 0..Len(S) /\ z \in a..Len(S)
    BY <1>2 DEF R
  <2>2. MovedDown(L, S, new, a, z, k,
                  SubSeq(S, 1, a) \o new \o SubSeq(S, a + 1, z - k) \o SubSeq(S, z + 1, Len(S)))
    BY <1>2, <1>4, <2>1, MovedDownIs, Zenon
  <2>3. QED  BY <1>2, <2>2
<1>. HIDE DEF all
<1>6. all \in Seq(L) /\ Len(all) = R
  BY <1>2, <1>5 DEF MovedDown
<1>7. ASSUME NEW n \in 1..R
      PROVE  Row(c, n - 1).text = all[n]
  <2>1. /\ n <= a \/ n > z => all[n] = S[n]
        /\ n > a + k /\ n <= z => all[n] = S[n - k]
        /\ n > a /\ n <= a + k => all[n] = new[n - a]
    BY <1>2, <1>5 DEF MovedDown
  <2>2. n - 1 \in Window(buffer) /\ S[n] = Row(buffer, n - 1).text
    BY <1>1, <1>2
  <2>3. CASE n <= a \/ n > z
    <3>1. n - 1 \notin a..a + k - 1 /\ n - 1 \notin dy..dy + h - 1
      BY <1>1, <2>3
    <3>2. QED  BY <1>3, <2>1, <2>2, <2>3, <3>1
  <2>4. CASE n > a + k /\ n <= z
    <3>1. /\ n - 1 \notin a..a + k - 1 /\ n - 1 \in dy..dy + h - 1
          /\ n - k \in 1..R /\ n - 1 - dy + a = n - k - 1
      BY <1>1, <2>4
    <3>2. S[n - k] = Row(buffer, n - k - 1).text
      BY <1>2, <3>1
    <3>3. QED  BY <1>3, <2>1, <2>2, <2>4, <3>1, <3>2
  <2>5. CASE n > a /\ n <= a + k
    <3>1. n - 1 \in a..a + k - 1 /\ n - a \in 1..k
      BY <1>1, <2>5
    <3>2. QED  BY <1>3, <1>4, <2>1, <2>2, <2>5, <3>1
  <2>6. QED  BY <1>1, <2>3, <2>4, <2>5
<1>8. ASSUME NEW e \in Window(buffer), e < 0
      PROVE  Row(c, e).text = Row(buffer, e).text
  <2>1. e \notin a..a + k - 1 /\ e \notin dy..dy + h - 1
    BY <1>1, <1>8
  <2>2. QED  BY <1>3, <2>1
<1>9. Screen(c) = all /\ Transcript(c) = Transcript(buffer)
  <2>1. all \in Seq([1..buffer.mColumns -> Cells]) /\ Len(all) = buffer.mScreenRows
    BY <1>1, <1>6 DEF L
  <2>2. \A n \in 1..buffer.mScreenRows : Row(c, n - 1).text = all[n]
    BY <1>1, <1>7
  <2>3. QED  BY <1>1, <1>3, <1>8, <2>1, <2>2, AlikeLines, Zenon
<1>10. QED  BY <1>3, <1>9 DEF all, new, S, R, C, WithScreen, LinesDownTo

\* and rows that move up are lines that move up.
LEMMA LinesUp ==
    ASSUME RingInv, NEW a \in 0..Rows, NEW z \in a..Rows, NEW k \in 0..z - a,
           NEW h, h = z - a - k, NEW sy, sy = a + k, NEW y, y = z - k,
           NEW c, Moved(c, sy, h, a, y, k)
    PROVE  WithScreen(c, LinesUpTo(a, z, k))
<1>. DEFINE R == Rows
            C == Columns
            A == buffer.mActiveTranscriptRows
            S == Screen(buffer)
            L == [1..C -> Cells]
            new == Lines!BlankLines(k, C)
            all == SubSeq(S, 1, a) \o SubSeq(S, a + k + 1, z) \o new \o SubSeq(S, z + 1, R)
<1>1. /\ R \in Nat /\ A \in Nat /\ Window(buffer) = -A..R - 1 /\ IsRing(buffer)
      /\ buffer.mScreenRows = R /\ buffer.mColumns = C /\ C \in Nat
      /\ a \in Nat /\ z \in Nat /\ k \in Nat /\ h \in Nat /\ sy \in Nat /\ y \in Nat /\ a + k <= z /\ z <= R
  <2>1. R \in Nat
    BY RingFields
  <2>2. a \in Nat /\ z \in Nat /\ k \in Nat /\ a + k <= z /\ z <= R
    BY <2>1
  <2>3. h \in Nat /\ sy \in Nat /\ y \in Nat
    BY <2>2
  <2>4. /\ A \in Nat /\ Window(buffer) = -A..R - 1 /\ IsRing(buffer)
        /\ buffer.mScreenRows = R /\ buffer.mColumns = C /\ C \in Nat
    BY RingFields DEF Rows, Columns
  <2>5. QED  BY <2>1, <2>2, <2>3, <2>4
<1>2. /\ S \in Seq(L) /\ Len(S) = R
      /\ \A n \in 1..R : S[n] = Row(buffer, n - 1).text
  BY <1>1, LinesOf
<1>3. /\ IsRing(c) /\ Alike(buffer, c)
      /\ \A e \in Window(buffer) :
           /\ e \in y..y + k - 1 => Row(c, e).text = BlankText(C)
           /\ e \notin y..y + k - 1 /\ e \in a..a + h - 1 => Row(c, e).text = Row(buffer, e - a + sy).text
           /\ e \notin y..y + k - 1 /\ e \notin a..a + h - 1 => Row(c, e) = Row(buffer, e)
  <2>1. /\ a..a + h - 1 \subseteq Window(buffer) /\ sy..sy + h - 1 \subseteq Window(buffer)
        /\ y..y + k - 1 \subseteq Window(buffer)
    BY <1>1
  <2>2. c = blockSet(blockCopy(buffer, 0, sy, buffer.mColumns, h, 0, a), 0, y, buffer.mColumns, k)
    BY <1>1 DEF Moved
  <2>3. a \in Int /\ sy \in Int /\ y \in Int /\ k \in Int
    BY <1>1
  <2>4. RowsShifted(buffer, sy, a, h, y, k, c)
    BY <1>1, <2>1, <2>2, <2>3, RowsShiftedIs, Zenon
  <2>5. QED  BY <1>1, <2>4 DEF RowsShifted
<1>4. /\ new \in Seq(L) /\ Len(new) = k /\ \A i \in 1..k : new[i] = BlankText(C)
  BY <1>1, BlankLinesAre
<1>. HIDE DEF L, S, R, C, A, new
<1>5. MovedUp(L, S, new, a, z, k, all)
  <2>1. a \in 0..Len(S) /\ z \in a..Len(S)
    BY <1>2 DEF R
  <2>2. PICK from : from = a + k + 1
    OBVIOUS
  <2>3. MovedUp(L, S, new, a, z, k,
                SubSeq(S, 1, a) \o SubSeq(S, from, z) \o new \o SubSeq(S, z + 1, Len(S)))
    BY <1>2, <1>4, <2>1, <2>2, MovedUpIs, Zenon
  <2>4. QED  BY <1>2, <2>2, <2>3
<1>. HIDE DEF all
<1>6. all \in Seq(L) /\ Len(all) = R
  BY <1>2, <1>5 DEF MovedUp
<1>7. ASSUME NEW n \in 1..R
      PROVE  Row(c, n - 1).text = all[n]
  <2>1. /\ n <= a \/ n > z => all[n] = S[n]
        /\ n > a /\ n <= z - k => all[n] = S[n + k]
        /\ n > z - k /\ n <= z => all[n] = new[n - (z - k)]
    BY <1>2, <1>5 DEF MovedUp
  <2>2. n - 1 \in Window(buffer) /\ S[n] = Row(buffer, n - 1).text
    BY <1>1, <1>2
  <2>3. CASE n <= a \/ n > z
    <3>1. n - 1 \notin y..y + k - 1 /\ n - 1 \notin a..a + h - 1
      BY <1>1, <2>3
    <3>2. QED  BY <1>3, <2>1, <2>2, <2>3, <3>1
  <2>4. CASE n > a /\ n <= z - k
    <3>1. /\ n - 1 \notin y..y + k - 1 /\ n - 1 \in a..a + h - 1
          /\ n + k \in 1..R /\ n - 1 - a + sy = n + k - 1
      BY <1>1, <2>4
    <3>2. S[n + k] = Row(buffer, n + k - 1).text
      <4>1. PICK i \in 1..R : i = n + k
        BY <3>1
      <4>2. QED  BY <1>2, <4>1
    <3>3. QED  BY <1>3, <2>1, <2>2, <2>4, <3>1, <3>2
  <2>5. CASE n > z - k /\ n <= z
    <3>1. n - 1 \in y..y + k - 1 /\ n - (z - k) \in 1..k
      BY <1>1, <2>5
    <3>2. QED  BY <1>3, <1>4, <2>1, <2>2, <2>5, <3>1
  <2>6. QED  BY <1>1, <2>3, <2>4, <2>5
<1>8. ASSUME NEW e \in Window(buffer), e < 0
      PROVE  Row(c, e).text = Row(buffer, e).text
  <2>1. e \notin y..y + k - 1 /\ e \notin a..a + h - 1
    BY <1>1, <1>8
  <2>2. QED  BY <1>3, <2>1
<1>9. Screen(c) = all /\ Transcript(c) = Transcript(buffer)
  <2>1. all \in Seq([1..buffer.mColumns -> Cells]) /\ Len(all) = buffer.mScreenRows
    BY <1>1, <1>6 DEF L
  <2>2. \A n \in 1..buffer.mScreenRows : Row(c, n - 1).text = all[n]
    BY <1>1, <1>7
  <2>3. QED  BY <1>1, <1>3, <1>8, <2>1, <2>2, AlikeLines, Zenon
<1>10. QED  BY <1>3, <1>9 DEF all, new, S, R, C, WithScreen, LinesUpTo

\* A reverse index.
LEMMA ReverseIndexIs ==
    ASSUME RingInv, ReverseIndex
    PROVE  RingInv' /\ Lines!ReverseIndex
<1>1. /\ Columns \in Nat /\ Rows \in Nat /\ IsRing(buffer) /\ cursor.row \in 0..Rows - 1
      /\ cursor.column \in 0..Columns - 1 /\ cursor = [column |-> cursor.column, row |-> cursor.row]
      /\ margin.top \in 0..Rows - 2 /\ margin.bottom \in margin.top + 2..Rows
  BY RingFields
<1>2. mAboutToAutoWrap' = mAboutToAutoWrap /\ margin' = margin /\ alt' = alt
  BY DEF ReverseIndex
<1>. DEFINE top == margin.top
            bottom == margin.bottom
<1>3. CASE cursor.row <= top
  <2>1. PICK one \in 0..bottom - top : one = 1
    BY <1>1
  <2>2. PICK c : c = blockSet(blockCopy(buffer, 0, top, Columns, bottom - (top + 1), 0, top + 1),
                              0, top, Columns, 1)
    OBVIOUS
  <2>3. buffer' = c /\ cursor' = cursor
    BY <1>3, <2>2 DEF ReverseIndex
  <2>4. PICK h : h = bottom - (top + 1)
    OBVIOUS
  <2>5. PICK dy : dy = top + 1
    OBVIOUS
  <2>6. /\ Moved(c, top, h, dy, top, one)
        /\ h = bottom - top - one /\ dy = top + one /\ top \in 0..Rows /\ bottom \in top..Rows
    BY <1>1, <2>1, <2>2, <2>4, <2>5 DEF Moved
  <2>. HIDE DEF top, bottom
  <2>7. WithScreen(c, LinesDownTo(top, bottom, one))
    BY <2>6, LinesDown, Zenon
  <2>8. RingInv'
    BY <1>2, <2>3, <2>7, KeepsAlike DEF RingInv, WithScreen
  <2>9. /\ Transcript(buffer') = Transcript(buffer)
        /\ Screen(buffer') = SubSeq(Screen(buffer), 1, top) \o Lines!BlankLines(1, Columns)
                               \o SubSeq(Screen(buffer), top + 1, bottom - 1)
                               \o SubSeq(Screen(buffer), bottom + 1, Rows)
    BY <2>1, <2>3, <2>7 DEF WithScreen, LinesDownTo
  <2>10. IsRing(buffer')
    BY <2>3, <2>7 DEF WithScreen
  <2>11. Lines!ReverseIndex
    BY <1>2, <1>3, <2>3, <2>9, <2>10, SeenLines DEF Lines!ReverseIndex, Lines!Above, Lines!Below, top, bottom
  <2>12. QED  BY <2>8, <2>11
<1>4. CASE ~(cursor.row <= top)
  <2>1. buffer' = buffer /\ cursor' = [cursor EXCEPT !.row = cursor.row - 1]
    BY <1>4 DEF ReverseIndex
  <2>2. cursor' = [column |-> cursor.column, row |-> cursor.row - 1]
    BY <1>1, <2>1
  <2>3. cursor' \in [column : 0..Columns - 1, row : 0..Rows - 1]
    BY <1>1, <1>4, <2>2
  <2>4. RingInv'
    BY <1>2, <2>1, <2>3, SameBuffer, KeepsAlike DEF RingInv
  <2>5. Lines!ReverseIndex
    BY <1>2, <1>4, <2>1, SameBuffer, SeenLines DEF Lines!ReverseIndex
  <2>6. QED  BY <2>4, <2>5
<1>5. QED  BY <1>3, <1>4

\* Below the region nothing is moved and nothing blanked.
LEMMA NothingMoves ==
    ASSUME RingInv, NEW sy \in Int, NEW dy \in Int, NEW y \in Int, NEW k \in Int, k <= 0,
           NEW h \in Nat, h = 0,
           NEW c, Moved(c, sy, h, dy, y, k)
    PROVE  WithScreen(c, Screen(buffer))
<1>1. /\ IsRing(buffer) /\ buffer.mColumns = Columns /\ buffer.mScreenRows \in Nat
      /\ \A n \in 1..buffer.mScreenRows : n - 1 \in Window(buffer)
  <2>1. /\ IsRing(buffer) /\ buffer.mColumns = Columns /\ buffer.mScreenRows \in Nat
        /\ buffer.mActiveTranscriptRows \in Nat
    BY RingFields DEF Columns, Rows
  <2>2. QED  BY <2>1 DEF Window
<1>2. RowsShifted(buffer, sy, dy, h, y, k, c)
  <2>1. /\ sy..sy + h - 1 \subseteq Window(buffer) /\ dy..dy + h - 1 \subseteq Window(buffer)
        /\ y..y + k - 1 \subseteq Window(buffer)
    OBVIOUS
  <2>2. c = blockSet(blockCopy(buffer, 0, sy, buffer.mColumns, h, 0, dy), 0, y, buffer.mColumns, k)
    BY <1>1 DEF Moved
  <2>3. QED  BY <1>1, <2>1, <2>2, RowsShiftedIs, Zenon
<1>3. IsRing(c) /\ Alike(buffer, c) /\ \A e \in Window(buffer) : Row(c, e) = Row(buffer, e)
  <2>1. \A e : e \notin y..y + k - 1 /\ e \notin dy..dy + h - 1
    OBVIOUS
  <2>2. QED  BY <1>2, <2>1 DEF RowsShifted
<1>4. /\ Screen(buffer) \in Seq([1..buffer.mColumns -> Cells]) /\ Len(Screen(buffer)) = buffer.mScreenRows
      /\ \A n \in 1..buffer.mScreenRows : Row(c, n - 1).text = Screen(buffer)[n]
      /\ \A e \in Window(buffer) : e < 0 => Row(c, e).text = Row(buffer, e).text
  BY <1>1, <1>3, LinesOf
<1>5. QED  BY <1>1, <1>3, <1>4, AlikeLines, Zenon DEF WithScreen

\* Inserting lines.
LEMMA InsertLinesIs ==
    ASSUME RingInv, NEW n \in 1..Rows, InsertLines(n)
    PROVE  RingInv' /\ Lines!InsertLines(n)
<1>. DEFINE after == margin.bottom - cursor.row
            k == Smaller(n, after)
            a == cursor.row
            z == margin.bottom
<1>1. /\ Columns \in Nat /\ Rows \in Nat /\ IsRing(buffer) /\ a \in 0..Rows - 1
      /\ z \in 0..Rows /\ a \in Int /\ z \in Int /\ n \in Nat /\ n > 0 /\ a + after = z /\ after \in Int
      /\ k \in Int /\ k <= after /\ (k > 0 <=> after > 0) /\ (k <= 0 => k = after)
      /\ after - k \in Nat /\ a + k \in Int
  <2>1. /\ Columns \in Nat /\ Rows \in Nat /\ IsRing(buffer) /\ a \in 0..Rows - 1
        /\ z \in 0..Rows /\ n \in Nat /\ n > 0
    BY RingFields
  <2>2. a \in Int /\ z \in Int /\ a + after = z /\ after \in Int
    BY <2>1
  <2>. HIDE DEF after
  <2>3. k \in Int /\ k <= after /\ (k > 0 <=> after > 0) /\ (k <= 0 => k = after)
    BY <2>1, <2>2 DEF Smaller
  <2>. HIDE DEF k, a, z
  <2>4. after - k \in Nat /\ a + k \in Int
    BY <2>1, <2>2, <2>3
  <2>5. QED  BY <2>1, <2>2, <2>3, <2>4
<1>2. PICK c : c = blockSet(blockCopy(buffer, 0, a, Columns, after - k, 0, a + k), 0, a, Columns, k)
  OBVIOUS
<1>3. /\ buffer' = c
      /\ cursor' = cursor /\ mAboutToAutoWrap' = mAboutToAutoWrap /\ margin' = margin /\ alt' = alt
  BY <1>2 DEF InsertLines, Set
<1>4. Lines!Smaller(n, after) = k
  BY DEF Lines!Smaller, Smaller
<1>. HIDE DEF k, a, z, after
<1>5. PICK h : h = after - k
  OBVIOUS
<1>6. PICK dy : dy = a + k
  OBVIOUS
<1>7. Moved(c, a, h, dy, a, k)
  BY <1>2, <1>5, <1>6 DEF Moved
<1>8. /\ IsRing(c) /\ Alike(buffer, c) /\ Transcript(c) = Transcript(buffer)
      /\ Screen(c) = IF k <= 0 THEN Screen(buffer)
                     ELSE SubSeq(Screen(buffer), 1, a) \o Lines!BlankLines(k, Columns)
                            \o SubSeq(Screen(buffer), a + 1, z - k) \o SubSeq(Screen(buffer), z + 1, Rows)
  <2>1. CASE k <= 0
    <3>1. h \in Nat /\ h = 0 /\ dy \in Int
      BY <1>1, <1>5, <1>6, <2>1
    <3>2. WithScreen(c, Screen(buffer))
      BY <1>1, <1>7, <2>1, <3>1, NothingMoves, Zenon
    <3>3. QED  BY <2>1, <3>2 DEF WithScreen
  <2>2. CASE ~(k <= 0)
    <3>1. /\ a \in 0..Rows /\ z \in a..Rows /\ k \in 0..z - a /\ h = z - a - k /\ dy = a + k
      BY <1>1, <1>5, <1>6, <2>2
    <3>2. WithScreen(c, LinesDownTo(a, z, k))
      BY <1>7, <3>1, LinesDown, Zenon
    <3>3. QED  BY <2>2, <3>2 DEF WithScreen, LinesDownTo
  <2>3. QED  BY <2>1, <2>2
<1>9. RingInv'
  BY <1>3, <1>8, KeepsAlike DEF RingInv
<1>10. Lines!InsertLines(n)
  BY <1>3, <1>4, <1>8, SeenLines DEF Lines!InsertLines, Lines!Above, Lines!Below, after, a, z
<1>11. QED  BY <1>9, <1>10

\* Deleting lines.
LEMMA DeleteLinesIs ==
    ASSUME RingInv, NEW n \in 1..Rows, DeleteLines(n)
    PROVE  RingInv' /\ Lines!DeleteLines(n)
<1>. DEFINE after == margin.bottom - cursor.row
            k == Smaller(n, after)
            a == cursor.row
            z == margin.bottom
<1>1. /\ Columns \in Nat /\ Rows \in Nat /\ IsRing(buffer) /\ a \in 0..Rows - 1
      /\ z \in 0..Rows /\ a \in Int /\ z \in Int /\ n \in Nat /\ n > 0 /\ a + after = z /\ after \in Int
      /\ k \in Int /\ k <= after /\ (k > 0 <=> after > 0) /\ (k <= 0 => k = after)
      /\ after - k \in Nat /\ a + k \in Int /\ a + after - k \in Int /\ a + after - k = z - k
  <2>1. /\ Columns \in Nat /\ Rows \in Nat /\ IsRing(buffer) /\ a \in 0..Rows - 1
        /\ z \in 0..Rows /\ n \in Nat /\ n > 0
    BY RingFields
  <2>2. a \in Int /\ z \in Int /\ a + after = z /\ after \in Int
    BY <2>1
  <2>. HIDE DEF after
  <2>3. k \in Int /\ k <= after /\ (k > 0 <=> after > 0) /\ (k <= 0 => k = after)
    BY <2>1, <2>2 DEF Smaller
  <2>. HIDE DEF k, a, z
  <2>4. after - k \in Nat /\ a + k \in Int /\ a + after - k \in Int /\ a + after - k = z - k
    BY <2>1, <2>2, <2>3
  <2>5. QED  BY <2>1, <2>2, <2>3, <2>4
<1>2. PICK c : c = blockSet(blockCopy(buffer, 0, a + k, Columns, after - k, 0, a), 0, a + after - k, Columns, k)
  OBVIOUS
<1>3. /\ buffer' = c
      /\ cursor' = cursor /\ mAboutToAutoWrap' = FALSE /\ margin' = margin /\ alt' = alt
  BY <1>2 DEF DeleteLines, Set
<1>4. Lines!Smaller(n, after) = k
  BY DEF Lines!Smaller, Smaller
<1>. HIDE DEF k, a, z, after
<1>5. PICK h : h = after - k
  OBVIOUS
<1>6. PICK sy : sy = a + k
  OBVIOUS
<1>7. PICK y : y = a + after - k
  OBVIOUS
<1>8. Moved(c, sy, h, a, y, k)
  BY <1>2, <1>5, <1>6, <1>7 DEF Moved
<1>9. /\ IsRing(c) /\ Alike(buffer, c) /\ Transcript(c) = Transcript(buffer)
      /\ Screen(c) = IF k <= 0 THEN Screen(buffer)
                     ELSE SubSeq(Screen(buffer), 1, a) \o SubSeq(Screen(buffer), a + k + 1, z)
                            \o Lines!BlankLines(k, Columns) \o SubSeq(Screen(buffer), z + 1, Rows)
  <2>1. CASE k <= 0
    <3>1. h \in Nat /\ h = 0 /\ sy \in Int /\ y \in Int
      BY <1>1, <1>5, <1>6, <1>7, <2>1
    <3>2. WithScreen(c, Screen(buffer))
      BY <1>1, <1>8, <2>1, <3>1, NothingMoves, Zenon
    <3>3. QED  BY <2>1, <3>2 DEF WithScreen
  <2>2. CASE ~(k <= 0)
    <3>1. /\ a \in 0..Rows /\ z \in a..Rows /\ k \in 0..z - a /\ h = z - a - k /\ sy = a + k /\ y = z - k
      BY <1>1, <1>5, <1>6, <1>7, <2>2
    <3>2. WithScreen(c, LinesUpTo(a, z, k))
      BY <1>8, <3>1, LinesUp, Zenon
    <3>3. QED  BY <2>2, <3>2 DEF WithScreen, LinesUpTo
  <2>3. QED  BY <2>1, <2>2
<1>10. RingInv'
  BY <1>3, <1>9, KeepsAlike DEF RingInv
<1>11. Lines!DeleteLines(n)
  BY <1>3, <1>4, <1>9, SeenLines DEF Lines!DeleteLines, Lines!Above, Lines!Below, after, a, z
<1>12. QED  BY <1>10, <1>11

\* Nothing follows the last element.
LEMMA NoMore ==
    ASSUME NEW S, NEW s \in Seq(S), NEW p \in Seq(S), NEW q \in Seq(S), NEW r \in Seq(S), NEW z, z = Len(s)
    PROVE  p \o q \o r \o SubSeq(s, z + 1, Len(s)) = p \o q \o r
<1>1. z \in Nat
  BY LenProperties
<1>2. PICK m \in 1..Len(s) + 1 : m = z + 1
  BY <1>1
<1>3. Len(s) \in 0..Len(s)
  BY <1>1
<1>4. PartOf(S, s, m, Len(s), SubSeq(s, m, Len(s)))
  BY <1>3, PartOfIs, Zenon
<1>. DEFINE t == SubSeq(s, z + 1, Len(s))
            pqr == p \o q \o r
<1>5. t \in Seq(S) /\ Len(t) = 0
  BY <1>1, <1>2, <1>4 DEF PartOf
<1>. HIDE DEF t
<1>6. t = <<>>
  BY <1>5, EmptySeq
<1>7. pqr \in Seq(S)
  BY ThreeParts
<1>. HIDE DEF pqr
<1>8. pqr \o t = pqr
  BY <1>6, <1>7, ConcatEmptySeq
<1>9. QED  BY <1>8 DEF pqr, t

\* Two sequences of which each element is the same.
LEMMA SameElements ==
    ASSUME NEW S, NEW C \in Nat, NEW f \in [1..C -> S], NEW s \in Seq(S), Len(s) = C,
           \A n \in 1..C : f[n] = s[n]
    PROVE  f = s
<1>1. f \in Seq(S) /\ Len(f) = C
  BY FunctionSeq
<1>2. QED  BY <1>1, SeqEqual

\* Cells that move to the right, as a sequence.
LEMMA CellsDown ==
    ASSUME NEW C \in Nat, NEW text \in [1..C -> Cells], NEW a \in 0..C, NEW k \in 0..C - a,
           NEW w, w = C - a - k, NEW dx, dx = a + k,
           NEW shifted, shifted = Shifted(text, C, a, dx, w, a, k)
    PROVE  /\ shifted = SubSeq(text, 1, a) \o Lines!Blanks(k) \o SubSeq(text, a + 1, C - k)
           /\ shifted \in [1..C -> Cells]
<1>1. text \in Seq(Cells) /\ Len(text) = C
  BY FunctionSeq
<1>2. /\ Lines!Blanks(k) \in Seq(Cells) /\ Len(Lines!Blanks(k)) = k
      /\ \A i \in 1..k : Lines!Blanks(k)[i] = Blank
  <2>1. k \in Nat /\ Lines!Blanks(k) = [c \in 1..k |-> Blank]
    BY DEF Lines!Blanks
  <2>2. Lines!Blanks(k) \in [1..k -> Cells]
    BY <2>1 DEF Cells
  <2>3. QED  BY <2>1, <2>2, FunctionSeq
<1>3. shifted = [n \in 1..C |-> IF n - a \in 1..k THEN Blank
                                ELSE IF n - dx \in 1..w THEN text[n - dx + a] ELSE text[n]]
  BY DEF Shifted
<1>4. a \in Nat /\ k \in Nat /\ w \in Nat /\ dx \in Nat /\ a + k <= C
  OBVIOUS
<1>5. shifted \in [1..C -> Cells]
  <2>1. \A n \in 1..C : n - dx \in 1..w => n - dx + a \in 1..C
    BY <1>4
  <2>2. Blank \in Cells
    BY DEF Cells
  <2>3. QED  BY <1>3, <2>1, <2>2
<1>. DEFINE p == SubSeq(text, 1, a)
            new == Lines!Blanks(k)
            q == SubSeq(text, a + 1, C - k)
            all == p \o new \o q
<1>6. MovedDown(Cells, text, new, a, C, k, p \o new \o q \o SubSeq(text, C + 1, Len(text)))
  <2>1. a \in 0..Len(text) /\ C \in a..Len(text) /\ k \in 0..C - a
    BY <1>1, <1>4
  <2>2. QED  BY <1>1, <1>2, <2>1, MovedDownIs, Zenon
<1>7. p \in Seq(Cells) /\ q \in Seq(Cells)
  <2>1. PICK one \in 1..Len(text) + 1 : one = 1
    BY <1>1
  <2>2. PICK m \in 1..Len(text) + 1 : m = a + 1
    BY <1>1
  <2>3. PICK n \in 0..Len(text) : n = C - k
    BY <1>1, <1>4
  <2>4. a \in 0..Len(text)
    BY <1>1
  <2>5. PartOf(Cells, text, one, a, SubSeq(text, one, a)) /\ PartOf(Cells, text, m, n, SubSeq(text, m, n))
    BY <1>1, <2>4, PartOfIs, Zenon
  <2>6. SubSeq(text, one, a) = p /\ SubSeq(text, m, n) = q
    BY <2>1, <2>2, <2>3
  <2>7. QED  BY <2>5, <2>6 DEF PartOf
<1>8. p \o new \o q \o SubSeq(text, C + 1, Len(text)) = all
  <2>1. text \in Seq(Cells) /\ C = Len(text) /\ p \in Seq(Cells) /\ q \in Seq(Cells) /\ new \in Seq(Cells)
    BY <1>1, <1>2, <1>7
  <2>. HIDE DEF p, q, new
  <2>2. QED  BY <2>1, NoMore
<1>9. MovedDown(Cells, text, new, a, C, k, all)
  BY <1>6, <1>8
<1>. HIDE DEF all, new
<1>10. all \in Seq(Cells) /\ Len(all) = C
  BY <1>1, <1>9 DEF MovedDown
<1>11. ASSUME NEW n \in 1..C
       PROVE  shifted[n] = all[n]
  <2>1. /\ n <= a \/ n > C => all[n] = text[n]
        /\ n > a + k /\ n <= C => all[n] = text[n - k]
        /\ n > a /\ n <= a + k => all[n] = new[n - a]
    BY <1>1, <1>9 DEF MovedDown
  <2>2. shifted[n] = IF n - a \in 1..k THEN Blank
                     ELSE IF n - dx \in 1..w THEN text[n - dx + a] ELSE text[n]
    BY <1>3
  <2>3. CASE n <= a
    <3>1. n - a \notin 1..k /\ n - dx \notin 1..w
      BY <1>4, <2>3
    <3>2. QED  BY <2>1, <2>2, <2>3, <3>1
  <2>4. CASE n > a + k
    <3>1. n - a \notin 1..k /\ n - dx \in 1..w /\ n - dx + a = n - k /\ n <= C
      BY <1>4, <2>4
    <3>2. QED  BY <2>1, <2>2, <2>4, <3>1
  <2>5. CASE n > a /\ n <= a + k
    <3>1. n - a \in 1..k
      BY <1>4, <2>5
    <3>2. QED  BY <1>2, <2>1, <2>2, <2>5, <3>1 DEF new
  <2>6. QED  BY <1>4, <2>3, <2>4, <2>5
<1>12. shifted = all
  BY <1>5, <1>10, <1>11, SameElements, Zenon
<1>13. QED  BY <1>5, <1>12 DEF all, new

\* The line after its cells behind the first a have moved left by k.
CellsUpTo(text, C, a, k) == SubSeq(text, 1, a) \o SubSeq(text, a + k + 1, C) \o Lines!Blanks(k)

\* Cells that move to the left, as a sequence.
LEMMA CellsUp ==
    ASSUME NEW C \in Nat, NEW text \in [1..C -> Cells], NEW a \in 0..C, NEW k \in 0..C - a,
           NEW w, w = C - a - k, NEW sx, sx = a + k, NEW x, x = C - k,
           NEW shifted, shifted = Shifted(text, C, sx, a, w, x, k)
    PROVE  /\ shifted = CellsUpTo(text, C, a, k)
           /\ shifted \in [1..C -> Cells]
<1>1. text \in Seq(Cells) /\ Len(text) = C
  BY FunctionSeq
<1>2. /\ Lines!Blanks(k) \in Seq(Cells) /\ Len(Lines!Blanks(k)) = k
      /\ \A i \in 1..k : Lines!Blanks(k)[i] = Blank
  <2>1. k \in Nat /\ Lines!Blanks(k) = [c \in 1..k |-> Blank]
    BY DEF Lines!Blanks
  <2>2. Lines!Blanks(k) \in [1..k -> Cells]
    BY <2>1 DEF Cells
  <2>3. QED  BY <2>1, <2>2, FunctionSeq
<1>3. shifted = [n \in 1..C |-> IF n - x \in 1..k THEN Blank
                                ELSE IF n - a \in 1..w THEN text[n - a + sx] ELSE text[n]]
  BY DEF Shifted
<1>4. a \in Nat /\ k \in Nat /\ w \in Nat /\ sx \in Nat /\ x \in Nat /\ a + k <= C
  OBVIOUS
<1>5. shifted \in [1..C -> Cells]
  <2>1. \A n \in 1..C : n - a \in 1..w => n - a + sx \in 1..C
    BY <1>4
  <2>2. Blank \in Cells
    BY DEF Cells
  <2>3. QED  BY <1>3, <2>1, <2>2
<1>. DEFINE p == SubSeq(text, 1, a)
            new == Lines!Blanks(k)
            q == SubSeq(text, a + k + 1, C)
            all == p \o q \o new
<1>6. MovedUp(Cells, text, new, a, C, k, p \o q \o new \o SubSeq(text, C + 1, Len(text)))
  <2>1. a \in 0..Len(text) /\ C \in a..Len(text) /\ k \in 0..C - a
    BY <1>1, <1>4
  <2>2. PICK from : from = a + k + 1
    OBVIOUS
  <2>3. MovedUp(Cells, text, new, a, C, k,
                p \o SubSeq(text, from, C) \o new \o SubSeq(text, C + 1, Len(text)))
    BY <1>1, <1>2, <2>1, <2>2, MovedUpIs, Zenon
  <2>4. QED  BY <2>2, <2>3
<1>7. p \in Seq(Cells) /\ q \in Seq(Cells)
  <2>1. PICK one \in 1..Len(text) + 1 : one = 1
    BY <1>1
  <2>2. PICK m \in 1..Len(text) + 1 : m = a + k + 1
    BY <1>1, <1>4
  <2>4. a \in 0..Len(text) /\ C \in 0..Len(text)
    BY <1>1
  <2>5. PartOf(Cells, text, one, a, SubSeq(text, one, a)) /\ PartOf(Cells, text, m, C, SubSeq(text, m, C))
    BY <1>1, <2>4, PartOfIs, Zenon
  <2>6. SubSeq(text, one, a) = p /\ SubSeq(text, m, C) = q
    BY <2>1, <2>2
  <2>7. QED  BY <2>5, <2>6 DEF PartOf
<1>8. p \o q \o new \o SubSeq(text, C + 1, Len(text)) = all
  <2>1. text \in Seq(Cells) /\ C = Len(text) /\ p \in Seq(Cells) /\ q \in Seq(Cells) /\ new \in Seq(Cells)
    BY <1>1, <1>2, <1>7
  <2>. HIDE DEF p, q, new
  <2>2. QED  BY <2>1, NoMore
<1>9. MovedUp(Cells, text, new, a, C, k, all)
  BY <1>6, <1>8
<1>. HIDE DEF all, new
<1>10. all \in Seq(Cells) /\ Len(all) = C
  BY <1>1, <1>9 DEF MovedUp
<1>11. ASSUME NEW n \in 1..C
       PROVE  shifted[n] = all[n]
  <2>1. /\ n <= a \/ n > C => all[n] = text[n]
        /\ n > a /\ n <= C - k => all[n] = text[n + k]
        /\ n > C - k /\ n <= C => all[n] = new[n - (C - k)]
    BY <1>1, <1>9 DEF MovedUp
  <2>2. shifted[n] = IF n - x \in 1..k THEN Blank
                     ELSE IF n - a \in 1..w THEN text[n - a + sx] ELSE text[n]
    BY <1>3
  <2>3. CASE n <= a
    <3>1. n - x \notin 1..k /\ n - a \notin 1..w
      BY <1>4, <2>3
    <3>2. QED  BY <2>1, <2>2, <2>3, <3>1
  <2>4. CASE n > a /\ n <= C - k
    <3>1. n - x \notin 1..k /\ n - a \in 1..w /\ n - a + sx = n + k
      BY <1>4, <2>4
    <3>2. QED  BY <2>1, <2>2, <2>4, <3>1
  <2>5. CASE n > C - k
    <3>1. n - x \in 1..k /\ n - x = n - (C - k) /\ n <= C
      BY <1>4, <2>5
    <3>2. QED  BY <1>2, <2>1, <2>2, <2>5, <3>1 DEF new
  <2>6. QED  BY <1>4, <2>3, <2>4, <2>5
<1>12. shifted = all
  BY <1>5, <1>10, <1>11, SameElements, Zenon
<1>13. QED  BY <1>5, <1>12 DEF all, new, CellsUpTo

\* Cells of the cursor's line that move, with blank ones in their place.
LEMMA LineShifted ==
    ASSUME RingInv, NEW sx \in Nat, NEW dx \in Nat, NEW w \in Int, sx + w <= Columns,
           NEW x \in Int, NEW k \in Int,
           NEW c, c = blockSet(blockCopy(buffer, sx, cursor.row, w, 1, dx, cursor.row), x, cursor.row, k, 1),
           NEW line \in [1..Columns -> Cells],
           line = Shifted(Screen(buffer)[cursor.row + 1], Columns, sx, dx, w, x, k)
    PROVE  WithScreen(c, [Screen(buffer) EXCEPT ![cursor.row + 1] = line])
<1>1. /\ IsRing(buffer) /\ buffer.mColumns = Columns /\ buffer.mScreenRows = Rows /\ Rows \in Nat
      /\ buffer.mActiveTranscriptRows \in Nat /\ cursor.row \in 0..Rows - 1
  BY RingFields DEF Columns, Rows
<1>2. cursor.row \in Window(buffer)
  BY <1>1 DEF Window
<1>3. PICK r \in Window(buffer) : r = cursor.row
  BY <1>2
<1>4. /\ IsRing(c) /\ Alike(buffer, c)
      /\ \A e \in Window(buffer) \ {r} : Row(c, e) = Row(buffer, e)
      /\ Row(c, r).text = Shifted(Row(buffer, r).text, buffer.mColumns, sx, dx, w, x, k)
  <2>1. c = blockSet(blockCopy(buffer, sx, r, w, 1, dx, r), x, r, k, 1) /\ sx + w <= buffer.mColumns
    BY <1>1, <1>3
  <2>2. QED  BY <1>1, <2>1, CellsShiftedIs
<1>5. Screen(buffer)[cursor.row + 1] = Row(buffer, r).text
  <2>1. PICK n \in 1..buffer.mScreenRows : n = cursor.row + 1
    BY <1>1
  <2>2. n - 1 = r
    BY <1>1, <1>3, <2>1
  <2>3. QED  BY <1>1, <2>1, <2>2, LinesOf
<1>6. OneLine(buffer, c, r, line)
  <2>1. /\ r \in 0..buffer.mScreenRows - 1 /\ line \in [1..buffer.mColumns -> Cells]
        /\ \A e \in Window(buffer) \ {r} : Row(c, e).text = Row(buffer, e).text
        /\ Row(c, r).text = line
    BY <1>1, <1>3, <1>4, <1>5
  <2>2. QED  BY <1>1, <1>4, <2>1, LineChanged, Zenon
<1>7. QED  BY <1>3, <1>4, <1>6 DEF OneLine, WithScreen

\* The line under the cursor.
LEMMA LineIs ==
    ASSUME RingInv
    PROVE  /\ Lines!Line = Screen(buffer)[cursor.row + 1]
           /\ Lines!Line \in [1..Columns -> Cells]
<1>1. IsRing(buffer) /\ buffer.mColumns = Columns /\ buffer.mScreenRows = Rows /\ Rows \in Nat /\ cursor.row \in 0..Rows - 1
  BY RingFields DEF Columns, Rows
<1>2. Lines!Line = Screen(buffer)[cursor.row + 1]
  BY LinesAre DEF Lines!Line
<1>3. PICK i \in 1..Rows : i = cursor.row + 1
  BY <1>1
<1>4. Screen(buffer) \in Seq([1..Columns -> Cells]) /\ Len(Screen(buffer)) = Rows
  BY <1>1, LinesOf
<1>5. Screen(buffer)[i] \in [1..Columns -> Cells]
  BY <1>4, ElementOfSeq
<1>6. QED  BY <1>2, <1>3, <1>5

\* Inserting cells.
LEMMA InsertCellsIs ==
    ASSUME RingInv, NEW n \in 1..Columns, InsertCells(n)
    PROVE  RingInv' /\ Lines!InsertCells(n)
<1>. DEFINE C == Columns
            a == cursor.column
            after == C - a
            k == Smaller(n, after)
            text == Lines!Line
<1>1. /\ C \in Nat /\ a \in 0..C - 1 /\ a \in Nat /\ after \in Nat /\ n \in Nat /\ k \in Nat /\ k <= after
      /\ a + k \in Nat /\ after - k \in Nat /\ after - k = C - a - k /\ a + (after - k) <= C /\ k \in 0..C - a
      /\ a \in 0..C
  <2>1. C \in Nat /\ a \in 0..C - 1 /\ n \in 1..C
    BY RingFields
  <2>. HIDE DEF C, a
  <2>2. after \in Nat /\ after > 0 /\ n \in Nat /\ a \in Nat
    BY <2>1
  <2>3. k \in Nat /\ k <= after
    BY <2>2 DEF Smaller
  <2>. HIDE DEF k
  <2>4. QED  BY <2>1, <2>2, <2>3
<1>2. PICK c : c = blockSet(blockCopy(buffer, a, cursor.row, after - k, 1, a + k, cursor.row), a, cursor.row, k, 1)
  OBVIOUS
<1>3. /\ buffer' = c
      /\ cursor' = cursor /\ mAboutToAutoWrap' = FALSE /\ margin' = margin /\ alt' = alt
  BY <1>2 DEF InsertCells, Set
<1>4. Lines!Smaller(n, after) = k
  BY DEF Lines!Smaller, Smaller
<1>5. text \in [1..C -> Cells] /\ text = Screen(buffer)[cursor.row + 1]
  BY LineIs
<1>. HIDE DEF C, a, after, k, text
<1>6. PICK w : w = after - k
  OBVIOUS
<1>7. PICK dx : dx = a + k
  OBVIOUS
<1>8. PICK line : line = Shifted(text, C, a, dx, w, a, k)
  OBVIOUS
<1>9. /\ line = SubSeq(text, 1, a) \o Lines!Blanks(k) \o SubSeq(text, a + 1, C - k)
      /\ line \in [1..C -> Cells]
  <2>1. /\ C \in Nat /\ text \in [1..C -> Cells] /\ a \in 0..C /\ k \in 0..C - a
        /\ w = C - a - k /\ dx = a + k
    BY <1>1, <1>5, <1>6, <1>7
  <2>2. QED  BY <1>8, <2>1, CellsDown, Zenon
<1>10. WithScreen(c, [Screen(buffer) EXCEPT ![cursor.row + 1] = line])
  <2>1. /\ dx \in Nat /\ w \in Int /\ a + w <= Columns /\ a \in Int /\ k \in Int
        /\ c = blockSet(blockCopy(buffer, a, cursor.row, w, 1, dx, cursor.row), a, cursor.row, k, 1)
    BY <1>1, <1>6, <1>7, <1>2 DEF C
  <2>2. line \in [1..Columns -> Cells]
        /\ line = Shifted(Screen(buffer)[cursor.row + 1], Columns, a, dx, w, a, k)
    BY <1>5, <1>8, <1>9 DEF C
  <2>3. QED  BY <1>1, <2>1, <2>2, LineShifted
<1>11. RingInv'
  BY <1>3, <1>10, KeepsAlike DEF RingInv, WithScreen
<1>12. Lines!InsertCells(n)
  <2>1. /\ Transcript(buffer') = Transcript(buffer) /\ IsRing(buffer')
        /\ Screen(buffer') = [Screen(buffer) EXCEPT ![cursor.row + 1] =
                                SubSeq(text, 1, a) \o Lines!Blanks(k) \o SubSeq(text, a + 1, C - k)]
    BY <1>3, <1>9, <1>10 DEF WithScreen
  <2>2. QED
    BY <1>3, <1>4, <2>1, SeenLines DEF Lines!InsertCells, Lines!WithLine, text, a, C, after
<1>13. QED  BY <1>11, <1>12

\* Deleting cells.
LEMMA DeleteCellsIs ==
    ASSUME RingInv, NEW n \in 1..Columns, DeleteCells(n)
    PROVE  RingInv' /\ Lines!DeleteCells(n)
<1>. DEFINE C == Columns
            a == cursor.column
            after == C - a
            k == Smaller(n, after)
            text == Lines!Line
<1>1. /\ C \in Nat /\ a \in 0..C - 1 /\ a \in Nat /\ after \in Nat /\ n \in Nat /\ k \in Nat /\ k <= after
      /\ a + k \in Nat /\ after - k \in Nat /\ after - k = C - a - k /\ a + k + (after - k) <= C /\ k \in 0..C - a
      /\ a \in 0..C /\ a + after - k = C - k /\ C - k \in Int
  <2>1. C \in Nat /\ a \in 0..C - 1 /\ n \in 1..C
    BY RingFields
  <2>. HIDE DEF C, a
  <2>2. after \in Nat /\ after > 0 /\ n \in Nat /\ a \in Nat
    BY <2>1
  <2>3. k \in Nat /\ k <= after
    BY <2>2 DEF Smaller
  <2>. HIDE DEF k
  <2>4. QED  BY <2>1, <2>2, <2>3
<1>2. PICK c : c = blockSet(blockCopy(buffer, a + k, cursor.row, after - k, 1, a, cursor.row),
                            a + after - k, cursor.row, k, 1)
  OBVIOUS
<1>3. /\ buffer' = c
      /\ cursor' = cursor /\ mAboutToAutoWrap' = FALSE /\ margin' = margin /\ alt' = alt
  BY <1>2 DEF DeleteCells, Set
<1>4. Lines!Smaller(n, after) = k
  BY DEF Lines!Smaller, Smaller
<1>5. text \in [1..C -> Cells] /\ text = Screen(buffer)[cursor.row + 1]
  BY LineIs
<1>. HIDE DEF C, a, after, k, text
<1>6. PICK w : w = after - k
  OBVIOUS
<1>7. PICK sx : sx = a + k
  OBVIOUS
<1>8. PICK x : x = C - k
  OBVIOUS
<1>9. PICK line : line = Shifted(text, C, sx, a, w, x, k)
  OBVIOUS
<1>10. /\ line = CellsUpTo(text, C, a, k)
      /\ line \in [1..C -> Cells]
  <2>1. /\ C \in Nat /\ text \in [1..C -> Cells] /\ a \in 0..C /\ k \in 0..C - a
        /\ w = C - a - k /\ sx = a + k /\ x = C - k
    BY <1>1, <1>5, <1>6, <1>7, <1>8
  <2>2. QED  BY <1>9, <2>1, CellsUp, Zenon
<1>11. WithScreen(c, [Screen(buffer) EXCEPT ![cursor.row + 1] = line])
  <2>1. /\ sx \in Nat /\ w \in Int /\ sx + w <= Columns /\ x \in Int /\ k \in Int
        /\ c = blockSet(blockCopy(buffer, sx, cursor.row, w, 1, a, cursor.row), x, cursor.row, k, 1)
    BY <1>1, <1>6, <1>7, <1>8, <1>2 DEF C
  <2>2. line \in [1..Columns -> Cells]
        /\ line = Shifted(Screen(buffer)[cursor.row + 1], Columns, sx, a, w, x, k)
    BY <1>5, <1>9, <1>10 DEF C
  <2>3. QED  BY <1>1, <2>1, <2>2, LineShifted
<1>12. RingInv'
  BY <1>3, <1>11, KeepsAlike DEF RingInv, WithScreen
<1>13. Lines!DeleteCells(n)
  <2>1. /\ Transcript(buffer') = Transcript(buffer) /\ IsRing(buffer')
        /\ Screen(buffer') = [Screen(buffer) EXCEPT ![cursor.row + 1] =
                                SubSeq(text, 1, a) \o SubSeq(text, a + k + 1, C) \o Lines!Blanks(k)]
    BY <1>3, <1>10, <1>11 DEF WithScreen, CellsUpTo
  <2>2. QED
    BY <1>3, <1>4, <2>1, SeenLines DEF Lines!DeleteCells, Lines!WithLine, text, a, C, after
<1>14. QED  BY <1>12, <1>13

\* The cells of a screen that a rectangle covers, and a buffer in which cells
\* have been blanked.
Area(b, sx, sy, w, h) ==
  {p \in (1..b.mScreenRows) \X (1..b.mColumns) : p[1] - 1 \in sy..sy + h - 1 /\ p[2] - sx \in 1..w}

\* Some cells of the screen have been blanked and nothing else has changed.
Wiped(b, c, cells) ==
  /\ IsRing(c) /\ Alike(b, c)
  /\ \A e \in Window(b) : e < 0 => Row(c, e) = Row(b, e)
  /\ \A r \in 1..b.mScreenRows :
       Row(c, r - 1).text = [n \in 1..b.mColumns |-> IF <<r, n>> \in cells THEN Blank
                                                     ELSE Row(b, r - 1).text[n]]

\* blockSet blanks the cells of an area of the screen,
LEMMA WipedOnce ==
    ASSUME NEW b, IsRing(b), NEW sx \in Int, NEW sy \in Int, NEW w \in Int, NEW h \in Int,
           sy..sy + h - 1 \subseteq 0..b.mScreenRows - 1,
           NEW c, c = blockSet(b, sx, sy, w, h)
    PROVE  Wiped(b, c, Area(b, sx, sy, w, h))
<1>. DEFINE R == b.mScreenRows
            C == b.mColumns
<1>1. R \in Nat /\ C \in Nat /\ b.mActiveTranscriptRows \in Nat
  BY Fields DEF IsRing
<1>2. /\ \A e \in 0..R - 1 : e \in Window(b)
      /\ sy..sy + h - 1 \subseteq Window(b)
  BY <1>1 DEF Window
<1>3. /\ IsRing(c) /\ Alike(b, c)
      /\ \A e \in sy..sy + h - 1 : Row(c, e).text = Blanked(Row(b, e), C, sx, w)
      /\ \A e \in Window(b) : e \notin sy..sy + h - 1 => Row(c, e) = Row(b, e)
  BY <1>2, BlockSetIs
<1>4. ASSUME NEW r \in 1..R
      PROVE  Row(c, r - 1).text = [n \in 1..C |-> IF <<r, n>> \in Area(b, sx, sy, w, h) THEN Blank
                                                  ELSE Row(b, r - 1).text[n]]
  <2>1. r - 1 \in Window(b) /\ r - 1 \in 0..R - 1
    BY <1>1, <1>2
  <2>2. \A n \in 1..C : <<r, n>> \in Area(b, sx, sy, w, h) <=> r - 1 \in sy..sy + h - 1 /\ n - sx \in 1..w
    BY DEF Area
  <2>3. CASE r - 1 \in sy..sy + h - 1
    BY <1>3, <2>2, <2>3 DEF Blanked
  <2>4. CASE r - 1 \notin sy..sy + h - 1
    <3>1. PICK text \in [1..C -> Cells] : text = Row(b, r - 1).text
      BY <2>1, LinesOf
    <3>2. Row(c, r - 1) = Row(b, r - 1)
      BY <1>3, <2>1, <2>4
    <3>3. [n \in 1..C |-> IF <<r, n>> \in Area(b, sx, sy, w, h) THEN Blank ELSE text[n]] = text
      BY <2>2, <2>4
    <3>4. QED  BY <3>1, <3>2, <3>3
  <2>5. QED  BY <2>3, <2>4
<1>5. ASSUME NEW e \in Window(b), e < 0
      PROVE  Row(c, e) = Row(b, e)
  <2>1. e \notin sy..sy + h - 1
    BY <1>1, <1>5
  <2>2. QED  BY <1>3, <2>1
<1>6. QED  BY <1>3, <1>4, <1>5 DEF Wiped

\* and two of them blank those of both.
LEMMA WipedTwice ==
    ASSUME NEW b, NEW c, NEW d, NEW X, NEW Y, IsRing(b), Wiped(b, c, X), Wiped(c, d, Y)
    PROVE  Wiped(b, d, X \cup Y)
<1>1. /\ IsRing(d) /\ Alike(b, d) /\ Window(c) = Window(b)
      /\ c.mScreenRows = b.mScreenRows /\ c.mColumns = b.mColumns
  BY DEF Wiped, Alike, Window
<1>2. \A e \in Window(b) : e < 0 => Row(d, e) = Row(b, e)
  BY <1>1 DEF Wiped
<1>3. ASSUME NEW r \in 1..b.mScreenRows
      PROVE  Row(d, r - 1).text = [n \in 1..b.mColumns |-> IF <<r, n>> \in X \cup Y THEN Blank
                                                           ELSE Row(b, r - 1).text[n]]
  <2>1. Row(c, r - 1).text = [n \in 1..b.mColumns |-> IF <<r, n>> \in X THEN Blank
                                                      ELSE Row(b, r - 1).text[n]]
    BY DEF Wiped
  <2>2. Row(d, r - 1).text = [n \in 1..b.mColumns |-> IF <<r, n>> \in Y THEN Blank
                                                      ELSE Row(c, r - 1).text[n]]
    BY <1>1 DEF Wiped
  <2>3. QED  BY <2>1, <2>2
<1>4. QED  BY <1>1, <1>2, <1>3 DEF Wiped

\* One character of a screen comes after another when it is read.
LEMMA ReadingOrder ==
    ASSUME NEW C \in Nat, NEW p \in Nat, NEW q \in Nat, NEW x \in 0..C - 1, NEW y \in 0..C - 1
    PROVE  p * C + x >= q * C + y <=> p > q \/ (p = q /\ x >= y)
<1>1. ASSUME NEW m \in Nat, NEW n \in Nat, m > n
      PROVE  m * C >= n * C + C
  <2>1. PICK d \in Nat : m = n + 1 + d
    <3>1. m - n - 1 \in Nat /\ m = n + 1 + (m - n - 1)
      BY <1>1
    <3>2. QED  BY <3>1
  <2>2. m * C = n * C + C + d * C
    BY <2>1
  <2>3. d * C \in Nat /\ n * C \in Nat
    OBVIOUS
  <2>4. QED  BY <2>2, <2>3
<1>2. p * C \in Nat /\ q * C \in Nat
  OBVIOUS
<1>3. p > q => p * C >= q * C + C
  BY <1>1
<1>4. q > p => q * C >= p * C + C
  BY <1>1
<1>. DEFINE pc == p * C
            qc == q * C
<1>5. p = q => pc = qc
  OBVIOUS
<1>. HIDE DEF pc, qc
<1>6. pc \in Nat /\ qc \in Nat /\ (p > q => pc >= qc + C) /\ (q > p => qc >= pc + C)
  BY <1>2, <1>3, <1>4 DEF pc, qc
<1>7. pc + x >= qc + y <=> p > q \/ (p = q /\ x >= y)
  BY <1>5, <1>6
<1>8. QED  BY <1>7 DEF pc, qc

\* The cells that an erasure blanks.
Erased(area, part) ==
  {p \in (1..Rows) \X (1..Columns) :
     /\ area = "line" => p[1] = cursor.row + 1
     /\ part = "after" => p[1] > cursor.row + 1 \/ (p[1] = cursor.row + 1 /\ p[2] >= cursor.column + 1)
     /\ part = "before" => p[1] < cursor.row + 1 \/ (p[1] = cursor.row + 1 /\ p[2] <= cursor.column + 1)}

\* Blanking the cells that ScreenLines erases is its step.
LEMMA ErasedStep ==
    ASSUME RingInv, NEW area, NEW part, Wiped(buffer, buffer', Erased(area, part)),
           cursor' = cursor, margin' = margin, alt' = alt, mAboutToAutoWrap' = FALSE
    PROVE  RingInv' /\ Lines!EraseIn(area, part)
<1>. DEFINE R == Rows
            C == Columns
            cells == Erased(area, part)
            S == Screen(buffer)
            at(r, n) == (r - 1) * C + n - 1
            here == at(cursor.row + 1, cursor.column + 1)
            erased(r, n) == /\ area = "line" => r = cursor.row + 1
                            /\ part = "after" => at(r, n) >= here
                            /\ part = "before" => at(r, n) <= here
<1>1. /\ R \in Nat /\ C \in Nat /\ IsRing(buffer) /\ cursor.row \in 0..R - 1 /\ cursor.column \in 0..C - 1
      /\ buffer.mScreenRows = R /\ buffer.mColumns = C /\ buffer.mActiveTranscriptRows \in Nat
  BY RingFields DEF Rows, Columns
<1>2. /\ IsRing(buffer') /\ Alike(buffer, buffer')
      /\ \A e \in Window(buffer) : e < 0 => Row(buffer', e) = Row(buffer, e)
      /\ \A r \in 1..R : Row(buffer', r - 1).text =
                           [n \in 1..C |-> IF <<r, n>> \in cells THEN Blank ELSE Row(buffer, r - 1).text[n]]
  BY <1>1 DEF Wiped
<1>. HIDE DEF C, R
<1>3. ASSUME NEW r \in 1..R, NEW n \in 1..C
      PROVE  <<r, n>> \in cells <=> erased(r, n)
  <2>1. r - 1 \in Nat /\ n - 1 \in 0..C - 1 /\ cursor.row \in Nat
    BY <1>1
  <2>2. /\ (r - 1) * C + (n - 1) >= cursor.row * C + cursor.column
             <=> r - 1 > cursor.row \/ (r - 1 = cursor.row /\ n - 1 >= cursor.column)
        /\ cursor.row * C + cursor.column >= (r - 1) * C + (n - 1)
             <=> cursor.row > r - 1 \/ (r - 1 = cursor.row /\ cursor.column >= n - 1)
    BY <1>1, <2>1, ReadingOrder
  <2>3. (r - 1) * C \in Nat /\ cursor.row * C \in Nat
    BY <1>1, <2>1
  <2>4. cursor.row + 1 - 1 = cursor.row
    BY <2>1
  <2>5. at(r, n) = (r - 1) * C + (n - 1) /\ here = cursor.row * C + cursor.column
    BY <1>1, <2>1, <2>3, <2>4
  <2>. HIDE DEF at, here
  <2>6. /\ at(r, n) >= here <=> r > cursor.row + 1 \/ (r = cursor.row + 1 /\ n >= cursor.column + 1)
        /\ at(r, n) <= here <=> r < cursor.row + 1 \/ (r = cursor.row + 1 /\ n <= cursor.column + 1)
    <3>1. /\ at(r, n) \in Nat /\ here \in Nat
      BY <1>1, <2>1, <2>3, <2>5
    <3>2. /\ at(r, n) >= here <=> r - 1 > cursor.row \/ (r - 1 = cursor.row /\ n - 1 >= cursor.column)
          /\ here >= at(r, n) <=> cursor.row > r - 1 \/ (r - 1 = cursor.row /\ cursor.column >= n - 1)
      BY <2>2, <2>5
    <3>. HIDE DEF at, here
    <3>3. /\ r - 1 > cursor.row <=> r > cursor.row + 1
          /\ cursor.row > r - 1 <=> r < cursor.row + 1
          /\ r - 1 = cursor.row <=> r = cursor.row + 1
          /\ n - 1 >= cursor.column <=> n >= cursor.column + 1
          /\ cursor.column >= n - 1 <=> n <= cursor.column + 1
      BY <1>1, <2>1
    <3>4. at(r, n) <= here <=> here >= at(r, n)
      BY <3>1
    <3>5. QED  BY <3>2, <3>3, <3>4
  <2>7. <<r, n>> \in cells <=>
                              /\ area = "line" => r = cursor.row + 1
                              /\ part = "after" => (r > cursor.row + 1 \/ (r = cursor.row + 1 /\ n >= cursor.column + 1))
                              /\ part = "before" => (r < cursor.row + 1 \/ (r = cursor.row + 1 /\ n <= cursor.column + 1))
    BY DEF Erased, R, C
  <2>8. QED  BY <2>6, <2>7
<1>. HIDE DEF cells, at, here
<1>4. Transcript(buffer') = Transcript(buffer)
  <2>1. /\ buffer'.mActiveTranscriptRows = buffer.mActiveTranscriptRows
    BY <1>2 DEF Alike
  <2>2. ASSUME NEW n \in 1..buffer.mActiveTranscriptRows
        PROVE  Row(buffer', n - 1 - buffer.mActiveTranscriptRows).text
                 = Row(buffer, n - 1 - buffer.mActiveTranscriptRows).text
    <3>1. n - 1 - buffer.mActiveTranscriptRows \in Window(buffer) /\ n - 1 - buffer.mActiveTranscriptRows < 0
      BY <1>1 DEF Window
    <3>2. QED  BY <1>2, <3>1
  <2>3. QED  BY <2>1, <2>2 DEF Transcript
<1>6. RingInv'
  BY <1>2, KeepsAlike DEF RingInv
<1>7. Lines!EraseIn(area, part)
  <2>. DEFINE seen == Texts(0, buffer.mScreenRows - 1)
              lat(r, n) == (r - 1) * Lines!Columns + n - 1
              lhere == lat(cursor.row + 1, cursor.column + 1)
              lerased(r, n) == /\ area = "line" => r = cursor.row + 1
                               /\ part = "after" => lat(r, n) >= lhere
                               /\ part = "before" => lat(r, n) <= lhere
  <2>1. Lines!Rows = R /\ Lines!Columns = C /\ seen = S
    BY <1>2, SeenLines DEF R, C
  <2>2. ASSUME NEW r \in 1..R, NEW n \in 1..C
        PROVE  <<r, n>> \in cells <=> lerased(r, n)
    <3>1. lat(r, n) = at(r, n) /\ lhere = here
      BY <2>1 DEF at, here
    <3>. HIDE DEF lat, lhere
    <3>2. QED  BY <1>3, <3>1
  <2>. HIDE DEF lerased, seen
  <2>3. ASSUME NEW r \in 1..R
        PROVE  Row(buffer', r - 1).text = [n \in 1..Lines!Columns |-> IF lerased(r, n) THEN Blank ELSE seen[r][n]]
    <3>1. S[r] = Row(buffer, r - 1).text
      BY <1>1 DEF Screen
    <3>. HIDE DEF S
    <3>2. QED  BY <1>2, <2>1, <2>2, <3>1
  <2>4. Screen(buffer') = [r \in 1..Lines!Rows |->
                             [n \in 1..Lines!Columns |-> IF lerased(r, n) THEN Blank ELSE seen[r][n]]]
    <3>1. buffer'.mScreenRows = Lines!Rows
      BY <1>1, <1>2, <2>1 DEF Alike
    <3>2. QED  BY <2>1, <2>3, <3>1 DEF Screen
  <2>5. Texts(0, buffer.mScreenRows - 1)' =
          [r \in 1..Lines!Rows |-> [n \in 1..Lines!Columns |->
             IF lerased(r, n) THEN Blank ELSE Texts(0, buffer.mScreenRows - 1)[r][n]]]
    BY <1>2, <2>4, SeenLines DEF seen
  <2>6. Texts(-buffer.mActiveTranscriptRows, -1)' = Texts(-buffer.mActiveTranscriptRows, -1)
    BY <1>2, <1>4, SeenLines
  <2>7. QED  BY <2>5, <2>6, Zenon DEF Lines!EraseIn, lerased, lat, lhere
<1>8. QED  BY <1>6, <1>7

\* The cells of a rectangle, and those of an erasure.
LEMMA InArea ==
    ASSUME NEW b, NEW sx \in Int, NEW sy \in Int, NEW w \in Int, NEW h \in Int,
           b.mScreenRows \in Nat, b.mColumns \in Nat,
           NEW r \in 1..b.mScreenRows, NEW n \in 1..b.mColumns
    PROVE  <<r, n>> \in Area(b, sx, sy, w, h) <=> sy < r /\ r <= sy + h /\ sx < n /\ n <= sx + w
<1>1. <<r, n>> \in Area(b, sx, sy, w, h) <=> r - 1 \in sy..sy + h - 1 /\ n - sx \in 1..w
  BY DEF Area
<1>2. (r - 1 \in sy..sy + h - 1 <=> sy < r /\ r <= sy + h) /\ (n - sx \in 1..w <=> sx < n /\ n <= sx + w)
  OBVIOUS
<1>3. QED  BY <1>1, <1>2

\* What a rectangle of the screen covers, when an erasure blanks it.
LEMMA ErasedAreas ==
    ASSUME RingInv
    PROVE  /\ Area(buffer, cursor.column, cursor.row, Columns - cursor.column, 1) = Erased("line", "after")
           /\ Area(buffer, 0, cursor.row, cursor.column + 1, 1) = Erased("line", "before")
           /\ Area(buffer, 0, cursor.row, Columns, 1) = Erased("line", "all")
           /\ Area(buffer, 0, 0, Columns, Rows) = Erased("screen", "all")
           /\ Erased("line", "after")
                \cup Area(buffer, 0, cursor.row + 1, Columns, Rows - (cursor.row + 1)) = Erased("screen", "after")
           /\ Area(buffer, 0, 0, Columns, cursor.row)
                \cup Erased("line", "before") = Erased("screen", "before")
<1>1. PICK x, y : x = cursor.column /\ y = cursor.row
  OBVIOUS
<1>2. PICK R, C : R = Rows /\ C = Columns
  OBVIOUS
<1>3. /\ x \in Nat /\ y \in Nat /\ R \in Nat /\ C \in Nat /\ y < R /\ x < C
      /\ buffer.mScreenRows = R /\ buffer.mColumns = C
  BY <1>1, <1>2, RingFields DEF Rows, Columns
<1>. DEFINE cells == (1..R) \X (1..C)
<1>4. ASSUME NEW sx \in Int, NEW sy \in Int, NEW w \in Int, NEW h \in Int
      PROVE  Area(buffer, sx, sy, w, h) \subseteq cells
  BY <1>3 DEF Area
<1>5. ASSUME NEW area, NEW part
      PROVE  Erased(area, part) \subseteq cells
  BY <1>2 DEF Erased
<1>6. ASSUME NEW area, NEW part, NEW r \in 1..R, NEW n \in 1..C
      PROVE  <<r, n>> \in Erased(area, part) <=>
               /\ area = "line" => r = y + 1
               /\ part = "after" => (r > y + 1 \/ (r = y + 1 /\ n >= x + 1))
               /\ part = "before" => (r < y + 1 \/ (r = y + 1 /\ n <= x + 1))
  BY <1>1, <1>2 DEF Erased
<1>7. ASSUME NEW X, NEW Y, X \subseteq cells, Y \subseteq cells,
             \A r \in 1..R, n \in 1..C : <<r, n>> \in X <=> <<r, n>> \in Y
      PROVE  X = Y
  BY <1>7
<1>8. /\ Columns - cursor.column = C - x /\ cursor.column + 1 = x + 1
      /\ Rows - (cursor.row + 1) = R - (y + 1) /\ cursor.row + 1 = y + 1
      /\ C - x \in Int /\ x + 1 \in Int /\ R - (y + 1) \in Int /\ y + 1 \in Int /\ 0 \in Int /\ 1 \in Int
      /\ C \in Int /\ R \in Int /\ x \in Int /\ y \in Int
  BY <1>1, <1>2, <1>3
<1>. HIDE DEF cells
<1>9. Area(buffer, x, y, C - x, 1) = Erased("line", "after")
  <2>1. ASSUME NEW r \in 1..R, NEW n \in 1..C
        PROVE  <<r, n>> \in Area(buffer, x, y, C - x, 1) <=> y < r /\ r <= y + (1) /\ x < n /\ n <= x + (C - x)
    <3>1. PICK sx, sy : sx = x /\ sy = y /\ sx \in Int /\ sy \in Int
      BY <1>8
    <3>2. PICK w, h : w = C - x /\ h = 1 /\ w \in Int /\ h \in Int
      BY <1>8
    <3>3. <<r, n>> \in Area(buffer, sx, sy, w, h) <=> sy < r /\ r <= sy + h /\ sx < n /\ n <= sx + w
      BY <1>3, <3>1, <3>2, InArea
    <3>4. QED  BY <3>1, <3>2, <3>3
  <2>2. ASSUME NEW r \in 1..R, NEW n \in 1..C
        PROVE  <<r, n>> \in Area(buffer, x, y, C - x, 1) <=> <<r, n>> \in Erased("line", "after")
    <3>1. r \in Int /\ n \in Int
      BY <1>3
    <3>2. /\ <<r, n>> \in Erased("line", "after") <=>
             /\ "line" = "line" => r = y + 1
             /\ "after" = "after" => (r > y + 1 \/ (r = y + 1 /\ n >= x + 1))
             /\ "after" = "before" => (r < y + 1 \/ (r = y + 1 /\ n <= x + 1))
      BY <1>6
    <3>3. r <= R /\ n <= C /\ 1 <= r /\ 1 <= n
      BY <1>3
    <3>4. QED  BY <1>3, <2>1, <3>1, <3>2, <3>3, <3>3
  <2>3. Area(buffer, x, y, C - x, 1) \subseteq cells
    <3>1. Area(buffer, x, y, C - x, 1) \subseteq cells
      <4>1. PICK sx, sy : sx = x /\ sy = y /\ sx \in Int /\ sy \in Int
        BY <1>8
      <4>2. PICK w, h : w = C - x /\ h = 1 /\ w \in Int /\ h \in Int
        BY <1>8
      <4>3. QED  BY <1>4, <4>1, <4>2
    <3>2. QED  BY <1>5, <3>1
  <2>4. Erased("line", "after") \subseteq cells
    BY <1>5
  <2>5. QED  BY <1>7, <2>2, <2>3, <2>4
<1>10. Area(buffer, 0, y, x + 1, 1) = Erased("line", "before")
  <2>1. ASSUME NEW r \in 1..R, NEW n \in 1..C
        PROVE  <<r, n>> \in Area(buffer, 0, y, x + 1, 1) <=> y < r /\ r <= y + (1) /\ 0 < n /\ n <= 0 + (x + 1)
    <3>1. PICK sx, sy : sx = 0 /\ sy = y /\ sx \in Int /\ sy \in Int
      BY <1>8
    <3>2. PICK w, h : w = x + 1 /\ h = 1 /\ w \in Int /\ h \in Int
      BY <1>8
    <3>3. <<r, n>> \in Area(buffer, sx, sy, w, h) <=> sy < r /\ r <= sy + h /\ sx < n /\ n <= sx + w
      BY <1>3, <3>1, <3>2, InArea
    <3>4. QED  BY <3>1, <3>2, <3>3
  <2>2. ASSUME NEW r \in 1..R, NEW n \in 1..C
        PROVE  <<r, n>> \in Area(buffer, 0, y, x + 1, 1) <=> <<r, n>> \in Erased("line", "before")
    <3>1. r \in Int /\ n \in Int
      BY <1>3
    <3>2. /\ <<r, n>> \in Erased("line", "before") <=>
             /\ "line" = "line" => r = y + 1
             /\ "before" = "after" => (r > y + 1 \/ (r = y + 1 /\ n >= x + 1))
             /\ "before" = "before" => (r < y + 1 \/ (r = y + 1 /\ n <= x + 1))
      BY <1>6
    <3>3. r <= R /\ n <= C /\ 1 <= r /\ 1 <= n
      BY <1>3
    <3>4. QED  BY <1>3, <2>1, <3>1, <3>2, <3>3, <3>3
  <2>3. Area(buffer, 0, y, x + 1, 1) \subseteq cells
    <3>1. Area(buffer, 0, y, x + 1, 1) \subseteq cells
      <4>1. PICK sx, sy : sx = 0 /\ sy = y /\ sx \in Int /\ sy \in Int
        BY <1>8
      <4>2. PICK w, h : w = x + 1 /\ h = 1 /\ w \in Int /\ h \in Int
        BY <1>8
      <4>3. QED  BY <1>4, <4>1, <4>2
    <3>2. QED  BY <1>5, <3>1
  <2>4. Erased("line", "before") \subseteq cells
    BY <1>5
  <2>5. QED  BY <1>7, <2>2, <2>3, <2>4
<1>11. Area(buffer, 0, y, C, 1) = Erased("line", "all")
  <2>1. ASSUME NEW r \in 1..R, NEW n \in 1..C
        PROVE  <<r, n>> \in Area(buffer, 0, y, C, 1) <=> y < r /\ r <= y + (1) /\ 0 < n /\ n <= 0 + (C)
    <3>1. PICK sx, sy : sx = 0 /\ sy = y /\ sx \in Int /\ sy \in Int
      BY <1>8
    <3>2. PICK w, h : w = C /\ h = 1 /\ w \in Int /\ h \in Int
      BY <1>8
    <3>3. <<r, n>> \in Area(buffer, sx, sy, w, h) <=> sy < r /\ r <= sy + h /\ sx < n /\ n <= sx + w
      BY <1>3, <3>1, <3>2, InArea
    <3>4. QED  BY <3>1, <3>2, <3>3
  <2>2. ASSUME NEW r \in 1..R, NEW n \in 1..C
        PROVE  <<r, n>> \in Area(buffer, 0, y, C, 1) <=> <<r, n>> \in Erased("line", "all")
    <3>1. r \in Int /\ n \in Int
      BY <1>3
    <3>2. /\ <<r, n>> \in Erased("line", "all") <=>
             /\ "line" = "line" => r = y + 1
             /\ "all" = "after" => (r > y + 1 \/ (r = y + 1 /\ n >= x + 1))
             /\ "all" = "before" => (r < y + 1 \/ (r = y + 1 /\ n <= x + 1))
      BY <1>6
    <3>3. r <= R /\ n <= C /\ 1 <= r /\ 1 <= n
      BY <1>3
    <3>4. QED  BY <1>3, <2>1, <3>1, <3>2, <3>3, <3>3
  <2>3. Area(buffer, 0, y, C, 1) \subseteq cells
    <3>1. Area(buffer, 0, y, C, 1) \subseteq cells
      <4>1. PICK sx, sy : sx = 0 /\ sy = y /\ sx \in Int /\ sy \in Int
        BY <1>8
      <4>2. PICK w, h : w = C /\ h = 1 /\ w \in Int /\ h \in Int
        BY <1>8
      <4>3. QED  BY <1>4, <4>1, <4>2
    <3>2. QED  BY <1>5, <3>1
  <2>4. Erased("line", "all") \subseteq cells
    BY <1>5
  <2>5. QED  BY <1>7, <2>2, <2>3, <2>4
<1>12. Area(buffer, 0, 0, C, R) = Erased("screen", "all")
  <2>1. ASSUME NEW r \in 1..R, NEW n \in 1..C
        PROVE  <<r, n>> \in Area(buffer, 0, 0, C, R) <=> 0 < r /\ r <= 0 + (R) /\ 0 < n /\ n <= 0 + (C)
    <3>1. PICK sx, sy : sx = 0 /\ sy = 0 /\ sx \in Int /\ sy \in Int
      BY <1>8
    <3>2. PICK w, h : w = C /\ h = R /\ w \in Int /\ h \in Int
      BY <1>8
    <3>3. <<r, n>> \in Area(buffer, sx, sy, w, h) <=> sy < r /\ r <= sy + h /\ sx < n /\ n <= sx + w
      BY <1>3, <3>1, <3>2, InArea
    <3>4. QED  BY <3>1, <3>2, <3>3
  <2>2. ASSUME NEW r \in 1..R, NEW n \in 1..C
        PROVE  <<r, n>> \in Area(buffer, 0, 0, C, R) <=> <<r, n>> \in Erased("screen", "all")
    <3>1. r \in Int /\ n \in Int
      BY <1>3
    <3>2. /\ <<r, n>> \in Erased("screen", "all") <=>
             /\ "screen" = "line" => r = y + 1
             /\ "all" = "after" => (r > y + 1 \/ (r = y + 1 /\ n >= x + 1))
             /\ "all" = "before" => (r < y + 1 \/ (r = y + 1 /\ n <= x + 1))
      BY <1>6
    <3>3. r <= R /\ n <= C /\ 1 <= r /\ 1 <= n
      BY <1>3
    <3>4. QED  BY <1>3, <2>1, <3>1, <3>2, <3>3, <3>3
  <2>3. Area(buffer, 0, 0, C, R) \subseteq cells
    <3>1. Area(buffer, 0, 0, C, R) \subseteq cells
      <4>1. PICK sx, sy : sx = 0 /\ sy = 0 /\ sx \in Int /\ sy \in Int
        BY <1>8
      <4>2. PICK w, h : w = C /\ h = R /\ w \in Int /\ h \in Int
        BY <1>8
      <4>3. QED  BY <1>4, <4>1, <4>2
    <3>2. QED  BY <1>5, <3>1
  <2>4. Erased("screen", "all") \subseteq cells
    BY <1>5
  <2>5. QED  BY <1>7, <2>2, <2>3, <2>4
<1>13. Area(buffer, 0, y + 1, C, R - (y + 1)) \cup Erased("line", "after") = Erased("screen", "after")
  <2>1. ASSUME NEW r \in 1..R, NEW n \in 1..C
        PROVE  <<r, n>> \in Area(buffer, 0, y + 1, C, R - (y + 1)) <=> y + 1 < r /\ r <= y + 1 + (R - (y + 1)) /\ 0 < n /\ n <= 0 + (C)
    <3>1. PICK sx, sy : sx = 0 /\ sy = y + 1 /\ sx \in Int /\ sy \in Int
      BY <1>8
    <3>2. PICK w, h : w = C /\ h = R - (y + 1) /\ w \in Int /\ h \in Int
      BY <1>8
    <3>3. <<r, n>> \in Area(buffer, sx, sy, w, h) <=> sy < r /\ r <= sy + h /\ sx < n /\ n <= sx + w
      BY <1>3, <3>1, <3>2, InArea
    <3>4. QED  BY <3>1, <3>2, <3>3
  <2>2. ASSUME NEW r \in 1..R, NEW n \in 1..C
        PROVE  <<r, n>> \in Area(buffer, 0, y + 1, C, R - (y + 1)) \cup Erased("line", "after") <=> <<r, n>> \in Erased("screen", "after")
    <3>1. r \in Int /\ n \in Int
      BY <1>3
    <3>2. /\ <<r, n>> \in Erased("screen", "after") <=>
             /\ "screen" = "line" => r = y + 1
             /\ "after" = "after" => (r > y + 1 \/ (r = y + 1 /\ n >= x + 1))
             /\ "after" = "before" => (r < y + 1 \/ (r = y + 1 /\ n <= x + 1))
      BY <1>6
    <3>3. /\ <<r, n>> \in Erased("line", "after") <=>
             /\ "line" = "line" => r = y + 1
             /\ "after" = "after" => (r > y + 1 \/ (r = y + 1 /\ n >= x + 1))
             /\ "after" = "before" => (r < y + 1 \/ (r = y + 1 /\ n <= x + 1))
      BY <1>6
    <3>4. r <= R /\ n <= C /\ 1 <= r /\ 1 <= n
      BY <1>3
    <3>5. QED  BY <1>3, <2>1, <3>1, <3>2, <3>3, <3>4
  <2>3. Area(buffer, 0, y + 1, C, R - (y + 1)) \cup Erased("line", "after") \subseteq cells
    <3>1. Area(buffer, 0, y + 1, C, R - (y + 1)) \subseteq cells
      <4>1. PICK sx, sy : sx = 0 /\ sy = y + 1 /\ sx \in Int /\ sy \in Int
        BY <1>8
      <4>2. PICK w, h : w = C /\ h = R - (y + 1) /\ w \in Int /\ h \in Int
        BY <1>8
      <4>3. QED  BY <1>4, <4>1, <4>2
    <3>2. QED  BY <1>5, <3>1
  <2>4. Erased("screen", "after") \subseteq cells
    BY <1>5
  <2>5. QED  BY <1>7, <2>2, <2>3, <2>4
<1>14. Area(buffer, 0, 0, C, y) \cup Erased("line", "before") = Erased("screen", "before")
  <2>1. ASSUME NEW r \in 1..R, NEW n \in 1..C
        PROVE  <<r, n>> \in Area(buffer, 0, 0, C, y) <=> 0 < r /\ r <= 0 + (y) /\ 0 < n /\ n <= 0 + (C)
    <3>1. PICK sx, sy : sx = 0 /\ sy = 0 /\ sx \in Int /\ sy \in Int
      BY <1>8
    <3>2. PICK w, h : w = C /\ h = y /\ w \in Int /\ h \in Int
      BY <1>8
    <3>3. <<r, n>> \in Area(buffer, sx, sy, w, h) <=> sy < r /\ r <= sy + h /\ sx < n /\ n <= sx + w
      BY <1>3, <3>1, <3>2, InArea
    <3>4. QED  BY <3>1, <3>2, <3>3
  <2>2. ASSUME NEW r \in 1..R, NEW n \in 1..C
        PROVE  <<r, n>> \in Area(buffer, 0, 0, C, y) \cup Erased("line", "before") <=> <<r, n>> \in Erased("screen", "before")
    <3>1. r \in Int /\ n \in Int
      BY <1>3
    <3>2. /\ <<r, n>> \in Erased("screen", "before") <=>
             /\ "screen" = "line" => r = y + 1
             /\ "before" = "after" => (r > y + 1 \/ (r = y + 1 /\ n >= x + 1))
             /\ "before" = "before" => (r < y + 1 \/ (r = y + 1 /\ n <= x + 1))
      BY <1>6
    <3>3. /\ <<r, n>> \in Erased("line", "before") <=>
             /\ "line" = "line" => r = y + 1
             /\ "before" = "after" => (r > y + 1 \/ (r = y + 1 /\ n >= x + 1))
             /\ "before" = "before" => (r < y + 1 \/ (r = y + 1 /\ n <= x + 1))
      BY <1>6
    <3>4. r <= R /\ n <= C /\ 1 <= r /\ 1 <= n
      BY <1>3
    <3>5. QED  BY <1>3, <2>1, <3>1, <3>2, <3>3, <3>4
  <2>3. Area(buffer, 0, 0, C, y) \cup Erased("line", "before") \subseteq cells
    <3>1. Area(buffer, 0, 0, C, y) \subseteq cells
      <4>1. PICK sx, sy : sx = 0 /\ sy = 0 /\ sx \in Int /\ sy \in Int
        BY <1>8
      <4>2. PICK w, h : w = C /\ h = y /\ w \in Int /\ h \in Int
        BY <1>8
      <4>3. QED  BY <1>4, <4>1, <4>2
    <3>2. QED  BY <1>5, <3>1
  <2>4. Erased("screen", "before") \subseteq cells
    BY <1>5
  <2>5. QED  BY <1>7, <2>2, <2>3, <2>4
<1>15. QED  BY <1>1, <1>2, <1>8, <1>9, <1>10, <1>11, <1>12, <1>13, <1>14

\* An erasure in the cursor's line.
LEMMA InLineIs ==
    ASSUME RingInv, NEW part \in {"after", "before", "all"}, NEW b, IsRing(b), Alike(buffer, b),
           NEW c, c = EraseInLine(b, part)
    PROVE  Wiped(b, c, Erased("line", part))
<1>1. PICK x, y : x = cursor.column /\ y = cursor.row
  OBVIOUS
<1>2. PICK R, C : R = Rows /\ C = Columns
  OBVIOUS
<1>3. PICK none, one : none = 0 /\ one = 1
  OBVIOUS
<1>4. /\ x \in Nat /\ y \in Nat /\ R \in Nat /\ C \in Nat /\ y < R /\ x < C
      /\ b.mScreenRows = R /\ b.mColumns = C
  BY <1>1, <1>2, RingFields DEF Alike, Rows, Columns
<1>5. y..y + one - 1 \subseteq 0..b.mScreenRows - 1
  BY <1>3, <1>4
<1>6. PICK w, z : w = C - x /\ w \in Int /\ z = x + 1 /\ z \in Int
  BY <1>4
<1>7. \A sx, sy, v, h : Area(b, sx, sy, v, h) = Area(buffer, sx, sy, v, h)
  BY DEF Area, Alike
<1>8. CASE part = "after"
  <2>1. c = blockSet(b, x, y, w, one)
    BY <1>1, <1>2, <1>3, <1>6, <1>8 DEF EraseInLine
  <2>2. Wiped(b, c, Area(b, x, y, w, one))
    BY <1>3, <1>4, <1>5, <1>6, <2>1, WipedOnce
  <2>3. Area(b, x, y, w, one) = Erased("line", "after")
    BY <1>1, <1>2, <1>3, <1>6, <1>7, ErasedAreas
  <2>4. QED  BY <1>8, <2>2, <2>3
<1>9. CASE part = "before"
  <2>1. c = blockSet(b, none, y, z, one)
    BY <1>1, <1>2, <1>3, <1>6, <1>9 DEF EraseInLine
  <2>2. Wiped(b, c, Area(b, none, y, z, one))
    BY <1>3, <1>4, <1>5, <1>6, <2>1, WipedOnce
  <2>3. Area(b, none, y, z, one) = Erased("line", "before")
    BY <1>1, <1>2, <1>3, <1>6, <1>7, ErasedAreas
  <2>4. QED  BY <1>9, <2>2, <2>3
<1>10. CASE part = "all"
  <2>1. c = blockSet(b, none, y, C, one)
    BY <1>1, <1>2, <1>3, <1>10 DEF EraseInLine
  <2>2. Wiped(b, c, Area(b, none, y, C, one))
    BY <1>3, <1>4, <1>5, <2>1, WipedOnce
  <2>3. Area(b, none, y, C, one) = Erased("line", "all")
    BY <1>1, <1>2, <1>3, <1>7, ErasedAreas
  <2>4. QED  BY <1>10, <2>2, <2>3
<1>11. QED  BY <1>8, <1>9, <1>10

\* An erasure on the screen.
LEMMA InDisplayIs ==
    ASSUME RingInv, NEW part \in {"after", "before", "all"}, NEW c, c = EraseInDisplay(buffer, part)
    PROVE  Wiped(buffer, c, Erased("screen", part))
<1>1. PICK x, y : x = cursor.column /\ y = cursor.row
  OBVIOUS
<1>2. PICK R, C : R = Rows /\ C = Columns
  OBVIOUS
<1>3. PICK none, one : none = 0 /\ one = 1
  OBVIOUS
<1>4. /\ x \in Nat /\ y \in Nat /\ R \in Nat /\ C \in Nat /\ y < R /\ x < C
      /\ buffer.mScreenRows = R /\ buffer.mColumns = C /\ IsRing(buffer)
  BY <1>1, <1>2, RingFields DEF Rows, Columns
<1>5. Alike(buffer, buffer)
  BY DEF Alike
<1>6. CASE part = "after"
  <2>1. PICK first, h : first = y + 1 /\ first \in Int /\ h = R - (y + 1) /\ h \in Int
    BY <1>4
  <2>2. PICK d : d = EraseInLine(buffer, "after")
    OBVIOUS
  <2>3. c = blockSet(d, none, first, C, h)
    BY <1>1, <1>2, <1>3, <1>6, <2>1, <2>2 DEF EraseInDisplay
  <2>4. Wiped(buffer, d, Erased("line", "after"))
    BY <1>4, <1>5, <2>2, InLineIs
  <2>5. IsRing(d) /\ d.mScreenRows = R /\ d.mColumns = C
    BY <1>4, <2>4 DEF Wiped, Alike
  <2>6. first..first + h - 1 \subseteq 0..d.mScreenRows - 1
    BY <1>4, <2>1, <2>5
  <2>7. Wiped(d, c, Area(d, none, first, C, h))
    BY <1>3, <1>4, <2>1, <2>3, <2>5, <2>6, WipedOnce
  <2>8. Area(d, none, first, C, h) = Area(buffer, none, first, C, h)
    BY <1>4, <2>5 DEF Area
  <2>9. Erased("line", "after") \cup Area(buffer, none, first, C, h) = Erased("screen", "after")
    BY <1>1, <1>2, <1>3, <2>1, ErasedAreas
  <2>10. PICK X, Y : X = Erased("line", "after") /\ Y = Area(buffer, none, first, C, h)
    OBVIOUS
  <2>11. Wiped(buffer, c, X \cup Y)
    BY <1>4, <2>4, <2>7, <2>8, <2>10, WipedTwice
  <2>12. QED  BY <1>6, <2>9, <2>10, <2>11
<1>7. CASE part = "before"
  <2>1. PICK d : d = blockSet(buffer, none, none, C, y)
    OBVIOUS
  <2>2. c = EraseInLine(d, "before")
    BY <1>1, <1>2, <1>3, <1>7, <2>1 DEF EraseInDisplay
  <2>3. none..none + y - 1 \subseteq 0..buffer.mScreenRows - 1
    BY <1>3, <1>4
  <2>4. Wiped(buffer, d, Area(buffer, none, none, C, y))
    BY <1>3, <1>4, <2>1, <2>3, WipedOnce
  <2>5. IsRing(d) /\ Alike(buffer, d)
    BY <2>4 DEF Wiped
  <2>6. Wiped(d, c, Erased("line", "before"))
    BY <2>2, <2>5, InLineIs
  <2>7. Area(buffer, none, none, C, y) \cup Erased("line", "before") = Erased("screen", "before")
    BY <1>1, <1>2, <1>3, ErasedAreas
  <2>8. PICK X, Y : X = Area(buffer, none, none, C, y) /\ Y = Erased("line", "before")
    OBVIOUS
  <2>9. Wiped(buffer, c, X \cup Y)
    BY <1>4, <2>4, <2>6, <2>8, WipedTwice
  <2>10. QED  BY <1>7, <2>7, <2>8, <2>9
<1>8. CASE part = "all"
  <2>1. c = blockSet(buffer, none, none, C, R)
    BY <1>2, <1>3, <1>8 DEF EraseInDisplay
  <2>2. none..none + R - 1 \subseteq 0..buffer.mScreenRows - 1
    BY <1>3, <1>4
  <2>3. Wiped(buffer, c, Area(buffer, none, none, C, R))
    BY <1>3, <1>4, <2>1, <2>2, WipedOnce
  <2>4. Area(buffer, none, none, C, R) = Erased("screen", "all")
    BY <1>2, <1>3, ErasedAreas
  <2>5. QED  BY <1>8, <2>3, <2>4
<1>9. QED  BY <1>6, <1>7, <1>8

\* The transcript of the main screen is dropped.
LEMMA ClearIs ==
    ASSUME RingInv, buffer' = clearTranscript(buffer), cursor' = cursor, margin' = margin, alt' = alt,
           mAboutToAutoWrap' = FALSE
    PROVE  RingInv' /\ Lines!ClearTranscript
<1>1. IsRing(buffer) /\ buffer.mScreenRows = Rows /\ buffer.mColumns = Columns
  BY RingFields DEF Rows, Columns
<1>2. PICK b, c : b = buffer /\ c = buffer' /\ c = clearTranscript(b) /\ IsRing(b)
  BY <1>1
<1>3. /\ IsRing(c)
      /\ c.mTotalRows = b.mTotalRows /\ c.mScreenRows = b.mScreenRows /\ c.mColumns = b.mColumns
      /\ c.mActiveTranscriptRows = 0 /\ c.mScreenFirstRow = b.mScreenFirstRow
      /\ \A e \in 0..b.mScreenRows - 1 : Row(c, e) = Row(b, e)
  BY <1>2, ClearTranscriptIs
<1>4. RingInv'
  <2>1. cursor' \in [column : 0..Columns - 1, row : 0..Rows - 1]
    BY DEF RingInv
  <2>2. /\ IsRing(buffer') /\ buffer'.mTotalRows = buffer.mTotalRows /\ buffer'.mScreenRows = Rows
        /\ buffer'.mColumns = Columns /\ buffer'.mScreenFirstRow = buffer.mScreenFirstRow
    BY <1>1, <1>2, <1>3
  <2>3. QED  BY <2>1, <2>2, KeepsRing
<1>5. Screen(c) = Screen(b)
  <2>1. b.mScreenRows \in Nat
    BY <1>1, <1>2, RingFields
  <2>2. \A n \in 1..b.mScreenRows : Row(c, n - 1).text = Row(b, n - 1).text
    BY <1>3, <2>1
  <2>3. QED  BY <1>3, <2>2 DEF Screen
<1>6. Transcript(c) = << >>
  <2>1. Transcript(c) \in Seq([1..c.mColumns -> Cells]) /\ Len(Transcript(c)) = 0
    BY <1>3, LinesOf
  <2>2. QED  BY <2>1, EmptySeq
<1>7. Lines!ClearTranscript
  BY <1>2, <1>3, <1>5, <1>6, SeenLines DEF Lines!ClearTranscript
<1>8. QED  BY <1>4, <1>7

\* Erasing in a line or in the display; erasing the saved lines clears the transcript
\* of the main screen and does nothing on the alternate one.
LEMMA EraseIs ==
    ASSUME RingInv, Erase
    PROVE  /\ RingInv'
           /\ \/ \E area \in {"screen", "line"}, part \in {"after", "before", "all"} : Lines!EraseIn(area, part)
              \/ Lines!ClearTranscript \/ Lines!MoveCursor
<1>1. /\ cursor' = cursor /\ margin' = margin /\ alt' = alt /\ mAboutToAutoWrap' = FALSE
  BY DEF Erase, Set
<1>2. IsRing(buffer) /\ Alike(buffer, buffer)
  BY RingFields DEF Alike
<1>3. CASE \E part \in {"after", "before", "all"} : Set(EraseInLine(buffer, part))
  <2>1. PICK part \in {"after", "before", "all"} : buffer' = EraseInLine(buffer, part)
    BY <1>3 DEF Set
  <2>2. Wiped(buffer, buffer', Erased("line", part))
    BY <1>2, <2>1, InLineIs
  <2>3. RingInv' /\ Lines!EraseIn("line", part)
    BY <1>1, <2>2, ErasedStep
  <2>4. QED  BY <2>3
<1>4. ASSUME NEW part \in {"after", "before", "all"}, Set(EraseInDisplay(buffer, part))
      PROVE  RingInv' /\ Lines!EraseIn("screen", part)
  <2>1. buffer' = EraseInDisplay(buffer, part)
    BY <1>4 DEF Set
  <2>2. Wiped(buffer, buffer', Erased("screen", part))
    BY <2>1, InDisplayIs
  <2>3. QED  BY <1>1, <2>2, ErasedStep
<1>5. CASE Set(EraseInDisplay(buffer, "saved"))
  <2>1. buffer' = IF alt THEN buffer ELSE clearTranscript(buffer)
    BY <1>5 DEF Set, EraseInDisplay
  <2>2. CASE alt
    <3>1. buffer' = buffer /\ cursor' \in [column : 0..Columns - 1, row : 0..Rows - 1]
      BY <1>1, <2>1, <2>2 DEF RingInv
    <3>2. RingInv'
      BY <1>1, <3>1, SameBuffer, KeepsAlike
    <3>3. Lines!MoveCursor
      BY <1>1, <3>1, SameBuffer, SeenLines DEF Lines!MoveCursor
    <3>4. QED  BY <3>2, <3>3
  <2>3. CASE ~alt
    BY <1>1, <2>1, <2>3, ClearIs
  <2>4. QED  BY <2>2, <2>3
<1>6. \/ \E part \in {"after", "before", "all"} : Set(EraseInLine(buffer, part))
      \/ \E part \in {"after", "before", "all"} : Set(EraseInDisplay(buffer, part))
      \/ Set(EraseInDisplay(buffer, "saved"))
  BY DEF Erase
<1>7. QED  BY <1>3, <1>4, <1>5, <1>6

-----------------------------------------------------------------------------
(* The resizes.                                                            *)

\* The first and the last elements of a sequence.
LEMMA FirstIs ==
    ASSUME NEW S, NEW s \in Seq(S), NEW n \in 0..Len(s)
    PROVE  /\ SubSeq(s, 1, n) \in Seq(S) /\ Len(SubSeq(s, 1, n)) = n
           /\ \A i \in 1..n : SubSeq(s, 1, n)[i] = s[i]
<1>1. Len(s) \in Nat
  BY LenProperties
<1>2. PICK one \in 1..Len(s) + 1 : one = 1
  BY <1>1
<1>3. PartOf(S, s, one, n, SubSeq(s, one, n))
  BY PartOfIs
<1>4. PICK part : part = SubSeq(s, one, n)
  OBVIOUS
<1>5. part \in Seq(S) /\ Len(part) = n /\ \A i \in 1..n : part[i] = s[i]
  <2>1. /\ part \in Seq(S) /\ Len(part) = IF one <= n THEN n - one + 1 ELSE 0
        /\ \A i \in 1..n - one + 1 : part[i] = s[one + i - 1]
    BY <1>3, <1>4 DEF PartOf
  <2>2. \A i \in 1..n : i \in 1..n - one + 1 /\ one + i - 1 = i
    BY <1>1, <1>2
  <2>3. Len(part) = n
    BY <1>1, <1>2, <2>1
  <2>4. QED  BY <2>1, <2>2, <2>3
<1>6. QED  BY <1>2, <1>4, <1>5

\* The last elements of a sequence.
LEMMA LastIs ==
    ASSUME NEW S, NEW s \in Seq(S), NEW n \in 0..Len(s)
    PROVE  /\ Lines!LastOf(s, n) \in Seq(S) /\ Len(Lines!LastOf(s, n)) = n
           /\ \A i \in 1..n : Lines!LastOf(s, n)[i] = s[Len(s) - n + i]
<1>1. Len(s) \in Nat
  BY LenProperties
<1>2. PICK from \in 1..Len(s) + 1 : from = Len(s) - n + 1
  BY <1>1
<1>3. PICK to \in 0..Len(s) : to = Len(s)
  BY <1>1
<1>4. PartOf(S, s, from, to, SubSeq(s, from, to))
  BY PartOfIs
<1>5. PICK part : part = SubSeq(s, from, to)
  OBVIOUS
<1>6. part \in Seq(S) /\ Len(part) = n /\ \A i \in 1..n : part[i] = s[Len(s) - n + i]
  <2>1. /\ part \in Seq(S) /\ Len(part) = IF from <= to THEN to - from + 1 ELSE 0
        /\ \A i \in 1..to - from + 1 : part[i] = s[from + i - 1]
    BY <1>4, <1>5 DEF PartOf
  <2>2. \A i \in 1..n : i \in 1..to - from + 1 /\ from + i - 1 = Len(s) - n + i
    BY <1>1, <1>2, <1>3
  <2>3. Len(part) = n
    BY <1>1, <1>2, <1>3, <2>1
  <2>4. QED  BY <2>1, <2>2, <2>3
<1>7. part = Lines!LastOf(s, n)
  BY <1>2, <1>3, <1>5 DEF Lines!LastOf
<1>8. QED  BY <1>6, <1>7

\* The transcript and the screen below it.
LEMMA AllLines ==
    ASSUME RingInv, NEW all, all = Transcript(buffer) \o Screen(buffer)
    PROVE  /\ all \in Seq([1..Columns -> Cells])
           /\ Len(all) = buffer.mActiveTranscriptRows + Rows
           /\ \A i \in 1..buffer.mActiveTranscriptRows + Rows :
                 all[i] = Row(buffer, i - 1 - buffer.mActiveTranscriptRows).text
<1>. DEFINE A == buffer.mActiveTranscriptRows
            L == [1..Columns -> Cells]
            t == Transcript(buffer)
            s == Screen(buffer)
<1>1. A \in Nat /\ Rows \in Nat /\ IsRing(buffer) /\ buffer.mScreenRows = Rows /\ buffer.mColumns = Columns
  BY RingFields DEF Rows, Columns
<1>2. /\ t \in Seq(L) /\ s \in Seq(L) /\ Len(t) = A /\ Len(s) = Rows
      /\ \A n \in 1..Rows : s[n] = Row(buffer, n - 1).text
      /\ \A n \in 1..A : t[n] = Row(buffer, n - 1 - A).text
  BY <1>1, LinesOf
<1>. HIDE DEF t, s, L, A
<1>3. /\ t \o s \in Seq(L) /\ Len(t \o s) = Len(t) + Len(s)
      /\ \A i \in 1..Len(t) + Len(s) : (t \o s)[i] = IF i <= Len(t) THEN t[i] ELSE s[i - Len(t)]
  <2>1. t \in Seq(L) /\ s \in Seq(L)
    BY <1>2
  <2>2. QED  BY <2>1, ConcatProperties, Zenon
<1>4. all = t \o s
  BY DEF t, s
<1>5. ASSUME NEW i \in 1..A + Rows
      PROVE  all[i] = Row(buffer, i - 1 - A).text
  <2>1. all[i] = IF i <= A THEN t[i] ELSE s[i - A]
    BY <1>2, <1>3, <1>4
  <2>2. CASE i <= A
    <3>1. i \in 1..A
      BY <1>1, <2>2
    <3>2. QED  BY <1>2, <2>1, <2>2, <3>1
  <2>3. CASE ~(i <= A)
    <3>1. i - A \in 1..Rows /\ i - A - 1 = i - 1 - A
      BY <1>1, <2>3
    <3>2. QED  BY <1>2, <2>1, <2>3, <3>1
  <2>4. QED  BY <2>2, <2>3
<1>6. QED  BY <1>2, <1>3, <1>4, <1>5 DEF L, A

\* The rows of the main screen when it shrinks: as many lines as are cut off
\* are lost at its bottom.
CutTo(c, n, cut) ==
  LET all == Transcript(buffer) \o Screen(buffer)
      left == SubSeq(all, 1, Len(all) - cut)
  IN  /\ Screen(c) = Lines!LastOf(left, n)
      /\ Transcript(c) = SubSeq(left, 1, Len(left) - n)

\* Reading the rows shifted by s is cutting lines off at the bottom.
LEMMA Shrunk ==
    ASSUME RingInv, NEW n \in 2..MainRows, NEW cut \in Nat, NEW s \in Nat, n + s + cut = Rows,
           NEW c, ReadsShifted(c, n, s)
    PROVE  CutTo(c, n, cut)
<1>1. PICK all, left : all = Transcript(buffer) \o Screen(buffer) /\ left = SubSeq(all, 1, Len(all) - cut)
  OBVIOUS
<1>. DEFINE A == buffer.mActiveTranscriptRows
            L == [1..Columns -> Cells]
<1>2. /\ A \in Nat /\ Rows \in Nat /\ n \in Nat
  <2>1. /\ MainRows \in Nat /\ Rows \in Nat
        /\ buffer.mTotalRows \in Nat /\ A \in 0..buffer.mTotalRows - Rows
    <3>1. /\ MainRows \in Nat /\ Rows \in 2..MainRows
          /\ buffer.mTotalRows \in Nat \ {0} /\ A \in 0..buffer.mTotalRows - Rows
      BY RingFields, Zenon
    <3>2. QED  BY <3>1
  <2>2. QED  BY <2>1
<1>3. /\ all \in Seq(L) /\ Len(all) = A + Rows
      /\ \A i \in 1..A + Rows : all[i] = Row(buffer, i - 1 - A).text
  BY <1>1, AllLines
<1>4. /\ IsRing(c) /\ c.mScreenRows = n /\ c.mColumns = Columns /\ c.mActiveTranscriptRows = A + s
      /\ \A e \in -(A + s)..n - 1 : e + s < Rows => Row(c, e) = Row(buffer, e + s)
  BY DEF ReadsShifted, Window
<1>. HIDE DEF A, L
<1>5. left \in Seq(L) /\ Len(left) = A + s + n /\ \A i \in 1..A + s + n : left[i] = all[i]
  <2>1. PICK m \in 0..Len(all) : m = Len(all) - cut
    BY <1>2, <1>3
  <2>2. left = SubSeq(all, 1, m) /\ m = A + s + n
    <3>1. m = A + s + n
      BY <1>2, <1>3, <2>1
    <3>2. QED  BY <1>1, <2>1, <3>1, Zenon
  <2>3. QED  BY <1>3, <2>2, FirstIs
<1>6. ASSUME NEW e \in -(A + s)..n - 1
      PROVE  Row(c, e).text = left[A + s + e + 1]
  <2>1. PICK i : i = A + s + e + 1
    OBVIOUS
  <2>2. /\ e + s < Rows /\ i \in 1..A + s + n /\ i \in 1..A + Rows
        /\ i - 1 - A = e + s
    BY <1>2, <2>1
  <2>3. left[i] = all[i] /\ all[i] = Row(buffer, e + s).text
    BY <1>3, <1>5, <2>2
  <2>4. Row(c, e) = Row(buffer, e + s)
    BY <1>4, <2>2
  <2>5. QED  BY <2>1, <2>3, <2>4
<1>7. Screen(c) = Lines!LastOf(left, n)
  <2>1. PICK last : last = Lines!LastOf(left, n)
    OBVIOUS
  <2>2. n \in 0..Len(left)
    BY <1>2, <1>5
  <2>3. last \in Seq(L) /\ Len(last) = n /\ \A i \in 1..n : last[i] = left[Len(left) - n + i]
    <3>1. left \in Seq(L) /\ n \in 0..Len(left)
      BY <1>5, <2>2
    <3>2. QED  BY <2>1, <3>1, LastIs, Zenon
  <2>4. ASSUME NEW i \in 1..n
        PROVE  last[i] = Row(c, i - 1).text
    <3>1. PICK e : e = i - 1
      OBVIOUS
    <3>2. PICK m : m = Len(left) - n + i
      OBVIOUS
    <3>3. e \in -(A + s)..n - 1 /\ A + s + e + 1 = m
      BY <1>2, <1>5, <3>1, <3>2
    <3>4. last[i] = left[m]
      BY <2>3, <3>2
    <3>5. Row(c, e).text = left[m]
      BY <1>6, <3>3
    <3>6. QED  BY <3>1, <3>4, <3>5
  <2>5. Screen(c) = last
    BY <1>4, <2>3, <2>4, ScreenEquals DEF L
  <2>6. QED  BY <2>1, <2>5
<1>8. Transcript(c) = SubSeq(left, 1, Len(left) - n)
  <2>1. PICK m : m = Len(left) - n
    OBVIOUS
  <2>2. m = A + s /\ m \in 0..Len(left)
    BY <1>2, <1>5, <2>1
  <2>3. PICK first : first = SubSeq(left, 1, m)
    OBVIOUS
  <2>4. first \in Seq(L) /\ Len(first) = m /\ \A i \in 1..m : first[i] = left[i]
    BY <1>5, <2>2, <2>3, FirstIs
  <2>5. ASSUME NEW i \in 1..A + s
        PROVE  first[i] = Row(c, i - 1 - (A + s)).text
    <3>1. i - 1 - (A + s) \in -(A + s)..n - 1 /\ A + s + (i - 1 - (A + s)) + 1 = i
      BY <1>2
    <3>2. QED  BY <1>6, <2>2, <2>4, <3>1
  <2>6. Transcript(c) = first
    BY <1>4, <2>2, <2>4, <2>5, TranscriptEquals DEF L
  <2>7. QED  BY <2>1, <2>3, <2>6
<1>9. QED  BY <1>1, <1>7, <1>8 DEF CutTo

\* The rows of the main screen when it grows: so many lines come back from the
\* transcript, so many are new.
GrownBy(c, back, new) ==
  LET all == Transcript(buffer) \o Screen(buffer)
  IN  /\ Screen(c) = Lines!LastOf(all, Rows + back) \o Lines!BlankLines(new, Columns)
      /\ Transcript(c) = SubSeq(Transcript(buffer), 1, Len(Transcript(buffer)) - back)

\* Reading them shifted the other way brings lines back from the transcript.
LEMMA Expanded ==
    ASSUME RingInv, NEW n \in 2..MainRows, NEW back \in Nat, back <= buffer.mActiveTranscriptRows,
           NEW new \in Nat, n = Rows + back + new,
           NEW c, ReadsShifted(c, n, 0 - back)
    PROVE  GrownBy(c, back, new)
<1>1. PICK all : all = Transcript(buffer) \o Screen(buffer)
  OBVIOUS
<1>. DEFINE A == buffer.mActiveTranscriptRows
            L == [1..Columns -> Cells]
            t == Transcript(buffer)
<1>2. /\ A \in Nat /\ Rows \in Nat /\ n \in Nat /\ Columns \in Nat
      /\ IsRing(buffer) /\ buffer.mColumns = Columns /\ back <= A
  <2>1. /\ MainRows \in Nat /\ Rows \in 2..MainRows /\ Columns \in Nat \ {0, 1}
        /\ buffer.mTotalRows \in Nat \ {0} /\ A \in 0..buffer.mTotalRows - Rows /\ IsRing(buffer)
    BY RingFields, Zenon
  <2>2. QED  BY <2>1 DEF Columns
<1>3. /\ all \in Seq(L) /\ Len(all) = A + Rows
      /\ \A i \in 1..A + Rows : all[i] = Row(buffer, i - 1 - A).text
  BY <1>1, AllLines
<1>4. /\ t \in Seq(L) /\ Len(t) = A /\ \A i \in 1..A : t[i] = Row(buffer, i - 1 - A).text
  BY <1>2, LinesOf
<1>5. PICK s : s = 0 - back
  OBVIOUS
<1>6. /\ IsRing(c) /\ c.mScreenRows = n /\ c.mColumns = Columns /\ c.mActiveTranscriptRows = A + s
      /\ \A e \in -(A + s)..n - 1 : /\ e + s < Rows => Row(c, e) = Row(buffer, e + s)
                                    /\ e + s >= Rows => Row(c, e).text = [i \in 1..Columns |-> Blank]
  BY <1>5 DEF ReadsShifted, Window
<1>. HIDE DEF A, L, t
<1>7. Screen(c) = Lines!LastOf(all, Rows + back) \o Lines!BlankLines(new, Columns)
  <2>1. PICK m, last, blank : /\ m = Rows + back /\ last = Lines!LastOf(all, m)
                              /\ blank = Lines!BlankLines(new, Columns)
    OBVIOUS
  <2>2. m \in 0..Len(all)
    BY <1>2, <1>3, <2>1
  <2>3. last \in Seq(L) /\ Len(last) = m /\ \A i \in 1..m : last[i] = all[Len(all) - m + i]
    <3>1. all \in Seq(L)
      BY <1>3
    <3>2. QED  BY <2>1, <2>2, <3>1, LastIs, Zenon
  <2>4. blank \in Seq(L) /\ Len(blank) = new /\ \A i \in 1..new : blank[i] = [k \in 1..Columns |-> Blank]
    BY <1>2, <2>1, BlankLinesAre DEF L, BlankText
  <2>5. PICK both : both = last \o blank
    OBVIOUS
  <2>6. /\ both \in Seq(L) /\ Len(both) = Len(last) + Len(blank)
        /\ \A i \in 1..Len(last) + Len(blank) :
              both[i] = IF i <= Len(last) THEN last[i] ELSE blank[i - Len(last)]
    <3>1. last \in Seq(L) /\ blank \in Seq(L)
      BY <2>3, <2>4
    <3>2. QED  BY <2>5, <3>1, ConcatProperties, Zenon
  <2>7. m + new = n /\ Len(both) = n /\ m \in Nat
    BY <1>2, <2>1, <2>3, <2>4, <2>6
  <2>8. ASSUME NEW i \in 1..n
        PROVE  both[i] = Row(c, i - 1).text
    <3>1. i \in 1..Len(last) + Len(blank) /\ i - 1 \in -(A + s)..n - 1
      BY <1>2, <1>5, <2>3, <2>4, <2>7
    <3>2. both[i] = IF i <= m THEN last[i] ELSE blank[i - m]
      BY <2>3, <2>6, <3>1
    <3>3. CASE i <= m
      <4>1. PICK j : j = Len(all) - m + i
        OBVIOUS
      <4>2. i \in 1..m /\ j \in 1..A + Rows /\ i - 1 + s < Rows /\ j - 1 - A = i - 1 + s
        <5>1. Len(all) = A + Rows /\ i \in Nat /\ 1 <= i /\ i <= m /\ m = Rows + back /\ back \in Nat
          BY <1>2, <1>3, <2>1, <3>3
        <5>2. j = A + Rows - m + i /\ j \in Nat /\ 1 <= j /\ j <= A + Rows
          BY <1>2, <4>1, <5>1
        <5>3. i - 1 + s < Rows /\ j - 1 - A = i - 1 + s
          BY <1>2, <1>5, <5>1, <5>2
        <5>4. QED  BY <1>2, <2>7, <5>1, <5>2, <5>3
      <4>3. both[i] = all[j]
        BY <2>3, <3>2, <3>3, <4>1, <4>2
      <4>4. all[j] = Row(buffer, i - 1 + s).text
        BY <1>3, <4>2
      <4>5. Row(c, i - 1) = Row(buffer, i - 1 + s)
        BY <1>6, <3>1, <4>2
      <4>6. QED  BY <4>3, <4>4, <4>5
    <3>4. CASE ~(i <= m)
      <4>1. i - m \in 1..new /\ i - 1 + s >= Rows
        BY <1>2, <1>5, <2>1, <2>7, <3>4
      <4>2. both[i] = [k \in 1..Columns |-> Blank]
        BY <2>4, <3>2, <3>4, <4>1
      <4>3. Row(c, i - 1).text = [k \in 1..Columns |-> Blank]
        BY <1>6, <3>1, <4>1
      <4>4. QED  BY <4>2, <4>3
    <3>5. QED  BY <3>3, <3>4
  <2>9. Screen(c) = both
    BY <1>6, <2>6, <2>7, <2>8, ScreenEquals DEF L
  <2>10. QED  BY <2>1, <2>5, <2>9
<1>8. Transcript(c) = SubSeq(t, 1, Len(t) - back)
  <2>1. PICK m : m = Len(t) - back
    OBVIOUS
  <2>2. m = A + s /\ m \in 0..Len(t)
    BY <1>2, <1>4, <1>5, <2>1 DEF A
  <2>3. PICK first : first = SubSeq(t, 1, m)
    OBVIOUS
  <2>4. first \in Seq(L) /\ Len(first) = m /\ \A i \in 1..m : first[i] = t[i]
    BY <1>4, <2>2, <2>3, FirstIs
  <2>5. ASSUME NEW i \in 1..A + s
        PROVE  first[i] = Row(c, i - 1 - (A + s)).text
    <3>1. PICK e : e = i - 1 - (A + s)
      OBVIOUS
    <3>2. e \in -(A + s)..n - 1 /\ e + s < Rows /\ e + s = i - 1 - A /\ i \in 1..m /\ i \in 1..A
      <4>1. i \in Nat /\ 1 <= i /\ i <= A + s /\ A + s <= A /\ A + s \in Nat /\ s \in Int /\ e \in Int
        BY <1>2, <1>5, <3>1
      <4>2. i \in 1..m /\ i \in 1..A
        BY <1>2, <2>2, <4>1
      <4>3. e >= -(A + s) /\ e <= n - 1 /\ e + s = i - 1 - A /\ e + s < Rows
        BY <1>2, <3>1, <4>1
      <4>4. QED  BY <1>2, <4>1, <4>2, <4>3
    <3>3. first[i] = Row(buffer, i - 1 - A).text
      BY <1>4, <2>4, <3>2
    <3>4. Row(c, e) = Row(buffer, i - 1 - A)
      BY <1>6, <3>2
    <3>5. QED  BY <3>1, <3>3, <3>4
  <2>6. Transcript(c) = first
    BY <1>6, <2>2, <2>4, <2>5, TranscriptEquals DEF L
  <2>7. QED  BY <2>1, <2>3, <2>6
<1>9. QED  BY <1>1, <1>7, <1>8 DEF GrownBy, t

\* A resize leaves a ring that is the screen of the size.
LEMMA ResizedRing ==
    ASSUME RingInv, NEW size \in Sizes, IsRing(buffer'), buffer'.mScreenRows = size.rows,
           buffer'.mColumns = size.columns, buffer'.mTotalRows = (IF alt THEN size.rows ELSE MainRows),
           ~alt => buffer'.mScreenFirstRow < MainRows,
           NEW u, u.column \in -1..size.columns - 1, u.row \in Int, u.row < size.rows,
           u = [column |-> u.column, row |-> u.row],
           cursor' = OnScreen(u), alt' = alt, mAboutToAutoWrap' = mAboutToAutoWrap,
           margin' = IF size.rows = Rows THEN margin ELSE [top |-> 0, bottom |-> size.rows]
    PROVE  RingInv' /\ cursor' \in [column : 0..size.columns - 1, row : 0..size.rows - 1]
<1>1. /\ size.columns \in Nat \ {0, 1} /\ size.rows \in 2..MainRows /\ MainRows \in Nat
      /\ size = [columns |-> size.columns, rows |-> size.rows]
  BY SizeIs, SizesAssumption
<1>2. Columns' = size.columns /\ Rows' = size.rows
  BY DEF Columns, Rows
<1>3. cursor' \in [column : 0..size.columns - 1, row : 0..size.rows - 1]
  <2>1. CASE u.column < 0 \/ u.row < 0
    BY <1>1, <2>1 DEF OnScreen, Home
  <2>2. CASE ~(u.column < 0 \/ u.row < 0)
    <3>1. cursor' = [column |-> u.column, row |-> u.row]
      BY <2>2 DEF OnScreen
    <3>2. u.column \in 0..size.columns - 1 /\ u.row \in 0..size.rows - 1
      BY <1>1, <2>2
    <3>3. QED  BY <3>1, <3>2
  <2>3. QED  BY <2>1, <2>2
<1>4. margin'.top \in 0..size.rows - 2 /\ margin'.bottom \in margin'.top + 2..size.rows
  <2>1. CASE size.rows = Rows
    BY <2>1, RingFields
  <2>2. CASE size.rows # Rows
    <3>1. margin'.top = 0 /\ margin'.bottom = size.rows
      BY <2>2
    <3>2. QED  BY <1>1, <3>1
  <2>3. QED  BY <2>1, <2>2
<1>5. mAboutToAutoWrap' \in BOOLEAN /\ alt' \in BOOLEAN
  BY DEF RingInv
<1>6. QED  BY <1>1, <1>2, <1>3, <1>4, <1>5 DEF RingInv

\* The cursor of a resize that moves rows only.
LEMMA CursorMoves ==
    ASSUME RingInv, NEW n \in Nat, NEW s \in Int, cursor.row - s <= n - 1,
           cursor' = OnScreen([cursor EXCEPT !.row = @ - s])
    PROVE  /\ Lines!CursorShifted(s)
           /\ \E u : /\ u.column \in -1..Columns - 1 /\ u.row \in Int /\ u.row < n
                     /\ u = [column |-> u.column, row |-> u.row] /\ cursor' = OnScreen(u)
<1>1. /\ cursor.column \in 0..Columns - 1 /\ cursor.row \in 0..Rows - 1 /\ Columns \in Nat /\ Rows \in Nat
      /\ cursor = [column |-> cursor.column, row |-> cursor.row]
  BY RingFields
<1>2. PICK u : u = [column |-> cursor.column, row |-> cursor.row - s]
  OBVIOUS
<1>3. u = [cursor EXCEPT !.row = cursor.row - s]
  BY <1>1, <1>2
<1>4. cursor' = OnScreen(u)
  BY <1>3
<1>5. u.column \in -1..Columns - 1 /\ u.row \in Int /\ u.row < n /\ u = [column |-> u.column, row |-> u.row]
  BY <1>1, <1>2
<1>6. Lines!CursorShifted(s)
  <2>1. u.column < 0 \/ u.row < 0 <=> cursor.row < s
    BY <1>1, <1>2
  <2>2. cursor' = IF cursor.row < s THEN [column |-> 0, row |-> 0] ELSE u
    BY <1>4, <2>1 DEF OnScreen, Home
  <2>3. QED  BY <1>3, <2>2 DEF Lines!CursorShifted
<1>7. QED  BY <1>4, <1>5, <1>6

\* Blank lines below the cursor, as both modules count them.
LEMMA BlankBelowIs ==
    ASSUME RingInv
    PROVE  Lines!BlankBelow = BlankRows
<1>1. /\ Rows \in Nat /\ cursor.row \in Nat /\ cursor.row < Rows /\ IsRing(buffer) /\ buffer.mScreenRows = Rows
  BY RingFields DEF Rows
<1>2. Lines!BlankBelow = {r \in cursor.row + 1..Rows - 1 : Lines!IsBlank(Screen(buffer)[r + 1])}
  BY LinesAre DEF Lines!BlankBelow
<1>3. ASSUME NEW r \in cursor.row + 1..Rows - 1
      PROVE  Lines!IsBlank(Screen(buffer)[r + 1]) <=> isBlank(Row(buffer, r))
  <2>1. PICK n \in 1..Rows : n = r + 1
    BY <1>1
  <2>2. n - 1 = r
    BY <1>1, <2>1
  <2>3. Screen(buffer)[n] = Row(buffer, r).text
    BY <1>1, <2>2, LinesOf
  <2>4. QED  BY <2>1, <2>3 DEF Lines!IsBlank, isBlank
<1>4. \A r : r \in cursor.row + 1..Rows - 1 <=> r \in 1..Rows - 1 /\ cursor.row < r
  BY <1>1
<1>5. QED  BY <1>2, <1>3, <1>4 DEF BlankRows

\* Both modules count with the same operator.
LEMMA SameCount ==
    ASSUME NEW S
    PROVE  Lines!Cardinality(S) = Cardinality(S)
BY DEF Lines!Cardinality, Cardinality

\* There are no more blank lines at the bottom than below the cursor.
LEMMA BottomCount ==
    ASSUME RingInv
    PROVE  /\ Cardinality(Lines!BlankAtBottom) \in Nat
           /\ Cardinality(Lines!BlankAtBottom) <= Cardinality(BlankRows)
<1>1. Lines!BlankAtBottom \subseteq BlankRows
  BY BlankBelowIs DEF Lines!BlankAtBottom
<1>2. IsFiniteSet(BlankRows)
  <2>1. BlankRows \subseteq 1..Rows - 1
    BY DEF BlankRows
  <2>2. IsFiniteSet(1..Rows - 1)
    <3>1. Rows - 1 \in Int /\ 1 \in Int
      BY RingFields
    <3>2. QED  BY <3>1, FS_Interval
  <2>3. QED  BY <2>1, <2>2, FS_Subset
<1>3. QED  BY <1>1, <1>2, FS_Subset, FS_CardinalityType

\* resize of the main screen when only the number of rows changes.
LEMMA MainResizes ==
    ASSUME RingInv, ~alt, NEW size \in Sizes, size.columns = Columns, resize(size)
    PROVE  RingInv' /\ Lines!Resize(size)
<1>. DEFINE A == buffer.mActiveTranscriptRows
            all == Transcript(buffer) \o Screen(buffer)
<1>1. PICK n : n = size.rows
  OBVIOUS
<1>2. PICK s : s = Shift(buffer, n)
  OBVIOUS
<1>3. /\ n \in 2..MainRows /\ n \in Nat /\ MainRows \in Nat /\ Rows \in 2..MainRows /\ Rows \in Nat
      /\ Columns \in Nat /\ buffer.mTotalRows = MainRows /\ n \in 2..buffer.mTotalRows /\ A \in Nat
      /\ A \in 0..MainRows - Rows
      /\ size = [columns |-> Columns, rows |-> n]
  <2>1. size.rows \in 2..MainRows /\ size = [columns |-> size.columns, rows |-> size.rows]
    BY SizeIs
  <2>2. QED  BY <1>1, <2>1, RingFields
<1>4. /\ buffer' = FastResize(buffer, n, MainRows)
      /\ cursor' = OnScreen([cursor EXCEPT !.row = @ - s])
      /\ n # Rows
  BY <1>1, <1>2, <1>3 DEF resize
<1>5. /\ margin' = IF size.rows = Rows THEN margin ELSE [top |-> 0, bottom |-> size.rows]
      /\ alt' = alt /\ mAboutToAutoWrap' = mAboutToAutoWrap
  BY DEF resize
<1>6. ReadsShifted(buffer', n, s)
  BY <1>2, <1>3, <1>4, FastResizeMain
<1>7. PICK blank : blank = Cardinality(BlankRows) /\ blank \in 0..Rows - 1 - cursor.row
  BY <1>3, ShiftIs
<1>8. /\ n < Rows => s = IF blank < Rows - n THEN Rows - n - blank ELSE 0
      /\ n > Rows => s = IF n - Rows > A THEN 0 - A ELSE Rows - n
      /\ cursor.row - s <= n - 1 /\ s \in Int
  BY <1>2, <1>3, <1>7, ShiftIs
<1>9. /\ Lines!CursorShifted(s)
      /\ \E u : /\ u.column \in -1..Columns - 1 /\ u.row \in Int /\ u.row < n
                /\ u = [column |-> u.column, row |-> u.row] /\ cursor' = OnScreen(u)
  BY <1>3, <1>4, <1>8, CursorMoves
<1>10. RingInv'
  <2>1. /\ IsRing(buffer') /\ buffer'.mScreenRows = size.rows /\ buffer'.mColumns = size.columns
        /\ buffer'.mTotalRows = (IF alt THEN size.rows ELSE MainRows)
        /\ ~alt => buffer'.mScreenFirstRow < MainRows
    BY <1>1, <1>3, <1>6 DEF ReadsShifted
  <2>2. PICK u : /\ u.column \in -1..size.columns - 1 /\ u.row \in Int /\ u.row < size.rows
                 /\ u = [column |-> u.column, row |-> u.row] /\ cursor' = OnScreen(u)
    BY <1>1, <1>9
  <2>3. QED  BY <1>5, <2>1, <2>2, ResizedRing
<1>11. /\ IsRing(buffer') /\ Texts(0, buffer.mScreenRows - 1) = Screen(buffer)
       /\ Texts(-buffer.mActiveTranscriptRows, -1) = Transcript(buffer)
       /\ Texts(0, buffer.mScreenRows - 1)' = Screen(buffer')
       /\ Texts(-buffer.mActiveTranscriptRows, -1)' = Transcript(buffer')
       /\ Lines!Rows = Rows /\ Lines!Columns = Columns
  <2>1. IsRing(buffer')
    BY <1>6 DEF ReadsShifted
  <2>2. QED  BY <2>1, SeenLines
<1>12. Lines!lines = all
  BY <1>11 DEF Lines!lines
<1>13. CASE n < Rows
  <2>1. PICK cut : cut = Lines!Smaller(Cardinality(Lines!BlankBelow), Rows - n)
    OBVIOUS
  <2>2. cut = IF blank < Rows - n THEN blank ELSE Rows - n
    BY <1>7, <2>1, BlankBelowIs DEF Lines!Smaller
  <2>3. cut \in Nat /\ s \in Nat /\ n + s + cut = Rows /\ s = Rows - n - cut
    <3>1. cursor.row \in Nat
      <4>1. cursor.row \in 0..Rows - 1
        BY RingFields, Zenon
      <4>2. QED  BY <1>3, <4>1
    <3>2. blank \in Nat
      BY <1>3, <1>7, <3>1
    <3>3. s = IF blank < Rows - n THEN Rows - n - blank ELSE 0
      BY <1>8, <1>13
    <3>4. QED  BY <1>3, <1>13, <2>2, <3>2, <3>3
  <2>4. CutTo(buffer', n, cut)
    BY <1>3, <1>6, <2>3, Shrunk
  <2>5. PICK lines, left : lines = all /\ left = SubSeq(lines, 1, Len(lines) - cut)
    OBVIOUS
  <2>6. Lines!CutAndShrink(n, cut)
    <3>1. Screen(buffer') = Lines!LastOf(left, n) /\ Transcript(buffer') = SubSeq(left, 1, Len(left) - n)
      BY <2>4, <2>5, Zenon DEF CutTo
    <3>. HIDE DEF all
    <3>2. QED  BY <1>9, <1>11, <1>12, <2>3, <2>5, <3>1, Zenon DEF Lines!CutAndShrink
  <2>7. Lines!Shrink(n) \/ Lines!ShrinkOverGap(n)
    <3>1. PICK bottom : bottom = Cardinality(Lines!BlankAtBottom)
      OBVIOUS
    <3>2. bottom \in Nat /\ bottom <= blank
      BY <3>1, BottomCount, <1>7
    <3>3. Lines!Cardinality(Lines!BlankAtBottom) = bottom
      BY <3>1, SameCount
    <3>4. cut = Lines!Smaller(Lines!Cardinality(Lines!BlankBelow), Lines!Rows - n)
      BY <2>1, <1>11, SameCount
    <3>5. CASE cut > bottom
      BY <2>6, <3>3, <3>4, <3>5, Zenon DEF Lines!ShrinkOverGap
    <3>6. CASE ~(cut > bottom)
      <4>1. blank \in Nat
        <5>1. cursor.row \in Nat
          BY RingFields
        <5>2. QED  BY <1>3, <1>7, <5>1
      <4>2. cut = Lines!Smaller(bottom, Rows - n)
        BY <1>3, <1>13, <2>2, <3>2, <3>6, <4>1 DEF Lines!Smaller
      <4>3. cut = Lines!Smaller(Lines!Cardinality(Lines!BlankAtBottom), Lines!Rows - n)
        BY <1>11, <3>3, <4>2
      <4>4. QED  BY <2>6, <4>3, Zenon DEF Lines!Shrink
    <3>7. QED  BY <3>5, <3>6
  <2>8. Lines!Resize(size)
    BY <1>1, <1>5, <1>11, <1>13, <2>7 DEF Lines!Resize
  <2>9. QED  BY <1>10, <2>8
<1>14. CASE n > Rows
  <2>1. PICK back : back = Lines!Smaller(n - Rows, Len(Transcript(buffer)))
    OBVIOUS
  <2>2. Len(Transcript(buffer)) = A
    BY RingFields, LinesOf
  <2>3. back = IF n - Rows < A THEN n - Rows ELSE A
    BY <2>1, <2>2 DEF Lines!Smaller
  <2>4. PICK new : new = n - Rows - back
    OBVIOUS
  <2>5. back \in Nat /\ back <= A /\ new \in Nat /\ n = Rows + back + new /\ s = 0 - back /\ s = -back
    BY <1>3, <1>8, <1>14, <2>3, <2>4
  <2>6. GrownBy(buffer', back, new)
    <3>1. ReadsShifted(buffer', n, 0 - back) /\ back <= buffer.mActiveTranscriptRows
      BY <1>6, <2>5
    <3>2. QED  BY <1>3, <2>5, <3>1, Expanded
  <2>7. PICK lines : lines = all
    OBVIOUS
  <2>8. Lines!Expand(n)
    <3>1. /\ Screen(buffer') = Lines!LastOf(lines, Rows + back) \o Lines!BlankLines(new, Columns)
          /\ Transcript(buffer') = SubSeq(Transcript(buffer), 1, Len(Transcript(buffer)) - back)
      BY <2>6, <2>7, Zenon DEF GrownBy
    <3>. HIDE DEF all
    <3>2. QED  BY <1>9, <1>11, <1>12, <2>1, <2>4, <2>5, <2>7, <3>1 DEF Lines!Expand
  <2>9. Lines!Resize(size)
    BY <1>1, <1>5, <1>11, <1>14, <2>8 DEF Lines!Resize
  <2>10. QED  BY <1>10, <2>9
<1>15. QED  BY <1>3, <1>4, <1>13, <1>14

\* resize of the alternate screen when only the number of rows changes.
LEMMA AlternateResizes ==
    ASSUME RingInv, alt, NEW size \in Sizes, size.columns = Columns, size.rows <= Rows, resize(size)
    PROVE  RingInv' /\ Lines!Resize(size)
<1>1. PICK n : n = size.rows
  OBVIOUS
<1>2. PICK s : s = Shift(buffer, n)
  OBVIOUS
<1>3. /\ n \in 2..Rows /\ n \in Nat /\ Rows \in Nat
      /\ Columns \in Nat /\ buffer.mTotalRows = Rows /\ n \in 2..buffer.mTotalRows
      /\ size = [columns |-> Columns, rows |-> n]
      /\ cursor.row \in Nat /\ IsRing(buffer) /\ buffer.mScreenRows = Rows /\ buffer.mColumns = Columns
  <2>1. size.rows \in 2..MainRows /\ size = [columns |-> size.columns, rows |-> size.rows]
    BY SizeIs
  <2>2. /\ MainRows \in Nat /\ Rows \in 2..MainRows /\ Columns \in Nat \ {0, 1}
        /\ buffer.mTotalRows = Rows /\ cursor.row \in 0..Rows - 1 /\ IsRing(buffer)
    BY RingFields
  <2>3. QED  BY <1>1, <2>1, <2>2 DEF Rows, Columns
<1>4. /\ buffer' = FastResize(buffer, n, n)
      /\ cursor' = OnScreen([cursor EXCEPT !.row = @ - s])
      /\ n # Rows /\ n < Rows
  <2>1. n # Rows
    BY <1>3 DEF resize
  <2>2. buffer' = FastResize(buffer, n, n) /\ cursor' = OnScreen([cursor EXCEPT !.row = @ - s])
    BY <1>1, <1>2, <1>3 DEF resize
  <2>3. QED  BY <1>3, <2>1, <2>2
<1>5. /\ margin' = IF size.rows = Rows THEN margin ELSE [top |-> 0, bottom |-> size.rows]
      /\ alt' = alt /\ mAboutToAutoWrap' = mAboutToAutoWrap
  BY DEF resize
<1>6. /\ IsRing(buffer') /\ buffer'.mTotalRows = n /\ buffer'.mScreenRows = n /\ buffer'.mColumns = Columns
      /\ buffer'.mActiveTranscriptRows = 0
      /\ s \in 0..Rows - n
      /\ \E from \in [1..n -> 1..Rows] :
           /\ \A i, j \in 1..n : from[i] = from[j] => i = j
           /\ \A i \in 1..n : Row(buffer', i - 1) = Row(buffer, from[i] - 1)
  <2>1. RowsAmong(buffer', n) /\ s \in 0..Rows - n
    BY <1>2, <1>3, <1>4, FastResizeAlternate
  <2>2. QED  BY <2>1 DEF RowsAmong
<1>7. cursor.row - s <= n - 1 /\ s \in Int
  BY <1>2, <1>3, ShiftIs
<1>8. /\ Lines!CursorShifted(s)
      /\ \E u : /\ u.column \in -1..Columns - 1 /\ u.row \in Int /\ u.row < n
                /\ u = [column |-> u.column, row |-> u.row] /\ cursor' = OnScreen(u)
  BY <1>3, <1>4, <1>7, CursorMoves
<1>9. RingInv'
  <2>1. /\ IsRing(buffer') /\ buffer'.mScreenRows = size.rows /\ buffer'.mColumns = size.columns
        /\ buffer'.mTotalRows = (IF alt THEN size.rows ELSE MainRows)
    BY <1>1, <1>6
  <2>2. PICK u : /\ u.column \in -1..size.columns - 1 /\ u.row \in Int /\ u.row < size.rows
                 /\ u = [column |-> u.column, row |-> u.row] /\ cursor' = OnScreen(u)
    BY <1>1, <1>8
  <2>3. QED  BY <1>5, <2>1, <2>2, ResizedRing
<1>10. /\ Texts(0, buffer.mScreenRows - 1) = Screen(buffer)
       /\ Texts(0, buffer.mScreenRows - 1)' = Screen(buffer')
       /\ Texts(-buffer.mActiveTranscriptRows, -1)' = Transcript(buffer')
       /\ Lines!Rows = Rows /\ Lines!Columns = Columns
  BY <1>6, SeenLines
<1>11. PICK from \in Lines!Injection(1..n, 1..Rows) : Screen(buffer') = [r \in 1..n |-> Screen(buffer)[from[r]]]
  <2>1. PICK from \in [1..n -> 1..Rows] :
          /\ \A i, j \in 1..n : from[i] = from[j] => i = j
          /\ \A i \in 1..n : Row(buffer', i - 1) = Row(buffer, from[i] - 1)
    BY <1>6
  <2>2. from \in Lines!Injection(1..n, 1..Rows)
    BY <2>1 DEF Lines!Injection, Lines!IsInjective
  <2>3. \A r \in 1..n : Screen(buffer)[from[r]] = Row(buffer, from[r] - 1).text
    BY <1>3, LinesOf
  <2>4. Screen(buffer') = [r \in 1..n |-> Screen(buffer)[from[r]]]
    BY <1>6, <2>1, <2>3 DEF Screen
  <2>5. QED  BY <2>2, <2>4
<1>12. Transcript(buffer') = << >>
  <2>1. Transcript(buffer') \in Seq([1..buffer'.mColumns -> Cells]) /\ Len(Transcript(buffer')) = 0
    BY <1>6, LinesOf
  <2>2. QED  BY <2>1, EmptySeq
<1>13. Lines!ShrinkAlternateShuffled(n)
  <2>1. \E shift \in 0..Rows - n : Lines!CursorShifted(shift)
    BY <1>6, <1>8
  <2>2. QED  BY <1>10, <1>11, <1>12, <2>1 DEF Lines!ShrinkAlternateShuffled
<1>14. Lines!Resize(size)
  BY <1>1, <1>4, <1>5, <1>10, <1>13 DEF Lines!Resize
<1>15. QED  BY <1>9, <1>14

\* What a resize does in which every character finds a new place: a screen of
\* the size, with no more transcript than there is room for and the cursor on
\* it.  The lines are those of ScreenLines' Reflow but for what they say.
Flows(size) ==
  /\ size.columns # Lines!Columns \/ (alt /\ size.rows > Lines!Rows)
  /\ Len(Texts(0, buffer.mScreenRows - 1)') = size.rows
  /\ Len(Texts(-buffer.mActiveTranscriptRows, -1)') <= (IF alt THEN size.rows ELSE MainRows) - size.rows
  /\ \A r \in 1..size.rows : Texts(0, buffer.mScreenRows - 1)'[r] \in [1..size.columns -> Cells]
  /\ \A r \in 1..Len(Texts(-buffer.mActiveTranscriptRows, -1)') :
        Texts(-buffer.mActiveTranscriptRows, -1)'[r] \in [1..size.columns -> Cells]
  /\ cursor' \in [column : 0..size.columns - 1, row : 0..size.rows - 1]
  /\ margin' = IF size.rows = Lines!Rows THEN margin ELSE [top |-> 0, bottom |-> size.rows]
  /\ UNCHANGED <<mAboutToAutoWrap, alt>>

\* A resize that reflows: the invariant, and all that ScreenLines says of the shape.
LEMMA Reflows ==
    ASSUME RingInv, NEW size \in Sizes, size.columns # Columns \/ (alt /\ size.rows > Rows), resize(size)
    PROVE  RingInv' /\ Flows(size)
<1>1. PICK n, C : n = size.rows /\ C = size.columns
  OBVIOUS
<1>2. PICK total : total = IF alt THEN n ELSE MainRows
  OBVIOUS
<1>3. /\ n \in 2..MainRows /\ MainRows \in Nat /\ C \in Nat /\ total \in n..MainRows
      /\ Rows \in Nat /\ (alt => buffer.mTotalRows = Rows)
      /\ size = [columns |-> C, rows |-> n]
  <2>1. /\ size.rows \in 2..MainRows /\ size.columns \in Nat \ {0, 1}
        /\ size = [columns |-> size.columns, rows |-> size.rows]
    BY SizeIs
  <2>2. MainRows \in Nat /\ Rows \in 2..MainRows /\ (alt => buffer.mTotalRows = Rows)
    BY RingFields
  <2>3. QED  BY <1>1, <1>2, <2>1, <2>2
<1>4. PICK out : out = Reflowed(buffer, size.columns, size.rows, total)
  OBVIOUS
<1>5. out \in Outs(total, size.rows, size.columns)
  BY <1>1, <1>3, <1>4, ReflowedIs
<1>6. buffer' = out.b /\ cursor' = OnScreen(out.cursor)
  <2>1. ~(size.columns = Columns /\ size.rows <= buffer.mTotalRows)
    BY <1>1, <1>3
  <2>2. QED  BY <1>1, <1>2, <1>4, <2>1 DEF resize
<1>7. /\ margin' = IF size.rows = Rows THEN margin ELSE [top |-> 0, bottom |-> size.rows]
      /\ alt' = alt /\ mAboutToAutoWrap' = mAboutToAutoWrap
  BY DEF resize
<1>8. /\ buffer' \in Rings(total, size.rows, size.columns)
      /\ out.cursor \in [column : -1..size.columns - 1, row : {r \in Int : r < size.rows}]
  BY <1>5, <1>6, OutIs
<1>9. /\ IsRing(buffer') /\ buffer'.mScreenRows = size.rows /\ buffer'.mColumns = size.columns
      /\ buffer'.mTotalRows = total /\ buffer'.mScreenFirstRow < total
  BY <1>8, RingIs
<1>10. RingInv' /\ cursor' \in [column : 0..size.columns - 1, row : 0..size.rows - 1]
  <2>1. PICK u : u = out.cursor
    OBVIOUS
  <2>2. /\ u.column \in -1..size.columns - 1 /\ u.row \in Int /\ u.row < size.rows
        /\ u = [column |-> u.column, row |-> u.row] /\ cursor' = OnScreen(u)
    BY <1>6, <1>8, <2>1
  <2>3. buffer'.mTotalRows = (IF alt THEN size.rows ELSE MainRows) /\ (~alt => buffer'.mScreenFirstRow < MainRows)
    BY <1>1, <1>2, <1>9
  <2>4. QED  BY <1>7, <1>9, <2>2, <2>3, ResizedRing
<1>11. /\ Texts(0, buffer.mScreenRows - 1)' = Screen(buffer')
       /\ Texts(-buffer.mActiveTranscriptRows, -1)' = Transcript(buffer')
       /\ Lines!Rows = Rows /\ Lines!Columns = Columns
  BY <1>9, SeenLines
<1>12. /\ Len(Screen(buffer')) = size.rows
       /\ \A r \in 1..size.rows : Screen(buffer')[r] \in [1..size.columns -> Cells]
       /\ Len(Transcript(buffer')) <= total - size.rows
       /\ \A r \in 1..Len(Transcript(buffer')) : Transcript(buffer')[r] \in [1..size.columns -> Cells]
  <2>1. PICK c : c = buffer'
    OBVIOUS
  <2>2. /\ Screen(c) \in Seq([1..size.columns -> Cells]) /\ Len(Screen(c)) = size.rows
        /\ Transcript(c) \in Seq([1..size.columns -> Cells])
        /\ Len(Transcript(c)) = c.mActiveTranscriptRows
    BY <1>9, <2>1, LinesOf
  <2>3. c.mActiveTranscriptRows \in 0..total - size.rows
    BY <1>9, <2>1, Fields DEF IsRing
  <2>4. c.mActiveTranscriptRows <= total - size.rows
    BY <1>1, <1>3, <2>3
  <2>5. QED  BY <2>1, <2>2, <2>4, ElementOfSeq
<1>13. Flows(size)
  BY <1>1, <1>2, <1>7, <1>10, <1>11, <1>12 DEF Flows
<1>14. QED  BY <1>10, <1>13

-----------------------------------------------------------------------------
(* The theorems.                                                           *)

\* A new terminal shows a blank screen and has no transcript.
LEMMA InitLines == Init => Lines!Init
<1>1. SUFFICES ASSUME Init PROVE Lines!Init
  OBVIOUS
<1>2. RingInv
  BY <1>1, InitRing
<1>3. PICK size \in Sizes :
        LET total == IF alt THEN size.rows ELSE MainRows
        IN  buffer = [mLines |-> [i \in 0..total - 1 |->
                                    IF i < size.rows THEN TerminalRow(size.columns, FALSE) ELSE NoRow],
                      mTotalRows |-> total, mScreenRows |-> size.rows, mColumns |-> size.columns,
                      mActiveTranscriptRows |-> 0, mScreenFirstRow |-> 0]
  BY <1>1 DEF Init
<1>4. PICK total : total = IF alt THEN size.rows ELSE MainRows
  OBVIOUS
<1>5. PICK n, C : n = size.rows /\ C = size.columns
  OBVIOUS
<1>6. n \in 2..MainRows /\ MainRows \in Nat /\ C \in Nat /\ total \in n..MainRows /\ total \in Nat
  BY <1>4, <1>5, SizeIs, SizesAssumption
<1>7. PICK lines : lines = [i \in 0..total - 1 |-> IF i < n THEN TerminalRow(C, FALSE) ELSE NoRow]
  OBVIOUS
<1>8. PICK b : b = buffer
  OBVIOUS
<1>9. b = [mLines |-> lines, mTotalRows |-> total, mScreenRows |-> n, mColumns |-> C,
           mActiveTranscriptRows |-> 0, mScreenFirstRow |-> 0]
  BY <1>3, <1>4, <1>5, <1>7, <1>8
<1>10. /\ b.mLines = lines /\ b.mTotalRows = total /\ b.mScreenRows = n /\ b.mColumns = C
       /\ b.mActiveTranscriptRows = 0 /\ b.mScreenFirstRow = 0
  BY <1>9
<1>11. ASSUME NEW r \in 1..n
       PROVE  Row(b, r - 1).text = [k \in 1..C |-> Blank]
  <2>1. externalToInternalRow(b, r - 1) = (0 + (r - 1)) % total
    BY <1>6, <1>10 DEF externalToInternalRow
  <2>2. (0 + (r - 1)) % total = r - 1 /\ r - 1 \in 0..total - 1 /\ r - 1 < n
    BY <1>6
  <2>3. Row(b, r - 1) = TerminalRow(C, FALSE)
    BY <1>7, <1>10, <2>1, <2>2 DEF Row
  <2>4. PICK blank, row : blank = [k \in 1..C |-> Blank] /\ row = Row(b, r - 1)
    OBVIOUS
  <2>5. row = [text |-> blank, mLineWrap |-> FALSE]
    BY <2>3, <2>4 DEF TerminalRow
  <2>6. row.text = blank
    BY <2>5
  <2>7. QED  BY <2>4, <2>6
<1>12. Screen(b) = Lines!BlankLines(n, C)
  BY <1>10, <1>11 DEF Screen, Lines!BlankLines
<1>13. IsRing(b)
  BY <1>2, <1>8, RingFields
<1>14. Transcript(b) = << >>
  <2>1. Transcript(b) \in Seq([1..b.mColumns -> Cells]) /\ Len(Transcript(b)) = 0
    BY <1>10, <1>13, LinesOf
  <2>2. QED  BY <2>1, EmptySeq
<1>15. /\ Texts(0, buffer.mScreenRows - 1) = Screen(b)
       /\ Texts(-buffer.mActiveTranscriptRows, -1) = Transcript(b)
       /\ Lines!Rows = n
  BY <1>2, <1>8, <1>10, LinesAre DEF Rows
<1>16. /\ alt \in BOOLEAN /\ cursor = [column |-> 0, row |-> 0] /\ mAboutToAutoWrap = FALSE
       /\ margin = [top |-> 0, bottom |-> n]
  BY <1>1, <1>8, <1>10 DEF Init, Home
<1>17. QED  BY <1>5, <1>12, <1>14, <1>15, <1>16 DEF Lines!Init

\* When nothing changes, the lines stay.
LEMMA SameLines ==
    ASSUME RingInv, UNCHANGED vars
    PROVE  RingInv' /\ UNCHANGED Lines!vars
<1>1. /\ buffer' = buffer /\ cursor' = cursor /\ margin' = margin /\ alt' = alt
      /\ mAboutToAutoWrap' = mAboutToAutoWrap
  BY DEF vars
<1>2. RingInv'
  <2>1. cursor' \in [column : 0..Columns - 1, row : 0..Rows - 1] /\ mAboutToAutoWrap' \in BOOLEAN
    BY <1>1 DEF RingInv
  <2>2. QED  BY <1>1, <2>1, SameBuffer, KeepsAlike
<1>3. UNCHANGED Lines!vars
  BY <1>1, SameBuffer, SeenLines DEF Lines!vars
<1>4. QED  BY <1>2, <1>3

\* The resizes that reflow.
Widens(size) ==
  resize(size) /\ (size.columns # Columns \/ (alt /\ size.rows > Rows))

\* A step of the buffer.
LEMMA StepIs ==
    ASSUME RingInv, [Next]_vars
    PROVE  /\ RingInv'
           /\ [Lines!Next]_(Lines!vars) \/ \E size \in Sizes : Widens(size) /\ Flows(size)
<1>1. /\ Columns \in Nat /\ Rows \in Nat /\ IsRing(buffer) /\ Lines!Rows = Rows /\ Lines!Columns = Columns
      /\ buffer.mTotalRows = IF alt THEN Rows ELSE MainRows
  BY RingFields, LinesAre
<1>2. ASSUME NEW char \in Chars, emitCodePoint(char)
      PROVE  RingInv' /\ Lines!Next
  BY <1>2, PutIs DEF Lines!Next
<1>3. CASE doLinefeed
  BY <1>3, doLinefeedIs DEF Lines!Next
<1>4. CASE ReverseIndex
  BY <1>4, ReverseIndexIs DEF Lines!Next
<1>5. CASE Backspace
  BY <1>5, BackspaceIs DEF Lines!Next
<1>6. ASSUME NEW n \in 1..Rows, InsertLines(n) \/ DeleteLines(n)
      PROVE  RingInv' /\ Lines!Next
  <2>1. RingInv' /\ (Lines!InsertLines(n) \/ Lines!DeleteLines(n))
    BY <1>1, <1>6, InsertLinesIs, DeleteLinesIs
  <2>2. n \in 1..Lines!Rows
    BY <1>1
  <2>3. QED  BY <2>1, <2>2 DEF Lines!Next
<1>7. ASSUME NEW n \in 1..Columns, InsertCells(n) \/ DeleteCells(n)
      PROVE  RingInv' /\ Lines!Next
  <2>1. RingInv' /\ (Lines!InsertCells(n) \/ Lines!DeleteCells(n))
    BY <1>1, <1>7, InsertCellsIs, DeleteCellsIs
  <2>2. n \in 1..Lines!Columns
    BY <1>1
  <2>3. QED  BY <2>1, <2>2 DEF Lines!Next
<1>8. CASE Erase
  BY <1>8, EraseIs DEF Lines!Next
<1>9. CASE setCursorRowCol
  BY <1>9, setCursorRowColIs DEF Lines!Next
<1>10. CASE SetMargins
  BY <1>10, SetMarginsIs DEF Lines!Next
<1>11. ASSUME NEW size \in Sizes, resize(size)
       PROVE  RingInv' /\ (Lines!Next \/ (Widens(size) /\ Flows(size)))
  <2>1. CASE size.columns # Columns \/ (alt /\ size.rows > Rows)
    BY <1>11, <2>1, Reflows DEF Widens
  <2>2. CASE ~alt /\ size.columns = Columns
    <3>1. RingInv' /\ Lines!Resize(size)
      BY <1>11, <2>2, MainResizes
    <3>2. QED  BY <3>1 DEF Lines!Next
  <2>3. CASE alt /\ size.columns = Columns /\ ~(size.rows > Rows)
    <3>1. size.rows <= Rows
      BY <1>1, <2>3, SizeIs
    <3>2. RingInv' /\ Lines!Resize(size)
      BY <1>11, <2>3, <3>1, AlternateResizes
    <3>3. QED  BY <3>2 DEF Lines!Next
  <2>4. QED  BY <2>1, <2>2, <2>3
<1>12. CASE UNCHANGED vars
  BY <1>12, SameLines
<1>13. QED
  BY <1>2, <1>3, <1>4, <1>5, <1>6, <1>7, <1>8, <1>9, <1>10, <1>11, <1>12 DEF Next

\* In every state no row of the screen or the transcript is missing or shared with
\* another, the cursor is on the screen and the margins in it, whatever the
\* emulator has done to the buffer: no operation finds null in mLines.
THEOREM RingHolds == Spec => []RingInv
<1>1. Init => RingInv
  BY InitRing
<1>2. RingInv /\ [Next]_vars => RingInv'
  BY StepIs
<1>3. QED  BY <1>1, <1>2, PTL DEF Spec

\* Every operation of the emulator does to the lines of the buffer what
\* ScreenLines says; a resize to other columns does all of it but for the text,
\* which may flow anywhere into the lines of the new screen.
THEOREM LinesHold ==
    Spec => Lines!Init /\ [][Lines!Next \/ \E size \in Sizes : Flows(size)]_(Lines!vars)
<1>1. Init => Lines!Init
  BY InitLines
<1>2. RingInv /\ [Next]_vars => [Lines!Next \/ \E size \in Sizes : Flows(size)]_(Lines!vars)
  BY StepIs
<1>3. QED  BY <1>1, <1>2, RingHolds, PTL DEF Spec

\* As long as resize only changes the number of rows, or grows no alternate
\* screen, TerminalBuffer implements ScreenLines: what it promises, with the two
\* departures that ScreenLines names.
THEOREM UnlessReflowed ==
    Spec /\ [][\A size \in Sizes : ~Widens(size)]_vars => ImplementsLines
<1>1. Init => Lines!Init
  BY InitLines
<1>2. RingInv /\ [Next]_vars /\ [\A size \in Sizes : ~Widens(size)]_vars => [Lines!Next]_(Lines!vars)
  <2>1. SUFFICES ASSUME RingInv, [Next]_vars, [\A size \in Sizes : ~Widens(size)]_vars
                 PROVE  [Lines!Next]_(Lines!vars)
    OBVIOUS
  <2>2. CASE \A size \in Sizes : ~Widens(size)
    BY <2>1, <2>2, StepIs
  <2>3. CASE UNCHANGED vars
    BY <2>1, <2>3, SameLines
  <2>4. QED  BY <2>1, <2>2, <2>3
<1>3. QED  BY <1>1, <1>2, RingHolds, PTL DEF Spec, ImplementsLines, Lines!Spec

=============================================================================

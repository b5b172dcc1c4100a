-------------------------- MODULE TerminalView_proofs --------------------------
(***************************************************************************)
(* Theorems about TerminalView, for every width, set of heights and cap of *)
(* the scrollback. The first part is about the buffer as such: what each   *)
(* method of the class makes of a screen, then the types and what a        *)
(* snapshot is of, which gives RowsComeBack. The second part is about the  *)
(* text: the lines of the scrollback, of what a snapshot hides and of the  *)
(* screen are read as one sequence without an end, of which a step cuts    *)
(* some off at the front, adds a glyph behind the last one, or leaves all; *)
(* that gives TextIsKept and SelectionFollows.                             *)
(***************************************************************************)
EXTENDS TerminalView, SequenceTheorems, TLAPS

(* The least and the greatest of two, as comparisons.                      *)
LEMMA MinIs == \A a, b \in Int : Min({a, b}) = IF a <= b THEN a ELSE b
<1> TAKE a \in Int, b \in Int
<1> DEFINE m == IF a <= b THEN a ELSE b
<1>1. m \in {a, b} /\ \A y \in {a, b} : m <= y
  OBVIOUS
<1>2. \A x \in {a, b} : (\A y \in {a, b} : x <= y) => x = m
  OBVIOUS
<1> QED
  BY <1>1, <1>2 DEF Min

LEMMA MaxIs == \A a, b \in Int : Max({a, b}) = IF a >= b THEN a ELSE b
<1> TAKE a \in Int, b \in Int
<1> DEFINE m == IF a >= b THEN a ELSE b
<1>1. m \in {a, b} /\ \A y \in {a, b} : m >= y
  OBVIOUS
<1>2. \A x \in {a, b} : (\A y \in {a, b} : x >= y) => x = m
  OBVIOUS
<1> QED
  BY <1>1, <1>2 DEF Max

(* buffer.ts clamp, between bounds in order.                               *)
LEMMA ClampIs ==
  \A x, low, high \in Int : low <= high =>
    Clamp(x, low, high) = IF x < low THEN low ELSE IF x > high THEN high ELSE x
<1> TAKE x \in Int, low \in Int, high \in Int
<1>1. Min({x, high}) = IF x <= high THEN x ELSE high
  BY MinIs
<1>2. Min({x, high}) \in Int
  BY <1>1
<1>3. Max({low, Min({x, high})}) = IF low >= Min({x, high}) THEN low ELSE Min({x, high})
  BY <1>2, MaxIs
<1> QED
  BY <1>1, <1>3 DEF Clamp

-----------------------------------------------------------------------------
(* A screen of the class, and the rows a snapshot shows of it.             *)
Shaped(s) ==
  /\ s.rows \in Heights /\ s \in Screens(s.rows)
  /\ s.cursor.r < s.rows
  /\ s.saved # None => s.saved.r < s.rows
  /\ s.top <= s.bottom /\ s.bottom < s.rows
  /\ Len(s.scrollback) <= MaxScrollback

(* While rows are taken from it, a screen shows the rows of the snapshot   *)
(* from view on, which say where the hidden ones go; without a snapshot    *)
(* there is nothing to show or to restore.                                 *)
Mirrors(s) ==
  /\ s.snapshot = None => s.view = 0 /\ s.restore = None
  /\ s.snapshot # None =>
       /\ s.rows < s.snapshot.rows /\ s.view + s.rows <= s.snapshot.rows
       /\ s.snapshot.insertAt = Len(s.scrollback)
       /\ \A r \in RowsOf(s) : s.cells[r] = s.snapshot.cells[s.view + r]

(* A row of cells makes a line, a screen one line a row, and what the      *)
(* snapshot hides one line for each row above the view.                    *)
LEMMA LineType ==
  ASSUME NEW row \in [0..(Cols - 1) -> Int]
  PROVE  LineOf(row) \in Lines
<1> DEFINE D == {c \in 0..(Cols - 1) : row[c] > 0}
<1>1. LineOf(row) \in [D -> Nat]
  BY DEF LineOf
<1>2. D \in SUBSET (0..(Cols - 1))
  OBVIOUS
<1> QED
  BY <1>1, <1>2 DEF Lines

LEMMA LiveType ==
  ASSUME NEW s, Shaped(s)
  PROVE  Live(s) \in Seq(Lines) /\ Len(Live(s)) = s.rows
<1>1. s.rows \in Nat /\ s.cells \in Grids(s.rows)
  BY ViewAssumption DEF Shaped, Screens
<1>2. \A i \in 1..s.rows : LineOf(s.cells[i - 1]) \in Lines
  <2> TAKE i \in 1..s.rows
  <2>1. s.cells[i - 1] \in [0..(Cols - 1) -> Int]
    BY <1>1 DEF Grids
  <2> QED
    BY <2>1, LineType
<1> QED
  BY <1>1, <1>2 DEF Live

LEMMA HiddenType ==
  ASSUME NEW s, Shaped(s), Mirrors(s)
  PROVE  Hidden(s) \in Seq(Lines) /\ Len(Hidden(s)) = s.view
<1>1. CASE s.snapshot = None
  BY <1>1 DEF Hidden, Mirrors
<1>2. CASE s.snapshot # None
  <2>1. PICK m \in Heights : s.snapshot \in Snapshots(m)
    BY <1>2 DEF Shaped, Screens
  <2>2. s.view \in Nat /\ m \in Nat /\ s.rows \in Nat /\ s.view + s.rows <= m
    BY ViewAssumption, <1>2, <2>1 DEF Shaped, Screens, Mirrors, Snapshots
  <2>3. s.snapshot.cells \in Grids(m)
    BY <2>1 DEF Snapshots
  <2>4. \A i \in 1..s.view : LineOf(s.snapshot.cells[i - 1]) \in Lines
    <3> TAKE i \in 1..s.view
    <3>1. s.snapshot.cells[i - 1] \in [0..(Cols - 1) -> Int]
      BY <2>2, <2>3 DEF Grids
    <3> QED
      BY <3>1, LineType
  <2> QED
    BY <1>2, <2>2, <2>4 DEF Hidden
<1> QED
  BY <1>1, <1>2

(* The cap cuts at the front.                                              *)
CutOff(lines) == IF Len(lines) > MaxScrollback THEN Len(lines) - MaxScrollback ELSE 0

(* The cap leaves a suffix of the lines, no longer than itself.            *)
LEMMA CappedIs ==
  ASSUME NEW lines \in Seq(Lines)
  PROVE  /\ Capped(lines) \in Seq(Lines)
         /\ Len(Capped(lines)) = Len(lines) - CutOff(lines)
         /\ Len(Capped(lines)) <= MaxScrollback
         /\ \A i \in 1..Len(Capped(lines)) : Capped(lines)[i] = lines[i + CutOff(lines)]
<1>1. Len(lines) \in Nat /\ MaxScrollback \in Nat
  BY ViewAssumption
<1>2. CASE Len(lines) > MaxScrollback
  <2> DEFINE m == Len(lines) - MaxScrollback + 1
  <2>1. m \in Nat /\ m >= 1 /\ m <= Len(lines) + 1
    BY <1>1, <1>2
  <2>2. Capped(lines) = SubSeq(lines, m, Len(lines))
    BY <1>2 DEF Capped
  <2> HIDE DEF m
  <2>3. /\ Capped(lines) \in Seq(Lines)
        /\ Len(Capped(lines)) = Len(lines) - m + 1
        /\ \A i \in 1..Len(Capped(lines)) : Capped(lines)[i] = lines[m + i - 1]
    BY <1>1, <2>1, <2>2
  <2> QED
    BY <1>1, <1>2, <2>3 DEF CutOff, m
<1>3. CASE ~(Len(lines) > MaxScrollback)
  BY <1>1, <1>3 DEF Capped, CutOff
<1> QED
  BY <1>2, <1>3

(* What is hidden goes behind the scrollback, whatever the live rows are.  *)
LEMMA CommittedIs ==
  ASSUME NEW s, Shaped(s), Mirrors(s)
  PROVE  Committed(s) = Capped(s.scrollback \o Hidden(s))
<1>0. s.scrollback \in Seq(Lines) /\ s.view \in Nat
  BY DEF Shaped, Screens
<1>1. CASE Hidden(s) = <<>>
  <2>1. Committed(s) = s.scrollback
    <3>1. s.snapshot = None \/ s.view < 1
      BY <1>0, <1>1, HiddenType
    <3> QED
      BY <3>1 DEF Committed
  <2>2. s.scrollback \o Hidden(s) = s.scrollback
    BY <1>0, <1>1
  <2>3. Capped(s.scrollback) = s.scrollback
    <3>1. ~(Len(s.scrollback) > MaxScrollback)
      BY ViewAssumption, <1>0 DEF Shaped
    <3> QED
      BY <3>1 DEF Capped
  <2> QED
    BY <2>1, <2>2, <2>3
<1>2. CASE Hidden(s) # <<>>
  <2> DEFINE n == Len(s.scrollback)
  <2>1. s.snapshot # None /\ ~(s.view < 1)
    <3>1. Hidden(s) \in Seq(Lines) /\ Len(Hidden(s)) = s.view
      BY HiddenType
    <3>2. s.view # 0
      BY <1>2, <3>1
    <3> QED
      BY <1>0, <1>2, <3>2 DEF Hidden
  <2>2. n \in Nat /\ s.snapshot.insertAt = n
    BY <1>0, <2>1 DEF Mirrors
  <2>3. Min({s.snapshot.insertAt, n}) = n
    <3> HIDE DEF n
    <3>1. Min({n, n}) = n
      BY <2>2, MinIs
    <3> QED
      BY <2>2, <3>1
  <2>4. SubSeq(s.scrollback, 1, n) = s.scrollback
    BY <1>0
  <2>5. SubSeq(s.scrollback, n + 1, n) = <<>>
    BY <1>0, <2>2
  <2>6. Committed(s) = Capped(SubSeq(s.scrollback, 1, n) \o Hidden(s)
                               \o SubSeq(s.scrollback, n + 1, n))
    BY <2>1, <2>3 DEF Committed
  <2>7. (s.scrollback \o Hidden(s)) \o <<>> = s.scrollback \o Hidden(s)
    BY <1>0, HiddenType
  <2> QED
    BY <2>4, <2>5, <2>6, <2>7
<1> QED
  BY <1>1, <1>2

(* Committing keeps the scrollback a sequence of lines within the cap.     *)
LEMMA CommittedType ==
  ASSUME NEW s, Shaped(s), Mirrors(s)
  PROVE  Committed(s) \in Seq(Lines) /\ Len(Committed(s)) <= MaxScrollback
<1>1. s.scrollback \in Seq(Lines) /\ Hidden(s) \in Seq(Lines)
  BY HiddenType DEF Shaped, Screens
<1> DEFINE lines == s.scrollback \o Hidden(s)
<1>2. lines \in Seq(Lines)
  BY <1>1
<1>3. Committed(s) = Capped(lines)
  BY CommittedIs
<1> HIDE DEF lines
<1> QED
  BY <1>2, <1>3, CappedIs

(* A screen with no snapshot, which every write makes of it.               *)
Plainly(u) == u.snapshot = None /\ u.view = 0 /\ u.restore = None

(* What changes only cells, cursor or region and then drops the snapshot   *)
(* (noteBufMut) is a screen without one.                                   *)
LEMMA MutatedType ==
  ASSUME NEW s, Shaped(s), Mirrors(s)
  PROVE  LET u == Mutated(s) IN
         /\ Shaped(u) /\ Mirrors(u) /\ Plainly(u)
         /\ u.scrollback = Committed(s)
         /\ u.cells = s.cells /\ u.cursor = s.cursor /\ u.saved = s.saved
         /\ u.rows = s.rows /\ u.top = s.top /\ u.bottom = s.bottom
<1> DEFINE u == Mutated(s)
<1>1. u \in Screens(s.rows) /\ u.scrollback = Committed(s)
  BY CommittedType DEF Mutated, Shaped, Screens
<1>2. /\ u.cells = s.cells /\ u.cursor = s.cursor /\ u.saved = s.saved
      /\ u.rows = s.rows /\ u.top = s.top /\ u.bottom = s.bottom /\ Plainly(u)
  BY DEF Mutated, Shaped, Screens, Plainly
<1>3. Shaped(u)
  BY <1>1, <1>2, CommittedType DEF Shaped
<1>4. Mirrors(u)
  BY <1>2 DEF Mirrors, Plainly
<1> QED
  BY <1>1, <1>2, <1>3, <1>4

(* Nothing but the cursor, the region and what is remembered of them.      *)
LEMMA MovedType ==
  ASSUME NEW s, Shaped(s), Mirrors(s), NEW u, u \in Screens(s.rows),
         u.cells = s.cells, u.scrollback = s.scrollback, u.snapshot = s.snapshot,
         u.view = s.view, u.restore = None,
         u.cursor.r < s.rows, u.saved # None => u.saved.r < s.rows,
         u.top <= u.bottom, u.bottom < s.rows
  PROVE  Shaped(u) /\ Mirrors(u)
<1>1. u.rows = s.rows
  BY DEF Screens
<1>2. Shaped(u)
  BY <1>1 DEF Shaped
<1>3. Mirrors(u)
  BY <1>1 DEF Mirrors, RowsOf
<1> QED
  BY <1>2, <1>3

(* The rows of the region go up by one.                                    *)
ScrolledCells(s) ==
  [r \in RowsOf(s) |-> IF r \in s.top..(s.bottom - 1) THEN s.cells[r + 1]
                       ELSE IF r = s.bottom THEN BlankRow(s.cols)
                       ELSE s.cells[r]]

(* What a line feed does: the rows of the region go up, and its top row to *)
(* the scrollback when the region starts at the top of the screen; or the  *)
(* cursor goes down.                                                       *)
Scrolls(s, u) ==
  /\ Plainly(u) /\ u.cells = ScrolledCells(s)
  /\ u.cursor = [r |-> s.cursor.r, c |-> 0] /\ u.saved = s.saved
  /\ u.rows = s.rows /\ u.top = s.top /\ u.bottom = s.bottom
  /\ u.scrollback = Capped(Append(Committed(s), LineOf(s.cells[s.top])))

Descends(s, u) ==
  /\ u.cells = s.cells /\ u.scrollback = s.scrollback /\ u.snapshot = s.snapshot
  /\ u.view = s.view /\ u.restore = None
  /\ u.cursor = [r |-> s.cursor.r + 1, c |-> 0] /\ u.saved = s.saved
  /\ u.rows = s.rows /\ u.top = s.top /\ u.bottom = s.bottom

(* A line feed does one of the two, and leaves a screen.                   *)
LEMMA LineFeedType ==
  ASSUME NEW s, Shaped(s), Mirrors(s)
  PROVE  LET u == LineFeed(s) IN
         /\ Shaped(u) /\ Mirrors(u) /\ u.rows = s.rows /\ u.cursor.c = 0
         /\ s.cursor.r < s.bottom => Descends(s, u)
         /\ ~(s.cursor.r < s.bottom) => Scrolls(s, u)
<1> DEFINE u == LineFeed(s)
<1>0. /\ s \in Screens(s.rows) /\ s.rows \in Nat /\ s.cursor \in Cursors /\ Cols \in Nat
      /\ s.top \in Nat /\ s.bottom \in Nat /\ s.cells \in Grids(s.rows) /\ s.cols = Cols
      /\ s.bottom < s.rows
  BY ViewAssumption DEF Shaped, Screens
<1>1. CASE s.cursor.r < s.bottom
  <2>1. u = [[s EXCEPT !.restore = None] EXCEPT !.cursor = [r |-> s.cursor.r + 1, c |-> 0]]
    BY <1>0, <1>1 DEF LineFeed, Forget, Screens
  <2>2. [r |-> s.cursor.r + 1, c |-> 0] \in Cursors
    BY <1>0 DEF Cursors
  <2>3. u \in Screens(s.rows) /\ Descends(s, u)
    BY <1>0, <2>1, <2>2 DEF Screens, Descends
  <2>4. Shaped(u) /\ Mirrors(u)
    <3>1. u.cursor.r < s.rows
      BY <1>0, <1>1, <2>3 DEF Shaped, Descends, Cursors
    <3> HIDE DEF u
    <3> QED
      BY <2>3, <3>1, MovedType DEF Shaped, Descends
  <2>5. u.rows = s.rows /\ u.cursor.c = 0
    BY <2>3 DEF Descends
  <2> HIDE DEF u
  <2> QED
    BY <1>1, <2>3, <2>4, <2>5 DEF u
<1>2. CASE ~(s.cursor.r < s.bottom)
  <2> DEFINE m == Mutated(s)
             lines == Capped(Append(m.scrollback, LineOf(s.cells[s.top])))
  <2>0. /\ Shaped(m) /\ Mirrors(m) /\ Plainly(m) /\ m.scrollback = Committed(s)
        /\ m.cells = s.cells /\ m.cursor = s.cursor /\ m.saved = s.saved
        /\ m.rows = s.rows /\ m.top = s.top /\ m.bottom = s.bottom
    BY MutatedType
  <2>1. u = [m EXCEPT !.scrollback = lines, !.cells = ScrolledCells(s), !.cursor.c = 0]
    BY <1>2 DEF LineFeed, ScrolledCells
  <2> HIDE DEF m
  <2>2. lines \in Seq(Lines) /\ Len(lines) <= MaxScrollback
    <3>1. s.cells[s.top] \in [0..(Cols - 1) -> Int]
      BY <1>0 DEF Shaped, Grids
    <3>2. Append(m.scrollback, LineOf(s.cells[s.top])) \in Seq(Lines)
      <4>1. m.scrollback \in Seq(Lines)
        BY <2>0, CommittedType
      <4> QED
        BY <3>1, <4>1, LineType
    <3> DEFINE more == Append(m.scrollback, LineOf(s.cells[s.top]))
    <3>3. more \in Seq(Lines) /\ lines = Capped(more)
      BY <3>2
    <3> HIDE DEF more, lines
    <3> QED
      BY <3>3, CappedIs
  <2>3. ScrolledCells(s) \in Grids(s.rows)
    <3>1. \A r \in 0..(s.rows - 1) : ScrolledCells(s)[r] \in [0..(Cols - 1) -> Int]
      <4> TAKE r \in 0..(s.rows - 1)
      <4>1. BlankRow(s.cols) \in [0..(Cols - 1) -> Int]
        BY <1>0 DEF BlankRow, Blank
      <4>2. s.cells[r] \in [0..(Cols - 1) -> Int]
        BY <1>0 DEF Grids
      <4>3. r \in s.top..(s.bottom - 1) => s.cells[r + 1] \in [0..(Cols - 1) -> Int]
        <5>1. r \in s.top..(s.bottom - 1) => r + 1 \in 0..(s.rows - 1)
          BY <1>0
        <5> QED
          BY <1>0, <5>1 DEF Grids
      <4>4. ScrolledCells(s)[r] = IF r \in s.top..(s.bottom - 1) THEN s.cells[r + 1]
                                  ELSE IF r = s.bottom THEN BlankRow(s.cols)
                                  ELSE s.cells[r]
        BY DEF ScrolledCells, RowsOf
      <4> QED
        BY <4>1, <4>2, <4>3, <4>4
    <3>2. ScrolledCells(s) = [r \in 0..(s.rows - 1) |-> ScrolledCells(s)[r]]
      BY DEF ScrolledCells, RowsOf
    <3> QED
      BY <3>1, <3>2 DEF Grids
  <2> HIDE DEF lines
  <2>4. [m.cursor EXCEPT !.c = 0] = [r |-> s.cursor.r, c |-> 0] /\ [r |-> s.cursor.r, c |-> 0] \in Cursors
    BY <1>0, <2>0 DEF Cursors
  <2>5. u = [m EXCEPT !.scrollback = lines, !.cells = ScrolledCells(s),
                      !.cursor = [r |-> s.cursor.r, c |-> 0]]
    BY <2>1, <2>4
  <2>6. /\ u \in Screens(s.rows) /\ Plainly(u) /\ u.cells = ScrolledCells(s)
        /\ u.cursor = [r |-> s.cursor.r, c |-> 0] /\ u.saved = s.saved
        /\ u.rows = s.rows /\ u.top = s.top /\ u.bottom = s.bottom /\ u.scrollback = lines
    <3>1. m \in Screens(s.rows)
      BY <2>0 DEF Shaped
    <3> HIDE DEF u
    <3> QED
      BY <2>0, <2>2, <2>3, <2>4, <2>5, <3>1 DEF Screens, Plainly
  <2>7. Scrolls(s, u)
    BY <2>0, <2>6 DEF Scrolls, lines
  <2>8. Shaped(u)
    <3> HIDE DEF u
    <3> QED
      BY <2>2, <2>6 DEF Shaped
  <2>9. Mirrors(u)
    BY <2>6 DEF Mirrors, Plainly
  <2>10. u.rows = s.rows /\ u.cursor.c = 0
    BY <2>6
  <2> HIDE DEF u
  <2> QED
    BY <1>2, <2>7, <2>8, <2>9, <2>10 DEF u
<1> QED
  BY <1>1, <1>2

(* Where a glyph goes: behind the last column is on the next row.          *)
Wrapped(s, wide) ==
  LET a == IF s.cursor.c >= s.cols THEN LineFeed(s) ELSE s
  IN  IF wide /\ a.cursor.c = s.cols - 1 THEN LineFeed(a) ELSE a

(* After it there is room for the glyph, wide or not.                      *)
LEMMA WrappedType ==
  ASSUME NEW s, Shaped(s), Mirrors(s), NEW wide \in BOOLEAN
  PROVE  LET b == Wrapped(s, wide) IN
         /\ Shaped(b) /\ Mirrors(b) /\ b.rows = s.rows
         /\ b.cursor.c < Cols /\ (wide => b.cursor.c + 1 < Cols)
<1> DEFINE a == IF s.cursor.c >= s.cols THEN LineFeed(s) ELSE s
           b == Wrapped(s, wide)
<1>0. /\ s.cols = Cols /\ Cols \in Nat /\ Cols > 1 /\ s.cursor.c \in 0..Cols
  BY ViewAssumption DEF Shaped, Screens, Cursors
<1>1. Shaped(a) /\ Mirrors(a) /\ a.rows = s.rows /\ a.cursor.c \in 0..(Cols - 1)
  <2>1. CASE s.cursor.c >= s.cols
    <3>1. a = LineFeed(s)
      BY <2>1
    <3> HIDE DEF a
    <3> QED
      BY <1>0, <3>1, LineFeedType
  <2>2. CASE ~(s.cursor.c >= s.cols)
    BY <1>0, <2>2
  <2> QED
    BY <2>1, <2>2
<1>2. b = IF wide /\ a.cursor.c = Cols - 1 THEN LineFeed(a) ELSE a
  BY <1>0 DEF Wrapped
<1> HIDE DEF a, b
<1>3. CASE wide /\ a.cursor.c = Cols - 1
  <2>1. b = LineFeed(a)
    BY <1>2, <1>3
  <2>2. Shaped(b) /\ Mirrors(b) /\ b.rows = a.rows /\ b.cursor.c = 0
    BY <1>1, <2>1, LineFeedType
  <2> QED
    BY <1>0, <1>1, <2>2 DEF b
<1>4. CASE ~(wide /\ a.cursor.c = Cols - 1)
  <2>1. b = a
    BY <1>2, <1>4
  <2> QED
    BY <1>0, <1>1, <1>4, <2>1 DEF b
<1> QED
  BY <1>3, <1>4

(* A row with a glyph at a column, and what is behind a wide one.          *)
RowWith(row, c, k, wide) ==
  [d \in 0..(Cols - 1) |-> IF d = c THEN k ELSE IF wide /\ d = c + 1 THEN -k ELSE row[d]]

LEMMA RowWithType ==
  ASSUME NEW row \in [0..(Cols - 1) -> Int], NEW c, NEW k \in Nat, NEW wide \in BOOLEAN
  PROVE  RowWith(row, c, k, wide) \in [0..(Cols - 1) -> Int]
<1>1. CASE wide
  BY <1>1 DEF RowWith
<1>2. CASE ~wide
  BY <1>2 DEF RowWith
<1> QED
  BY <1>1, <1>2

(* Writing a glyph where the cursor is, and going on behind it.            *)
Writes(b, u, k, wide) ==
  /\ Plainly(u) /\ u.rows = b.rows
  /\ u.cells = [b.cells EXCEPT ![b.cursor.r] = RowWith(@, b.cursor.c, k, wide)]
  /\ u.cursor = [r |-> b.cursor.r, c |-> b.cursor.c + IF wide THEN 2 ELSE 1]
  /\ u.saved = b.saved /\ u.top = b.top /\ u.bottom = b.bottom
  /\ u.scrollback = Committed(b)

(* Put writes the glyph where it has made room for it.                     *)
LEMMA PutType ==
  ASSUME NEW s, Shaped(s), Mirrors(s), NEW wide \in BOOLEAN, NEW k \in Nat
  PROVE  LET u == Put(s, k, wide) IN
         Shaped(u) /\ Mirrors(u) /\ Writes(Wrapped(s, wide), u, k, wide)
<1> DEFINE b == Wrapped(s, wide)
           u == Put(s, k, wide)
           at == b.cursor
           row == RowWith(b.cells[at.r], at.c, k, wide)
           cells == [b.cells EXCEPT ![at.r] = row]
           cursor == [r |-> at.r, c |-> at.c + IF wide THEN 2 ELSE 1]
           v == [b EXCEPT !.cells = cells, !.cursor = cursor]
<1>1. /\ Shaped(b) /\ Mirrors(b) /\ b.rows = s.rows
      /\ b.cursor.c < Cols /\ (wide => b.cursor.c + 1 < Cols)
  BY WrappedType
<1>2. s.cols = Cols /\ Cols \in Nat
  BY ViewAssumption DEF Shaped, Screens
<1>3. u = Mutated([b EXCEPT
             !.cells[at.r] = [c \in ColsOf(s) |->
                                IF c = at.c THEN k
                                ELSE IF (wide /\ at.c + 1 < s.cols) /\ c = at.c + 1 THEN -k
                                ELSE @[c]],
             !.cursor.c = IF wide /\ at.c + 1 < s.cols THEN at.c + 2 ELSE at.c + 1])
  BY DEF Put, Wrapped
<1> HIDE DEF b
<1>4. /\ b \in Screens(b.rows) /\ b.rows \in Nat /\ b.cursor \in Cursors
      /\ b.cells \in Grids(b.rows) /\ at.r < b.rows /\ at.r \in 0..(b.rows - 1)
  <2>1. /\ b \in Screens(b.rows) /\ b.rows \in Nat /\ b.cursor \in Cursors
        /\ b.cells \in Grids(b.rows) /\ at.r < b.rows
    BY ViewAssumption, <1>1 DEF Shaped, Screens
  <2> QED
    BY <2>1 DEF Cursors
<1>5. row \in [0..(Cols - 1) -> Int]
  <2>1. b.cells[at.r] \in [0..(Cols - 1) -> Int]
    BY <1>4 DEF Grids
  <2> QED
    BY <2>1, RowWithType
<1>6. cells \in Grids(b.rows)
  <2> HIDE DEF row
  <2> QED
    BY <1>4, <1>5 DEF Grids
<1>7. cursor \in Cursors
  <2>1. CASE wide
    BY <1>1, <1>2, <1>4, <2>1 DEF Cursors
  <2>2. CASE ~wide
    BY <1>1, <1>2, <1>4, <2>2 DEF Cursors
  <2> QED
    BY <2>1, <2>2
<1>8. u = Mutated(v)
  <2>1. (wide /\ at.c + 1 < s.cols) = wide
    <3>1. wide => at.c + 1 < s.cols
      BY <1>1, <1>2
    <3> QED
      BY <3>1, Zenon
  <2>2. [c \in ColsOf(s) |-> IF c = at.c THEN k
                             ELSE IF (wide /\ at.c + 1 < s.cols) /\ c = at.c + 1 THEN -k
                             ELSE b.cells[at.r][c]] = row
    BY <1>2, <2>1 DEF ColsOf, RowWith
  <2>3. [b.cursor EXCEPT !.c = IF wide /\ at.c + 1 < s.cols THEN at.c + 2 ELSE at.c + 1] = cursor
    BY <1>4, <2>1 DEF Cursors
  <2> HIDE DEF row, cursor
  <2> QED
    BY <1>3, <2>2, <2>3
<1>9. /\ v \in Screens(b.rows) /\ v.rows = b.rows /\ v.cells = cells /\ v.cursor = cursor
      /\ v.saved = b.saved /\ v.top = b.top /\ v.bottom = b.bottom
      /\ v.scrollback = b.scrollback /\ v.snapshot = b.snapshot /\ v.view = b.view
  <2> HIDE DEF cells, cursor
  <2> QED
    BY <1>4, <1>6, <1>7 DEF Screens
<1> HIDE DEF v, cells, cursor
<1>10. Committed(v) = Committed(b)
  BY <1>9 DEF Committed, Hidden
<1>11. Writes(b, u, k, wide)
  <2>1. /\ u.cells = cells /\ u.cursor = cursor /\ u.saved = b.saved /\ u.rows = b.rows
        /\ u.top = b.top /\ u.bottom = b.bottom /\ u.scrollback = Committed(b) /\ Plainly(u)
    BY <1>8, <1>9, <1>10 DEF Mutated, Screens, Plainly
  <2> QED
    BY <2>1 DEF Writes, cells, cursor, row
<1>12. u \in Screens(b.rows)
  <2>1. Committed(b) \in Seq(Lines)
    BY <1>1, CommittedType
  <2>2. u = [v EXCEPT !.scrollback = Committed(b), !.snapshot = None, !.view = 0,
                      !.restore = None]
    BY <1>8, <1>10 DEF Mutated
  <2> HIDE DEF u
  <2> QED
    BY <1>9, <2>1, <2>2 DEF Screens
<1>13. Shaped(u)
  <2>1. Len(Committed(b)) <= MaxScrollback
    BY <1>1, CommittedType
  <2> HIDE DEF u
  <2> QED
    BY <1>1, <1>4, <1>11, <1>12, <2>1 DEF Shaped, Writes
<1>14. Mirrors(u)
  BY <1>11 DEF Mirrors, Plainly, Writes
<1> QED
  BY <1>11, <1>13, <1>14 DEF b

-----------------------------------------------------------------------------
(* Control sequences.                                                      *)
LEMMA CursorSet ==
  ASSUME NEW s, Shaped(s), Mirrors(s), NEW at \in Cursors, at.r < s.rows
  PROVE  LET u == [Forget(s) EXCEPT !.cursor = at] IN Shaped(u) /\ Mirrors(u)
<1> DEFINE u == [Forget(s) EXCEPT !.cursor = at]
<1>1. /\ u \in Screens(s.rows) /\ u.cells = s.cells /\ u.scrollback = s.scrollback
      /\ u.snapshot = s.snapshot /\ u.view = s.view /\ u.restore = None
      /\ u.cursor = at /\ u.saved = s.saved /\ u.top = s.top /\ u.bottom = s.bottom
  BY DEF Shaped, Screens, Forget
<1>2. s.top <= s.bottom /\ s.bottom < s.rows /\ (s.saved # None => s.saved.r < s.rows)
  BY DEF Shaped
<1> HIDE DEF u
<1>3. Shaped(u) /\ Mirrors(u)
  BY <1>1, <1>2, MovedType
<1> QED
  BY <1>3 DEF u

(* The parts of a cursor.                                                  *)
LEMMA CursorParts ==
  ASSUME NEW s, Shaped(s)
  PROVE  LET forgot == Forget(s) IN
         /\ s.rows \in Nat /\ s.rows > 0 /\ Cols \in Nat /\ Cols > 1
         /\ s.cols = Cols /\ forgot.cursor = s.cursor
         /\ s.cursor.r \in Nat /\ s.cursor.r < s.rows /\ s.cursor.c \in 0..Cols
         /\ s.cursor = [r |-> s.cursor.r, c |-> s.cursor.c]
<1>1. /\ s.rows \in Nat /\ s.rows > 0 /\ Cols \in Nat /\ Cols > 1 /\ s.cursor \in Cursors
      /\ s.cols = Cols /\ s.cursor.r < s.rows
  BY ViewAssumption DEF Shaped, Screens
<1>2. Forget(s).cursor = s.cursor
  BY DEF Forget, Shaped, Screens
<1> QED
  BY <1>1, <1>2 DEF Cursors

LEMMA CursorRow ==
  ASSUME NEW s, Shaped(s), Mirrors(s), NEW r \in Nat, r < s.rows
  PROVE  LET u == [Forget(s) EXCEPT !.cursor.r = r] IN Shaped(u) /\ Mirrors(u)
<1> DEFINE at == [r |-> r, c |-> s.cursor.c]
<1>1. at \in Cursors
  BY CursorParts DEF Cursors
<1>2. [Forget(s).cursor EXCEPT !.r = r] = at
  <2>1. Forget(s).cursor = [r |-> s.cursor.r, c |-> s.cursor.c]
    BY CursorParts
  <2> QED
    BY <2>1
<1>3. [Forget(s) EXCEPT !.cursor.r = r] = [Forget(s) EXCEPT !.cursor = at]
  BY <1>2
<1> HIDE DEF at
<1> QED
  BY <1>1, <1>3, CursorSet DEF at

LEMMA CursorColumn ==
  ASSUME NEW s, Shaped(s), Mirrors(s), NEW c \in 0..Cols
  PROVE  LET u == [Forget(s) EXCEPT !.cursor.c = c] IN Shaped(u) /\ Mirrors(u)
<1> DEFINE at == [r |-> s.cursor.r, c |-> c]
<1>1. at \in Cursors /\ at.r < s.rows
  BY CursorParts DEF Cursors
<1>2. [Forget(s).cursor EXCEPT !.c = c] = at
  <2>1. Forget(s).cursor = [r |-> s.cursor.r, c |-> s.cursor.c]
    BY CursorParts
  <2> QED
    BY <2>1
<1>3. [Forget(s) EXCEPT !.cursor.c = c] = [Forget(s) EXCEPT !.cursor = at]
  BY <1>2
<1> HIDE DEF at
<1> QED
  BY <1>1, <1>3, CursorSet

(* Cursor commands make a screen of a screen, and erasures do.             *)
LEMMA CursorType ==
  ASSUME Shaped(screen), Mirrors(screen), NEW u \in CursorCommands
  PROVE  Shaped(u) /\ Mirrors(u)
<1> DEFINE s == screen
           at == s.cursor
<1>0. /\ s.rows \in Nat /\ s.rows > 0 /\ Cols \in Nat /\ Cols > 1
      /\ s.cols = Cols /\ Forget(s).cursor = s.cursor
      /\ at.r \in Nat /\ at.r < s.rows /\ at.c \in 0..Cols
  BY CursorParts
<1>1. CASE u = CarriageReturn(s)
  BY <1>0, <1>1, CursorColumn DEF CarriageReturn
<1>2. CASE u = Backspace(s) \/ u = CursorLeft(s, 1)
  <2> DEFINE c == Max({0, at.c - 1})
  <2>1. c \in 0..Cols
    BY <1>0, MaxIs
  <2>2. u = [Forget(s) EXCEPT !.cursor.c = c]
    BY <1>0, <1>2 DEF Backspace, CursorLeft
  <2> HIDE DEF c
  <2> QED
    BY <2>1, <2>2, CursorColumn
<1>3. CASE u = CursorRight(s, 1)
  <2> DEFINE c == Min({s.cols - 1, at.c + 1})
  <2>1. c \in 0..Cols
    BY <1>0, MinIs
  <2>2. u = [Forget(s) EXCEPT !.cursor.c = c]
    BY <1>0, <1>3 DEF CursorRight
  <2> HIDE DEF c
  <2> QED
    BY <2>1, <2>2, CursorColumn
<1>4. CASE u = CursorUp(s, 1)
  <2> DEFINE r == Max({0, at.r - 1})
  <2>1. r \in Nat /\ r < s.rows
    BY <1>0, MaxIs
  <2>2. u = [Forget(s) EXCEPT !.cursor.r = r]
    BY <1>0, <1>4 DEF CursorUp
  <2> HIDE DEF r
  <2> QED
    BY <2>1, <2>2, CursorRow
<1>5. CASE u = CursorDown(s, 1)
  <2> DEFINE r == Min({s.rows - 1, at.r + 1})
  <2>1. r \in Nat /\ r < s.rows
    BY <1>0, MinIs
  <2>2. u = [Forget(s) EXCEPT !.cursor.r = r]
    BY <1>0, <1>5 DEF CursorDown
  <2> HIDE DEF r
  <2> QED
    BY <2>1, <2>2, CursorRow
<1>6. CASE u = SaveCursor(s)
  <2>1. /\ u \in Screens(s.rows) /\ u.cells = s.cells /\ u.scrollback = s.scrollback
        /\ u.snapshot = s.snapshot /\ u.view = s.view /\ u.restore = None
        /\ u.cursor = s.cursor /\ u.saved = s.cursor /\ u.top = s.top /\ u.bottom = s.bottom
    BY <1>6 DEF Shaped, Screens, Forget, SaveCursor
  <2>2. s.top <= s.bottom /\ s.bottom < s.rows
    BY DEF Shaped
  <2> QED
    BY <1>0, <2>1, <2>2, MovedType
<1>7. CASE u = RestoreCursor(s)
  <2>1. CASE s.saved = None
    BY <1>7, <2>1 DEF RestoreCursor
  <2>2. CASE s.saved # None
    <3>1. s.saved \in Cursors /\ s.saved.r < s.rows
      BY <2>2 DEF Shaped, Screens
    <3>2. u = [Forget(s) EXCEPT !.cursor = s.saved]
      BY <1>7, <2>2 DEF RestoreCursor
    <3> QED
      BY <3>1, <3>2, CursorSet
  <2> QED
    BY <2>1, <2>2
<1>8. ASSUME NEW r \in RowsOf(s), NEW c \in ColsOf(s), u = CursorTo(s, r, c)
      PROVE  Shaped(u) /\ Mirrors(u)
  <2> DEFINE to == [r |-> Clamp(r, 0, s.rows - 1), c |-> Clamp(c, 0, s.cols - 1)]
  <2>1. Clamp(r, 0, s.rows - 1) = r /\ Clamp(c, 0, s.cols - 1) = c
    BY <1>0, ClampIs DEF RowsOf, ColsOf
  <2>2. to \in Cursors /\ to.r < s.rows
    BY <1>0, <2>1 DEF Cursors, RowsOf, ColsOf
  <2>3. u = [Forget(s) EXCEPT !.cursor = to]
    BY <1>8 DEF CursorTo
  <2> HIDE DEF to
  <2> QED
    BY <2>2, <2>3, CursorSet
<1>9. ASSUME NEW a \in 0..1, NEW b \in RowsOf(s), u = SetRegion(s, a, b)
      PROVE  Shaped(u) /\ Mirrors(u)
  <2> DEFINE x == Clamp(a, 0, s.rows - 1)
             y == Clamp(b, 0, s.rows - 1)
             low == Min({x, y})
             high == Max({x, y})
  <2>1. x \in 0..(s.rows - 1) /\ y \in 0..(s.rows - 1)
    BY <1>0, ClampIs DEF RowsOf
  <2> HIDE DEF x, y
  <2>2. low \in Nat /\ high \in Nat /\ low <= high /\ high < s.rows
    BY <1>0, <2>1, MinIs, MaxIs
  <2>3. u = [Forget(s) EXCEPT !.top = low, !.bottom = high, !.cursor = [r |-> low, c |-> 0]]
    BY <1>9 DEF SetRegion, x, y
  <2> HIDE DEF low, high
  <2>4. [r |-> low, c |-> 0] \in Cursors
    BY <1>0, <2>2 DEF Cursors
  <2>5. /\ u \in Screens(s.rows) /\ u.cells = s.cells /\ u.scrollback = s.scrollback
        /\ u.snapshot = s.snapshot /\ u.view = s.view /\ u.restore = None
        /\ u.cursor = [r |-> low, c |-> 0] /\ u.saved = s.saved
        /\ u.top = low /\ u.bottom = high
    BY <2>2, <2>3, <2>4 DEF Shaped, Screens, Forget
  <2>6. s.saved # None => s.saved.r < s.rows
    BY DEF Shaped
  <2>7. u.cursor.r < s.rows /\ u.top <= u.bottom /\ u.bottom < s.rows
    BY <1>0, <2>2, <2>5
  <2>8. u.saved # None => u.saved.r < s.rows
    BY <2>5, <2>6
  <2> QED
    BY <2>5, <2>7, <2>8, MovedType
<1> QED
  BY <1>1, <1>2, <1>3, <1>4, <1>5, <1>6, <1>7, <1>8, <1>9 DEF CursorCommands

(* Erasing cells leaves the rest of the screen alone.                      *)
LEMMA EraseType ==
  ASSUME NEW s, Shaped(s), Mirrors(s), NEW set
  PROVE  LET u == Erase(s, set) IN Shaped(u) /\ Mirrors(u) /\ Plainly(u)
<1> DEFINE cells == [r \in RowsOf(s) |-> [c \in ColsOf(s) |->
                       IF <<r, c>> \in set THEN Blank ELSE s.cells[r][c]]]
           v == [s EXCEPT !.cells = cells]
           u == Erase(s, set)
<1>1. s.rows \in Nat /\ s.cols = Cols /\ Cols \in Nat /\ s.cells \in Grids(s.rows)
  BY ViewAssumption DEF Shaped, Screens
<1>2. cells \in Grids(s.rows)
  BY <1>1 DEF RowsOf, ColsOf, Grids, Blank
<1> HIDE DEF cells
<1>3. /\ v \in Screens(s.rows) /\ v.rows = s.rows /\ v.cursor = s.cursor
      /\ v.saved = s.saved /\ v.top = s.top /\ v.bottom = s.bottom
      /\ v.scrollback = s.scrollback /\ v.snapshot = s.snapshot /\ v.view = s.view
  BY <1>2 DEF Shaped, Screens
<1>4. Committed(v) = Committed(s)
  BY <1>3 DEF Committed, Hidden
<1>5. u = [v EXCEPT !.scrollback = Committed(s), !.snapshot = None, !.view = 0,
                    !.restore = None]
  BY <1>4 DEF Erase, Mutated, cells
<1>6. Committed(s) \in Seq(Lines) /\ Len(Committed(s)) <= MaxScrollback
  BY CommittedType
<1> HIDE DEF v, u
<1>7. /\ u \in Screens(s.rows) /\ u.rows = s.rows /\ u.cursor = s.cursor
      /\ u.saved = s.saved /\ u.top = s.top /\ u.bottom = s.bottom
      /\ u.scrollback = Committed(s) /\ Plainly(u)
  BY <1>3, <1>5, <1>6 DEF Screens, Plainly
<1>8. Shaped(u)
  BY <1>6, <1>7 DEF Shaped
<1>9. Mirrors(u)
  BY <1>7 DEF Mirrors, Plainly
<1> QED
  BY <1>7, <1>8, <1>9 DEF u

LEMMA ErasuresType ==
  ASSUME Shaped(screen), Mirrors(screen), NEW u \in Erasures
  PROVE  Shaped(u) /\ Mirrors(u) /\ Plainly(u)
<1>1. \E set : u = Erase(screen, set)
  BY DEF Erasures, EraseDisplay, EraseLine
<1> QED
  BY <1>1, EraseType

-----------------------------------------------------------------------------
(* A fit, by the names it gives to what it works with.                     *)
Snap(s, rows) == IF IsFirstShrink(s, rows) THEN NewSnapshot(s) ELSE s.snapshot
Rest(s, rows) == IF IsFirstShrink(s, rows) THEN NewRestore(s) ELSE s.restore
Starts(s, rows) == ViewStart(s, Snap(s, rows), Rest(s, rows), rows)
Shift(s, rows) ==
  IF Rest(s, rows) # None THEN Starts(s, rows)
  ELSE IF rows < s.rows THEN Starts(s, rows) - s.view ELSE 0
Old(s, rows) == IF Rest(s, rows) # None THEN Rest(s, rows) ELSE NewRestore(s)
From(s, rows) == IF Snap(s, rows) = None THEN s ELSE Snap(s, rows)
Done(s, rows) == Snap(s, rows) # None /\ rows >= Snap(s, rows).rows
RowAt(s, rows, r) == Clamp(r - Shift(s, rows), 0, rows - 1)
PlaceAt(s, rows, p) == [r |-> RowAt(s, rows, p.r), c |-> Min({p.c, Cols - 1})]
IsFull(s, rows) == Rest(s, rows) = None /\ s.top = 0 /\ s.bottom = s.rows - 1
TopAt(s, rows) == IF IsFull(s, rows) THEN 0 ELSE RowAt(s, rows, Old(s, rows).top)
(* Row r shows a row of the snapshot, or of the screen, or is blank.       *)
CellsAt(s, rows) ==
  [r \in 0..(rows - 1) |-> [c \in 0..(Cols - 1) |->
     IF Starts(s, rows) + r < From(s, rows).rows /\ c < From(s, rows).cols
     THEN From(s, rows).cells[Starts(s, rows) + r][c] ELSE Blank]]

(* What Resize makes of a screen, in these names.                          *)
Sized(s, rows, u) ==
  /\ u.cols = Cols /\ u.rows = rows /\ u.cells = CellsAt(s, rows)
  /\ u.cursor = PlaceAt(s, rows, Old(s, rows).cursor)
  /\ u.saved = IF Old(s, rows).saved = None THEN None ELSE PlaceAt(s, rows, Old(s, rows).saved)
  /\ u.top = TopAt(s, rows)
  /\ u.bottom = IF IsFull(s, rows) THEN rows - 1
                ELSE Max({TopAt(s, rows), RowAt(s, rows, Old(s, rows).bottom)})
  /\ u.scrollback = s.scrollback
  /\ u.snapshot = IF Done(s, rows) THEN None ELSE Snap(s, rows)
  /\ u.view = IF Done(s, rows) THEN 0 ELSE Starts(s, rows)
  /\ u.restore = IF Done(s, rows) THEN None ELSE Rest(s, rows)

(* Resize makes such a screen.                                             *)
LEMMA ResizeIs ==
  ASSUME NEW s, NEW rows, s.cols = Cols, rows # s.rows, NEW u, u = Resize(s, Cols, rows)
  PROVE  Sized(s, rows, u)
<1>1. u = [cols |-> Cols, rows |-> rows, cells |-> CellsAt(s, rows),
           cursor |-> PlaceAt(s, rows, Old(s, rows).cursor),
           saved |-> IF Old(s, rows).saved = None THEN None
                     ELSE PlaceAt(s, rows, Old(s, rows).saved),
           top |-> TopAt(s, rows),
           bottom |-> IF IsFull(s, rows) THEN rows - 1
                      ELSE Max({TopAt(s, rows), RowAt(s, rows, Old(s, rows).bottom)}),
           scrollback |-> s.scrollback,
           snapshot |-> IF Done(s, rows) THEN None ELSE Snap(s, rows),
           view     |-> IF Done(s, rows) THEN 0 ELSE Starts(s, rows),
           restore  |-> IF Done(s, rows) THEN None ELSE Rest(s, rows)]
  <2>1. ~(Cols = s.cols /\ rows = s.rows)
    OBVIOUS
  <2>2. (IF Snap(s, rows) = None THEN 0 ELSE Starts(s, rows)) = Starts(s, rows)
    BY DEF Starts, ViewStart
  <2> QED
    BY <2>1, <2>2, ZenonT(60) DEF Resize, Snap, Rest, Starts, Shift, Old, From, Done, RowAt, PlaceAt,
                      IsFull, TopAt, CellsAt
<1> QED
  BY <1>1 DEF Sized

(* What it works with.                                                     *)
LEMMA SnapIs ==
  ASSUME NEW s, Shaped(s), Mirrors(s), NEW rows \in Heights, rows # s.rows
  PROVE  /\ rows \in Nat /\ rows > 0 /\ s.rows \in Nat /\ s.view \in Nat /\ s.cols = Cols
         /\ Rest(s, rows) \in {None} \cup Restores /\ Old(s, rows) \in Restores
         /\ Snap(s, rows) = None => rows > s.rows /\ Rest(s, rows) = None /\ s.snapshot = None
         /\ Snap(s, rows) # None =>
              /\ \E m \in Heights : Snap(s, rows) \in Snapshots(m)
              /\ Snap(s, rows).rows \in Nat
              /\ s.view + s.rows <= Snap(s, rows).rows
              /\ Snap(s, rows).insertAt = Len(s.scrollback)
              /\ \A r \in RowsOf(s) : s.cells[r] = Snap(s, rows).cells[s.view + r]
         /\ NewSnapshot(s) # None /\ NewRestore(s) # None
<1>1. /\ rows \in Nat /\ rows > 0 /\ s.rows \in Nat /\ s.rows \in Heights /\ s.view \in Nat
      /\ s.cols = Cols /\ s.restore \in {None} \cup Restores /\ s.cells \in Grids(s.rows)
      /\ s.scrollback \in Seq(Lines)
  BY ViewAssumption DEF Shaped, Screens
<1>2. NewRestore(s) \in Restores
  BY DEF Shaped, Screens, NewRestore, Restores
<1>3. NewSnapshot(s) \in Snapshots(s.rows)
  BY <1>1 DEF NewSnapshot, Snapshots
<1>4. NewSnapshot(s) # None /\ NewRestore(s) # None
  BY ViewAssumption, <1>1, <1>2, <1>3
<1>5. CASE IsFirstShrink(s, rows)
  <2>1. /\ Snap(s, rows) = NewSnapshot(s) /\ Rest(s, rows) = NewRestore(s)
        /\ Old(s, rows) = NewRestore(s)
    BY <1>4, <1>5 DEF Snap, Rest, Old
  <2>2. s.view = 0
    BY <1>5 DEF IsFirstShrink, Mirrors
  <2>3. /\ NewSnapshot(s).rows = s.rows /\ NewSnapshot(s).cells = s.cells
        /\ NewSnapshot(s).insertAt = Len(s.scrollback)
    BY DEF NewSnapshot
  <2>4. \A r \in RowsOf(s) : s.view + r = r
    BY <1>1, <2>2 DEF RowsOf
  <2> QED
    BY <1>1, <1>2, <1>3, <1>4, <2>1, <2>2, <2>3, <2>4
<1>6. CASE ~IsFirstShrink(s, rows)
  <2>1. /\ Snap(s, rows) = s.snapshot /\ Rest(s, rows) = s.restore
        /\ Old(s, rows) = IF s.restore # None THEN s.restore ELSE NewRestore(s)
    BY <1>6 DEF Snap, Rest, Old
  <2>2. CASE s.snapshot = None
    <3>1. rows > s.rows /\ s.restore = None
      BY <1>1, <1>6, <2>2 DEF IsFirstShrink, Mirrors
    <3> QED
      BY <1>1, <1>2, <1>4, <2>1, <2>2, <3>1
  <2>3. CASE s.snapshot # None
    <3>1. PICK m \in Heights : s.snapshot \in Snapshots(m)
      BY <2>3 DEF Shaped, Screens
    <3>2. s.snapshot.rows \in Nat
      BY ViewAssumption, <3>1 DEF Snapshots
    <3>3. /\ s.view + s.rows <= s.snapshot.rows
          /\ s.snapshot.insertAt = Len(s.scrollback)
          /\ \A r \in RowsOf(s) : s.cells[r] = s.snapshot.cells[s.view + r]
      BY <2>3 DEF Mirrors
    <3> QED
      BY <1>1, <1>2, <1>4, <2>1, <2>3, <3>1, <3>2, <3>3
  <2> QED
    BY <2>2, <2>3
<1> QED
  BY <1>5, <1>6

(* The first row that is shown, and how far what is remembered goes up.    *)
LEMMA StartsIs ==
  ASSUME NEW s, Shaped(s), Mirrors(s), NEW rows \in Heights, rows # s.rows
  PROVE  LET n == Snap(s, rows).rows
             v == Starts(s, rows)
             r == Rest(s, rows).cursor.r
             k == r - rows + 1
             c == s.cursor.r - rows + 1
         IN  /\ v \in Nat
             /\ Snap(s, rows) = None \/ rows >= n => v = 0
             /\ Snap(s, rows) # None /\ rows < n =>
                  /\ v + rows <= n
                  /\ Rest(s, rows) # None =>
                       v = IF k < 0 THEN 0 ELSE IF k > n - rows THEN n - rows ELSE k
                  /\ Rest(s, rows) = None /\ rows < s.rows =>
                       v = s.view + IF c < 0 THEN 0 ELSE c
                  /\ Rest(s, rows) = None /\ rows > s.rows =>
                       v = IF s.view <= n - rows THEN s.view ELSE n - rows
             /\ Shift(s, rows) = IF Rest(s, rows) # None THEN v
                                 ELSE IF rows < s.rows THEN v - s.view ELSE 0
             /\ Shift(s, rows) \in Nat /\ Shift(s, rows) <= v
<1> DEFINE snap == Snap(s, rows)
           rest == Rest(s, rows)
           n == snap.rows
           v == Starts(s, rows)
           k == rest.cursor.r - rows + 1
           c == s.cursor.r - rows + 1
           up == IF c < 0 THEN 0 ELSE c
<1>1. /\ rows \in Nat /\ rows > 0 /\ s.rows \in Nat /\ s.view \in Nat
      /\ snap = None => rows > s.rows /\ rest = None
      /\ snap # None => n \in Nat /\ s.view + s.rows <= n
      /\ rest \in {None} \cup Restores
  BY SnapIs
<1>2. /\ s.cursor.r \in Nat /\ s.cursor.r < s.rows
      /\ rest # None => rest.cursor.r \in Nat
  <2>1. s.cursor \in Cursors /\ s.cursor.r < s.rows
    BY DEF Shaped, Screens
  <2>2. rest # None => rest.cursor \in Cursors
    BY <1>1 DEF Restores
  <2> HIDE DEF rest
  <2> QED
    BY <2>1, <2>2 DEF Cursors
<1>3. v = IF snap = None \/ rows >= n THEN 0
          ELSE IF rest # None THEN Clamp(k, 0, n - rows)
          ELSE IF rows < s.rows
          THEN Min({n - rows, s.view + Clamp(c, 0, s.rows - rows)})
          ELSE Min({s.view, n - rows})
  BY DEF Starts, ViewStart
<1> HIDE DEF v, snap, rest
<1>4. ASSUME snap # None, rows < n, rest # None
      PROVE  v = IF k < 0 THEN 0 ELSE IF k > n - rows THEN n - rows ELSE k
  <2>1. v = Clamp(k, 0, n - rows)
    BY <1>1, <1>3, <1>4
  <2>2. k \in Int /\ n - rows \in Nat
    BY <1>1, <1>2, <1>4
  <2> HIDE DEF k, n
  <2> QED
    BY <2>1, <2>2, ClampIs
<1>5. ASSUME snap # None, rows < n, rest = None, rows < s.rows
      PROVE  v = s.view + up
  <2>1. v = Min({n - rows, s.view + Clamp(c, 0, s.rows - rows)})
    BY <1>1, <1>3, <1>5
  <2>2. c \in Int /\ s.rows - rows \in Nat /\ c <= s.rows - rows
    BY <1>1, <1>2, <1>5
  <2>3. Clamp(c, 0, s.rows - rows) = up
    <3> HIDE DEF c
    <3> QED
      BY <2>2, ClampIs
  <2>4. s.view + up \in Int /\ n - rows \in Int /\ s.view + up <= n - rows
    BY <1>1, <1>5, <2>2
  <2> HIDE DEF n, c, up
  <2> QED
    BY <2>1, <2>3, <2>4, MinIs
<1>6. ASSUME snap # None, rows < n, rest = None, rows > s.rows
      PROVE  v = IF s.view <= n - rows THEN s.view ELSE n - rows
  <2>1. v = Min({s.view, n - rows})
    BY <1>1, <1>3, <1>6
  <2>2. s.view \in Int /\ n - rows \in Int
    BY <1>1, <1>6
  <2> HIDE DEF n
  <2> QED
    BY <2>1, <2>2, MinIs
<1>7. snap = None \/ rows >= n => v = 0
  BY <1>3
<1>8. /\ v \in Nat
      /\ snap # None /\ rows < n => v + rows <= n
      /\ rest = None /\ rows < s.rows => v >= s.view
  BY <1>1, <1>2, <1>4, <1>5, <1>6, <1>7
<1>9. Shift(s, rows) = IF rest # None THEN v ELSE IF rows < s.rows THEN v - s.view ELSE 0
  BY DEF Shift, v, rest
<1>10. Shift(s, rows) \in Nat /\ Shift(s, rows) <= v
  BY <1>1, <1>8, <1>9
<1> QED
  BY <1>4, <1>5, <1>6, <1>7, <1>8, <1>9, <1>10 DEF v, snap, rest

(* Where a remembered place goes: it is on the screen, and stays where it  *)
(* is when nothing is hidden above it.                                     *)
LEMMA RowAtIs ==
  ASSUME NEW s, Shaped(s), Mirrors(s), NEW rows \in Heights, rows # s.rows,
         NEW r \in Nat
  PROVE  LET to == r - Shift(s, rows) IN
         /\ RowAt(s, rows, r) = IF to < 0 THEN 0 ELSE IF to > rows - 1 THEN rows - 1 ELSE to
         /\ RowAt(s, rows, r) \in Nat /\ RowAt(s, rows, r) < rows
<1> DEFINE to == r - Shift(s, rows)
<1>1. rows \in Nat /\ rows > 0 /\ Shift(s, rows) \in Nat
  BY SnapIs, StartsIs
<1>2. to \in Int /\ rows - 1 \in Nat
  BY <1>1
<1>3. RowAt(s, rows, r) = Clamp(to, 0, rows - 1)
  BY DEF RowAt
<1> HIDE DEF to
<1>4. RowAt(s, rows, r) = IF to < 0 THEN 0 ELSE IF to > rows - 1 THEN rows - 1 ELSE to
  BY <1>2, <1>3, ClampIs
<1> QED
  BY <1>1, <1>2, <1>4 DEF to

LEMMA PlaceAtIs ==
  ASSUME NEW s, Shaped(s), Mirrors(s), NEW rows \in Heights, rows # s.rows,
         NEW p \in Cursors
  PROVE  LET q == PlaceAt(s, rows, p) IN
         /\ q \in Cursors /\ q.r = RowAt(s, rows, p.r) /\ q.r < rows
         /\ q.c = IF p.c <= Cols - 1 THEN p.c ELSE Cols - 1
<1>1. p.r \in Nat /\ p.c \in 0..Cols /\ Cols \in Nat /\ Cols > 1
  BY ViewAssumption DEF Cursors
<1>2. Min({p.c, Cols - 1}) = IF p.c <= Cols - 1 THEN p.c ELSE Cols - 1
  BY <1>1, MinIs
<1>3. RowAt(s, rows, p.r) \in Nat /\ RowAt(s, rows, p.r) < rows
  BY <1>1, RowAtIs
<1>4. Min({p.c, Cols - 1}) \in 0..Cols
  BY <1>1, <1>2
<1> QED
  BY <1>2, <1>3, <1>4 DEF PlaceAt, Cursors

(* The cells a fit shows are a grid.                                       *)
LEMMA CellsAtIs ==
  ASSUME NEW s, Shaped(s), Mirrors(s), NEW rows \in Heights, rows # s.rows
  PROVE  /\ CellsAt(s, rows) \in Grids(rows)
         /\ From(s, rows).rows \in Nat
         /\ \A r \in 0..(rows - 1) :
              CellsAt(s, rows)[r] = IF Starts(s, rows) + r < From(s, rows).rows
                                    THEN From(s, rows).cells[Starts(s, rows) + r]
                                    ELSE BlankRow(Cols)
<1> DEFINE from == From(s, rows)
           v == Starts(s, rows)
<1>1. \E m \in Nat : from.rows = m /\ from.cols = Cols /\ from.cells \in Grids(m)
  <2>1. CASE Snap(s, rows) = None
    BY ViewAssumption, <2>1 DEF From, Shaped, Screens
  <2>2. CASE Snap(s, rows) # None
    <3>1. PICK m \in Heights : Snap(s, rows) \in Snapshots(m)
      BY <2>2, SnapIs
    <3>2. from = Snap(s, rows)
      BY <2>2 DEF From
    <3> QED
      BY ViewAssumption, <3>1, <3>2 DEF Snapshots
  <2> QED
    BY <2>1, <2>2
<1>2. PICK m \in Nat : from.rows = m /\ from.cols = Cols /\ from.cells \in Grids(m)
  BY <1>1
<1>3. v \in Nat /\ rows \in Nat /\ Cols \in Nat
  BY ViewAssumption, StartsIs, SnapIs
<1>4. CellsAt(s, rows) = [r \in 0..(rows - 1) |-> [c \in 0..(Cols - 1) |->
                            IF v + r < from.rows /\ c < from.cols
                            THEN from.cells[v + r][c] ELSE Blank]]
  BY DEF CellsAt
<1> HIDE DEF from, v
<1>5. ASSUME NEW r \in 0..(rows - 1)
      PROVE  /\ CellsAt(s, rows)[r] = IF v + r < from.rows THEN from.cells[v + r] ELSE BlankRow(Cols)
             /\ CellsAt(s, rows)[r] \in [0..(Cols - 1) -> Int]
  <2>1. CellsAt(s, rows)[r] = [c \in 0..(Cols - 1) |->
                                 IF v + r < from.rows /\ c < from.cols
                                 THEN from.cells[v + r][c] ELSE Blank]
    BY <1>4
  <2>2. CASE v + r < from.rows
    <3>1. v + r \in 0..(m - 1)
      BY <1>2, <1>3, <2>2
    <3>2. from.cells[v + r] \in [0..(Cols - 1) -> Int]
      BY <1>2, <3>1 DEF Grids
    <3>3. \A c \in 0..(Cols - 1) : c < from.cols
      BY <1>2, <1>3
    <3> QED
      BY <2>1, <2>2, <3>2, <3>3
  <2>3. CASE ~(v + r < from.rows)
    <3>1. BlankRow(Cols) \in [0..(Cols - 1) -> Int]
      BY DEF BlankRow, Blank
    <3> QED
      BY <2>1, <2>3, <3>1 DEF BlankRow
  <2> QED
    BY <2>2, <2>3
<1>6. CellsAt(s, rows) \in Grids(rows)
  BY <1>4, <1>5 DEF Grids
<1> QED
  BY <1>2, <1>5, <1>6 DEF from, v

(* A fit makes a screen of a screen, which shows the snapshot's rows.      *)
LEMMA ResizeType ==
  ASSUME NEW s, Shaped(s), Mirrors(s), NEW rows \in Heights, rows # s.rows
  PROVE  LET u == Resize(s, Cols, rows) IN
         Shaped(u) /\ Mirrors(u) /\ Sized(s, rows, u)
<1> DEFINE u == Resize(s, Cols, rows)
           old == Old(s, rows)
           snap == Snap(s, rows)
<1>1. /\ rows \in Nat /\ rows > 0 /\ old \in Restores /\ s.cols = Cols
      /\ Rest(s, rows) \in {None} \cup Restores
      /\ snap # None => \E m \in Heights : snap \in Snapshots(m)
  BY SnapIs
<1>2. Sized(s, rows, u)
  BY <1>1, ResizeIs
<1>3. /\ u.cells \in Grids(rows) /\ u.cursor \in Cursors /\ u.cursor.r < rows
      /\ u.saved \in Cursors \cup {None}
      /\ u.saved # None => u.saved.r < rows
  <2>1. /\ u.cells = CellsAt(s, rows) /\ u.cursor = PlaceAt(s, rows, old.cursor)
        /\ u.saved = IF old.saved = None THEN None ELSE PlaceAt(s, rows, old.saved)
    BY <1>2 DEF Sized
  <2>2. old.cursor \in Cursors /\ old.saved \in Cursors \cup {None}
    BY <1>1 DEF Restores
  <2> HIDE DEF u, old
  <2>3. CASE old.saved = None
    BY <2>1, <2>2, <2>3, CellsAtIs, PlaceAtIs
  <2>4. CASE old.saved # None
    BY <2>1, <2>2, <2>4, CellsAtIs, PlaceAtIs
  <2> QED
    BY <2>3, <2>4
<1>4. u.top \in Nat /\ u.bottom \in Nat /\ u.top <= u.bottom /\ u.bottom < rows
  <2>1. old.top \in Nat /\ old.bottom \in Nat
    BY <1>1 DEF Restores
  <2> DEFINE t == RowAt(s, rows, old.top)
             b == RowAt(s, rows, old.bottom)
  <2>2. t \in Nat /\ t < rows /\ b \in Nat /\ b < rows
    BY <2>1, RowAtIs
  <2>3. CASE IsFull(s, rows)
    BY <1>1, <1>2, <2>3 DEF Sized, TopAt
  <2>4. CASE ~IsFull(s, rows)
    <3>1. u.top = t /\ u.bottom = Max({t, b})
      BY <1>2, <2>4 DEF Sized, TopAt
    <3> HIDE DEF t, b, u
    <3>2. u.bottom = IF t >= b THEN t ELSE b
      BY <2>2, <3>1, MaxIs
    <3> QED
      BY <2>2, <3>1, <3>2
  <2> QED
    BY <2>3, <2>4
<1>5. u \in Screens(rows)
  <2>1. u.scrollback \in Seq(Lines)
    BY <1>2 DEF Sized, Shaped, Screens
  <2>2. u.view \in Nat
    BY <1>2, StartsIs DEF Sized
  <2>3. u.restore \in {None} \cup Restores
    BY <1>1, <1>2 DEF Sized
  <2>4. u.snapshot \in {None} \cup UNION {Snapshots(m) : m \in Heights}
    BY <1>1, <1>2 DEF Sized
  <2>5. u.cols = Cols /\ u.rows = rows
    BY <1>2 DEF Sized
  <2>6. u = [cols |-> u.cols, rows |-> u.rows, cells |-> u.cells, cursor |-> u.cursor,
             saved |-> u.saved, top |-> u.top, bottom |-> u.bottom,
             scrollback |-> u.scrollback, snapshot |-> u.snapshot, view |-> u.view,
             restore |-> u.restore]
    BY <1>1 DEF Resize
  <2> HIDE DEF u
  <2> QED
    BY <1>3, <1>4, <2>1, <2>2, <2>3, <2>4, <2>5, <2>6 DEF Screens
<1>6. Shaped(u)
  <2>1. u.rows = rows /\ Len(u.scrollback) <= MaxScrollback
    BY <1>2 DEF Sized, Shaped
  <2> HIDE DEF u
  <2> QED
    BY <1>3, <1>4, <1>5, <2>1 DEF Shaped
<1>7. Mirrors(u)
  <2>1. CASE Done(s, rows)
    BY <1>2, <2>1 DEF Sized, Mirrors
  <2>2. CASE ~Done(s, rows) /\ snap = None
    <3>1. Starts(s, rows) = 0 /\ Rest(s, rows) = None
      BY <2>2, SnapIs, StartsIs
    <3> QED
      BY <1>2, <2>2, <3>1 DEF Sized, Mirrors
  <2>3. CASE ~Done(s, rows) /\ snap # None
    <3>1. /\ u.snapshot = snap /\ u.view = Starts(s, rows) /\ u.rows = rows
          /\ u.cells = CellsAt(s, rows) /\ u.scrollback = s.scrollback
      BY <1>2, <2>3 DEF Sized
    <3>2. snap.rows \in Nat /\ rows < snap.rows
      BY <1>1, <2>3, SnapIs DEF Done
    <3>3. u.view \in Nat /\ u.view + rows <= snap.rows
      BY <2>3, <3>1, <3>2, StartsIs
    <3>4. snap.insertAt = Len(u.scrollback)
      BY <2>3, <3>1, SnapIs
    <3>5. \A r \in 0..(rows - 1) : u.cells[r] = snap.cells[u.view + r]
      <4>1. From(s, rows) = snap
        BY <2>3 DEF From
      <4>2. \A r \in 0..(rows - 1) : u.view + r < snap.rows
        BY <1>1, <3>2, <3>3
      <4> HIDE DEF snap, u
      <4> QED
        BY <3>1, <4>1, <4>2, CellsAtIs
    <3> HIDE DEF snap, u
    <3> QED
      BY <2>3, <3>1, <3>2, <3>3, <3>4, <3>5 DEF Mirrors, RowsOf
  <2> QED
    BY <2>1, <2>2, <2>3
<1> QED
  BY <1>2, <1>6, <1>7

-----------------------------------------------------------------------------
(* The screen is one of the class, and the history has its types.          *)
TypeOK ==
  /\ Shaped(screen) /\ Mirrors(screen)
  /\ next \in Nat \ {0} /\ commands \in Nat
  /\ appended \in BOOLEAN /\ setBack \in BOOLEAN /\ still \in BOOLEAN

(* The snapshot is of the screen before, and what is to be restored too.   *)
BeforeInv ==
  /\ before = None <=> screen.snapshot = None
  /\ before # None =>
       /\ Shaped(before) /\ Mirrors(before) /\ before.snapshot = None
       /\ screen.snapshot = NewSnapshot(before)
       /\ screen.restore \in {None, NewRestore(before)}
       /\ still => screen.restore # None

(* A new screen is one of the class, with or without the scrollback of the *)
(* one before.                                                             *)
LEMMA NewScreenType ==
  ASSUME NEW rows \in Heights, NEW lines \in Seq(Lines),
         Len(lines) <= MaxScrollback
  PROVE  LET u == [NewScreen(Cols, rows) EXCEPT !.scrollback = lines] IN
         Shaped(u) /\ Mirrors(u) /\ Plainly(u) /\ u.rows = rows
<1> DEFINE u == [NewScreen(Cols, rows) EXCEPT !.scrollback = lines]
<1>1. rows \in Nat /\ rows > 0 /\ Cols \in Nat
  BY ViewAssumption
<1>2. BlankGrid(Cols, rows) \in Grids(rows) /\ [r |-> 0, c |-> 0] \in Cursors
  BY <1>1 DEF BlankGrid, BlankRow, Blank, Grids, Cursors
<1>3. u = [cols |-> Cols, rows |-> rows, cells |-> BlankGrid(Cols, rows),
           cursor |-> [r |-> 0, c |-> 0], saved |-> None,
           top |-> 0, bottom |-> rows - 1,
           scrollback |-> lines,
           snapshot |-> None, view |-> 0, restore |-> None]
  BY SMTT(30) DEF NewScreen
<1>4. u \in Screens(rows)
  BY <1>1, <1>2, <1>3 DEF Screens
<1>5. Shaped(u)
  BY <1>1, <1>3, <1>4 DEF Shaped
<1>6. Mirrors(u) /\ Plainly(u) /\ u.rows = rows
  BY <1>3 DEF Mirrors, Plainly
<1> QED
  BY <1>5, <1>6

LEMMA FreshType ==
  ASSUME NEW rows \in Heights
  PROVE  LET u == NewScreen(Cols, rows) IN
         Shaped(u) /\ Mirrors(u) /\ Plainly(u) /\ u.rows = rows /\ u.scrollback = <<>>
<1>1. NewScreen(Cols, rows) = [NewScreen(Cols, rows) EXCEPT !.scrollback = <<>>]
  BY DEF NewScreen
<1>2. <<>> \in Seq(Lines) /\ Len(<<>>) <= MaxScrollback
  BY ViewAssumption
<1>3. NewScreen(Cols, rows).scrollback = <<>>
  BY DEF NewScreen
<1> QED
  BY <1>1, <1>2, <1>3, NewScreenType

(* A snapshot that outlives what is written is the one of before.          *)
Outlives(s, u) ==
  u.snapshot # None => u.snapshot = s.snapshot /\ u.restore \in {None, s.restore}

(* Every action keeps the types; those that write drop the snapshot or     *)
(* keep the one of before.                                                 *)
LEMMA TextType ==
  ASSUME TypeOK, Text
  PROVE  Shaped(screen') /\ Mirrors(screen') /\ screen'.snapshot = None
<1>1. PICK wide \in BOOLEAN : screen' = Put(screen, next, wide)
  BY DEF Text, Write
<1>2. Shaped(screen) /\ Mirrors(screen) /\ next \in Nat
  BY DEF TypeOK
<1>3. /\ Shaped(screen') /\ Mirrors(screen')
      /\ Writes(Wrapped(screen, wide), screen', next, wide)
  BY <1>1, <1>2, PutType
<1> QED
  BY <1>3 DEF Writes, Plainly

LEMMA NewLineType ==
  ASSUME TypeOK, NewLine
  PROVE  Shaped(screen') /\ Mirrors(screen') /\ Outlives(screen, screen')
<1>1. screen' = LineFeed(screen) /\ Shaped(screen) /\ Mirrors(screen)
  BY DEF NewLine, Write, TypeOK
<1>2. Shaped(screen') /\ Mirrors(screen')
  BY <1>1, LineFeedType
<1>3. Descends(screen, screen') \/ Scrolls(screen, screen')
  BY <1>1, LineFeedType
<1>4. Outlives(screen, screen')
  BY <1>3 DEF Descends, Scrolls, Plainly, Outlives
<1> QED
  BY <1>2, <1>4

(* And the number of rows stays.                                           *)
Keeps(s, u) == Outlives(s, u) /\ u.rows = s.rows

(* Cursor commands keep what was to be restored or forget it.              *)
LEMMA CursorKeeps ==
  ASSUME Shaped(screen), NEW u \in CursorCommands
  PROVE  Keeps(screen, u)
<1> DEFINE f == Forget(screen)
<1>1. /\ f \in Screens(screen.rows) /\ screen \in Screens(screen.rows)
      /\ f.snapshot = screen.snapshot /\ f.restore = None /\ f.rows = screen.rows
  BY DEF Forget, Shaped, Screens
<1> HIDE DEF f
<1>2. ASSUME NEW v, v.snapshot = f.snapshot, v.restore = f.restore /\ v.rows = f.rows
      PROVE  Keeps(screen, v)
  BY <1>1, <1>2 DEF Keeps, Outlives
<1>3. \A at : LET v == [f EXCEPT !.cursor = at] IN v.snapshot = f.snapshot /\ v.restore = f.restore /\ v.rows = f.rows
  BY <1>1 DEF Screens
<1>4. \A at : Keeps(screen, [f EXCEPT !.cursor = at])
  BY <1>2, <1>3
<1>5. \A at, a, b : Keeps(screen, [f EXCEPT !.top = a, !.bottom = b, !.cursor = at])
  <2>1. \A at, a, b : LET v == [f EXCEPT !.top = a, !.bottom = b, !.cursor = at]
                      IN  v.snapshot = f.snapshot /\ v.restore = f.restore /\ v.rows = f.rows
    BY <1>1 DEF Screens
  <2> TAKE at, a, b
  <2> DEFINE v == [f EXCEPT !.top = a, !.bottom = b, !.cursor = at]
  <2>2. v.snapshot = f.snapshot /\ v.restore = f.restore /\ v.rows = f.rows
    BY <2>1
  <2> HIDE DEF v
  <2>3. Keeps(screen, v)
    BY <1>2, <2>2
  <2> QED
    BY <2>3 DEF v
<1>6. \A at : Keeps(screen, [f EXCEPT !.saved = at])
  <2>1. \A at : LET v == [f EXCEPT !.saved = at] IN v.snapshot = f.snapshot /\ v.restore = f.restore /\ v.rows = f.rows
    BY <1>1 DEF Screens
  <2> QED
    BY <1>2, <2>1
<1>7. Keeps(screen, screen)
  BY DEF Keeps, Outlives
<1>8. CASE u \in {SaveCursor(screen), RestoreCursor(screen)}
  BY <1>4, <1>6, <1>7, <1>8 DEF SaveCursor, RestoreCursor, f
<1>9. CASE \E a \in 0..1, b \in RowsOf(screen) : u = SetRegion(screen, a, b)
  <2>1. PICK a \in 0..1, b \in RowsOf(screen) : u = SetRegion(screen, a, b)
    BY <1>9
  <2>2. \E at, x, y : u = [f EXCEPT !.top = x, !.bottom = y, !.cursor = at]
    BY <2>1 DEF SetRegion, f
  <2>3. PICK at, x, y : u = [f EXCEPT !.top = x, !.bottom = y, !.cursor = at]
    BY <2>2
  <2>4. Keeps(screen, [f EXCEPT !.top = x, !.bottom = y, !.cursor = at])
    BY <1>5, Zenon
  <2> QED
    BY <2>3, <2>4
<1>10. CASE \E r \in RowsOf(screen), c \in ColsOf(screen) : u = CursorTo(screen, r, c)
  BY <1>4, <1>10 DEF CursorTo, f
<1>11. CASE u \in {CarriageReturn(screen), Backspace(screen), CursorUp(screen, 1),
                   CursorDown(screen, 1), CursorRight(screen, 1), CursorLeft(screen, 1)}
  <2>1. \E x : u = [f EXCEPT !.cursor.r = x] \/ u = [f EXCEPT !.cursor.c = x]
    BY <1>11 DEF CarriageReturn, Backspace, CursorUp, CursorDown, CursorRight, CursorLeft, f
  <2>2. \E at : u = [f EXCEPT !.cursor = at]
    BY <2>1
  <2> QED
    BY <1>4, <2>2
<1> QED
  BY <1>8, <1>9, <1>10, <1>11 DEF CursorCommands

LEMMA ControlType ==
  ASSUME TypeOK, Control
  PROVE  Shaped(screen') /\ Mirrors(screen') /\ Outlives(screen, screen')
<1>1. screen' \in CursorCommands \cup Erasures /\ Shaped(screen) /\ Mirrors(screen)
  BY DEF Control, Write, TypeOK
<1>2. CASE screen' \in CursorCommands
  BY <1>1, <1>2, CursorType, CursorKeeps DEF Keeps
<1>3. CASE screen' \in Erasures
  <2>1. Shaped(screen') /\ Mirrors(screen') /\ Plainly(screen')
    BY <1>1, <1>3, ErasuresType
  <2> QED
    BY <2>1 DEF Plainly, Outlives
<1> QED
  BY <1>1, <1>2, <1>3

(* What the echo writes before the line feed.                              *)
LEMMA EchoIs ==
  ASSUME TypeOK
  PROVE  LET put == Put(screen, next, FALSE)
             back == CarriageReturn(put)
         IN  /\ Shaped(put) /\ Mirrors(put) /\ Writes(Wrapped(screen, FALSE), put, next, FALSE)
             /\ Shaped(back) /\ Mirrors(back) /\ Plainly(back)
             /\ back = [put EXCEPT !.cursor = [r |-> put.cursor.r, c |-> 0]]
<1> DEFINE put == Put(screen, next, FALSE)
           back == CarriageReturn(put)
<1>1. Shaped(put) /\ Mirrors(put) /\ Writes(Wrapped(screen, FALSE), put, next, FALSE)
  BY PutType DEF TypeOK
<1>2. put.restore = None /\ put.snapshot = None /\ put.view = 0
  BY <1>1 DEF Writes, Plainly
<1> HIDE DEF put
<1>3. Forget(put) = put
  <2>1. put \in Screens(put.rows)
    BY <1>1 DEF Shaped
  <2> QED
    BY <1>2, <2>1 DEF Forget, Screens
<1>4. put.cursor = [r |-> put.cursor.r, c |-> put.cursor.c] /\ Cols \in Nat
  BY <1>1, CursorParts
<1>5. back = [put EXCEPT !.cursor = [r |-> put.cursor.r, c |-> 0]]
  <2>1. [put.cursor EXCEPT !.c = 0] = [r |-> put.cursor.r, c |-> 0]
    BY <1>4
  <2> QED
    BY <1>3, <2>1 DEF CarriageReturn
<1>6. Shaped(back) /\ Mirrors(back)
  <2>1. back = [Forget(put) EXCEPT !.cursor.c = 0]
    BY DEF CarriageReturn
  <2>2. 0 \in 0..Cols
    BY <1>4
  <2> QED
    BY <1>1, <2>1, <2>2, CursorColumn
<1>7. Plainly(back)
  BY <1>1, <1>2, <1>5 DEF Plainly, Shaped, Screens
<1> QED
  BY <1>1, <1>5, <1>6, <1>7 DEF put

(* The echo, a new character set, another connection and a fit keep the    *)
(* types.                                                                  *)
LEMMA EchoType ==
  ASSUME TypeOK, LocalEcho
  PROVE  Shaped(screen') /\ Mirrors(screen') /\ screen'.snapshot = None
<1> DEFINE back == CarriageReturn(Put(screen, next, FALSE))
<1>1. screen' = LineFeed(back)
  BY DEF LocalEcho, Write
<1>2. Shaped(back) /\ Mirrors(back) /\ Plainly(back)
  BY EchoIs
<1> HIDE DEF back
<1>3. Descends(back, screen') \/ Scrolls(back, screen')
  BY <1>1, <1>2, LineFeedType
<1> QED
  BY <1>1, <1>2, <1>3, LineFeedType DEF Descends, Scrolls, Plainly

LEMMA WidthType ==
  ASSUME TypeOK, SetWidthMode
  PROVE  Shaped(screen') /\ Mirrors(screen') /\ screen'.snapshot = None
<1>1. /\ screen.rows \in Heights /\ screen.cols = Cols /\ screen.scrollback \in Seq(Lines)
      /\ Len(screen.scrollback) <= MaxScrollback
  BY DEF TypeOK, Shaped, Screens
<1>2. screen' = [NewScreen(Cols, screen.rows) EXCEPT !.scrollback = screen.scrollback]
  BY <1>1 DEF SetWidthMode, ClearForWidth
<1> QED
  BY <1>1, <1>2, NewScreenType DEF Plainly

LEMMA ConnectType ==
  ASSUME TypeOK, Connect
  PROVE  Shaped(screen') /\ Mirrors(screen') /\ screen'.snapshot = None
<1>1. screen.rows \in Heights /\ screen' = NewScreen(Cols, screen.rows)
  BY DEF TypeOK, Shaped, Connect
<1> QED
  BY <1>1, FreshType DEF Plainly

LEMMA FitType ==
  ASSUME TypeOK, Fit
  PROVE  \E rows \in Heights \ {screen.rows} :
           /\ screen' = Resize(screen, Cols, rows) /\ Sized(screen, rows, screen')
           /\ Shaped(screen') /\ Mirrors(screen')
<1>1. PICK rows \in Heights \ {screen.rows} : screen' = Resize(screen, Cols, rows)
  BY DEF Fit
<1> QED
  BY <1>1, ResizeType DEF TypeOK

(* Every step keeps the types.                                             *)
LEMMA TypeStep == TypeOK /\ [Next]_vars => TypeOK'
<1> SUFFICES ASSUME TypeOK, [Next]_vars
             PROVE  TypeOK'
  OBVIOUS
<1>1. CASE Text
  BY <1>1, TextType DEF TypeOK, Text, Write
<1>2. CASE NewLine
  BY <1>2, NewLineType DEF TypeOK, NewLine, Write
<1>3. CASE Control
  BY <1>3, ControlType DEF TypeOK, Control, Write
<1>4. CASE LocalEcho
  <2>1. Shaped(screen') /\ Mirrors(screen')
    BY <1>4, EchoType
  <2>2. /\ next' = next + 1 /\ commands' = commands /\ appended' = (appended /\ TRUE)
        /\ still' = (before' = None) /\ setBack' = setBack
    BY <1>4 DEF LocalEcho, Write
  <2> QED
    BY <2>1, <2>2 DEF TypeOK
<1>5. CASE Fit
  BY <1>5, FitType DEF TypeOK, Fit
<1>6. CASE SetWidthMode
  BY <1>6, WidthType DEF TypeOK, SetWidthMode
<1>7. CASE Connect
  <2>1. Shaped(screen') /\ Mirrors(screen')
    BY <1>7, ConnectType
  <2>2. /\ next' = 1 /\ commands' = 0 /\ appended' = TRUE /\ still' = TRUE /\ setBack' = FALSE
    BY <1>7 DEF Connect
  <2>3. appended' \in BOOLEAN /\ setBack' \in BOOLEAN /\ still' \in BOOLEAN
    BY <2>2, Zenon
  <2> QED
    BY <2>1, <2>2, <2>3 DEF TypeOK
<1>8. CASE UNCHANGED vars
  BY <1>8 DEF vars, TypeOK
<1> QED
  BY <1>1, <1>2, <1>3, <1>4, <1>5, <1>6, <1>7, <1>8 DEF Next

(* The types and the snapshot of a screen that is new.                     *)
LEMMA InitType == ASSUME Init PROVE TypeOK /\ BeforeInv
<1>1. PICK rows \in Heights : screen = NewScreen(Cols, rows)
  BY DEF Init
<1>2. Shaped(screen) /\ Mirrors(screen) /\ screen.snapshot = None
  BY <1>1, FreshType DEF Plainly
<1>3. next = 1 /\ commands = 0 /\ before = None
  BY DEF Init
<1>4. appended \in BOOLEAN /\ setBack \in BOOLEAN /\ still \in BOOLEAN
  BY Zenon DEF Init
<1> QED
  BY <1>2, <1>3, <1>4 DEF TypeOK, BeforeInv

(* What is written keeps the snapshot of before or drops it.               *)
LEMMA WriteBefore ==
  ASSUME BeforeInv, Outlives(screen, screen'), NEW appends, Write(screen', appends)
  PROVE  BeforeInv'
<1>1. before' = (IF screen'.snapshot = None THEN None ELSE before) /\ still' = (before' = None)
  BY DEF Write
<1>2. CASE screen'.snapshot = None
  BY <1>1, <1>2 DEF BeforeInv
<1>3. CASE screen'.snapshot # None
  <2>1. screen'.snapshot = screen.snapshot /\ screen'.restore \in {None, screen.restore}
    BY <1>3 DEF Outlives
  <2>2. before # None /\ before' = before
    BY <1>1, <1>3, <2>1 DEF BeforeInv
  <2>3. ~still'
    BY <1>1, <2>2
  <2> QED
    BY <1>3, <2>1, <2>2, <2>3 DEF BeforeInv
<1> QED
  BY <1>2, <1>3

(* A fit takes the snapshot of the screen it finds, or keeps the one of    *)
(* before.                                                                 *)
LEMMA FitBefore == ASSUME TypeOK, BeforeInv, Fit PROVE BeforeInv'
<1>1. PICK rows \in Heights \ {screen.rows} :
        screen' = Resize(screen, Cols, rows) /\ Sized(screen, rows, screen')
  BY FitType
<1>2. /\ before' = IF screen'.snapshot = None THEN None
                   ELSE IF screen.snapshot = None THEN screen ELSE before
      /\ still' = (screen.snapshot = None \/ before' = None \/ still)
  BY DEF Fit
<1>3. /\ screen'.snapshot = IF Done(screen, rows) THEN None ELSE Snap(screen, rows)
      /\ screen'.restore = IF Done(screen, rows) THEN None ELSE Rest(screen, rows)
  BY <1>1 DEF Sized
<1>4. Shaped(screen) /\ Mirrors(screen)
  BY DEF TypeOK
<1>5. CASE screen'.snapshot = None
  BY <1>2, <1>5 DEF BeforeInv
<1>6. CASE screen'.snapshot # None /\ screen.snapshot = None
  <2>1. before' = screen /\ screen # None
    <3>1. screen # None
      BY ViewAssumption, <1>4 DEF Shaped
    <3> QED
      BY <1>2, <1>6, <3>1
  <2>2. Snap(screen, rows) # None /\ ~Done(screen, rows)
    BY <1>3, <1>6
  <2>3. IsFirstShrink(screen, rows)
    BY <1>6, <2>2 DEF Snap
  <2>4. screen'.snapshot = NewSnapshot(screen) /\ screen'.restore = NewRestore(screen)
    BY <1>3, <2>2, <2>3 DEF Snap, Rest
  <2>5. NewRestore(screen) # None
    BY <1>1, <1>4, SnapIs
  <2> QED
    BY <1>4, <1>6, <2>1, <2>4, <2>5 DEF BeforeInv
<1>7. CASE screen'.snapshot # None /\ screen.snapshot # None
  <2>1. before' = before /\ before # None
    BY <1>2, <1>7 DEF BeforeInv
  <2>2. screen'.snapshot = screen.snapshot /\ screen'.restore = screen.restore
    BY <1>3, <1>7 DEF Snap, Rest, IsFirstShrink
  <2>3. still' => still
    BY <1>2, <1>7, <2>1
  <2> QED
    BY <1>7, <2>1, <2>2, <2>3 DEF BeforeInv
<1> QED
  BY <1>5, <1>6, <1>7

(* Every step keeps what the snapshot is of.                               *)
LEMMA BeforeStep ==
  TypeOK /\ BeforeInv /\ [Next]_vars => BeforeInv'
<1> SUFFICES ASSUME TypeOK, BeforeInv, [Next]_vars
             PROVE  BeforeInv'
  OBVIOUS
<1>1. CASE Text \/ LocalEcho
  <2>1. screen'.snapshot = None
    BY <1>1, TextType, EchoType
  <2>2. Write(screen', TRUE)
    BY <1>1 DEF Text, LocalEcho, Write
  <2> QED
    BY <2>1, <2>2, WriteBefore DEF Outlives
<1>2. CASE NewLine
  <2>1. Write(screen', TRUE)
    BY <1>2 DEF NewLine, Write
  <2> QED
    BY <1>2, <2>1, NewLineType, WriteBefore
<1>3. CASE Control
  <2>1. Write(screen', FALSE)
    BY <1>3 DEF Control, Write
  <2> QED
    BY <1>3, <2>1, ControlType, WriteBefore
<1>4. CASE Fit
  BY <1>4, FitBefore
<1>5. CASE SetWidthMode \/ Connect
  <2>1. screen'.snapshot = None /\ before' = None
    BY <1>5, WidthType, ConnectType DEF SetWidthMode, Connect
  <2> QED
    BY <2>1 DEF BeforeInv
<1>6. CASE UNCHANGED vars
  BY <1>6 DEF vars, BeforeInv
<1> QED
  BY <1>1, <1>2, <1>3, <1>4, <1>5, <1>6 DEF Next

(* Only a fit changes the number of rows.                                  *)
LEMMA RowsStay ==
  ASSUME TypeOK, [Next]_vars, ~Fit
  PROVE  screen'.rows = screen.rows
<1>0. Shaped(screen) /\ Mirrors(screen)
  BY DEF TypeOK
<1>1. CASE Text
  <2>1. PICK wide \in BOOLEAN : screen' = Put(screen, next, wide)
    BY <1>1 DEF Text, Write
  <2>2. Writes(Wrapped(screen, wide), screen', next, wide)
    BY <1>0, <2>1, PutType DEF TypeOK
  <2>3. Wrapped(screen, wide).rows = screen.rows
    BY <1>0, WrappedType
  <2> QED
    BY <2>2, <2>3 DEF Writes
<1>2. CASE NewLine
  BY <1>0, <1>2, LineFeedType DEF NewLine, Write
<1>3. CASE Control
  <2>1. screen' \in CursorCommands \cup Erasures
    BY <1>3 DEF Control, Write
  <2>2. CASE screen' \in CursorCommands
    BY <1>0, <2>2, CursorKeeps DEF Keeps
  <2>3. CASE screen' \in Erasures
    <3>1. \E set : screen' = Erase(screen, set)
      BY <2>3 DEF Erasures, EraseDisplay, EraseLine
    <3> QED
      BY <1>0, <3>1 DEF Erase, Mutated, Shaped, Screens
  <2> QED
    BY <2>1, <2>2, <2>3
<1>4. CASE LocalEcho
  <2> DEFINE put == Put(screen, next, FALSE)
             back == CarriageReturn(put)
  <2>1. /\ Shaped(put) /\ Writes(Wrapped(screen, FALSE), put, next, FALSE)
        /\ Shaped(back) /\ Mirrors(back)
        /\ back = [put EXCEPT !.cursor = [r |-> put.cursor.r, c |-> 0]]
    BY EchoIs
  <2>2. screen' = LineFeed(back)
    BY <1>4 DEF LocalEcho, Write
  <2>3. Wrapped(screen, FALSE).rows = screen.rows
    BY <1>0, WrappedType
  <2> HIDE DEF put, back
  <2>4. put.rows = screen.rows
    BY <2>1, <2>3 DEF Writes
  <2>5. back.rows = put.rows
    BY <2>1 DEF Shaped, Screens
  <2> QED
    BY <2>1, <2>2, <2>4, <2>5, LineFeedType
<1>5. CASE SetWidthMode
  BY <1>5 DEF SetWidthMode, ClearForWidth, NewScreen
<1>6. CASE Connect
  BY <1>6 DEF Connect, NewScreen
<1>7. CASE UNCHANGED vars
  BY <1>7 DEF vars
<1> QED
  BY <1>1, <1>2, <1>3, <1>4, <1>5, <1>6, <1>7 DEF Next

(* A fit back to the height of the snapshot shows its rows.                *)
LEMMA FitBack ==
  ASSUME NEW s, Shaped(s), Mirrors(s), NEW old, Shaped(old), Mirrors(old),
         s.snapshot = NewSnapshot(old), old.rows # s.rows,
         NEW u, Sized(s, old.rows, u)
  PROVE  /\ Starts(s, old.rows) = 0
         /\ u.cells = old.cells
<1> DEFINE rows == old.rows
<1>1. rows \in Heights /\ rows \in Nat /\ old.cells \in Grids(rows)
  BY ViewAssumption DEF Shaped, Screens
<1>2. Snap(s, rows) = NewSnapshot(old) /\ NewSnapshot(old) # None
  <2>1. NewSnapshot(old) \in Snapshots(rows)
    BY <1>1 DEF NewSnapshot, Snapshots, Shaped, Screens
  <2>2. NewSnapshot(old) # None
    BY ViewAssumption, <1>1, <2>1
  <2> QED
    BY <2>2 DEF Snap, IsFirstShrink
<1>3. NewSnapshot(old).rows = rows /\ NewSnapshot(old).cells = old.cells
  BY DEF NewSnapshot
<1>4. Starts(s, rows) = 0 /\ From(s, rows) = NewSnapshot(old)
  BY <1>1, <1>2, <1>3, StartsIs DEF From
<1>5. /\ CellsAt(s, rows) \in Grids(rows)
      /\ \A r \in 0..(rows - 1) : CellsAt(s, rows)[r] = old.cells[r]
  <2>1. \A r \in 0..(rows - 1) : 0 + r < rows /\ 0 + r = r
    BY <1>1
  <2> HIDE DEF rows
  <2> QED
    BY <1>1, <1>3, <1>4, <2>1, CellsAtIs DEF rows
<1>6. CellsAt(s, rows) = old.cells
  <2> HIDE DEF rows
  <2> QED
    BY <1>1, <1>5 DEF Grids
<1> QED
  BY <1>4, <1>6 DEF Sized

(* While the restore record is there, a fit shows what a single fit of the *)
(* screen of before would.                                                 *)
LEMMA FitLook ==
  ASSUME NEW s, Shaped(s), Mirrors(s), NEW old, Shaped(old), Mirrors(old),
         old.snapshot = None, s.snapshot = NewSnapshot(old), s.restore = NewRestore(old),
         NEW rows \in Heights, rows # s.rows, rows <= old.rows,
         NEW u, Sized(s, rows, u)
  PROVE  Look(u) = Look(Resize(old, Cols, rows))
<1>1. /\ rows \in Nat /\ rows > 0 /\ old.rows \in Nat /\ old.rows \in Heights
      /\ old.cols = Cols
  BY ViewAssumption, SMTT(30) DEF Shaped, Screens
<1>2. /\ NewSnapshot(old) # None /\ NewRestore(old) # None
      /\ NewRestore(old) \in Restores
  <2>1. NewSnapshot(old) \in Snapshots(old.rows)
    BY <1>1 DEF NewSnapshot, Snapshots, Shaped, Screens
  <2>2. NewRestore(old) \in Restores
    BY DEF NewRestore, Restores, Shaped, Screens
  <2> QED
    BY ViewAssumption, <1>1, <2>1, <2>2
<1>3. /\ Snap(s, rows) = NewSnapshot(old) /\ Rest(s, rows) = NewRestore(old)
      /\ Old(s, rows) = NewRestore(old) /\ ~IsFull(s, rows)
  BY <1>2 DEF Snap, Rest, Old, IsFull, IsFirstShrink
<1>4. CASE rows < old.rows
  <2> DEFINE v == Resize(old, Cols, rows)
  <2>1. Sized(old, rows, v)
    BY <1>1, <1>4, ResizeIs
  <2>2. /\ Snap(old, rows) = NewSnapshot(old) /\ Rest(old, rows) = NewRestore(old)
        /\ Old(old, rows) = NewRestore(old) /\ ~IsFull(old, rows)
    BY <1>2, <1>4 DEF Snap, Rest, Old, IsFull, IsFirstShrink
  <2>3. Starts(s, rows) = Starts(old, rows)
    BY <1>2, <1>3, <2>2 DEF Starts, ViewStart
  <2>4. Shift(s, rows) = Shift(old, rows) /\ From(s, rows) = From(old, rows)
    BY <1>2, <1>3, <2>2, <2>3 DEF Shift, From
  <2>5. \A r : RowAt(s, rows, r) = RowAt(old, rows, r)
    BY <2>4 DEF RowAt
  <2>6. \A p : PlaceAt(s, rows, p) = PlaceAt(old, rows, p)
    BY <2>5 DEF PlaceAt
  <2>7. CellsAt(s, rows) = CellsAt(old, rows)
    BY <2>3, <2>4 DEF CellsAt
  <2>8. TopAt(s, rows) = TopAt(old, rows)
    BY <1>3, <2>2, <2>5 DEF TopAt
  <2> HIDE DEF v
  <2>9. /\ u.cells = v.cells /\ u.cursor = v.cursor /\ u.top = v.top /\ u.bottom = v.bottom
    BY <1>3, <2>1, <2>2, <2>5, <2>6, <2>7, <2>8 DEF Sized
  <2> QED
    BY <2>9 DEF Look, v
<1>5. CASE rows = old.rows
  <2>1. Resize(old, Cols, rows) = old
    BY <1>1, <1>5 DEF Resize
  <2>2. u.cells = old.cells /\ Starts(s, rows) = 0
    BY <1>5, FitBack
  <2>3. Shift(s, rows) = 0
    BY <1>2, <1>3, <2>2 DEF Shift
  <2>4. \A r \in Nat : r < rows => RowAt(s, rows, r) = r
    BY <1>1, <2>3, RowAtIs
  <2>5. /\ NewRestore(old).cursor = old.cursor /\ NewRestore(old).top = old.top
        /\ NewRestore(old).bottom = old.bottom
    BY DEF NewRestore
  <2>6. /\ old.cursor \in Cursors /\ old.cursor.r < rows /\ old.top \in Nat
        /\ old.bottom \in Nat /\ old.top <= old.bottom /\ old.bottom < rows
    BY <1>5 DEF Shaped, Screens
  <2>7. old.cursor.r \in Nat /\ old.cursor.c \in 0..Cols /\ Cols \in Nat
    BY ViewAssumption, <2>6 DEF Cursors
  <2>8. u.cursor = [r |-> old.cursor.r, c |-> Min({old.cursor.c, Cols - 1})]
    BY <1>3, <2>4, <2>5, <2>6, <2>7 DEF Sized, PlaceAt
  <2>9. u.cursor.r = old.cursor.r /\ u.cursor.c = Min({old.cursor.c, Cols - 1})
    BY <2>8
  <2>10. Min({u.cursor.c, Cols - 1}) = Min({old.cursor.c, Cols - 1})
    <3> DEFINE c == Min({old.cursor.c, Cols - 1})
    <3>1. c = IF old.cursor.c <= Cols - 1 THEN old.cursor.c ELSE Cols - 1
      BY <2>7, MinIs
    <3>2. c \in Int /\ c <= Cols - 1
      BY <2>7, <3>1
    <3> HIDE DEF c
    <3>3. Min({c, Cols - 1}) = c
      BY <2>7, <3>2, MinIs
    <3> QED
      BY <2>9, <3>3 DEF c
  <2>11. u.top = old.top
    BY <1>3, <2>4, <2>5, <2>6, <1>1 DEF Sized, TopAt
  <2>12. u.bottom = old.bottom
    <3>1. RowAt(s, rows, old.top) = old.top /\ RowAt(s, rows, old.bottom) = old.bottom
      BY <1>1, <2>4, <2>6
    <3>2. u.bottom = Max({old.top, old.bottom})
      BY <1>3, <2>5, <3>1 DEF Sized, TopAt
    <3>3. old.top \in Int /\ old.bottom \in Int
      BY <2>6
    <3>4. Max({old.top, old.bottom}) = IF old.top >= old.bottom THEN old.top ELSE old.bottom
      BY <3>3, MaxIs
    <3> QED
      BY <2>6, <3>2, <3>4
  <2> QED
    BY <2>1, <2>2, <2>9, <2>10, <2>11, <2>12 DEF Look
<1> QED
  BY <1>1, <1>4, <1>5

(* Rows a phone's keyboard takes and gives back come back as they were     *)
(* (buffer.ts resize, TerminalHost.tsx fit): while nothing is written,     *)
(* every cell is there again at the old height, whatever heights were      *)
(* between; and while no cursor command came either, the window at any     *)
(* lower height is the one a single fit from the screen of before would    *)
(* show.                                                                   *)
THEOREM RowsComeBack == Spec => FitLosesNothing
<1>1. Init => TypeOK /\ BeforeInv
  BY InitType
<1>2. TypeOK /\ BeforeInv /\ [Next]_vars => TypeOK' /\ BeforeInv'
  BY TypeStep, BeforeStep
<1>3. TypeOK /\ BeforeInv /\ [Next]_vars =>
        [before # None /\ screen'.rows \in 1..before.rows \ {screen.rows}
          => /\ still => Look(screen') = Look(Resize(before, Cols, screen'.rows))
             /\ screen'.rows = before.rows => screen'.cells = before.cells]_vars
  <2> SUFFICES ASSUME TypeOK, BeforeInv, [Next]_vars, before # None,
                      screen'.rows \in 1..before.rows \ {screen.rows}
               PROVE  /\ still => Look(screen') = Look(Resize(before, Cols, screen'.rows))
                      /\ screen'.rows = before.rows => screen'.cells = before.cells
    OBVIOUS
  <2>1. Fit
    BY RowsStay
  <2>2. PICK rows \in Heights \ {screen.rows} : Sized(screen, rows, screen')
    BY <2>1, FitType
  <2>3. screen'.rows = rows
    BY <2>2 DEF Sized
  <2>4. /\ Shaped(screen) /\ Mirrors(screen) /\ Shaped(before) /\ Mirrors(before)
        /\ before.snapshot = None /\ screen.snapshot = NewSnapshot(before)
        /\ still => screen.restore = NewRestore(before)
    BY DEF TypeOK, BeforeInv
  <2>5. before.rows \in Nat
    BY ViewAssumption, <2>4 DEF Shaped
  <2>6. rows <= before.rows
    BY <2>3, <2>5
  <2>7. still => Look(screen') = Look(Resize(before, Cols, rows))
    BY <2>2, <2>4, <2>6, FitLook
  <2>8. rows = before.rows => screen'.cells = before.cells
    BY <2>2, <2>4, FitBack
  <2> QED
    BY <2>3, <2>7, <2>8
<1> QED
  BY <1>1, <1>2, <1>3, PTL DEF Spec, FitLosesNothing

-----------------------------------------------------------------------------
(* Lines without an end: behind the last one nothing is written.           *)
NoLine == [c \in {} |-> 0]
Pos    == Nat \ {0}

At(lines, i) == IF i \in DOMAIN lines THEN lines[i] ELSE NoLine

(* The same lines, but for k at the front.                                 *)
Cut(old, new, k) == k \in Nat /\ \A i \in Pos : At(new, i) = At(old, i + k)

(* A glyph is written behind all others.                                   *)
Extended(old, new, glyph) ==
  \E p \in Pos, c \in Nat :
    /\ \A d \in DOMAIN At(old, p) : d < c
    /\ \A i \in Pos : i > p => DOMAIN At(old, i) = {}
    /\ DOMAIN At(new, p) = DOMAIN At(old, p) \cup {c} /\ At(new, p)[c] = glyph
    /\ \A d \in DOMAIN At(old, p) : At(new, p)[d] = At(old, p)[d]
    /\ \A i \in Pos : i # p => At(new, i) = At(old, i)

(* HistoryInOrder, of such lines.                                          *)
IsThere(lines, glyph) == \E i \in Pos : \E c \in DOMAIN At(lines, i) : At(lines, i)[c] = glyph

(* The glyphs are in the order they were written, none is of later than    *)
(* last, and behind the first one that is left none is missing.            *)
Sorted(lines, last) ==
  /\ \A i, j \in Pos : \A c \in DOMAIN At(lines, i), d \in DOMAIN At(lines, j) :
       i < j \/ (i = j /\ c < d) => At(lines, i)[c] < At(lines, j)[d]
  /\ \A i \in Pos : \A c \in DOMAIN At(lines, i) :
       At(lines, i)[c] \in 1..last
  /\ \A i \in Pos : \A c \in DOMAIN At(lines, i) :
       \A k \in At(lines, i)[c]..last : IsThere(lines, k)

(* No glyph is missing at all.                                             *)
Whole(lines, last) == \A k \in 1..last : IsThere(lines, k)

(* What is at a place of a sequence of lines.                              *)
LEMMA LinesAre ==
  ASSUME NEW lines \in Seq(Lines), NEW i \in Pos
  PROVE  /\ DOMAIN At(lines, i) \subseteq 0..(Cols - 1)
         /\ \A c \in DOMAIN At(lines, i) : At(lines, i)[c] \in Nat
<1>1. CASE i \in DOMAIN lines
  <2>1. lines[i] \in Lines
    BY <1>1
  <2>2. PICK D \in SUBSET (0..(Cols - 1)) : lines[i] \in [D -> Nat]
    BY <2>1 DEF Lines
  <2> QED
    BY <1>1, <2>2 DEF At
<1>2. CASE i \notin DOMAIN lines
  BY <1>2 DEF At, NoLine
<1> QED
  BY <1>1, <1>2

(* Cutting twice is cutting once.                                          *)
LEMMA CutTwice ==
  ASSUME NEW a, NEW b, NEW c, NEW k, NEW l, Cut(a, b, k), Cut(b, c, l)
  PROVE  Cut(a, c, l + k)
<1>1. k \in Nat /\ l \in Nat /\ l + k \in Nat
  BY DEF Cut
<1>2. ASSUME NEW i \in Pos
      PROVE  At(c, i) = At(a, i + (l + k))
  <2>1. i + l \in Pos /\ (i + l) + k = i + (l + k)
    BY <1>1 DEF Pos
  <2> QED
    BY <2>1 DEF Cut
<1> QED
  BY <1>1, <1>2 DEF Cut

(* Lines cut off at the front leave the others in order, with none missing *)
(* behind the first that is left.                                          *)
LEMMA CutSorted ==
  ASSUME NEW old \in Seq(Lines), NEW new, NEW k, NEW last \in Nat,
         Cut(old, new, k), Sorted(old, last)
  PROVE  Sorted(new, last) /\ (k = 0 /\ Whole(old, last) => Whole(new, last))
<1>1. k \in Nat /\ \A i \in Pos : i + k \in Pos /\ At(new, i) = At(old, i + k)
  BY DEF Cut, Pos
<1>2. \A i, j \in Pos : \A c \in DOMAIN At(new, i), d \in DOMAIN At(new, j) :
        i < j \/ (i = j /\ c < d) => At(new, i)[c] < At(new, j)[d]
  <2> TAKE i \in Pos, j \in Pos
  <2>1. i < j => i + k < j + k
    BY <1>1 DEF Pos
  <2> QED
    BY <1>1, <2>1 DEF Sorted
<1>3. \A i \in Pos : \A c \in DOMAIN At(new, i) : At(new, i)[c] \in 1..last
  BY <1>1 DEF Sorted
<1>4. ASSUME NEW i \in Pos, NEW c \in DOMAIN At(new, i), NEW m \in At(new, i)[c]..last
      PROVE  IsThere(new, m)
  <2>1. c \in DOMAIN At(old, i + k) /\ At(new, i)[c] = At(old, i + k)[c] /\ i + k \in Pos
    BY <1>1, <1>4
  <2>2. IsThere(old, m)
    BY <1>4, <2>1 DEF Sorted
  <2>3. PICK j \in Pos : \E d \in DOMAIN At(old, j) : At(old, j)[d] = m
    BY <2>2 DEF IsThere
  <2>4. PICK d \in DOMAIN At(old, j) : At(old, j)[d] = m
    BY <2>3
  <2>5. At(old, i + k)[c] \in Nat /\ m \in Int /\ At(old, i + k)[c] <= m
    <3>1. At(old, i + k)[c] \in Nat
      BY <2>1, LinesAre
    <3> QED
      BY <2>1, <3>1
  <2>6. ~(j < i + k)
    <3> SUFFICES ASSUME j < i + k PROVE FALSE
      OBVIOUS
    <3>1. At(old, j)[d] < At(old, i + k)[c]
      BY <2>1, <2>4 DEF Sorted
    <3> QED
      BY <2>4, <2>5, <3>1
  <2>7. j - k \in Pos /\ (j - k) + k = j
    <3>1. i \in Nat /\ i >= 1 /\ j \in Nat /\ k \in Nat
      BY <1>1 DEF Pos
    <3>2. j >= i + k
      BY <2>6, <3>1
    <3> QED
      BY <3>1, <3>2 DEF Pos
  <2>8. d \in DOMAIN At(new, j - k) /\ At(new, j - k)[d] = m
    BY <1>1, <2>4, <2>7
  <2> QED
    BY <2>7, <2>8 DEF IsThere
<1>5. Sorted(new, last)
  BY <1>2, <1>3, <1>4 DEF Sorted
<1>6. ASSUME k = 0, Whole(old, last)
      PROVE  Whole(new, last)
  <2>1. \A i \in Pos : At(new, i) = At(old, i)
    BY <1>1, <1>6 DEF Pos
  <2> QED
    BY <1>6, <2>1 DEF Whole, IsThere
<1> QED
  BY <1>5, <1>6

(* A glyph that is written behind all others is in order.                  *)
LEMMA ExtendedSorted ==
  ASSUME NEW old \in Seq(Lines), NEW new, NEW last \in Nat,
         Extended(old, new, last + 1), Sorted(old, last)
  PROVE  Sorted(new, last + 1) /\ (Whole(old, last) => Whole(new, last + 1))
<1>1. PICK p \in Pos, c \in Nat :
        /\ \A d \in DOMAIN At(old, p) : d < c
        /\ \A i \in Pos : i > p => DOMAIN At(old, i) = {}
        /\ DOMAIN At(new, p) = DOMAIN At(old, p) \cup {c} /\ At(new, p)[c] = last + 1
        /\ \A d \in DOMAIN At(old, p) : At(new, p)[d] = At(old, p)[d]
        /\ \A i \in Pos : i # p => At(new, i) = At(old, i)
  BY DEF Extended
(* A place is the new one, or it was there, before it.                     *)
<1>2. ASSUME NEW i \in Pos, NEW d \in DOMAIN At(new, i)
      PROVE  \/ i = p /\ d = c /\ At(new, i)[d] = last + 1
             \/ /\ d \in DOMAIN At(old, i) /\ At(new, i)[d] = At(old, i)[d]
                /\ i < p \/ (i = p /\ d < c)
  <2>1. CASE i = p
    BY <1>1, <1>2, <2>1
  <2>2. CASE i # p
    <3>1. d \in DOMAIN At(old, i) /\ At(new, i)[d] = At(old, i)[d]
      BY <1>1, <1>2, <2>2
    <3>2. ~(i > p)
      BY <1>1, <3>1
    <3> QED
      BY <2>2, <3>1, <3>2 DEF Pos
  <2> QED
    BY <2>1, <2>2
<1>3. \A i \in Pos : \A d \in DOMAIN At(old, i) : At(old, i)[d] \in 1..last
  BY DEF Sorted
<1>4. \A i \in Pos : \A d \in DOMAIN At(new, i) : At(new, i)[d] \in 1..(last + 1)
  <2> TAKE i \in Pos
  <2> TAKE d \in DOMAIN At(new, i)
  <2> QED
    BY <1>2, <1>3
<1>5. ASSUME NEW i \in Pos, NEW j \in Pos, NEW d \in DOMAIN At(new, i),
             NEW e \in DOMAIN At(new, j), i < j \/ (i = j /\ d < e)
      PROVE  At(new, i)[d] < At(new, j)[e]
  <2>0. i \in Nat /\ j \in Nat /\ p \in Nat
    BY DEF Pos
  <2>1. CASE i = p /\ d = c
    <3>1. CASE j = p /\ e = c
      BY <1>5, <2>0, <2>1, <3>1
    <3>2. CASE ~(j = p /\ e = c)
      <4>1. /\ e \in DOMAIN At(old, j)
            /\ j < p \/ (j = p /\ e < c)
        BY <1>2, <3>2
      <4>2. e \in Int
        BY <4>1, LinesAre
      <4> QED
        BY <1>5, <2>0, <2>1, <4>1, <4>2
    <3> QED
      BY <3>1, <3>2
  <2>2. CASE ~(i = p /\ d = c)
    <3>1. d \in DOMAIN At(old, i) /\ At(new, i)[d] = At(old, i)[d]
      BY <1>2, <2>2
    <3>2. At(old, i)[d] \in 1..last
      BY <1>3, <3>1
    <3>3. CASE j = p /\ e = c
      BY <1>1, <3>1, <3>2, <3>3
    <3>4. CASE ~(j = p /\ e = c)
      <4>1. e \in DOMAIN At(old, j) /\ At(new, j)[e] = At(old, j)[e]
        BY <1>2, <3>4
      <4> QED
        BY <1>5, <3>1, <4>1 DEF Sorted
    <3> QED
      BY <3>3, <3>4
  <2> QED
    BY <2>1, <2>2
<1>6. ASSUME NEW k, IsThere(old, k)
      PROVE  IsThere(new, k)
  <2>1. PICK i \in Pos : \E d \in DOMAIN At(old, i) : At(old, i)[d] = k
    BY <1>6 DEF IsThere
  <2>2. PICK d \in DOMAIN At(old, i) : At(old, i)[d] = k
    BY <2>1
  <2>3. d \in DOMAIN At(new, i) /\ At(new, i)[d] = k
    BY <1>1, <2>2
  <2> QED
    BY <2>3 DEF IsThere
<1>7. IsThere(new, last + 1)
  BY <1>1 DEF IsThere
<1>8. ASSUME NEW i \in Pos, NEW d \in DOMAIN At(new, i), NEW k \in At(new, i)[d]..(last + 1)
      PROVE  IsThere(new, k)
  <2>1. CASE k = last + 1
    BY <1>7, <2>1
  <2>2. CASE k # last + 1
    <3>1. At(new, i)[d] \in 1..(last + 1)
      BY <1>4
    <3>2. At(new, i)[d] # last + 1
      BY <1>8, <2>2, <3>1
    <3>3. d \in DOMAIN At(old, i) /\ At(new, i)[d] = At(old, i)[d]
      BY <1>2, <3>2
    <3>4. k \in At(old, i)[d]..last
      BY <1>8, <2>2, <3>1, <3>3
    <3>5. IsThere(old, k)
      BY <3>3, <3>4 DEF Sorted
    <3> QED
      BY <1>6, <3>5
  <2> QED
    BY <2>1, <2>2
<1>9. Sorted(new, last + 1)
  BY <1>4, <1>5, <1>8 DEF Sorted
<1>10. Whole(old, last) => Whole(new, last + 1)
  <2> SUFFICES ASSUME Whole(old, last), NEW k \in 1..(last + 1)
               PROVE  IsThere(new, k)
    BY DEF Whole
  <2>1. k = last + 1 \/ k \in 1..last
    OBVIOUS
  <2> QED
    BY <1>6, <1>7, <2>1 DEF Whole
<1> QED
  BY <1>9, <1>10

(* What is at a place of two sequences, one behind the other.              *)
LEMMA AtCat ==
  ASSUME NEW a \in Seq(Lines), NEW b \in Seq(Lines), NEW i \in Pos
  PROVE  /\ a \o b \in Seq(Lines) /\ Len(a \o b) = Len(a) + Len(b)
         /\ At(a \o b, i) = IF i <= Len(a) THEN At(a, i) ELSE At(b, i - Len(a))
<1>1. a \o b \in Seq(Lines) /\ Len(a \o b) = Len(a) + Len(b)
  OBVIOUS
<1>2. /\ DOMAIN (a \o b) = 1..(Len(a) + Len(b)) /\ DOMAIN a = 1..Len(a) /\ DOMAIN b = 1..Len(b)
      /\ i \in Nat /\ i >= 1 /\ Len(a) \in Nat /\ Len(b) \in Nat
  BY DEF Pos
<1>3. CASE i <= Len(a)
  BY <1>2, <1>3 DEF At
<1>4. CASE i > Len(a) /\ i <= Len(a) + Len(b)
  <2>1. (a \o b)[i] = b[i - Len(a)]
    BY <1>2, <1>4
  <2>2. i \in 1..(Len(a) + Len(b)) /\ i - Len(a) \in 1..Len(b) /\ ~(i <= Len(a))
    BY <1>2, <1>4
  <2> QED
    BY <1>2, <2>1, <2>2 DEF At
<1>5. CASE i > Len(a) + Len(b)
  <2>1. i \notin 1..(Len(a) + Len(b)) /\ i - Len(a) \notin 1..Len(b) /\ ~(i <= Len(a))
    BY <1>2, <1>5
  <2> QED
    BY <1>2, <2>1 DEF At
<1> QED
  BY <1>1, <1>2, <1>3, <1>4, <1>5

(* What the cap cuts off.                                                  *)
LEMMA CutFront ==
  ASSUME NEW a \in Seq(Lines), NEW z \in Seq(Lines)
  PROVE  Cut(a \o z, Capped(a) \o z, CutOff(a))
<1> DEFINE b == Capped(a)
           k == CutOff(a)
<1>1. Len(a) \in Nat /\ k \in Nat /\ k <= Len(a)
  BY ViewAssumption DEF CutOff
<1>2. /\ b \in Seq(Lines) /\ Len(b) = Len(a) - k
      /\ \A i \in 1..Len(b) : b[i] = a[i + k]
  BY CappedIs
<1> HIDE DEF b, k
<1>3. ASSUME NEW i \in Pos
      PROVE  At(b \o z, i) = At(a \o z, i + k)
  <2>0. i + k \in Pos /\ i \in Nat /\ i >= 1
    BY <1>1 DEF Pos
  <2>1. At(b \o z, i) = IF i <= Len(b) THEN At(b, i) ELSE At(z, i - Len(b))
    BY <1>2, AtCat
  <2>2. At(a \o z, i + k) = IF i + k <= Len(a) THEN At(a, i + k) ELSE At(z, (i + k) - Len(a))
    BY <2>0, AtCat
  <2>3. CASE i <= Len(b)
    <3>1. i \in DOMAIN b /\ i + k \in DOMAIN a /\ i + k <= Len(a) /\ b[i] = a[i + k]
      BY <1>1, <1>2, <2>0, <2>3
    <3> QED
      BY <2>1, <2>2, <2>3, <3>1 DEF At
  <2>4. CASE ~(i <= Len(b))
    <3>1. ~(i + k <= Len(a)) /\ (i + k) - Len(a) = i - Len(b)
      BY <1>1, <1>2, <2>0, <2>4
    <3> QED
      BY <2>1, <2>2, <2>4, <3>1
  <2> QED
    BY <2>3, <2>4
<1> QED
  BY <1>1, <1>3 DEF Cut, b, k

-----------------------------------------------------------------------------
(* A screen to append to: its region starts at the top, nothing is written *)
(* below its cursor, and nothing in what the snapshot has below the view.  *)
BlankRows(cells, first, end) == \A r \in first..(end - 1) : cells[r] = BlankRow(Cols)

Calm(s) ==
  /\ s.top = 0 /\ s.cursor.r <= s.bottom
  /\ BlankRows(s.cells, s.cursor.r + 1, s.rows)
  /\ s.snapshot # None => BlankRows(s.snapshot.cells, s.view + s.rows, s.snapshot.rows)

(* And nothing behind its cursor, now or when a fit brings it back.        *)
BlankFrom(row, first) == \A c \in first..(Cols - 1) : row[c] = Blank

Plain(s) ==
  /\ Calm(s)
  /\ BlankFrom(s.cells[s.cursor.r], s.cursor.c)
  /\ s.restore # None =>
       /\ s.restore.top = 0 /\ s.restore.cursor.r <= s.restore.bottom
       /\ s.restore.cursor.r < s.snapshot.rows
       /\ BlankRows(s.snapshot.cells, s.restore.cursor.r + 1, s.snapshot.rows)

(* The number of lines above the first live row.                           *)
Above(s) == Len(s.scrollback) + s.view

(* A blank row is a line without glyphs, a live row the line of its cells. *)
LEMMA BlankLine == LineOf(BlankRow(Cols)) = NoLine
<1>1. DOMAIN BlankRow(Cols) = 0..(Cols - 1) /\ \A c \in 0..(Cols - 1) : BlankRow(Cols)[c] = 0
  BY DEF BlankRow, Blank
<1>2. {c \in DOMAIN BlankRow(Cols) : BlankRow(Cols)[c] > 0} = {}
  BY <1>1
<1> QED
  BY <1>2 DEF LineOf, NoLine

LEMMA LiveAt ==
  ASSUME NEW s, Shaped(s), NEW i \in Pos
  PROVE  At(Live(s), i) = IF i <= s.rows THEN LineOf(s.cells[i - 1]) ELSE NoLine
<1>1. s.rows \in Nat /\ DOMAIN Live(s) = 1..s.rows /\ i \in Nat /\ i >= 1
  BY ViewAssumption DEF Shaped, Live, Pos
<1>2. i \in 1..s.rows => Live(s)[i] = LineOf(s.cells[i - 1])
  BY DEF Live
<1> QED
  BY <1>1, <1>2 DEF At

(* The scrollback, what is hidden and what is live are lines.              *)
LEMMA EverythingType ==
  ASSUME NEW s, Shaped(s), Mirrors(s)
  PROVE  /\ s.scrollback \in Seq(Lines) /\ Hidden(s) \in Seq(Lines) /\ Live(s) \in Seq(Lines)
         /\ s.scrollback \o Hidden(s) \in Seq(Lines) /\ Len(s.scrollback \o Hidden(s)) = Above(s)
         /\ Everything(s) \in Seq(Lines) /\ Len(Everything(s)) = Above(s) + s.rows
         /\ Above(s) \in Nat /\ s.rows \in Nat /\ MaxScrollback \in Nat
         /\ Plainly(s) => /\ Everything(s) = s.scrollback \o Live(s)
                          /\ Above(s) = Len(s.scrollback)
<1> DEFINE x == s.scrollback \o Hidden(s)
<1>1. /\ s.scrollback \in Seq(Lines) /\ s.rows \in Nat /\ s.view \in Nat
      /\ MaxScrollback \in Nat
  BY ViewAssumption DEF Shaped, Screens
<1>2. /\ Hidden(s) \in Seq(Lines) /\ Len(Hidden(s)) = s.view
      /\ Live(s) \in Seq(Lines) /\ Len(Live(s)) = s.rows
  BY HiddenType, LiveType
<1>3. x \in Seq(Lines) /\ Len(x) = Above(s) /\ Above(s) \in Nat
  <2>1. x \in Seq(Lines) /\ Len(x) = Len(s.scrollback) + Len(Hidden(s))
    BY <1>1, <1>2, SMTT(30)
  <2>2. Len(s.scrollback) \in Nat
    BY <1>1
  <2> QED
    BY <1>1, <1>2, <2>1, <2>2 DEF Above
<1>4. Everything(s) = x \o Live(s)
  BY DEF Everything
<1>5. Plainly(s) => x = s.scrollback /\ Above(s) = Len(s.scrollback)
  <2>1. Plainly(s) => Hidden(s) = <<>> /\ s.view = 0
    BY DEF Plainly, Hidden
  <2> QED
    BY <1>1, <2>1 DEF Above
<1> HIDE DEF x
<1>6. Everything(s) \in Seq(Lines) /\ Len(Everything(s)) = Above(s) + s.rows
  BY <1>1, <1>2, <1>3, <1>4
<1> QED
  BY <1>1, <1>2, <1>3, <1>4, <1>5, <1>6 DEF x

(* The same text, but for what the cap cut off: that happens only at the   *)
(* cap, and within n line feeds of it.                                     *)
Follows(s, u, n) ==
  \E k \in Nat :
    /\ Cut(Everything(s), Everything(u), k)
    /\ k > 0 => Len(u.scrollback) = MaxScrollback /\ Above(s) + n > MaxScrollback
    /\ Len(s.scrollback) <= Len(u.scrollback)
    /\ Above(u) <= Above(s) + n
    /\ u.rows = s.rows

(* What leaves the lines alone follows.                                    *)
LEMMA SameFollows ==
  ASSUME NEW s, Shaped(s), Mirrors(s), NEW u, Everything(u) = Everything(s),
         u.scrollback = s.scrollback, u.view = s.view, u.rows = s.rows, NEW n \in Nat
  PROVE  Follows(s, u, n)
<1>1. Above(s) \in Nat /\ Above(u) = Above(s) /\ Len(s.scrollback) \in Nat
  BY EverythingType DEF Above
<1>2. Cut(Everything(s), Everything(u), 0)
  <2>1. \A i \in Pos : i + 0 = i
    BY DEF Pos
  <2> QED
    BY <2>1 DEF Cut
<1> QED
  BY <1>1, <1>2 DEF Follows

-----------------------------------------------------------------------------
(* A line feed moves the text up or leaves it, and makes room.             *)
LEMMA DescendsText ==
  ASSUME NEW s, Shaped(s), Mirrors(s), Calm(s), NEW u, Shaped(u), Mirrors(u),
         Descends(s, u), s.cursor.r < s.bottom
  PROVE  Plain(u) /\ Follows(s, u, 1)
<1>1. /\ s.cursor.r \in Nat /\ s.bottom \in Nat /\ s.rows \in Nat /\ s.bottom < s.rows
      /\ u.cursor.r = s.cursor.r + 1 /\ u.cursor.c = 0 /\ Cols \in Nat
  BY ViewAssumption DEF Shaped, Screens, Cursors, Descends
<1>2. Everything(u) = Everything(s)
  BY DEF Everything, Hidden, Live, Descends
<1>3. \A r \in (s.cursor.r + 1)..(s.rows - 1) : s.cells[r] = BlankRow(Cols)
  BY DEF Calm, BlankRows
<1>4. BlankRows(u.cells, u.cursor.r + 1, u.rows)
  BY <1>1, <1>3 DEF Descends, BlankRows
<1>5. BlankFrom(u.cells[u.cursor.r], u.cursor.c)
  <2>1. u.cells[u.cursor.r] = BlankRow(Cols)
    BY <1>1, <1>3 DEF Descends
  <2> QED
    BY <1>1, <2>1 DEF BlankRow, BlankFrom
<1>6. Calm(u)
  BY <1>1, <1>4 DEF Calm, Descends
<1>7. Plain(u)
  BY <1>1, <1>5, <1>6 DEF Plain, Descends
<1>8. Follows(s, u, 1)
  BY <1>2, SameFollows DEF Descends
<1> QED
  BY <1>7, <1>8

(* A region that scrolls leaves its last row blank and the rest calm.      *)
LEMMA ScrollsPlain ==
  ASSUME NEW s, Shaped(s), Mirrors(s), Calm(s), NEW u, Shaped(u), Mirrors(u),
         Scrolls(s, u), ~(s.cursor.r < s.bottom)
  PROVE  /\ Plain(u)
         /\ \A j \in Nat : j < s.rows =>
              u.cells[j] = IF j + 1 < s.rows THEN s.cells[j + 1] ELSE BlankRow(Cols)
<1>1. /\ s.cursor.r = s.bottom /\ s.bottom \in Nat /\ s.rows \in Nat /\ s.bottom < s.rows
      /\ s.top = 0 /\ s.cols = Cols
  BY ViewAssumption, SMTT(30) DEF Shaped, Screens, Cursors, Calm
<1>2. \A r \in (s.bottom + 1)..(s.rows - 1) : s.cells[r] = BlankRow(Cols)
  BY <1>1 DEF Calm, BlankRows
<1>3. \A r \in 0..(s.rows - 1) :
        u.cells[r] = IF r \in 0..(s.bottom - 1) THEN s.cells[r + 1]
                     ELSE IF r = s.bottom THEN BlankRow(Cols) ELSE s.cells[r]
  BY <1>1 DEF Scrolls, ScrolledCells, RowsOf
<1>4. \A r \in s.bottom..(s.rows - 1) : u.cells[r] = BlankRow(Cols)
  BY <1>1, <1>2, <1>3
<1>5. ASSUME NEW j \in Nat, j < s.rows
      PROVE  u.cells[j] = IF j + 1 < s.rows THEN s.cells[j + 1] ELSE BlankRow(Cols)
  <2>1. CASE j < s.bottom
    BY <1>1, <1>3, <1>5, <2>1
  <2>2. CASE ~(j < s.bottom)
    <3>1. u.cells[j] = BlankRow(Cols)
      BY <1>1, <1>4, <1>5, <2>2
    <3>2. j + 1 < s.rows => s.cells[j + 1] = BlankRow(Cols)
      BY <1>1, <1>2, <1>5, <2>2
    <3> QED
      BY <3>1, <3>2
  <2> QED
    BY <2>1, <2>2
<1>6. u.cursor.r = s.bottom /\ u.cursor.c = 0 /\ u.rows = s.rows /\ u.top = 0 /\ u.bottom = s.bottom
  BY <1>1 DEF Scrolls
<1>7. Calm(u)
  <2>1. BlankRows(u.cells, u.cursor.r + 1, u.rows)
    BY <1>1, <1>4, <1>6 DEF BlankRows
  <2> QED
    BY <1>1, <1>6, <2>1 DEF Calm, Scrolls, Plainly
<1>8. BlankFrom(u.cells[u.cursor.r], u.cursor.c)
  <2>1. u.cells[u.cursor.r] = BlankRow(Cols)
    BY <1>1, <1>4, <1>6
  <2> QED
    BY <1>6, <2>1 DEF BlankRow, BlankFrom
<1>9. Plain(u)
  BY <1>6, <1>7, <1>8 DEF Plain, Scrolls, Plainly
<1> QED
  BY <1>5, <1>9

(* The top line goes from the screen to the end of what is above it.       *)
LEMMA MovedUp ==
  ASSUME NEW s, Shaped(s), NEW u, Shaped(u), u.rows = s.rows,
         \A j \in Nat : j < s.rows =>
           u.cells[j] = IF j + 1 < s.rows THEN s.cells[j + 1] ELSE BlankRow(Cols),
         NEW x \in Seq(Lines)
  PROVE  LET y == Append(x, LineOf(s.cells[0])) IN
         y \in Seq(Lines) /\ Len(y) = Len(x) + 1 /\ Cut(x \o Live(s), y \o Live(u), 0)
<1> DEFINE l == LineOf(s.cells[0])
           y == Append(x, l)
<1>1. s.rows \in Nat /\ s.rows > 0 /\ Live(s) \in Seq(Lines) /\ Live(u) \in Seq(Lines)
  BY ViewAssumption, LiveType DEF Shaped
<1>2. l \in Lines
  <2>1. 0 \in 0..(s.rows - 1) /\ s.cells \in Grids(s.rows)
    BY <1>1, SMTT(30) DEF Shaped, Screens
  <2>2. s.cells[0] \in [0..(Cols - 1) -> Int]
    BY <2>1 DEF Grids
  <2> QED
    BY <2>2, LineType
<1> HIDE DEF l
<1>3. /\ y \in Seq(Lines) /\ Len(y) = Len(x) + 1 /\ Len(x) \in Nat /\ y[Len(x) + 1] = l
      /\ \A i \in 1..Len(x) : y[i] = x[i]
      /\ DOMAIN y = 1..(Len(x) + 1) /\ DOMAIN x = 1..Len(x)
  BY <1>2
<1> HIDE DEF y
<1>4. ASSUME NEW i \in Pos
      PROVE  At(y \o Live(u), i) = At(x \o Live(s), i)
  <2>0. i \in Nat /\ i >= 1
    BY DEF Pos
  <2>1. At(y \o Live(u), i) = IF i <= Len(y) THEN At(y, i) ELSE At(Live(u), i - Len(y))
    BY <1>1, <1>3, AtCat
  <2>2. At(x \o Live(s), i) = IF i <= Len(x) THEN At(x, i) ELSE At(Live(s), i - Len(x))
    BY <1>1, AtCat
  <2>3. CASE i <= Len(x)
    BY <1>3, <2>0, <2>1, <2>2, <2>3 DEF At
  <2>4. CASE i = Len(x) + 1
    <3>1. At(y \o Live(u), i) = l
      BY <1>3, <2>0, <2>1, <2>4 DEF At
    <3>2. At(Live(s), 1) = l
      <4>1. 1 \in Pos
        BY DEF Pos
      <4> QED
        BY <1>1, <4>1, LiveAt DEF l
    <3>3. ~(i <= Len(x)) /\ i - Len(x) = 1
      BY <1>3, <2>4
    <3> QED
      BY <2>2, <3>1, <3>2, <3>3
  <2>5. CASE i > Len(x) + 1
    <3> DEFINE j == i - Len(x) - 1
    <3>1. /\ j \in Pos /\ j \in Nat /\ j >= 1 /\ j + 1 \in Pos
          /\ i - Len(y) = j /\ i - Len(x) = j + 1
          /\ ~(i <= Len(x)) /\ ~(i <= Len(y))
      <4>1. j \in Nat /\ j >= 1
        BY <1>3, <2>0, <2>5
      <4>2. i - Len(y) = j /\ i - Len(x) = j + 1 /\ ~(i <= Len(x)) /\ ~(i <= Len(y))
        BY <1>3, <2>0, <2>5
      <4> QED
        BY <4>1, <4>2 DEF Pos
    <3> HIDE DEF j
    <3>2. At(Live(u), j) = IF j <= s.rows THEN LineOf(u.cells[j - 1]) ELSE NoLine
      BY <3>1, LiveAt
    <3>3. At(Live(s), j + 1) = IF j + 1 <= s.rows THEN LineOf(s.cells[j]) ELSE NoLine
      <4>1. At(Live(s), j + 1) = IF j + 1 <= s.rows THEN LineOf(s.cells[(j + 1) - 1]) ELSE NoLine
        BY <3>1, LiveAt
      <4>2. (j + 1) - 1 = j
        BY <3>1
      <4> QED
        BY <4>1, <4>2
    <3>4. j <= s.rows => u.cells[j - 1] = IF j < s.rows THEN s.cells[j] ELSE BlankRow(Cols)
      <4>1. j - 1 \in Nat /\ (j - 1) + 1 = j /\ (j <= s.rows => j - 1 < s.rows)
        BY <1>1, <3>1
      <4> QED
        BY <4>1
    <3>5. At(Live(u), j) = At(Live(s), j + 1)
      <4>1. CASE j < s.rows
        BY <1>1, <3>1, <3>2, <3>3, <3>4, <4>1
      <4>2. CASE ~(j < s.rows)
        BY <1>1, <3>1, <3>2, <3>3, <3>4, <4>2, BlankLine
      <4> QED
        BY <4>1, <4>2
    <3> QED
      BY <2>1, <2>2, <3>1, <3>5
  <2> QED
    BY <1>3, <2>0, <2>3, <2>4, <2>5
<1>5. Cut(x \o Live(s), y \o Live(u), 0)
  <2>1. \A i \in Pos : i + 0 = i
    BY DEF Pos
  <2> QED
    BY <1>4, <2>1 DEF Cut
<1> QED
  BY <1>3, <1>5 DEF y, l

(* A region that scrolls cuts no line but what the cap cuts off.           *)
LEMMA ScrollsText ==
  ASSUME NEW s, Shaped(s), Mirrors(s), Calm(s), NEW u, Shaped(u), Mirrors(u),
         Scrolls(s, u), ~(s.cursor.r < s.bottom)
  PROVE  Plain(u) /\ Follows(s, u, 1)
<1> DEFINE x == s.scrollback \o Hidden(s)
           y == Capped(x)
           z == Append(y, LineOf(s.cells[0]))
           w == Capped(z)
<1>1. /\ x \in Seq(Lines) /\ Len(x) = Above(s) /\ Above(s) \in Nat /\ MaxScrollback \in Nat
      /\ Everything(s) = x \o Live(s) /\ Live(s) \in Seq(Lines) /\ Live(u) \in Seq(Lines)
      /\ Len(s.scrollback) \in Nat /\ Len(s.scrollback) <= Above(s)
      /\ Len(s.scrollback) <= MaxScrollback
  <2>1. s.view \in Nat /\ Len(s.scrollback) <= MaxScrollback
    BY DEF Shaped, Screens
  <2>2. Len(s.scrollback) \in Nat
    BY EverythingType
  <2>3. Len(s.scrollback) <= Above(s)
    BY <2>1, <2>2 DEF Above
  <2>4. Live(u) \in Seq(Lines)
    BY LiveType
  <2> QED
    BY <2>1, <2>2, <2>3, <2>4, EverythingType DEF Everything
<1>2. /\ Plain(u)
      /\ \A j \in Nat : j < s.rows =>
           u.cells[j] = IF j + 1 < s.rows THEN s.cells[j + 1] ELSE BlankRow(Cols)
  BY ScrollsPlain
<1>3. Plainly(u) /\ u.rows = s.rows /\ u.scrollback = w
  <2>1. s.top = 0 /\ Committed(s) = y
    BY CommittedIs DEF Calm
  <2> QED
    BY <2>1 DEF Scrolls
<1>4. Everything(u) = w \o Live(u) /\ Above(u) = Len(w)
  BY <1>3, EverythingType
<1> HIDE DEF x
<1>5. /\ y \in Seq(Lines) /\ Len(y) = Len(x) - CutOff(x) /\ CutOff(x) \in Nat
      /\ Cut(x \o Live(s), y \o Live(s), CutOff(x))
  <2>1. CutOff(x) \in Nat
    BY <1>1 DEF CutOff
  <2> QED
    BY <1>1, <2>1, CappedIs, CutFront
<1> HIDE DEF y
<1>6. /\ z \in Seq(Lines) /\ Len(z) = Len(y) + 1 /\ Cut(y \o Live(s), z \o Live(u), 0)
  BY <1>2, <1>3, <1>5, MovedUp
<1> HIDE DEF z
<1>7. /\ w \in Seq(Lines) /\ Len(w) = Len(z) - CutOff(z) /\ CutOff(z) \in Nat
      /\ Cut(z \o Live(u), w \o Live(u), CutOff(z))
  <2>1. CutOff(z) \in Nat
    BY <1>1, <1>6 DEF CutOff
  <2> QED
    BY <1>1, <1>6, <2>1, CappedIs, CutFront
<1> HIDE DEF w
<1> DEFINE k == CutOff(z) + (0 + CutOff(x))
<1>8. Cut(Everything(s), Everything(u), k)
  <2>1. Cut(x \o Live(s), z \o Live(u), 0 + CutOff(x))
    BY <1>5, <1>6, CutTwice
  <2> QED
    BY <1>1, <1>4, <1>7, <2>1, CutTwice
<1>9. /\ k \in Nat
      /\ k > 0 => Len(u.scrollback) = MaxScrollback /\ Above(s) + 1 > MaxScrollback
      /\ Len(s.scrollback) <= Len(u.scrollback)
      /\ Above(u) <= Above(s) + 1
  <2>1. /\ CutOff(x) = IF Len(x) > MaxScrollback THEN Len(x) - MaxScrollback ELSE 0
        /\ CutOff(z) = IF Len(z) > MaxScrollback THEN Len(z) - MaxScrollback ELSE 0
    BY DEF CutOff
  <2> DEFINE a == Len(x)
             b == Len(s.scrollback)
             c == CutOff(x)
             d == CutOff(z)
  <2>2. /\ a \in Nat /\ b \in Nat /\ b <= a /\ b <= MaxScrollback /\ MaxScrollback \in Nat
        /\ Above(s) = a /\ Len(s.scrollback) = b /\ k = d + (0 + c)
        /\ Len(u.scrollback) = ((a - c) + 1) - d /\ Above(u) = ((a - c) + 1) - d
        /\ c = IF a > MaxScrollback THEN a - MaxScrollback ELSE 0
        /\ d = IF (a - c) + 1 > MaxScrollback THEN ((a - c) + 1) - MaxScrollback ELSE 0
    BY <1>1, <1>3, <1>4, <1>5, <1>6, <1>7, <2>1
  <2> HIDE DEF a, b, c, d, k
  <2>3. CASE a > MaxScrollback
    <3>1. c = a - MaxScrollback /\ d = 1
      BY <2>2, <2>3
    <3> QED
      BY <2>2, <2>3, <3>1
  <2>4. CASE a = MaxScrollback
    <3>1. c = 0 /\ d = 1
      BY <2>2, <2>4
    <3> QED
      BY <2>2, <2>4, <3>1
  <2>5. CASE a < MaxScrollback
    <3>1. c = 0 /\ d = 0
      BY <2>2, <2>5
    <3> QED
      BY <2>2, <2>5, <3>1
  <2> QED
    BY <2>2, <2>3, <2>4, <2>5
<1> HIDE DEF k
<1>10. Follows(s, u, 1)
  BY <1>3, <1>8, <1>9 DEF Follows
<1> QED
  BY <1>2, <1>10

(* A line feed leaves the text as it is, but for what the cap cuts off.    *)
LEMMA LineFeedText ==
  ASSUME NEW s, Shaped(s), Mirrors(s), Calm(s)
  PROVE  LET u == LineFeed(s) IN
         Shaped(u) /\ Mirrors(u) /\ Plain(u) /\ Follows(s, u, 1)
<1> DEFINE u == LineFeed(s)
<1>1. /\ Shaped(u) /\ Mirrors(u)
      /\ s.cursor.r < s.bottom => Descends(s, u)
      /\ ~(s.cursor.r < s.bottom) => Scrolls(s, u)
  BY LineFeedType
<1> HIDE DEF u
<1>2. CASE s.cursor.r < s.bottom
  BY <1>1, <1>2, DescendsText DEF u
<1>3. CASE ~(s.cursor.r < s.bottom)
  BY <1>1, <1>3, ScrollsText DEF u
<1> QED
  BY <1>2, <1>3

-----------------------------------------------------------------------------
(* A glyph goes behind everything that is written.                         *)
Grows(b, u, glyph) ==
  \E w \in Seq(Lines), k \in Nat :
    /\ Extended(Everything(b), w, glyph) /\ Cut(w, Everything(u), k)
    /\ k > 0 => Len(u.scrollback) = MaxScrollback /\ Above(b) > MaxScrollback
    /\ Len(b.scrollback) <= Len(u.scrollback)
    /\ Above(u) <= Above(b)
    /\ u.rows = b.rows

(* Making room for a glyph is a line feed at most.                         *)
LEMMA WrappedText ==
  ASSUME NEW s, Shaped(s), Mirrors(s), Plain(s), NEW wide \in BOOLEAN
  PROVE  LET b == Wrapped(s, wide) IN
         /\ Shaped(b) /\ Mirrors(b) /\ Plain(b) /\ Follows(s, b, 1)
         /\ b.cursor.c < Cols /\ (wide => b.cursor.c + 1 < Cols)
<1> DEFINE b == Wrapped(s, wide)
<1>1. /\ Shaped(b) /\ Mirrors(b)
      /\ b.cursor.c < Cols /\ (wide => b.cursor.c + 1 < Cols)
  BY WrappedType
<1>2. b = s \/ b = LineFeed(s)
  <2>1. LineFeed(s).cursor.c = 0
    BY LineFeedType
  <2>2. s.cols = Cols /\ Cols - 1 # 0
    BY ViewAssumption DEF Shaped, Screens
  <2> QED
    BY <2>1, <2>2 DEF Wrapped
<1>3. Plain(s) => Calm(s)
  BY DEF Plain
<1> HIDE DEF b
<1>4. CASE b = s
  BY <1>1, <1>4, SameFollows DEF b
<1>5. CASE b = LineFeed(s)
  <2>1. Plain(b) /\ Follows(s, b, 1)
    BY <1>3, <1>5, LineFeedText
  <2> QED
    BY <1>1, <2>1 DEF b
<1> QED
  BY <1>2, <1>4, <1>5

(* A line that a glyph is added to, behind its others.                     *)
LineGrows(row, new, c, k) ==
  /\ DOMAIN LineOf(new) = DOMAIN LineOf(row) \cup {c} /\ LineOf(new)[c] = k
  /\ \A d \in DOMAIN LineOf(row) : d < c /\ LineOf(new)[d] = LineOf(row)[d]

LEMMA RowWithLine ==
  ASSUME NEW row \in [0..(Cols - 1) -> Int], NEW c \in 0..(Cols - 1),
         NEW k \in Nat, k > 0, NEW wide \in BOOLEAN,
         BlankFrom(row, c)
  PROVE  LET new == RowWith(row, c, k, wide) IN
         LineGrows(row, new, c, k) /\ BlankFrom(new, c + IF wide THEN 2 ELSE 1)
<1> DEFINE new == RowWith(row, c, k, wide)
<1>0. Cols \in Nat /\ c \in Nat /\ DOMAIN row = 0..(Cols - 1)
  BY ViewAssumption
<1>1. /\ DOMAIN LineOf(row) = {d \in 0..(Cols - 1) : row[d] > 0}
      /\ \A d \in DOMAIN LineOf(row) : LineOf(row)[d] = row[d]
  BY <1>0 DEF LineOf
<1>2. /\ DOMAIN new = 0..(Cols - 1) /\ new[c] = k
      /\ \A d \in 0..(Cols - 1) : d # c => new[d] = IF wide /\ d = c + 1 THEN -k ELSE row[d]
  BY DEF RowWith
<1> HIDE DEF new
<1>3. /\ DOMAIN LineOf(new) = {d \in 0..(Cols - 1) : new[d] > 0}
      /\ \A d \in DOMAIN LineOf(new) : LineOf(new)[d] = new[d]
  BY <1>2 DEF LineOf
<1>4. \A d \in 0..(Cols - 1) : d < c => new[d] = row[d]
  BY <1>0, <1>2
<1>5. \A d \in 0..(Cols - 1) : ~(d < c) => row[d] = 0
  BY <1>0 DEF BlankFrom, Blank
<1>6. \A d \in 0..(Cols - 1) : d > c => new[d] = 0 \/ new[d] = -k
  BY <1>0, <1>2, <1>5
<1>7. \A d \in 0..(Cols - 1) : new[d] > 0 <=> row[d] > 0 \/ d = c
  <2> TAKE d \in 0..(Cols - 1)
  <2>1. CASE d < c
    BY <1>0, <1>4, <2>1
  <2>2. CASE d = c
    BY <1>2, <2>2
  <2>3. CASE d > c
    BY <1>0, <1>5, <1>6, <2>3
  <2> QED
    BY <1>0, <2>1, <2>2, <2>3
<1>8. DOMAIN LineOf(new) = DOMAIN LineOf(row) \cup {c}
  BY <1>1, <1>3, <1>7
<1>9. LineOf(new)[c] = k
  BY <1>2, <1>3, <1>8
<1>10. ASSUME NEW d \in DOMAIN LineOf(row)
       PROVE  d < c /\ LineOf(new)[d] = LineOf(row)[d]
  <2>1. d \in 0..(Cols - 1) /\ row[d] > 0 /\ d \in DOMAIN LineOf(new)
    BY <1>1, <1>8
  <2>2. d < c
    BY <1>5, <2>1
  <2> QED
    BY <1>1, <1>3, <1>4, <2>1, <2>2
<1>11. BlankFrom(new, c + IF wide THEN 2 ELSE 1)
  <2>1. CASE wide
    BY <1>0, <1>2, <1>5, <2>1 DEF BlankFrom, Blank
  <2>2. CASE ~wide
    BY <1>0, <1>2, <1>5, <2>2 DEF BlankFrom, Blank
  <2> QED
    BY <2>1, <2>2
<1> QED
  BY <1>8, <1>9, <1>10, <1>11 DEF new, LineGrows

(* A glyph where the cursor of a plain screen is is behind all others.     *)
LEMMA WritesText ==
  ASSUME NEW b, Shaped(b), Mirrors(b), Plain(b), NEW u, Shaped(u), Mirrors(u),
         NEW k \in Nat, k > 0, NEW wide \in BOOLEAN, Writes(b, u, k, wide),
         b.cursor.c < Cols, wide => b.cursor.c + 1 < Cols
  PROVE  Plain(u) /\ Grows(b, u, k)
<1> DEFINE r == b.cursor.r
           c == b.cursor.c
           row == b.cells[r]
           new == RowWith(row, c, k, wide)
           x == b.scrollback \o Hidden(b)
           w == x \o Live(u)
           p == Above(b) + r + 1
<1>1. /\ b.rows \in Nat /\ r \in Nat /\ r < b.rows /\ c \in 0..(Cols - 1) /\ Cols \in Nat
      /\ b.cells \in Grids(b.rows) /\ r \in 0..(b.rows - 1)
  <2>1. /\ b.rows \in Nat /\ b.cursor \in Cursors /\ Cols \in Nat /\ b.cells \in Grids(b.rows)
        /\ r < b.rows
    BY ViewAssumption DEF Shaped, Screens
  <2>2. r \in Nat /\ c \in 0..Cols
    BY <2>1 DEF Cursors
  <2> HIDE DEF r, c
  <2>3. c \in 0..(Cols - 1)
    BY <2>1, <2>2 DEF c
  <2> QED
    BY <2>1, <2>2, <2>3 DEF r
<1>2. row \in [0..(Cols - 1) -> Int]
  BY <1>1 DEF Grids
<1>3. /\ BlankFrom(row, c)
      /\ \A q \in (r + 1)..(b.rows - 1) : b.cells[q] = BlankRow(Cols)
  BY DEF Plain, Calm, BlankRows, Blank
<1>4. /\ Plainly(u) /\ u.rows = b.rows /\ u.cells = [b.cells EXCEPT ![r] = new]
      /\ u.cursor.r = r /\ u.cursor.c = c + (IF wide THEN 2 ELSE 1)
      /\ u.top = b.top /\ u.bottom = b.bottom /\ u.scrollback = Capped(x)
  BY CommittedIs DEF Writes
<1>5. /\ u.cells[r] = new
      /\ \A q \in 0..(b.rows - 1) : q # r => u.cells[q] = b.cells[q]
  <2> HIDE DEF r, new
  <2> QED
    BY <1>1, <1>4 DEF Grids
<1> HIDE DEF r, c, new
<1>7. LineGrows(row, new, c, k) /\ BlankFrom(new, c + IF wide THEN 2 ELSE 1)
  <2> HIDE DEF row
  <2> QED
    BY <1>1, <1>2, <1>3, RowWithLine DEF new
<1> HIDE DEF row
<1>8. Plain(u)
  <2>1. BlankRows(u.cells, u.cursor.r + 1, u.rows)
    BY <1>1, <1>3, <1>4, <1>5 DEF BlankRows
  <2>2. u.top = 0 /\ u.cursor.r <= u.bottom
    BY <1>4 DEF Plain, Calm, r
  <2>3. Calm(u)
    BY <1>4, <2>1, <2>2 DEF Calm, Plainly
  <2>4. BlankFrom(u.cells[u.cursor.r], u.cursor.c)
    BY <1>4, <1>5, <1>7
  <2> QED
    BY <1>4, <2>3, <2>4 DEF Plain, Plainly
<1>9. /\ x \in Seq(Lines) /\ Len(x) = Above(b) /\ Above(b) \in Nat /\ MaxScrollback \in Nat
      /\ Everything(b) = x \o Live(b) /\ Live(b) \in Seq(Lines) /\ Live(u) \in Seq(Lines)
      /\ Len(b.scrollback) \in Nat /\ Len(b.scrollback) <= Above(b)
      /\ Len(b.scrollback) <= MaxScrollback
  <2>1. b.view \in Nat /\ Len(b.scrollback) <= MaxScrollback
    BY DEF Shaped, Screens
  <2>2. Len(b.scrollback) \in Nat
    BY EverythingType
  <2>3. Len(b.scrollback) <= Above(b)
    BY <2>1, <2>2 DEF Above
  <2>4. Live(u) \in Seq(Lines)
    BY LiveType
  <2> QED
    BY <2>1, <2>2, <2>3, <2>4, EverythingType DEF Everything
<1>10. Everything(u) = Capped(x) \o Live(u) /\ Above(u) = Len(Capped(x))
  BY <1>4, EverythingType
<1> HIDE DEF x
<1>11. w \in Seq(Lines) /\ Cut(w, Everything(u), CutOff(x))
  BY <1>9, <1>10, CutFront, AtCat
<1>12. ASSUME NEW i \in Pos
       PROVE  /\ At(Everything(b), i) =
                   IF i <= Above(b) THEN At(x, i)
                   ELSE IF i - Above(b) <= b.rows THEN LineOf(b.cells[i - Above(b) - 1]) ELSE NoLine
              /\ At(w, i) =
                   IF i <= Above(b) THEN At(x, i)
                   ELSE IF i - Above(b) <= b.rows THEN LineOf(u.cells[i - Above(b) - 1]) ELSE NoLine
  <2>1. /\ At(Everything(b), i) = IF i <= Above(b) THEN At(x, i) ELSE At(Live(b), i - Above(b))
        /\ At(w, i) = IF i <= Above(b) THEN At(x, i) ELSE At(Live(u), i - Above(b))
    BY <1>9, AtCat
  <2>2. CASE i <= Above(b)
    BY <2>1, <2>2
  <2>3. CASE ~(i <= Above(b))
    <3>1. i - Above(b) \in Pos
      BY <1>9, <2>3 DEF Pos
    <3>2. /\ At(Live(b), i - Above(b)) = IF i - Above(b) <= b.rows
                                         THEN LineOf(b.cells[i - Above(b) - 1]) ELSE NoLine
          /\ At(Live(u), i - Above(b)) = IF i - Above(b) <= u.rows
                                         THEN LineOf(u.cells[i - Above(b) - 1]) ELSE NoLine
      BY <3>1, LiveAt
    <3> QED
      BY <1>4, <2>1, <2>3, <3>2
  <2> QED
    BY <2>2, <2>3
<1> HIDE DEF w
<1>13. Extended(Everything(b), w, k)
  <2>0. /\ p \in Pos /\ p \in Nat /\ ~(p <= Above(b)) /\ p - Above(b) <= b.rows
        /\ p - Above(b) - 1 = r
    <3>1. Above(b) \in Nat /\ r \in Nat /\ b.rows \in Nat /\ r < b.rows
      BY <1>1, <1>9
    <3>2. p = Above(b) + r + 1
      OBVIOUS
    <3> HIDE DEF p
    <3>3. p \in Nat /\ p # 0
      BY <3>1, <3>2
    <3>4. ~(p <= Above(b)) /\ p - Above(b) <= b.rows /\ p - Above(b) - 1 = r
      BY <3>1, <3>2
    <3> QED
      BY <3>3, <3>4 DEF Pos
  <2> HIDE DEF p
  <2>1. At(Everything(b), p) = LineOf(row) /\ At(w, p) = LineOf(new)
    BY <1>5, <1>12, <2>0 DEF row
  <2>2. ASSUME NEW i \in Pos, i > p
        PROVE  DOMAIN At(Everything(b), i) = {}
    <3>1. i \in Nat /\ ~(i <= Above(b))
      BY <1>9, <2>0, <2>2 DEF Pos
    <3>2. i - Above(b) <= b.rows => i - Above(b) - 1 \in (r + 1)..(b.rows - 1)
      BY <1>1, <1>9, <2>0, <2>2, <3>1, SMTT(30)
    <3>3. At(Everything(b), i) = NoLine
      BY <1>3, <1>12, <3>1, <3>2, BlankLine
    <3> QED
      BY <3>3 DEF NoLine
  <2>3. ASSUME NEW i \in Pos, i # p
        PROVE  At(w, i) = At(Everything(b), i)
    <3>1. CASE i <= Above(b)
      BY <1>12, <3>1
    <3>2. CASE ~(i <= Above(b))
      <4>1. i \in Nat
        BY DEF Pos
      <4>2. i - Above(b) - 1 \in Nat /\ i - Above(b) - 1 # r
        BY <1>1, <1>9, <2>0, <2>3, <3>2, <4>1, SMTT(30)
      <4>3. i - Above(b) <= b.rows => i - Above(b) - 1 \in 0..(b.rows - 1)
        BY <1>1, <1>9, <3>2, <4>1, SMTT(30)
      <4> QED
        BY <1>5, <1>12, <3>2, <4>2, <4>3
    <3> QED
      BY <3>1, <3>2
  <2>4. c \in Nat
    BY <1>1
  <2> QED
    BY <1>7, <2>0, <2>1, <2>2, <2>3, <2>4 DEF Extended, LineGrows
<1>14. /\ CutOff(x) \in Nat
       /\ CutOff(x) > 0 => Len(u.scrollback) = MaxScrollback /\ Above(b) > MaxScrollback
       /\ Len(b.scrollback) <= Len(u.scrollback)
       /\ Above(u) <= Above(b)
  <2>1. Len(Capped(x)) = Above(b) - CutOff(x)
    BY <1>9, CappedIs
  <2>2. CutOff(x) = IF Above(b) > MaxScrollback THEN Above(b) - MaxScrollback ELSE 0
    BY <1>9 DEF CutOff
  <2>3. Len(u.scrollback) = Above(b) - CutOff(x) /\ Above(u) = Above(b) - CutOff(x)
    BY <1>4, <1>10, <2>1
  <2>4. CASE Above(b) > MaxScrollback
    BY <1>9, <2>2, <2>3, <2>4
  <2>5. CASE ~(Above(b) > MaxScrollback)
    BY <1>9, <2>2, <2>3, <2>5
  <2> QED
    BY <2>4, <2>5
<1>15. Grows(b, u, k)
  BY <1>4, <1>11, <1>13, <1>14 DEF Grows
<1> QED
  BY <1>8, <1>15

-----------------------------------------------------------------------------
(* The text is the scrollback and then what a fit shows rows of: the       *)
(* snapshot, or the screen.                                                *)
Source(s) == IF s.snapshot = None THEN s ELSE s.snapshot

(* The line at a place of the document is one of the scrollback or of what *)
(* the fit shows rows of: the two have the same text.                      *)
LEMMA TextAt ==
  ASSUME NEW s, Shaped(s), Mirrors(s), Calm(s), NEW i \in Pos
  PROVE  At(Everything(s), i) =
           LET j == i - Len(s.scrollback) IN
           IF j <= 0 THEN At(s.scrollback, i)
           ELSE IF j <= Source(s).rows THEN LineOf(Source(s).cells[j - 1]) ELSE NoLine
<1> DEFINE n == Len(s.scrollback)
           x == s.scrollback \o Hidden(s)
           j == i - n
<1>1. /\ s.scrollback \in Seq(Lines) /\ Hidden(s) \in Seq(Lines) /\ Live(s) \in Seq(Lines)
      /\ x \in Seq(Lines) /\ Len(x) = Above(s) /\ Everything(s) = x \o Live(s)
      /\ Len(Hidden(s)) = s.view /\ s.rows \in Nat /\ n \in Nat /\ s.view \in Nat
      /\ Above(s) = n + s.view
  <2>1. s.view \in Nat
    BY DEF Shaped, Screens
  <2> QED
    BY <2>1, EverythingType, HiddenType DEF Everything, Above
<1>2. /\ At(Everything(s), i) = IF i <= Above(s) THEN At(x, i) ELSE At(Live(s), i - Above(s))
      /\ At(x, i) = IF i <= n THEN At(s.scrollback, i) ELSE At(Hidden(s), j)
  <2>1. At(x, i) = IF i <= n THEN At(s.scrollback, i) ELSE At(Hidden(s), j)
    BY <1>1, AtCat
  <2> HIDE DEF x
  <2>2. At(Everything(s), i) = IF i <= Above(s) THEN At(x, i) ELSE At(Live(s), i - Above(s))
    BY <1>1, AtCat
  <2> QED
    BY <2>1, <2>2
<1> HIDE DEF n, x, j
<1>3. i \in Nat /\ i >= 1 /\ j = i - n /\ j \in Int
  BY <1>1 DEF Pos, j
<1>4. CASE j <= 0
  <2>1. i <= n /\ i <= Above(s)
    BY <1>1, <1>3, <1>4
  <2> QED
    BY <1>2, <1>4, <2>1 DEF j, n
<1>5. CASE j > 0
  <2>1. ~(i <= n) /\ j \in Pos /\ ~(j <= 0)
    BY <1>1, <1>3, <1>5 DEF Pos
  <2>2. CASE j <= s.view
    <3>1. i <= Above(s)
      BY <1>1, <1>3, <2>2
    <3>2. s.snapshot # None
      BY <1>1, <1>3, <1>5, <2>2 DEF Mirrors
    <3>3. Hidden(s) = [k \in 1..s.view |-> LineOf(s.snapshot.cells[k - 1])]
      BY <3>2 DEF Hidden
    <3>4. j \in 1..s.view
      BY <1>1, <1>3, <1>5, <2>2
    <3>5. At(Hidden(s), j) = LineOf(s.snapshot.cells[j - 1])
      BY <3>3, <3>4 DEF At
    <3>6. j <= s.snapshot.rows
      <4>1. PICK m \in Heights : s.snapshot \in Snapshots(m)
        BY <3>2 DEF Shaped, Screens
      <4>2. s.snapshot.rows \in Nat
        BY ViewAssumption, <4>1 DEF Snapshots
      <4>3. s.view + s.rows <= s.snapshot.rows
        BY <3>2 DEF Mirrors
      <4> QED
        BY <1>1, <1>3, <2>2, <4>2, <4>3, SMTT(30)
    <3> QED
      BY <1>2, <2>1, <3>1, <3>2, <3>5, <3>6 DEF Source, j, n
  <2>3. CASE j > s.view
    <3> DEFINE k == i - Above(s)
    <3>0. s.rows \in Nat /\ s.view \in Nat
      BY <1>1
    <3>1. ~(i <= Above(s)) /\ k \in Pos /\ k \in Nat /\ k >= 1 /\ j = s.view + k
      BY <1>1, <1>3, <2>3, SMTT(30) DEF Pos
    <3> HIDE DEF k
    <3>2. At(Everything(s), i) = IF k <= s.rows THEN LineOf(s.cells[k - 1]) ELSE NoLine
      BY <1>2, <3>1, LiveAt DEF k
    <3>3. CASE s.snapshot = None
      <4>1. j = k
        BY <3>1, <3>3 DEF Mirrors
      <4> QED
        BY <2>1, <3>2, <3>3, <4>1 DEF Source, j, n
    <3>4. CASE s.snapshot # None
      <4>1. PICK m \in Heights : s.snapshot \in Snapshots(m)
        BY <3>4 DEF Shaped, Screens
      <4>2. s.snapshot.rows \in Nat
        BY ViewAssumption, <4>1 DEF Snapshots
      <4>3. /\ s.view + s.rows <= s.snapshot.rows
            /\ \A r \in 0..(s.rows - 1) : s.cells[r] = s.snapshot.cells[s.view + r]
        BY <3>4 DEF Mirrors, RowsOf
      <4>4. CASE k <= s.rows
        <5>1. k - 1 \in 0..(s.rows - 1) /\ s.view + (k - 1) = j - 1
          BY <3>0, <3>1, <4>4
        <5>2. j <= s.snapshot.rows
          BY <3>0, <3>1, <4>2, <4>3, <4>4
        <5> QED
          BY <2>1, <3>2, <3>4, <4>3, <4>4, <5>1, <5>2 DEF Source, j, n
      <4>5. CASE ~(k <= s.rows)
        <5>1. At(Everything(s), i) = NoLine
          BY <3>2, <4>5
        <5>2. j <= s.snapshot.rows => j - 1 \in (s.view + s.rows)..(s.snapshot.rows - 1)
          <6>1. j \in Nat /\ j >= s.view + s.rows + 1
            BY <3>0, <3>1, <4>5
          <6> QED
            BY <3>0, <4>2, <6>1
        <5>3. j <= s.snapshot.rows => s.snapshot.cells[j - 1] = BlankRow(Cols)
          BY <3>4, <5>2 DEF Calm, BlankRows
        <5> QED
          BY <2>1, <3>4, <5>1, <5>3, BlankLine DEF Source, j, n
      <4> QED
        BY <4>4, <4>5
    <3> QED
      BY <3>3, <3>4
  <2> QED
    BY <1>1, <1>3, <2>2, <2>3, SMTT(30)
<1> QED
  BY <1>3, <1>4, <1>5

(* The screen that is not written on at or behind its cursor.              *)
LEMMA NotOnWritten ==
  ASSUME NEW s, Shaped(s), ~OnWritten(s)
  PROVE  BlankRows(s.cells, s.cursor.r + 1, s.rows) /\ BlankFrom(s.cells[s.cursor.r], s.cursor.c)
<1>1. /\ s.rows \in Nat /\ s.cols = Cols /\ Cols \in Nat /\ s.cells \in Grids(s.rows)
      /\ s.cursor.r \in Nat /\ s.cursor.r < s.rows /\ s.cursor.c \in Nat
  BY ViewAssumption DEF Shaped, Screens, Cursors
<1>2. \A r \in 0..(s.rows - 1), c \in 0..(Cols - 1) :
        r > s.cursor.r \/ (r = s.cursor.r /\ c >= s.cursor.c) => s.cells[r][c] = Blank
  BY <1>1 DEF OnWritten, RowsOf, ColsOf
<1>3. ASSUME NEW r \in (s.cursor.r + 1)..(s.rows - 1)
      PROVE  s.cells[r] = BlankRow(Cols)
  <2>1. r \in 0..(s.rows - 1) /\ r > s.cursor.r
    BY <1>1
  <2>2. s.cells[r] \in [0..(Cols - 1) -> Int]
    BY <1>1, <2>1 DEF Grids
  <2>3. \A c \in 0..(Cols - 1) : s.cells[r][c] = Blank
    BY <1>2, <2>1
  <2> QED
    BY <2>2, <2>3 DEF BlankRow
<1>4. \A c \in s.cursor.c..(Cols - 1) : s.cells[s.cursor.r][c] = Blank
  <2>1. s.cursor.r \in 0..(s.rows - 1)
    BY <1>1
  <2> QED
    BY <1>1, <1>2, <2>1
<1> QED
  BY <1>3, <1>4 DEF BlankRows, BlankFrom

(* What is restored, as that of the screen it is taken from.               *)
LEMMA RestPlain ==
  ASSUME NEW s, Shaped(s), Mirrors(s), Plain(s), NEW rows \in Heights,
         rows # s.rows, Rest(s, rows) # None
  PROVE  LET rest == Rest(s, rows)
             snap == Snap(s, rows)
         IN  /\ rest.top = 0 /\ rest.cursor.r <= rest.bottom /\ rest.cursor.r < snap.rows
             /\ BlankRows(snap.cells, rest.cursor.r + 1, snap.rows)
<1>1. CASE IsFirstShrink(s, rows)
  <2>1. Rest(s, rows) = NewRestore(s) /\ Snap(s, rows) = NewSnapshot(s)
    BY <1>1 DEF Rest, Snap
  <2> QED
    BY <2>1 DEF NewRestore, NewSnapshot, Plain, Calm, Shaped
<1>2. CASE ~IsFirstShrink(s, rows)
  BY <1>2 DEF Rest, Snap, Plain
<1> QED
  BY <1>1, <1>2

(* What a fit leaves below the view is blank.                              *)
LEMMA FitCalm ==
  ASSUME NEW s, Shaped(s), Mirrors(s), Plain(s), NEW rows \in Heights,
         rows # s.rows, NEW u, Sized(s, rows, u), Snap(s, rows) # None, ~Done(s, rows)
  PROVE  BlankRows(u.snapshot.cells, u.view + u.rows, u.snapshot.rows)
<1> DEFINE snap == Snap(s, rows)
           n == snap.rows
           v == Starts(s, rows)
           rest == Rest(s, rows)
           k == rest.cursor.r - rows + 1
           c == s.cursor.r - rows + 1
<1>1. u.snapshot = snap /\ u.view = v /\ u.rows = rows
  BY DEF Sized
<1>2. /\ rows \in Nat /\ s.rows \in Nat /\ s.view \in Nat /\ n \in Nat
      /\ s.view + s.rows <= n
      /\ \A r \in RowsOf(s) : s.cells[r] = snap.cells[s.view + r]
      /\ rest \in {None} \cup Restores /\ NewRestore(s) # None
  BY SnapIs
<1>3. rows < n
  BY <1>2 DEF Done
<1>4. /\ v \in Nat /\ v + rows <= n
      /\ rest # None => v = IF k < 0 THEN 0 ELSE IF k > n - rows THEN n - rows ELSE k
      /\ rest = None /\ rows < s.rows => v = s.view + IF c < 0 THEN 0 ELSE c
      /\ rest = None /\ rows > s.rows => v = IF s.view <= n - rows THEN s.view ELSE n - rows
  BY <1>3, StartsIs
<1>5. s.cursor.r \in Nat /\ (rest # None => rest.cursor.r \in Nat)
  <2>1. s.cursor \in Cursors
    BY DEF Shaped, Screens
  <2>2. rest # None => rest.cursor \in Cursors
    BY <1>2 DEF Restores
  <2> HIDE DEF rest
  <2> QED
    BY <2>1, <2>2 DEF Cursors
<1>6. rest = None => snap = s.snapshot /\ s.snapshot # None
  <2>1. rest = None => ~IsFirstShrink(s, rows)
    BY <1>2 DEF Rest
  <2> QED
    BY <2>1 DEF Snap
<1>7. s.snapshot # None => BlankRows(s.snapshot.cells, s.view + s.rows, s.snapshot.rows)
  BY DEF Plain, Calm
<1>8. BlankRows(s.cells, s.cursor.r + 1, s.rows)
  BY DEF Plain, Calm
<1>9. rest # None => rest.cursor.r < n /\ BlankRows(snap.cells, rest.cursor.r + 1, n)
  BY RestPlain
<1> HIDE DEF snap, v, rest
<1>10. ASSUME NEW r \in (v + rows)..(n - 1)
       PROVE  snap.cells[r] = BlankRow(Cols)
  <2>0. r \in Nat /\ r >= v + rows /\ r < n
    BY <1>2, <1>4
  <2>1. CASE rest # None
    <3>1. r >= rest.cursor.r + 1
      BY <1>2, <1>4, <1>5, <1>9, <2>0, <2>1
    <3> QED
      BY <1>2, <1>5, <1>9, <2>0, <2>1, <3>1 DEF BlankRows
  <2>2. CASE rest = None /\ rows < s.rows
    <3>1. r >= s.view + s.cursor.r + 1
      BY <1>2, <1>4, <1>5, <2>0, <2>2
    <3>2. CASE r < s.view + s.rows
      <4>1. /\ r - s.view \in 0..(s.rows - 1) /\ s.view + (r - s.view) = r
            /\ r - s.view \in (s.cursor.r + 1)..(s.rows - 1)
        BY <1>2, <1>5, <2>0, <3>1, <3>2
      <4> QED
        BY <1>2, <1>8, <4>1 DEF BlankRows, RowsOf
    <3>3. CASE ~(r < s.view + s.rows)
      BY <1>2, <1>6, <1>7, <2>0, <2>2, <3>3 DEF BlankRows
    <3> QED
      BY <3>2, <3>3
  <2>3. CASE rest = None /\ rows > s.rows
    <3>1. r >= s.view + s.rows
      BY <1>2, <1>4, <2>0, <2>3
    <3> QED
      BY <1>2, <1>6, <1>7, <2>0, <2>3, <3>1 DEF BlankRows
  <2> QED
    BY <1>2, <2>1, <2>2, <2>3
<1> QED
  BY <1>1, <1>10 DEF BlankRows

(* A fit that does not set the cursor back on the text leaves it as it is. *)
LEMMA FitPlain ==
  ASSUME NEW s, Shaped(s), Mirrors(s), Plain(s), NEW rows \in Heights,
         rows # s.rows, NEW u, Shaped(u), Mirrors(u), Sized(s, rows, u), ~OnWritten(u)
  PROVE  Plain(u)
<1> DEFINE old == Old(s, rows)
           rest == Rest(s, rows)
<1>1. /\ rows \in Nat /\ rows > 0 /\ old \in Restores
      /\ Shift(s, rows) \in Nat
  BY SnapIs, StartsIs
<1>2. old.top = 0 /\ old.cursor.r <= old.bottom
  <2>1. CASE rest # None
    BY <2>1, RestPlain DEF Old
  <2>2. CASE rest = None
    BY <2>2 DEF Old, NewRestore, Plain, Calm
  <2> QED
    BY <2>1, <2>2
<1>3. old.cursor.r \in Nat /\ old.bottom \in Nat
  BY <1>1 DEF Restores, Cursors
<1>4. /\ u.rows = rows /\ u.cursor.r = RowAt(s, rows, old.cursor.r)
      /\ u.top = TopAt(s, rows)
      /\ u.bottom = IF IsFull(s, rows) THEN rows - 1
                    ELSE Max({TopAt(s, rows), RowAt(s, rows, old.bottom)})
  BY DEF Sized, PlaceAt
<1> HIDE DEF old
<1>5. TopAt(s, rows) = 0
  <2>1. CASE IsFull(s, rows)
    BY <2>1 DEF TopAt
  <2>2. CASE ~IsFull(s, rows)
    <3>1. 0 \in Nat /\ TopAt(s, rows) = RowAt(s, rows, 0)
      BY <1>2, <2>2 DEF TopAt, old
    <3>2. RowAt(s, rows, 0) = LET to == 0 - Shift(s, rows) IN
                              IF to < 0 THEN 0 ELSE IF to > rows - 1 THEN rows - 1 ELSE to
      BY <3>1, RowAtIs
    <3> QED
      BY <1>1, <3>1, <3>2
  <2> QED
    BY <2>1, <2>2
<1>6. u.cursor.r <= u.bottom
  <2> DEFINE a == RowAt(s, rows, old.cursor.r)
             b == RowAt(s, rows, old.bottom)
  <2>1. /\ a = LET to == old.cursor.r - Shift(s, rows) IN
               IF to < 0 THEN 0 ELSE IF to > rows - 1 THEN rows - 1 ELSE to
        /\ b = LET to == old.bottom - Shift(s, rows) IN
               IF to < 0 THEN 0 ELSE IF to > rows - 1 THEN rows - 1 ELSE to
        /\ a \in Nat /\ a < rows /\ b \in Nat
    BY <1>3, RowAtIs
  <2> HIDE DEF a, b
  <2>2. a <= b
    BY <1>1, <1>2, <1>3, <2>1
  <2>3. Max({0, b}) = b
    BY <2>1, MaxIs
  <2> QED
    BY <1>1, <1>4, <1>5, <2>1, <2>2, <2>3 DEF a, b
<1>7. BlankRows(u.cells, u.cursor.r + 1, u.rows) /\ BlankFrom(u.cells[u.cursor.r], u.cursor.c)
  BY NotOnWritten
<1>8. CASE Done(s, rows) \/ Snap(s, rows) = None
  <2>1. u.snapshot = None /\ u.restore = None
    BY <1>8, SnapIs DEF Sized
  <2> QED
    BY <1>4, <1>5, <1>6, <1>7, <2>1 DEF Plain, Calm
<1>9. CASE ~Done(s, rows) /\ Snap(s, rows) # None
  <2>1. u.snapshot = Snap(s, rows) /\ u.restore = rest
    BY <1>9 DEF Sized
  <2>2. BlankRows(u.snapshot.cells, u.view + u.rows, u.snapshot.rows)
    BY <1>9, FitCalm
  <2>3. rest # None =>
          /\ rest.top = 0 /\ rest.cursor.r <= rest.bottom
          /\ rest.cursor.r < Snap(s, rows).rows
          /\ BlankRows(Snap(s, rows).cells, rest.cursor.r + 1, Snap(s, rows).rows)
    BY RestPlain
  <2> QED
    BY <1>4, <1>5, <1>6, <1>7, <2>1, <2>2, <2>3 DEF Plain, Calm
<1> QED
  BY <1>8, <1>9

(* Such a fit leaves the text where it is, wherever it draws the line      *)
(* between what is hidden and what is shown.                               *)
LEMMA FitText ==
  ASSUME NEW s, Shaped(s), Mirrors(s), Plain(s), NEW rows \in Heights,
         rows # s.rows, NEW u, Shaped(u), Mirrors(u), Sized(s, rows, u), ~OnWritten(u)
  PROVE  /\ Plain(u) /\ Cut(Everything(s), Everything(u), 0)
         /\ u.scrollback = s.scrollback
<1> DEFINE from == From(s, rows)
<1>1. Plain(u) /\ Calm(u) /\ Calm(s) /\ u.scrollback = s.scrollback
  BY FitPlain DEF Plain, Sized
(* A fit shows rows of the same as before.                                 *)
<1>2. /\ from.rows = Source(s).rows /\ from.cells = Source(s).cells
      /\ from.rows \in Nat
  <2>1. CASE IsFirstShrink(s, rows)
    BY <2>1, CellsAtIs, SnapIs DEF From, Snap, Source, NewSnapshot, IsFirstShrink
  <2>2. CASE ~IsFirstShrink(s, rows)
    BY <2>2, CellsAtIs DEF From, Snap, Source
  <2> QED
    BY <2>1, <2>2
<1> HIDE DEF from
<1>3. \A j \in Nat \ {0} :
        (IF j <= Source(u).rows THEN LineOf(Source(u).cells[j - 1]) ELSE NoLine)
          = (IF j <= from.rows THEN LineOf(from.cells[j - 1]) ELSE NoLine)
  <2>1. CASE Done(s, rows) \/ Snap(s, rows) = None
    <3>1. /\ Source(u) = u /\ u.rows = rows /\ u.cells = CellsAt(s, rows) /\ rows \in Nat
      BY <2>1, SnapIs DEF Sized, Source
    <3>2. Starts(s, rows) = 0 /\ from.rows <= rows
      <4>1. CASE Snap(s, rows) = None
        BY <4>1, SnapIs, StartsIs DEF From, from
      <4>2. CASE Done(s, rows) /\ Snap(s, rows) # None
        BY <4>2, SnapIs, StartsIs DEF From, from, Done
      <4> QED
        BY <2>1, <4>1, <4>2
    <3>3. \A r \in 0..(rows - 1) :
            u.cells[r] = IF r < from.rows THEN from.cells[r] ELSE BlankRow(Cols)
      <4>1. \A r \in 0..(rows - 1) : 0 + r = r
        BY <3>1
      <4> QED
        BY <3>1, <3>2, <4>1, CellsAtIs DEF from
    <3> TAKE j \in Nat \ {0}
    <3>4. CASE j <= from.rows
      <4>1. j - 1 \in 0..(rows - 1) /\ j - 1 < from.rows /\ j <= rows
        BY <1>2, <3>1, <3>2, <3>4
      <4> QED
        BY <3>1, <3>3, <3>4, <4>1
    <3>5. CASE ~(j <= from.rows)
      <4>1. j <= rows => j - 1 \in 0..(rows - 1) /\ ~(j - 1 < from.rows)
        BY <1>2, <3>1, <3>5
      <4> QED
        BY <3>1, <3>3, <3>5, <4>1, BlankLine
    <3> QED
      BY <3>4, <3>5
  <2>2. CASE ~Done(s, rows) /\ Snap(s, rows) # None
    BY <2>2 DEF Sized, Source, From, from
  <2> QED
    BY <2>1, <2>2
<1>4. ASSUME NEW i \in Pos
      PROVE  At(Everything(u), i) = At(Everything(s), i)
  <2> DEFINE j == i - Len(s.scrollback)
  <2>1. At(Everything(s), i) =
          IF j <= 0 THEN At(s.scrollback, i)
          ELSE IF j <= Source(s).rows THEN LineOf(Source(s).cells[j - 1]) ELSE NoLine
    BY <1>1, TextAt
  <2>2. At(Everything(u), i) =
          IF j <= 0 THEN At(s.scrollback, i)
          ELSE IF j <= Source(u).rows THEN LineOf(Source(u).cells[j - 1]) ELSE NoLine
    BY <1>1, TextAt
  <2>3. j \in Int
    BY EverythingType DEF Pos
  <2> HIDE DEF j
  <2>4. ~(j <= 0) => j \in Nat \ {0}
    BY <2>3
  <2> QED
    BY <1>2, <1>3, <2>1, <2>2, <2>4
<1>5. Cut(Everything(s), Everything(u), 0)
  <2>1. \A i \in Pos : i + 0 = i
    BY DEF Pos
  <2> QED
    BY <1>4, <2>1 DEF Cut
<1> QED
  BY <1>1, <1>5

-----------------------------------------------------------------------------
(* The glyphs up to last, but for those the cap cut off.                   *)
Kept(s, last) ==
  /\ Sorted(Everything(s), last)
  /\ Len(s.scrollback) < MaxScrollback => Whole(Everything(s), last)

(* What follows keeps the glyphs, and a glyph that goes behind the others  *)
(* adds itself.                                                            *)
LEMMA KeptFollows ==
  ASSUME NEW s, Shaped(s), Mirrors(s), NEW u, NEW n \in Nat,
         Len(u.scrollback) \in Nat, Follows(s, u, n), NEW last \in Nat, Kept(s, last)
  PROVE  Kept(u, last)
<1>1. PICK k \in Nat :
        /\ Cut(Everything(s), Everything(u), k)
        /\ k > 0 => Len(u.scrollback) = MaxScrollback
        /\ Len(s.scrollback) <= Len(u.scrollback)
  BY DEF Follows
<1>2. Everything(s) \in Seq(Lines) /\ MaxScrollback \in Nat /\ Len(s.scrollback) \in Nat
  BY EverythingType
<1>3. Sorted(Everything(s), last)
  BY DEF Kept
<1>4. /\ Sorted(Everything(u), last)
      /\ k = 0 /\ Whole(Everything(s), last) => Whole(Everything(u), last)
  BY <1>1, <1>2, <1>3, CutSorted
<1>5. Len(u.scrollback) < MaxScrollback => k = 0 /\ Len(s.scrollback) < MaxScrollback
  BY <1>1, <1>2
<1> QED
  BY <1>4, <1>5 DEF Kept

LEMMA KeptGrows ==
  ASSUME NEW b, Shaped(b), Mirrors(b), NEW u, Len(u.scrollback) \in Nat,
         NEW last \in Nat, Grows(b, u, last + 1), Kept(b, last)
  PROVE  Kept(u, last + 1)
<1>1. PICK w \in Seq(Lines), k \in Nat :
        /\ Extended(Everything(b), w, last + 1) /\ Cut(w, Everything(u), k)
        /\ k > 0 => Len(u.scrollback) = MaxScrollback
        /\ Len(b.scrollback) <= Len(u.scrollback)
  BY DEF Grows
<1>2. Everything(b) \in Seq(Lines) /\ MaxScrollback \in Nat /\ Len(b.scrollback) \in Nat
  BY EverythingType
<1>3. Sorted(Everything(b), last)
  BY DEF Kept
<1>4. Sorted(w, last + 1) /\ (Whole(Everything(b), last) => Whole(w, last + 1))
  BY <1>1, <1>2, <1>3, ExtendedSorted
<1>5. /\ Sorted(Everything(u), last + 1)
      /\ k = 0 /\ Whole(w, last + 1) => Whole(Everything(u), last + 1)
  BY <1>1, <1>4, CutSorted
<1>6. Len(u.scrollback) < MaxScrollback => k = 0 /\ Len(b.scrollback) < MaxScrollback
  BY <1>1, <1>2
<1> QED
  BY <1>4, <1>5, <1>6 DEF Kept

(* What text and echo do: make room, write, and end the line.              *)
Appends(s, u, glyph) ==
  \E b, g :
    /\ Shaped(b) /\ Mirrors(b) /\ Shaped(g) /\ Mirrors(g)
    /\ Follows(s, b, 1) /\ Grows(b, g, glyph) /\ Follows(g, u, 1)

(* Text and echo append one glyph, with a line feed before or after it.    *)
LEMMA PutText ==
  ASSUME NEW s, Shaped(s), Mirrors(s), Plain(s), NEW wide \in BOOLEAN,
         NEW k \in Nat, k > 0
  PROVE  LET u == Put(s, k, wide)
             b == Wrapped(s, wide)
         IN  /\ Shaped(u) /\ Mirrors(u) /\ Plain(u) /\ Shaped(b) /\ Mirrors(b)
             /\ Follows(s, b, 1) /\ Grows(b, u, k)
<1> DEFINE u == Put(s, k, wide)
           b == Wrapped(s, wide)
<1>1. Shaped(u) /\ Mirrors(u) /\ Writes(b, u, k, wide)
  BY PutType
<1>2. /\ Shaped(b) /\ Mirrors(b) /\ Plain(b) /\ Follows(s, b, 1)
      /\ b.cursor.c < Cols /\ (wide => b.cursor.c + 1 < Cols)
  BY WrappedText
<1> HIDE DEF u, b
<1>3. Plain(u) /\ Grows(b, u, k)
  BY <1>1, <1>2, WritesText
<1> QED
  BY <1>1, <1>2, <1>3 DEF u, b

LEMMA TextAppends ==
  ASSUME TypeOK, Plain(screen), Text
  PROVE  Plain(screen') /\ Appends(screen, screen', next)
<1>1. PICK wide \in BOOLEAN : screen' = Put(screen, next, wide)
  BY DEF Text, Write
<1> DEFINE b == Wrapped(screen, wide)
<1>2. next \in Nat /\ next > 0 /\ Shaped(screen) /\ Mirrors(screen)
  BY DEF TypeOK
<1>3. /\ Shaped(screen') /\ Mirrors(screen') /\ Plain(screen') /\ Shaped(b) /\ Mirrors(b)
      /\ Follows(screen, b, 1) /\ Grows(b, screen', next)
  BY <1>1, <1>2, PutText
<1>4. Follows(screen', screen', 1)
  BY <1>3, SameFollows
<1> HIDE DEF b
<1> QED
  BY <1>3, <1>4 DEF Appends

LEMMA EchoAppends ==
  ASSUME TypeOK, Plain(screen), LocalEcho
  PROVE  Plain(screen') /\ Appends(screen, screen', next)
<1> DEFINE b == Wrapped(screen, FALSE)
           g == Put(screen, next, FALSE)
           back == CarriageReturn(g)
<1>1. screen' = LineFeed(back)
  BY DEF LocalEcho, Write
<1>2. next \in Nat /\ next > 0 /\ Shaped(screen) /\ Mirrors(screen) /\ FALSE \in BOOLEAN
  BY DEF TypeOK
<1>3. /\ Shaped(g) /\ Mirrors(g) /\ Plain(g) /\ Shaped(b) /\ Mirrors(b)
      /\ Follows(screen, b, 1) /\ Grows(b, g, next)
  BY <1>2, PutText
<1>4. /\ Shaped(back) /\ Mirrors(back)
      /\ back = [g EXCEPT !.cursor = [r |-> g.cursor.r, c |-> 0]]
  BY EchoIs
<1> HIDE DEF b, g, back
<1>5. /\ back.cells = g.cells /\ back.scrollback = g.scrollback /\ back.snapshot = g.snapshot
      /\ back.view = g.view /\ back.rows = g.rows /\ back.top = g.top /\ back.bottom = g.bottom
      /\ back.cursor.r = g.cursor.r
  <2>1. g \in Screens(g.rows)
    BY <1>3 DEF Shaped
  <2> QED
    BY <1>4, <2>1 DEF Screens
<1>6. Calm(back)
  BY <1>3, <1>5 DEF Plain, Calm
<1>7. Plain(screen') /\ Follows(back, screen', 1)
  BY <1>1, <1>4, <1>6, LineFeedText
<1>8. Everything(back) = Everything(g) /\ Above(back) = Above(g)
  BY <1>5 DEF Everything, Hidden, Live, Above
<1>9. Follows(g, screen', 1)
  BY <1>5, <1>7, <1>8 DEF Follows
<1> QED
  BY <1>3, <1>7, <1>9 DEF Appends

(* What is appended to keeps its glyphs and adds one.                      *)
LEMMA KeptAppends ==
  ASSUME NEW s, Shaped(s), Mirrors(s), NEW u, Shaped(u), Mirrors(u),
         NEW last \in Nat, Appends(s, u, last + 1), Kept(s, last)
  PROVE  Kept(u, last + 1)
<1>1. PICK b, g :
        /\ Shaped(b) /\ Mirrors(b) /\ Shaped(g) /\ Mirrors(g)
        /\ Follows(s, b, 1) /\ Grows(b, g, last + 1) /\ Follows(g, u, 1)
  BY DEF Appends
<1>2. Len(b.scrollback) \in Nat /\ Len(g.scrollback) \in Nat /\ Len(u.scrollback) \in Nat
  <2>1. b.scrollback \in Seq(Lines) /\ g.scrollback \in Seq(Lines) /\ u.scrollback \in Seq(Lines)
    BY <1>1 DEF Shaped, Screens
  <2> QED
    BY <2>1
<1>3. Kept(b, last)
  BY <1>1, <1>2, KeptFollows
<1>4. Kept(g, last + 1)
  BY <1>1, <1>2, <1>3, KeptGrows
<1> QED
  BY <1>1, <1>2, <1>4, KeptFollows

-----------------------------------------------------------------------------
(* The invariant of what is only appended to.                              *)
TextInv == appended /\ ~setBack => Plain(screen) /\ Kept(screen, next - 1)

(* A new screen has no text.                                               *)
LEMMA FreshText ==
  ASSUME NEW rows \in Heights
  PROVE  LET u == NewScreen(Cols, rows) IN Plain(u) /\ Kept(u, 0)
<1> DEFINE u == NewScreen(Cols, rows)
<1>1. Shaped(u) /\ Mirrors(u) /\ Plainly(u) /\ u.rows = rows
  BY FreshType
<1>2. /\ u.cells = BlankGrid(Cols, rows) /\ u.cursor.r = 0 /\ u.cursor.c = 0
      /\ u.top = 0 /\ u.bottom = rows - 1 /\ u.scrollback = <<>>
      /\ u.snapshot = None /\ u.restore = None
  BY DEF NewScreen
<1>3. rows \in Nat /\ rows > 0
  BY ViewAssumption
<1>4. \A r \in 0..(rows - 1) : u.cells[r] = BlankRow(Cols)
  BY <1>2 DEF BlankGrid
<1> HIDE DEF u
<1>5. Plain(u)
  <2>1. BlankRows(u.cells, 1, rows)
    BY <1>3, <1>4 DEF BlankRows
  <2>2. BlankFrom(u.cells[0], 0)
    <3>1. u.cells[0] = BlankRow(Cols)
      BY <1>3, <1>4
    <3> QED
      BY <3>1 DEF BlankFrom, BlankRow
  <2>3. u.cursor.r + 1 = 1 /\ u.cursor.r <= u.bottom
    BY <1>2, <1>3
  <2> QED
    BY <1>1, <1>2, <2>1, <2>2, <2>3 DEF Plain, Calm
<1>6. ASSUME NEW i \in Pos
      PROVE  DOMAIN At(Everything(u), i) = {}
  <2>1. Calm(u)
    BY <1>5 DEF Plain
  <2>2. Len(u.scrollback) = 0 /\ i - 0 = i /\ ~(i <= 0) /\ i \in Nat
    BY <1>2 DEF Pos
  <2>3. At(Everything(u), i) = IF i <= rows THEN LineOf(u.cells[i - 1]) ELSE NoLine
    BY <1>1, <1>2, <2>1, <2>2, TextAt DEF Source
  <2>4. i <= rows => i - 1 \in 0..(rows - 1)
    BY <1>3, <2>2
  <2>5. At(Everything(u), i) = NoLine
    BY <1>4, <2>3, <2>4, BlankLine
  <2> QED
    BY <2>5 DEF NoLine
<1>7. Sorted(Everything(u), 0) /\ Whole(Everything(u), 0)
  BY <1>6 DEF Sorted, Whole
<1> QED
  BY <1>5, <1>7 DEF Kept, u

(* The invariant of the text holds at first and is kept by every step.     *)
LEMMA TextInit == ASSUME Init PROVE TextInv
<1>1. PICK rows \in Heights : screen = NewScreen(Cols, rows)
  BY DEF Init
<1>2. next - 1 = 0
  BY DEF Init
<1> QED
  BY <1>1, <1>2, FreshText DEF TextInv

LEMMA TextStep ==
  TypeOK /\ TextInv /\ [Next]_vars => TextInv'
<1> SUFFICES ASSUME TypeOK, TextInv, [Next]_vars, TypeOK', appended', ~setBack'
             PROVE  Plain(screen') /\ Kept(screen', next' - 1)
  BY TypeStep DEF TextInv
<1>1. /\ Shaped(screen) /\ Mirrors(screen) /\ Shaped(screen') /\ Mirrors(screen')
      /\ next \in Nat /\ next > 0 /\ next - 1 \in Nat
      /\ Len(screen'.scrollback) \in Nat
  <2>1. /\ Shaped(screen) /\ Mirrors(screen) /\ Shaped(screen') /\ Mirrors(screen')
        /\ next \in Nat /\ next > 0 /\ next - 1 \in Nat
    BY DEF TypeOK
  <2> QED
    BY <2>1, EverythingType
<1>2. ASSUME appended, ~setBack
      PROVE  Plain(screen) /\ Kept(screen, next - 1)
  BY <1>2 DEF TextInv
<1>3. ASSUME Text \/ LocalEcho
      PROVE  Plain(screen') /\ Kept(screen', next' - 1)
  <2>0. next' = next + 1 /\ appended' = (appended /\ TRUE) /\ setBack' = setBack
    <3>1. CASE Text
      BY <3>1 DEF Text, Write
    <3>2. CASE LocalEcho
      BY <3>2 DEF LocalEcho, Write
    <3> QED
      BY <1>3, <3>1, <3>2
  <2>1. next' - 1 = (next - 1) + 1 /\ (next - 1) + 1 = next
    BY <1>1, <2>0
  <2>2. appended /\ ~setBack
    BY <2>0
  <2>3. Plain(screen) /\ Kept(screen, next - 1)
    BY <1>2, <2>2
  <2>4. Plain(screen') /\ Appends(screen, screen', next)
    BY <1>3, <2>3, TextAppends, EchoAppends
  <2>5. Appends(screen, screen', (next - 1) + 1)
    BY <2>1, <2>4
  <2>6. Kept(screen', (next - 1) + 1)
    BY <1>1, <2>3, <2>5, KeptAppends
  <2> QED
    BY <2>1, <2>4, <2>6
<1>4. CASE NewLine
  <2>1. appended /\ ~setBack /\ next' = next /\ screen' = LineFeed(screen)
    BY <1>4 DEF NewLine, Write
  <2>2. Plain(screen) /\ Kept(screen, next - 1)
    BY <1>2, <2>1
  <2>3. Plain(screen') /\ Follows(screen, screen', 1)
    BY <1>1, <2>1, <2>2, LineFeedText DEF Plain
  <2>4. Kept(screen', next - 1)
    BY <1>1, <2>2, <2>3, KeptFollows
  <2> QED
    BY <2>1, <2>3, <2>4
<1>5. CASE Control
  BY <1>5 DEF Control, Write
<1>6. CASE Fit
  <2>1. PICK rows \in Heights \ {screen.rows} : Sized(screen, rows, screen')
    BY <1>6, FitType
  <2>2. /\ next' = next /\ appended' = appended
        /\ setBack' = (setBack \/ (appended /\ OnWritten(screen')))
    BY <1>6 DEF Fit
  <2>3. appended /\ ~setBack /\ ~OnWritten(screen')
    BY <2>2
  <2>4. Plain(screen) /\ Kept(screen, next - 1)
    BY <1>2, <2>3
  <2>5. /\ Plain(screen') /\ Cut(Everything(screen), Everything(screen'), 0)
        /\ screen'.scrollback = screen.scrollback
    BY <1>1, <2>1, <2>3, <2>4, FitText
  <2>6. Everything(screen) \in Seq(Lines)
    BY <1>1, EverythingType
  <2>7. Kept(screen', next - 1)
    BY <1>1, <2>4, <2>5, <2>6, CutSorted DEF Kept
  <2> QED
    BY <2>2, <2>5, <2>7
<1>7. CASE SetWidthMode
  BY <1>7 DEF SetWidthMode
<1>8. CASE Connect
  <2>1. screen.rows \in Heights /\ screen' = NewScreen(Cols, screen.rows) /\ next' - 1 = 0
    BY <1>1, <1>8 DEF Connect, Shaped
  <2> QED
    BY <2>1, FreshText
<1>9. CASE UNCHANGED vars
  <2>1. screen' = screen /\ next' = next /\ appended /\ ~setBack
    BY <1>9 DEF vars
  <2> QED
    BY <1>2, <2>1
<1> QED
  BY <1>3, <1>4, <1>5, <1>6, <1>7, <1>8, <1>9 DEF Next

(* It gives HistoryInOrder, which counts the glyphs of a set of lines.     *)
LEMMA TextGives ==
  ASSUME TypeOK, TextInv
  PROVE  HistoryInOrder
<1> SUFFICES ASSUME appended, ~setBack
             PROVE  LET there == Glyphs(Everything(screen)) IN
                    /\ Ordered(Everything(screen))
                    /\ there \subseteq 1..(next - 1)
                    /\ \A k \in there : k..(next - 1) \subseteq there
                    /\ Len(screen.scrollback) < MaxScrollback => 1..(next - 1) \subseteq there
  BY DEF HistoryInOrder
<1> DEFINE lines == Everything(screen)
           there == Glyphs(lines)
           last == next - 1
<1>1. lines \in Seq(Lines)
  BY EverythingType DEF TypeOK
<1>2. Sorted(lines, last) /\ (Len(screen.scrollback) < MaxScrollback => Whole(lines, last))
  BY DEF TextInv, Kept
<1> HIDE DEF lines, last
<1>3. \A i \in DOMAIN lines : i \in Pos /\ At(lines, i) = lines[i]
  <2>1. DOMAIN lines = 1..Len(lines) /\ Len(lines) \in Nat
    BY <1>1
  <2> QED
    BY <2>1 DEF At, Pos
<1>4. \A k : k \in there <=> IsThere(lines, k)
  <2> TAKE k
  <2>1. ASSUME k \in there
        PROVE  IsThere(lines, k)
    <3>1. PICK i \in DOMAIN lines : k \in {lines[i][c] : c \in DOMAIN lines[i]}
      BY <2>1 DEF Glyphs
    <3>2. PICK c \in DOMAIN lines[i] : k = lines[i][c]
      BY <3>1
    <3>3. i \in Pos /\ At(lines, i) = lines[i]
      BY <1>3
    <3> QED
      BY <3>2, <3>3 DEF IsThere
  <2>2. ASSUME IsThere(lines, k)
        PROVE  k \in there
    <3>1. PICK i \in Pos : \E c \in DOMAIN At(lines, i) : At(lines, i)[c] = k
      BY <2>2 DEF IsThere
    <3>2. i \in DOMAIN lines
      BY <3>1 DEF At, NoLine
    <3>3. At(lines, i) = lines[i]
      BY <1>3, <3>2
    <3> QED
      BY <3>1, <3>2, <3>3 DEF Glyphs
  <2> QED
    BY <2>1, <2>2
<1>5. Ordered(lines)
  BY <1>2, <1>3 DEF Ordered, Sorted
<1> HIDE DEF there
<1>6. there \subseteq 1..last
  <2> SUFFICES ASSUME NEW k \in there
               PROVE  k \in 1..last
    OBVIOUS
  <2>1. IsThere(lines, k)
    BY <1>4
  <2> QED
    BY <1>2, <2>1 DEF IsThere, Sorted
<1>7. ASSUME NEW k \in there, NEW l \in k..last
      PROVE  l \in there
  <2>1. IsThere(lines, k)
    BY <1>4
  <2>2. IsThere(lines, l)
    BY <1>2, <1>7, <2>1 DEF IsThere, Sorted
  <2> QED
    BY <1>4, <2>2
<1>8. Len(screen.scrollback) < MaxScrollback => 1..last \subseteq there
  BY <1>2, <1>4 DEF Whole
<1> QED
  BY <1>5, <1>6, <1>7, <1>8 DEF lines, there, last

(* What the MUD writes is in the scrollback, above the view or on the      *)
(* screen, once and in the order it was written, whatever the cap, the     *)
(* line feeds and the fits do to it (buffer.ts lineFeed,                   *)
(* commitResizePrefixToScrollback, resize).                                *)
THEOREM TextIsKept == Spec => []HistoryInOrder
<1>1. Init => TypeOK /\ TextInv
  BY InitType, TextInit
<1>2. TypeOK /\ TextInv /\ [Next]_vars => TypeOK' /\ TextInv'
  BY TypeStep, TextStep
<1>3. TypeOK /\ TextInv => HistoryInOrder
  BY TextGives
<1> QED
  BY <1>1, <1>2, <1>3, PTL DEF Spec

-----------------------------------------------------------------------------
(* Below the cap nothing is cut off, and every row stays where it is.      *)
LEMMA GrowsToAll ==
  ASSUME NEW old \in Seq(Lines), NEW new, NEW glyph, Extended(old, new, glyph),
         NEW i \in Pos
  PROVE  GrowsTo(At(old, i), At(new, i))
<1>1. PICK p \in Pos, c \in Nat :
        /\ \A d \in DOMAIN At(old, p) : d < c
        /\ DOMAIN At(new, p) = DOMAIN At(old, p) \cup {c}
        /\ \A d \in DOMAIN At(old, p) : At(new, p)[d] = At(old, p)[d]
        /\ \A j \in Pos : j # p => At(new, j) = At(old, j)
  BY DEF Extended
<1>2. CASE i = p
  BY <1>1, <1>2 DEF GrowsTo
<1>3. CASE i # p
  BY <1>1, <1>3 DEF GrowsTo
<1> QED
  BY <1>2, <1>3

(* Nothing is cut off while there is room for one more line.               *)
LEMMA FollowsBelow ==
  ASSUME NEW s, Shaped(s), Mirrors(s), NEW u, NEW n \in Nat, Follows(s, u, n),
         Above(s) + n <= MaxScrollback
  PROVE  \A i \in Pos : At(Everything(u), i) = At(Everything(s), i)
<1>1. PICK k \in Nat :
        /\ Cut(Everything(s), Everything(u), k)
        /\ k > 0 => Above(s) + n > MaxScrollback
  BY DEF Follows
<1>2. Above(s) \in Nat /\ MaxScrollback \in Nat
  BY EverythingType
<1>3. k = 0
  BY <1>1, <1>2
<1>4. \A i \in Pos : i + 0 = i
  BY DEF Pos
<1> QED
  BY <1>1, <1>3, <1>4 DEF Cut

LEMMA GrowsBelow ==
  ASSUME NEW b, Shaped(b), Mirrors(b), NEW u, NEW glyph, Grows(b, u, glyph),
         Above(b) <= MaxScrollback
  PROVE  \A i \in Pos : GrowsTo(At(Everything(b), i), At(Everything(u), i))
<1>1. PICK w \in Seq(Lines), k \in Nat :
        /\ Extended(Everything(b), w, glyph) /\ Cut(w, Everything(u), k)
        /\ k > 0 => Above(b) > MaxScrollback
  BY DEF Grows
<1>2. Above(b) \in Nat /\ MaxScrollback \in Nat /\ Everything(b) \in Seq(Lines)
  BY EverythingType
<1>3. k = 0
  BY <1>1, <1>2
<1>4. \A i \in Pos : i + 0 = i
  BY DEF Pos
<1>5. \A i \in Pos : At(Everything(u), i) = At(w, i)
  BY <1>1, <1>3, <1>4 DEF Cut
<1>6. \A i \in Pos : GrowsTo(At(Everything(b), i), At(w, i))
  BY <1>1, <1>2, GrowsToAll
<1> QED
  BY <1>5, <1>6

(* What is appended with room for two lines grows rows where they are.     *)
LEMMA AppendsBelow ==
  ASSUME NEW s, Shaped(s), Mirrors(s), NEW u, Shaped(u), Mirrors(u),
         NEW glyph, Appends(s, u, glyph), Above(s) + 2 <= MaxScrollback
  PROVE  /\ \A i \in Pos : GrowsTo(At(Everything(s), i), At(Everything(u), i))
         /\ Len(s.scrollback) <= Len(u.scrollback) /\ u.rows = s.rows
<1>1. PICK b, g :
        /\ Shaped(b) /\ Mirrors(b) /\ Shaped(g) /\ Mirrors(g)
        /\ Follows(s, b, 1) /\ Grows(b, g, glyph) /\ Follows(g, u, 1)
  BY DEF Appends
<1>2. /\ Above(s) \in Nat /\ Above(b) \in Nat /\ Above(g) \in Nat /\ MaxScrollback \in Nat
  BY <1>1, EverythingType
<1>3. /\ Above(b) <= Above(s) + 1 /\ Above(g) <= Above(b)
      /\ Len(s.scrollback) <= Len(b.scrollback) /\ Len(b.scrollback) <= Len(g.scrollback)
      /\ Len(g.scrollback) <= Len(u.scrollback)
      /\ b.rows = s.rows /\ g.rows = b.rows /\ u.rows = g.rows
  BY <1>1 DEF Follows, Grows
<1>4. Above(s) + 1 <= MaxScrollback /\ Above(b) <= MaxScrollback /\ Above(g) + 1 <= MaxScrollback
  BY <1>2, <1>3
<1>5. \A i \in Pos : At(Everything(b), i) = At(Everything(s), i)
  BY <1>1, <1>4, FollowsBelow
<1>6. \A i \in Pos : GrowsTo(At(Everything(b), i), At(Everything(g), i))
  BY <1>1, <1>4, GrowsBelow
<1>7. \A i \in Pos : At(Everything(u), i) = At(Everything(g), i)
  BY <1>1, <1>4, FollowsBelow
<1>8. Len(s.scrollback) <= Len(u.scrollback)
  <2>1. /\ s.scrollback \in Seq(Lines) /\ b.scrollback \in Seq(Lines)
        /\ g.scrollback \in Seq(Lines) /\ u.scrollback \in Seq(Lines)
    BY <1>1 DEF Shaped, Screens
  <2>2. /\ Len(s.scrollback) \in Nat /\ Len(b.scrollback) \in Nat
        /\ Len(g.scrollback) \in Nat /\ Len(u.scrollback) \in Nat
    BY <2>1
  <2> QED
    BY <1>3, <2>2
<1> QED
  BY <1>3, <1>5, <1>6, <1>7, <1>8

(* Without hidden rows the document is the scrollback and the screen.      *)
LEMMA DocumentIs ==
  ASSUME NEW s, Shaped(s), Mirrors(s), Hidden(s) = <<>>
  PROVE  /\ Document(s) = Everything(s) /\ Above(s) = Len(s.scrollback)
         /\ DOMAIN Document(s) = 1..(Len(s.scrollback) + s.rows)
         /\ \A i \in DOMAIN Document(s) : i \in Pos /\ Document(s)[i] = At(Everything(s), i)
<1>1. /\ s.scrollback \in Seq(Lines) /\ Live(s) \in Seq(Lines) /\ s.rows \in Nat
      /\ Everything(s) \in Seq(Lines) /\ Len(Everything(s)) = Above(s) + s.rows
  BY EverythingType
<1>2. s.view = 0
  BY HiddenType
<1>3. s.scrollback \o Hidden(s) = s.scrollback
  BY <1>1
<1>4. Document(s) = Everything(s)
  BY <1>3 DEF Document, Everything
<1>5. Above(s) = Len(s.scrollback) /\ Len(s.scrollback) \in Nat
  BY <1>1, <1>2 DEF Above
<1>6. DOMAIN Document(s) = 1..(Len(s.scrollback) + s.rows)
  BY <1>1, <1>4, <1>5
<1>7. \A i \in DOMAIN Document(s) : i \in Pos /\ Document(s)[i] = At(Everything(s), i)
  BY <1>1, <1>4, <1>5, <1>6 DEF At, Pos
<1> QED
  BY <1>4, <1>5, <1>6, <1>7

(* No step but a fit, a new screen or a change of what is there moves the  *)
(* text of a row.                                                          *)
LEMMA RowsKeep ==
  ASSUME TypeOK, TextInv, [Next]_vars, appended, appended',
         screen'.rows = screen.rows, ~setBack, Hidden(screen) = <<>>,
         Len(screen.scrollback) + 2 <= MaxScrollback,
         screen' # NewScreen(Cols, screen.rows), NEW i \in DOMAIN Document(screen)
  PROVE  /\ i \in DOMAIN Document(screen')
         /\ GrowsTo(Document(screen)[i], Document(screen')[i])
<1>1. /\ Shaped(screen) /\ Mirrors(screen) /\ Shaped(screen') /\ Mirrors(screen')
      /\ next \in Nat /\ Plain(screen) /\ Calm(screen)
  BY TypeStep DEF TypeOK, TextInv, Plain
<1>2. /\ Above(screen) = Len(screen.scrollback) /\ Len(screen.scrollback) \in Nat
      /\ i \in 1..(Len(screen.scrollback) + screen.rows) /\ screen.rows \in Nat
      /\ Len(screen'.scrollback) \in Nat /\ MaxScrollback \in Nat
  <2>1. i \in 1..(Len(screen.scrollback) + screen.rows) /\ Above(screen) = Len(screen.scrollback)
    BY <1>1, DocumentIs
  <2>2. /\ screen.rows \in Nat /\ MaxScrollback \in Nat
        /\ screen.scrollback \in Seq(Lines) /\ screen'.scrollback \in Seq(Lines)
    BY <1>1, EverythingType
  <2> QED
    BY <2>1, <2>2
<1>3. CASE Text \/ LocalEcho
  <2>1. Appends(screen, screen', next)
    BY <1>1, <1>3, TextAppends, EchoAppends
  <2>2. /\ \A j \in Pos : GrowsTo(At(Everything(screen), j), At(Everything(screen'), j))
        /\ Len(screen.scrollback) <= Len(screen'.scrollback)
    BY <1>1, <1>2, <2>1, AppendsBelow
  <2>3. Hidden(screen') = <<>>
    BY <1>3, TextType, EchoType DEF Hidden
  <2>5. DOMAIN Document(screen') = 1..(Len(screen'.scrollback) + screen'.rows)
    BY <1>1, <2>3, DocumentIs
  <2>6. i \in DOMAIN Document(screen')
    BY <1>2, <2>2, <2>5
  <2> QED
    BY <1>1, <2>2, <2>3, <2>6, DocumentIs
<1>4. CASE NewLine
  <2>1. screen' = LineFeed(screen)
    BY <1>4 DEF NewLine, Write
  <2>2. Follows(screen, screen', 1)
    BY <1>1, <2>1, LineFeedText
  <2>3. \A j \in Pos : At(Everything(screen'), j) = At(Everything(screen), j)
    <3>1. Above(screen) + 1 <= MaxScrollback
      BY <1>2
    <3> QED
      BY <1>1, <2>2, <3>1, FollowsBelow
  <2>4. Len(screen.scrollback) <= Len(screen'.scrollback)
    BY <2>2 DEF Follows
  <2>5. Hidden(screen') = <<>>
    <3>1. Descends(screen, screen') \/ Scrolls(screen, screen')
      BY <1>1, <2>1, LineFeedType
    <3>2. CASE Descends(screen, screen')
      BY <3>2 DEF Descends, Hidden
    <3>3. CASE Scrolls(screen, screen')
      BY <3>3 DEF Scrolls, Plainly, Hidden
    <3> QED
      BY <3>1, <3>2, <3>3
  <2>7. DOMAIN Document(screen') = 1..(Len(screen'.scrollback) + screen'.rows)
    BY <1>1, <2>5, DocumentIs
  <2>8. i \in DOMAIN Document(screen')
    BY <1>2, <2>4, <2>7, SMTT(30)
  <2>9. Document(screen')[i] = Document(screen)[i]
    BY <1>1, <2>3, <2>5, <2>8, DocumentIs
  <2> QED
    BY <2>8, <2>9 DEF GrowsTo
<1>5. CASE Control
  BY <1>5 DEF Control, Write
<1>6. CASE Fit
  <2>1. screen'.rows # screen.rows
    BY <1>6, FitType DEF Sized
  <2> QED
    BY <2>1
<1>7. CASE SetWidthMode
  BY <1>7 DEF SetWidthMode
<1>8. CASE Connect
  BY <1>8 DEF Connect
<1>9. CASE UNCHANGED vars
  BY <1>9 DEF vars, GrowsTo
<1> QED
  BY <1>3, <1>4, <1>5, <1>6, <1>7, <1>8, <1>9 DEF Next

(* A document row that a selection names (TerminalHost.tsx copyText) keeps *)
(* its text, or what the text grows to, while lines are appended and the   *)
(* cap is not reached.                                                     *)
THEOREM SelectionFollows == Spec => RowsKeepTheirText
<1>1. Init => TypeOK /\ TextInv
  BY InitType, TextInit
<1>2. TypeOK /\ TextInv /\ [Next]_vars => TypeOK' /\ TextInv'
  BY TypeStep, TextStep
<1>3. TypeOK /\ TextInv /\ [Next]_vars =>
        [appended /\ appended' /\ screen'.rows = screen.rows /\ ~setBack
           /\ Hidden(screen) = <<>>
           /\ Len(screen.scrollback) + 2 <= MaxScrollback
           /\ screen' # NewScreen(Cols, screen.rows)
          => \A i \in DOMAIN Document(screen) :
               /\ i \in DOMAIN Document(screen')
               /\ GrowsTo(Document(screen)[i], Document(screen')[i])]_vars
  BY RowsKeep
<1> QED
  BY <1>1, <1>2, <1>3, PTL DEF Spec, RowsKeepTheirText
===============================================================================

----------------------------- MODULE ScreenBuffer -----------------------------
(***************************************************************************)
(* packages/terminal/src/buffer.ts: the grid a MUD draws on, its cursor    *)
(* and scroll region, the lines that scrolled off, and the snapshot that   *)
(* lets a window that was made lower and higher again show what it showed. *)
(*                                                                         *)
(* A screen is a record of the fields of the class, and every method that  *)
(* changes them a function from screens to screens, so that one method can *)
(* call another.  Rows and columns count from 0.  A cell holds Blank, the  *)
(* number k > 0 of the glyph written k-th, or -k behind a wide glyph k; a  *)
(* line is the glyphs of a row, each at its column.  Colours, the session  *)
(* log and capture events are left out.  EL and ED to the left of a cursor that stands     *)
(* behind the last column write one cell too many, which nothing reads.    *)
(***************************************************************************)
EXTENDS Integers, Sequences, FiniteSetsExt

CONSTANTS
  MaxScrollback, (* maxScrollback                                          *)
  None           (* null                                                   *)

Blank == 0

RowsOf(s) == 0..(s.rows - 1)
ColsOf(s) == 0..(s.cols - 1)

BlankRow(cols)        == [c \in 0..(cols - 1) |-> Blank]
BlankGrid(cols, rows) == [r \in 0..(rows - 1) |-> BlankRow(cols)]

(* rowPlain: the cell behind a wide glyph adds nothing, and the blanks at  *)
(* the end are cut; those between glyphs are the columns that are missing. *)
LineOf(row) == [c \in {c \in DOMAIN row : row[c] > 0} |-> row[c]]

Live(s) == [i \in 1..s.rows |-> LineOf(s.cells[i - 1])]

NewScreen(cols, rows) ==
  [cols |-> cols, rows |-> rows, cells |-> BlankGrid(cols, rows),
   cursor |-> [r |-> 0, c |-> 0], saved |-> None,
   top |-> 0, bottom |-> rows - 1,
   scrollback |-> <<>>,
   snapshot |-> None, view |-> 0, restore |-> None]

Clamp(x, low, high) == Max({low, Min({x, high})})

-----------------------------------------------------------------------------
(* The resize snapshot.                                                    *)
Capped(lines) ==
  IF Len(lines) > MaxScrollback
  THEN SubSeq(lines, Len(lines) - MaxScrollback + 1, Len(lines))
  ELSE lines

(* Fault: the rows above the view are dropped.                             *)
CommittedNever(s) == s.scrollback

(* The rows of the snapshot above the view.                                *)
Hidden(s) ==
  IF s.snapshot = None THEN <<>>
  ELSE [i \in 1..s.view |-> LineOf(s.snapshot.cells[i - 1])]

(* commitResizePrefixToScrollback: they go where the scrollback ended when *)
(* they were hidden.                                                       *)
Committed(s) ==
  IF s.snapshot = None \/ s.view < 1 THEN s.scrollback
  ELSE LET at == Min({s.snapshot.insertAt, Len(s.scrollback)})
       IN  Capped(SubSeq(s.scrollback, 1, at) \o Hidden(s)
                    \o SubSeq(s.scrollback, at + 1, Len(s.scrollback)))

(* invalidateResizeRestoreState                                            *)
Forget(s) == [s EXCEPT !.restore = None]

(* noteBufMut, invalidateResizeSnapshot(true)                              *)
Mutated(s) ==
  [s EXCEPT !.scrollback = Committed(s), !.snapshot = None, !.view = 0,
            !.restore = None]

-----------------------------------------------------------------------------
(* What the text does.                                                     *)

(* Fault: the row that scrolls off is not kept.                            *)
LineFeedForgets(s) ==
  IF s.cursor.r < s.bottom
  THEN [Forget(s) EXCEPT !.cursor = [r |-> @.r + 1, c |-> 0]]
  ELSE [Mutated(s) EXCEPT
         !.cells = [r \in RowsOf(s) |->
                      IF r \in s.top..(s.bottom - 1) THEN s.cells[r + 1]
                      ELSE IF r = s.bottom THEN BlankRow(s.cols)
                      ELSE s.cells[r]],
         !.cursor.c = 0]

(* lineFeed                                                                *)
LineFeed(s) ==
  IF s.cursor.r < s.bottom
  THEN [Forget(s) EXCEPT !.cursor = [r |-> @.r + 1, c |-> 0]]
  ELSE [Mutated(s) EXCEPT
         !.scrollback = Capped(Append(@, LineOf(s.cells[s.top]))),
         !.cells = [r \in RowsOf(s) |->
                      IF r \in s.top..(s.bottom - 1) THEN s.cells[r + 1]
                      ELSE IF r = s.bottom THEN BlankRow(s.cols)
                      ELSE s.cells[r]],
         !.cursor.c = 0]

CarriageReturn(s) == [Forget(s) EXCEPT !.cursor.c = 0]
Backspace(s)      == [Forget(s) EXCEPT !.cursor.c = Max({0, @ - 1})]

(* writePlain, one glyph: it wraps behind the last column, and a wide one  *)
(* in the last column too.                                                 *)
Put(s, k, wide) ==
  LET a == IF s.cursor.c >= s.cols THEN LineFeed(s) ELSE s
      b == IF wide /\ a.cursor.c = s.cols - 1 THEN LineFeed(a) ELSE a
      at    == b.cursor
      trail == wide /\ at.c + 1 < s.cols
  IN  Mutated([b EXCEPT
        !.cells[at.r] = [c \in ColsOf(s) |->
                           IF c = at.c THEN k
                           ELSE IF trail /\ c = at.c + 1 THEN -k
                           ELSE @[c]],
        !.cursor.c = IF trail THEN at.c + 2 ELSE at.c + 1])

-----------------------------------------------------------------------------
(* applyCsi                                                                *)
CursorTo(s, r, c) ==
  [Forget(s) EXCEPT !.cursor = [r |-> Clamp(r, 0, s.rows - 1),
                                c |-> Clamp(c, 0, s.cols - 1)]]

CursorUp(s, n)    == [Forget(s) EXCEPT !.cursor.r = Max({0, @ - n})]
CursorDown(s, n)  == [Forget(s) EXCEPT !.cursor.r = Min({s.rows - 1, @ + n})]
CursorRight(s, n) == [Forget(s) EXCEPT !.cursor.c = Min({s.cols - 1, @ + n})]
CursorLeft(s, n)  == [Forget(s) EXCEPT !.cursor.c = Max({0, @ - n})]

CellsOf(s) == RowsOf(s) \X ColsOf(s)

(* The cells of a set become blank.                                        *)
Erase(s, set) ==
  Mutated([s EXCEPT !.cells = [r \in RowsOf(s) |-> [c \in ColsOf(s) |->
             IF <<r, c>> \in set THEN Blank ELSE s.cells[r][c]]]])

(* From the cursor on, up to and with it, or all.                          *)
EraseDisplay(s, mode) ==
  LET at == s.cursor
      From(cell) == cell[1] > at.r \/ (cell[1] = at.r /\ cell[2] >= at.c)
      To(cell)   == cell[1] < at.r \/ (cell[1] = at.r /\ cell[2] <= at.c)
  IN  Erase(s, {cell \in CellsOf(s) : /\ mode = 0 => From(cell)
                                      /\ mode = 1 => To(cell)})

EraseLine(s, mode) ==
  LET at == s.cursor
  IN  Erase(s, {cell \in CellsOf(s) : /\ cell[1] = at.r
                                      /\ mode = 0 => cell[2] >= at.c
                                      /\ mode = 1 => cell[2] <= at.c})

(* DECSTBM                                                                 *)
SetRegion(s, a, b) ==
  LET x == Clamp(a, 0, s.rows - 1)
      y == Clamp(b, 0, s.rows - 1)
  IN  [Forget(s) EXCEPT !.top = Min({x, y}), !.bottom = Max({x, y}),
                        !.cursor = [r |-> Min({x, y}), c |-> 0]]

SaveCursor(s) == [Forget(s) EXCEPT !.saved = s.cursor]

RestoreCursor(s) ==
  IF s.saved = None THEN s ELSE [Forget(s) EXCEPT !.cursor = s.saved]

(* setWidthMode: the scrollback stays, the rows hidden by a resize do not. *)
ClearForWidth(s) ==
  [NewScreen(s.cols, s.rows) EXCEPT !.scrollback = s.scrollback]

-----------------------------------------------------------------------------
(* resize                                                                  *)
NewSnapshot(s) ==
  [rows |-> s.rows, cols |-> s.cols, cells |-> s.cells,
   insertAt |-> Len(s.scrollback)]

NewRestore(s) ==
  [cursor |-> s.cursor, saved |-> s.saved, top |-> s.top, bottom |-> s.bottom]

(* The first row of the snapshot that the new grid shows: the cursor stays *)
(* on it.                                                                  *)
ViewStart(s, snap, restore, rows) ==
  IF snap = None \/ rows >= snap.rows THEN 0
  ELSE IF restore # None
  THEN Clamp(restore.cursor.r - rows + 1, 0, snap.rows - rows)
  ELSE IF rows < s.rows
  THEN Min({snap.rows - rows,
            s.view + Clamp(s.cursor.r - rows + 1, 0, s.rows - rows)})
  ELSE Min({s.view, snap.rows - rows})

(* Fault: every shrink keeps the screen as it is then.                     *)
IsShrink(s, rows) == rows < s.rows

IsFirstShrink(s, rows) == rows < s.rows /\ s.snapshot = None

Resize(s, cols, rows) ==
  LET fresh   == IsFirstShrink(s, rows)
      snap    == IF fresh THEN NewSnapshot(s) ELSE s.snapshot
      restore == IF fresh THEN NewRestore(s) ELSE s.restore
      view    == ViewStart(s, snap, restore, rows)
      from    == IF snap = None THEN s ELSE snap
      start   == IF snap = None THEN 0 ELSE view
      (* what goes up with the rows, and where it was *)
      shift   == IF restore # None THEN view
                 ELSE IF rows < s.rows THEN view - s.view ELSE 0
      old     == IF restore # None THEN restore ELSE NewRestore(s)
      Row(r)  == Clamp(r - shift, 0, rows - 1)
      Place(p) == [r |-> Row(p.r), c |-> Min({p.c, cols - 1})]
      full    == restore = None /\ s.top = 0 /\ s.bottom = s.rows - 1
      top     == IF full THEN 0 ELSE Row(old.top)
      bottom  == IF full THEN rows - 1 ELSE Max({top, Row(old.bottom)})
      done    == snap # None /\ rows >= snap.rows
  IN  IF cols = s.cols /\ rows = s.rows THEN s
      ELSE [cols |-> cols, rows |-> rows,
            cells |-> [r \in 0..(rows - 1) |-> [c \in 0..(cols - 1) |->
                         IF start + r < from.rows /\ c < from.cols
                         THEN from.cells[start + r][c] ELSE Blank]],
            cursor |-> Place(old.cursor),
            saved  |-> IF old.saved = None THEN None ELSE Place(old.saved),
            top |-> top, bottom |-> bottom,
            scrollback |-> s.scrollback,
            snapshot |-> IF done THEN None ELSE snap,
            view     |-> IF done THEN 0 ELSE view,
            restore  |-> IF done THEN None ELSE restore]

-----------------------------------------------------------------------------
(* The document: the scrollback, then the live rows.                       *)
Document(s) == s.scrollback \o Live(s)
===============================================================================

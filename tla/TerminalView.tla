----------------------------- MODULE TerminalView -----------------------------
(***************************************************************************)
(* apps/web/src/TerminalHost.tsx: the window on a screen buffer.  The MUD  *)
(* writes, the layout gives and takes rows (a phone's keyboard), the user  *)
(* changes the character set or connects again.  What is selected is named *)
(* by document rows, which the buffer must not turn into other lines.      *)
(*                                                                         *)
(* One action writes one token.  The grid is Cols wide for ever, as in     *)
(* resolveTerminalGrid.  The selection is a pair of document rows that     *)
(* nothing but the pointer and a fit changes, so it is no state here:      *)
(* RowsKeepTheirText is about every row it could name.                     *)
(***************************************************************************)
EXTENDS ScreenBuffer

CONSTANTS
  Cols,      (* VT_CLASSIC_COLS                                            *)
  Heights,   (* the numbers of rows a layout can have                      *)
  MaxGlyphs, (* bound: glyphs written to a buffer                          *)
  MaxCommands (* bound: control sequences written to it                    *)

Cursors  == [r : Nat, c : 0..Cols]
Grids(n) == [0..(n - 1) -> [0..(Cols - 1) -> Int]]
Lines    == UNION {[D -> Nat] : D \in SUBSET (0..(Cols - 1))}
Restores == [cursor : Cursors, saved : Cursors \cup {None}, top : Nat, bottom : Nat]

Snapshots(n) == [rows : {n}, cols : {Cols}, cells : Grids(n), insertAt : Nat]

Screens(n) ==
  [cols : {Cols}, rows : {n}, cells : Grids(n),
   cursor : Cursors, saved : Cursors \cup {None}, top : Nat, bottom : Nat,
   scrollback : Seq(Lines),
   snapshot : {None} \cup UNION {Snapshots(m) : m \in Heights}, view : Nat,
   restore : {None} \cup Restores]

ASSUME ViewAssumption ==
  /\ Cols \in Nat \ {0, 1}
  /\ Heights # {} /\ Heights \subseteq Nat \ {0}
  /\ {MaxScrollback, MaxGlyphs, MaxCommands} \subseteq Nat
  /\ None \notin Cursors /\ None \notin Restores
  /\ \A n \in Heights : None \notin Snapshots(n) /\ None \notin Screens(n)

VARIABLES
  screen,    (* bufRef.current                                             *)
  (* history, not state of the program *)
  next,      (* the number of the buffer's next glyph                      *)
  commands,  (* control sequences written to it                            *)
  appended,  (* only text and line feeds were written                      *)
  setBack,   (* and yet the cursor came to stand on what was written       *)
  before,    (* the screen whose rows the snapshot keeps, or None          *)
  still      (* and no cursor command came since                           *)

vars == <<screen, next, commands, appended, setBack, before, still>>

Init ==
  /\ screen \in {NewScreen(Cols, rows) : rows \in Heights}
  /\ next = 1
  /\ commands = 0
  /\ appended = TRUE
  /\ setBack = FALSE
  /\ before = None
  /\ still = TRUE

-----------------------------------------------------------------------------
(* onBinary                                                                *)
Write(s, appends) ==
  /\ screen' = s
  /\ appended' = (appended /\ appends)
  /\ before' = IF s.snapshot = None THEN None ELSE before
  /\ still' = (before' = None)
  /\ UNCHANGED setBack

Text ==
  /\ next <= MaxGlyphs
  /\ \E wide \in BOOLEAN : Write(Put(screen, next, wide), TRUE)
  /\ next' = next + 1
  /\ UNCHANGED commands

NewLine == Write(LineFeed(screen), TRUE) /\ UNCHANGED <<next, commands>>

CursorCommands ==
  {CarriageReturn(screen), Backspace(screen),
   SaveCursor(screen), RestoreCursor(screen),
   CursorUp(screen, 1), CursorDown(screen, 1),
   CursorRight(screen, 1), CursorLeft(screen, 1)}
  \cup {CursorTo(screen, r, c) : r \in RowsOf(screen), c \in ColsOf(screen)}
  \cup {SetRegion(screen, a, b) : a \in 0..1, b \in RowsOf(screen)}

Erasures ==
  {EraseDisplay(screen, mode) : mode \in 0..2}
  \cup {EraseLine(screen, mode) : mode \in 0..2}

Control ==
  /\ commands < MaxCommands
  /\ commands' = commands + 1
  /\ \E s \in CursorCommands \cup Erasures : Write(s, FALSE)
  /\ UNCHANGED next

(* The echo of a command, a line of its own.                               *)
LocalEcho ==
  /\ next <= MaxGlyphs
  /\ Write(LineFeed(CarriageReturn(Put(screen, next, FALSE))), TRUE)
  /\ next' = next + 1
  /\ UNCHANGED commands

-----------------------------------------------------------------------------
OnWritten(s) ==
  \E r \in RowsOf(s), c \in ColsOf(s) :
    /\ r > s.cursor.r \/ (r = s.cursor.r /\ c >= s.cursor.c)
    /\ s.cells[r][c] # Blank

(* applyFit: the layout has another number of rows.                        *)
Fit ==
  /\ \E rows \in Heights \ {screen.rows} : screen' = Resize(screen, Cols, rows)
  /\ setBack' = (setBack \/ (appended /\ OnWritten(screen')))
  /\ before' = IF screen'.snapshot = None THEN None
               ELSE IF screen.snapshot = None THEN screen ELSE before
  /\ still' = (screen.snapshot = None \/ before' = None \/ still)
  /\ UNCHANGED <<next, commands, appended>>

(* The effect of widthMode.                                                *)
SetWidthMode ==
  /\ screen' = ClearForWidth(screen)
  /\ appended' = FALSE
  /\ before' = None
  /\ still' = TRUE
  /\ UNCHANGED <<next, commands, setBack>>

(* The effect of wsUrl: another buffer.                                    *)
Connect ==
  /\ screen' = NewScreen(Cols, screen.rows)
  /\ next' = 1
  /\ commands' = 0
  /\ appended' = TRUE
  /\ setBack' = FALSE
  /\ before' = None
  /\ still' = TRUE

Next ==
  \/ Text \/ NewLine \/ Control \/ LocalEcho
  \/ Fit \/ SetWidthMode \/ Connect

Spec == Init /\ [][Next]_vars

-----------------------------------------------------------------------------

(* As long as nothing is written, rows taken and given back in any number  *)
(* of steps leave the screen as one step to that height would, and at the  *)
(* old height as it was; after cursor commands the old height still shows  *)
(* the old text.  A cursor behind the last column is taken to be in it:    *)
(* a fit puts it there, onto the last glyph of a full line.                *)
Look(s) == <<s.cells, s.cursor.r, Min({s.cursor.c, Cols - 1}), s.top, s.bottom>>

FitLosesNothing ==
  [][before # None /\ screen'.rows \in 1..before.rows \ {screen.rows}
     => /\ still => Look(screen') = Look(Resize(before, Cols, screen'.rows))
        /\ screen'.rows = before.rows => screen'.cells = before.cells]_vars

(* What was written and not yet cut off by the cap is in the scrollback,   *)
(* above the view of the snapshot or on the screen, once and in the order  *)
(* it was written, whatever the layout did meanwhile short of setting the  *)
(* cursor back on the text.                                                *)
Everything(s) == s.scrollback \o Hidden(s) \o Live(s)

Glyphs(lines) == UNION {{lines[i][c] : c \in DOMAIN lines[i]} : i \in DOMAIN lines}

Ordered(lines) ==
  \A i, j \in DOMAIN lines : \A c \in DOMAIN lines[i], d \in DOMAIN lines[j] :
    i < j \/ (i = j /\ c < d) => lines[i][c] < lines[j][d]

HistoryInOrder ==
  appended /\ ~setBack =>
    LET there == Glyphs(Everything(screen)) IN
    /\ Ordered(Everything(screen))
    /\ there \subseteq 1..(next - 1)
    /\ \A k \in there : k..(next - 1) \subseteq there
    /\ Len(screen.scrollback) < MaxScrollback => 1..(next - 1) \subseteq there

(* A document row that a selection names holds the same text, or what it   *)
(* has grown to, while lines are appended and the cap and the snapshot     *)
(* leave the scrollback alone.  (copyText: "Selection uses absolute        *)
(* document rows (follows text when scrolled)".)                           *)
GrowsTo(line, longer) ==
  /\ \A c \in DOMAIN line : c \in DOMAIN longer /\ longer[c] = line[c]
  /\ \A c \in DOMAIN line, d \in DOMAIN longer \ DOMAIN line : c < d

RowsKeepTheirText ==
  [][appended /\ appended' /\ screen'.rows = screen.rows /\ ~setBack
      /\ Hidden(screen) = <<>>
      /\ Len(screen.scrollback) + 2 <= MaxScrollback
      /\ screen' # NewScreen(Cols, screen.rows)
     => \A i \in DOMAIN Document(screen) :
          /\ i \in DOMAIN Document(screen')
          /\ GrowsTo(Document(screen)[i], Document(screen')[i])]_vars
===============================================================================

----------------------------- MODULE RoomTracker ------------------------------
(***************************************************************************)
(* packages/mapper/src/graph.ts: the map that is drawn from the commands a *)
(* player sends and the lines the MUD answers.  A tracker is a record of   *)
(* the fields of the class; a room is known by its number.  Coordinates,   *)
(* fingerprints (which nothing looks up) and special exits are left out.   *)
(***************************************************************************)
EXTENDS Naturals, Functions, FiniteSets

CONSTANTS
  None,
  Stub   (* an exit of which it is not known where it leads                *)

ReverseDir == [n |-> "s", s |-> "n", e |-> "w", w |-> "e", ne |-> "sw", sw |-> "ne",
               nw |-> "se", se |-> "nw", u |-> "d", d |-> "u", in |-> "out", out |-> "in"]

NoTitle == {"?", "start"}

(* map.set(x, v)                                                           *)
Put(f, x, v) == [y \in DOMAIN f \cup {x} |-> IF y = x THEN v ELSE f[y]]

NewTracker ==
  [rooms |-> <<>>, current |-> None, lastStep |-> None, pending |-> None, made |-> 0]

CreateRoom(t, title, exits) ==
  [t EXCEPT !.made    = @ + 1,
            !.current = t.made + 1,
            !.rooms   = Put(@, t.made + 1, [title |-> title, exits |-> exits,
                                            known |-> FALSE, visits |-> 1])]

EnsureStart(t) ==
  IF t.current \in DOMAIN t.rooms THEN t ELSE CreateRoom(t, "start", <<>>)

(* Visits count to two, all that is asked of them.                         *)
Visited(room) == [room EXCEPT !.visits = 2]

LinkTo(rooms, from, dir, to) == [rooms EXCEPT ![from].exits = Put(@, dir, to)]

StepOnMove(t, dir) ==
  LET from == t.rooms[t.current]
      to   == IF dir \in DOMAIN from.exits THEN from.exits[dir] ELSE Stub
      Step(new) == [from |-> t.current, dir |-> dir, to |-> new, created |-> new # to]
      dug  == CreateRoom(t, "?", [d \in {ReverseDir[dir]} |-> Stub])
  IN  IF to \in DOMAIN t.rooms
      THEN [t EXCEPT !.rooms[to] = Visited(@), !.current = to, !.lastStep = Step(to)]
      ELSE [dug EXCEPT !.rooms = LinkTo(@, t.current, dir, dug.current),
                       !.lastStep = Step(dug.current)]

NoteOutbound(t, dir) == StepOnMove(EnsureStart(t), dir)

UndoLastStep(t) ==
  LET s    == t.lastStep
      gone == {r \in DOMAIN t.rooms \cap {s.to} :
                 s.created /\ ~t.rooms[r].known /\ t.rooms[r].visits <= 1}
      way  == IF s.created
              THEN [t.rooms EXCEPT ![s.from].exits = Restrict(@, DOMAIN @ \ {s.dir})]
              ELSE LinkTo(t.rooms, s.from, s.dir, s.to)
  IN  IF s = None THEN t
      ELSE [t EXCEPT !.rooms    = Restrict(way, DOMAIN way \ gone),
                     !.current  = s.from,
                     !.lastStep = None]

(* Fault: the way back is drawn although the MUD did not list it.          *)
WayBackDrawn(dirs, dir) == TRUE

WayBack(dirs, dir) == ReverseDir[dir] \in dirs

UpgradeCurrent(t, dirs) ==
  LET e     == EnsureStart(t)
      here  == e.current
      s     == e.lastStep
      title == IF t.pending # None THEN t.pending
               ELSE IF e.rooms[here].title \in NoTitle THEN "unnamed"
               ELSE e.rooms[here].title
      old   == e.rooms[here].exits
      exits == [d \in DOMAIN old \cup dirs |-> IF d \in DOMAIN old THEN old[d] ELSE Stub]
      rooms == [e.rooms EXCEPT ![here] = [Visited(@) EXCEPT
                  !.title = title, !.exits = exits, !.known = TRUE]]
      back  == ReverseDir[s.dir]
      linked == LinkTo(IF back \notin DOMAIN exits \/ exits[back] = Stub
                       THEN LinkTo(rooms, here, back, s.from) ELSE rooms,
                       s.from, s.dir, here)
  IN  [e EXCEPT !.rooms = IF s # None /\ WayBack(dirs, s.dir) THEN linked ELSE rooms]

(* A line is what the patterns of parse.ts take it for.                    *)
IsMoveFail(line)     == line.is = "fail"
IsVisionFail(line)   == line.is = "dark"
IsExitsLine(line)    == line.is = "exits"
LooksLikeTitle(line) == line.is = "title"

OnServerLine(t, line) ==
  CASE IsMoveFail(line)   -> [UndoLastStep(t) EXCEPT !.pending = None]
    [] IsVisionFail(line) -> t
    [] IsExitsLine(line)  -> [UpgradeCurrent(t, line.dirs) EXCEPT
                                !.pending = None, !.lastStep = None]
    [] LooksLikeTitle(line) ->
         LET r == t.current
             names == r \in DOMAIN t.rooms
                      /\ (t.rooms[r].title \in NoTitle \/ ~t.rooms[r].known)
         IN  [t EXCEPT !.pending = line.title,
                       !.rooms = IF names THEN [@ EXCEPT ![r].title = line.title] ELSE @]

(* nearby().title                                                          *)
TitleHere(t) == IF t.current \in DOMAIN t.rooms THEN t.rooms[t.current].title ELSE None
===============================================================================

---------------------------- MODULE RoomWalk_proofs ----------------------------
(***************************************************************************)
(* Theorems about RoomWalk, for any number of places and directions, every *)
(* map they may have, every journey in the store and any number of         *)
(* commands.                                                               *)
(***************************************************************************)
EXTENDS RoomWalk, TLAPS

AllDirs == DOMAIN ReverseDir

(* What the exits of a room, a room, the map and a move are.               *)
ExitMaps  == UNION {[D -> Nat \cup {Stub}] : D \in SUBSET AllDirs}
RoomType  == [title : Titles, exits : ExitMaps, known : BOOLEAN, visits : 1..2]
RoomMaps  == UNION {[D -> RoomType] : D \in SUBSET Nat}
MoveSteps == [from : Nat, dir : Dirs, to : Nat, created : BOOLEAN]
Gates     == [step : Nat, total : Nat, pre : {None} \cup Titles]

LineTypes == [is : {"fail", "dark"}] \cup [is : {"title"}, title : Titles]
             \cup [is : {"exits"}, dirs : SUBSET Dirs]

(* A room is known by a number that was given out.                         *)
TrackerType(t) ==
  /\ t \in [rooms : RoomMaps, current : Nat \cup {None}, lastStep : MoveSteps \cup {None},
            pending : Titles \cup {None}, made : Nat]
  /\ DOMAIN t.rooms \subseteq 1..t.made

TypeOK ==
  /\ leads \in Worlds /\ where \in Places /\ begin \in Places
  /\ commands \in Seq(Commands) /\ lines \in Seq(LineTypes)
  /\ TrackerType(tracker)
  /\ stands \in [DOMAIN tracker.rooms -> Places \cup {None}]
  /\ journey \in Seq(Commands) /\ recording \in BOOLEAN
  /\ replay \in Nat \cup {None} /\ gate \in Gates \cup {None} /\ reads \in Seq(Nat)
  /\ sends \in Nat /\ astray \in BOOLEAN /\ offRoute \in BOOLEAN

(* A journey is not played while it is recorded.                           *)
OneAtATime == recording => ~Playing

(* The step at which the replay is, from the place to which the steps      *)
(* before it lead: it is to be sent; it is sent; it was refused, which the *)
(* browser will hear; or it was made, whatever is still to be heard.       *)
ToSend  == gate = None /\ Quiet /\ replay <= Len(journey) /\ OnRoute(replay)
IsSent  == commands = <<journey[replay + 1]>> /\ lines = <<>> /\ OnRoute(replay)
Refused == commands = <<>> /\ lines = <<[is |-> "fail"]>>
Made    == commands = <<>> /\ OnRoute(replay + 1)

(* While the replay is on its route the gate that is set is the one of its *)
(* step; a gate without a replay, set by a step that was read after its    *)
(* replay was stopped, is known to be off the route.                       *)
RouteInv ==
  /\ gate # None /\ replay = None => offRoute
  /\ replay # None /\ ~offRoute =>
       \/ ToSend
       \/ /\ gate # None /\ gate.step = replay /\ gate.total = Len(journey)
          /\ replay < Len(journey)
          /\ IsSent \/ Refused \/ Made

-----------------------------------------------------------------------------
(* The map, as long as the player is not astray.  Every link is a way of   *)
(* the MUD; a room made for a move that is not answered yet may stand for  *)
(* no place.                                                               *)
LinksTrue ==
  \A r \in DOMAIN tracker.rooms : \A d \in DOMAIN tracker.rooms[r].exits :
    LET to == tracker.rooms[r].exits[d]
    IN  to # Stub => to \in DOMAIN tracker.rooms /\ Way(stands[r], d) = stands[to]

(* The tracker is where the player is.                                     *)
Arrived ==
  LET s == tracker.lastStep IN
  /\ \A r \in DOMAIN tracker.rooms : stands[r] \in Places
  /\ tracker.current # None =>
       tracker.current \in DOMAIN tracker.rooms /\ stands[tracker.current] = where
  /\ s # None =>
       /\ s.to = tracker.current /\ s.from \in DOMAIN tracker.rooms
       /\ Way(stands[s.from], s.dir) = where

(* The room of the last step was made for it: nothing else leads there,    *)
(* and it goes with it.                                                    *)
Fresh ==
  LET s == tracker.lastStep IN
  /\ s.created /\ s.from # s.to
  /\ ~tracker.rooms[s.to].known /\ tracker.rooms[s.to].visits = 1
  /\ \A r \in DOMAIN tracker.rooms : r # s.to => stands[r] \in Places
  /\ \A r \in DOMAIN tracker.rooms : \A d \in DOMAIN tracker.rooms[r].exits :
       tracker.rooms[r].exits[d] = s.to => r = s.from /\ d = s.dir

(* The tracker is one move ahead of the player.                            *)
Ahead ==
  LET s == tracker.lastStep IN
  /\ s # None /\ s.to = tracker.current
  /\ {s.from, s.to} \subseteq DOMAIN tracker.rooms
  /\ stands[s.from] = where /\ stands[s.to] = Way(where, s.dir)
  /\ Fresh \/ \A r \in DOMAIN tracker.rooms : stands[r] \in Places

SentMove ==
  /\ lines = <<>> /\ tracker.lastStep # None /\ commands = <<tracker.lastStep.dir>>
  /\ Ahead

SentOther ==
  /\ lines = <<>> /\ Arrived
  /\ \/ commands = <<"look">> /\ (tracker.lastStep # None => where \in Dark)
     \/ commands = <<"try">> /\ tracker.lastStep = None

ToldNo ==
  /\ commands = <<>> /\ lines = <<[is |-> "fail"]>>
  /\ \/ Ahead /\ Fresh
     \/ Arrived /\ tracker.lastStep = None

Told ==
  /\ commands = <<>> /\ Arrived
  /\ \/ lines = <<>> /\ (tracker.lastStep # None => where \in Dark)
     \/ lines = <<[is |-> "dark"]>> /\ where \in Dark
     \/ lines = <<[is |-> "title", title |-> Title[where]],
                  [is |-> "exits", dirs |-> Ways(where)]>>
     \/ lines = <<[is |-> "exits", dirs |-> Ways(where)]>>

TrailInv == ~astray => LinksTrue /\ (SentMove \/ SentOther \/ ToldNo \/ Told)

IInv == TypeOK /\ OneAtATime /\ RouteInv /\ TrailInv

-----------------------------------------------------------------------------
(* The tracker.                                                            *)

(* A map with no entries is a map of rooms, or of exits.                   *)
LEMMA NoEntries ==
  /\ DOMAIN <<>> = {}
  /\ <<>> \in ExitMaps
  /\ <<>> \in RoomMaps
<1>1. \A S : <<>> \in [{} -> S]
  OBVIOUS
<1> QED
  BY <1>1 DEF ExitMaps, RoomMaps

(* No command that is not a direction is one.                              *)
LEMMA LookAndTry == "look" \notin Dirs /\ "try" \notin Dirs /\ Dirs \subseteq AllDirs
BY WalkAssumption DEF AllDirs, ReverseDir

(* The way back has a name of its own.                                     *)
LEMMA BackIsADir == \A d \in AllDirs : ReverseDir[d] \in AllDirs
BY DEF AllDirs, ReverseDir

(* A visit changes no exit.                                                *)
LEMMA VisitedIs ==
  ASSUME NEW room \in RoomType
  PROVE  Visited(room) \in RoomType /\ Visited(room).exits = room.exits
BY DEF Visited, RoomType

(* Setting one entry of a map.                                             *)
LEMMA PutExit ==
  ASSUME NEW exits \in ExitMaps, NEW d \in AllDirs, NEW to \in Nat \cup {Stub}
  PROVE  LET new == Put(exits, d, to) IN
         /\ new \in ExitMaps /\ DOMAIN new = DOMAIN exits \cup {d}
         /\ new[d] = to /\ \A e \in DOMAIN exits : e # d => new[e] = exits[e]
<1> DEFINE new == Put(exits, d, to)
<1>1. PICK D \in SUBSET AllDirs : exits \in [D -> Nat \cup {Stub}]
  BY DEF ExitMaps
<1>2. new \in [D \cup {d} -> Nat \cup {Stub}]
  BY <1>1 DEF Put
<1>3. D \cup {d} \in SUBSET AllDirs
  OBVIOUS
<1> QED
  BY <1>1, <1>2, <1>3 DEF ExitMaps, Put

LEMMA PutRoom ==
  ASSUME NEW rooms \in RoomMaps, NEW n \in Nat,
         NEW room \in RoomType
  PROVE  LET new == Put(rooms, n, room) IN
         /\ new \in RoomMaps
         /\ DOMAIN new = DOMAIN rooms \cup {n}
         /\ new[n] = room /\ \A r \in DOMAIN rooms : r # n => new[r] = rooms[r]
<1> DEFINE new == Put(rooms, n, room)
<1>1. PICK D \in SUBSET Nat : rooms \in [D -> RoomType]
  BY DEF RoomMaps
<1>2. new \in [D \cup {n} -> RoomType]
  BY <1>1 DEF Put
<1>3. D \cup {n} \in SUBSET Nat
  OBVIOUS
<1> QED
  BY <1>1, <1>2, <1>3 DEF Put, RoomMaps

(* An exit is drawn in one room and nothing else changes.                  *)
LEMMA LinkDraws ==
  ASSUME NEW rooms \in RoomMaps, NEW from \in Nat,
         NEW dir \in AllDirs, NEW to \in Nat \cup {Stub}
  PROVE  LET new == LinkTo(rooms, from, dir, to) IN
         /\ new \in RoomMaps
         /\ DOMAIN new = DOMAIN rooms
         /\ \A r \in DOMAIN rooms : r # from => new[r] = rooms[r]
         /\ from \in DOMAIN rooms => new[from].exits = Put(rooms[from].exits, dir, to)
<1> DEFINE new == LinkTo(rooms, from, dir, to)
<1>1. PICK D \in SUBSET Nat : rooms \in [D -> RoomType]
  BY DEF RoomMaps
<1>2. ASSUME from \in D
      PROVE  LET room == [rooms[from] EXCEPT !.exits = Put(@, dir, to)]
             IN  room \in RoomType /\ room.exits = Put(rooms[from].exits, dir, to)
  <2>1. rooms[from] \in RoomType
    BY <1>1, <1>2
  <2>2. Put(rooms[from].exits, dir, to) \in ExitMaps
    BY <2>1, PutExit DEF RoomType
  <2> QED
    BY <2>1, <2>2 DEF RoomType
<1>3. new \in [D -> RoomType]
  BY <1>1, <1>2 DEF LinkTo
<1> QED
  BY <1>1, <1>2, <1>3 DEF LinkTo, RoomMaps

LEMMA CreateType ==
  ASSUME NEW t, TrackerType(t), NEW title \in Titles, NEW exits \in ExitMaps
  PROVE  LET u == CreateRoom(t, title, exits)
             n == t.made + 1
         IN  /\ TrackerType(u)
             /\ n \in Nat /\ n \notin DOMAIN t.rooms /\ u.current = n
             /\ u.lastStep = t.lastStep /\ u.pending = t.pending
             /\ DOMAIN u.rooms = DOMAIN t.rooms \cup {n}
             /\ u.rooms[n] = [title |-> title, exits |-> exits, known |-> FALSE, visits |-> 1]
             /\ \A r \in DOMAIN t.rooms : u.rooms[r] = t.rooms[r]
<1> DEFINE u == CreateRoom(t, title, exits)
           n == t.made + 1
           room == [title |-> title, exits |-> exits, known |-> FALSE, visits |-> 1]
           rooms == Put(t.rooms, n, room)
<1>1. n \in Nat /\ n \notin DOMAIN t.rooms
  BY DEF TrackerType
<1>2. room \in RoomType
  BY DEF RoomType
<1>3. /\ rooms \in RoomMaps
      /\ DOMAIN rooms = DOMAIN t.rooms \cup {n}
      /\ rooms[n] = room /\ \A r \in DOMAIN t.rooms : r # n => rooms[r] = t.rooms[r]
  <2>1. t.rooms \in RoomMaps
    BY DEF TrackerType
  <2>2. n \in Nat /\ room \in RoomType
    BY <1>1, <1>2
  <2> HIDE DEF room, n
  <2> QED
    BY <2>1, <2>2, PutRoom, ZenonT(60)
<1>4. u = [t EXCEPT !.made = n, !.current = n, !.rooms = rooms]
  BY DEF CreateRoom, TrackerType
<1>5. /\ u.rooms = rooms /\ u.current = n /\ u.made = n /\ u.lastStep = t.lastStep
      /\ u.pending = t.pending
  <2> HIDE DEF n, rooms
  <2> QED
    BY <1>4 DEF TrackerType
<1>6. TrackerType(u)
  <2>1. DOMAIN u.rooms \subseteq 1..u.made
    <3>1. t.made \in Nat /\ DOMAIN t.rooms \subseteq 1..t.made
      BY DEF TrackerType
    <3>2. DOMAIN u.rooms = DOMAIN t.rooms \cup {n} /\ u.made = n
      BY <1>3, <1>5
    <3> HIDE DEF u
    <3> QED
      BY <3>1, <3>2
  <2> HIDE DEF n, rooms, u
  <2> QED
    BY <1>1, <1>3, <1>4, <1>5, <2>1 DEF TrackerType
<1> QED
  BY <1>1, <1>3, <1>5, <1>6

(* The first command, or the first exits, find a room to be in.            *)
LEMMA EnsureType ==
  ASSUME NEW t, TrackerType(t)
  PROVE  LET u == EnsureStart(t) IN
         /\ TrackerType(u) /\ u.lastStep = t.lastStep /\ u.pending = t.pending
         /\ u.current \in DOMAIN u.rooms
         /\ DOMAIN u.rooms = DOMAIN t.rooms \cup {u.current}
         /\ \A r \in DOMAIN t.rooms : u.rooms[r] = t.rooms[r]
         /\ t.current \in DOMAIN t.rooms => u = t
         /\ t.current \notin DOMAIN t.rooms =>
              u.current \notin DOMAIN t.rooms /\ DOMAIN u.rooms[u.current].exits = {}
<1>1. CASE t.current \in DOMAIN t.rooms
  BY <1>1 DEF EnsureStart
<1>2. CASE t.current \notin DOMAIN t.rooms
  <2>1. EnsureStart(t) = CreateRoom(t, "start", <<>>)
    BY <1>2 DEF EnsureStart
  <2>2. "start" \in Titles
    BY DEF Titles, NoTitle
  <2> DEFINE u == CreateRoom(t, "start", <<>>)
  <2>3. /\ TrackerType(u) /\ u.lastStep = t.lastStep /\ u.pending = t.pending
        /\ u.current \notin DOMAIN t.rooms
        /\ DOMAIN u.rooms = DOMAIN t.rooms \cup {u.current}
        /\ u.rooms[u.current].exits = <<>>
        /\ \A r \in DOMAIN t.rooms : u.rooms[r] = t.rooms[r]
    <3> DEFINE room == [title |-> "start", exits |-> <<>>, known |-> FALSE, visits |-> 1]
    <3>1. room.exits = <<>>
      OBVIOUS
    <3>2. <<>> \in ExitMaps
      BY NoEntries
    <3> HIDE DEF room
    <3>3. /\ TrackerType(u) /\ u.lastStep = t.lastStep /\ u.pending = t.pending
          /\ u.current \notin DOMAIN t.rooms
          /\ DOMAIN u.rooms = DOMAIN t.rooms \cup {u.current}
          /\ u.rooms[u.current] = room
          /\ \A r \in DOMAIN t.rooms : u.rooms[r] = t.rooms[r]
      BY <2>2, <3>2, CreateType DEF room
    <3> QED
      BY <3>1, <3>3
  <2> HIDE DEF u
  <2> QED
    BY <1>2, <2>1, <2>3, NoEntries DEF u
<1> QED
  BY <1>1, <1>2

(* A move takes a link that is drawn, or draws one to a new room of which  *)
(* nothing is known.                                                       *)
TakesLink(t, u, dir) ==
  /\ dir \in DOMAIN t.rooms[t.current].exits
  /\ u.current = t.rooms[t.current].exits[dir]
  /\ DOMAIN u.rooms = DOMAIN t.rooms
  /\ \A r \in DOMAIN t.rooms : u.rooms[r].exits = t.rooms[r].exits

DrawsLink(t, u, dir) ==
  LET new == u.rooms[u.current]
      old == t.rooms[t.current].exits
  IN  /\ u.current \notin DOMAIN t.rooms /\ u.current \in Nat
      /\ DOMAIN u.rooms = DOMAIN t.rooms \cup {u.current}
      /\ \A r \in DOMAIN t.rooms : r # t.current => u.rooms[r] = t.rooms[r]
      /\ u.rooms[t.current].exits = Put(old, dir, u.current)
      /\ ~new.known /\ new.visits = 1 /\ \A d \in DOMAIN new.exits : new.exits[d] = Stub
      /\ u.lastStep.created = (u.current # IF dir \in DOMAIN old THEN old[dir] ELSE Stub)

LEMMA StepType ==
  ASSUME NEW t, TrackerType(t), t.current \in DOMAIN t.rooms, NEW dir \in Dirs
  PROVE  LET u == StepOnMove(t, dir) IN
         /\ TrackerType(u) /\ u.lastStep \in MoveSteps /\ u.pending = t.pending
         /\ u.lastStep.from = t.current /\ u.lastStep.dir = dir /\ u.lastStep.to = u.current
         /\ u.current \in DOMAIN u.rooms
         /\ TakesLink(t, u, dir) \/ DrawsLink(t, u, dir)
<1> DEFINE here == t.current
           old == t.rooms[here].exits
           to == IF dir \in DOMAIN old THEN old[dir] ELSE Stub
           Step(new) == [from |-> here, dir |-> dir, to |-> new, created |-> new # to]
           u == StepOnMove(t, dir)
<1>1. /\ here \in Nat /\ t.rooms[here] \in RoomType /\ old \in ExitMaps
      /\ t.rooms \in RoomMaps
  BY DEF TrackerType, RoomType, RoomMaps
<1>2. to \in Nat \cup {Stub} /\ dir \in AllDirs
  BY <1>1, LookAndTry DEF ExitMaps
<1>3. CASE to \in DOMAIN t.rooms
  <2> DEFINE rooms == [t.rooms EXCEPT ![to] = Visited(@)]
  <2>1. to \in Nat /\ t.rooms[to] \in RoomType /\ dir \in DOMAIN old
    BY <1>3, WalkAssumption DEF TrackerType, RoomMaps
  <2>2. u = [t EXCEPT !.rooms = rooms, !.current = to, !.lastStep = Step(to)]
    BY <1>3 DEF StepOnMove
  <2>3. Visited(t.rooms[to]) \in RoomType /\ Visited(t.rooms[to]).exits = t.rooms[to].exits
    BY <2>1, VisitedIs
  <2>4. /\ rooms \in RoomMaps
        /\ DOMAIN rooms = DOMAIN t.rooms
        /\ \A r \in DOMAIN t.rooms : rooms[r].exits = t.rooms[r].exits
    <3>1. PICK D \in SUBSET Nat : t.rooms \in [D -> RoomType]
      BY <1>1 DEF RoomMaps
    <3>2. rooms \in [D -> RoomType]
      BY <2>3, <3>1
    <3> QED
      BY <2>3, <3>1, <3>2 DEF RoomMaps
  <2>5. Step(to) \in MoveSteps
    BY <1>1, <2>1 DEF MoveSteps
  <2> HIDE DEF rooms, Step, old, to
  <2>6. /\ u.rooms = rooms /\ u.current = to /\ u.lastStep = Step(to)
        /\ u.made = t.made /\ u.pending = t.pending
    BY <2>2 DEF TrackerType
  <2>7. TrackerType(u)
    BY <2>1, <2>2, <2>4, <2>5, <2>6 DEF TrackerType
  <2>8. TakesLink(t, u, dir)
    BY <2>1, <2>4, <2>6 DEF TakesLink, old, to
  <2> QED
    BY <1>3, <2>4, <2>5, <2>6, <2>7, <2>8 DEF Step
<1>4. CASE to \notin DOMAIN t.rooms
  <2> DEFINE stub == [d \in {ReverseDir[dir]} |-> Stub]
             dug == CreateRoom(t, "?", stub)
             n == dug.current
             rooms == LinkTo(dug.rooms, here, dir, n)
  <2>1. stub \in ExitMaps
    <3>1. ReverseDir[dir] \in AllDirs
      BY <1>2, BackIsADir
    <3>2. stub \in [{ReverseDir[dir]} -> Nat \cup {Stub}]
      OBVIOUS
    <3> QED
      BY <3>1, <3>2 DEF ExitMaps
  <2>2. "?" \in Titles
    BY DEF Titles, NoTitle
  <2>3. /\ TrackerType(dug) /\ n \in Nat /\ n \notin DOMAIN t.rooms /\ dug.pending = t.pending
        /\ DOMAIN dug.rooms = DOMAIN t.rooms \cup {n}
        /\ dug.rooms[n] = [title |-> "?", exits |-> stub, known |-> FALSE, visits |-> 1]
        /\ \A r \in DOMAIN t.rooms : dug.rooms[r] = t.rooms[r]
    <3> HIDE DEF stub
    <3> QED
      BY <2>1, <2>2, CreateType
  <2>4. u = [dug EXCEPT !.rooms = rooms, !.lastStep = Step(n)]
    BY <1>4 DEF StepOnMove
  <2> HIDE DEF dug
  <2>5. /\ rooms \in RoomMaps
        /\ DOMAIN rooms = DOMAIN dug.rooms
        /\ \A r \in DOMAIN dug.rooms : r # here => rooms[r] = dug.rooms[r]
        /\ rooms[here].exits = Put(dug.rooms[here].exits, dir, n)
    <3>1. /\ dug.rooms \in RoomMaps
          /\ n \in Nat \cup {Stub} /\ here \in Nat /\ here \in DOMAIN dug.rooms
      BY <1>1, <2>3 DEF TrackerType
    <3> HIDE DEF n, here
    <3> QED
      BY <1>2, <3>1, LinkDraws
  <2>6. rooms[here].exits = Put(old, dir, n)
    BY <1>1, <2>3, <2>5 DEF RoomType
  <2>7. Step(n) \in MoveSteps
    BY <1>1, <2>3 DEF MoveSteps
  <2> DEFINE step == Step(n)
  <2>8. step.from = here /\ step.dir = dir /\ step.to = n /\ step.created = (n # to)
    OBVIOUS
  <2> HIDE DEF rooms, step
  <2>9. /\ u.rooms = rooms /\ u.current = n /\ u.lastStep = step
        /\ u.made = dug.made /\ u.pending = t.pending
    BY <2>3, <2>4 DEF TrackerType, step
  <2>10. TrackerType(u)
    <3>1. u = [dug EXCEPT !.rooms = rooms, !.lastStep = step] /\ step \in MoveSteps
      BY <2>4, <2>7 DEF step
    <3>2. DOMAIN u.rooms \subseteq 1..u.made
      BY <2>3, <2>5, <2>9 DEF TrackerType
    <3> HIDE DEF u
    <3> QED
      BY <2>3, <2>5, <2>9, <3>1, <3>2 DEF TrackerType
  <2>11. DrawsLink(t, u, dir)
    <3>1. rooms[n] = dug.rooms[n]
      BY <2>3, <2>5
    <3>2. ~rooms[n].known /\ rooms[n].visits = 1 /\ rooms[n].exits = stub
      BY <2>3, <3>1
    <3>3. \A d \in DOMAIN stub : stub[d] = Stub
      OBVIOUS
    <3>4. \A r \in DOMAIN t.rooms : r # here => rooms[r] = t.rooms[r]
      BY <2>3, <2>5
    <3> HIDE DEF u, stub
    <3> QED
      BY <2>3, <2>5, <2>6, <2>8, <2>9, <3>2, <3>3, <3>4 DEF DrawsLink
  <2> QED
    BY <2>3, <2>5, <2>7, <2>8, <2>9, <2>10, <2>11 DEF step
<1> QED
  BY <1>3, <1>4

(* A refused step is taken back, with the room that was made for it.       *)
TakesBack(t, u) ==
  LET s == t.lastStep IN
  /\ DOMAIN u.rooms = DOMAIN t.rooms \ {s.to}
  /\ \A r \in DOMAIN u.rooms : r # s.from => u.rooms[r] = t.rooms[r]
  /\ DOMAIN u.rooms[s.from].exits = DOMAIN t.rooms[s.from].exits \ {s.dir}
  /\ \A d \in DOMAIN u.rooms[s.from].exits : u.rooms[s.from].exits[d] = t.rooms[s.from].exits[d]

LEMMA UndoType ==
  ASSUME NEW t, TrackerType(t)
  PROVE  LET u == UndoLastStep(t)
             s == t.lastStep
         IN  /\ TrackerType(u) /\ u.pending = t.pending
             /\ s = None => u = t
             /\ s # None => u.current = s.from /\ u.lastStep = None
             /\ s # None /\ s.created /\ s.from # s.to /\ {s.from, s.to} \subseteq DOMAIN t.rooms
                /\ ~t.rooms[s.to].known /\ t.rooms[s.to].visits = 1
                => TakesBack(t, u)
<1>1. CASE t.lastStep = None
  BY <1>1 DEF UndoLastStep
<1>2. CASE t.lastStep # None
  <2> DEFINE s == t.lastStep
             cut == Restrict(t.rooms[s.from].exits, DOMAIN t.rooms[s.from].exits \ {s.dir})
             unlinked == [t.rooms EXCEPT ![s.from].exits = Restrict(@, DOMAIN @ \ {s.dir})]
             way == IF s.created THEN unlinked ELSE LinkTo(t.rooms, s.from, s.dir, s.to)
             gone == {r \in DOMAIN t.rooms \cap {s.to} :
                        s.created /\ ~t.rooms[r].known /\ t.rooms[r].visits <= 1}
             rooms == Restrict(way, DOMAIN way \ gone)
             u == UndoLastStep(t)
  <2>1. s \in MoveSteps /\ t.rooms \in RoomMaps /\ s.dir \in AllDirs
    BY <1>2, LookAndTry DEF TrackerType, MoveSteps
  <2>2. u = [t EXCEPT !.rooms = rooms, !.current = s.from, !.lastStep = None]
    BY <1>2 DEF UndoLastStep
  <2>3. ASSUME s.from \in DOMAIN t.rooms
        PROVE  /\ cut \in ExitMaps
               /\ DOMAIN cut = DOMAIN t.rooms[s.from].exits \ {s.dir}
               /\ \A d \in DOMAIN cut : cut[d] = t.rooms[s.from].exits[d]
    <3> DEFINE exits == t.rooms[s.from].exits
    <3>1. exits \in ExitMaps
      BY <2>1, <2>3 DEF RoomMaps, RoomType
    <3>2. PICK D \in SUBSET AllDirs : exits \in [D -> Nat \cup {Stub}]
      BY <3>1 DEF ExitMaps
    <3>3. cut \in [D \ {s.dir} -> Nat \cup {Stub}]
      BY <3>2 DEF Restrict
    <3>4. D \ {s.dir} \in SUBSET AllDirs
      OBVIOUS
    <3> QED
      BY <3>2, <3>3, <3>4 DEF ExitMaps, Restrict
  <2>4. /\ unlinked \in RoomMaps /\ DOMAIN unlinked = DOMAIN t.rooms
        /\ \A r \in DOMAIN t.rooms : r # s.from => unlinked[r] = t.rooms[r]
        /\ s.from \in DOMAIN t.rooms => unlinked[s.from].exits = cut
    <3>1. PICK D \in SUBSET Nat : t.rooms \in [D -> RoomType]
      BY <2>1 DEF RoomMaps
    <3>2. unlinked = [t.rooms EXCEPT ![s.from] = [@ EXCEPT !.exits = cut]]
      BY <3>1
    <3>3. ASSUME s.from \in D
          PROVE  LET room == [t.rooms[s.from] EXCEPT !.exits = cut]
                 IN  room \in RoomType /\ room.exits = cut
      <4>1. t.rooms[s.from] \in RoomType /\ cut \in ExitMaps
        BY <2>3, <3>1, <3>3
      <4> HIDE DEF cut
      <4> QED
        BY <4>1 DEF RoomType
    <3> HIDE DEF cut, unlinked
    <3>4. unlinked \in [D -> RoomType]
      BY <3>1, <3>2, <3>3
    <3> QED
      BY <3>1, <3>2, <3>3, <3>4 DEF RoomMaps
  <2>5. way \in RoomMaps /\ DOMAIN way = DOMAIN t.rooms
    <3>1. LinkTo(t.rooms, s.from, s.dir, s.to) \in RoomMaps
          /\ DOMAIN LinkTo(t.rooms, s.from, s.dir, s.to) = DOMAIN t.rooms
      <4>1. /\ t.rooms \in RoomMaps /\ s.dir \in AllDirs
            /\ s.from \in Nat /\ s.to \in Nat \cup {Stub}
        BY <2>1 DEF MoveSteps
      <4>2. \A from \in Nat, dir \in AllDirs, to \in Nat \cup {Stub} :
              /\ LinkTo(t.rooms, from, dir, to) \in RoomMaps
              /\ DOMAIN LinkTo(t.rooms, from, dir, to) = DOMAIN t.rooms
        BY <4>1, LinkDraws, SMTT(30)
      <4> QED
        BY <4>1, <4>2
    <3> HIDE DEF unlinked
    <3> QED
      BY <2>4, <3>1
  <2> HIDE DEF way, gone
  <2>6. /\ rooms \in RoomMaps /\ DOMAIN rooms = DOMAIN t.rooms \ gone
        /\ \A r \in DOMAIN rooms : rooms[r] = way[r]
    <3>1. PICK D \in SUBSET Nat : way \in [D -> RoomType]
      BY <2>5 DEF RoomMaps
    <3>2. rooms \in [D \ gone -> RoomType]
      BY <3>1 DEF Restrict
    <3>3. D \ gone \in SUBSET Nat
      OBVIOUS
    <3> QED
      BY <2>5, <3>1, <3>2, <3>3 DEF Restrict, RoomMaps
  <2> HIDE DEF rooms
  <2>7. /\ u.rooms = rooms /\ u.current = s.from /\ u.lastStep = None
        /\ u.made = t.made /\ u.pending = t.pending
    BY <2>2 DEF TrackerType
  <2>8. TrackerType(u)
    <3>1. s.from \in Nat
      BY <2>1 DEF MoveSteps
    <3> HIDE DEF u, s
    <3> QED
      BY <2>2, <2>6, <2>7, <3>1 DEF TrackerType
  <2>9. ASSUME s.created, s.from # s.to, {s.from, s.to} \subseteq DOMAIN t.rooms,
               ~t.rooms[s.to].known, t.rooms[s.to].visits = 1
        PROVE  TakesBack(t, u)
    <3>1. gone = {s.to} /\ way = unlinked
      BY <2>9 DEF gone, way
    <3> HIDE DEF unlinked, cut
    <3>2. s.from \in DOMAIN t.rooms /\ s.from \in DOMAIN rooms
      BY <2>6, <2>9, <3>1
    <3>3. /\ DOMAIN u.rooms = DOMAIN t.rooms \ {s.to}
          /\ \A r \in DOMAIN u.rooms : r # s.from => u.rooms[r] = t.rooms[r]
          /\ u.rooms[s.from].exits = cut
      <4> HIDE DEF u, s
      <4> QED
        BY <2>4, <2>6, <2>7, <3>1, <3>2
    <3> QED
      BY <2>3, <3>2, <3>3 DEF TakesBack
  <2> QED
    BY <1>2, <2>7, <2>8, <2>9
<1> QED
  BY <1>1, <1>2

(* A link that the exits of a room bring is the step by which it was       *)
(* reached, or the way back that the MUD lists.                            *)
LearnsExit(e, dirs, r, d, to) ==
  LET s == e.lastStep IN
  \/ to = Stub
  \/ d \in DOMAIN e.rooms[r].exits /\ to = e.rooms[r].exits[d]
  \/ /\ s # None /\ ReverseDir[s.dir] \in dirs
     /\ \/ r = e.current /\ d = ReverseDir[s.dir] /\ to = s.from
        \/ r = s.from /\ d = s.dir /\ to = e.current

LearnsExits(e, dirs, rooms) ==
  /\ rooms \in RoomMaps /\ DOMAIN rooms = DOMAIN e.rooms
  /\ \A r \in DOMAIN rooms : \A d \in DOMAIN rooms[r].exits :
       LearnsExit(e, dirs, r, d, rooms[r].exits[d])

(* Drawing one of these links keeps it so.                                 *)
LEMMA LinkLearns ==
  ASSUME NEW e, NEW dirs, NEW rooms, LearnsExits(e, dirs, rooms),
         NEW from \in Nat, NEW d \in AllDirs, NEW to \in Nat \cup {Stub},
         LearnsExit(e, dirs, from, d, to)
  PROVE  LearnsExits(e, dirs, LinkTo(rooms, from, d, to))
<1> DEFINE new == LinkTo(rooms, from, d, to)
<1>1. rooms \in RoomMaps
  BY DEF LearnsExits
<1>2. /\ new \in RoomMaps /\ DOMAIN new = DOMAIN rooms
      /\ \A r \in DOMAIN rooms : r # from => new[r] = rooms[r]
      /\ from \in DOMAIN rooms => new[from].exits = Put(rooms[from].exits, d, to)
  BY <1>1, LinkDraws
<1> HIDE DEF new
<1>3. ASSUME NEW r \in DOMAIN new, NEW x \in DOMAIN new[r].exits
      PROVE  LearnsExit(e, dirs, r, x, new[r].exits[x])
  <2>1. CASE r # from
    BY <1>2, <1>3, <2>1 DEF LearnsExits
  <2>2. CASE r = from
    <3> DEFINE old == rooms[from].exits
    <3>1. old \in ExitMaps
      BY <1>1, <1>2, <2>2 DEF RoomMaps, RoomType
    <3>2. /\ DOMAIN Put(old, d, to) = DOMAIN old \cup {d} /\ Put(old, d, to)[d] = to
          /\ \A y \in DOMAIN old : y # d => Put(old, d, to)[y] = old[y]
      BY DEF Put
    <3>3. new[r].exits = Put(old, d, to) /\ r \in DOMAIN rooms
      BY <1>2, <2>2
    <3>4. CASE x = d
      BY <2>2, <3>2, <3>3, <3>4
    <3>5. CASE x # d
      <4>1. x \in DOMAIN old /\ new[r].exits[x] = old[x]
        BY <3>2, <3>3, <3>5
      <4> QED
        BY <2>2, <3>3, <4>1 DEF LearnsExits
    <3> QED
      BY <3>4, <3>5
  <2> QED
    BY <2>1, <2>2
<1> QED
  BY <1>2, <1>3 DEF LearnsExits, new

LEMMA UpgradeType ==
  ASSUME NEW t, TrackerType(t), NEW dirs \in SUBSET Dirs
  PROVE  LET e == EnsureStart(t)
             u == UpgradeCurrent(t, dirs)
         IN  /\ TrackerType(u) /\ u.current = e.current /\ u.lastStep = e.lastStep
             /\ LearnsExits(e, dirs, u.rooms)
<1> DEFINE e == EnsureStart(t)
           here == e.current
           s == e.lastStep
           title == IF t.pending # None THEN t.pending
                    ELSE IF e.rooms[here].title \in NoTitle THEN "unnamed"
                    ELSE e.rooms[here].title
           old == e.rooms[here].exits
           exits == [d \in DOMAIN old \cup dirs |-> IF d \in DOMAIN old THEN old[d] ELSE Stub]
           room == [Visited(e.rooms[here]) EXCEPT
                      !.title = title, !.exits = exits, !.known = TRUE]
           rooms == [e.rooms EXCEPT ![here] = [Visited(@) EXCEPT
                       !.title = title, !.exits = exits, !.known = TRUE]]
           back == ReverseDir[s.dir]
           drawn == IF back \notin DOMAIN exits \/ exits[back] = Stub
                    THEN LinkTo(rooms, here, back, s.from) ELSE rooms
           linked == LinkTo(drawn, s.from, s.dir, here)
           u == UpgradeCurrent(t, dirs)
<1>1. /\ TrackerType(e) /\ here \in Nat /\ here \in DOMAIN e.rooms
      /\ e.rooms \in RoomMaps /\ e.rooms[here] \in RoomType /\ old \in ExitMaps
  <2>1. TrackerType(e) /\ here \in DOMAIN e.rooms
    BY EnsureType
  <2> HIDE DEF e
  <2> QED
    BY <2>1 DEF TrackerType, RoomMaps, RoomType
<1> HIDE DEF e
<1>2. exits \in ExitMaps
  <2>1. PICK D \in SUBSET AllDirs : old \in [D -> Nat \cup {Stub}]
    BY <1>1 DEF ExitMaps
  <2>2. exits \in [D \cup dirs -> Nat \cup {Stub}]
    BY <2>1
  <2>3. D \cup dirs \in SUBSET AllDirs
    BY LookAndTry
  <2> QED
    BY <2>2, <2>3 DEF ExitMaps
<1>3. title \in Titles
  <2>1. e.rooms[here].title \in Titles /\ t.pending \in Titles \cup {None}
    BY <1>1 DEF TrackerType, RoomType
  <2> QED
    BY <2>1 DEF Titles
<1>4. room \in RoomType /\ room.exits = exits
  <2>1. Visited(e.rooms[here]) \in RoomType
    BY <1>1 DEF Visited, RoomType
  <2> HIDE DEF exits, title
  <2> QED
    BY <1>2, <1>3, <2>1 DEF RoomType
<1>5. LearnsExits(e, dirs, rooms)
  <2>1. PICK D \in SUBSET Nat : e.rooms \in [D -> RoomType]
    BY <1>1 DEF RoomMaps
  <2>2. rooms = [e.rooms EXCEPT ![here] = room]
    OBVIOUS
  <2> DEFINE changed == [e.rooms EXCEPT ![here] = room]
  <2> HIDE DEF room, rooms
  <2>3. /\ changed \in [D -> RoomType] /\ changed[here] = room
        /\ \A r \in DOMAIN e.rooms : r # here => changed[r] = e.rooms[r]
    BY <1>1, <1>4, <2>1
  <2> HIDE DEF changed
  <2>4. changed \in RoomMaps /\ DOMAIN changed = DOMAIN e.rooms
    BY <2>1, <2>3 DEF RoomMaps
  <2>5. ASSUME NEW r \in DOMAIN changed, NEW d \in DOMAIN changed[r].exits
        PROVE  LearnsExit(e, dirs, r, d, changed[r].exits[d])
    <3>1. CASE r # here
      BY <2>3, <2>4, <2>5, <3>1 DEF LearnsExit
    <3>2. CASE r = here
      BY <1>4, <2>3, <2>5, <3>2 DEF LearnsExit
    <3> QED
      BY <3>1, <3>2
  <2> QED
    BY <2>2, <2>4, <2>5 DEF LearnsExits, changed
<1>6. ASSUME s # None, back \in dirs
      PROVE  LearnsExits(e, dirs, linked)
  <2>1. /\ s.from \in Nat /\ s.from \in Nat \cup {Stub} /\ here \in Nat \cup {Stub}
        /\ s.dir \in AllDirs /\ back \in AllDirs
    BY <1>1, <1>6, LookAndTry, BackIsADir DEF TrackerType, MoveSteps
  <2>2. LearnsExit(e, dirs, here, back, s.from) /\ LearnsExit(e, dirs, s.from, s.dir, here)
    BY <1>6 DEF LearnsExit
  <2> HIDE DEF rooms, exits, back, s, here
  <2>3. LearnsExits(e, dirs, LinkTo(rooms, here, back, s.from))
    BY <1>1, <1>5, <2>1, <2>2, LinkLearns
  <2>4. LearnsExits(e, dirs, drawn)
    BY <1>5, <2>3
  <2> HIDE DEF drawn
  <2> QED
    BY <1>1, <2>1, <2>2, <2>4, LinkLearns
<1>7. /\ u = [e EXCEPT !.rooms = IF s # None /\ back \in dirs THEN linked ELSE rooms]
  BY DEF UpgradeCurrent, WayBack, e
<1> DEFINE now == IF s # None /\ back \in dirs THEN linked ELSE rooms
<1>8. LearnsExits(e, dirs, now)
  <2> HIDE DEF linked, rooms
  <2> QED
    BY <1>5, <1>6
<1> HIDE DEF now, linked, rooms
<1>9. u = [e EXCEPT !.rooms = now]
  BY <1>7 DEF now
<1>10. u.rooms = now /\ u.current = here /\ u.lastStep = s /\ u.made = e.made
  BY <1>1, <1>9 DEF TrackerType
<1>11. TrackerType(u)
  <2>1. now \in RoomMaps /\ DOMAIN now \subseteq 1..e.made
    BY <1>1, <1>8 DEF LearnsExits, TrackerType
  <2> HIDE DEF u
  <2> QED
    BY <1>1, <1>9, <1>10, <2>1 DEF TrackerType
<1> QED
  BY <1>8, <1>10, <1>11 DEF e

(* What each line does to the tracker.                                     *)
LEMMA HearNo ==
  ASSUME NEW t, TrackerType(t), NEW line \in LineTypes, line.is = "fail"
  PROVE  LET u == OnServerLine(t, line)
             v == UndoLastStep(t)
         IN  /\ TrackerType(u) /\ u.pending = None
             /\ u.rooms = v.rooms /\ u.current = v.current /\ u.lastStep = v.lastStep
<1> DEFINE v == UndoLastStep(t)
<1>1. OnServerLine(t, line) = [v EXCEPT !.pending = None]
  BY DEF OnServerLine, IsMoveFail, IsVisionFail, IsExitsLine, LooksLikeTitle
<1>2. TrackerType(v)
  BY UndoType
<1> HIDE DEF v
<1>3. TrackerType([v EXCEPT !.pending = None])
  BY <1>2 DEF TrackerType
<1> QED
  BY <1>1, <1>2, <1>3 DEF TrackerType, v

LEMMA HearDark ==
  ASSUME NEW t, NEW line, line.is = "dark"
  PROVE  OnServerLine(t, line) = t
BY DEF OnServerLine, IsMoveFail, IsVisionFail, IsExitsLine, LooksLikeTitle

LEMMA HearTitle ==
  ASSUME NEW t, TrackerType(t), NEW line \in LineTypes, line.is = "title"
  PROVE  LET u == OnServerLine(t, line) IN
         /\ TrackerType(u) /\ u.current = t.current /\ u.lastStep = t.lastStep
         /\ DOMAIN u.rooms = DOMAIN t.rooms
         /\ \A r \in DOMAIN t.rooms : u.rooms[r].exits = t.rooms[r].exits
<1> DEFINE r == t.current
           names == r \in DOMAIN t.rooms
                    /\ (t.rooms[r].title \in NoTitle \/ ~t.rooms[r].known)
           named == [t.rooms EXCEPT ![r].title = line.title]
           rooms == IF names THEN named ELSE t.rooms
           u == OnServerLine(t, line)
<1>1. u = [t EXCEPT !.pending = line.title, !.rooms = rooms]
  BY DEF OnServerLine, IsMoveFail, IsVisionFail, IsExitsLine, LooksLikeTitle
<1>2. line.title \in Titles
  BY DEF LineTypes
<1>3. /\ rooms \in RoomMaps /\ DOMAIN rooms = DOMAIN t.rooms
      /\ \A q \in DOMAIN t.rooms : rooms[q].exits = t.rooms[q].exits
  <2>1. PICK D \in SUBSET Nat : t.rooms \in [D -> RoomType]
    BY DEF TrackerType, RoomMaps
  <2>2. ASSUME r \in D
        PROVE  LET room == [t.rooms[r] EXCEPT !.title = line.title]
               IN  room \in RoomType /\ room.exits = t.rooms[r].exits
    <3>1. t.rooms[r] \in RoomType
      BY <2>1, <2>2
    <3> QED
      BY <1>2, <3>1 DEF RoomType
  <2>3. named = [t.rooms EXCEPT ![r] = [@ EXCEPT !.title = line.title]]
    OBVIOUS
  <2>4. /\ named \in [D -> RoomType]
        /\ \A q \in D : named[q].exits = t.rooms[q].exits
    BY <2>1, <2>2, <2>3
  <2> HIDE DEF named, names
  <2> QED
    BY <2>1, <2>4 DEF RoomMaps
<1> HIDE DEF rooms
<1>4. /\ u.rooms = rooms /\ u.current = t.current /\ u.lastStep = t.lastStep
      /\ u.made = t.made
  BY <1>1 DEF TrackerType
<1>5. TrackerType(u)
  <2> HIDE DEF u
  <2> QED
    BY <1>1, <1>2, <1>3, <1>4 DEF TrackerType
<1> QED
  BY <1>3, <1>4, <1>5

LEMMA HearExits ==
  ASSUME NEW t, TrackerType(t), NEW line \in LineTypes, line.is = "exits"
  PROVE  LET u == OnServerLine(t, line)
             e == EnsureStart(t)
         IN  /\ TrackerType(u) /\ u.current = e.current /\ u.lastStep = None
             /\ LearnsExits(e, line.dirs, u.rooms)
<1> DEFINE v == UpgradeCurrent(t, line.dirs)
           u == OnServerLine(t, line)
<1>1. u = [v EXCEPT !.pending = None, !.lastStep = None]
  BY DEF OnServerLine, IsMoveFail, IsVisionFail, IsExitsLine, LooksLikeTitle
<1>2. line.dirs \in SUBSET Dirs
  BY DEF LineTypes
<1>3. /\ TrackerType(v) /\ v.current = EnsureStart(t).current
      /\ LearnsExits(EnsureStart(t), line.dirs, v.rooms)
  BY <1>2, UpgradeType
<1> HIDE DEF v
<1>4. u.rooms = v.rooms /\ u.current = v.current /\ u.lastStep = None
  BY <1>1, <1>3 DEF TrackerType
<1>5. TrackerType([v EXCEPT !.pending = None, !.lastStep = None])
  BY <1>3 DEF TrackerType
<1> QED
  BY <1>1, <1>3, <1>4, <1>5

LEMMA HearType ==
  ASSUME NEW t, TrackerType(t), NEW line \in LineTypes
  PROVE  TrackerType(OnServerLine(t, line))
<1>1. line.is \in {"fail", "dark", "title", "exits"}
  BY DEF LineTypes
<1> QED
  BY <1>1, HearNo, HearDark, HearTitle, HearExits

LEMMA NoteType ==
  ASSUME NEW t, TrackerType(t), NEW dir \in Dirs
  PROVE  LET e == EnsureStart(t)
             u == NoteOutbound(t, dir)
         IN  /\ TrackerType(u) /\ u.lastStep \in MoveSteps
             /\ u.lastStep.from = e.current /\ u.lastStep.dir = dir
             /\ u.lastStep.to = u.current /\ u.current \in DOMAIN u.rooms
             /\ TakesLink(e, u, dir) \/ DrawsLink(e, u, dir)
<1>1. TrackerType(EnsureStart(t)) /\ EnsureStart(t).current \in DOMAIN EnsureStart(t).rooms
  BY EnsureType
<1>2. NoteOutbound(t, dir) = StepOnMove(EnsureStart(t), dir)
  BY DEF NoteOutbound
<1> DEFINE e == EnsureStart(t)
<1> HIDE DEF e
<1> QED
  BY <1>1, <1>2, StepType DEF e

(* A gate keeps the title of the room, if there is one.                    *)
LEMMA TitleType ==
  ASSUME NEW t, TrackerType(t)
  PROVE  TitleHere(t) \in {None} \cup Titles
<1>1. PICK D \in SUBSET Nat : t.rooms \in [D -> RoomType]
  BY DEF TrackerType, RoomMaps
<1>2. t.current \in D => t.rooms[t.current].title \in Titles
  BY <1>1 DEF RoomType
<1> QED
  BY <1>1, <1>2 DEF TitleHere

-----------------------------------------------------------------------------
(* Types.                                                                  *)
LEMMA WayType ==
  ASSUME TypeOK, NEW p \in Places \cup {None}, NEW d \in Dirs
  PROVE  Way(p, d) \in Places \cup {None}
BY WalkAssumption DEF TypeOK, Way

LEMMA ReportType ==
  ASSUME TypeOK, NEW p \in Places
  PROVE  Report(p) \in Seq(LineTypes)
<1>1. [is |-> "dark"] \in LineTypes
  BY DEF LineTypes
<1>2. [is |-> "title", title |-> Title[p]] \in LineTypes
  BY DEF LineTypes, Titles
<1>3. [is |-> "exits", dirs |-> Ways(p)] \in LineTypes
  BY DEF LineTypes, Ways
<1> QED
  BY <1>1, <1>2, <1>3 DEF Report

(* Every room of the tracker stands for a place, or for none.              *)
LEMMA TrackType ==
  ASSUME TypeOK, NEW t, TrackerType(t), Track(t)
  PROVE  TrackerType(tracker') /\ stands' \in [DOMAIN tracker'.rooms -> Places \cup {None}]
<1> DEFINE Old(q) == IF q \in DOMAIN stands THEN stands[q] ELSE where
           s == t.lastStep
<1>1. \A q : Old(q) \in Places \cup {None}
  BY DEF TypeOK
<1>2. s # None => s.dir \in Dirs
  BY DEF TrackerType, MoveSteps
<1>3. s # None => Way(Old(s.from), s.dir) \in Places \cup {None}
  <2> HIDE DEF Old, s
  <2> QED
    BY <1>1, <1>2, WayType
<1>4. stands' = [r \in DOMAIN t.rooms |->
                   IF r \in DOMAIN stands \/ s = None \/ s.to # r THEN Old(r)
                   ELSE Way(Old(s.from), s.dir)]
  BY DEF Track, Stands
<1>5. tracker' = t
  BY DEF Track
<1> HIDE DEF Old, s
<1> QED
  BY <1>1, <1>3, <1>4, <1>5

LEMMA SendType ==
  ASSUME TypeOK, NEW command \in Commands, Send(command)
  PROVE  /\ leads' \in Worlds /\ where' \in Places
         /\ commands' \in Seq(Commands) /\ lines' \in Seq(LineTypes)
         /\ TrackerType(tracker')
         /\ stands' \in [DOMAIN tracker'.rooms -> Places \cup {None}]
         /\ journey' \in Seq(Commands) /\ sends' \in Nat /\ astray' \in BOOLEAN
<1> DEFINE t == IF IsMoveCommand(command) THEN NoteOutbound(tracker, command) ELSE tracker
<1>1. TrackerType(t)
  <2>1. TrackerType(tracker)
    BY DEF TypeOK
  <2> QED
    BY <2>1, NoteType DEF IsMoveCommand
<1>2. Track(t)
  BY DEF Send
<1>3. /\ TrackerType(tracker')
      /\ stands' \in [DOMAIN tracker'.rooms -> Places \cup {None}]
  <2> HIDE DEF t
  <2> QED
    BY <1>1, <1>2, TrackType
<1>4. /\ leads' \in Worlds /\ where' \in Places /\ lines' \in Seq(LineTypes)
      /\ sends' \in Nat
  BY DEF Send, TypeOK, mud
<1>5. commands' \in Seq(Commands) /\ journey' \in Seq(Commands)
  BY DEF Send, TypeOK
<1>6. astray' \in BOOLEAN
  BY DEF Send, TypeOK
<1> QED
  BY <1>3, <1>4, <1>5, <1>6

LEMMA FinishType ==
  ASSUME TypeOK, gate # None, NEW verdict, FinishGate(verdict)
  PROVE  gate' = None /\ replay' \in Nat \cup {None}
BY DEF TypeOK, FinishGate, Gates

LEMMA PanelType == ASSUME TypeOK, Panel PROVE TypeOK'
<1>1. /\ leads' \in Worlds /\ where' \in Places
      /\ commands' \in Seq(Commands) /\ lines' \in Seq(LineTypes)
      /\ TrackerType(tracker') /\ sends' \in Nat /\ astray' \in BOOLEAN
      /\ stands' \in [DOMAIN tracker'.rooms -> Places \cup {None}]
  BY DEF Panel, TypeOK, mud, wire
<1>2. /\ begin' \in Places /\ journey' \in Seq(Commands) /\ recording' \in BOOLEAN
      /\ replay' \in Nat \cup {None} /\ gate' \in Gates \cup {None}
      /\ reads' \in Seq(Nat) /\ offRoute' \in BOOLEAN
  <2>1. CASE StartRecord
    BY <2>1 DEF StartRecord, TypeOK
  <2>2. CASE StopRecord
    BY <2>2 DEF StopRecord, TypeOK
  <2>3. CASE StartPlay
    BY <2>3 DEF StartPlay, TypeOK
  <2>4. CASE SendNext
    BY <2>4 DEF SendNext, TypeOK
  <2>5. CASE StopPlay
    BY <2>5 DEF StopPlay, TypeOK
  <2> QED
    BY <2>1, <2>2, <2>3, <2>4, <2>5 DEF Panel
<1> QED
  BY <1>1, <1>2 DEF TypeOK

LEMMA InitType == Init => TypeOK
<1> SUFFICES ASSUME Init
             PROVE  TypeOK
  OBVIOUS
<1>1. TrackerType(tracker)
  <2>1. <<>> \in RoomMaps /\ DOMAIN <<>> = {}
    BY NoEntries
  <2> QED
    BY <2>1 DEF Init, NewTracker, TrackerType
<1>2. stands \in [DOMAIN tracker.rooms -> Places \cup {None}]
  <2>1. tracker.rooms = <<>> /\ stands = <<>>
    BY DEF Init, NewTracker
  <2>2. <<>> \in [{} -> Places \cup {None}] /\ DOMAIN <<>> = {}
    BY NoEntries
  <2> QED
    BY <2>1, <2>2
<1>3. journey \in Seq(Commands)
  BY WalkAssumption DEF Init
<1>4. leads \in Worlds /\ where \in Places /\ begin \in Places
  BY DEF Init
<1>5. commands \in Seq(Commands) /\ lines \in Seq(LineTypes) /\ reads \in Seq(Nat)
  BY DEF Init
<1>6. /\ recording \in BOOLEAN /\ sends \in Nat /\ astray \in BOOLEAN
      /\ offRoute \in BOOLEAN
  BY DEF Init
<1>7. replay \in Nat \cup {None} /\ gate \in Gates \cup {None}
  BY DEF Init
<1> QED
  BY <1>1, <1>2, <1>3, <1>4, <1>5, <1>6, <1>7 DEF TypeOK

LEMMA TypeStep == TypeOK /\ [Next]_vars => TypeOK'
<1> SUFFICES ASSUME TypeOK, [Next]_vars
             PROVE  TypeOK'
  OBVIOUS
<1>1. CASE Answer
  <2> DEFINE c == Head(commands)
             to == IF c \in Dirs THEN leads[where][c] ELSE where
             ok == to # None /\ c # "try"
  <2>1. c \in Commands /\ commands' \in Seq(Commands)
    BY <1>1 DEF Answer, TypeOK
  <2>2. to \in Places \cup {None}
    BY WalkAssumption DEF TypeOK
  <2> DEFINE answer == IF ok THEN Report(to) ELSE <<[is |-> "fail"]>>
  <2>3. answer \in Seq(LineTypes)
    <3>1. [is |-> "fail"] \in LineTypes
      BY DEF LineTypes
    <3> HIDE DEF to
    <3> QED
      BY <2>2, <3>1, ReportType
  <2>4. where' = (IF ok THEN to ELSE where) /\ lines' = lines \o answer
    BY <1>1 DEF Answer
  <2>5. where' \in Places /\ lines' \in Seq(LineTypes)
    <3> HIDE DEF to, answer
    <3> QED
      BY <2>2, <2>3, <2>4 DEF TypeOK
  <2>6. UNCHANGED <<leads, tracker, panel, history>>
    BY <1>1 DEF Answer
  <2> QED
    BY <2>1, <2>5, <2>6 DEF TypeOK, panel, history
<1>2. CASE UserSends
  <2>1. PICK command \in Commands : Send(command)
    BY <1>2 DEF UserSends
  <2>2. UNCHANGED <<recording, replay, gate, reads, begin>> /\ offRoute' \in BOOLEAN
    BY <1>2 DEF UserSends, TypeOK
  <2> QED
    BY <2>1, <2>2, SendType DEF TypeOK
<1>3. CASE Hear
  <2> DEFINE t == OnServerLine(tracker, Head(lines))
  <2>1. Head(lines) \in LineTypes /\ lines' \in Seq(LineTypes)
    BY <1>3 DEF Hear, TypeOK
  <2>2. TrackerType(t)
    BY <2>1, HearType DEF TypeOK
  <2>3. /\ TrackerType(tracker')
        /\ stands' \in [DOMAIN tracker'.rooms -> Places \cup {None}]
    <3>1. Track(t)
      BY <1>3 DEF Hear
    <3> HIDE DEF t
    <3> QED
      BY <2>2, <3>1, TrackType
  <2>4. replay' \in Nat \cup {None} /\ gate' \in Gates \cup {None}
    <3>1. CASE gate # None /\ FinishGate("stop")
      BY <3>1, FinishType
    <3>2. CASE UNCHANGED <<replay, gate>>
      BY <3>2 DEF TypeOK
    <3> QED
      BY <1>3, <3>1, <3>2 DEF Hear
  <2>5. UNCHANGED <<mud, commands, journey, recording, reads, sends, astray, begin, offRoute>>
    BY <1>3 DEF Hear
  <2> QED
    BY <2>1, <2>3, <2>4, <2>5 DEF TypeOK, mud
<1>4. CASE Settle
  <2>1. gate' = None /\ replay' \in Nat \cup {None}
    BY <1>4, FinishType DEF Settle
  <2>2. /\ UNCHANGED <<mud, wire, tracker, journey, recording, reads, sends, stands, astray, begin>>
        /\ offRoute' \in BOOLEAN
    BY <1>4 DEF Settle, TypeOK
  <2> QED
    BY <2>1, <2>2 DEF TypeOK, mud, wire
<1>5. CASE StepIsRead
  <2> DEFINE i == Head(reads)
  <2>1. /\ i \in Nat /\ reads' \in Seq(Nat) /\ offRoute' \in BOOLEAN
        /\ UNCHANGED <<recording, begin>>
    BY <1>5 DEF StepIsRead, TypeOK
  <2>2. CASE /\ replay' = None /\ gate' = None
             /\ UNCHANGED <<mud, wire, tracker, journey, sends, stands, astray>>
    BY <2>1, <2>2 DEF TypeOK, mud, wire
  <2>3. CASE UNCHANGED <<mud, wire, tracker, journey, replay, gate, sends, stands, astray>>
    BY <2>1, <2>3 DEF TypeOK, mud, wire
  <2>4. CASE /\ i < Len(journey) /\ Send(journey[i + 1]) /\ UNCHANGED replay
             /\ gate' = [step |-> i, total |-> Len(journey), pre |-> TitleHere(tracker)]
    <3>1. journey[i + 1] \in Commands /\ Len(journey) \in Nat
      BY <2>1, <2>4 DEF TypeOK
    <3>2. gate' \in Gates
      BY <2>1, <2>4, <3>1, TitleType DEF TypeOK, Gates
    <3>3. replay' \in Nat \cup {None}
      BY <2>4 DEF TypeOK
    <3>4. begin' \in Places /\ recording' \in BOOLEAN
      BY <2>1 DEF TypeOK
    <3> QED
      BY <2>1, <2>4, <3>1, <3>2, <3>3, <3>4, SendType DEF TypeOK
  <2> QED
    BY <1>5, <2>2, <2>3, <2>4 DEF StepIsRead
<1>6. CASE Panel
  BY <1>6, PanelType
<1>7. CASE UNCHANGED vars
  BY <1>7 DEF vars, mud, wire, panel, history, TypeOK
<1> QED
  BY <1>1, <1>2, <1>3, <1>4, <1>5, <1>6, <1>7 DEF Next

-----------------------------------------------------------------------------
(* Replays.                                                                *)
LEMMA ApartStep == OneAtATime /\ [Next]_vars => OneAtATime'
<1> SUFFICES ASSUME OneAtATime, [Next]_vars
             PROVE  OneAtATime'
  OBVIOUS
<1> USE DEF OneAtATime, Playing
<1>1. CASE Answer
  BY <1>1 DEF Answer, panel
<1>2. CASE UserSends
  BY <1>2 DEF UserSends
<1>3. CASE Hear
  BY <1>3 DEF Hear, FinishGate
<1>4. CASE Settle
  BY <1>4 DEF Settle
<1>5. CASE StepIsRead
  BY <1>5 DEF StepIsRead
<1>6. CASE Panel
  BY <1>6 DEF Panel, StartRecord, StopRecord, StartPlay, SendNext, StopPlay
<1>7. CASE UNCHANGED vars
  BY <1>7 DEF vars, panel
<1> QED
  BY <1>1, <1>2, <1>3, <1>4, <1>5, <1>6, <1>7 DEF Next

(* A route that is one step longer.                                        *)
LEMMA NextOnRoute ==
  ASSUME NEW map, NEW from, NEW steps, NEW n \in Nat, NEW p, NEW q \in Places,
         Walk(map, from, steps, n, p),
         q = IF steps[n + 1] \in Dirs THEN map[p][steps[n + 1]] ELSE p
  PROVE  Walk(map, from, steps, n + 1, q)
<1> DEFINE Follows(way, i) ==
             way[i] = IF steps[i] \in Dirs THEN map[way[i - 1]][steps[i]] ELSE way[i - 1]
<1>1. PICK way \in [0..n -> Places] :
        way[0] = from /\ way[n] = p /\ \A i \in 1..n : Follows(way, i)
  BY DEF Walk
<1> DEFINE on == [i \in 0..(n + 1) |-> IF i = n + 1 THEN q ELSE way[i]]
<1>2. on \in [0..(n + 1) -> Places] /\ on[0] = from /\ on[n + 1] = q
  BY <1>1
<1>3. ASSUME NEW i \in 1..(n + 1)
      PROVE  Follows(on, i)
  <2>1. CASE i = n + 1
    <3>1. on[i] = q /\ on[i - 1] = p
      BY <1>1, <2>1
    <3> HIDE DEF on
    <3> QED
      BY <2>1, <3>1
  <2>2. CASE i # n + 1
    <3>1. i \in 1..n /\ on[i] = way[i] /\ on[i - 1] = way[i - 1]
      BY <2>2
    <3> HIDE DEF on
    <3> QED
      BY <1>1, <3>1
  <2> QED
    BY <2>1, <2>2
<1> HIDE DEF on
<1> QED
  BY <1>2, <1>3 DEF Walk

LEMMA RouteStarts == \A map, steps : \A p \in Places : Walk(map, p, steps, 0, p)
<1> TAKE map, steps
<1> TAKE p \in Places
<1> DEFINE way == [i \in 0..0 |-> p]
<1>1. way \in [0..0 -> Places] /\ way[0] = p
  OBVIOUS
<1>2. 1..0 = {}
  OBVIOUS
<1> HIDE DEF way
<1> QED
  BY <1>1, <1>2 DEF Walk

LEMMA AnswerRoute == ASSUME TypeOK, RouteInv, Answer PROVE RouteInv'
<1> DEFINE c == Head(commands)
           to == IF c \in Dirs THEN leads[where][c] ELSE where
           ok == to # None /\ c # "try"
<1>1. /\ where' = (IF ok THEN to ELSE where) /\ commands' = Tail(commands)
      /\ lines' = lines \o IF ok THEN Report(to) ELSE <<[is |-> "fail"]>>
      /\ UNCHANGED <<leads, journey, replay, gate, begin, offRoute>>
      /\ commands # <<>>
  BY DEF Answer, panel, history
<1>2. SUFFICES ASSUME replay # None, ~offRoute
               PROVE  (IsSent \/ Refused \/ Made)' /\ gate # None /\ gate.step = replay
                      /\ gate.total = Len(journey) /\ replay < Len(journey)
  BY <1>1 DEF RouteInv
<1>3. /\ gate # None /\ gate.step = replay /\ gate.total = Len(journey)
      /\ replay < Len(journey) /\ IsSent /\ replay \in Nat
  BY <1>1, <1>2 DEF RouteInv, ToSend, Quiet, Refused, Made, TypeOK
<1>4. c = journey[replay + 1] /\ commands' = <<>> /\ lines = <<>>
  BY <1>1, <1>3 DEF IsSent
<1>5. CASE ok
  <2>1. where \in Places /\ to \in Places
    BY <1>5, WalkAssumption DEF TypeOK
  <2>2. to = IF c \in Dirs THEN leads[where][c] ELSE where
    OBVIOUS
  <2>3. where' = to
    BY <1>1, <1>5
  <2> HIDE DEF c, to
  <2>4. Walk(leads, begin, journey, replay + 1, to)
    BY <1>3, <1>4, <2>1, <2>2, NextOnRoute DEF IsSent, OnRoute
  <2>5. OnRoute(replay + 1)'
    BY <1>1, <2>3, <2>4 DEF OnRoute
  <2> QED
    BY <1>3, <1>4, <2>5 DEF Made
<1>6. CASE ~ok
  <2>1. lines' = <<[is |-> "fail"]>>
    <3> HIDE DEF ok
    <3> QED
      BY <1>1, <1>4, <1>6
  <2> QED
    BY <1>3, <1>4, <2>1 DEF Refused
<1> QED
  BY <1>5, <1>6

LEMMA HearRoute == ASSUME TypeOK, RouteInv, Hear PROVE RouteInv'
<1>1. /\ UNCHANGED <<leads, where, commands, journey, begin, offRoute>>
      /\ lines # <<>>
  BY DEF Hear, mud
<1>2. CASE gate # None /\ FinishGate("stop")
  BY <1>2 DEF FinishGate, RouteInv
<1>3. CASE UNCHANGED <<replay, gate>> /\ ~(gate # None /\ VerdictOnServerLine(Head(lines)))
  <2>1. SUFFICES ASSUME replay # None, ~offRoute
                 PROVE  /\ gate # None /\ gate.step = replay /\ gate.total = Len(journey)
                        /\ replay < Len(journey) /\ Made'
    BY <1>1, <1>3 DEF RouteInv
  <2>2. /\ gate # None /\ gate.step = replay /\ gate.total = Len(journey)
        /\ replay < Len(journey) /\ (Refused \/ Made)
    BY <1>1, <2>1 DEF RouteInv, ToSend, Quiet, IsSent
  <2>3. ~Refused
    <3>1. Refused => Head(lines).is = "fail"
      BY DEF Refused
    <3> QED
      BY <1>3, <2>2, <3>1 DEF VerdictOnServerLine, IsMoveFail
  <2>4. commands = <<>> /\ OnRoute(replay + 1)
    BY <2>2, <2>3 DEF Made
  <2>5. OnRoute(replay + 1)'
    BY <1>1, <1>3, <2>4 DEF OnRoute
  <2> QED
    BY <1>1, <2>2, <2>4, <2>5 DEF Made
<1> QED
  BY <1>2, <1>3 DEF Hear

LEMMA SettleRoute == ASSUME TypeOK, RouteInv, Settle PROVE RouteInv'
<1>1. /\ UNCHANGED <<leads, where, commands, lines, journey, begin>>
      /\ gate # None /\ gate' = None /\ offRoute' = (offRoute \/ ~Quiet)
      /\ replay' # None => gate.step + 1 < gate.total /\ replay' = gate.step + 1
  BY DEF Settle, FinishGate, mud, wire, TypeOK, Gates
<1>2. SUFFICES ASSUME replay' # None, ~offRoute'
               PROVE  ToSend'
  BY <1>1 DEF RouteInv
<1>3. ~offRoute /\ Quiet
  BY <1>1, <1>2
<1>4. replay # None /\ replay \in Nat
  BY <1>1, <1>3 DEF RouteInv, TypeOK
<1>5. gate.step = replay /\ gate.total = Len(journey) /\ OnRoute(replay + 1)
  BY <1>1, <1>3, <1>4 DEF RouteInv, ToSend, Quiet, IsSent, Refused, Made
<1>6. replay' = replay + 1 /\ replay' <= Len(journey')
  BY <1>1, <1>2, <1>4, <1>5 DEF TypeOK
<1>7. OnRoute(replay)'
  BY <1>1, <1>5, <1>6 DEF OnRoute
<1>8. Quiet'
  BY <1>1, <1>3 DEF Quiet
<1> QED
  BY <1>1, <1>6, <1>7, <1>8 DEF ToSend

LEMMA ReadRoute == ASSUME TypeOK, OneAtATime, RouteInv, StepIsRead PROVE RouteInv'
<1> DEFINE i == Head(reads)
<1>1. offRoute' = (offRoute \/ replay # i) /\ begin' = begin /\ i \in Nat
  BY DEF StepIsRead, TypeOK
<1>2. CASE replay' = None /\ gate' = None
  BY <1>2 DEF RouteInv
<1>3. CASE UNCHANGED <<mud, wire, tracker, journey, replay, gate, sends, stands, astray>>
  <2>1. UNCHANGED <<leads, where, commands, lines, journey, begin, replay, gate>>
    BY <1>1, <1>3 DEF mud, wire
  <2> QED
    BY <1>1, <2>1 DEF RouteInv, ToSend, Quiet, IsSent, Refused, Made, OnRoute
<1>4. CASE /\ i < Len(journey) /\ ~StepPending /\ Send(journey[i + 1]) /\ UNCHANGED replay
           /\ gate' = [step |-> i, total |-> Len(journey), pre |-> TitleHere(tracker)]
  <2>1. gate' # None /\ gate'.step = i /\ gate'.total = Len(journey)
    <3>1. gate' \in Gates
      BY <1>1, <1>4, TitleType DEF TypeOK, Gates
    <3>2. gate' # None
      BY <3>1, WalkAssumption DEF Gates
    <3> QED
      BY <1>4, <3>2
  <2>2. /\ UNCHANGED <<leads, where, lines, begin, journey>>
        /\ commands' = Append(commands, journey[i + 1])
    <3>1. ~recording
      BY DEF StepIsRead, OneAtATime, Playing
    <3> QED
      BY <1>1, <1>4, <3>1 DEF Send, mud
  <2>3. SUFFICES ASSUME replay # None, ~offRoute'
                 PROVE  IsSent' /\ i = replay
    <3>1. replay = None => offRoute'
      BY <1>1, WalkAssumption
    <3> QED
      BY <1>4, <2>1, <2>2, <3>1 DEF RouteInv
  <2>4. i = replay /\ ToSend
    BY <1>1, <1>4, <2>3 DEF RouteInv, StepPending
  <2>5. OnRoute(replay)'
    BY <1>4, <2>2, <2>4 DEF OnRoute, ToSend
  <2>6. commands' = <<journey'[replay' + 1]>> /\ lines' = <<>>
    BY <1>4, <2>2, <2>4 DEF ToSend, Quiet
  <2> QED
    BY <2>4, <2>5, <2>6 DEF IsSent
<1> QED
  BY <1>2, <1>3, <1>4 DEF StepIsRead

LEMMA PanelRoute == ASSUME TypeOK, OneAtATime, RouteInv, Panel PROVE RouteInv'
<1>1. UNCHANGED <<leads, where, commands, lines>>
  BY DEF Panel, mud, wire
<1>2. CASE StartRecord
  BY <1>2 DEF StartRecord, Playing, RouteInv
<1>3. CASE StopRecord \/ SendNext
  <2>1. UNCHANGED <<leads, where, commands, lines, journey, begin, replay, gate, offRoute>>
    BY <1>1, <1>3 DEF StopRecord, SendNext
  <2> QED
    BY <2>1 DEF RouteInv, ToSend, Quiet, IsSent, Refused, Made, OnRoute
<1>4. CASE StartPlay
  <2>1. /\ replay' = 0 /\ begin' = where /\ UNCHANGED <<journey, gate>>
        /\ offRoute' = (~Quiet \/ gate # None \/ reads # <<>>)
    BY <1>4 DEF StartPlay
  <2>2. OnRoute(replay)'
    BY <1>1, <2>1, RouteStarts DEF OnRoute, TypeOK
  <2>3. 0 <= Len(journey')
    BY <2>1 DEF TypeOK
  <2> QED
    BY <1>1, <2>1, <2>2, <2>3, WalkAssumption DEF RouteInv, ToSend, Quiet
<1>5. CASE StopPlay
  BY <1>5 DEF StopPlay, RouteInv
<1> QED
  BY <1>2, <1>3, <1>4, <1>5 DEF Panel

LEMMA RouteStep == TypeOK /\ OneAtATime /\ RouteInv /\ [Next]_vars => RouteInv'
<1> SUFFICES ASSUME TypeOK, OneAtATime, RouteInv, [Next]_vars
             PROVE  RouteInv'
  OBVIOUS
<1>1. CASE UserSends
  BY <1>1 DEF UserSends, Playing, RouteInv
<1>2. CASE UNCHANGED vars
  <2>1. UNCHANGED <<leads, where, commands, lines, journey, begin, replay, gate, offRoute>>
    BY <1>2 DEF vars, mud, wire, panel, history
  <2> QED
    BY <2>1 DEF RouteInv, ToSend, Quiet, IsSent, Refused, Made, OnRoute
<1> QED
  BY <1>1, <1>2, AnswerRoute, HearRoute, SettleRoute, ReadRoute, PanelRoute DEF Next

-----------------------------------------------------------------------------
(* The map.                                                                *)

(* A room keeps its place; a new one is where the player is, or the place  *)
(* to which the step leads that it was made for.                           *)
LEMMA StandsAre ==
  ASSUME TypeOK, NEW t, TrackerType(t), Track(t)
  PROVE  LET s == t.lastStep IN
         /\ tracker' = t /\ DOMAIN stands' = DOMAIN t.rooms
         /\ \A r \in DOMAIN t.rooms :
              /\ r \in DOMAIN tracker.rooms => stands'[r] = stands[r]
              /\ r \notin DOMAIN tracker.rooms =>
                   stands'[r] = IF s = None \/ s.to # r THEN where
                                ELSE Way(IF s.from \in DOMAIN tracker.rooms
                                         THEN stands[s.from] ELSE where, s.dir)
<1>1. DOMAIN stands = DOMAIN tracker.rooms
  BY DEF TypeOK
<1>2. tracker' = t /\ stands' = Stands(t)
  BY DEF Track
<1> QED
  BY <1>1, <1>2 DEF Stands

(* The links as they are after a step of the browser.                      *)
LEMMA LinksAre ==
  ASSUME leads' = leads,
         ASSUME NEW r \in DOMAIN tracker'.rooms, NEW d \in DOMAIN tracker'.rooms[r].exits,
                tracker'.rooms[r].exits[d] # Stub
         PROVE  /\ tracker'.rooms[r].exits[d] \in DOMAIN tracker'.rooms
                /\ Way(stands'[r], d) = stands'[tracker'.rooms[r].exits[d]]
  PROVE  LinksTrue'
BY DEF LinksTrue, Way

LEMMA TrailKept ==
  ASSUME TrailInv, UNCHANGED <<leads, where, commands, lines, tracker, stands, astray>>
  PROVE  TrailInv'
<1>1. LinksTrue => LinksTrue'
  BY DEF LinksTrue, Way
<1>2. Arrived => Arrived'
  BY DEF Arrived, Way
<1>3. Ahead => Ahead'
  BY DEF Ahead, Fresh, Way
<1>4. Fresh => Fresh'
  BY DEF Fresh
<1> QED
  BY <1>1, <1>2, <1>3, <1>4 DEF TrailInv, SentMove, SentOther, ToldNo, Told, Ways

(* A room of the tracker has a number, and None is not one.                *)
LEMMA RoomsAreNumbers ==
  ASSUME NEW t, TrackerType(t)
  PROVE  DOMAIN t.rooms \subseteq Nat /\ None \notin DOMAIN t.rooms /\ Stub \notin DOMAIN t.rooms
BY WalkAssumption DEF TrackerType

LEMMA StepIsTyped ==
  ASSUME NEW t, TrackerType(t), t.lastStep # None
  PROVE  t.lastStep.dir \in Dirs /\ t.lastStep.from \in Nat /\ t.lastStep.to \in Nat
BY DEF TrackerType, MoveSteps

LEMMA AnswerTrail == ASSUME TypeOK, TrailInv, Answer PROVE TrailInv'
<1> DEFINE c == Head(commands)
           to == IF c \in Dirs THEN leads[where][c] ELSE where
           ok == to # None /\ c # "try"
           s == tracker.lastStep
<1>1. /\ where' = (IF ok THEN to ELSE where) /\ commands' = Tail(commands)
      /\ lines' = lines \o IF ok THEN Report(to) ELSE <<[is |-> "fail"]>>
      /\ UNCHANGED <<leads, tracker, stands, astray>>
      /\ commands # <<>>
  BY DEF Answer, history
<1>2. SUFFICES ASSUME ~astray
               PROVE  ToldNo' \/ Told'
  <2>1. LinksTrue => LinksTrue'
    BY <1>1 DEF LinksTrue, Way
  <2> QED
    BY <1>1, <2>1 DEF TrailInv
<1>3. SentMove \/ SentOther
  BY <1>1, <1>2 DEF TrailInv, ToldNo, Told
<1>4. commands' = <<>> /\ lines' = IF ok THEN Report(to) ELSE <<[is |-> "fail"]>>
  <2>1. lines = <<>> /\ \E x : commands = <<x>>
    BY <1>3 DEF SentMove, SentOther
  <2>2. Report(to) \in Seq(LineTypes) \/ ~ok
    <3>1. ok => to \in Places
      BY WalkAssumption DEF TypeOK
    <3> HIDE DEF to
    <3> QED
      BY <3>1, ReportType
  <2> HIDE DEF to
  <2> QED
    BY <1>1, <2>1, <2>2
<1>5. CASE SentMove
  <2>1. /\ s # None /\ c = s.dir /\ s.to = tracker.current
        /\ {s.from, s.to} \subseteq DOMAIN tracker.rooms
        /\ stands[s.from] = where /\ stands[s.to] = Way(where, s.dir)
        /\ Fresh \/ \A r \in DOMAIN tracker.rooms : stands[r] \in Places
    BY <1>5 DEF SentMove, Ahead
  <2>2. c \in Dirs /\ c # "try"
    BY <2>1, StepIsTyped, LookAndTry DEF TypeOK
  <2>3. where # None /\ stands[s.to] = to /\ Way(where, s.dir) = to
    BY <2>1, <2>2, WalkAssumption DEF TypeOK, Way
  <2>4. CASE ok
    <3>1. to \in Places /\ where' = to
      BY <1>1, <2>2, <2>4, WalkAssumption DEF TypeOK
    <3>2. \A r \in DOMAIN tracker.rooms : stands[r] \in Places
      BY <2>1, <2>3, <3>1 DEF Fresh
    <3>3. Arrived'
      <4>1. tracker.current \in DOMAIN tracker.rooms /\ stands[tracker.current] = where'
        BY <2>1, <2>3, <3>1
      <4>2. IF stands[s.from] = None THEN FALSE ELSE leads[stands[s.from]][s.dir] = where'
        BY <2>1, <2>2, <2>3, <3>1
      <4> HIDE DEF to, c
      <4> QED
        BY <1>1, <2>1, <3>2, <4>1, <4>2 DEF Arrived, Way
    <3>4. lines' = Report(where')
      BY <1>4, <2>4, <3>1
    <3>5. Ways(where)' = Ways(where')
      BY <1>1 DEF Ways
    <3> QED
      BY <1>4, <3>3, <3>4, <3>5 DEF Told, Report
  <2>5. CASE ~ok
    <3>1. to = None /\ Fresh
      BY <2>1, <2>2, <2>3, <2>5, WalkAssumption
    <3>2. where' = where /\ lines' = <<[is |-> "fail"]>>
      BY <1>1, <1>4, <2>5
    <3>3. Ahead' /\ Fresh'
      BY <1>1, <1>5, <3>1, <3>2 DEF SentMove, Ahead, Fresh, Way
    <3> QED
      BY <1>4, <3>2, <3>3 DEF ToldNo
  <2> QED
    BY <2>4, <2>5
<1>6. CASE SentOther
  <2>1. Arrived /\ c \in {"look", "try"} /\ (c = "try" => s = None)
    BY <1>6 DEF SentOther
  <2>2. to = where /\ where # None /\ where' = where
    <3>1. where \in Places /\ None \notin Places
      BY WalkAssumption DEF TypeOK
    <3>2. c \notin Dirs
      BY <2>1, LookAndTry
    <3> QED
      BY <1>1, <2>1, <3>1, <3>2
  <2>3. Arrived'
    BY <1>1, <2>1, <2>2 DEF Arrived, Way
  <2>4. CASE c = "look"
    <3>1. lines' = Report(where')
      BY <1>4, <2>2, <2>4
    <3>2. Ways(where)' = Ways(where')
      BY <1>1 DEF Ways
    <3> QED
      BY <1>4, <2>3, <3>1, <3>2 DEF Told, Report
  <2>5. CASE c = "try"
    BY <1>1, <1>4, <2>1, <2>3, <2>5 DEF ToldNo
  <2> QED
    BY <2>1, <2>4, <2>5
<1> QED
  BY <1>3, <1>5, <1>6

(* A command that is no move leaves the map alone.                         *)
LEMMA SendOtherTrail ==
  ASSUME TypeOK, TrailInv, NEW command \in Commands, command \notin Dirs, Send(command)
  PROVE  TrailInv'
<1>1. /\ commands' = Append(commands, command) /\ UNCHANGED <<leads, where, lines>>
      /\ astray' = (astray \/ ~Quiet \/ (command = "try" /\ tracker.lastStep # None))
      /\ Track(tracker)
  BY DEF Send, IsMoveCommand, mud
<1>2. SUFFICES ASSUME ~astray'
               PROVE  LinksTrue' /\ SentOther'
  BY DEF TrailInv
<1>3. ~astray /\ Quiet /\ (command = "try" => tracker.lastStep = None)
  BY <1>1, <1>2
<1>4. LinksTrue /\ Arrived /\ (tracker.lastStep # None => where \in Dark)
  BY <1>3 DEF TrailInv, Quiet, SentMove, SentOther, ToldNo, Told
<1>5. tracker' = tracker /\ stands' = stands
  <2>1. TrackerType(tracker) /\ stands \in [DOMAIN tracker.rooms -> Places \cup {None}]
    BY DEF TypeOK
  <2>2. /\ tracker' = tracker /\ DOMAIN stands' = DOMAIN tracker.rooms
        /\ \A r \in DOMAIN tracker.rooms : stands'[r] = stands[r]
    BY <1>1, <2>1, StandsAre
  <2>3. stands' = [r \in DOMAIN tracker.rooms |-> stands'[r]]
    BY <1>1 DEF Track, Stands
  <2> QED
    BY <2>1, <2>2, <2>3
<1>6. LinksTrue' /\ Arrived'
  BY <1>1, <1>4, <1>5 DEF LinksTrue, Arrived, Way
<1>7. lines' = <<>> /\ commands' = <<command>> /\ command \in {"look", "try"}
  BY <1>1, <1>3 DEF Quiet, Commands
<1> QED
  BY <1>1, <1>3, <1>4, <1>5, <1>6, <1>7 DEF SentOther

LEMMA SendMoveTrail ==
  ASSUME TypeOK, TrailInv, NEW dir \in Dirs, Send(dir)
  PROVE  TrailInv'
<1> DEFINE e == EnsureStart(tracker)
           u == NoteOutbound(tracker, dir)
           from == e.current
           to == u.current
           old == e.rooms[from].exits
<1>1. /\ commands' = Append(commands, dir) /\ UNCHANGED <<leads, where, lines>>
      /\ astray' = (astray \/ ~Quiet \/ (dir = "try" /\ tracker.lastStep # None))
      /\ Track(u)
  BY DEF Send, IsMoveCommand, mud
<1>2. SUFFICES ASSUME ~astray'
               PROVE  LinksTrue' /\ SentMove'
  BY DEF TrailInv
<1>3. ~astray /\ Quiet
  BY <1>1, <1>2
<1>4. LinksTrue /\ Arrived
  BY <1>3 DEF TrailInv, Quiet, SentMove, SentOther, ToldNo, Told
<1>5. TrackerType(tracker) /\ where \in Places /\ where # None /\ dir \in AllDirs
  BY WalkAssumption, LookAndTry DEF TypeOK
<1>6. /\ TrackerType(e) /\ from \in DOMAIN e.rooms
      /\ DOMAIN e.rooms = DOMAIN tracker.rooms \cup {from}
      /\ \A r \in DOMAIN tracker.rooms : e.rooms[r] = tracker.rooms[r]
      /\ tracker.current \in DOMAIN tracker.rooms => from = tracker.current
      /\ from \notin DOMAIN tracker.rooms => DOMAIN old = {}
      /\ from \in DOMAIN tracker.rooms => tracker.current \in DOMAIN tracker.rooms
  BY <1>5, EnsureType
<1>7. /\ TrackerType(u) /\ u.lastStep \in MoveSteps
      /\ u.lastStep.from = from /\ u.lastStep.dir = dir /\ u.lastStep.to = to
      /\ to \in DOMAIN u.rooms
      /\ TakesLink(e, u, dir) \/ DrawsLink(e, u, dir)
  BY <1>5, NoteType
<1>8. u.lastStep # None
  BY <1>7, WalkAssumption DEF MoveSteps
<1> HIDE DEF e, u
<1>9. from \notin DOMAIN tracker.rooms => DrawsLink(e, u, dir)
  BY <1>6, <1>7 DEF TakesLink
<1>10. tracker' = u /\ DOMAIN stands' = DOMAIN u.rooms
  BY <1>1, <1>7, StandsAre
<1>11. \A r \in DOMAIN u.rooms : r \in DOMAIN tracker.rooms => stands'[r] = stands[r]
  BY <1>1, <1>7, StandsAre
<1>12. from \in DOMAIN u.rooms /\ stands'[from] = where
  <2>1. CASE from \in DOMAIN tracker.rooms
    <3>1. tracker.current # None /\ from = tracker.current
      BY <1>5, <1>6, <2>1, RoomsAreNumbers
    <3>2. stands[from] = where /\ from \in DOMAIN u.rooms
      BY <1>4, <1>6, <1>7, <3>1 DEF Arrived, TakesLink, DrawsLink
    <3> QED
      BY <1>11, <2>1, <3>2
  <2>2. CASE from \notin DOMAIN tracker.rooms
    <3>1. to # from /\ from \in DOMAIN u.rooms
      BY <1>6, <1>9, <2>2 DEF DrawsLink
    <3> QED
      BY <1>1, <1>7, <2>2, <3>1, StandsAre
  <2> QED
    BY <2>1, <2>2
<1>13. Quiet /\ commands' = <<dir>> /\ lines' = <<>>
  BY <1>1, <1>3 DEF Quiet
<1>14. CASE TakesLink(e, u, dir)
  <2>1. CASE from \in DOMAIN tracker.rooms
    <3>1. /\ dir \in DOMAIN tracker.rooms[from].exits /\ to = tracker.rooms[from].exits[dir]
          /\ DOMAIN u.rooms = DOMAIN tracker.rooms
          /\ \A r \in DOMAIN u.rooms : u.rooms[r].exits = tracker.rooms[r].exits
      BY <1>6, <1>14, <2>1 DEF TakesLink
    <3>2. stands' = stands
      <4>1. stands' = [r \in DOMAIN u.rooms |-> stands'[r]]
        BY <1>1 DEF Track, Stands
      <4>2. stands \in [DOMAIN tracker.rooms -> Places \cup {None}]
        BY DEF TypeOK
      <4> QED
        BY <1>11, <3>1, <4>1, <4>2
    <3>3. LinksTrue'
      BY <1>1, <1>4, <1>10, <3>1, <3>2 DEF LinksTrue, Way
    <3>4. to # Stub
      BY <1>7, RoomsAreNumbers
    <3>5. stands[to] = Way(where, dir)
      BY <1>4, <1>11, <1>12, <2>1, <3>1, <3>4 DEF LinksTrue
    <3>6. Ahead'
      <4>1. \A r \in DOMAIN u.rooms : stands'[r] \in Places
        BY <1>4, <3>1, <3>2 DEF Arrived
      <4>2. Way(where, dir) = (IF where' = None THEN None ELSE leads'[where'][dir])
        BY <1>1 DEF Way
      <4> QED
        BY <1>1, <1>7, <1>8, <1>10, <1>12, <3>2, <3>5, <4>1, <4>2 DEF Ahead, Way
    <3> QED
      BY <1>7, <1>8, <1>10, <1>13, <3>3, <3>6 DEF SentMove
  <2> QED
    BY <1>6, <1>14, <2>1 DEF TakesLink
<1>15. CASE DrawsLink(e, u, dir)
  <2> DEFINE new == u.rooms[to]
  <2>1. /\ to \notin DOMAIN e.rooms /\ to \in Nat /\ to # from /\ to \notin DOMAIN tracker.rooms
        /\ DOMAIN u.rooms = DOMAIN e.rooms \cup {to}
        /\ \A r \in DOMAIN e.rooms : r # from => u.rooms[r] = e.rooms[r]
        /\ u.rooms[from].exits = Put(old, dir, to)
        /\ ~new.known /\ new.visits = 1 /\ \A d \in DOMAIN new.exits : new.exits[d] = Stub
        /\ u.lastStep.created = (to # IF dir \in DOMAIN old THEN old[dir] ELSE Stub)
    BY <1>6, <1>15 DEF DrawsLink
  <2>2. stands'[to] = Way(where, dir)
    <3>1. stands'[to] = Way(IF from \in DOMAIN tracker.rooms THEN stands[from] ELSE where, dir)
      BY <1>1, <1>7, <1>8, <2>1, StandsAre
    <3>2. from \in DOMAIN tracker.rooms => stands[from] = where
      BY <1>11, <1>12
    <3> QED
      BY <3>1, <3>2
  <2>3. \A r \in DOMAIN e.rooms : stands'[r] \in Places
    BY <1>4, <1>5, <1>6, <1>11, <1>12, <2>1 DEF Arrived
  \* Every exit is the new link, or one that was there, or leads nowhere yet.
  <2>4. ASSUME NEW r \in DOMAIN u.rooms, NEW d \in DOMAIN u.rooms[r].exits
        PROVE  \/ r = from /\ d = dir /\ u.rooms[r].exits[d] = to
               \/ u.rooms[r].exits[d] = Stub
               \/ /\ r \in DOMAIN tracker.rooms /\ d \in DOMAIN tracker.rooms[r].exits
                  /\ u.rooms[r].exits[d] = tracker.rooms[r].exits[d]
    <3>1. CASE r = to
      BY <2>1, <2>4, <3>1
    <3>2. CASE r = from
      <4>1. old \in ExitMaps /\ to \in Nat \cup {Stub}
        BY <1>6, <2>1 DEF TrackerType, RoomMaps, RoomType
      <4>2. /\ DOMAIN Put(old, dir, to) = DOMAIN old \cup {dir} /\ Put(old, dir, to)[dir] = to
            /\ \A x \in DOMAIN old : x # dir => Put(old, dir, to)[x] = old[x]
        BY DEF Put
      <4>3. CASE d = dir
        BY <2>1, <3>2, <4>2, <4>3
      <4>4. CASE d # dir
        <5>1. d \in DOMAIN old /\ u.rooms[r].exits[d] = old[d]
          BY <2>1, <2>4, <3>2, <4>2, <4>4
        <5>2. from \in DOMAIN tracker.rooms /\ old = tracker.rooms[from].exits
          BY <1>6, <5>1
        <5> QED
          BY <3>2, <5>1, <5>2
      <4> QED
        BY <4>3, <4>4
    <3>3. CASE r # to /\ r # from
      BY <1>6, <2>1, <2>4, <3>3
    <3> QED
      BY <3>1, <3>2, <3>3
  <2>5. ASSUME NEW r \in DOMAIN tracker.rooms, NEW d \in DOMAIN tracker.rooms[r].exits,
               tracker.rooms[r].exits[d] # Stub
        PROVE  /\ tracker.rooms[r].exits[d] \in DOMAIN tracker.rooms
               /\ Way(stands[r], d) = stands[tracker.rooms[r].exits[d]]
    BY <1>4, <2>5 DEF LinksTrue
  <2>6. LinksTrue'
    <3>1. ASSUME NEW r \in DOMAIN u.rooms, NEW d \in DOMAIN u.rooms[r].exits,
                 u.rooms[r].exits[d] # Stub
          PROVE  /\ u.rooms[r].exits[d] \in DOMAIN u.rooms
                 /\ Way(stands'[r], d) = stands'[u.rooms[r].exits[d]]
      <4>1. CASE r = from /\ d = dir /\ u.rooms[r].exits[d] = to
        BY <1>7, <1>12, <2>2, <4>1
      <4>2. CASE /\ r \in DOMAIN tracker.rooms /\ d \in DOMAIN tracker.rooms[r].exits
                 /\ u.rooms[r].exits[d] = tracker.rooms[r].exits[d]
        <5> DEFINE x == tracker.rooms[r].exits[d]
        <5>1. x \in DOMAIN tracker.rooms /\ Way(stands[r], d) = stands[x]
          BY <2>5, <3>1, <4>2
        <5>2. x \in DOMAIN u.rooms /\ stands'[x] = stands[x] /\ stands'[r] = stands[r]
          BY <1>6, <1>11, <2>1, <3>1, <4>2, <5>1
        <5> HIDE DEF x
        <5>3. u.rooms[r].exits[d] = x
          BY <4>2 DEF x
        <5> QED
          BY <5>1, <5>2, <5>3
      <4> QED
        BY <2>4, <3>1, <4>1, <4>2
    <3> QED
      BY <1>1, <1>10, <3>1, LinksAre
  <2>7. Fresh'
    <3>1. u.lastStep.created
      <4>1. dir \in DOMAIN old /\ old[dir] # Stub => old[dir] \in DOMAIN tracker.rooms
        BY <1>6, <2>5
      <4>2. to # Stub
        BY <2>1, WalkAssumption
      <4> QED
        BY <2>1, <4>1, <4>2
    <3>2. ASSUME NEW r \in DOMAIN u.rooms, NEW d \in DOMAIN u.rooms[r].exits,
                 u.rooms[r].exits[d] = to
          PROVE  r = from /\ d = dir
      <4>1. to # Stub
        BY <2>1, WalkAssumption
      <4> QED
        BY <2>1, <2>4, <2>5, <3>2, <4>1, SMTT(60)
    <3>3. \A r \in DOMAIN u.rooms : r # to => stands'[r] \in Places
      BY <2>1, <2>3
    <3> QED
      BY <1>7, <1>10, <2>1, <3>1, <3>2, <3>3, SMTT(30) DEF Fresh
  <2>8. Ahead'
    <3>1. Way(where, dir) = (IF where' = None THEN None ELSE leads'[where'][dir])
      BY <1>1 DEF Way
    <3> QED
      BY <1>1, <1>7, <1>8, <1>10, <1>12, <2>2, <2>7, <3>1 DEF Ahead, Way
  <2> QED
    BY <1>7, <1>8, <1>10, <1>13, <2>6, <2>8 DEF SentMove
<1> QED
  BY <1>7, <1>14, <1>15

LEMMA SendTrail ==
  ASSUME TypeOK, TrailInv, NEW command \in Commands, Send(command)
  PROVE  TrailInv'
BY SendOtherTrail, SendMoveTrail

(* A refused move goes from the map as if it had never been there.         *)
LEMMA HearNoTrail ==
  ASSUME TypeOK, LinksTrue, ToldNo, ~astray, Hear
  PROVE  LinksTrue' /\ Told'
<1> DEFINE line == [is |-> "fail"]
           u == OnServerLine(tracker, line)
           v == UndoLastStep(tracker)
           s == tracker.lastStep
<1>1. /\ UNCHANGED <<leads, where, commands>> /\ lines' = <<>> /\ Track(u)
      /\ commands = <<>>
  BY DEF Hear, ToldNo, mud
<1>2. TrackerType(tracker) /\ DOMAIN stands = DOMAIN tracker.rooms
  BY DEF TypeOK
<1>3. line \in LineTypes /\ line.is = "fail"
  BY DEF LineTypes
<1>4. TrackerType(u) /\ u.rooms = v.rooms /\ u.current = v.current /\ u.lastStep = v.lastStep
  <2> HIDE DEF line
  <2> QED
    BY <1>2, <1>3, HearNo
<1> HIDE DEF u, v
<1>5. CASE Ahead /\ Fresh
  <2>1. /\ s # None /\ s.created /\ s.from # s.to /\ {s.from, s.to} \subseteq DOMAIN tracker.rooms
        /\ ~tracker.rooms[s.to].known /\ tracker.rooms[s.to].visits = 1
        /\ stands[s.from] = where
    BY <1>5 DEF Ahead, Fresh
  <2>2. TakesBack(tracker, v) /\ v.current = s.from /\ v.lastStep = None
    BY <1>2, <2>1, UndoType DEF v
  <2>3. /\ DOMAIN u.rooms = DOMAIN tracker.rooms \ {s.to} /\ s.from \in DOMAIN u.rooms
        /\ \A r \in DOMAIN u.rooms : r # s.from => u.rooms[r] = tracker.rooms[r]
        /\ DOMAIN u.rooms[s.from].exits = DOMAIN tracker.rooms[s.from].exits \ {s.dir}
        /\ \A d \in DOMAIN u.rooms[s.from].exits :
             u.rooms[s.from].exits[d] = tracker.rooms[s.from].exits[d]
    BY <1>4, <2>1, <2>2 DEF TakesBack
  <2>4. tracker' = u /\ \A r \in DOMAIN u.rooms : stands'[r] = stands[r]
    BY <1>1, <1>2, <1>4, <2>3, StandsAre
  <2>5. Arrived'
    <3>1. \A r \in DOMAIN u.rooms : stands'[r] \in Places
      BY <1>5, <2>3, <2>4 DEF Fresh
    <3> QED
      BY <1>1, <1>4, <2>1, <2>2, <2>3, <2>4, <3>1 DEF Arrived
  <2>6. ASSUME NEW r \in DOMAIN u.rooms, NEW d \in DOMAIN u.rooms[r].exits,
               u.rooms[r].exits[d] # Stub
        PROVE  /\ u.rooms[r].exits[d] \in DOMAIN u.rooms
               /\ Way(stands'[r], d) = stands'[u.rooms[r].exits[d]]
    <3> DEFINE x == u.rooms[r].exits[d]
    <3>1. /\ r \in DOMAIN tracker.rooms /\ d \in DOMAIN tracker.rooms[r].exits
          /\ x = tracker.rooms[r].exits[d] /\ ~(r = s.from /\ d = s.dir)
      BY <2>3, <2>6
    <3> HIDE DEF x
    <3>2. x \in DOMAIN tracker.rooms /\ Way(stands[r], d) = stands[x]
      BY <2>6, <3>1 DEF LinksTrue, x
    <3>3. x # s.to
      BY <1>5, <3>1 DEF Fresh
    <3>4. x \in DOMAIN u.rooms
      BY <2>3, <3>2, <3>3
    <3> QED
      BY <2>4, <3>2, <3>4 DEF x
  <2>7. LinksTrue'
    BY <1>1, <2>4, <2>6, LinksAre
  <2>8. lines' = <<>> /\ commands' = <<>> /\ tracker'.lastStep = None
    BY <1>1, <1>4, <2>2, <2>4
  <2> QED
    BY <2>5, <2>7, <2>8 DEF Told
<1>6. CASE Arrived /\ s = None
  <2>1. v = tracker
    BY <1>2, <1>6, UndoType DEF v
  <2>2. tracker' = u /\ u.rooms = tracker.rooms /\ u.current = tracker.current /\ u.lastStep = None
    BY <1>1, <1>4, <1>6, <2>1, StandsAre
  <2>3. \A r \in DOMAIN tracker.rooms : stands'[r] = stands[r]
    BY <1>1, <1>2, <1>4, <2>2, StandsAre
  <2>4. Arrived'
    BY <1>1, <1>6, <2>2, <2>3 DEF Arrived
  <2>5. LinksTrue'
    BY <1>1, <2>2, <2>3 DEF LinksTrue, Way
  <2> QED
    BY <1>1, <2>2, <2>4, <2>5 DEF Told
<1> QED
  BY <1>5, <1>6 DEF ToldNo

(* The exits of a room draw the way back, if the MUD lists one: it leads   *)
(* back, for a way of the MUD that can be gone back does.                  *)
LEMMA HearExitsTrail ==
  ASSUME TypeOK, LinksTrue, Told, ~astray, Hear,
         lines = <<[is |-> "exits", dirs |-> Ways(where)]>>
  PROVE  LinksTrue' /\ Told'
<1> DEFINE line == [is |-> "exits", dirs |-> Ways(where)]
           u == OnServerLine(tracker, line)
           e == EnsureStart(tracker)
           s == tracker.lastStep
           here == e.current
<1>1. /\ UNCHANGED <<leads, where, commands>> /\ lines' = <<>> /\ Track(u)
      /\ commands = <<>> /\ Arrived
  BY DEF Hear, Told, mud
<1>2. TrackerType(tracker) /\ DOMAIN stands = DOMAIN tracker.rooms /\ where \in Places
  BY DEF TypeOK
<1>3. line \in LineTypes /\ line.is = "exits" /\ line.dirs = Ways(where)
  BY DEF LineTypes, Ways
<1>4. /\ TrackerType(u) /\ u.current = here /\ u.lastStep = None
      /\ LearnsExits(e, Ways(where), u.rooms)
  <2> HIDE DEF line
  <2> QED
    BY <1>2, <1>3, HearExits
<1>5. /\ here \in DOMAIN e.rooms /\ e.lastStep = s
      /\ DOMAIN e.rooms = DOMAIN tracker.rooms \cup {here}
      /\ \A r \in DOMAIN tracker.rooms : e.rooms[r] = tracker.rooms[r]
      /\ tracker.current \in DOMAIN tracker.rooms => here = tracker.current
      /\ here \notin DOMAIN tracker.rooms => DOMAIN e.rooms[here].exits = {}
      /\ here \in DOMAIN tracker.rooms => tracker.current \in DOMAIN tracker.rooms
  BY <1>2, EnsureType
<1> HIDE DEF u, e
<1>6. tracker' = u /\ DOMAIN u.rooms = DOMAIN e.rooms
  BY <1>1, <1>4, StandsAre DEF LearnsExits
<1>7. /\ \A r \in DOMAIN tracker.rooms : stands'[r] = stands[r]
      /\ stands'[here] = where
  <2>1. \A r \in DOMAIN tracker.rooms : stands'[r] = stands[r]
    BY <1>1, <1>4, <1>5, <1>6, StandsAre
  <2>2. CASE here \in DOMAIN tracker.rooms
    <3>1. here = tracker.current /\ here # None
      BY <1>2, <1>5, <2>2, RoomsAreNumbers
    <3> QED
      BY <1>1, <2>1, <2>2, <3>1 DEF Arrived
  <2>3. CASE here \notin DOMAIN tracker.rooms
    BY <1>1, <1>4, <1>5, <1>6, <2>3, StandsAre
  <2> QED
    BY <2>1, <2>2, <2>3
<1>8. Arrived'
  <2>1. \A r \in DOMAIN u.rooms : stands'[r] \in Places
    BY <1>1, <1>2, <1>5, <1>6, <1>7 DEF Arrived
  <2> QED
    BY <1>1, <1>4, <1>5, <1>6, <1>7, <2>1 DEF Arrived
<1>9. ASSUME s # None, ReverseDir[s.dir] \in Ways(where)
      PROVE  /\ s.from \in DOMAIN tracker.rooms /\ here \in DOMAIN tracker.rooms
             /\ Way(stands[s.from], s.dir) = where
             /\ Way(where, ReverseDir[s.dir]) = stands[s.from]
  <2>1. /\ s.to = tracker.current /\ s.from \in DOMAIN tracker.rooms
        /\ Way(stands[s.from], s.dir) = where /\ stands[s.from] \in Places
    BY <1>1, <1>9 DEF Arrived
  <2>2. here \in DOMAIN tracker.rooms
    <3>1. tracker.current # None
      BY <1>2, <1>9, <2>1, StepIsTyped, WalkAssumption
    <3> QED
      BY <1>1, <1>5, <3>1 DEF Arrived
  <2>3. s.dir \in Dirs /\ ReverseDir[s.dir] \in Dirs /\ leads[where][ReverseDir[s.dir]] # None
    BY <1>2, <1>9, StepIsTyped DEF Ways
  <2>4. stands[s.from] # None /\ where # None /\ leads \in Worlds
    BY <1>2, <2>1, WalkAssumption DEF TypeOK
  <2>5. leads[stands[s.from]][s.dir] = where
    BY <2>1, <2>4 DEF Way
  <2>6. leads[where][ReverseDir[s.dir]] = stands[s.from]
    <3>1. \A w \in Worlds, p \in Places, d \in Dirs :
            /\ w[p][d] # None /\ ReverseDir[d] \in Dirs
            /\ w[w[p][d]][ReverseDir[d]] # None
            => w[w[p][d]][ReverseDir[d]] = p
      BY WalkAssumption
    <3> DEFINE w == leads
               p == stands[s.from]
               d == s.dir
    <3>2. /\ w[p][d] # None /\ ReverseDir[d] \in Dirs
          /\ w[w[p][d]][ReverseDir[d]] # None
      BY <2>3, <2>4, <2>5
    <3>3. w \in Worlds /\ p \in Places /\ d \in Dirs
      BY <2>1, <2>3, <2>4
    <3> HIDE DEF w, p, d
    <3>4. w[w[p][d]][ReverseDir[d]] = p
      BY <3>1, <3>2, <3>3
    <3> QED
      BY <2>5, <3>4 DEF w, p, d
  <2> QED
    BY <2>1, <2>2, <2>4, <2>6 DEF Way
<1>10. ASSUME NEW r \in DOMAIN u.rooms, NEW d \in DOMAIN u.rooms[r].exits,
              u.rooms[r].exits[d] # Stub
       PROVE  /\ u.rooms[r].exits[d] \in DOMAIN u.rooms
              /\ Way(stands'[r], d) = stands'[u.rooms[r].exits[d]]
  <2> DEFINE x == u.rooms[r].exits[d]
  <2>1. LearnsExit(e, Ways(where), r, d, x)
    BY <1>4 DEF LearnsExits
  <2> HIDE DEF x
  <2>2. CASE d \in DOMAIN e.rooms[r].exits /\ x = e.rooms[r].exits[d]
    <3>1. r \in DOMAIN tracker.rooms /\ e.rooms[r] = tracker.rooms[r]
      BY <1>5, <1>6, <2>2
    <3>2. x \in DOMAIN tracker.rooms /\ Way(stands[r], d) = stands[x]
      BY <1>10, <2>2, <3>1 DEF LinksTrue, x
    <3> QED
      BY <1>5, <1>6, <1>7, <3>1, <3>2 DEF x
  <2>3. CASE /\ s # None /\ ReverseDir[s.dir] \in Ways(where)
             /\ \/ r = here /\ d = ReverseDir[s.dir] /\ x = s.from
                \/ r = s.from /\ d = s.dir /\ x = here
    <3>1. x \in DOMAIN u.rooms
      BY <1>5, <1>6, <1>9, <2>3
    <3>2. Way(stands'[r], d) = stands'[x]
      BY <1>7, <1>9, <2>3
    <3> QED
      BY <3>1, <3>2 DEF x
  <2> QED
    BY <1>5, <1>10, <2>1, <2>2, <2>3 DEF LearnsExit, x
<1>11. LinksTrue'
  BY <1>1, <1>6, <1>10, LinksAre
<1>12. lines' = <<>> /\ commands' = <<>> /\ tracker'.lastStep = None
  BY <1>1, <1>4, <1>6
<1> QED
  BY <1>8, <1>11, <1>12 DEF Told

(* A title, or that it is dark, changes no link.                           *)
LEMMA HearRestTrail ==
  ASSUME TypeOK, LinksTrue, Told, ~astray, Hear, Head(lines).is # "exits"
  PROVE  LinksTrue' /\ Told'
<1> DEFINE line == Head(lines)
           u == OnServerLine(tracker, line)
<1>1. /\ UNCHANGED <<leads, where, commands>> /\ lines # <<>> /\ lines' = Tail(lines)
      /\ Track(u) /\ commands = <<>> /\ Arrived
  BY DEF Hear, Told, mud
<1>2. TrackerType(tracker) /\ DOMAIN stands = DOMAIN tracker.rooms
  BY DEF TypeOK
<1>3. \/ line = [is |-> "dark"] /\ lines' = <<>> /\ where \in Dark
      \/ /\ line = [is |-> "title", title |-> Title[where]]
         /\ lines' = <<[is |-> "exits", dirs |-> Ways(where)]>>
  <2> DEFINE dark == [is |-> "dark"]
             title == [is |-> "title", title |-> Title[where]]
             exits == [is |-> "exits", dirs |-> Ways(where)]
  <2>1. exits.is = "exits"
    OBVIOUS
  <2> HIDE DEF dark, title, exits
  <2>2. \/ lines = <<dark>> /\ where \in Dark
        \/ lines = <<title, exits>>
        \/ lines = <<exits>>
    BY <1>1 DEF Told, dark, title, exits
  <2>3. \/ line = dark /\ lines' = <<>> /\ where \in Dark
        \/ line = title /\ lines' = <<exits>>
    <3>1. lines' = Tail(lines) /\ line = Head(lines) /\ line.is # "exits"
      BY <1>1
    <3> HIDE DEF line
    <3>2. lines # <<exits>>
      BY <2>1, <3>1
    <3>3. CASE lines = <<dark>> /\ where \in Dark
      BY <3>1, <3>3
    <3>4. CASE lines = <<title, exits>>
      BY <3>1, <3>4
    <3> QED
      BY <2>2, <3>2, <3>3, <3>4
  <2> QED
    BY <2>3 DEF dark, title, exits
<1>4. /\ TrackerType(u) /\ u.current = tracker.current /\ u.lastStep = tracker.lastStep
      /\ DOMAIN u.rooms = DOMAIN tracker.rooms
      /\ \A r \in DOMAIN tracker.rooms : u.rooms[r].exits = tracker.rooms[r].exits
  <2>1. CASE line.is = "dark"
    <3> HIDE DEF line
    <3> QED
      BY <1>2, <2>1, HearDark
  <2>2. CASE line = [is |-> "title", title |-> Title[where]]
    <3>1. Title[where] \in Titles
      BY DEF Titles, TypeOK
    <3>2. line \in LineTypes /\ line.is = "title"
      BY <2>2, <3>1 DEF LineTypes
    <3> HIDE DEF line
    <3> QED
      BY <1>2, <3>2, HearTitle
  <2> QED
    BY <1>3, <2>1, <2>2
<1> HIDE DEF u
<1>5. tracker' = u /\ \A r \in DOMAIN tracker.rooms : stands'[r] = stands[r]
  BY <1>1, <1>2, <1>4, StandsAre
<1>6. Arrived'
  BY <1>1, <1>4, <1>5 DEF Arrived, Way
<1>7. LinksTrue'
  BY <1>1, <1>4, <1>5 DEF LinksTrue, Way
<1>8. Ways(where)' = Ways(where)
  BY <1>1 DEF Ways
<1> QED
  BY <1>1, <1>3, <1>5, <1>6, <1>7, <1>8 DEF Told

LEMMA HearTrail == ASSUME TypeOK, TrailInv, Hear PROVE TrailInv'
<1>1. UNCHANGED <<astray>> /\ lines # <<>>
  BY DEF Hear
<1>2. SUFFICES ASSUME ~astray
               PROVE  LinksTrue' /\ Told'
  BY <1>1 DEF TrailInv
<1>3. LinksTrue /\ (ToldNo \/ Told)
  BY <1>1, <1>2 DEF TrailInv, SentMove, SentOther
<1>4. CASE Told /\ Head(lines).is = "exits"
  <2>1. lines = <<[is |-> "exits", dirs |-> Ways(where)]>>
    BY <1>1, <1>4 DEF Told
  <2> QED
    BY <1>2, <1>3, <1>4, <2>1, HearExitsTrail
<1> QED
  BY <1>2, <1>3, <1>4, HearNoTrail, HearRestTrail

LEMMA TrailStep == TypeOK /\ TrailInv /\ [Next]_vars => TrailInv'
<1> SUFFICES ASSUME TypeOK, TrailInv, [Next]_vars
             PROVE  TrailInv'
  OBVIOUS
<1>1. CASE UserSends
  BY <1>1, SendTrail DEF UserSends
<1>2. CASE Settle \/ Panel \/ UNCHANGED vars
  BY <1>2, TrailKept DEF Settle, Panel, vars, mud, wire, history
<1>3. CASE StepIsRead
  <2>1. CASE UNCHANGED <<mud, wire, tracker, sends, stands, astray>>
    BY <2>1, TrailKept DEF mud, wire
  <2>2. CASE Head(reads) < Len(journey) /\ Send(journey[Head(reads) + 1])
    <3>1. Head(reads) \in Nat
      BY <1>3 DEF StepIsRead, TypeOK
    <3>2. journey[Head(reads) + 1] \in Commands
      BY <2>2, <3>1 DEF TypeOK
    <3> QED
      BY <2>2, <3>2, SendTrail
  <2> QED
    BY <1>3, <2>1, <2>2 DEF StepIsRead
<1> QED
  BY <1>1, <1>2, <1>3, AnswerTrail, HearTrail DEF Next

-----------------------------------------------------------------------------
(* IInv always holds.                                                      *)
THEOREM WalkInvariant == Spec => []IInv
<1>1. Init => IInv
  <2> SUFFICES ASSUME Init
               PROVE  IInv
    OBVIOUS
  <2>1. TypeOK
    BY InitType
  <2>2. OneAtATime /\ RouteInv
    BY DEF Init, OneAtATime, Playing, RouteInv
  <2>3. TrailInv
    <3>1. DOMAIN tracker.rooms = {} /\ tracker.current = None /\ tracker.lastStep = None
      BY NoEntries DEF Init, NewTracker
    <3> QED
      BY <3>1 DEF Init, TrailInv, LinksTrue, Arrived, Told
  <2> QED
    BY <2>1, <2>2, <2>3 DEF IInv
<1>2. IInv /\ [Next]_vars => IInv'
  BY TypeStep, ApartStep, RouteStep, TrailStep DEF IInv
<1> QED
  BY <1>1, <1>2, PTL DEF Spec

(* A replay that nobody meddles with is where its next step starts: the    *)
(* steps before it lead there, in the map of the MUD.                      *)
THEOREM ReplaysStayOnRoute == Spec => []ReplayOnRoute
<1>1. IInv => ReplayOnRoute
  BY DEF IInv, RouteInv, ReplayOnRoute, ToSend
<1> QED
  BY <1>1, WalkInvariant, PTL

(* A player who waits for answers has a map on which he is where he is and *)
(* every link is a way of the MUD.                                         *)
THEOREM MapsAreTrue == Spec => []TrailIsTrue
<1>1. IInv => TrailIsTrue
  <2> SUFFICES ASSUME IInv, Quiet, ~astray, tracker.current # None
               PROVE  /\ stands[tracker.current] = where
                      /\ LinksTrue
    BY DEF TrailIsTrue, LinksTrue
  <2>1. LinksTrue /\ Arrived
    BY DEF IInv, TrailInv, Quiet, SentMove, SentOther, ToldNo, Told
  <2> QED
    BY <2>1 DEF Arrived
<1> QED
  BY <1>1, WalkInvariant, PTL
===============================================================================

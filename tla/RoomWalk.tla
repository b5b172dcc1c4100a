------------------------------- MODULE RoomWalk -------------------------------
(***************************************************************************)
(* A player walks a MUD by hand or by a recorded journey: the tracker, the *)
(* step gate of apps/web/src/App.tsx with lib journeyReplay.ts, and the    *)
(* buttons of components/JourneyPanel.tsx, against the world as it is.     *)
(*                                                                         *)
(* Commands and lines travel on one connection, in order, with any delay.  *)
(* There is one journey, which is not played while it is recorded.         *)
(***************************************************************************)
EXTENDS RoomTracker, Integers, Sequences

CONSTANTS
  Places,    (* the rooms of the MUD                                       *)
  Dirs,      (* the directions in use                                      *)
  Title,     (* the title of each place                                    *)
  Worlds,    (* the maps a MUD may have: the place a direction leads to    *)
  Dark,      (* places that tell nothing but that they are dark            *)
  Stored,    (* what the journey in the store may be at first              *)
  MaxSends   (* bound: commands that are sent                              *)

Commands == Dirs \cup {"look", "try"}
Titles   == NoTitle \cup {"unnamed"} \cup {Title[p] : p \in Places}

ASSUME WalkAssumption ==
  /\ Dirs \subseteq DOMAIN ReverseDir /\ Dark \subseteq Places
  /\ DOMAIN Title = Places /\ MaxSends \in Nat /\ Stored \subseteq Seq(Commands)
  /\ None \notin Places /\ {None, Stub} \cap Nat = {}
  /\ None \notin [from : Nat, dir : Dirs, to : Nat, created : BOOLEAN]
  /\ None \notin [step : Nat, total : Nat, pre : {None} \cup Titles]
  /\ Worlds \subseteq [Places -> [Dirs -> Places \cup {None}]]
  /\ \A w \in Worlds, p \in Places, d \in Dirs : \* a way that can be gone back leads back
       /\ w[p][d] # None /\ ReverseDir[d] \in Dirs
       /\ w[w[p][d]][ReverseDir[d]] # None
       => w[w[p][d]][ReverseDir[d]] = p

VARIABLES
  (* the MUD *)
  leads,      (* its map                                                   *)
  where,      (* where the player stands                                   *)
  (* the connection *)
  commands,   (* commands on their way to the MUD                          *)
  lines,      (* lines on their way back                                   *)
  (* the browser *)
  tracker,    (* roomTracker                                               *)
  journey,    (* the steps of the journey in the store                     *)
  recording,  (* journeyRecordingId is set                                 *)
  replay,     (* journeyReplay.step, or None                               *)
  gate,       (* journeyGateRef.current                                    *)
  reads,      (* sendNext awaits getJourney for these steps                *)
  (* history *)
  sends,      (* commands sent                                             *)
  stands,     (* the place a room of the tracker stands for                *)
  astray,     (* the player did not wait for the answer                    *)
  begin,      (* where the replay began                                    *)
  offRoute    (* he moved by himself, or a step was not answered in time   *)

mud     == <<leads, where>>
wire    == <<commands, lines>>
panel   == <<journey, recording, replay, gate, reads>>
history == <<sends, stands, astray, begin, offRoute>>
vars    == <<mud, wire, tracker, panel, history>>

(* The way d from p.                                                       *)
Way(p, d) == IF p = None THEN None ELSE leads[p][d]

Init ==
  /\ leads \in Worlds
  /\ where \in Places
  /\ commands = <<>> /\ lines = <<>>
  /\ tracker = NewTracker
  /\ journey \in Stored /\ recording = FALSE
  /\ replay = None /\ gate = None /\ reads = <<>>
  /\ sends = 0 /\ stands = <<>> /\ astray = FALSE
  /\ begin = where /\ offRoute = FALSE

Quiet   == commands = <<>> /\ lines = <<>>
Playing == replay # None \/ gate # None \/ reads # <<>>

-----------------------------------------------------------------------------
(* The MUD.                                                                *)
Ways(p) == {d \in Dirs : leads[p][d] # None}

Report(p) ==
  IF p \in Dark THEN <<[is |-> "dark"]>>
  ELSE <<[is |-> "title", title |-> Title[p]], [is |-> "exits", dirs |-> Ways(p)]>>

(* A command that is no move is a look or is refused.                      *)
Answer ==
  /\ commands # <<>>
  /\ LET to == IF Head(commands) \in Dirs THEN leads[where][Head(commands)] ELSE where
         ok == to # None /\ Head(commands) # "try"
     IN  /\ where' = IF ok THEN to ELSE where
         /\ lines' = lines \o IF ok THEN Report(to) ELSE <<[is |-> "fail"]>>
  /\ commands' = Tail(commands)
  /\ UNCHANGED <<leads, tracker, panel, history>>

-----------------------------------------------------------------------------
(* The tracker.                                                            *)
Stands(t) ==
  [r \in DOMAIN t.rooms |->
     LET Old(q) == IF q \in DOMAIN stands THEN stands[q] ELSE where
         s      == t.lastStep
     IN  IF r \in DOMAIN stands \/ s = None \/ s.to # r THEN Old(r)
         ELSE Way(Old(s.from), s.dir)]

Track(t) == tracker' = t /\ stands' = Stands(t)

IsMoveCommand(command) == command \in Dirs

(* submitCmd and walkDir, with onSendThroughEngine.                        *)
Send(command) ==
  /\ sends < MaxSends /\ sends' = sends + 1
  /\ commands' = Append(commands, command)
  /\ Track(IF IsMoveCommand(command) THEN NoteOutbound(tracker, command) ELSE tracker)
  /\ journey' = IF recording THEN Append(journey, command) ELSE journey
  /\ astray' = (astray \/ ~Quiet \/ (command = "try" /\ tracker.lastStep # None))
  /\ UNCHANGED <<mud, lines>>

UserSends ==
  /\ \E command \in Commands : Send(command)
  /\ offRoute' = (offRoute \/ Playing)
  /\ UNCHANGED <<recording, replay, gate, reads, begin>>

-----------------------------------------------------------------------------
(* journeyReplay.ts                                                        *)
VerdictOnServerLine(line) == IsMoveFail(line) \/ IsVisionFail(line)

VerdictOnSettle(pre, post) == IF pre # None /\ pre = post THEN "stop" ELSE "advance"

(* finishJourneyGate                                                       *)
FinishGate(verdict) ==
  /\ gate' = None
  /\ replay' = IF verdict = "stop" \/ gate.step + 1 >= gate.total THEN None
               ELSE gate.step + 1

(* handleServerLine                                                        *)
Hear ==
  /\ lines # <<>> /\ lines' = Tail(lines)
  /\ Track(OnServerLine(tracker, Head(lines)))
  /\ IF gate # None /\ VerdictOnServerLine(Head(lines))
     THEN FinishGate("stop") ELSE UNCHANGED <<replay, gate>>
  /\ UNCHANGED <<mud, commands, journey, recording, reads, sends, astray, begin, offRoute>>

(* The timer of the gate.                                                  *)
Settle ==
  /\ gate # None
  /\ FinishGate(VerdictOnSettle(gate.pre, TitleHere(tracker)))
  /\ offRoute' = (offRoute \/ ~Quiet)
  /\ UNCHANGED <<mud, wire, tracker, journey, recording, reads, sends, stands, astray, begin>>

(* Fault: the gate is not looked at.                                       *)
StepNeverPending == FALSE

StepPending == gate # None

(* sendNext goes on behind its await, with onJourneyRequestStep: the step   *)
(* is sent even if the replay was stopped or went on while it was read.    *)
StepIsRead ==
  LET i == Head(reads) IN
  /\ reads # <<>> /\ reads' = Tail(reads)
  /\ \/ /\ i >= Len(journey) /\ replay' = None /\ gate' = None
        /\ UNCHANGED <<mud, wire, tracker, journey, sends, stands, astray>>
     \/ /\ i < Len(journey) /\ StepPending
        /\ UNCHANGED <<mud, wire, tracker, journey, replay, gate, sends, stands, astray>>
     \/ /\ i < Len(journey) /\ ~StepPending
        /\ gate' = [step |-> i, total |-> Len(journey), pre |-> TitleHere(tracker)]
        /\ Send(journey[i + 1])
        /\ UNCHANGED replay
  /\ offRoute' = (offRoute \/ replay # i)
  /\ UNCHANGED <<recording, begin>>

-----------------------------------------------------------------------------
(* JourneyPanel.                                                           *)
StartRecord ==
  /\ ~recording /\ ~Playing /\ recording' = TRUE /\ journey' = <<>>
  /\ UNCHANGED <<replay, gate, reads, begin, offRoute>>

StopRecord ==
  /\ recording /\ recording' = FALSE
  /\ UNCHANGED <<journey, replay, gate, reads, begin, offRoute>>

StartPlay ==
  /\ ~recording /\ replay' = 0 /\ begin' = where
  /\ offRoute' = (~Quiet \/ gate # None \/ reads # <<>>)
  /\ UNCHANGED <<journey, recording, gate, reads>>

SendNext ==
  /\ replay # None /\ gate = None /\ Len(reads) < 2
  /\ reads' = Append(reads, replay)
  /\ UNCHANGED <<journey, recording, replay, gate, begin, offRoute>>

(* The effect of journeyReplay clears the gate.                            *)
StopPlay ==
  /\ replay # None /\ replay' = None /\ gate' = None
  /\ UNCHANGED <<journey, recording, reads, begin, offRoute>>

Panel ==
  /\ StartRecord \/ StopRecord \/ StartPlay \/ SendNext \/ StopPlay
  /\ UNCHANGED <<mud, wire, tracker, sends, stands, astray>>

Next == Answer \/ UserSends \/ Hear \/ Settle \/ StepIsRead \/ Panel

Spec == Init /\ [][Next]_vars

-----------------------------------------------------------------------------
(* A player who waits for each answer, and in the dark tries nothing that  *)
(* is refused, has a true map: it shows where he is, and every link it     *)
(* draws is a way of the MUD.                                              *)
TrailIsTrue ==
  Quiet /\ ~astray /\ tracker.current # None =>
    /\ stands[tracker.current] = where
    /\ \A r \in DOMAIN tracker.rooms : \A d \in DOMAIN tracker.rooms[r].exits :
         LET to == tracker.rooms[r].exits[d]
         IN  to # Stub => Way(stands[r], d) = stands[to]

(* The replay is where its next step starts, as long as the store and the  *)
(* MUD answer in time and the player keeps his hands off, however often he *)
(* clicks: no step is skipped, sent twice or counted although it failed.   *)
Walk(map, from, steps, n, to) ==
  \E way \in [0..n -> Places] :
    /\ way[0] = from /\ way[n] = to
    /\ \A i \in 1..n :
         way[i] = IF steps[i] \in Dirs THEN map[way[i - 1]][steps[i]] ELSE way[i - 1]

OnRoute(n) == Walk(leads, begin, journey, n, where)

ReplayOnRoute ==
  replay # None /\ gate = None /\ Quiet /\ ~offRoute =>
    /\ replay <= Len(journey)
    /\ OnRoute(replay)

===============================================================================

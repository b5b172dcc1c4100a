----------------------------- MODULE NavCompanion -----------------------------
(***************************************************************************)
(* The map companion: the wiring of the detector and of the frame on show  *)
(* in apps/web/src/App.tsx, and components/MapCompanion.tsx, on the store. *)
(*                                                                         *)
(* An await of the store is a transaction in "queue"; IndexedDB runs them  *)
(* in the order they were asked for.  The head of the queue commits in one *)
(* step with the code behind its await, which may queue the next one.  A   *)
(* state change, its render and its effects are one step.  Another window  *)
(* of the browser works on the same store.                                 *)
(***************************************************************************)
EXTENDS NavStore, BurstDetector

CONSTANTS
  Tabs,       (* the sessions that are open                                *)
  ProfileOf,  (* the profile of each                                       *)
  MaxIds,     (* bound: frames that are stored                             *)
  MaxPins,    (* bound: pins that are put                                  *)
  MaxQueue    (* bound: transactions queued by the user at a time          *)

Ids == 1..MaxIds

ASSUME NavAssumption ==
  /\ {MaxFrames, MinRows, MaxIds, MaxPins, MaxQueue} \subseteq Nat \ {0}
  /\ Tabs # {} /\ DOMAIN ProfileOf = Tabs
  /\ None \notin Ids /\ None \notin Tabs

Profiles == {ProfileOf[t] : t \in Tabs}

VARIABLES
  db,        (* the database                                               *)
  queue,     (* transactions that wait                                     *)
  det,       (* burstRef.current                                           *)
  bufArmed,  (* mapCaptureArmed of the screen on show                      *)
  tab,       (* tabId                                                      *)
  last,      (* lastMapByTabRef                                            *)
  shown,     (* the state of MapCompanion                                  *)
  ids,       (* frames stored so far                                       *)
  pinIds,    (* pins put so far                                            *)
  (* history *)
  missed,    (* a settled burst found a capture under way                  *)
  hasty      (* the user acted while a transaction waited                  *)

vars == <<db, queue, det, bufArmed, tab, last, shown, ids, pinIds, missed, hasty>>

Nothing == [frozen |-> None, live |-> TRUE, frame |-> None, pins |-> {}]

Init ==
  /\ db = EmptyStore /\ queue = <<>>
  /\ det = NewDetector /\ bufArmed = FALSE
  /\ tab \in Tabs /\ last = [t \in Tabs |-> None]
  /\ shown = Nothing
  /\ ids = 0 /\ pinIds = 0 /\ missed = FALSE /\ hasty = FALSE

-----------------------------------------------------------------------------
(* displayId                                                               *)
Display(ui, l, t) == IF ui.live THEN l[t] ELSE ui.frozen

Loads(id) == IF id = None THEN <<>> ELSE <<[op |-> "load", frame |-> id]>>

(* Fault: the effect runs for a new epoch only.                            *)
RenderForEpoch(ui, l, t, asked, again) ==
  /\ last' = l /\ tab' = t /\ shown' = ui
  /\ queue' = asked \o (IF again THEN Loads(Display(ui, l, t)) ELSE <<>>)

(* The state after a handler: what it set, what it asked of the store, and *)
(* the effect of loadFrame, which runs for another displayId or epoch.     *)
Render(ui, l, t, asked, again) ==
  LET id     == Display(ui, l, t)
      effect == again \/ id # Display(shown, last, tab)
  IN  /\ last' = l /\ tab' = t
      /\ shown' = IF effect /\ id = None
                  THEN [ui EXCEPT !.frame = None, !.pins = {}] ELSE ui
      /\ queue' = asked \o (IF effect THEN Loads(id) ELSE <<>>)

(* setLastMapForTab                                                        *)
ShowLast(ui, id, asked) == Render(ui, [last EXCEPT ![tab] = id], tab, asked, TRUE)

Idle(ui, asked) == Render(ui, last, tab, asked, FALSE)

-----------------------------------------------------------------------------
(* The detector.                                                           *)
Detect(d) == det' = d /\ bufArmed' = d.armed

Screen ==
  /\ \/ \E n \in 1..MinRows : n <= det.rows + 1 /\ Detect(CupAbs(det, n))
     \/ bufArmed /\ det' = BufMut(det) /\ UNCHANGED bufArmed
  /\ missed' = (missed /\ ~det'.settle)
  /\ UNCHANGED <<db, queue, tab, last, shown, ids, pinIds, hasty>>

AutoDetect ==
  /\ \E on \in BOOLEAN : on # det.auto /\ Detect(SetAutoDetectEnabled(det, on))
  /\ missed' = FALSE
  /\ UNCHANGED <<db, queue, tab, last, shown, ids, pinIds, hasty>>

(* settleTimer or retryTimer: tryPersist reads the tab and its profile now.*)
TimerFires(timer) ==
  LET d == TryCapture([det EXCEPT ![timer] = FALSE])
      starts == d.capturing /\ ~det.capturing
  IN  /\ det[timer]
      /\ starts => Len(queue) <= MaxQueue
      /\ det' = d
      /\ bufArmed' = IF starts THEN FALSE ELSE bufArmed
      /\ queue' = IF starts
                  THEN Append(queue, [op |-> "put", by |-> "burst", again |-> FALSE,
                                      profile |-> ProfileOf[tab]])
                  ELSE queue
      /\ missed' = (~starts /\ (missed \/ (det.capturing /\ det.armed)))
      /\ UNCHANGED <<db, tab, last, shown, ids, pinIds, hasty>>

IntervalEnds ==
  /\ det.recent /\ det' = [det EXCEPT !.recent = FALSE]
  /\ UNCHANGED <<db, queue, bufArmed, tab, last, shown, ids, pinIds, missed, hasty>>

-----------------------------------------------------------------------------
(* What the user does.                                                     *)
Ask(request) == Len(queue) < MaxQueue /\ Idle(shown, Append(queue, request))

CaptureManual ==
  Ask([op |-> "put", by |-> "user", again |-> FALSE, profile |-> ProfileOf[tab]])

Freeze ==
  /\ shown.live /\ last[tab] # None
  /\ Ask([op |-> "protect", frame |-> last[tab], flag |-> TRUE])

Unfreeze ==
  /\ ~shown.live
  /\ Ask([op |-> "protect", frame |-> shown.frozen, flag |-> FALSE])

GoLive ==
  /\ ~shown.live /\ Len(queue) <= MaxQueue
  /\ Idle([shown EXCEPT !.live = TRUE, !.frozen = None], queue)

Clear == Ask([op |-> "clear", profile |-> ProfileOf[tab]])

(* runSearch and runReattach list the profile.                             *)
Search == Ask([op |-> "list", profile |-> ProfileOf[tab]])

(* savePin: putPin looks for the frame in a transaction of its own.        *)
SavePin ==
  /\ shown.frame # None
  /\ Ask([op |-> "check", frame |-> shown.frame, profile |-> ProfileOf[tab]])

(* A pin of the list below the map.                                        *)
EditPin ==
  /\ shown.frame # None
  /\ \E q \in shown.pins, op \in {"updatePin", "deletePin"} :
       Ask([op |-> op, pin |-> q, frame |-> shown.frame])

SelectTab == \E t \in Tabs \ {tab} : Render(shown, last, t, queue, FALSE)

UserActs ==
  /\ \/ CaptureManual \/ Freeze \/ Unfreeze \/ GoLive \/ Clear
     \/ Search \/ SavePin \/ EditPin
  /\ hasty' = (hasty \/ queue # <<>>)
  /\ UNCHANGED <<db, det, bufArmed, ids, pinIds, missed>>

(* The terminal of the other tab is another screen.                        *)
SwitchTab ==
  /\ Len(queue) <= MaxQueue /\ SelectTab /\ bufArmed' = FALSE
  /\ hasty' = (hasty \/ queue # <<>>)
  /\ UNCHANGED <<db, det, ids, pinIds, missed>>

-----------------------------------------------------------------------------
(* The head of the queue commits.                                          *)
Next1(op) == queue # <<>> /\ Head(queue).op = op
Request   == Head(queue)
Rest      == Tail(queue)

(* tryPersist and captureManual, and finish of the detector.               *)
Finished(ok) ==
  det' = IF Request.by = "burst" THEN Finish(det, ok) ELSE det

Put ==
  /\ Next1("put") /\ ids < MaxIds
  /\ LET p == Request.profile
         done == PutFrameOnce(db, p, ids + 1)
     IN  \/ /\ ~StorageFull(db, p)
            /\ db' = done /\ ids' = ids + 1 /\ Finished(TRUE)
            /\ ShowLast(shown, ids', Rest)
         \/ /\ StorageFull(db, p)
            /\ Finished(FALSE) /\ Idle(shown, Rest) /\ UNCHANGED <<db, ids>>
         \/ \* QuotaExceededError
            /\ ~StorageFull(db, p)
            /\ UNCHANGED <<db, ids>>
            /\ IF Request.again
               THEN Finished(FALSE) /\ Idle(shown, Rest)
               ELSE /\ Idle(shown, Append(Rest, [Request EXCEPT !.op = "evict"]))
                    /\ UNCHANGED det
  /\ UNCHANGED <<bufArmed, pinIds, missed, hasty>>

EvictForQuota ==
  /\ Next1("evict")
  /\ db' = EvictOneUnprotected(db, Request.profile)
  /\ Idle(shown, Append(Rest, [Request EXCEPT !.op = "put", !.again = TRUE]))
  /\ UNCHANGED <<det, bufArmed, ids, pinIds, missed, hasty>>

Commits(newdb) == db' = newdb /\ UNCHANGED <<det, bufArmed, ids, pinIds, missed, hasty>>

Protect ==
  /\ Next1("protect") /\ Commits(SetProtected(db, Request.frame, Request.flag))
  /\ LET ui == IF Request.flag
               THEN [shown EXCEPT !.live = FALSE, !.frozen = Request.frame]
               ELSE shown
     IN  Idle(ui, Rest \o Loads(Request.frame))

ClearAll ==
  /\ Next1("clear") /\ Commits(ClearProfile(db, Request.profile))
  /\ ShowLast(Nothing, None, Rest)

(* frozenId stays, but nothing reads it in the live view.                  *)
ClickHit(f) == ShowLast([shown EXCEPT !.live = TRUE, !.frozen = None], f, Rest)

(* A hit of the search is clicked, or the exact match of a reattach shown; *)
(* a pin is a hit even if its frame is gone.                               *)
List ==
  /\ Next1("list") /\ Commits(db)
  /\ LET found  == FramesOf(db, Request.profile)
         pinned == {db.pins[q].frame : q \in DOMAIN db.pins}
     IN  \/ Idle(shown, Rest)
         \/ \E f \in found : ShowLast(shown, f, Rest)
         \/ \E f \in found \cup pinned : ClickHit(f)

(* loadFrame                                                               *)
Load ==
  /\ Next1("load") /\ Commits(db)
  /\ IF Request.frame \in DOMAIN db.frames
     THEN Idle([shown EXCEPT !.frame = Request.frame],
               Append(Rest, [op |-> "pins", frame |-> Request.frame]))
     ELSE Idle([shown EXCEPT !.frame = None, !.pins = {}], Rest)

ListPins ==
  /\ Next1("pins") /\ Commits(db)
  /\ Idle([shown EXCEPT !.pins = PinsOf(db, Request.frame)], Rest)

(* putPin                                                                  *)
CheckFrame ==
  /\ Next1("check") /\ Commits(db)
  /\ Idle(shown, Append(Rest, IF Request.frame \in DOMAIN db.frames
                              THEN [Request EXCEPT !.op = "putPin"]
                              ELSE [op |-> "pins", frame |-> Request.frame]))

StorePin ==
  /\ Next1("putPin") /\ pinIds < MaxPins
  /\ pinIds' = pinIds + 1
  /\ db' = PutPin(db, pinIds', Request.frame, Request.profile)
  /\ Idle(shown, Append(Rest, [op |-> "pins", frame |-> Request.frame]))
  /\ UNCHANGED <<det, bufArmed, ids, missed, hasty>>

ChangePin ==
  /\ \/ Next1("updatePin") /\ Commits(UpdatePin(db, Request.pin))
     \/ Next1("deletePin") /\ Commits(DeletePin(db, Request.pin))
  /\ Idle(shown, Append(Rest, [op |-> "pins", frame |-> Request.frame]))

Commit ==
  \/ Put \/ EvictForQuota \/ Protect \/ ClearAll \/ List
  \/ Load \/ ListPins \/ CheckFrame \/ StorePin \/ ChangePin

-----------------------------------------------------------------------------
OtherWindow ==
  /\ \E p \in Profiles :
       \/ db' = ClearProfile(db, p) /\ UNCHANGED ids
       \/ /\ ids < MaxIds /\ ids' = ids + 1
          /\ db' = PutFrameOnce(db, p, ids')
  /\ UNCHANGED <<queue, det, bufArmed, tab, last, shown, pinIds, missed, hasty>>

Reload ==
  /\ queue' = <<>> /\ det' = NewDetector /\ bufArmed' = FALSE
  /\ tab' \in Tabs /\ last' = [t \in Tabs |-> None]
  /\ shown' = Nothing /\ missed' = FALSE /\ hasty' = FALSE
  /\ UNCHANGED <<db, ids, pinIds>>

Next ==
  \/ Screen \/ AutoDetect \/ TimerFires("settle") \/ TimerFires("retry")
  \/ IntervalEnds \/ UserActs \/ SwitchTab
  \/ Commit \/ OtherWindow \/ Reload

Spec == Init /\ [][Next]_vars

-----------------------------------------------------------------------------
(* Up to pins whose frame is gone the database behaves as the store in     *)
(* memory: no method loses or doubles what the other one keeps, although a *)
(* pin is put two transactions after it was asked for and a full disk      *)
(* takes three to store a frame (memoryStore.ts: "mirrors IDB policy").    *)
Kept == Restrict(db.pins, {q \in DOMAIN db.pins : db.pins[q].frame \in DOMAIN db.frames})

Memory == INSTANCE NavMemory WITH
  frames <- db.frames, pins <- Kept, MaxIds <- MaxIds + MaxPins

ImplementsNavMemory == Memory!Spec

(* A pin that is stored leaves with its frame: no path drops a frame and   *)
(* lets pins of it lie about.  (MAX_FRAMES: "evict unprotected LRU (cascade *)
(* pins)".)  Only clearing a profile spares the pins another profile put   *)
(* on its frames: a capture that completes after a change of tabs shows    *)
(* the frame in the other tab (setLastMapForTab).                          *)
PinsGoWithFrame ==
  [][\A q \in DOMAIN db.pins \cap DOMAIN db'.pins :
       LET f == db.pins[q].frame
       IN  f \in DOMAIN db.frames \ DOMAIN db'.frames =>
             /\ db.pins[q].profile # db.frames[f].profile
             /\ FramesOf(db', db.frames[f].profile) = {}]_vars

(* When the store is done, the companion shows the frame of the tab or the *)
(* frozen one, and never another, whatever bursts and other windows stored *)
(* or cleared meanwhile.  (A user who goes on while a transaction waits    *)
(* can be shown the frame he left: loadFrame is not called off, and the    *)
(* one at the end of onUnfreeze loads what was on show at the click.)      *)
ShowsWhatIsAsked ==
  queue = <<>> /\ ~hasty => shown.frame \in {Display(shown, last, tab), None}

(* A burst that was noticed has a timer that will have it stored, unless   *)
(* it settled while the one before it was being stored.                    *)
ArmedHasTimer == det.armed /\ ~missed => det.settle \/ det.retry
===============================================================================

------------------------------- MODULE NavStore -------------------------------
(***************************************************************************)
(* packages/nav-memory/src/idbStore.ts: the same store in IndexedDB, one   *)
(* operator for one transaction.  A store is a record of the object stores *)
(* of frames and pins; a method that takes two transactions is cut between them by     *)
(* NavCompanion.  Cells, labels, texts and positions of pins are left out. *)
(***************************************************************************)
EXTENDS Integers, Sequences, FiniteSets, FiniteSetsExt, Functions

CONSTANTS
  MaxFrames, (* MAX_FRAMES_PER_PROFILE                                     *)
  None

(* put of an object store.                                                 *)
Stored(s, id, value) == [i \in DOMAIN s \cup {id} |-> IF i = id THEN value ELSE s[i]]

EmptyStore == [frames |-> <<>>, pins |-> <<>>]

FramesOf(db, p) == {f \in DOMAIN db.frames : db.frames[f].profile = p}
PinsOf(db, f)   == {q \in DOMAIN db.pins : db.pins[q].frame = f}

(* Fault: the oldest frame, protected or not.                              *)
VictimOldest(db, p) == IF FramesOf(db, p) = {} THEN None ELSE Min(FramesOf(db, p))

Victim(db, p) ==
  LET free == {f \in FramesOf(db, p) : ~db.frames[f].protected}
  IN  IF free = {} THEN None ELSE Min(free)

(* Fault: the frame goes, its pins stay.                                   *)
FrameOnly(db, f) ==
  [db EXCEPT !.frames = Restrict(@, DOMAIN @ \ {f})]

DeleteFrameCascade(db, f) ==
  [frames |-> Restrict(db.frames, DOMAIN db.frames \ {f}),
   pins   |-> Restrict(db.pins, DOMAIN db.pins \ PinsOf(db, f))]

Full(db, p) == Cardinality(FramesOf(db, p)) >= MaxFrames

StorageFull(db, p) == Full(db, p) /\ Victim(db, p) = None

PutFrameOnce(db, p, id) ==
  LET room == IF Full(db, p) THEN DeleteFrameCascade(db, Victim(db, p)) ELSE db
  IN  IF StorageFull(db, p) THEN db
      ELSE [room EXCEPT !.frames = Stored(@, id, [profile |-> p, protected |-> FALSE])]

EvictOneUnprotected(db, p) ==
  IF Victim(db, p) = None THEN db ELSE DeleteFrameCascade(db, Victim(db, p))

SetProtected(db, f, flag) ==
  IF f \in DOMAIN db.frames
  THEN [db EXCEPT !.frames[f].protected = flag] ELSE db

ClearProfile(db, p) ==
  LET Others(s) == Restrict(s, {i \in DOMAIN s : s[i].profile # p})
  IN  [frames |-> Others(db.frames), pins |-> Others(db.pins)]

PutPin(db, q, f, p) ==
  [db EXCEPT !.pins = Stored(@, q, [frame |-> f, profile |-> p, edited |-> FALSE])]

UpdatePin(db, q) ==
  IF q \in DOMAIN db.pins /\ db.pins[q].frame \in DOMAIN db.frames
  THEN [db EXCEPT !.pins[q].edited = TRUE] ELSE db

DeletePin(db, q) == [db EXCEPT !.pins = Restrict(@, DOMAIN @ \ {q})]
===============================================================================

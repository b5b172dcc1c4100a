------------------------------ MODULE NavMemory ------------------------------
(***************************************************************************)
(* packages/nav-memory/src/memoryStore.ts: what the store of map frames    *)
(* and pins promises.  Every method is one step.  The IndexedDB   *)
(* store has the same interface and is to behave alike ("mirrors IDB       *)
(* policy").  Frame ids are numbers in the order of capturedAt.  Pins are  *)
(* followed as long as their frame is there.                               *)
(***************************************************************************)
EXTENDS Naturals, FiniteSets, Functions

CONSTANTS
  Profiles,
  MaxFrames, (* MAX_FRAMES_PER_PROFILE                                     *)
  MaxIds     (* bound: ids that are given out                              *)

VARIABLES
  frames,   (* id -> [profile, protected]                                  *)
  pins      (* id -> [frame, profile, edited]                              *)

vars == <<frames, pins>>
Ids  == 1..MaxIds

Init == frames = <<>> /\ pins = <<>>

(* set of a Map.                                                           *)
Stored(s, id, value) == [i \in DOMAIN s \cup {id} |-> IF i = id THEN value ELSE s[i]]

Of(p) == {f \in DOMAIN frames : frames[f].profile = p}

(* The oldest frame of the profile that is not protected, with its pins.   *)
IsVictim(v, p) ==
  /\ v \in Of(p) /\ ~frames[v].protected
  /\ \A f \in Of(p) : f < v => frames[f].protected

PinsWithout(v) == Restrict(pins, {q \in DOMAIN pins : pins[q].frame # v})

Evict(p) ==
  /\ \E v \in Ids : /\ IsVictim(v, p)
                    /\ frames' = Restrict(frames, DOMAIN frames \ {v})
                    /\ pins' = PinsWithout(v)

PutFrame(p, id) ==
  LET new == [profile |-> p, protected |-> FALSE]
  IN  /\ \A f \in DOMAIN frames : f < id
      /\ \/ /\ Cardinality(Of(p)) < MaxFrames
            /\ frames' = Stored(frames, id, new)
            /\ UNCHANGED pins
         \/ \E v \in Ids :
              /\ Cardinality(Of(p)) >= MaxFrames
              /\ IsVictim(v, p)
              /\ frames' = Stored(Restrict(frames, DOMAIN frames \ {v}), id, new)
              /\ pins' = PinsWithout(v)

SetProtected(f, flag) ==
  /\ f \in DOMAIN frames
  /\ frames' = [frames EXCEPT ![f].protected = flag]
  /\ UNCHANGED pins

(* Pins that another profile put on a frame of this one stay, but without  *)
(* their frame.                                                            *)
ClearProfile(p) ==
  /\ frames' = Restrict(frames, DOMAIN frames \ Of(p))
  /\ pins' = Restrict(pins, {q \in DOMAIN pins : /\ pins[q].profile # p
                                                /\ pins[q].frame \notin Of(p)})

PutPin(q, f, p) ==
  /\ f \in DOMAIN frames /\ q \notin DOMAIN pins
  /\ pins' = Stored(pins, q, [frame |-> f, profile |-> p, edited |-> FALSE])
  /\ UNCHANGED frames

UpdatePin(q) ==
  /\ q \in DOMAIN pins /\ pins[q].frame \in DOMAIN frames
  /\ pins' = [pins EXCEPT ![q].edited = TRUE]
  /\ UNCHANGED frames

DeletePin(q) ==
  /\ q \in DOMAIN pins
  /\ pins' = Restrict(pins, DOMAIN pins \ {q})
  /\ UNCHANGED frames

Next ==
  \/ \E p \in Profiles : Evict(p) \/ ClearProfile(p)
  \/ \E i \in Ids :
       \/ SetProtected(i, TRUE) \/ SetProtected(i, FALSE)
       \/ UpdatePin(i) \/ DeletePin(i)
       \/ \E p \in Profiles :
            \/ PutFrame(p, i)
            \/ \E f \in Ids : PutPin(i, f, p)

Spec == Init /\ [][Next]_vars
===============================================================================

-------------------------- MODULE NavCompanion_proofs --------------------------
(***************************************************************************)
(* Theorems about NavCompanion, for any number of tabs and profiles.       *)
(***************************************************************************)
EXTENDS NavCompanion, FiniteSetTheorems, WellFoundedInduction, TLAPS

FrameRecords  == [profile : Profiles, protected : BOOLEAN]
PinRecords(n) == [frame : 1..n, profile : Profiles, edited : BOOLEAN]

(* An object store whose keys are among the first n.                       *)
IsTable(s, n, R) == s \in [DOMAIN s -> R] /\ DOMAIN s \subseteq 1..n

StoreOK(s, n, m) ==
  /\ s = [frames |-> s.frames, pins |-> s.pins]
  /\ IsTable(s.frames, n, FrameRecords)
  /\ IsTable(s.pins, m, PinRecords(n))

(* The pins of a store whose frame is there.                               *)
KeptOf(s) == Restrict(s.pins, {q \in DOMAIN s.pins : s.pins[q].frame \in DOMAIN s.frames})

(* Those whose frame is not v either.                                      *)
KeptWithout(s, v) ==
  Restrict(KeptOf(s), {q \in DOMAIN KeptOf(s) : KeptOf(s)[q].frame # v})

-----------------------------------------------------------------------------
(* The least number of a set of numbers is in it and below the rest.       *)
LEMMA MinFacts ==
  ASSUME NEW S \in SUBSET Nat, S # {}
  PROVE  Min(S) \in S /\ \A y \in S : Min(S) <= y
<1> DEFINE R == OpToRel(<, Nat)
<1>1. IsWellFoundedOn(R, Nat)
  BY NatLessThanWellFounded
<1>2. \A a, b \in Nat : <<a, b>> \in R <=> a < b
  BY DEF OpToRel
<1> HIDE DEF R
<1>3. PICK x \in S : \A y \in S : ~ (<<y, x>> \in R)
  BY <1>1, WFMin
<1>4. \A y \in S : x <= y
  <2> SUFFICES ASSUME NEW y \in S PROVE x <= y
    OBVIOUS
  <2>1. x \in Nat /\ y \in Nat
    OBVIOUS
  <2>2. ~(y < x)
    BY <2>1, <1>2, <1>3
  <2> QED
    BY <2>1, <2>2
<1> QED
  BY <1>4 DEF Min

(* A table with rows left out, or with one written, is a table.            *)
LEMMA TableFacts ==
  ASSUME NEW n \in Nat, NEW R, NEW s, IsTable(s, n, R)
  PROVE  /\ \A S \in SUBSET DOMAIN s : IsTable(Restrict(s, S), n, R)
         /\ \A id \in 1..n, value \in R : IsTable(Stored(s, id, value), n, R)
         /\ IsTable(s, n + 1, R)
<1>1. ASSUME NEW S \in SUBSET DOMAIN s PROVE IsTable(Restrict(s, S), n, R)
  BY DEF IsTable, Restrict
<1>2. ASSUME NEW id \in 1..n, NEW value \in R PROVE IsTable(Stored(s, id, value), n, R)
  BY DEF IsTable, Stored
<1>3. IsTable(s, n + 1, R)
  BY DEF IsTable
<1> QED
  BY <1>1, <1>2, <1>3

(* The oldest frame that is not protected, if there is one.                *)
LEMMA VictimFacts ==
  ASSUME NEW n \in Nat, NEW m \in Nat, NEW s, StoreOK(s, n, m), NEW p
  PROVE  LET v == Victim(s, p) IN
         \/ v = None /\ \A f \in FramesOf(s, p) : s.frames[f].protected
         \/ /\ v \in FramesOf(s, p) /\ ~s.frames[v].protected
            /\ \A f \in FramesOf(s, p) : f < v => s.frames[f].protected
<1> DEFINE free == {f \in FramesOf(s, p) : ~s.frames[f].protected}
<1>1. free \in SUBSET Nat
  BY DEF FramesOf, StoreOK, IsTable
<1>2. CASE free = {}
  BY <1>2 DEF Victim
<1>3. CASE free # {}
  <2>1. Victim(s, p) = Min(free)
    BY <1>3 DEF Victim
  <2>2. Min(free) \in free /\ \A y \in free : Min(free) <= y
    BY <1>1, <1>3, MinFacts
  <2> DEFINE v == Victim(s, p)
  <2>3. v \in FramesOf(s, p) /\ ~s.frames[v].protected /\ \A y \in free : v <= y
    BY <2>1, <2>2
  <2>4. \A f \in FramesOf(s, p) : f \in Nat
    BY DEF FramesOf, StoreOK, IsTable
  <2>5. ASSUME NEW f \in FramesOf(s, p), f < v PROVE s.frames[f].protected
    <3>1. f \in Nat /\ v \in Nat
      BY <2>3, <2>4
    <3>2. ~(v <= f)
      BY <2>5, <3>1
    <3>3. f \notin free
      BY <2>3, <3>2
    <3> QED
      BY <3>3
  <2> QED
    BY <2>3, <2>5
<1> QED
  BY <1>2, <1>3

(* A frame goes, and its pins with it.                                     *)
LEMMA CascadeFacts ==
  ASSUME NEW n \in Nat, NEW m \in Nat, NEW s, StoreOK(s, n, m), NEW v,
         NEW t, t = DeleteFrameCascade(s, v)
  PROVE  /\ StoreOK(t, n, m)
         /\ t.frames = Restrict(s.frames, DOMAIN s.frames \ {v})
         /\ t.pins = Restrict(s.pins, DOMAIN s.pins \ PinsOf(s, v))
         /\ KeptOf(t) = KeptWithout(s, v)
<1> DEFINE fs == Restrict(s.frames, DOMAIN s.frames \ {v})
           ps == Restrict(s.pins, DOMAIN s.pins \ PinsOf(s, v))
<1>1. t = [frames |-> fs, pins |-> ps]
  BY DEF DeleteFrameCascade, StoreOK
<1>2. StoreOK(t, n, m)
  <2>1. IsTable(fs, n, FrameRecords) /\ IsTable(ps, m, PinRecords(n))
    BY TableFacts DEF StoreOK
  <2> HIDE DEF fs, ps
  <2> QED
    BY <1>1, <2>1 DEF StoreOK
<1>3. KeptOf(t) = KeptWithout(s, v)
  <2>1. t.frames = fs /\ t.pins = ps
    BY <1>1
  <2>2. /\ DOMAIN fs = DOMAIN s.frames \ {v} 
        /\ DOMAIN ps = DOMAIN s.pins \ PinsOf(s, v)
        /\ \A q \in DOMAIN ps : ps[q] = s.pins[q]
    BY DEF Restrict
  <2> HIDE DEF fs, ps
  <2> DEFINE A == {q \in DOMAIN ps : ps[q].frame \in DOMAIN fs}
             B == {q \in DOMAIN s.pins : s.pins[q].frame \in DOMAIN s.frames}
             C == {q \in B : s.pins[q].frame # v}
  <2>3. A = C
    BY <2>2 DEF PinsOf
  <2>4. KeptOf(t) = [q \in A |-> ps[q]] /\ KeptOf(s) = [q \in B |-> s.pins[q]]
    BY <2>1 DEF KeptOf, Restrict
  <2>5. {q \in DOMAIN KeptOf(s) : KeptOf(s)[q].frame # v} = C
    BY <2>4
  <2> HIDE DEF C
  <2>6. Restrict(KeptOf(s), C) = [q \in C |-> s.pins[q]]
    BY <2>4 DEF Restrict, C
  <2>7. [q \in A |-> ps[q]] = [q \in C |-> s.pins[q]]
    BY <2>2, <2>3 DEF C
  <2> QED
    BY <2>4, <2>5, <2>6, <2>7 DEF KeptWithout
<1> QED
  BY <1>1, <1>2, <1>3

-----------------------------------------------------------------------------
(* What a step of the database is: one of the store in memory, or none, and *)
(* no pin is left without the frame it was on.                             *)
PinsKept ==
  \A q \in DOMAIN db.pins \cap DOMAIN db'.pins :
    LET f == db.pins[q].frame
    IN  f \in DOMAIN db.frames \ DOMAIN db'.frames =>
          /\ db.pins[q].profile # db.frames[f].profile
          /\ FramesOf(db', db.frames[f].profile) = {}

StoreStep == [Memory!Next]_(Memory!vars) /\ PinsKept

NumbersOK == ids \in 0..MaxIds /\ pinIds \in 0..MaxPins

(* The counters are numbers.                                               *)
LEMMA Numbers ==
  ASSUME NumbersOK
  PROVE  /\ ids \in Nat /\ pinIds \in Nat /\ MaxIds \in Nat /\ MaxPins \in Nat
         /\ 1..ids \subseteq Ids /\ None \notin 1..ids
         /\ 1..ids \subseteq Memory!Ids /\ 1..pinIds \subseteq Memory!Ids
         /\ Ids \subseteq Memory!Ids /\ Memory!Ids = 1..(MaxIds + MaxPins)
BY NavAssumption DEF NumbersOK, Ids, Memory!Ids

(* The frames kept, as a function of the store.                            *)
LEMMA KeptIs == Kept = KeptOf(db) /\ Kept' = KeptOf(db')
BY DEF Kept, KeptOf

(* The abstract store is the one the mapping names.                        *)
LEMMA MemoryIs ==
  /\ \A p : Memory!Of(p) = FramesOf(db, p)
  /\ \A v : Memory!PinsWithout(v) = KeptWithout(db, v)
  /\ \A s, id, value : Memory!Stored(s, id, value) = Stored(s, id, value)
  /\ \A f, S : Memory!Restrict(f, S) = Restrict(f, S)
  /\ \A S : Memory!Cardinality(S) = Cardinality(S)
<1>1. ASSUME NEW p PROVE Memory!Of(p) = FramesOf(db, p)
  BY DEF Memory!Of, FramesOf
<1>2. ASSUME NEW v PROVE Memory!PinsWithout(v) = KeptWithout(db, v)
  BY KeptIs DEF Memory!PinsWithout, KeptWithout, Memory!Restrict, Restrict
<1>3. ASSUME NEW s, NEW id, NEW value
      PROVE  Memory!Stored(s, id, value) = Stored(s, id, value)
  BY DEF Memory!Stored, Stored
<1>4. ASSUME NEW f, NEW S PROVE Memory!Restrict(f, S) = Restrict(f, S)
  BY DEF Memory!Restrict, Restrict
<1>5. ASSUME NEW S PROVE Memory!Cardinality(S) = Cardinality(S)
  BY DEF Memory!Cardinality, Cardinality
<1> QED
  BY <1>1, <1>2, <1>3, <1>4, <1>5

(* A step that leaves the store alone stutters in the abstract one.        *)
LEMMA SameStore == ASSUME db' = db PROVE StoreStep
BY DEF StoreStep, PinsKept, Memory!vars, Kept

(* The size of a profile is a number.                                      *)
LEMMA SizeFacts ==
  ASSUME NEW n \in Nat, NEW m \in Nat, NEW s, StoreOK(s, n, m), NEW p
  PROVE  Cardinality(FramesOf(s, p)) \in Nat
<1>1. FramesOf(s, p) \subseteq 1..n
  BY DEF FramesOf, StoreOK, IsTable
<1>2. IsFiniteSet(1..n)
  BY FS_Interval
<1> QED
  BY <1>1, <1>2, FS_Subset, FS_CardinalityType

(* A frame is stored, if need be in the place of the oldest.               *)
LEMMA PutFrameStep ==
  ASSUME NumbersOK, ids < MaxIds, StoreOK(db, ids, pinIds), NEW p \in Profiles,
         db' = PutFrameOnce(db, p, ids + 1)
  PROVE  StoreOK(db', ids + 1, pinIds) /\ StoreStep
<1> DEFINE id == ids + 1
           v == Victim(db, p)
           new == [profile |-> p, protected |-> FALSE]
<1>1. /\ ids \in Nat /\ pinIds \in Nat /\ id \in Nat /\ id \in 1..id /\ id \notin 1..ids
      /\ id \in Memory!Ids /\ new \in FrameRecords
  BY Numbers DEF FrameRecords
<1>2. StoreOK(db, id, pinIds)
  <2>1. 1..ids \subseteq 1..id
    BY <1>1
  <2>2. IsTable(db.frames, id, FrameRecords)
    BY <2>1 DEF StoreOK, IsTable
  <2>3. PinRecords(ids) \subseteq PinRecords(id)
    BY <2>1 DEF PinRecords
  <2>4. IsTable(db.pins, pinIds, PinRecords(id))
    BY <2>3 DEF StoreOK, IsTable
  <2> QED
    BY <2>2, <2>4 DEF StoreOK
<1>3. \A f \in DOMAIN db.frames : f < id
  BY <1>1 DEF StoreOK, IsTable
<1>4. Memory!Of(p) = FramesOf(db, p) /\ Cardinality(FramesOf(db, p)) \in Nat /\ MaxFrames \in Nat
  <2>1. Cardinality(FramesOf(db, p)) \in Nat
    BY <1>1, SizeFacts
  <2> QED
    BY <2>1, MemoryIs, NavAssumption
<1>5. CASE StorageFull(db, p)
  BY <1>2, <1>5, SameStore DEF PutFrameOnce
<1>6. ASSUME ~StorageFull(db, p), NEW room,
             room = (IF Full(db, p) THEN DeleteFrameCascade(db, v) ELSE db)
      PROVE  /\ db' = [frames |-> Stored(room.frames, id, new), pins |-> room.pins]
             /\ StoreOK(room, ids, pinIds) /\ StoreOK(db', id, pinIds)
             /\ KeptOf(db') = KeptOf(room)
  <2>1. StoreOK(room, ids, pinIds) /\ StoreOK(room, id, pinIds)
    BY <1>1, <1>2, <1>6, CascadeFacts
  <2>2. db' = [room EXCEPT !.frames = Stored(room.frames, id, new)]
    BY <1>6 DEF PutFrameOnce
  <2>3. db' = [frames |-> Stored(room.frames, id, new), pins |-> room.pins]
    BY <2>1, <2>2 DEF StoreOK
  <2>4. IsTable(Stored(room.frames, id, new), id, FrameRecords)
    BY <1>1, <2>1, TableFacts DEF StoreOK
  <2>5. StoreOK(db', id, pinIds)
    BY <2>1, <2>3, <2>4 DEF StoreOK
  <2>6. \A q \in DOMAIN room.pins : room.pins[q].frame # id
    BY <1>1, <2>1 DEF StoreOK, IsTable, PinRecords
  <2>7. DOMAIN Stored(room.frames, id, new) = DOMAIN room.frames \cup {id}
    BY DEF Stored
  <2>8. {q \in DOMAIN db'.pins : db'.pins[q].frame \in DOMAIN db'.frames}
          = {q \in DOMAIN room.pins : room.pins[q].frame \in DOMAIN room.frames}
    BY <2>3, <2>6, <2>7
  <2>9. KeptOf(db') = KeptOf(room)
    <3>1. db'.pins = room.pins
      BY <2>3
    <3> QED
      BY <2>8, <3>1 DEF KeptOf
  <2> QED
    BY <2>1, <2>3, <2>5, <2>9
<1>7. CASE ~StorageFull(db, p) /\ ~Full(db, p)
  <2>1. /\ db' = [frames |-> Stored(db.frames, id, new), pins |-> db.pins]
        /\ StoreOK(db', id, pinIds) /\ KeptOf(db') = KeptOf(db)
    BY <1>6, <1>7
  <2>2. Cardinality(Memory!Of(p)) < MaxFrames
    BY <1>4, <1>7 DEF Full
  <2>3. Memory!PutFrame(p, id)
    <3>1. db'.frames = Memory!Stored(db.frames, id, new)
      BY <2>1, MemoryIs
    <3>2. Kept' = Kept
      BY <2>1, KeptIs
    <3> QED
      BY <1>3, <2>2, <3>1, <3>2, MemoryIs DEF Memory!PutFrame
  <2>4. PinsKept
    BY <2>1 DEF PinsKept, Stored
  <2> QED
    BY <1>1, <2>1, <2>3, <2>4 DEF StoreStep, Memory!Next
<1>8. CASE ~StorageFull(db, p) /\ Full(db, p)
  <2> PICK room : room = DeleteFrameCascade(db, v)
    OBVIOUS
  <2>1. /\ db' = [frames |-> Stored(room.frames, id, new), pins |-> room.pins]
        /\ StoreOK(db', id, pinIds) /\ KeptOf(db') = KeptOf(room)
    BY <1>6, <1>8
  <2>2. /\ v \in FramesOf(db, p) /\ ~db.frames[v].protected
        /\ \A f \in FramesOf(db, p) : f < v => db.frames[f].protected
    BY <1>1, <1>8, VictimFacts DEF StorageFull
  <2>3. /\ room.frames = Restrict(db.frames, DOMAIN db.frames \ {v})
        /\ room.pins = Restrict(db.pins, DOMAIN db.pins \ PinsOf(db, v))
        /\ KeptOf(room) = KeptWithout(db, v)
    <3> HIDE DEF v
    <3>1. room = DeleteFrameCascade(db, v)
      BY DEF v
    <3>2. ids \in Nat /\ pinIds \in Nat
      BY <1>1
    <3> QED
      BY ONLY SMTT(30), <3>1, <3>2, StoreOK(db, ids, pinIds), CascadeFacts
  <2>4. Memory!IsVictim(v, p) /\ v \in Memory!Ids
    <3>1. v \in 1..ids
      BY <2>2 DEF FramesOf, StoreOK, IsTable
    <3> QED
      BY <1>4, <2>2, <3>1, Numbers DEF Memory!IsVictim
  <2>5. Cardinality(Memory!Of(p)) >= MaxFrames
    BY <1>4, <1>8 DEF Full
  <2>6. Kept' = Memory!PinsWithout(v)
    BY <2>1, <2>3, KeptIs, MemoryIs
  <2>7. db'.frames = Memory!Stored(Restrict(db.frames, DOMAIN db.frames \ {v}), id, new)
    <3>1. db'.frames = Stored(room.frames, id, new)
      BY <2>1
    <3> QED
      BY <2>3, <3>1, MemoryIs
  <2> HIDE DEF v
  <2>8. Memory!PutFrame(p, id)
    BY <1>3, <2>4, <2>5, <2>6, <2>7, MemoryIs DEF Memory!PutFrame
  <2>9. PinsKept
    <3>1. \A q \in DOMAIN db'.pins : q \notin PinsOf(db, v)
      BY <2>1, <2>3 DEF Restrict
    <3>2. DOMAIN db.frames \ DOMAIN db'.frames \subseteq {v}
      BY <2>1, <2>3 DEF Restrict, Stored
    <3> QED
      BY <3>1, <3>2 DEF PinsKept, PinsOf
  <2> QED
    BY <1>1, <2>1, <2>8, <2>9 DEF StoreStep, Memory!Next
<1> QED
  BY <1>5, <1>7, <1>8

(* The oldest frame that is not protected goes, if there is one.           *)
LEMMA EvictStep ==
  ASSUME NumbersOK, StoreOK(db, ids, pinIds), NEW p \in Profiles,
         db' = EvictOneUnprotected(db, p)
  PROVE  StoreOK(db', ids, pinIds) /\ StoreStep
<1> DEFINE v == Victim(db, p)
<1>1. ids \in Nat /\ pinIds \in Nat
  BY Numbers
<1>2. CASE v = None
  BY <1>2, SameStore DEF EvictOneUnprotected
<1>3. CASE v # None
  <2>1. db' = DeleteFrameCascade(db, v)
    BY <1>3 DEF EvictOneUnprotected
  <2>2. /\ v \in FramesOf(db, p) /\ ~db.frames[v].protected
        /\ \A f \in FramesOf(db, p) : f < v => db.frames[f].protected
    BY <1>1, <1>3, VictimFacts
  <2> HIDE DEF v
  <2>3. /\ StoreOK(db', ids, pinIds)
        /\ db'.frames = Restrict(db.frames, DOMAIN db.frames \ {v})
        /\ db'.pins = Restrict(db.pins, DOMAIN db.pins \ PinsOf(db, v))
        /\ KeptOf(db') = KeptWithout(db, v)
    BY ONLY <1>1, <2>1, StoreOK(db, ids, pinIds), CascadeFacts
  <2>4. Memory!IsVictim(v, p) /\ v \in Memory!Ids
    <3>1. v \in 1..ids
      BY <2>2 DEF FramesOf, StoreOK, IsTable
    <3> QED
      BY <2>2, <3>1, Numbers, MemoryIs DEF Memory!IsVictim
  <2>5. Memory!Evict(p)
    BY <2>3, <2>4, KeptIs, MemoryIs DEF Memory!Evict
  <2>6. PinsKept
    <3>1. \A q \in DOMAIN db'.pins : q \notin PinsOf(db, v)
      BY <2>3 DEF Restrict
    <3>2. DOMAIN db.frames \ DOMAIN db'.frames \subseteq {v}
      BY <2>3 DEF Restrict
    <3> QED
      BY <3>1, <3>2 DEF PinsKept, PinsOf
  <2> QED
    BY <2>3, <2>5, <2>6 DEF StoreStep, Memory!Next
<1> QED
  BY <1>2, <1>3

(* Protecting a frame is a step of the abstract store.                     *)
LEMMA ProtectStep ==
  ASSUME NumbersOK, StoreOK(db, ids, pinIds), NEW f, NEW flag \in BOOLEAN,
         db' = SetProtected(db, f, flag)
  PROVE  StoreOK(db', ids, pinIds) /\ StoreStep
<1>1. CASE f \notin DOMAIN db.frames
  BY <1>1, SameStore DEF SetProtected
<1>2. CASE f \in DOMAIN db.frames
  <2> DEFINE fs == [db.frames EXCEPT ![f].protected = flag]
  <2>1. db' = [db EXCEPT !.frames[f].protected = flag]
    BY <1>2 DEF SetProtected
  <2>2. db' = [frames |-> fs, pins |-> db.pins]
    BY <2>1 DEF StoreOK
  <2>3. IsTable(fs, ids, FrameRecords)
    BY <1>2 DEF StoreOK, IsTable, FrameRecords
  <2>4. DOMAIN fs = DOMAIN db.frames
    OBVIOUS
  <2>5. f \in Memory!Ids
    BY <1>2, Numbers DEF StoreOK, IsTable
  <2>6. db'.frames = fs /\ db'.pins = db.pins
    BY <2>2
  <2>7. Memory!SetProtected(f, flag)
    <3>1. Kept' = Kept
      BY <2>4, <2>6 DEF Kept
    <3> QED
      BY <1>2, <2>6, <3>1 DEF Memory!SetProtected
  <2> HIDE DEF fs
  <2>8. StoreOK(db', ids, pinIds)
    BY <2>2, <2>3 DEF StoreOK
  <2>9. PinsKept
    BY <2>4, <2>6 DEF PinsKept
  <2>10. flag = TRUE \/ flag = FALSE
    OBVIOUS
  <2> QED
    BY <2>5, <2>7, <2>8, <2>9, <2>10 DEF StoreStep, Memory!Next
<1> QED
  BY <1>1, <1>2

(* Clearing a profile is one.                                              *)
LEMMA ClearStep ==
  ASSUME NumbersOK, StoreOK(db, ids, pinIds), NEW p \in Profiles,
         db' = ClearProfile(db, p)
  PROVE  StoreOK(db', ids, pinIds) /\ StoreStep
<1> DEFINE F == {f \in DOMAIN db.frames : db.frames[f].profile # p}
           P == {q \in DOMAIN db.pins : db.pins[q].profile # p}
<1>1. db' = [frames |-> Restrict(db.frames, F), pins |-> Restrict(db.pins, P)]
  BY DEF ClearProfile
<1>2. db'.frames = Restrict(db.frames, F) /\ db'.pins = Restrict(db.pins, P)
  BY <1>1
<1>3. ids \in Nat /\ pinIds \in Nat /\ F \in SUBSET DOMAIN db.frames /\ P \in SUBSET DOMAIN db.pins
  BY Numbers
<1>4. /\ IsTable(Restrict(db.frames, F), ids, FrameRecords)
      /\ IsTable(Restrict(db.pins, P), pinIds, PinRecords(ids))
  BY <1>3, TableFacts DEF StoreOK
<1>5. StoreOK(db', ids, pinIds)
  BY <1>1, <1>2, <1>4 DEF StoreOK
<1>6. F = DOMAIN db.frames \ Memory!Of(p) /\ DOMAIN db'.frames = F
  BY <1>2, MemoryIs DEF FramesOf, Restrict
<1>7. Memory!ClearProfile(p)
  <2> DEFINE K == {q \in DOMAIN Kept : Kept[q].profile # p /\ Kept[q].frame \notin Memory!Of(p)}
             L == {q \in DOMAIN db'.pins : db'.pins[q].frame \in DOMAIN db'.frames}
  <2>1. /\ DOMAIN Kept = {q \in DOMAIN db.pins : db.pins[q].frame \in DOMAIN db.frames}
        /\ \A q \in DOMAIN Kept : Kept[q] = db.pins[q]
    BY DEF Kept, Restrict
  <2>2. DOMAIN db'.pins = P /\ \A q \in P : db'.pins[q] = db.pins[q]
    BY <1>2 DEF Restrict
  <2>3. K = L
    BY <1>6, <2>1, <2>2
  <2>4. \A q \in K : Kept[q] = db'.pins[q]
    BY <2>1, <2>2, <2>3
  <2> HIDE DEF K
  <2>5. Kept' = [q \in L |-> db'.pins[q]] /\ Restrict(Kept, K) = [q \in K |-> Kept[q]]
    BY DEF Kept, Restrict
  <2> HIDE DEF L
  <2>6. Kept' = Restrict(Kept, K)
    BY <2>3, <2>4, <2>5
  <2> QED
    BY <1>2, <1>6, <2>6, MemoryIs DEF Memory!ClearProfile, K
<1>8. PinsKept
  <2>1. ASSUME NEW f \in DOMAIN db.frames \ DOMAIN db'.frames
        PROVE  db.frames[f].profile = p
    BY <1>6
  <2>2. FramesOf(db', p) = {}
    BY <1>2, <1>6 DEF FramesOf, Restrict
  <2>3. \A q \in DOMAIN db'.pins : db.pins[q].profile # p
    BY <1>2 DEF Restrict
  <2> QED
    BY <2>1, <2>2, <2>3 DEF PinsKept
<1> QED
  BY <1>5, <1>7, <1>8 DEF StoreStep, Memory!Next

(* A pin is stored.  On a frame that is gone it is none the store in       *)
(* memory would have.                                                      *)
LEMMA PutPinStep ==
  ASSUME NumbersOK, pinIds < MaxPins, StoreOK(db, ids, pinIds),
         NEW f \in 1..ids, NEW p \in Profiles, db' = PutPin(db, pinIds + 1, f, p)
  PROVE  StoreOK(db', ids, pinIds + 1) /\ StoreStep
<1> DEFINE q   == pinIds + 1
           new == [frame |-> f, profile |-> p, edited |-> FALSE]
<1>1. /\ ids \in Nat /\ pinIds \in Nat /\ q \in Nat /\ q \in 1..q /\ q \notin 1..pinIds
      /\ q \in Memory!Ids /\ f \in Memory!Ids /\ new \in PinRecords(ids)
  BY Numbers DEF NumbersOK, PinRecords
<1>2. db' = [frames |-> db.frames, pins |-> Stored(db.pins, q, new)]
  BY DEF PutPin, StoreOK
<1>3. db'.frames = db.frames /\ db'.pins = Stored(db.pins, q, new)
  BY <1>2
<1>4. IsTable(Stored(db.pins, q, new), q, PinRecords(ids))
  BY <1>1, TableFacts DEF StoreOK
<1>5. StoreOK(db', ids, q)
  BY <1>2, <1>3, <1>4 DEF StoreOK
<1>6. q \notin DOMAIN db.pins
  BY <1>1 DEF StoreOK, IsTable
<1>7. /\ DOMAIN db'.pins = DOMAIN db.pins \cup {q} /\ db'.pins[q] = new
      /\ \A r \in DOMAIN db.pins : db'.pins[r] = db.pins[r]
  BY <1>3, <1>6 DEF Stored
<1>8. PinsKept
  BY <1>3 DEF PinsKept
<1> DEFINE K == {r \in DOMAIN db.pins : db.pins[r].frame \in DOMAIN db.frames}
           L == {r \in DOMAIN db'.pins : db'.pins[r].frame \in DOMAIN db'.frames}
<1>9. Kept = [r \in K |-> db.pins[r]] /\ Kept' = [r \in L |-> db'.pins[r]]
  BY DEF Kept, Restrict
<1>10. CASE f \in DOMAIN db.frames
  <2>1. L = K \cup {q}
    BY <1>3, <1>6, <1>7, <1>10
  <2>2. q \notin DOMAIN Kept
    BY <1>6, <1>9
  <2>3. [r \in L |-> db'.pins[r]] = [r \in K \cup {q} |-> IF r = q THEN new ELSE db.pins[r]]
    BY <1>6, <1>7, <2>1
  <2>4. Stored(Kept, q, new) = [r \in K \cup {q} |-> IF r = q THEN new ELSE db.pins[r]]
    BY <1>9 DEF Stored
  <2> HIDE DEF K, L, new, q
  <2>5. Kept' = Memory!Stored(Kept, q, new)
    BY <1>9, <2>3, <2>4, MemoryIs
  <2>6. Memory!PutPin(q, f, p)
    BY <1>3, <1>10, <2>2, <2>5 DEF Memory!PutPin, new
  <2> QED
    BY <1>1, <1>5, <1>8, <2>6 DEF StoreStep, Memory!Next, q
<1>11. CASE f \notin DOMAIN db.frames
  <2>1. L = K
    BY <1>3, <1>6, <1>7, <1>11
  <2>2. [r \in L |-> db'.pins[r]] = [r \in K |-> db.pins[r]]
    BY <1>7, <2>1
  <2> HIDE DEF K, L
  <2>3. Kept' = Kept
    BY <1>9, <2>2
  <2> QED
    BY <1>3, <1>5, <1>8, <2>3 DEF StoreStep, Memory!vars
<1> QED
  BY <1>10, <1>11

(* Changing a pin is one.                                                  *)
LEMMA UpdatePinStep ==
  ASSUME NumbersOK, StoreOK(db, ids, pinIds), NEW q, db' = UpdatePin(db, q)
  PROVE  StoreOK(db', ids, pinIds) /\ StoreStep
<1>1. CASE ~(q \in DOMAIN db.pins /\ db.pins[q].frame \in DOMAIN db.frames)
  BY <1>1, SameStore DEF UpdatePin
<1>2. CASE q \in DOMAIN db.pins /\ db.pins[q].frame \in DOMAIN db.frames
  <2> DEFINE ps == [db.pins EXCEPT ![q].edited = TRUE]
  <2>1. db' = [db EXCEPT !.pins[q].edited = TRUE]
    BY <1>2 DEF UpdatePin
  <2>2. db' = [frames |-> db.frames, pins |-> ps]
    BY <2>1 DEF StoreOK
  <2>3. IsTable(ps, pinIds, PinRecords(ids))
    BY <1>2 DEF StoreOK, IsTable, PinRecords
  <2>4. /\ DOMAIN ps = DOMAIN db.pins
        /\ \A r \in DOMAIN ps : r # q => ps[r] = db.pins[r]
    OBVIOUS
  <2>5. ps[q] = [db.pins[q] EXCEPT !.edited = TRUE]
    BY <1>2
  <2>6. db.pins[q] \in PinRecords(ids) /\ q \in 1..pinIds
    BY <1>2 DEF StoreOK, IsTable
  <2>7. ps[q].frame = db.pins[q].frame
    BY <2>5, <2>6 DEF PinRecords
  <2>8. \A r \in DOMAIN ps : ps[r].frame = db.pins[r].frame
    BY <2>4, <2>7
  <2>9. q \in Memory!Ids
    BY <2>6, Numbers
  <2>10. db'.frames = db.frames /\ db'.pins = ps
    BY <2>2
  <2> HIDE DEF ps
  <2>11. StoreOK(db', ids, pinIds)
    BY <2>2, <2>3 DEF StoreOK
  <2>12. PinsKept
    BY <2>10 DEF PinsKept
  <2>13. Memory!UpdatePin(q)
    <3> DEFINE K == {r \in DOMAIN db.pins : db.pins[r].frame \in DOMAIN db.frames}
               L == {r \in DOMAIN db'.pins : db'.pins[r].frame \in DOMAIN db'.frames}
    <3>1. Kept = [r \in K |-> db.pins[r]] /\ Kept' = [r \in L |-> db'.pins[r]]
      BY DEF Kept, Restrict
    <3>2. K = L /\ q \in K
      BY <1>2, <2>4, <2>8, <2>10
    <3> HIDE DEF K, L
    <3>3. q \in DOMAIN Kept /\ Kept[q] = db.pins[q]
      BY <3>1, <3>2
    <3>4. \A r \in K : db'.pins[r] = IF r = q THEN [db.pins[q] EXCEPT !.edited = TRUE]
                                     ELSE db.pins[r]
      <4>1. K \subseteq DOMAIN ps
        BY <2>4 DEF K
      <4> QED
        BY <2>4, <2>5, <2>10, <4>1
    <3>5. Kept' = [r \in K |-> IF r = q THEN [db.pins[q] EXCEPT !.edited = TRUE] ELSE db.pins[r]]
      BY <3>1, <3>2, <3>4
    <3>6. [Kept EXCEPT ![q].edited = TRUE]
            = [r \in K |-> IF r = q THEN [db.pins[q] EXCEPT !.edited = TRUE] ELSE db.pins[r]]
      BY <3>1, <3>2, <3>3
    <3>7. Kept' = [Kept EXCEPT ![q].edited = TRUE]
      BY <3>5, <3>6
    <3> QED
      BY <1>2, <2>10, <3>3, <3>7 DEF Memory!UpdatePin
  <2> QED
    BY <2>9, <2>11, <2>12, <2>13 DEF StoreStep, Memory!Next
<1> QED
  BY <1>1, <1>2

(* Deleting a pin is one.                                                  *)
LEMMA DeletePinStep ==
  ASSUME NumbersOK, StoreOK(db, ids, pinIds), NEW q, db' = DeletePin(db, q)
  PROVE  StoreOK(db', ids, pinIds) /\ StoreStep
<1> DEFINE D == DOMAIN db.pins \ {q}
           ps == Restrict(db.pins, D)
<1>1. db' = [frames |-> db.frames, pins |-> ps]
  BY DEF DeletePin, StoreOK
<1>2. db'.frames = db.frames /\ db'.pins = ps
  BY <1>1
<1>3. IsTable(ps, pinIds, PinRecords(ids))
  <2>1. pinIds \in Nat /\ D \in SUBSET DOMAIN db.pins
    BY Numbers
  <2> QED
    BY <2>1, TableFacts DEF StoreOK
<1>4. DOMAIN ps = D /\ \A r \in D : ps[r] = db.pins[r]
  BY DEF Restrict
<1> HIDE DEF ps
<1>5. StoreOK(db', ids, pinIds)
  BY <1>1, <1>3 DEF StoreOK
<1>6. PinsKept
  BY <1>2 DEF PinsKept
<1> DEFINE K == {r \in DOMAIN db.pins : db.pins[r].frame \in DOMAIN db.frames}
           L == {r \in DOMAIN db'.pins : db'.pins[r].frame \in DOMAIN db'.frames}
<1>7. Kept = [r \in K |-> db.pins[r]] /\ Kept' = [r \in L |-> db'.pins[r]]
  BY DEF Kept, Restrict
<1>8. L = K \ {q}
  BY <1>2, <1>4
<1>9. Kept' = [r \in K \ {q} |-> db.pins[r]]
  BY <1>2, <1>4, <1>7, <1>8
<1>10. CASE q \in K
  <2>1. q \in Memory!Ids
    BY <1>10, Numbers DEF StoreOK, IsTable
  <2> HIDE DEF K, L
  <2>2. Memory!DeletePin(q)
    <3>1. q \in DOMAIN Kept /\ DOMAIN Kept = K
      BY <1>7, <1>10
    <3>2. Restrict(Kept, K \ {q}) = [r \in K \ {q} |-> db.pins[r]]
      BY <1>7 DEF Restrict
    <3>3. Kept' = Memory!Restrict(Kept, DOMAIN Kept \ {q})
      BY <1>9, <3>1, <3>2, MemoryIs
    <3> QED
      BY <1>2, <3>1, <3>3 DEF Memory!DeletePin
  <2> QED
    BY <1>5, <1>6, <2>1, <2>2 DEF StoreStep, Memory!Next
<1>11. CASE q \notin K
  <2>1. K \ {q} = K
    BY <1>11
  <2> HIDE DEF K, L
  <2>2. Kept' = Kept
    BY <1>7, <1>9, <2>1
  <2> QED
    BY <1>2, <1>5, <1>6, <2>2 DEF StoreStep, Memory!vars
<1> QED
  BY <1>10, <1>11

-----------------------------------------------------------------------------
(* The inductive invariant.                                                *)
FrameIds(n) == (1..n) \cup {None}

(* What waits in the queue names frames that were stored.                  *)
Requests(n) ==
       [op : {"put", "evict"}, by : {"burst", "user"}, again : BOOLEAN, profile : Profiles]
  \cup [op : {"load", "pins"}, frame : 1..n]
  \cup [op : {"protect"}, frame : 1..n, flag : BOOLEAN]
  \cup [op : {"clear", "list"}, profile : Profiles]
  \cup [op : {"check", "putPin"}, frame : 1..n, profile : Profiles]
  \cup [op : {"updatePin", "deletePin"}, pin : 1..MaxPins, frame : 1..n]

Detectors ==
  [auto : BOOLEAN, armed : BOOLEAN, rows : 0..MinRows, settle : BOOLEAN,
   retry : BOOLEAN, capturing : BOOLEAN, recent : BOOLEAN]

UiOK(ui, n) ==
  /\ ui \in [frozen : FrameIds(n), live : BOOLEAN, frame : FrameIds(n),
             pins : SUBSET (1..MaxPins)]
  /\ ui.live \/ ui.frozen # None

LastOK(l, n) == l \in [Tabs -> FrameIds(n)]

ViewOK(q, ui, l, t, n) ==
  q \in Seq(Requests(n)) /\ UiOK(ui, n) /\ LastOK(l, n) /\ t \in Tabs

DetectorOK ==
  /\ det \in Detectors /\ bufArmed \in BOOLEAN /\ missed \in BOOLEAN
  /\ det.armed => det.auto
  /\ ArmedHasTimer

TypeOK ==
  /\ NumbersOK /\ StoreOK(db, ids, pinIds)
  /\ ViewOK(queue, shown, last, tab, ids)
  /\ hasty \in BOOLEAN

(* The last load that waits is of the frame to show; if none waits, it is  *)
(* on show.                                                                *)
IsLoad(q, i) == i \in DOMAIN q /\ q[i].op = "load"

Shows(q, ui, l, t) ==
  /\ \A i \in DOMAIN q :
       IsLoad(q, i) => \/ q[i].frame = Display(ui, l, t)
                       \/ \E j \in DOMAIN q : j > i /\ IsLoad(q, j)
  /\ (\E i \in DOMAIN q : IsLoad(q, i)) \/ ui.frame \in {Display(ui, l, t), None}

(* What a user asked who waits for the store is at its head.               *)
InTurn(q, ui, l, t) ==
  \A i \in DOMAIN q :
    /\ q[i].op \in {"clear", "protect"} => i = 1
    /\ q[i].op = "clear" => \A j \in DOMAIN q : ~IsLoad(q, j)
    /\ q[i].op = "protect" => q[i].frame = Display(ui, l, t)

Settling == ~hasty => Shows(queue, shown, last, tab) /\ InTurn(queue, shown, last, tab)

IInv == TypeOK /\ DetectorOK /\ Settling

-----------------------------------------------------------------------------
(* What a request says, by its kind.                                       *)
LEMMA RequestFacts ==
  ASSUME NEW n \in Nat, NEW r \in Requests(n)
  PROVE  /\ r.op \in {"put", "evict"} =>
              /\ r = [op |-> r.op, by |-> r.by, again |-> r.again, profile |-> r.profile]
              /\ r.by \in {"burst", "user"} /\ r.again \in BOOLEAN /\ r.profile \in Profiles
         /\ r.op \in {"load", "pins"} => r.frame \in 1..n
         /\ r.op = "protect" => r.frame \in 1..n /\ r.flag \in BOOLEAN
         /\ r.op \in {"clear", "list"} => r.profile \in Profiles
         /\ r.op \in {"check", "putPin"} =>
              /\ r = [op |-> r.op, frame |-> r.frame, profile |-> r.profile]
              /\ r.frame \in 1..n /\ r.profile \in Profiles
         /\ r.op \in {"updatePin", "deletePin"} => r.frame \in 1..n /\ r.pin \in 1..MaxPins
<1>1. CASE r \in [op : {"put", "evict"}, by : {"burst", "user"}, again : BOOLEAN,
                  profile : Profiles]
  BY <1>1
<1>2. CASE r \in [op : {"load", "pins"}, frame : 1..n]
  BY <1>2
<1>3. CASE r \in [op : {"protect"}, frame : 1..n, flag : BOOLEAN]
  BY <1>3
<1>4. CASE r \in [op : {"clear", "list"}, profile : Profiles]
  BY <1>4
<1>5. CASE r \in [op : {"check", "putPin"}, frame : 1..n, profile : Profiles]
  BY <1>5
<1>6. CASE r \in [op : {"updatePin", "deletePin"}, pin : 1..MaxPins, frame : 1..n]
  BY <1>6
<1> QED
  BY <1>1, <1>2, <1>3, <1>4, <1>5, <1>6 DEF Requests

(* A frame more makes no request wrong.                                    *)
LEMMA MoreFrames ==
  ASSUME NEW n \in Nat
  PROVE  /\ 1..n \subseteq 1..(n + 1) /\ Requests(n) \subseteq Requests(n + 1)
         /\ \A q \in Seq(Requests(n)) : q \in Seq(Requests(n + 1))
         /\ \A ui : UiOK(ui, n) => UiOK(ui, n + 1)
         /\ \A l : LastOK(l, n) => LastOK(l, n + 1)
<1>1. 1..n \subseteq 1..(n + 1) /\ FrameIds(n) \subseteq FrameIds(n + 1)
  BY DEF FrameIds
<1>2. Requests(n) \subseteq Requests(n + 1)
  BY <1>1 DEF Requests
<1>3. \A q \in Seq(Requests(n)) : q \in Seq(Requests(n + 1))
  BY <1>2
<1>4. \A ui : UiOK(ui, n) => UiOK(ui, n + 1)
  BY <1>1 DEF UiOK
<1>5. \A l : LastOK(l, n) => LastOK(l, n + 1)
  BY <1>1 DEF LastOK
<1> QED
  BY <1>1, <1>2, <1>3, <1>4, <1>5

(* What is displayed is a frame, and never none when the view is not live. *)
LEMMA DisplayFacts ==
  ASSUME NEW n, NEW ui, UiOK(ui, n), NEW l, LastOK(l, n), NEW t \in Tabs
  PROVE  Display(ui, l, t) \in FrameIds(n) /\ (~ui.live => Display(ui, l, t) # None)
BY DEF Display, UiOK, LastOK

(* What a display has loaded is a sequence of requests.                    *)
LEMMA LoadsFacts ==
  ASSUME NEW n \in Nat, NEW id \in FrameIds(n)
  PROVE  Loads(id) \in Seq(Requests(n))
<1>1. CASE id = None
  <2>1. <<>> \in Seq(Requests(n))
    OBVIOUS
  <2> QED
    BY <1>1, <2>1 DEF Loads
<1>2. CASE id # None
  <2>1. [op |-> "load", frame |-> id] \in Requests(n)
    BY <1>2 DEF Requests, FrameIds
  <2> QED
    BY <1>2, <2>1 DEF Loads
<1> QED
  BY <1>1, <1>2

(* What a handler leaves behind is well-formed if what it set is.          *)
LEMMA RenderOK ==
  ASSUME NEW n \in Nat, NEW ui, NEW l, NEW t, NEW asked, NEW again,
         ViewOK(asked, ui, l, t, n), Render(ui, l, t, asked, again)
  PROVE  ViewOK(queue', shown', last', tab', n)
<1> DEFINE id == Display(ui, l, t)
           effect == again \/ id # Display(shown, last, tab)
<1>1. id \in FrameIds(n) /\ Loads(id) \in Seq(Requests(n))
  BY DisplayFacts, LoadsFacts DEF ViewOK
<1>2. queue' = asked \o (IF effect THEN Loads(id) ELSE <<>>)
  BY DEF Render
<1>3. asked \in Seq(Requests(n))
  BY DEF ViewOK
<1> HIDE DEF id
<1>4. queue' \in Seq(Requests(n))
  <2>1. CASE effect
    BY <1>1, <1>2, <1>3, <2>1
  <2>2. CASE ~effect
    BY <1>2, <1>3, <2>2
  <2> QED
    BY <2>1, <2>2
<1>5. UiOK([ui EXCEPT !.frame = None, !.pins = {}], n)
  BY DEF ViewOK, UiOK, FrameIds
<1>6. shown' = [ui EXCEPT !.frame = None, !.pins = {}] \/ shown' = ui
  BY DEF Render
<1>7. UiOK(shown', n)
  BY <1>5, <1>6 DEF ViewOK
<1> QED
  BY <1>4, <1>7 DEF Render, ViewOK

-----------------------------------------------------------------------------
(* What waits after a handler.                                             *)
LEMMA TailShows ==
  ASSUME NEW q, NEW n, q \in Seq(Requests(n)), q # <<>>, NEW ui, NEW l, NEW t,
         Shows(q, ui, l, t), ~IsLoad(q, 1)
  PROVE  Shows(Tail(q), ui, l, t)
<1>1. /\ Len(q) \in Nat /\ DOMAIN q = 1..Len(q) /\ DOMAIN Tail(q) = 1..(Len(q) - 1)
      /\ \A i \in DOMAIN Tail(q) : Tail(q)[i] = q[i + 1]
  OBVIOUS
<1>2. \A i \in DOMAIN Tail(q) : i + 1 \in DOMAIN q /\ (IsLoad(Tail(q), i) <=> IsLoad(q, i + 1))
  BY <1>1 DEF IsLoad
<1>3. \A j \in DOMAIN q : IsLoad(q, j) => j - 1 \in DOMAIN Tail(q) /\ IsLoad(Tail(q), j - 1)
  BY <1>1 DEF IsLoad
<1>4. ASSUME NEW i \in DOMAIN Tail(q), IsLoad(Tail(q), i)
      PROVE  \/ Tail(q)[i].frame = Display(ui, l, t)
             \/ \E j \in DOMAIN Tail(q) : j > i /\ IsLoad(Tail(q), j)
  <2>1. i + 1 \in DOMAIN q /\ IsLoad(q, i + 1) /\ Tail(q)[i].frame = q[i + 1].frame
    BY <1>1, <1>2, <1>4
  <2>2. CASE q[i + 1].frame = Display(ui, l, t)
    BY <2>1, <2>2
  <2>3. ASSUME NEW j \in DOMAIN q, j > i + 1, IsLoad(q, j)
        PROVE  \E k \in DOMAIN Tail(q) : k > i /\ IsLoad(Tail(q), k)
    <3>1. j - 1 \in DOMAIN Tail(q) /\ IsLoad(Tail(q), j - 1)
      BY <1>3, <2>3
    <3>2. j - 1 > i
      BY <1>1, <2>3
    <3> QED
      BY <3>1, <3>2
  <2> QED
    BY <2>1, <2>2, <2>3 DEF Shows
<1>5. (\E i \in DOMAIN q : IsLoad(q, i)) => \E i \in DOMAIN Tail(q) : IsLoad(Tail(q), i)
  BY <1>3
<1> QED
  BY <1>4, <1>5 DEF Shows

(* Behind the first call no clear and no protection waits.                 *)
LEMMA TailInTurn ==
  ASSUME NEW q, NEW n, q \in Seq(Requests(n)), q # <<>>, NEW ui, NEW l, NEW t,
         InTurn(q, ui, l, t)
  PROVE  \A i \in DOMAIN Tail(q) : Tail(q)[i].op \notin {"clear", "protect"}
<1>1. /\ Len(q) \in Nat /\ DOMAIN q = 1..Len(q) /\ DOMAIN Tail(q) = 1..(Len(q) - 1)
      /\ \A i \in DOMAIN Tail(q) : Tail(q)[i] = q[i + 1]
  OBVIOUS
<1>2. ASSUME NEW i \in DOMAIN Tail(q) PROVE Tail(q)[i].op \notin {"clear", "protect"}
  <2>1. i + 1 \in DOMAIN q /\ i + 1 # 1 /\ Tail(q)[i] = q[i + 1]
    BY <1>1
  <2> QED
    BY <2>1 DEF InTurn
<1> QED
  BY <1>2

(* A new call at the end keeps what is shown to what is asked.             *)
LEMMA AppendShows ==
  ASSUME NEW q, NEW n, q \in Seq(Requests(n)), NEW r \in Requests(n), r.op # "load",
         NEW ui, NEW l, NEW t, Shows(q, ui, l, t)
  PROVE  Shows(Append(q, r), ui, l, t)
<1> DEFINE a == Append(q, r)
<1>1. /\ Len(q) \in Nat /\ DOMAIN q = 1..Len(q) /\ DOMAIN a = 1..(Len(q) + 1)
      /\ a[Len(q) + 1] = r /\ \A i \in DOMAIN q : a[i] = q[i]
  OBVIOUS
<1> HIDE DEF a
<1>2. \A i : IsLoad(a, i) <=> IsLoad(q, i)
  BY <1>1 DEF IsLoad
<1>3. \A i : IsLoad(a, i) => i \in DOMAIN q /\ i \in DOMAIN a /\ a[i] = q[i]
  BY <1>1, <1>2 DEF IsLoad
<1>4. Shows(a, ui, l, t)
  BY <1>2, <1>3 DEF Shows
<1> QED
  BY <1>4 DEF a

(* Behind a load of the frame on display, what is asked is shown.          *)
LEMMA LoadShows ==
  ASSUME NEW q, NEW n, q \in Seq(Requests(n)), NEW ui, NEW l, NEW t,
         Display(ui, l, t) # None
  PROVE  Shows(q \o Loads(Display(ui, l, t)), ui, l, t)
<1> DEFINE r == [op |-> "load", frame |-> Display(ui, l, t)]
           a == q \o <<r>>
<1>1. Loads(Display(ui, l, t)) = <<r>>
  BY DEF Loads
<1>2. r.op = "load" /\ r.frame = Display(ui, l, t)
  OBVIOUS
<1>3. q \o <<r>> = Append(q, r)
  OBVIOUS
<1> HIDE DEF r
<1>4. /\ Len(q) \in Nat /\ DOMAIN a = 1..(Len(q) + 1) /\ a[Len(q) + 1] = r
  BY <1>3
<1> HIDE DEF a
<1>5. Len(q) + 1 \in DOMAIN a /\ IsLoad(a, Len(q) + 1)
  BY <1>2, <1>4 DEF IsLoad
<1>6. \A i \in DOMAIN a : i = Len(q) + 1 \/ Len(q) + 1 > i
  BY <1>4
<1>7. Shows(a, ui, l, t)
  BY <1>2, <1>4, <1>5, <1>6 DEF Shows
<1> QED
  BY <1>1, <1>7 DEF a

(* No request of the kind that has to be at the head.                      *)
Plain(q) == \A i \in DOMAIN q : q[i].op \notin {"clear", "protect"}

(* Calls without a clear or a protection are in turn, and stay so.         *)
LEMMA PlainFacts ==
  ASSUME NEW q, NEW n, q \in Seq(Requests(n)), Plain(q)
  PROVE  /\ \A ui, l, t : InTurn(q, ui, l, t)
         /\ \A r \in Requests(n) : r.op \notin {"clear", "protect"} => Plain(Append(q, r))
         /\ \A id : Plain(q \o Loads(id))
<1>1. \A ui, l, t : InTurn(q, ui, l, t)
  BY DEF Plain, InTurn
<1>2. ASSUME NEW r, r.op \notin {"clear", "protect"} PROVE Plain(Append(q, r))
  <2>1. /\ Len(q) \in Nat /\ DOMAIN q = 1..Len(q)
        /\ DOMAIN Append(q, r) = 1..(Len(q) + 1)
        /\ \A i \in DOMAIN Append(q, r) : Append(q, r)[i] = r \/ (i \in DOMAIN q /\ Append(q, r)[i] = q[i])
    OBVIOUS
  <2> QED
    BY <1>2, <2>1 DEF Plain
<1>3. ASSUME NEW id PROVE Plain(q \o Loads(id))
  <2>1. CASE id = None
    <3>1. q \o <<>> = q
      OBVIOUS
    <3> QED
      BY <2>1, <3>1 DEF Loads
  <2>2. CASE id # None
    <3> DEFINE r == [op |-> "load", frame |-> id]
    <3>1. q \o <<r>> = Append(q, r) /\ r.op \notin {"clear", "protect"}
      OBVIOUS
    <3> QED
      BY <1>2, <2>2, <3>1 DEF Loads
  <2> QED
    BY <2>1, <2>2
<1> QED
  BY <1>1, <1>2, <1>3

(* A render, with the load it may start, shows what is asked.              *)
LEMMA RenderShows ==
  ASSUME NEW n \in Nat, NEW ui, NEW l, NEW t, NEW asked, NEW again,
         ViewOK(asked, ui, l, t, n), Render(ui, l, t, asked, again), Plain(asked),
         IF again \/ Display(ui, l, t) # Display(shown, last, tab)
         THEN Display(ui, l, t) # None \/ \A i \in DOMAIN asked : ~IsLoad(asked, i)
         ELSE Shows(asked, ui, l, t)
  PROVE  Shows(queue', shown', last', tab') /\ InTurn(queue', shown', last', tab')
<1> DEFINE id == Display(ui, l, t)
           effect == again \/ id # Display(shown, last, tab)
<1>1. /\ queue' = asked \o (IF effect THEN Loads(id) ELSE <<>>)
      /\ last' = l /\ tab' = t
      /\ shown' = IF effect /\ id = None THEN [ui EXCEPT !.frame = None, !.pins = {}] ELSE ui
  BY DEF Render
<1>2. asked \in Seq(Requests(n)) /\ asked \o <<>> = asked
  BY DEF ViewOK
<1>3. CASE effect /\ id # None
  <2>1. shown' = ui /\ queue' = asked \o Loads(id)
    BY <1>1, <1>3
  <2>2. Shows(asked \o Loads(id), ui, l, t)
    BY <1>2, <1>3, LoadShows
  <2>3. InTurn(queue', ui, l, t)
    <3>1. queue' \in Seq(Requests(n))
      BY RenderOK DEF ViewOK
    <3>2. Plain(queue')
      BY <1>2, <2>1, PlainFacts
    <3> QED
      BY <3>1, <3>2, PlainFacts
  <2> QED
    BY <1>1, <2>1, <2>2, <2>3
<1>4. CASE effect /\ id = None
  <2>1. queue' = asked
    BY <1>1, <1>2, <1>4 DEF Loads
  <2>2. \A i \in DOMAIN asked : ~IsLoad(asked, i)
    BY <1>4
  <2>3. shown'.frame = None
    BY <1>1, <1>4 DEF ViewOK, UiOK
  <2>4. Shows(asked, shown', last', tab')
    BY <2>2, <2>3 DEF Shows
  <2> QED
    BY <1>2, <2>1, <2>4, PlainFacts
<1>5. CASE ~effect
  <2>1. queue' = asked /\ shown' = ui
    BY <1>1, <1>2, <1>5
  <2>2. Shows(asked, ui, l, t)
    BY <1>5
  <2> QED
    BY <1>1, <1>2, <2>1, <2>2, PlainFacts
<1> QED
  BY <1>3, <1>4, <1>5

(* The head of the queue is done and something else may be asked for.      *)
LEMMA RestFacts ==
  ASSUME NEW n \in Nat, queue \in Seq(Requests(n)), queue # <<>>
  PROVE  /\ Head(queue) \in Requests(n) /\ Tail(queue) \in Seq(Requests(n))
         /\ Head(queue) = queue[1] /\ 1 \in DOMAIN queue
         /\ Settling /\ ~hasty => Plain(Tail(queue))
         /\ Settling /\ ~hasty /\ Head(queue).op # "load" => Shows(Tail(queue), shown, last, tab)
<1>1. /\ Head(queue) \in Requests(n) /\ Tail(queue) \in Seq(Requests(n))
      /\ Head(queue) = queue[1] /\ 1 \in DOMAIN queue
  OBVIOUS
<1>2. Settling /\ ~hasty => Plain(Tail(queue))
  BY TailInTurn DEF Settling, Plain
<1>3. Settling /\ ~hasty /\ Head(queue).op # "load" => Shows(Tail(queue), shown, last, tab)
  BY <1>1, TailShows DEF Settling, IsLoad
<1> QED
  BY <1>1, <1>2, <1>3

(* A transaction without a sight of the map: the rest of the queue stays,  *)
(* and one request may follow.                                             *)
LEMMA IdleRest ==
  ASSUME NEW n \in Nat, NEW asked, ViewOK(queue, shown, last, tab, n), queue # <<>>,
         Head(queue).op # "load", Settling,
         asked = Tail(queue) \/
           \E r \in Requests(n) : /\ r.op \notin {"load", "clear", "protect"}
                                  /\ asked = Append(Tail(queue), r),
         Idle(shown, asked), hasty' = hasty
  PROVE  ViewOK(queue', shown', last', tab', n) /\ Settling'
<1>1. queue \in Seq(Requests(n))
  BY DEF ViewOK
<1>2. Tail(queue) \in Seq(Requests(n))
  BY <1>1, RestFacts
<1>3. asked \in Seq(Requests(n))
  BY <1>2
<1>4. ViewOK(asked, shown, last, tab, n)
  BY <1>3 DEF ViewOK
<1>5. Render(shown, last, tab, asked, FALSE)
  BY DEF Idle
<1>6. ViewOK(queue', shown', last', tab', n)
  BY <1>4, <1>5, RenderOK
<1>7. ASSUME ~hasty' PROVE Shows(queue', shown', last', tab') /\ InTurn(queue', shown', last', tab')
  <2>1. Plain(Tail(queue)) /\ Shows(Tail(queue), shown, last, tab)
    BY <1>1, <1>7, RestFacts
  <2>2. Plain(asked) /\ Shows(asked, shown, last, tab)
    BY <1>2, <2>1, PlainFacts, AppendShows
  <2> QED
    BY <1>4, <1>5, <2>2, RenderShows
<1> QED
  BY <1>6, <1>7 DEF Settling

-----------------------------------------------------------------------------
(* One lemma for each kind of step.                                        *)
LEMMA DetectorSteps ==
  ASSUME det \in Detectors, det.armed => det.auto
  PROVE  /\ \A n \in 1..MinRows : CupAbs(det, n) \in Detectors
         /\ BufMut(det) \in Detectors
         /\ \A on \in BOOLEAN : SetAutoDetectEnabled(det, on) \in Detectors
         /\ \A ok \in BOOLEAN : Finish(det, ok) \in Detectors
         /\ \A timer \in {"settle", "retry"} :
              TryCapture([det EXCEPT ![timer] = FALSE]) \in Detectors
         /\ NewDetector \in Detectors
<1>1. MinRows \in Nat \ {0}
  BY NavAssumption
<1>2. ASSUME NEW n \in 1..MinRows PROVE CupAbs(det, n) \in Detectors
  <2> PICK Rows : Rows = 0..MinRows
    OBVIOUS
  <2>1. n \in Rows
    BY <1>1
  <2>2. Detectors = [auto : BOOLEAN, armed : BOOLEAN, rows : Rows, settle : BOOLEAN,
                     retry : BOOLEAN, capturing : BOOLEAN, recent : BOOLEAN]
    BY DEF Detectors
  <2>3. PICK a : a = (det.armed \/ n >= MinRows)
    OBVIOUS
  <2>4. PICK c : c = (det.settle \/ a)
    OBVIOUS
  <2>5. a \in BOOLEAN /\ c \in BOOLEAN
    BY <2>3, <2>4
  <2>6. CupAbs(det, n) = det \/ CupAbs(det, n) = [det EXCEPT !.rows = n, !.armed = a, !.settle = c]
    BY <2>3, <2>4 DEF CupAbs
  <2>7. [det EXCEPT !.rows = n, !.armed = a, !.settle = c] \in Detectors
    BY <2>1, <2>2, <2>5
  <2> QED
    BY <2>6, <2>7
<1>3. BufMut(det) \in Detectors
  BY <1>1 DEF BufMut, Detectors
<1>0. ASSUME NEW d \in Detectors PROVE Disarmed(d) \in Detectors
  <2> PICK Rows : Rows = 0..MinRows
    OBVIOUS
  <2>1. 0 \in Rows
    BY <1>1
  <2>2. Detectors = [auto : BOOLEAN, armed : BOOLEAN, rows : Rows, settle : BOOLEAN,
                     retry : BOOLEAN, capturing : BOOLEAN, recent : BOOLEAN]
    BY DEF Detectors
  <2> QED
    BY <2>1, <2>2 DEF Disarmed
<1>4. ASSUME NEW on \in BOOLEAN PROVE SetAutoDetectEnabled(det, on) \in Detectors
  <2>1. \A d \in Detectors, b \in BOOLEAN : [d EXCEPT !.auto = b] \in Detectors
    BY DEF Detectors
  <2> QED
    BY <1>0, <2>1 DEF SetAutoDetectEnabled
<1>5. \A ok \in BOOLEAN : Finish(det, ok) \in Detectors
  BY <1>1 DEF Finish, Detectors
<1>6. ASSUME NEW d \in Detectors PROVE TryCapture(d) \in Detectors
  <2>1. [d EXCEPT !.retry = TRUE] \in Detectors
    BY DEF Detectors
  <2>2. \A e \in Detectors : [e EXCEPT !.capturing = TRUE] \in Detectors
    BY DEF Detectors
  <2> QED
    BY <1>0, <2>1, <2>2 DEF TryCapture
<1>7. [det EXCEPT !.settle = FALSE] \in Detectors /\ [det EXCEPT !.retry = FALSE] \in Detectors
  BY <1>1 DEF Detectors
<1>8. NewDetector \in Detectors
  BY <1>1 DEF NewDetector, Detectors
<1> QED
  BY <1>2, <1>3, <1>4, <1>5, <1>6, <1>7, <1>8

(* A screen from the MUD keeps the invariant.                              *)
LEMMA ScreenStep == ASSUME IInv, Screen PROVE IInv' /\ StoreStep
<1>1. TypeOK' /\ Settling' /\ StoreStep
  BY SameStore DEF Screen, IInv, TypeOK, NumbersOK, Settling
<1>2. det \in Detectors /\ (det.armed => det.auto) /\ ArmedHasTimer /\ missed \in BOOLEAN
  BY DEF IInv, DetectorOK
<1>3. CASE \E n \in 1..MinRows : n <= det.rows + 1 /\ Detect(CupAbs(det, n))
  <2> PICK n \in 1..MinRows : Detect(CupAbs(det, n))
    BY <1>3
  <2>1. det' = CupAbs(det, n) /\ bufArmed' = det'.armed /\ missed' = (missed /\ ~det'.settle)
    BY DEF Detect, Screen
  <2>2. det' \in Detectors
    BY <1>2, <2>1, DetectorSteps
  <2>3. (det'.armed => det'.auto) /\ (det'.armed /\ ~missed' => det'.settle \/ det'.retry)
    BY <1>2, <2>1 DEF CupAbs, Detectors, ArmedHasTimer
  <2>4. bufArmed' \in BOOLEAN /\ missed' \in BOOLEAN
    BY <1>2, <2>1, <2>2 DEF Detectors
  <2> QED
    BY <1>1, <2>2, <2>3, <2>4 DEF IInv, DetectorOK, ArmedHasTimer
<1>4. CASE det' = BufMut(det) /\ UNCHANGED bufArmed
  <2>1. det' \in Detectors
    BY <1>2, <1>4, DetectorSteps
  <2>2. missed' = (missed /\ ~det'.settle)
    BY DEF Screen
  <2>3. (det'.armed => det'.auto) /\ (det'.armed /\ ~missed' => det'.settle \/ det'.retry)
    BY <1>2, <1>4, <2>2 DEF BufMut, Detectors, ArmedHasTimer
  <2>4. bufArmed' \in BOOLEAN /\ missed' \in BOOLEAN
    BY <1>4, <2>1, <2>2 DEF Detectors, IInv, DetectorOK
  <2> QED
    BY <1>1, <2>1, <2>3, <2>4 DEF IInv, DetectorOK, ArmedHasTimer
<1> QED
  BY <1>3, <1>4 DEF Screen

(* Switching the detection keeps it.                                       *)
LEMMA AutoDetectStep == ASSUME IInv, AutoDetect PROVE IInv' /\ StoreStep
<1>1. TypeOK' /\ Settling' /\ StoreStep
  BY SameStore DEF AutoDetect, IInv, TypeOK, NumbersOK, Settling
<1>2. det \in Detectors /\ (det.armed => det.auto) /\ ArmedHasTimer /\ missed \in BOOLEAN
  BY DEF IInv, DetectorOK
<1>3. PICK on \in BOOLEAN : on # det.auto /\ Detect(SetAutoDetectEnabled(det, on))
  BY DEF AutoDetect
<1>4. det' = SetAutoDetectEnabled(det, on) /\ bufArmed' = det'.armed /\ missed' = FALSE
  BY <1>3 DEF Detect, AutoDetect
<1>5. det' \in Detectors
  BY <1>2, <1>4, DetectorSteps
<1>6. ~det'.armed
  BY <1>2, <1>3, <1>4 DEF SetAutoDetectEnabled, Disarmed, Detectors
<1>7. bufArmed' \in BOOLEAN /\ missed' \in BOOLEAN
  BY <1>4, <1>5 DEF Detectors
<1> QED
  BY <1>1, <1>5, <1>6, <1>7 DEF IInv, DetectorOK, ArmedHasTimer

(* The settle timer keeps it.                                              *)
LEMMA TimerStep ==
  ASSUME IInv, NEW timer \in {"settle", "retry"}, TimerFires(timer) PROVE IInv' /\ StoreStep
<1> DEFINE e == [det EXCEPT ![timer] = FALSE]
           d == TryCapture(e)
           starts == d.capturing /\ ~det.capturing
           r == [op |-> "put", by |-> "burst", again |-> FALSE, profile |-> ProfileOf[tab]]
<1>1. det \in Detectors /\ (det.armed => det.auto) /\ missed \in BOOLEAN
  BY DEF IInv, DetectorOK
<1>2. /\ det' = d /\ bufArmed' = (IF starts THEN FALSE ELSE bufArmed)
      /\ queue' = (IF starts THEN Append(queue, r) ELSE queue)
      /\ missed' = (~starts /\ (missed \/ (det.capturing /\ det.armed)))
      /\ UNCHANGED <<db, tab, last, shown, ids, pinIds, hasty>>
  BY DEF TimerFires
<1>3. det' \in Detectors
  BY <1>1, <1>2, DetectorSteps
<1>4. e \in Detectors /\ e.armed = det.armed /\ e.auto = det.auto /\ e.capturing = det.capturing
  BY <1>1 DEF Detectors
<1>5. (d.armed => d.auto) /\ (d.armed => ~starts /\ (det.capturing \/ d.retry))
  <2> HIDE DEF e
  <2> QED
    BY <1>1, <1>4 DEF TryCapture, Ready, Disarmed, Detectors
<1>6. DetectorOK'
  <2>1. d.armed => det.armed
    <3> HIDE DEF e
    <3> QED
      BY <1>4 DEF TryCapture, Ready, Disarmed, Detectors
  <2> HIDE DEF d
  <2>2. det'.armed /\ ~missed' => det'.retry
    BY <1>2, <1>5, <2>1
  <2>3. bufArmed' \in BOOLEAN /\ missed' \in BOOLEAN
    BY <1>2 DEF IInv, DetectorOK
  <2> QED
    BY <1>2, <1>3, <1>5, <2>2, <2>3 DEF DetectorOK, ArmedHasTimer
<1>7. r \in Requests(ids) /\ r.op \notin {"load", "clear", "protect"}
  <2>1. ProfileOf[tab] \in Profiles
    BY DEF IInv, TypeOK, ViewOK, Profiles
  <2> QED
    BY <2>1 DEF Requests
<1> HIDE DEF r, starts
<1>8. queue \in Seq(Requests(ids))
  BY DEF IInv, TypeOK, ViewOK
<1>9. TypeOK'
  <2>1. queue' \in Seq(Requests(ids))
    BY <1>2, <1>7, <1>8
  <2> QED
    BY <1>2, <2>1 DEF IInv, TypeOK, NumbersOK, ViewOK
<1>10. Settling'
  <2>1. SUFFICES ASSUME ~hasty PROVE Shows(queue', shown, last, tab) /\ InTurn(queue', shown, last, tab)
    BY <1>2 DEF Settling
  <2>2. Shows(queue, shown, last, tab) /\ InTurn(queue, shown, last, tab)
    BY <2>1 DEF IInv, Settling
  <2>3. CASE queue' = queue
    BY <2>2, <2>3
  <2>4. CASE queue' = Append(queue, r)
    <3>1. Shows(queue', shown, last, tab)
      BY <1>7, <1>8, <2>2, <2>4, AppendShows
    <3>2. InTurn(queue', shown, last, tab)
      <4>1. /\ Len(queue) \in Nat /\ DOMAIN queue = 1..Len(queue)
            /\ DOMAIN queue' = 1..(Len(queue) + 1) /\ queue'[Len(queue) + 1] = r
            /\ \A i \in DOMAIN queue : queue'[i] = queue[i]
        BY <1>8, <2>4
      <4>2. \A i \in DOMAIN queue' : i \in DOMAIN queue \/ queue'[i] = r
        BY <4>1
      <4>3. \A i \in DOMAIN queue' : IsLoad(queue', i) => IsLoad(queue, i)
        BY <1>7, <4>1, <4>2 DEF IsLoad
      <4>4. ASSUME NEW i \in DOMAIN queue'
            PROVE  /\ queue'[i].op \in {"clear", "protect"} => i = 1
                   /\ queue'[i].op = "clear" => \A j \in DOMAIN queue' : ~IsLoad(queue', j)
                   /\ queue'[i].op = "protect" => queue'[i].frame = Display(shown, last, tab)
        <5>1. CASE queue'[i] = r
          BY <1>7, <5>1
        <5>2. CASE i \in DOMAIN queue /\ queue'[i] = queue[i]
          <6>1. /\ queue[i].op \in {"clear", "protect"} => i = 1
                /\ queue[i].op = "clear" => \A j \in DOMAIN queue : ~IsLoad(queue, j)
                /\ queue[i].op = "protect" => queue[i].frame = Display(shown, last, tab)
            BY <2>2, <5>2 DEF InTurn
          <6>2. (\A j \in DOMAIN queue : ~IsLoad(queue, j)) => \A j \in DOMAIN queue' : ~IsLoad(queue', j)
            BY <4>3 DEF IsLoad
          <6> QED
            BY <5>2, <6>1, <6>2
        <5> QED
          BY <4>1, <4>2, <5>1, <5>2
      <4> QED
        BY <4>4 DEF InTurn
    <3> QED
      BY <3>1, <3>2
  <2> QED
    BY <1>2, <2>3, <2>4
<1> QED
  BY <1>2, <1>6, <1>9, <1>10, SameStore DEF IInv

(* A handler that changes nothing on show.                                 *)
LEMMA IdleFacts ==
  ASSUME NEW n, NEW asked, asked \in Seq(Requests(n)), Idle(shown, asked)
  PROVE  queue' = asked /\ UNCHANGED <<shown, last, tab>>
<1>1. asked \o <<>> = asked
  OBVIOUS
<1> QED
  BY <1>1 DEF Idle, Render

(* A call to the store keeps it.                                           *)
LEMMA AskStep ==
  ASSUME IInv, NEW r \in Requests(ids), r.op # "load",
         r.op = "protect" => r.frame = Display(shown, last, tab), Ask(r),
         hasty' = (hasty \/ queue # <<>>), UNCHANGED <<db, det, bufArmed, ids, pinIds, missed>>
  PROVE  IInv' /\ StoreStep
<1>1. queue \in Seq(Requests(ids)) /\ hasty \in BOOLEAN
  BY DEF IInv, TypeOK, ViewOK
<1>2. Append(queue, r) \in Seq(Requests(ids))
  BY <1>1
<1>3. queue' = Append(queue, r) /\ UNCHANGED <<shown, last, tab>>
  BY <1>2, IdleFacts DEF Ask
<1>4. TypeOK'
  <2>1. hasty' \in BOOLEAN
    BY <1>1
  <2> QED
    BY <1>2, <1>3, <2>1 DEF IInv, TypeOK, NumbersOK, ViewOK
<1>5. DetectorOK'
  BY DEF IInv, DetectorOK, ArmedHasTimer
<1>6. Settling'
  <2>1. SUFFICES ASSUME ~hasty' PROVE Shows(queue', shown, last, tab) /\ InTurn(queue', shown, last, tab)
    BY <1>3 DEF Settling
  <2>2. ~hasty /\ queue = <<>>
    BY <1>1, <2>1
  <2>3. shown.frame \in {Display(shown, last, tab), None}
    BY <2>2 DEF IInv, Settling, Shows
  <2>4. queue' = <<r>>
    BY <1>3, <2>2
  <2>5. DOMAIN queue' = {1} /\ queue'[1] = r
    BY <2>4
  <2>6. \A j \in DOMAIN queue' : ~IsLoad(queue', j)
    BY <2>5 DEF IsLoad
  <2>7. Shows(queue', shown, last, tab)
    BY <2>3, <2>6 DEF Shows
  <2>8. InTurn(queue', shown, last, tab)
    BY <2>5, <2>6 DEF InTurn
  <2> QED
    BY <2>7, <2>8
<1> QED
  BY <1>4, <1>5, <1>6, SameStore DEF IInv

(* Another frame is to be shown.                                           *)
LEMMA TurnStep ==
  ASSUME IInv, NEW ui, UiOK(ui, ids), ui.frame = shown.frame, NEW t \in Tabs,
         Render(ui, last, t, queue, FALSE), hasty' = (hasty \/ queue # <<>>),
         bufArmed' \in BOOLEAN, UNCHANGED <<db, det, ids, pinIds, missed>>
  PROVE  IInv' /\ StoreStep
<1>1. ids \in Nat /\ hasty \in BOOLEAN /\ ViewOK(queue, ui, last, t, ids)
  BY Numbers DEF IInv, TypeOK, ViewOK
<1>2. TypeOK'
  <2>1. hasty' \in BOOLEAN
    BY <1>1
  <2>2. ViewOK(queue', shown', last', tab', ids)
    BY <1>1, RenderOK
  <2> QED
    BY <2>1, <2>2 DEF IInv, TypeOK, NumbersOK
<1>3. DetectorOK'
  BY DEF IInv, DetectorOK, ArmedHasTimer
<1>4. Settling'
  <2>1. SUFFICES ASSUME ~hasty' PROVE Shows(queue', shown', last', tab') /\ InTurn(queue', shown', last', tab')
    BY DEF Settling
  <2>2. ~hasty /\ queue = <<>>
    BY <1>1, <2>1
  <2>3. shown.frame \in {Display(shown, last, tab), None}
    BY <2>2 DEF IInv, Settling, Shows
  <2>4. \A i \in DOMAIN queue : FALSE
    BY <2>2
  <2>5. Plain(queue) /\ \A i \in DOMAIN queue : ~IsLoad(queue, i)
    BY <2>4 DEF Plain
  <2>6. Display(ui, last, t) = Display(shown, last, tab) => Shows(queue, ui, last, t)
    BY <2>3, <2>4 DEF Shows
  <2> QED
    BY <1>1, <2>5, <2>6, RenderShows
<1> QED
  BY <1>2, <1>3, <1>4, SameStore DEF IInv

(* What the user asks for keeps it.                                        *)
LEMMA UserStep == ASSUME IInv, UserActs PROVE IInv' /\ StoreStep
<1>1. /\ hasty' = (hasty \/ queue # <<>>) /\ UNCHANGED <<db, det, bufArmed, ids, pinIds, missed>>
      /\ bufArmed' \in BOOLEAN
  BY DEF UserActs, IInv, DetectorOK
<1>2. /\ ids \in Nat /\ tab \in Tabs /\ ProfileOf[tab] \in Profiles
      /\ LastOK(last, ids) /\ UiOK(shown, ids)
  BY Numbers DEF IInv, TypeOK, ViewOK, Profiles
<1>3. \A id \in FrameIds(ids) : id # None => id \in 1..ids
  BY DEF FrameIds
<1>4. CASE CaptureManual
  <2> DEFINE r == [op |-> "put", by |-> "user", again |-> FALSE, profile |-> ProfileOf[tab]]
  <2>1. r \in Requests(ids)
    BY <1>2 DEF Requests
  <2> QED
    BY <1>1, <1>4, <2>1, AskStep DEF CaptureManual
<1>5. CASE Freeze
  <2> DEFINE r == [op |-> "protect", frame |-> last[tab], flag |-> TRUE]
  <2>1. shown.live /\ last[tab] \in 1..ids
    BY <1>2, <1>3, <1>5 DEF Freeze, LastOK
  <2>2. r \in Requests(ids) /\ r.frame = Display(shown, last, tab)
    BY <2>1 DEF Requests, Display
  <2> QED
    BY <1>1, <1>5, <2>2, AskStep DEF Freeze
<1>6. CASE Unfreeze
  <2> DEFINE r == [op |-> "protect", frame |-> shown.frozen, flag |-> FALSE]
  <2>1. ~shown.live /\ shown.frozen \in 1..ids
    BY <1>2, <1>3, <1>6 DEF Unfreeze, UiOK
  <2>2. r \in Requests(ids) /\ r.frame = Display(shown, last, tab)
    BY <2>1 DEF Requests, Display
  <2> QED
    BY <1>1, <1>6, <2>2, AskStep DEF Unfreeze
<1>7. CASE GoLive
  <2> DEFINE ui == [shown EXCEPT !.live = TRUE, !.frozen = None]
  <2>1. UiOK(ui, ids) /\ ui.frame = shown.frame
    BY <1>2 DEF UiOK, FrameIds
  <2>2. Render(ui, last, tab, queue, FALSE)
    BY <1>7 DEF GoLive, Idle
  <2> HIDE DEF ui
  <2> QED
    BY <1>1, <1>2, <2>1, <2>2, TurnStep
<1>8. CASE Clear
  <2> DEFINE r == [op |-> "clear", profile |-> ProfileOf[tab]]
  <2>1. r \in Requests(ids)
    BY <1>2 DEF Requests
  <2> QED
    BY <1>1, <1>8, <2>1, AskStep DEF Clear
<1>9. CASE Search
  <2> DEFINE r == [op |-> "list", profile |-> ProfileOf[tab]]
  <2>1. r \in Requests(ids)
    BY <1>2 DEF Requests
  <2> QED
    BY <1>1, <1>9, <2>1, AskStep DEF Search
<1>10. shown.frame # None => shown.frame \in 1..ids
  BY <1>2, <1>3 DEF UiOK
<1>11. CASE SavePin
  <2> DEFINE r == [op |-> "check", frame |-> shown.frame, profile |-> ProfileOf[tab]]
  <2>1. r \in Requests(ids)
    BY <1>2, <1>10, <1>11 DEF Requests, SavePin
  <2> QED
    BY <1>1, <1>11, <2>1, AskStep DEF SavePin
<1>12. CASE EditPin
  <2>1. PICK q \in shown.pins, op \in {"updatePin", "deletePin"} :
          Ask([op |-> op, pin |-> q, frame |-> shown.frame])
    BY <1>12 DEF EditPin
  <2> DEFINE r == [op |-> op, pin |-> q, frame |-> shown.frame]
  <2>2. q \in 1..MaxPins /\ shown.frame \in 1..ids
    BY <1>2, <1>10, <1>12 DEF EditPin, UiOK
  <2>3. r \in Requests(ids)
    BY <2>2 DEF Requests
  <2> QED
    BY <1>1, <2>1, <2>3, AskStep
<1> QED
  BY <1>4, <1>5, <1>6, <1>7, <1>8, <1>9, <1>11, <1>12 DEF UserActs

(* Switching the tab keeps it.                                             *)
LEMMA SwitchStep == ASSUME IInv, SwitchTab PROVE IInv' /\ StoreStep
<1>1. /\ hasty' = (hasty \/ queue # <<>>) /\ bufArmed' \in BOOLEAN
      /\ UNCHANGED <<db, det, ids, pinIds, missed>>
  BY DEF SwitchTab
<1>2. UiOK(shown, ids)
  BY DEF IInv, TypeOK, ViewOK
<1>3. PICK t \in Tabs : Render(shown, last, t, queue, FALSE)
  BY DEF SwitchTab, SelectTab
<1> QED
  BY <1>1, <1>2, <1>3, TurnStep

(* A put that ends, well or not, keeps the invariant of the detector.      *)
LEMMA FinishedStep ==
  ASSUME DetectorOK, NEW ok \in BOOLEAN, Finished(ok), UNCHANGED <<bufArmed, missed>>
  PROVE  DetectorOK'
<1>1. CASE det' = det
  BY <1>1 DEF DetectorOK, ArmedHasTimer
<1>2. CASE det' = Finish(det, ok)
  <2>1. det' \in Detectors
    BY <1>2, DetectorSteps DEF DetectorOK
  <2>2. /\ det'.armed = det.armed /\ det'.auto = det.auto
        /\ det'.settle = det.settle /\ det'.retry = det.retry
    BY <1>2 DEF Finish, DetectorOK, Detectors
  <2> QED
    BY <2>1, <2>2 DEF DetectorOK, ArmedHasTimer
<1> QED
  BY <1>1, <1>2 DEF Finished

(* The request at the head, as the actions below find it.                  *)
LEMMA HeadFacts ==
  ASSUME IInv, queue # <<>>
  PROVE  /\ ids \in Nat /\ queue \in Seq(Requests(ids))
         /\ Request \in Requests(ids) /\ Rest \in Seq(Requests(ids))
         /\ ViewOK(queue, shown, last, tab, ids) /\ ViewOK(Rest, shown, last, tab, ids)
         /\ hasty \in BOOLEAN /\ NumbersOK /\ StoreOK(db, ids, pinIds)
         /\ DetectorOK /\ Settling
<1>1. ids \in Nat /\ queue \in Seq(Requests(ids))
  BY Numbers DEF IInv, TypeOK, ViewOK
<1>2. Request \in Requests(ids) /\ Rest \in Seq(Requests(ids))
  BY <1>1, RestFacts DEF Request, Rest
<1>3. ViewOK(Rest, shown, last, tab, ids)
  BY <1>2 DEF IInv, TypeOK, ViewOK
<1> QED
  BY <1>1, <1>2, <1>3 DEF IInv, TypeOK

(* Writing a frame keeps the invariant and steps the abstract store.       *)
LEMMA PutStep == ASSUME IInv, Put PROVE IInv' /\ StoreStep
<1>1. queue # <<>> /\ Request.op = "put" /\ UNCHANGED <<bufArmed, pinIds, missed, hasty>>
  BY DEF Put, Next1, Request
<1>2. /\ ids \in Nat /\ queue \in Seq(Requests(ids))
      /\ Request \in Requests(ids) /\ Rest \in Seq(Requests(ids))
      /\ ViewOK(queue, shown, last, tab, ids) /\ ViewOK(Rest, shown, last, tab, ids)
      /\ hasty \in BOOLEAN /\ NumbersOK /\ StoreOK(db, ids, pinIds)
      /\ DetectorOK /\ Settling
  BY <1>1, HeadFacts
<1>3. /\ Request = [op |-> "put", by |-> Request.by, again |-> Request.again, profile |-> Request.profile]
      /\ Request.by \in {"burst", "user"} /\ Request.again \in BOOLEAN /\ Request.profile \in Profiles
  BY <1>1, <1>2, RequestFacts
<1>4. ids < MaxIds
  BY DEF Put
<1>5. ASSUME db' = PutFrameOnce(db, Request.profile, ids + 1), ids' = ids + 1, Finished(TRUE),
             ShowLast(shown, ids', Rest)
      PROVE  IInv' /\ StoreStep
  <2>1. StoreOK(db', ids', pinIds) /\ StoreStep
    BY <1>2, <1>3, <1>4, <1>5, PutFrameStep
  <2> DEFINE l == [last EXCEPT ![tab] = ids']
  <2>2. Render(shown, l, tab, Rest, TRUE)
    BY <1>5 DEF ShowLast
  <2>3. ids' \in Nat /\ ids' \in 1..ids' /\ ids' # None /\ ids' \in 0..MaxIds
    BY <1>2, <1>4, <1>5, NavAssumption DEF Ids, NumbersOK
  <2>4. ViewOK(Rest, shown, l, tab, ids')
    <3>1. Rest \in Seq(Requests(ids')) /\ UiOK(shown, ids') /\ LastOK(last, ids') /\ tab \in Tabs
      BY <1>2, <1>5, MoreFrames DEF ViewOK
    <3>2. LastOK(l, ids')
      BY <2>3, <3>1 DEF LastOK, FrameIds
    <3> QED
      BY <3>1, <3>2 DEF ViewOK
  <2>5. Display(shown, l, tab) # None
    <3>1. l[tab] = ids'
      BY <1>2 DEF ViewOK, LastOK
    <3> QED
      BY <1>2, <2>3, <3>1 DEF Display, ViewOK, UiOK
  <2> HIDE DEF l
  <2>6. ViewOK(queue', shown', last', tab', ids')
    BY <2>2, <2>3, <2>4, RenderOK
  <2>7. TypeOK'
    <3>1. NumbersOK'
      BY <1>1, <1>2, <2>3 DEF NumbersOK
    <3>2. StoreOK(db', ids', pinIds') /\ hasty' \in BOOLEAN
      BY <1>1, <1>2, <2>1
    <3> QED
      BY <2>6, <3>1, <3>2 DEF TypeOK
  <2>8. DetectorOK'
    BY <1>1, <1>2, <1>5, FinishedStep
  <2>9. Settling'
    <3>1. SUFFICES ASSUME ~hasty PROVE Shows(queue', shown', last', tab') /\ InTurn(queue', shown', last', tab')
      BY <1>1 DEF Settling
    <3>2. Plain(Rest)
      BY <1>1, <1>2, <3>1, RestFacts DEF Rest
    <3> QED
      BY <2>2, <2>3, <2>4, <2>5, <3>2, RenderShows
  <2> QED
    BY <2>1, <2>7, <2>8, <2>9 DEF IInv
<1>6. ASSUME UNCHANGED <<db, ids>>, NEW asked, Idle(shown, asked), DetectorOK',
             asked = Tail(queue) \/
               \E r \in Requests(ids) : /\ r.op \notin {"load", "clear", "protect"}
                                        /\ asked = Append(Tail(queue), r)
      PROVE  IInv' /\ StoreStep
  <2>1. ViewOK(queue', shown', last', tab', ids) /\ Settling'
    BY <1>1, <1>2, <1>6, IdleRest DEF Request
  <2>2. TypeOK'
    BY <1>1, <1>2, <1>6, <2>1 DEF TypeOK, NumbersOK
  <2> QED
    BY <1>6, <2>1, <2>2, SameStore DEF IInv
<1>7. CASE Finished(FALSE) /\ Idle(shown, Rest) /\ UNCHANGED <<db, ids>>
  BY <1>1, <1>2, <1>6, <1>7, FinishedStep DEF Rest
<1>8. CASE UNCHANGED <<db, ids>> /\ Idle(shown, Append(Rest, [Request EXCEPT !.op = "evict"])) /\ UNCHANGED det
  <2>1. DetectorOK'
    BY <1>1, <1>2, <1>8 DEF DetectorOK, ArmedHasTimer
  <2> DEFINE r == [Request EXCEPT !.op = "evict"]
  <2>2. r = [op |-> "evict", by |-> Request.by, again |-> Request.again, profile |-> Request.profile]
    BY <1>3
  <2>3. r \in Requests(ids) /\ r.op \notin {"load", "clear", "protect"}
    BY <1>3, <2>2 DEF Requests
  <2> HIDE DEF r
  <2> QED
    BY <1>6, <1>8, <2>1, <2>3 DEF Rest, r
<1> QED
  BY <1>5, <1>7, <1>8 DEF Put

(* A transaction that shows nothing new.                                   *)
LEMMA QuietStep ==
  ASSUME IInv, queue # <<>>, Request.op # "load", NEW asked, Idle(shown, asked),
         asked = Rest \/ \E r \in Requests(ids) : /\ r.op \notin {"load", "clear", "protect"}
                                                  /\ asked = Append(Rest, r),
         UNCHANGED <<det, bufArmed, ids, missed, hasty>>,
         NumbersOK', StoreOK(db', ids, pinIds')
  PROVE  IInv'
<1>1. ViewOK(queue', shown', last', tab', ids) /\ Settling'
  BY HeadFacts, IdleRest DEF Request, Rest
<1>2. TypeOK'
  BY <1>1 DEF TypeOK, IInv
<1>3. DetectorOK'
  BY DEF IInv, DetectorOK, ArmedHasTimer
<1> QED
  BY <1>1, <1>2, <1>3 DEF IInv

(* A transaction that changes what is on show.                             *)
LEMMA SightStep ==
  ASSUME IInv, NEW ui, NEW l, NEW asked, NEW again,
         Render(ui, l, tab, asked, again), ViewOK(asked, ui, l, tab, ids),
         ~hasty => /\ Plain(asked)
                   /\ IF again \/ Display(ui, l, tab) # Display(shown, last, tab)
                      THEN Display(ui, l, tab) # None \/ \A i \in DOMAIN asked : ~IsLoad(asked, i)
                      ELSE Shows(asked, ui, l, tab),
         UNCHANGED <<det, bufArmed, ids, missed, hasty>>,
         NumbersOK', StoreOK(db', ids, pinIds')
  PROVE  IInv'
<1>1. ids \in Nat
  BY Numbers DEF IInv, TypeOK
<1>2. ViewOK(queue', shown', last', tab', ids)
  BY <1>1, RenderOK
<1>3. TypeOK'
  BY <1>2 DEF TypeOK, IInv
<1>4. DetectorOK'
  BY DEF IInv, DetectorOK, ArmedHasTimer
<1>5. ASSUME ~hasty
      PROVE  Shows(queue', shown', last', tab') /\ InTurn(queue', shown', last', tab')
  <2> USE <1>5
  <2> QED
    BY <1>1, RenderShows
<1>6. Settling'
  BY <1>5 DEF Settling
<1> QED
  BY <1>3, <1>4, <1>6 DEF IInv

(* So does evicting for the quota,                                         *)
LEMMA EvictQuotaStep == ASSUME IInv, EvictForQuota PROVE IInv' /\ StoreStep
<1> DEFINE r == [Request EXCEPT !.op = "put", !.again = TRUE]
<1>1. /\ queue # <<>> /\ Request.op = "evict"
      /\ db' = EvictOneUnprotected(db, Request.profile) /\ Idle(shown, Append(Rest, r))
      /\ UNCHANGED <<det, bufArmed, ids, pinIds, missed, hasty>>
  BY DEF EvictForQuota, Next1, Request
<1>2. Request \in Requests(ids) /\ ids \in Nat /\ NumbersOK /\ StoreOK(db, ids, pinIds)
  BY <1>1, HeadFacts
<1>3. /\ Request = [op |-> "evict", by |-> Request.by, again |-> Request.again, profile |-> Request.profile]
      /\ Request.by \in {"burst", "user"} /\ Request.profile \in Profiles
  BY <1>1, <1>2, RequestFacts
<1>4. Request \in [op : {"put", "evict"}, by : {"burst", "user"}, again : BOOLEAN, profile : Profiles]
  BY <1>1, <1>2 DEF Requests
<1>5. r \in Requests(ids) /\ r.op \notin {"load", "clear", "protect"}
  <2>1. /\ r \in [op : {"put", "evict"}, by : {"burst", "user"}, again : BOOLEAN, profile : Profiles]
        /\ r.op = "put"
    BY <1>4
  <2> QED
    BY <2>1 DEF Requests
<1>6. StoreOK(db', ids, pinIds) /\ StoreStep
  BY <1>1, <1>2, <1>3, EvictStep
<1>7. NumbersOK' /\ StoreOK(db', ids, pinIds')
  BY <1>1, <1>2, <1>6 DEF NumbersOK
<1> HIDE DEF r
<1> QED
  BY <1>1, <1>5, <1>6, <1>7, QuietStep

(* What the actions that commit have in common.                            *)
LEMMA CommitFacts ==
  ASSUME IInv, queue # <<>>, NEW newdb, Commits(newdb)
  PROVE  /\ db' = newdb /\ UNCHANGED <<det, bufArmed, ids, pinIds, missed, hasty>>
         /\ NumbersOK' /\ NumbersOK /\ StoreOK(db, ids, pinIds)
         /\ StoreOK(newdb, ids, pinIds) => StoreOK(db', ids, pinIds')
         /\ ids \in Nat /\ Request \in Requests(ids) /\ Rest \in Seq(Requests(ids))
         /\ Request = queue[1] /\ 1 \in DOMAIN queue
         /\ ViewOK(Rest, shown, last, tab, ids)
         /\ ~hasty => Plain(Rest)
         /\ ~hasty /\ Request.op # "load" => Shows(Rest, shown, last, tab)
<1>1. db' = newdb /\ UNCHANGED <<det, bufArmed, ids, pinIds, missed, hasty>>
  BY DEF Commits
<1>2. NumbersOK /\ StoreOK(db, ids, pinIds)
  BY HeadFacts
<1>3. NumbersOK'
  BY <1>1, <1>2 DEF NumbersOK
<1>4. /\ ids \in Nat /\ Request \in Requests(ids) /\ Rest \in Seq(Requests(ids))
      /\ ViewOK(Rest, shown, last, tab, ids) /\ Settling /\ queue \in Seq(Requests(ids))
  BY HeadFacts
<1>5. /\ Request = queue[1] /\ 1 \in DOMAIN queue
      /\ ~hasty => Plain(Rest)
      /\ ~hasty /\ Request.op # "load" => Shows(Rest, shown, last, tab)
  BY <1>4, RestFacts DEF Request, Rest
<1> QED
  BY <1>1, <1>2, <1>3, <1>4, <1>5

(* protecting,                                                             *)
LEMMA ProtectCommit == ASSUME IInv, Protect PROVE IInv' /\ StoreStep
<1> DEFINE f == Request.frame
           ui == IF Request.flag THEN [shown EXCEPT !.live = FALSE, !.frozen = f] ELSE shown
           asked == Rest \o Loads(f)
<1>1. /\ queue # <<>> /\ Request.op = "protect"
      /\ Commits(SetProtected(db, f, Request.flag)) /\ Render(ui, last, tab, asked, FALSE)
  BY DEF Protect, Next1, Request, Idle
<1>2. /\ db' = SetProtected(db, f, Request.flag)
      /\ UNCHANGED <<det, bufArmed, ids, pinIds, missed, hasty>>
      /\ NumbersOK' /\ NumbersOK /\ StoreOK(db, ids, pinIds)
      /\ ids \in Nat /\ Request \in Requests(ids) /\ Rest \in Seq(Requests(ids))
      /\ Request = queue[1] /\ 1 \in DOMAIN queue
      /\ ViewOK(Rest, shown, last, tab, ids) /\ (~hasty => Plain(Rest))
  BY <1>1, CommitFacts
<1>3. f \in 1..ids /\ Request.flag \in BOOLEAN
  BY <1>1, <1>2, RequestFacts
<1>4. StoreOK(db', ids, pinIds) /\ StoreStep
  BY <1>2, <1>3, ProtectStep
<1>5. f # None /\ f \in FrameIds(ids)
  BY <1>2, <1>3, Numbers DEF FrameIds
<1>6. ViewOK(asked, ui, last, tab, ids)
  <2>1. Loads(f) \in Seq(Requests(ids))
    BY <1>2, <1>5, LoadsFacts
  <2>2. asked \in Seq(Requests(ids))
    BY <1>2, <2>1
  <2>3. UiOK(ui, ids)
    BY <1>2, <1>5 DEF ViewOK, UiOK
  <2> HIDE DEF ui, asked
  <2> QED
    BY <1>2, <2>2, <2>3 DEF ViewOK
<1>7. ASSUME ~hasty
      PROVE  /\ Plain(asked) /\ Shows(asked, ui, last, tab)
             /\ Display(ui, last, tab) = Display(shown, last, tab)
  <2>1. Display(shown, last, tab) = f
    BY <1>1, <1>2, <1>7 DEF IInv, Settling, InTurn
  <2>2. Display(ui, last, tab) = f
    BY <1>2, <2>1 DEF Display, ViewOK, UiOK
  <2>3. Plain(asked)
    BY <1>2, <1>7, PlainFacts
  <2> HIDE DEF ui
  <2>4. Shows(asked, ui, last, tab)
    BY <1>2, <1>5, <2>2, LoadShows
  <2> QED
    BY <2>1, <2>2, <2>3, <2>4
<1>8. StoreOK(db', ids, pinIds')
  BY <1>2, <1>4
<1> HIDE DEF ui, asked, f
<1> QED
  BY <1>1, <1>2, <1>4, <1>6, <1>7, <1>8, SightStep

(* clearing,                                                               *)
LEMMA ClearCommit == ASSUME IInv, ClearAll PROVE IInv' /\ StoreStep
<1> DEFINE l == [last EXCEPT ![tab] = None]
<1>1. /\ queue # <<>> /\ Request.op = "clear"
      /\ Commits(ClearProfile(db, Request.profile)) /\ Render(Nothing, l, tab, Rest, TRUE)
  BY DEF ClearAll, Next1, Request, ShowLast
<1>2. /\ db' = ClearProfile(db, Request.profile)
      /\ UNCHANGED <<det, bufArmed, ids, pinIds, missed, hasty>>
      /\ NumbersOK' /\ NumbersOK /\ StoreOK(db, ids, pinIds)
      /\ ids \in Nat /\ Request \in Requests(ids) /\ Rest \in Seq(Requests(ids))
      /\ Request = queue[1] /\ 1 \in DOMAIN queue
      /\ ViewOK(Rest, shown, last, tab, ids) /\ (~hasty => Plain(Rest))
  BY <1>1, CommitFacts
<1>3. Request.profile \in Profiles
  BY <1>1, <1>2, RequestFacts
<1>4. StoreOK(db', ids, pinIds) /\ StoreStep
  BY <1>2, <1>3, ClearStep
<1>5. ViewOK(Rest, Nothing, l, tab, ids)
  <2>1. UiOK(Nothing, ids)
    BY DEF UiOK, Nothing, FrameIds
  <2>2. LastOK(l, ids)
    BY <1>2 DEF ViewOK, LastOK, FrameIds
  <2> HIDE DEF l
  <2> QED
    BY <1>2, <2>1, <2>2 DEF ViewOK
<1>6. ASSUME ~hasty PROVE \A i \in DOMAIN Rest : ~IsLoad(Rest, i)
  <2>1. \A j \in DOMAIN queue : ~IsLoad(queue, j)
    BY <1>1, <1>2, <1>6 DEF IInv, Settling, InTurn
  <2>2. \A i \in DOMAIN Rest : i + 1 \in DOMAIN queue /\ Rest[i] = queue[i + 1]
    <3>1. queue \in Seq(Requests(ids))
      BY <1>1, HeadFacts
    <3> QED
      BY <1>1, <3>1 DEF Rest
  <2> QED
    BY <2>1, <2>2 DEF IsLoad
<1>7. StoreOK(db', ids, pinIds')
  BY <1>2, <1>4
<1> HIDE DEF l
<1> QED
  BY <1>1, <1>2, <1>4, <1>5, <1>6, <1>7, SightStep

(* The frames that a list names.                                           *)
LEMMA HitFacts ==
  ASSUME NEW n \in Nat, NEW m, NEW s, StoreOK(s, n, m), NEW p
  PROVE  FramesOf(s, p) \cup {s.pins[q].frame : q \in DOMAIN s.pins} \subseteq 1..n
BY DEF FramesOf, StoreOK, IsTable, PinRecords

(* listing,                                                                *)
LEMMA ListCommit == ASSUME IInv, List PROVE IInv' /\ StoreStep
<1> DEFINE found  == FramesOf(db, Request.profile)
           pinned == {db.pins[q].frame : q \in DOMAIN db.pins}
<1>1. queue # <<>> /\ Request.op = "list" /\ Commits(db)
  BY DEF List, Next1, Request
<1>2. /\ db' = db
      /\ UNCHANGED <<det, bufArmed, ids, pinIds, missed, hasty>>
      /\ NumbersOK' /\ NumbersOK /\ StoreOK(db, ids, pinIds)
      /\ ids \in Nat /\ Request \in Requests(ids) /\ Rest \in Seq(Requests(ids))
      /\ ViewOK(Rest, shown, last, tab, ids) /\ (~hasty => Plain(Rest))
  BY <1>1, CommitFacts
<1>3. StoreOK(db', ids, pinIds') /\ StoreStep
  BY <1>2, SameStore
<1>4. found \cup pinned \subseteq 1..ids
  BY <1>2, HitFacts
<1>5. ASSUME NEW f \in 1..ids, NEW ui, UiOK(ui, ids), ShowLast(ui, f, Rest)
      PROVE  IInv'
  <2> DEFINE l == [last EXCEPT ![tab] = f]
  <2>1. Render(ui, l, tab, Rest, TRUE)
    BY <1>5 DEF ShowLast
  <2>2. f # None
    BY <1>2, Numbers
  <2>3. LastOK(l, ids) /\ l[tab] = f
    BY <1>2 DEF ViewOK, LastOK, FrameIds
  <2> HIDE DEF l
  <2>4. ViewOK(Rest, ui, l, tab, ids)
    BY <1>2, <1>5, <2>3 DEF ViewOK
  <2>5. Display(ui, l, tab) # None
    BY <1>5, <2>2, <2>3 DEF Display, UiOK
  <2> QED
    BY <1>1, <1>2, <1>3, <2>1, <2>4, <2>5, SightStep
<1>6. CASE Idle(shown, Rest)
  BY <1>1, <1>2, <1>3, <1>6, QuietStep
<1>7. CASE \E f \in found : ShowLast(shown, f, Rest)
  <2>1. PICK f \in found : ShowLast(shown, f, Rest)
    BY <1>7
  <2>2. UiOK(shown, ids)
    BY <1>2 DEF ViewOK
  <2> QED
    BY <1>3, <1>4, <1>5, <2>1, <2>2
<1>8. CASE \E f \in found \cup pinned : ClickHit(f)
  <2> DEFINE ui == [shown EXCEPT !.live = TRUE, !.frozen = None]
  <2>1. PICK f \in found \cup pinned : ShowLast(ui, f, Rest)
    BY <1>8 DEF ClickHit
  <2>2. UiOK(ui, ids)
    BY <1>2 DEF ViewOK, UiOK, FrameIds
  <2> HIDE DEF ui
  <2> QED
    BY <1>3, <1>4, <1>5, <2>1, <2>2
<1>9. \/ Idle(shown, Rest)
      \/ \E f \in found : ShowLast(shown, f, Rest)
      \/ \E f \in found \cup pinned : ClickHit(f)
  BY DEF List
<1> QED
  BY <1>3, <1>6, <1>7, <1>8, <1>9

(* The head is a load, and its frame or none is on show now.               *)
LEMMA LoadedShows ==
  ASSUME NEW q, NEW n, q \in Seq(Requests(n)), q # <<>>, IsLoad(q, 1),
         NEW ui, NEW v, NEW l, NEW t, Shows(q, ui, l, t), Display(v, l, t) = Display(ui, l, t),
         v.frame \in {q[1].frame, None}
  PROVE  Shows(Tail(q), v, l, t)
<1>1. /\ Len(q) \in Nat /\ DOMAIN q = 1..Len(q) /\ DOMAIN Tail(q) = 1..(Len(q) - 1)
      /\ \A i \in DOMAIN Tail(q) : Tail(q)[i] = q[i + 1]
  OBVIOUS
<1>2. \A i \in DOMAIN Tail(q) : i + 1 \in DOMAIN q /\ (IsLoad(Tail(q), i) <=> IsLoad(q, i + 1))
  BY <1>1 DEF IsLoad
<1>3. \A j \in DOMAIN q : j > 1 /\ IsLoad(q, j) => j - 1 \in DOMAIN Tail(q) /\ IsLoad(Tail(q), j - 1)
  BY <1>1 DEF IsLoad
<1>4. ASSUME NEW i \in DOMAIN Tail(q), IsLoad(Tail(q), i)
      PROVE  \/ Tail(q)[i].frame = Display(v, l, t)
             \/ \E j \in DOMAIN Tail(q) : j > i /\ IsLoad(Tail(q), j)
  <2>1. i + 1 \in DOMAIN q /\ IsLoad(q, i + 1) /\ Tail(q)[i].frame = q[i + 1].frame
    BY <1>1, <1>2, <1>4
  <2>2. CASE q[i + 1].frame = Display(ui, l, t)
    BY <2>1, <2>2
  <2>3. ASSUME NEW j \in DOMAIN q, j > i + 1, IsLoad(q, j)
        PROVE  \E k \in DOMAIN Tail(q) : k > i /\ IsLoad(Tail(q), k)
    <3>1. j > 1 /\ j - 1 > i
      BY <1>1, <2>3
    <3>2. j - 1 \in DOMAIN Tail(q) /\ IsLoad(Tail(q), j - 1)
      BY <1>3, <2>3, <3>1
    <3> QED
      BY <3>1, <3>2
  <2> QED
    BY <2>1, <2>2, <2>3 DEF Shows
<1>5. ASSUME \A i \in DOMAIN Tail(q) : ~IsLoad(Tail(q), i)
      PROVE  v.frame \in {Display(v, l, t), None}
  <2>1. \A j \in DOMAIN q : ~(j > 1 /\ IsLoad(q, j))
    BY <1>3, <1>5
  <2>2. 1 \in DOMAIN q
    BY DEF IsLoad
  <2>3. q[1].frame = Display(ui, l, t)
    BY <2>1, <2>2 DEF Shows
  <2> QED
    BY <2>3
<1> QED
  BY <1>4, <1>5 DEF Shows

(* loading,                                                                *)
LEMMA LoadCommit == ASSUME IInv, Load PROVE IInv' /\ StoreStep
<1> DEFINE f == Request.frame
           r == [op |-> "pins", frame |-> f]
           found == [shown EXCEPT !.frame = f]
           lost  == [shown EXCEPT !.frame = None, !.pins = {}]
<1>1. queue # <<>> /\ Request.op = "load" /\ Commits(db)
  BY DEF Load, Next1, Request
<1>2. /\ db' = db
      /\ UNCHANGED <<det, bufArmed, ids, pinIds, missed, hasty>>
      /\ NumbersOK' /\ NumbersOK /\ StoreOK(db, ids, pinIds)
      /\ ids \in Nat /\ Request \in Requests(ids) /\ Rest \in Seq(Requests(ids))
      /\ Request = queue[1] /\ 1 \in DOMAIN queue
      /\ ViewOK(Rest, shown, last, tab, ids) /\ (~hasty => Plain(Rest))
  BY <1>1, CommitFacts
<1>3. StoreOK(db', ids, pinIds') /\ StoreStep
  BY <1>2, SameStore
<1>4. f \in 1..ids
  BY <1>1, <1>2, RequestFacts
<1>5. UiOK(shown, ids)
  BY <1>2 DEF ViewOK
<1>6. UiOK(found, ids) /\ found.frame = f /\ UiOK(lost, ids) /\ lost.frame = None
  BY <1>4, <1>5 DEF UiOK, FrameIds
<1>7. /\ Display(found, last, tab) = Display(shown, last, tab)
      /\ Display(lost, last, tab) = Display(shown, last, tab)
  BY <1>5 DEF Display, UiOK
<1>8. r \in Requests(ids) /\ r.op \notin {"load", "clear", "protect"}
  BY <1>4 DEF Requests
<1> HIDE DEF found, lost, r
<1>9. ASSUME NEW ui \in {found, lost}, NEW asked, asked \in {Rest, Append(Rest, r)}, Idle(ui, asked)
      PROVE  IInv'
  <2>1. asked \in Seq(Requests(ids))
    BY <1>2, <1>8, <1>9
  <2>2. UiOK(ui, ids) /\ Display(ui, last, tab) = Display(shown, last, tab) /\ ui.frame \in {queue[1].frame, None}
    BY <1>2, <1>6, <1>7, <1>9
  <2>3. ViewOK(asked, ui, last, tab, ids)
    BY <1>2, <2>1, <2>2 DEF ViewOK
  <2>4. ASSUME ~hasty PROVE Plain(asked) /\ Shows(asked, ui, last, tab)
    <3>1. Shows(queue, shown, last, tab) /\ queue \in Seq(Requests(ids)) /\ IsLoad(queue, 1)
      BY <1>1, <1>2, <2>4, HeadFacts DEF Settling, IsLoad
    <3>2. Shows(Rest, ui, last, tab)
      BY <1>1, <2>2, <3>1, LoadedShows DEF Rest
    <3>3. Plain(Rest)
      BY <1>2, <2>4
    <3> QED
      BY <1>2, <1>8, <1>9, <3>2, <3>3, AppendShows, PlainFacts
  <2>5. Render(ui, last, tab, asked, FALSE)
    BY <1>9 DEF Idle
  <2> QED
    BY <1>1, <1>2, <1>3, <2>2, <2>3, <2>4, <2>5, SightStep
<1>10. Idle(found, Append(Rest, r)) \/ Idle(lost, Rest)
  BY DEF Load, found, lost, r
<1> QED
  BY <1>3, <1>9, <1>10

(* A request for the pins of a frame.                                      *)
LEMMA PinsRequest ==
  ASSUME NEW n \in Nat, NEW f \in 1..n
  PROVE  LET r == [op |-> "pins", frame |-> f]
         IN  r \in Requests(n) /\ r.op \notin {"load", "clear", "protect"}
BY DEF Requests

(* listing pins,                                                           *)
LEMMA ListPinsCommit == ASSUME IInv, ListPins PROVE IInv' /\ StoreStep
<1> DEFINE ui == [shown EXCEPT !.pins = PinsOf(db, Request.frame)]
<1>1. queue # <<>> /\ Request.op = "pins" /\ Commits(db) /\ Render(ui, last, tab, Rest, FALSE)
  BY DEF ListPins, Next1, Request, Idle
<1>2. /\ db' = db
      /\ UNCHANGED <<det, bufArmed, ids, pinIds, missed, hasty>>
      /\ NumbersOK' /\ NumbersOK /\ StoreOK(db, ids, pinIds) /\ ids \in Nat
      /\ ViewOK(Rest, shown, last, tab, ids) /\ (~hasty => Plain(Rest))
      /\ (~hasty => Shows(Rest, shown, last, tab))
  BY <1>1, CommitFacts
<1>3. StoreOK(db', ids, pinIds') /\ StoreStep
  BY <1>2, SameStore
<1>4. UiOK(ui, ids) /\ Display(ui, last, tab) = Display(shown, last, tab) /\ ui.frame = shown.frame
  <2>1. PinsOf(db, Request.frame) \subseteq 1..MaxPins
    BY <1>2, NavAssumption DEF PinsOf, StoreOK, IsTable, NumbersOK
  <2> DEFINE P == PinsOf(db, Request.frame)
  <2> HIDE DEF P
  <2>2. P \in SUBSET (1..MaxPins)
    BY <2>1 DEF P
  <2>3. UiOK([shown EXCEPT !.pins = P], ids)
    BY <1>2, <2>2 DEF ViewOK, UiOK
  <2> QED
    BY <1>2, <2>3 DEF Display, ViewOK, UiOK, P
<1> HIDE DEF ui
<1>5. ViewOK(Rest, ui, last, tab, ids)
  BY <1>2, <1>4 DEF ViewOK
<1>6. ~hasty => Shows(Rest, ui, last, tab)
  BY <1>2, <1>4 DEF Shows
<1> QED
  BY <1>1, <1>2, <1>3, <1>4, <1>5, <1>6, SightStep

(* looking for the frame of a pin,                                         *)
LEMMA CheckFrameCommit == ASSUME IInv, CheckFrame PROVE IInv' /\ StoreStep
<1> DEFINE r == [Request EXCEPT !.op = "putPin"]
           s == [op |-> "pins", frame |-> Request.frame]
<1>1. /\ queue # <<>> /\ Request.op = "check" /\ Commits(db)
      /\ Idle(shown, Append(Rest, r)) \/ Idle(shown, Append(Rest, s))
  BY DEF CheckFrame, Next1, Request
<1>2. /\ db' = db
      /\ UNCHANGED <<det, bufArmed, ids, pinIds, missed, hasty>>
      /\ NumbersOK' /\ StoreOK(db, ids, pinIds) /\ ids \in Nat /\ Request \in Requests(ids)
  BY <1>1, CommitFacts
<1>3. StoreOK(db', ids, pinIds') /\ StoreStep
  BY <1>2, SameStore
<1>4. /\ Request = [op |-> "check", frame |-> Request.frame, profile |-> Request.profile]
      /\ Request.frame \in 1..ids /\ Request.profile \in Profiles
  BY <1>1, <1>2, RequestFacts
<1>5. r = [op |-> "putPin", frame |-> Request.frame, profile |-> Request.profile]
  BY <1>4
<1>6. r \in Requests(ids) /\ r.op \notin {"load", "clear", "protect"}
  BY <1>4, <1>5 DEF Requests
<1>7. s \in Requests(ids) /\ s.op \notin {"load", "clear", "protect"}
  BY <1>2, <1>4, PinsRequest
<1> HIDE DEF r, s
<1> QED
  BY <1>1, <1>2, <1>3, <1>6, <1>7, QuietStep

(* writing a pin,                                                          *)
LEMMA StorePinCommit == ASSUME IInv, StorePin PROVE IInv' /\ StoreStep
<1> DEFINE s == [op |-> "pins", frame |-> Request.frame]
<1>1. /\ queue # <<>> /\ Request.op = "putPin" /\ pinIds < MaxPins /\ pinIds' = pinIds + 1
      /\ db' = PutPin(db, pinIds + 1, Request.frame, Request.profile)
      /\ Idle(shown, Append(Rest, s)) /\ UNCHANGED <<det, bufArmed, ids, missed, hasty>>
  BY DEF StorePin, Next1, Request
<1>2. NumbersOK /\ StoreOK(db, ids, pinIds) /\ ids \in Nat /\ Request \in Requests(ids)
  BY <1>1, HeadFacts
<1>3. Request.frame \in 1..ids /\ Request.profile \in Profiles
  BY <1>1, <1>2, RequestFacts
<1>4. StoreOK(db', ids, pinIds') /\ StoreStep
  BY <1>1, <1>2, <1>3, PutPinStep
<1>5. NumbersOK'
  BY <1>1, <1>2, NavAssumption DEF NumbersOK
<1>6. s \in Requests(ids) /\ s.op \notin {"load", "clear", "protect"}
  BY <1>2, <1>3, PinsRequest
<1> HIDE DEF s
<1> QED
  BY <1>1, <1>4, <1>5, <1>6, QuietStep

(* changing one,                                                           *)
LEMMA ChangePinCommit == ASSUME IInv, ChangePin PROVE IInv' /\ StoreStep
<1> DEFINE s == [op |-> "pins", frame |-> Request.frame]
<1>1. /\ queue # <<>> /\ Request.op \in {"updatePin", "deletePin"}
      /\ Commits(UpdatePin(db, Request.pin)) \/ Commits(DeletePin(db, Request.pin))
      /\ Idle(shown, Append(Rest, s))
  BY DEF ChangePin, Next1, Request
<1>2. /\ db' = UpdatePin(db, Request.pin) \/ db' = DeletePin(db, Request.pin)
      /\ UNCHANGED <<det, bufArmed, ids, pinIds, missed, hasty>>
      /\ NumbersOK' /\ NumbersOK /\ StoreOK(db, ids, pinIds) /\ ids \in Nat
      /\ Request \in Requests(ids)
  BY <1>1, CommitFacts
<1>3. Request.frame \in 1..ids
  BY <1>1, <1>2, RequestFacts
<1>4. StoreOK(db', ids, pinIds) /\ StoreStep
  BY <1>2, UpdatePinStep, DeletePinStep
<1>5. StoreOK(db', ids, pinIds')
  BY <1>2, <1>4
<1>6. s \in Requests(ids) /\ s.op \notin {"load", "clear", "protect"}
  BY <1>2, <1>3, PinsRequest
<1> HIDE DEF s
<1> QED
  BY <1>1, <1>2, <1>4, <1>5, <1>6, QuietStep

(* and what another window does.                                           *)
LEMMA OtherWindowStep == ASSUME IInv, OtherWindow PROVE IInv' /\ StoreStep
<1>1. UNCHANGED <<queue, det, bufArmed, tab, last, shown, pinIds, missed, hasty>>
  BY DEF OtherWindow
<1>2. /\ NumbersOK /\ StoreOK(db, ids, pinIds) /\ ids \in Nat
      /\ ViewOK(queue, shown, last, tab, ids) /\ hasty \in BOOLEAN
  BY Numbers DEF IInv, TypeOK
<1>3. Settling' /\ DetectorOK'
  BY <1>1 DEF IInv, Settling, DetectorOK, ArmedHasTimer
<1>4. PICK p \in Profiles :
        \/ db' = ClearProfile(db, p) /\ UNCHANGED ids
        \/ ids < MaxIds /\ ids' = ids + 1 /\ db' = PutFrameOnce(db, p, ids + 1)
  BY DEF OtherWindow
<1>5. CASE db' = ClearProfile(db, p) /\ UNCHANGED ids
  <2>1. StoreOK(db', ids, pinIds) /\ StoreStep
    BY <1>2, <1>5, ClearStep
  <2>2. TypeOK'
    BY <1>1, <1>2, <1>5, <2>1 DEF TypeOK, NumbersOK
  <2> QED
    BY <1>3, <2>1, <2>2 DEF IInv
<1>6. CASE ids < MaxIds /\ ids' = ids + 1 /\ db' = PutFrameOnce(db, p, ids + 1)
  <2>1. StoreOK(db', ids', pinIds) /\ StoreStep
    BY <1>2, <1>6, PutFrameStep
  <2>2. NumbersOK'
    BY <1>1, <1>2, <1>6, NavAssumption DEF NumbersOK
  <2>3. ViewOK(queue, shown, last, tab, ids')
    BY <1>2, <1>6, MoreFrames DEF ViewOK
  <2>4. TypeOK'
    BY <1>1, <1>2, <2>1, <2>2, <2>3 DEF TypeOK
  <2> QED
    BY <1>3, <2>1, <2>4 DEF IInv
<1> QED
  BY <1>4, <1>5, <1>6

(* A page without map and without anything that waits.                     *)
LEMMA FreshPage ==
  ASSUME NEW n \in Nat, NEW t \in Tabs
  PROVE  LET l == [s \in Tabs |-> None]
         IN  /\ ViewOK(<<>>, Nothing, l, t, n)
             /\ Shows(<<>>, Nothing, l, t) /\ InTurn(<<>>, Nothing, l, t)
<1> DEFINE l == [s \in Tabs |-> None]
<1>1. UiOK(Nothing, n) /\ LastOK(l, n) /\ Nothing.frame = None
  BY DEF UiOK, Nothing, FrameIds, LastOK
<1>2. <<>> \in Seq(Requests(n)) /\ DOMAIN <<>> = {}
  OBVIOUS
<1> HIDE DEF l
<1>3. ViewOK(<<>>, Nothing, l, t, n)
  BY <1>1, <1>2 DEF ViewOK
<1>4. Shows(<<>>, Nothing, l, t) /\ InTurn(<<>>, Nothing, l, t)
  BY <1>1, <1>2 DEF Shows, InTurn
<1> QED
  BY <1>3, <1>4 DEF l

(* A new detector is one, with no timer.                                   *)
LEMMA FreshDetector == NewDetector \in Detectors /\ ~NewDetector.armed
<1>1. MinRows \in Nat
  BY NavAssumption
<1> QED
  BY <1>1 DEF NewDetector, Detectors

(* A reload keeps the invariant.                                           *)
LEMMA ReloadStep == ASSUME IInv, Reload PROVE IInv' /\ StoreStep
<1>1. NumbersOK /\ StoreOK(db, ids, pinIds) /\ ids \in Nat
  BY Numbers DEF IInv, TypeOK
<1>2. /\ queue' = <<>> /\ det' = NewDetector /\ bufArmed' = FALSE /\ tab' \in Tabs
      /\ last' = [t \in Tabs |-> None] /\ shown' = Nothing
      /\ missed' = FALSE /\ hasty' = FALSE /\ UNCHANGED <<db, ids, pinIds>>
  BY DEF Reload
<1>3. /\ ViewOK(queue', shown', last', tab', ids)
      /\ Shows(queue', shown', last', tab') /\ InTurn(queue', shown', last', tab')
  BY <1>1, <1>2, FreshPage
<1>4. TypeOK'
  BY <1>1, <1>2, <1>3 DEF TypeOK, NumbersOK
<1>5. DetectorOK'
  BY <1>2, FreshDetector DEF DetectorOK, ArmedHasTimer
<1>6. Settling'
  BY <1>3 DEF Settling
<1> QED
  BY <1>2, <1>4, <1>5, <1>6, SameStore DEF IInv

-----------------------------------------------------------------------------
(* The first state is in the invariant and maps to an abstract first one.  *)
LEMMA InitIs == Init => IInv /\ Memory!Init
<1> SUFFICES ASSUME Init PROVE IInv /\ Memory!Init
  OBVIOUS
<1>1. /\ db = EmptyStore /\ queue = <<>> /\ det = NewDetector /\ bufArmed = FALSE
      /\ tab \in Tabs /\ last = [t \in Tabs |-> None] /\ shown = Nothing
      /\ ids = 0 /\ pinIds = 0 /\ missed = FALSE /\ hasty = FALSE
  BY DEF Init
<1>2. NumbersOK
  BY <1>1, NavAssumption DEF NumbersOK
<1>3. \A R : IsTable(<<>>, 0, R)
  <2>1. DOMAIN <<>> = {} /\ \A R : <<>> \in [{} -> R]
    OBVIOUS
  <2> QED
    BY <2>1 DEF IsTable
<1>4. StoreOK(db, ids, pinIds)
  BY <1>1, <1>3 DEF StoreOK, EmptyStore
<1>5. /\ ViewOK(queue, shown, last, tab, ids)
      /\ Shows(queue, shown, last, tab) /\ InTurn(queue, shown, last, tab)
  BY <1>1, FreshPage
<1>6. DetectorOK
  BY <1>1, FreshDetector DEF DetectorOK, ArmedHasTimer
<1>7. IInv
  BY <1>1, <1>2, <1>4, <1>5, <1>6 DEF IInv, TypeOK, Settling
<1>8. Memory!Init
  <2>1. db.frames = <<>> /\ db.pins = <<>> /\ DOMAIN <<>> = {}
    BY <1>1 DEF EmptyStore
  <2>2. Kept = [q \in {} |-> db.pins[q]]
    BY <2>1 DEF Kept, Restrict
  <2>3. Kept = <<>>
    BY <2>2
  <2> QED
    BY <2>1, <2>3 DEF Memory!Init
<1> QED
  BY <1>7, <1>8

(* Every step keeps the invariant and maps to a step or a stutter.         *)
LEMMA StepIs == IInv /\ [Next]_vars => IInv' /\ StoreStep
<1> SUFFICES ASSUME IInv, [Next]_vars PROVE IInv' /\ StoreStep
  OBVIOUS
<1>1. CASE Screen
  BY <1>1, ScreenStep
<1>2. CASE AutoDetect
  BY <1>2, AutoDetectStep
<1>3. CASE TimerFires("settle") \/ TimerFires("retry")
  BY <1>3, TimerStep
<1>4. CASE IntervalEnds
  <2>1. det \in Detectors /\ det' = [det EXCEPT !.recent = FALSE]
    BY <1>4 DEF IntervalEnds, IInv, DetectorOK
  <2>2. /\ det' \in Detectors /\ det'.armed = det.armed /\ det'.auto = det.auto
        /\ det'.settle = det.settle /\ det'.retry = det.retry
    BY <2>1 DEF Detectors
  <2>3. UNCHANGED <<db, queue, bufArmed, tab, last, shown, ids, pinIds, missed, hasty>>
    BY <1>4 DEF IntervalEnds
  <2>4. TypeOK' /\ Settling'
    BY <2>3 DEF IInv, TypeOK, NumbersOK, Settling
  <2>5. DetectorOK'
    BY <2>2, <2>3 DEF IInv, DetectorOK, ArmedHasTimer
  <2> QED
    BY <2>3, <2>4, <2>5, SameStore DEF IInv
<1>5. CASE UserActs
  BY <1>5, UserStep
<1>6. CASE SwitchTab
  BY <1>6, SwitchStep
<1>7. CASE Commit
  BY <1>7, PutStep, EvictQuotaStep, ProtectCommit, ClearCommit, ListCommit, LoadCommit,
     ListPinsCommit, CheckFrameCommit, StorePinCommit, ChangePinCommit DEF Commit
<1>8. CASE OtherWindow
  BY <1>8, OtherWindowStep
<1>9. CASE Reload
  BY <1>9, ReloadStep
<1>10. CASE UNCHANGED vars
  <2>1. UNCHANGED <<db, queue, det, bufArmed, tab, last, shown, ids, pinIds, missed, hasty>>
    BY <1>10 DEF vars
  <2>2. TypeOK' /\ Settling' /\ DetectorOK'
    BY <2>1 DEF IInv, TypeOK, NumbersOK, Settling, DetectorOK, ArmedHasTimer
  <2> QED
    BY <2>1, <2>2, SameStore DEF IInv
<1> QED
  BY <1>1, <1>2, <1>3, <1>4, <1>5, <1>6, <1>7, <1>8, <1>9, <1>10 DEF Next

(* Whatever the tabs and windows do, what waits names frames that were     *)
(* stored, and what is asked to be shown is not forgotten.                 *)
THEOREM NavInvariant == Spec => []IInv
<1>1. Init => IInv
  BY InitIs
<1>2. IInv /\ [Next]_vars => IInv'
  BY StepIs
<1> QED
  BY <1>1, <1>2, PTL DEF Spec

(* When the store is done, the companion shows the frame of the tab or the *)
(* frozen one, and never another.                                          *)
THEOREM ShowsTheTabsMap == Spec => []ShowsWhatIsAsked
<1>1. IInv => ShowsWhatIsAsked
  <2> SUFFICES ASSUME IInv, queue = <<>>, ~hasty
               PROVE  shown.frame \in {Display(shown, last, tab), None}
    BY DEF ShowsWhatIsAsked
  <2>1. \A i \in DOMAIN queue : FALSE
    OBVIOUS
  <2> QED
    BY <2>1 DEF IInv, Settling, Shows
<1> QED
  BY <1>1, NavInvariant, PTL

(* A burst that was noticed has a timer that will have it stored, unless   *)
(* it settled while the one before it was being stored.                    *)
THEOREM BurstsAreWoken == Spec => []ArmedHasTimer
<1>1. IInv => ArmedHasTimer
  BY DEF IInv, DetectorOK
<1> QED
  BY <1>1, NavInvariant, PTL

(* No step drops a frame and lets the pins of its profile lie about.       *)
THEOREM PinsLeaveWithFrames == Spec => PinsGoWithFrame
<1>1. IInv /\ [Next]_vars => PinsKept
  BY StepIs DEF StoreStep
<1> QED
  BY <1>1, NavInvariant, PTL DEF Spec, PinsGoWithFrame, PinsKept

(* The store in IndexedDB, with its methods cut into transactions, behaves *)
(* as the store in memory, up to pins whose frame is gone.                 *)
THEOREM RefinesNavMemory == Spec => ImplementsNavMemory
<1>1. Init => Memory!Init
  BY InitIs
<1>2. IInv /\ [Next]_vars => [Memory!Next]_(Memory!vars)
  BY StepIs DEF StoreStep
<1> QED
  BY <1>1, <1>2, NavInvariant, PTL DEF Spec, ImplementsNavMemory, Memory!Spec

=============================================================================

------------------------ MODULE VaultLifecycle_proofs ------------------------
(***************************************************************************)
(* Theorems about VaultLifecycle, for every number of tabs, calls, reloads *)
(* and failing writes.                                                     *)
(***************************************************************************)
EXTENDS VaultLifecycle, SequenceTheorems, TLAPS

StepNames == {"idle", "encrypting", "deriving", "opening", "putting", "put",
              "deleting", "deleted", "reading", "read", "decrypting", "dropping", "hung"}

(* Where the envelope the operation wrote may be stored already.           *)
MaybeStored == {"putting", "put", "hung"}

Items   == [kind : Kinds, id : Ids, obj : Nat]
Waiting == [at : {"opening", "saving"}, id : Ids, obj : Nat, fresh : BOOLEAN]

StoreTypes ==
  /\ metaGen \in Nat
  /\ env \in Envelopes \cup {NoVault}
  /\ env # NoVault => env.data \subseteq Ids \cup {Legacy}
  /\ key \in KeyRecords \cup {NoKey}

RunTypes ==
  /\ queue \in [Tabs -> Seq(Items)]
  /\ step \in [Tabs -> StepNames]
  /\ DOMAIN local = Tabs

TabTypes ==
  /\ objects \in [Tabs -> Seq(Envelopes)]
  /\ \A t \in Tabs : \A i \in 1..Len(objects[t]) :
       objects[t][i].data \subseteq Ids \cup {Legacy}
  /\ session \in [Tabs -> Nat]

CallTypes ==
  /\ calls \in 0..MaxCalls
  /\ acked \subseteq (Ids \cup {Legacy}) \X Nat
  /\ migration \in [Tabs -> Waiting \cup {NoMigration}]

TypeOK == StoreTypes /\ RunTypes /\ TabTypes /\ CallTypes

(* What a tab refers to is there.                                          *)
RefsInv ==
  \A t \in Tabs :
    /\ session[t] <= Len(objects[t])
    /\ \A i \in 1..Len(queue[t]) :
         queue[t][i].kind = "persist" => queue[t][i].obj \in 1..Len(objects[t])
    /\ migration[t].at = "saving" => migration[t].obj \in 1..Len(objects[t])

(* The numbers a migration still has to give to its operations.            *)
Reserved(t) ==
  CASE migration[t].at = "opening" -> {migration[t].id + 1, migration[t].id + 2}
    [] migration[t].at = "saving"  -> {migration[t].id + 1}
    [] OTHER -> {}

(* No number is given twice, or before it was drawn.                       *)
IdsInv ==
  \A t \in Tabs :
    /\ migration[t] # NoMigration => migration[t].id <= calls
    /\ \A p \in Reserved(t) :
         p \in 1..calls /\ \A u \in Tabs : u # t => p \notin Reserved(u)
    /\ \A i \in 1..Len(queue[t]) :
         /\ queue[t][i].id <= calls
         /\ \A u \in Tabs :
              /\ queue[t][i].id \notin Reserved(u)
              /\ \A j \in 1..Len(queue[u]) :
                   queue[t][i].id = queue[u][j].id => t = u /\ i = j

(* What is written down under the number k.                                *)
Stored(k) ==
  \/ env # NoVault /\ k \in {env.raw, env.salt}
  \/ \E t \in Tabs : \E i \in 1..Len(objects[t]) :
       k \in {objects[t][i].raw, objects[t][i].salt}
  \/ \E a \in acked : a[2] = k

(* Nothing is, until the operation of that number has written it.          *)
FreshInv ==
  /\ env # NoVault => env.raw <= calls /\ env.salt <= calls
  /\ \A t \in Tabs : \A i \in 1..Len(objects[t]) :
       objects[t][i].raw <= calls /\ objects[t][i].salt <= calls
  /\ \A a \in acked : a[2] <= calls
  /\ \A t \in Tabs :
       /\ \A p \in Reserved(t) : ~Stored(p)
       /\ \A i \in 1..Len(queue[t]) :
            (i = 1 => step[t] \notin MaybeStored) => ~Stored(queue[t][i].id)

(* What an operation under way has read is still so when it goes on.       *)
ReadInv(t) ==
  /\ step[t] = "encrypting" =>
       /\ Op(t).kind = "persist" /\ env # NoVault
       /\ local[t].snap = <<metaGen, env>>
       /\ IsCurrent(objects[t][Op(t).obj])
       /\ env.data \subseteq local[t].data
       /\ local[t].data \subseteq objects[t][Op(t).obj].data
       /\ (migration[t].at = "saving" /\ Op(t).id = migration[t].id)
            => Legacy \in local[t].data
  /\ step[t] = "deriving" => local[t] = metaGen + 1 /\ env = NoVault
  /\ step[t] = "opening" => local[t] = env /\ env # NoVault
  /\ step[t] = "putting" => local[t] \in KeyRecords
  /\ step[t] \in {"reading", "read", "decrypting"} => remember /\ allowed
  /\ step[t] = "read" => key # NoKey /\ local[t] = key
  /\ step[t] = "decrypting" =>
       key # NoKey /\ env # NoVault /\ local[t] = [key |-> key, env |-> env]

(* It has the lock.                                                        *)
LockInv ==
  \A t \in Tabs :
    step[t] # "idle" => queue[t] # <<>> /\ owner = t /\ ReadInv(t)

(* An object whose text is the one stored holds all that is stored.        *)
CopyInv ==
  \A t \in Tabs : \A i \in 1..Len(objects[t]) :
    env # NoVault /\ objects[t][i].raw = env.raw =>
      objects[t][i].salt = env.salt /\ env.data \subseteq objects[t][i].data

(* The save a migration waits for is of the payload it imported into.      *)
MigrationInv ==
  \A t \in Tabs :
    migration[t].at = "saving" =>
      /\ Legacy \in objects[t][migration[t].obj].data
      /\ objects[t][migration[t].obj].raw = migration[t].id
           => <<Legacy, objects[t][migration[t].obj].salt>> \in acked
      /\ \A i \in 1..Len(queue[t]) :
           queue[t][i].id = migration[t].id =>
             queue[t][i].kind = "persist" /\ queue[t][i].obj = migration[t].obj

IInv ==
  /\ TypeOK /\ RefsInv /\ IdsInv /\ FreshInv /\ LockInv /\ CopyInv /\ MigrationInv
  /\ AcknowledgedIsDurable

-----------------------------------------------------------------------------
Dequeues(t)    == queue[t] # <<>> /\ queue' = [queue EXCEPT ![t] = Tail(@)]
Enqueues(t, x) == queue' = [queue EXCEPT ![t] = Append(@, x)]

(* The operation that runs is the first of the queue.                      *)
LEMMA OpFacts ==
  ASSUME TypeOK, NEW t \in Tabs, queue[t] # <<>>
  PROVE  /\ 1 \in 1..Len(queue[t]) /\ Op(t) = queue[t][1]
         /\ Op(t) \in Items /\ Op(t).id \in Ids /\ Op(t).id \in Nat /\ Op(t).obj \in Nat
<1>1. queue[t] \in Seq(Items)
  BY DEF TypeOK, RunTypes, TabTypes
<1>2. 1 \in 1..Len(queue[t]) /\ Op(t) = queue[t][1] /\ Op(t) \in Items
  BY <1>1, HeadTailProperties DEF Op
<1> QED
  BY <1>2 DEF Items, Ids

(* An operation that ends leaves the others in their order.                *)
LEMMA DequeueFacts ==
  ASSUME TypeOK, NEW t \in Tabs, Dequeues(t)
  PROVE  /\ queue' \in [Tabs -> Seq(Items)]
         /\ \A u \in Tabs : u # t => queue'[u] = queue[u]
         /\ \A i \in 1..Len(queue'[t]) :
               i + 1 \in 1..Len(queue[t]) /\ queue'[t][i] = queue[t][i + 1]
<1>1. queue[t] \in Seq(Items) /\ queue[t] # <<>>
  BY DEF TypeOK, RunTypes, TabTypes, Dequeues
<1>2. /\ Tail(queue[t]) \in Seq(Items)
      /\ Len(Tail(queue[t])) = Len(queue[t]) - 1 /\ Len(queue[t]) \in Nat
      /\ \A i \in 1..Len(Tail(queue[t])) : Tail(queue[t])[i] = queue[t][i + 1]
  BY <1>1, HeadTailProperties
<1>3. queue'[t] = Tail(queue[t]) /\ \A u \in Tabs : u # t => queue'[u] = queue[u]
  BY DEF TypeOK, RunTypes, TabTypes, Dequeues
<1>4. \A i \in 1..Len(queue'[t]) : i + 1 \in 1..Len(queue[t])
  BY <1>2, <1>3
<1>5. queue' \in [Tabs -> Seq(Items)]
  BY <1>2 DEF TypeOK, RunTypes, TabTypes, Dequeues
<1> QED
  BY <1>2, <1>3, <1>4, <1>5

(* An operation that is called comes last.                                 *)
LEMMA EnqueueFacts ==
  ASSUME TypeOK, NEW t \in Tabs, NEW x \in Items, Enqueues(t, x)
  PROVE  /\ queue' \in [Tabs -> Seq(Items)]
         /\ \A u \in Tabs : u # t => queue'[u] = queue[u]
         /\ Len(queue'[t]) = Len(queue[t]) + 1 /\ Len(queue[t]) \in Nat
         /\ \A i \in 1..Len(queue[t]) : queue'[t][i] = queue[t][i]
         /\ queue'[t][Len(queue[t]) + 1] = x
         /\ queue'[t] # <<>>
         /\ queue[t] # <<>> => Head(queue'[t]) = Head(queue[t])
<1>1. queue[t] \in Seq(Items)
  BY DEF TypeOK, RunTypes, TabTypes
<1>2. queue'[t] = Append(queue[t], x) /\ \A u \in Tabs : u # t => queue'[u] = queue[u]
  BY DEF TypeOK, RunTypes, TabTypes, Enqueues
<1>3. Append(queue[t], x) \in Seq(Items)
  BY <1>1
<1>4. queue' \in [Tabs -> Seq(Items)]
  BY <1>3 DEF TypeOK, RunTypes, TabTypes, Enqueues
<1>5. /\ Len(queue'[t]) = Len(queue[t]) + 1 /\ Len(queue[t]) \in Nat
      /\ \A i \in 1..Len(queue[t]) : queue'[t][i] = queue[t][i]
      /\ queue'[t][Len(queue[t]) + 1] = x
  BY <1>1, <1>2, AppendProperties
<1>6. queue'[t] # <<>>
  BY <1>1, <1>2, AppendProperties
<1>7. queue[t] # <<>> => Head(queue'[t]) = Head(queue[t])
  BY <1>1, <1>2, <1>3, <1>5
<1> QED
  BY <1>2, <1>4, <1>5, <1>6, <1>7

(* A session is installed as one more object of its tab.                   *)
LEMMA InstallFacts ==
  ASSUME TypeOK, NEW t \in Tabs, NEW s \in Envelopes, s.data \subseteq Ids \cup {Legacy},
         Install(t, s)
  PROVE  /\ objects' \in [Tabs -> Seq(Envelopes)]
         /\ session' \in [Tabs -> Nat]
         /\ \A u \in Tabs : u # t => objects'[u] = objects[u] /\ session'[u] = session[u]
         /\ Len(objects'[t]) = Len(objects[t]) + 1 /\ Len(objects[t]) \in Nat
         /\ session'[t] = Len(objects[t]) + 1
         /\ \A i \in 1..Len(objects[t]) : objects'[t][i] = objects[t][i]
         /\ objects'[t][Len(objects[t]) + 1] = s
<1>1. objects[t] \in Seq(Envelopes) /\ Len(objects[t]) \in Nat
  BY DEF TypeOK, RunTypes, TabTypes
<1>2. /\ objects'[t] = Append(objects[t], s) /\ session'[t] = Len(objects[t]) + 1
      /\ \A u \in Tabs : u # t => objects'[u] = objects[u] /\ session'[u] = session[u]
  BY DEF TypeOK, RunTypes, TabTypes, Install
<1>3. Append(objects[t], s) \in Seq(Envelopes)
  BY <1>1
<1>4. objects' \in [Tabs -> Seq(Envelopes)]
  BY <1>3 DEF TypeOK, RunTypes, TabTypes, Install
<1>5. session' \in [Tabs -> Nat]
  BY <1>1 DEF TypeOK, RunTypes, TabTypes, Install
<1>6. /\ Len(objects'[t]) = Len(objects[t]) + 1
      /\ \A i \in 1..Len(objects[t]) : objects'[t][i] = objects[t][i]
      /\ objects'[t][Len(objects[t]) + 1] = s
  BY <1>1, <1>2, AppendProperties
<1> QED
  BY <1>1, <1>2, <1>4, <1>5, <1>6

(* So every object is one that was there, or the one installed.            *)
LEMMA InstalledObjects ==
  ASSUME TypeOK, NEW t \in Tabs, NEW s \in Envelopes, s.data \subseteq Ids \cup {Legacy},
         Install(t, s), NEW u \in Tabs, NEW i \in 1..Len(objects'[u])
  PROVE  \/ i \in 1..Len(objects[u]) /\ objects'[u][i] = objects[u][i]
         \/ objects'[u][i] = s
<1>1. CASE u # t
  BY <1>1, InstallFacts
<1>2. CASE u = t
  <2>1. i \in 1..Len(objects[t]) \/ i = Len(objects[t]) + 1
    BY <1>2, InstallFacts
  <2> QED
    BY <1>2, <2>1, InstallFacts
<1> QED
  BY <1>1, <1>2

(* One field of one object is written; k is its number and o what it is    *)
(* from now on.                                                            *)
LEMMA ObjectFacts ==
  ASSUME TypeOK, NEW t \in Tabs, NEW k \in 1..Len(objects[t]), NEW o \in Envelopes,
         objects' = [objects EXCEPT ![t][k] = o]
  PROVE  /\ objects' \in [Tabs -> Seq(Envelopes)]
         /\ \A u \in Tabs : u # t => objects'[u] = objects[u]
         /\ Len(objects'[t]) = Len(objects[t])
         /\ \A i \in 1..Len(objects[t]) : i # k => objects'[t][i] = objects[t][i]
         /\ objects'[t][k] = o
<1>1. objects[t] \in Seq(Envelopes)
  BY DEF TypeOK, RunTypes, TabTypes
<1>2. /\ objects'[t] = [objects[t] EXCEPT ![k] = o]
      /\ \A u \in Tabs : u # t => objects'[u] = objects[u]
  BY DEF TypeOK, RunTypes, TabTypes
<1>3. /\ [objects[t] EXCEPT ![k] = o] \in Seq(Envelopes)
      /\ Len([objects[t] EXCEPT ![k] = o]) = Len(objects[t])
      /\ \A i \in 1..Len(objects[t]) :
            [objects[t] EXCEPT ![k] = o][i] = IF i = k THEN o ELSE objects[t][i]
  BY <1>1, ExceptSeq
<1>4. objects' \in [Tabs -> Seq(Envelopes)]
  BY <1>2, <1>3 DEF TypeOK, RunTypes, TabTypes
<1> QED
  BY <1>2, <1>3, <1>4

(* A user's change, or the import, adds to the payload of the current      *)
(* session and leaves the rest of it alone.                                *)
Adds(t, c) == objects' = [objects EXCEPT ![t][session[t]].data = @ \cup {c}]

(* A change of a payload only adds to it.                                  *)
LEMMA ChangeFacts ==
  ASSUME TypeOK, RefsInv, NEW t \in Tabs, session[t] # 0,
         NEW c \in Ids \cup {Legacy}, Adds(t, c)
  PROVE  /\ session[t] \in 1..Len(objects[t])
         /\ objects' \in [Tabs -> Seq(Envelopes)]
         /\ \A u \in Tabs : u # t => objects'[u] = objects[u]
         /\ \A u \in Tabs : Len(objects'[u]) = Len(objects[u])
         /\ \A i \in 1..Len(objects[t]) :
              /\ i # session[t] => objects'[t][i] = objects[t][i]
              /\ objects'[t][i].raw = objects[t][i].raw
              /\ objects'[t][i].rev = objects[t][i].rev
              /\ objects'[t][i].gen = objects[t][i].gen
              /\ objects'[t][i].salt = objects[t][i].salt
              /\ objects[t][i].data \subseteq objects'[t][i].data
              /\ objects'[t][i].data \subseteq Ids \cup {Legacy}
         /\ c \in objects'[t][session[t]].data
<1> DEFINE k == session[t]
           o == [objects[t][k] EXCEPT !.data = @ \cup {c}]
<1>1. k \in 1..Len(objects[t]) /\ objects[t] \in Seq(Envelopes)
  BY DEF TypeOK, TabTypes, RefsInv
<1>2. objects[t][k] \in Envelopes /\ c \in Nat
  BY <1>1, ElementOfSeq DEF Ids, Legacy
<1>3. /\ o \in Envelopes
      /\ o.raw = objects[t][k].raw /\ o.rev = objects[t][k].rev
      /\ o.gen = objects[t][k].gen /\ o.salt = objects[t][k].salt
      /\ o.data = objects[t][k].data \cup {c}
  BY <1>2 DEF Envelopes
<1>4. objects' = [objects EXCEPT ![t][k] = o]
  BY DEF Adds
<1>5. o.data \subseteq Ids \cup {Legacy}
  BY <1>1, <1>3 DEF TypeOK, TabTypes
<1>8. o \in Envelopes
  BY <1>3
<1> HIDE DEF o, k
<1>6. /\ objects' \in [Tabs -> Seq(Envelopes)]
      /\ \A u \in Tabs : u # t => objects'[u] = objects[u]
      /\ Len(objects'[t]) = Len(objects[t])
      /\ \A i \in 1..Len(objects[t]) : i # k => objects'[t][i] = objects[t][i]
      /\ objects'[t][k] = o
  BY ONLY ZenonT(60), TypeOK, t \in Tabs, <1>1, <1>8, <1>4, ObjectFacts
<1>7. ASSUME NEW i \in 1..Len(objects[t])
      PROVE  /\ objects'[t][i].raw = objects[t][i].raw
             /\ objects'[t][i].rev = objects[t][i].rev
             /\ objects'[t][i].gen = objects[t][i].gen
             /\ objects'[t][i].salt = objects[t][i].salt
             /\ objects[t][i].data \subseteq objects'[t][i].data
             /\ objects'[t][i].data \subseteq Ids \cup {Legacy}
  <2>1. CASE i = k
    BY <1>3, <1>5, <1>6, <2>1
  <2>2. CASE i # k
    BY <1>6, <2>2 DEF TypeOK, TabTypes
  <2> QED
    BY <2>1, <2>2
<1> QED
  BY <1>1, <1>3, <1>6, <1>7 DEF k

-----------------------------------------------------------------------------
(* The running operation of t ends, or awaits the next thing.              *)
Ends(t) ==
  /\ Dequeues(t)
  /\ step' = [step EXCEPT ![t] = "idle"] /\ local' = [local EXCEPT ![t] = <<>>]
  /\ owner' = IF owner = t THEN NoTab ELSE owner

Goes(t) ==
  /\ queue[t] # <<>> /\ UNCHANGED queue
  /\ step'[t] \in StepNames \ {"idle"} /\ step' = [step EXCEPT ![t] = step'[t]]
  /\ step[t] \in MaybeStored => step'[t] \in MaybeStored \ {"putting"}
  /\ local' = [local EXCEPT ![t] = local'[t]]
  /\ owner' = t

(* A tab goes on only with the lock, or when nobody has it.                *)
LEMMA StepShape ==
  ASSUME UseLocks, TypeOK, LockInv, NEW t \in Tabs, Steps(t)
  PROVE  /\ owner \in {t, NoTab} /\ queue[t] # <<>> /\ UNCHANGED calls
         /\ Ends(t) \/ Goes(t)
<1> USE DEF Ends, Goes, Dequeues, StepNames, MaybeStored, RunTypes
<1>1. step[t] # "idle" => queue[t] # <<>> /\ owner = t
  BY DEF LockInv
<1>2. ASSUME NEW k, Starts(t, k)
      PROVE  /\ owner = NoTab /\ queue[t] # <<>>
             /\ Finish(t) => Ends(t)
             /\ \A l : \A s \in StepNames \ {"idle"} : Takes(t, s, l) => Goes(t)
  BY <1>2 DEF Starts, Runs, LockIsFree, Finish, Takes, TypeOK
<1>3. ASSUME step[t] # "idle"
      PROVE  /\ owner = t /\ queue[t] # <<>>
             /\ Finish(t) => Ends(t)
             /\ \A l : \A s \in StepNames \ {"idle"} :
                  (Await(t, s, l) /\ (step[t] \in MaybeStored => s \in MaybeStored \ {"putting"}))
                    => Goes(t)
  BY <1>1, <1>3 DEF Finish, Await, TypeOK
<1> HIDE DEF Ends, Goes, Dequeues, RunTypes
<1>4. CASE PersistStart(t) BY <1>2, <1>4 DEF PersistStart
<1>5. CASE PersistWrite(t) BY <1>3, <1>5 DEF PersistWrite
<1>6. CASE CreateStart(t) BY <1>2, <1>6 DEF CreateStart
<1>7. CASE CreateWrite(t) BY <1>3, <1>7 DEF CreateWrite, MaybePut
<1>8. CASE UnlockStart(t) BY <1>2, <1>8 DEF UnlockStart
<1>9. CASE UnlockInstall(t) BY <1>3, <1>9 DEF UnlockInstall, MaybePut
<1>10. CASE RememberOnStart(t) BY <1>2, <1>10 DEF RememberOnStart
<1>11. CASE PutKey(t) BY <1>3, <1>11 DEF PutKey, NeverSettles
<1>12. CASE KeyIsPut(t) BY <1>3, <1>12 DEF KeyIsPut
<1>13. CASE LockStart(t) BY <1>2, <1>13 DEF LockStart, Revoke
<1>14. CASE ClearStart(t) BY <1>2, <1>14 DEF ClearStart, Revoke
<1>15. CASE RememberOffStart(t) BY <1>2, <1>15 DEF RememberOffStart, Revoke
<1>16. CASE DeleteKey(t) BY <1>3, <1>16 DEF DeleteKey, NeverSettles
<1>17. CASE KeyIsDeleted(t) BY <1>3, <1>17 DEF KeyIsDeleted
<1>18. CASE RestoreStart(t) BY <1>2, <1>18 DEF RestoreStart
<1>19. CASE RestoreReadKey(t) BY <1>3, <1>19 DEF RestoreReadKey
<1>20. CASE RestoreReadVault(t) BY <1>3, <1>20 DEF RestoreReadVault
<1>21. CASE RestoreInstall(t) BY <1>3, <1>21 DEF RestoreInstall
<1>22. CASE DropKey(t) BY <1>3, <1>22 DEF DropKey, NeverSettles
<1> QED
  BY <1>4, <1>5, <1>6, <1>7, <1>8, <1>9, <1>10, <1>11, <1>12, <1>13, <1>14, <1>15,
     <1>16, <1>17, <1>18, <1>19, <1>20, <1>21, <1>22 DEF Steps

(* What the steps do to the vault and to the objects: nothing, but for     *)
(* taking the envelope away; a save; a new vault; or one more copy of the  *)
(* envelope.                                                               *)
Quiet(t) ==
  /\ UNCHANGED <<objects, acked>> /\ env' \in {env, NoVault}
  /\ session' \in {session, [session EXCEPT ![t] = 0]}

Saves(t) ==
  /\ step[t] = "encrypting" /\ Ends(t)
  /\ env' = NextEnvelope(t)
  /\ objects' = [objects EXCEPT ![t][Op(t).obj] =
       [@ EXCEPT !.rev = env'.rev, !.raw = env'.raw]]
  /\ acked' = acked \cup (env'.data \X {env'.salt})
  /\ UNCHANGED <<metaGen, key, session>>

NewVault(t) ==
  [gen |-> local[t], rev |-> 1, raw |-> Op(t).id, salt |-> Op(t).id, data |-> {}]

Founds(t) ==
  /\ step[t] = "deriving"
  /\ Ends(t) \/ (Goes(t) /\ step'[t] = "putting")
  /\ env' = NewVault(t) /\ metaGen' = local[t] /\ UNCHANGED <<key, acked>>
  /\ Install(t, NewVault(t))

Copies(t) == env # NoVault /\ Install(t, env) /\ UNCHANGED <<metaGen, env, key, acked>>

(* Every step is one of them.                                              *)
LEMMA StepKinds ==
  ASSUME UseLocks, TypeOK, LockInv, NEW t \in Tabs, Steps(t)
  PROVE  Quiet(t) \/ Saves(t) \/ Founds(t) \/ Copies(t)
<1>1. step[t] # "idle" => ReadInv(t)
  BY DEF LockInv
<1>2. (Ends(t) \/ Goes(t)) /\ queue[t] # <<>> /\ DOMAIN step = Tabs
  BY StepShape DEF TypeOK, RunTypes
<1>3. CASE PersistWrite(t)
  <2>1. step[t] = "encrypting" /\ Ends(t)
    BY <1>2, <1>3 DEF PersistWrite, Finish, Goes, TypeOK, RunTypes
  <2> QED
    BY <1>3, <2>1 DEF PersistWrite, Saves, Quiet, storeVars, tabVars
<1>4. CASE CreateWrite(t)
  <2>1. step[t] = "deriving"
    BY <1>4 DEF CreateWrite
  <2>2. MaybePut(t, NewVault(t)) =>
          Ends(t) \/ (Goes(t) /\ step'[t] = "putting")
    <3>1. Finish(t) => Ends(t)
      BY <1>2 DEF Finish, Goes, Ends
    <3>2. ASSUME NEW l, Await(t, "putting", l) PROVE Goes(t) /\ step'[t] = "putting"
      <4>1. step'[t] = "putting"
        BY <1>2, <3>2 DEF Await
      <4>2. ~Ends(t)
        BY <1>2, <4>1 DEF Ends
      <4> QED
        BY <1>2, <4>1, <4>2
    <3>3. MaybePut(t, NewVault(t)) =>
            Finish(t) \/ \E l : Await(t, "putting", l)
      BY DEF MaybePut
    <3> QED
      BY <3>1, <3>2, <3>3
  <2> QED
    BY <1>4, <2>1, <2>2 DEF CreateWrite, Founds, Quiet, NewVault, tabVars
<1>5. CASE UnlockInstall(t)
  BY <1>1, <1>5 DEF UnlockInstall, Copies, ReadInv, storeVars
<1>6. CASE RestoreInstall(t)
  BY <1>1, <1>6 DEF RestoreInstall, Copies, Quiet, ReadInv, storeVars, tabVars
<1>7. CASE \/ PersistStart(t) \/ CreateStart(t) \/ UnlockStart(t)
           \/ RememberOnStart(t) \/ PutKey(t) \/ KeyIsPut(t) \/ DeleteKey(t)
           \/ KeyIsDeleted(t) \/ RestoreStart(t) \/ RestoreReadKey(t)
           \/ RestoreReadVault(t) \/ DropKey(t)
  BY <1>7 DEF PersistStart, CreateStart, UnlockStart, RememberOnStart, PutKey, KeyIsPut,
     DeleteKey, KeyIsDeleted, RestoreStart, RestoreReadKey, RestoreReadVault, DropKey,
     Quiet, storeVars, tabVars
<1>8. CASE LockStart(t) \/ ClearStart(t) \/ RememberOffStart(t)
  BY <1>8 DEF LockStart, ClearStart, RememberOffStart, Revoke, Quiet
<1> QED
  BY <1>3, <1>4, <1>5, <1>6, <1>7, <1>8 DEF Steps

(* A save writes the next revision of the envelope its object is a copy    *)
(* of, and the object becomes a copy of that one.                          *)
LEMMA SavesFacts ==
  ASSUME TypeOK, RefsInv, LockInv, NEW t \in Tabs, Saves(t)
  PROVE  LET k == Op(t).obj IN
         /\ env # NoVault /\ k \in 1..Len(objects[t])
         /\ objects[t][k].raw = env.raw
         /\ env.data \subseteq local[t].data /\ local[t].data \subseteq objects[t][k].data
         /\ env' \in Envelopes /\ env' # NoVault
         /\ env'.gen = env.gen /\ env'.raw = Op(t).id
         /\ env'.salt = objects[t][k].salt /\ env'.data = local[t].data
         /\ env'.data \subseteq Ids \cup {Legacy}
         /\ objects' \in [Tabs -> Seq(Envelopes)]
         /\ \A u \in Tabs : u # t => objects'[u] = objects[u]
         /\ Len(objects'[t]) = Len(objects[t])
         /\ \A i \in 1..Len(objects[t]) : i # k => objects'[t][i] = objects[t][i]
         /\ objects'[t][k].raw = Op(t).id
         /\ objects'[t][k].salt = objects[t][k].salt
         /\ objects'[t][k].data = objects[t][k].data
<1> DEFINE k == Op(t).obj
           o == [objects[t][k] EXCEPT !.rev = env'.rev, !.raw = env'.raw]
<1>1. queue[t] # <<>> /\ step[t] = "encrypting" /\ ReadInv(t)
  BY DEF Saves, LockInv
<1>2. Op(t).kind = "persist" /\ Op(t) = queue[t][1] /\ 1 \in 1..Len(queue[t]) /\ Op(t).id \in Nat
  BY <1>1, OpFacts DEF ReadInv
<1>3. k \in 1..Len(objects[t]) /\ objects[t] \in Seq(Envelopes)
  BY <1>2 DEF RefsInv, TypeOK, TabTypes
<1>4. objects[t][k] \in Envelopes /\ objects[t][k].data \subseteq Ids \cup {Legacy}
  BY <1>3, ElementOfSeq DEF TypeOK, TabTypes
<1>5. /\ env # NoVault /\ objects[t][k].raw = env.raw /\ objects[t][k].gen = env.gen
      /\ env.data \subseteq local[t].data /\ local[t].data \subseteq objects[t][k].data
  BY <1>1 DEF ReadInv, IsCurrent
<1>6. local[t].data \in SUBSET Nat /\ local[t].data \subseteq Ids \cup {Legacy}
  BY <1>4, <1>5 DEF Ids, Legacy
<1>7. env' = [objects[t][k] EXCEPT !.rev = @ + 1, !.raw = Op(t).id, !.data = local[t].data]
  BY DEF Saves, NextEnvelope
<1>8. /\ env' \in Envelopes /\ env'.gen = env.gen /\ env'.raw = Op(t).id
      /\ env'.salt = objects[t][k].salt /\ env'.data = local[t].data
  <2> DEFINE e == objects[t][k]
  <2>1. e = [gen |-> e.gen, rev |-> e.rev, raw |-> e.raw, salt |-> e.salt, data |-> e.data]
    BY <1>4 DEF Envelopes
  <2>2. env' = [gen |-> e.gen, rev |-> e.rev + 1, raw |-> Op(t).id, salt |-> e.salt,
                data |-> local[t].data]
    BY <1>7, <2>1
  <2>3. e.gen \in Nat /\ e.rev + 1 \in Nat /\ e.salt \in Nat
    BY <1>4 DEF Envelopes
  <2> QED
    BY <1>2, <1>5, <1>6, <2>2, <2>3 DEF Envelopes
<1>9. /\ o \in Envelopes /\ o.raw = Op(t).id
      /\ o.salt = objects[t][k].salt /\ o.data = objects[t][k].data
  BY <1>4, <1>8 DEF Envelopes
<1>10. objects' = [objects EXCEPT ![t][k] = o]
  BY DEF Saves
<1>13. o \in Envelopes
  BY <1>9
<1> HIDE DEF o, k
<1>11. /\ objects' \in [Tabs -> Seq(Envelopes)]
       /\ \A u \in Tabs : u # t => objects'[u] = objects[u]
       /\ Len(objects'[t]) = Len(objects[t])
       /\ \A i \in 1..Len(objects[t]) : i # k => objects'[t][i] = objects[t][i]
       /\ objects'[t][k] = o
  BY ONLY ZenonT(60), TypeOK, t \in Tabs, <1>3, <1>13, <1>10, ObjectFacts
<1>12. env' # NoVault
  BY <1>8, VaultAssumption
<1> QED
  BY <1>3, <1>5, <1>6, <1>8, <1>9, <1>11, <1>12 DEF k

(* A new vault has the next generation and its own key.                    *)
LEMMA FoundsFacts ==
  ASSUME TypeOK, LockInv, NEW t \in Tabs, queue[t] # <<>>, Founds(t)
  PROVE  /\ env = NoVault /\ local[t] = metaGen + 1 /\ metaGen' = metaGen + 1
         /\ env' = NewVault(t) /\ env' \in Envelopes /\ env' # NoVault
         /\ env'.raw = Op(t).id /\ env'.salt = Op(t).id
         /\ env'.data = {} /\ env'.gen = metaGen + 1
<1>1. env = NoVault /\ local[t] = metaGen + 1
  BY DEF Founds, LockInv, ReadInv
<1>2. Op(t).id \in Nat /\ metaGen \in Nat
  BY OpFacts DEF TypeOK, StoreTypes
<1>3. NewVault(t) \in Envelopes
  BY <1>1, <1>2 DEF NewVault, Envelopes
<1> QED
  BY <1>1, <1>3, VaultAssumption DEF Founds, NewVault

(* Every step keeps the types of what the tabs share.                      *)
LEMMA StepStoreTypes ==
  ASSUME UseLocks, TypeOK, RefsInv, LockInv, NEW t \in Tabs, Steps(t)
  PROVE  StoreTypes'
<1>1. queue[t] # <<>>
  BY StepShape
<1>2. env' \in Envelopes \cup {NoVault} /\ (env' # NoVault => env'.data \subseteq Ids \cup {Legacy})
  <2>1. CASE Quiet(t) BY <2>1 DEF Quiet, TypeOK, StoreTypes
  <2>2. CASE Saves(t) BY <2>2, SavesFacts
  <2>3. CASE Founds(t) BY <1>1, <2>3, FoundsFacts
  <2>4. CASE Copies(t) BY <2>4 DEF Copies, TypeOK, StoreTypes
  <2> QED
    BY <2>1, <2>2, <2>3, <2>4, StepKinds
<1>3. step[t] # "idle" => ReadInv(t)
  BY DEF LockInv
<1>4. metaGen' \in Nat
  <2> USE DEF TypeOK, StoreTypes
  <2>1. CASE CreateWrite(t)
    BY <1>3, <2>1 DEF CreateWrite, ReadInv
  <2>2. CASE KeyIsDeleted(t)
    BY <2>2 DEF KeyIsDeleted, GenAfterClear
  <2> QED
    BY <2>1, <2>2 DEF Steps, PersistStart, PersistWrite, CreateStart, UnlockStart,
       UnlockInstall, RememberOnStart, PutKey, KeyIsPut, LockStart, ClearStart,
       RememberOffStart, Revoke, DeleteKey, RestoreStart, RestoreReadKey,
       RestoreReadVault, RestoreInstall, DropKey, storeVars
<1>5. key' \in KeyRecords \cup {NoKey}
  <2> USE DEF TypeOK, StoreTypes
  <2>1. CASE PutKey(t)
    BY <1>3, <2>1 DEF PutKey, NeverSettles, ReadInv
  <2>2. CASE DeleteKey(t) \/ DropKey(t)
    BY <2>2 DEF DeleteKey, DropKey
  <2> QED
    BY <2>1, <2>2 DEF Steps, PersistStart, PersistWrite, CreateStart, CreateWrite,
       UnlockStart, UnlockInstall, RememberOnStart, KeyIsPut, LockStart, ClearStart,
       RememberOffStart, Revoke, KeyIsDeleted, RestoreStart, RestoreReadKey,
       RestoreReadVault, RestoreInstall, storeVars
<1> QED
  BY <1>2, <1>4, <1>5 DEF StoreTypes

(* Every step keeps the types of the objects, and drops none.              *)
LEMMA StepTabTypes ==
  ASSUME UseLocks, TypeOK, RefsInv, LockInv, NEW t \in Tabs, Steps(t)
  PROVE  /\ TabTypes'
         /\ \A u \in Tabs : /\ Len(objects[u]) <= Len(objects'[u])
                            /\ session'[u] <= Len(objects'[u])
<1>1. queue[t] # <<>>
  BY StepShape
<1>2. /\ \A u \in Tabs : /\ objects[u] \in Seq(Envelopes) /\ Len(objects[u]) \in Nat
                        /\ session[u] <= Len(objects[u]) /\ session[u] \in Nat
      /\ session \in [Tabs -> Nat]
  BY DEF TypeOK, TabTypes, RefsInv
<1>3. CASE Quiet(t)
  <2>1. session' \in [Tabs -> Nat] /\ \A u \in Tabs : session'[u] \in {session[u], 0}
    BY <1>2, <1>3 DEF Quiet
  <2>2. objects' = objects
    BY <1>3 DEF Quiet
  <2>3. TabTypes'
    BY <2>1, <2>2 DEF TypeOK, TabTypes
  <2>4. ASSUME NEW u \in Tabs PROVE session'[u] <= Len(objects[u])
    <3>1. session[u] <= Len(objects[u]) /\ Len(objects[u]) \in Nat
      BY <1>2
    <3>2. session'[u] = session[u] \/ session'[u] = 0
      BY <2>1
    <3> QED
      BY <3>1, <3>2
  <2> QED
    BY <1>2, <2>2, <2>3, <2>4
<1>4. CASE Saves(t)
  <2>1. session' = session /\ \A u \in Tabs : Len(objects'[u]) = Len(objects[u])
    BY <1>4, SavesFacts DEF Saves
  <2>2. ASSUME NEW u \in Tabs, NEW i \in 1..Len(objects[u])
        PROVE  objects'[u][i].data \subseteq Ids \cup {Legacy}
    <3>1. objects'[u][i] = objects[u][i] \/ objects'[u][i].data = objects[u][i].data
      BY <1>4, SavesFacts
    <3> QED
      BY <3>1 DEF TypeOK, TabTypes
  <2>3. objects' \in [Tabs -> Seq(Envelopes)]
    BY <1>4, SavesFacts
  <2>4. TabTypes'
    BY <1>2, <2>1, <2>2, <2>3 DEF TabTypes
  <2> QED
    BY <1>2, <2>1, <2>4
<1>5. ASSUME NEW s \in Envelopes, s.data \subseteq Ids \cup {Legacy}, Install(t, s)
      PROVE  /\ TabTypes'
             /\ \A u \in Tabs : /\ Len(objects[u]) <= Len(objects'[u])
                                /\ session'[u] <= Len(objects'[u])
  <2>1. /\ objects' \in [Tabs -> Seq(Envelopes)] /\ session' \in [Tabs -> Nat]
        /\ \A u \in Tabs : u # t => objects'[u] = objects[u] /\ session'[u] = session[u]
        /\ Len(objects'[t]) = Len(objects[t]) + 1 /\ session'[t] = Len(objects[t]) + 1
        /\ \A i \in 1..Len(objects[t]) : objects'[t][i] = objects[t][i]
        /\ objects'[t][Len(objects[t]) + 1] = s
    BY <1>5, InstallFacts
  <2>2. ASSUME NEW u \in Tabs, NEW i \in 1..Len(objects'[u])
        PROVE  objects'[u][i].data \subseteq Ids \cup {Legacy}
    <3>1. CASE u = t /\ i = Len(objects[t]) + 1
      BY <1>5, <2>1, <3>1
    <3>2. CASE i \in 1..Len(objects[u])
      BY <2>1, <3>2 DEF TypeOK, TabTypes
    <3> QED
      BY <1>2, <2>1, <3>1, <3>2
  <2>3. TabTypes'
    BY <2>1, <2>2 DEF TabTypes
  <2>4. ASSUME NEW u \in Tabs
        PROVE  Len(objects[u]) <= Len(objects'[u]) /\ session'[u] <= Len(objects'[u])
    <3>1. session[u] <= Len(objects[u]) /\ Len(objects[u]) \in Nat
      BY <1>2
    <3>2. CASE u = t
      BY <2>1, <3>1, <3>2
    <3>3. CASE u # t
      BY <2>1, <3>1, <3>3
    <3> QED
      BY <3>2, <3>3
  <2> QED
    BY <2>3, <2>4
<1>6. CASE Founds(t)
  BY <1>1, <1>5, <1>6, FoundsFacts DEF Founds
<1>7. CASE Copies(t)
  BY <1>5, <1>7 DEF Copies, TypeOK, StoreTypes
<1> QED
  BY <1>3, <1>4, <1>5, <1>6, <1>7, StepKinds

-----------------------------------------------------------------------------
(* Where an operation of tab u stood before a step that may have ended the *)
(* first of them.                                                          *)
Source(u, i) == IF queue'[u] = queue[u] THEN i ELSE i + 1

(* No step changes the order of a queue.                                   *)
LEMMA SourceFacts ==
  ASSUME TypeOK, NEW t \in Tabs, Ends(t) \/ Goes(t), NEW u \in Tabs,
         NEW i \in 1..Len(queue'[u])
  PROVE  /\ Source(u, i) \in 1..Len(queue[u])
         /\ queue'[u][i] = queue[u][Source(u, i)]
         /\ Source(u, i) \in {i, i + 1} /\ i \in Nat
         /\ Ends(t) /\ u = t => Source(u, i) = i + 1
         /\ u # t => queue'[u] = queue[u]
<1>1. CASE Goes(t)
  <2>1. queue' = queue /\ ~Ends(t)
    BY <1>1 DEF Goes, Ends, TypeOK, RunTypes
  <2>2. queue[u] \in Seq(Items)
    BY DEF TypeOK, RunTypes
  <2> QED
    BY <2>1, <2>2 DEF Source
<1>2. CASE Ends(t) /\ u # t
  BY <1>2, DequeueFacts DEF Ends, Source
<1>3. CASE Ends(t) /\ u = t
  <2>1. queue'[t] # queue[t]
    <3>1. queue[t] \in Seq(Items) /\ queue[t] # <<>> /\ queue'[t] = Tail(queue[t])
      BY <1>3 DEF Ends, Dequeues, TypeOK, RunTypes
    <3>2. Len(queue'[t]) = Len(queue[t]) - 1 /\ Len(queue[t]) \in Nat
      BY <3>1, HeadTailProperties
    <3> QED
      BY <3>2
  <2> QED
    BY <1>3, <2>1, DequeueFacts DEF Ends, Source
<1> QED
  BY <1>1, <1>2, <1>3

(* Every step keeps the types of the queues and of the numbers.            *)
LEMMA StepRunTypes ==
  ASSUME UseLocks, TypeOK, RefsInv, LockInv, NEW t \in Tabs, Steps(t), UNCHANGED migVars
  PROVE  RunTypes' /\ CallTypes'
<1>1. RunTypes'
  <2>1. queue' \in [Tabs -> Seq(Items)]
    BY StepShape, DequeueFacts DEF Ends, Goes, TypeOK, RunTypes
  <2>2. step' \in [Tabs -> StepNames] /\ DOMAIN local' = Tabs
    BY StepShape DEF Ends, Goes, TypeOK, RunTypes, StepNames
  <2> QED
    BY <2>1, <2>2 DEF RunTypes
<1>2. acked' \subseteq (Ids \cup {Legacy}) \X Nat
  <2>1. CASE Saves(t)
    <3>1. env' \in Envelopes /\ env'.data \subseteq Ids \cup {Legacy}
      BY <2>1, SavesFacts
    <3>2. env'.salt \in Nat
      BY <3>1 DEF Envelopes
    <3> QED
      BY <2>1, <3>1, <3>2 DEF Saves, TypeOK, CallTypes
  <2>2. CASE Quiet(t) \/ Founds(t) \/ Copies(t)
    BY <2>2 DEF Quiet, Founds, Copies, TypeOK, CallTypes
  <2> QED
    BY <2>1, <2>2, StepKinds
<1> QED
  BY <1>1, <1>2, StepShape DEF TypeOK, CallTypes, migVars

(* What the tabs refer to stays there.                                     *)
LEMMA StepRefs ==
  ASSUME UseLocks, TypeOK, RefsInv, LockInv, NEW t \in Tabs, Steps(t), UNCHANGED migVars
  PROVE  RefsInv'
<1> SUFFICES ASSUME NEW u \in Tabs
             PROVE  /\ session'[u] <= Len(objects'[u])
                    /\ \A i \in 1..Len(queue'[u]) :
                         queue'[u][i].kind = "persist" =>
                           queue'[u][i].obj \in 1..Len(objects'[u])
                    /\ migration'[u].at = "saving" =>
                         migration'[u].obj \in 1..Len(objects'[u])
  BY DEF RefsInv
<1>1. Len(objects[u]) <= Len(objects'[u]) /\ session'[u] <= Len(objects'[u])
  BY StepTabTypes
<1>2. objects[u] \in Seq(Envelopes) /\ objects'[u] \in Seq(Envelopes)
  BY StepTabTypes DEF TypeOK, TabTypes
<1>3. Len(objects[u]) \in Nat /\ Len(objects'[u]) \in Nat
  BY <1>2
<1>4. \A k \in 1..Len(objects[u]) : k \in 1..Len(objects'[u])
  BY <1>1, <1>3
<1>5. \A i \in 1..Len(queue'[u]) :
        queue'[u][i].kind = "persist" => queue'[u][i].obj \in 1..Len(objects[u])
  BY SMTT(30), StepShape, SourceFacts DEF RefsInv
<1> QED
  BY <1>1, <1>4, <1>5 DEF RefsInv, migVars

(* A step gives no number away.                                            *)
LEMMA StepIds ==
  ASSUME UseLocks, TypeOK, LockInv, IdsInv, NEW t \in Tabs, Steps(t), UNCHANGED migVars
  PROVE  IdsInv'
<1>1. migration' = migration /\ calls' = calls /\ (Ends(t) \/ Goes(t))
  BY StepShape DEF migVars
<1>2. \A u \in Tabs : Reserved(u)' = Reserved(u)
  BY <1>1 DEF Reserved
<1>3. ASSUME NEW u \in Tabs, NEW i \in 1..Len(queue'[u])
      PROVE  /\ queue'[u][i].id <= calls
             /\ \A v \in Tabs :
                  /\ queue'[u][i].id \notin Reserved(v)
                  /\ \A j \in 1..Len(queue'[v]) :
                       queue'[u][i].id = queue'[v][j].id => u = v /\ i = j
  <2>1. Source(u, i) \in 1..Len(queue[u]) /\ queue'[u][i] = queue[u][Source(u, i)]
    BY <1>1, SourceFacts
  <2>2. ASSUME NEW v \in Tabs, NEW j \in 1..Len(queue'[v]),
               queue'[u][i].id = queue'[v][j].id
        PROVE  u = v /\ i = j
    <3>1. Source(v, j) \in 1..Len(queue[v]) /\ queue'[v][j] = queue[v][Source(v, j)]
      BY <1>1, SourceFacts
    <3>2. u = v /\ Source(u, i) = Source(v, j)
      <4>1. PICK a, b : a = Source(u, i) /\ b = Source(v, j)
        OBVIOUS
      <4>2. /\ a \in 1..Len(queue[u]) /\ b \in 1..Len(queue[v])
            /\ queue[u][a].id = queue[v][b].id
        BY <2>1, <2>2, <3>1, <4>1
      <4>3. u = v /\ a = b
        BY <4>2 DEF IdsInv
      <4> QED
        BY <4>1, <4>3
    <3>3. i \in Nat /\ j \in Nat
      BY <1>1, SourceFacts
    <3> QED
      BY <3>2, <3>3 DEF Source
  <2> QED
    BY <2>1, <2>2 DEF IdsInv
<1> QED
  BY <1>1, <1>2, <1>3 DEF IdsInv

(* A step writes down nothing but the number of its own operation, which   *)
(* it does once.                                                           *)
LEMMA StoredByStep ==
  ASSUME UseLocks, TypeOK, RefsInv, LockInv, NEW t \in Tabs, Steps(t),
         NEW n \in Nat, Stored(n)'
  PROVE  Stored(n) \/ (n = Op(t).id /\ (Saves(t) \/ Founds(t)))
<1>1. queue[t] # <<>>
  BY StepShape
<1>2. CASE Quiet(t)
  BY <1>2 DEF Quiet, Stored
<1>3. CASE Saves(t)
  <2>1. CASE env' # NoVault /\ n \in {env'.raw, env'.salt}
    BY <1>3, <2>1, SavesFacts DEF Stored
  <2>2. CASE \E u \in Tabs : \E i \in 1..Len(objects'[u]) :
               n \in {objects'[u][i].raw, objects'[u][i].salt}
    <3>0. PICK u \in Tabs : \E i \in 1..Len(objects'[u]) :
            n \in {objects'[u][i].raw, objects'[u][i].salt}
      BY <2>2
    <3>1. PICK i \in 1..Len(objects'[u]) :
            n \in {objects'[u][i].raw, objects'[u][i].salt}
      BY <3>0
    <3>2. CASE u = t /\ i = Op(t).obj
      BY <1>3, <3>1, <3>2, SavesFacts DEF Stored
    <3>3. CASE ~(u = t /\ i = Op(t).obj)
      BY <1>3, <3>1, <3>3, SavesFacts DEF Stored
    <3> QED
      BY <3>2, <3>3
  <2>3. CASE \E a \in acked' : a[2] = n
    <3>1. PICK a \in acked' : a[2] = n
      BY <2>3
    <3>2. CASE a \in env'.data \X {env'.salt}
      BY <1>3, <3>1, <3>2, SavesFacts DEF Stored
    <3>3. CASE a \in acked
      BY <3>1, <3>3 DEF Stored
    <3> QED
      BY <1>3, <3>2, <3>3 DEF Saves
  <2> QED
    BY <2>1, <2>2, <2>3 DEF Stored
<1>5. CASE Founds(t)
  <2>1. env' # NoVault /\ env'.raw = Op(t).id /\ env'.salt = Op(t).id
    BY <1>1, <1>5, FoundsFacts
  <2>2. /\ env' \in Envelopes /\ env'.data \subseteq Ids \cup {Legacy}
        /\ Install(t, env') /\ acked' = acked
    BY <1>1, <1>5, FoundsFacts DEF Founds
  <2> QED
    BY SMTT(30), InstalledObjects, <1>5, <2>1, <2>2 DEF Stored
<1>6. CASE Copies(t)
  <2>1. /\ env' = env /\ env # NoVault /\ env \in Envelopes
        /\ env.data \subseteq Ids \cup {Legacy} /\ Install(t, env) /\ acked' = acked
    BY <1>6 DEF Copies, TypeOK, StoreTypes
  <2> QED
    BY InstalledObjects, <2>1 DEF Stored
<1> QED
  BY <1>2, <1>3, <1>5, <1>6, StepKinds

(* The number a save or a new vault writes was not written down before.    *)
LEMMA OwnNumberIsFresh ==
  ASSUME TypeOK, IdsInv, FreshInv, NEW t \in Tabs, queue[t] # <<>>,
         step[t] \notin MaybeStored
  PROVE  /\ ~Stored(Op(t).id) /\ Op(t).id \in Nat /\ Op(t).id <= calls
         /\ Op(t) = queue[t][1] /\ 1 \in 1..Len(queue[t])
BY OpFacts DEF FreshInv, IdsInv

(* What is still to be written stays unwritten.                            *)
LEMMA StepFresh ==
  ASSUME UseLocks, TypeOK, TypeOK', RefsInv, LockInv, IdsInv, FreshInv,
         NEW t \in Tabs, Steps(t), UNCHANGED migVars
  PROVE  FreshInv'
<1>1. /\ queue[t] # <<>> /\ (Ends(t) \/ Goes(t)) /\ calls' = calls /\ calls \in Nat
      /\ migration' = migration
  BY StepShape DEF TypeOK, CallTypes, migVars
<1>2. \A u \in Tabs : Reserved(u)' = Reserved(u)
  BY <1>1 DEF Reserved
<1>3. Saves(t) \/ Founds(t) =>
        /\ ~Stored(Op(t).id) /\ Op(t).id \in Nat /\ Op(t).id <= calls
        /\ Op(t) = queue[t][1] /\ 1 \in 1..Len(queue[t])
  BY <1>1, OwnNumberIsFresh DEF Saves, Founds, MaybeStored
<1>4. ASSUME NEW n \in Nat, Stored(n)'
      PROVE  n <= calls
  <2>1. Stored(n) \/ (n = Op(t).id /\ (Saves(t) \/ Founds(t)))
    BY <1>4, StoredByStep
  <2>2. Stored(n) => n <= calls
    BY DEF Stored, FreshInv
  <2> QED
    BY <1>3, <2>1, <2>2
<1>5. /\ env' # NoVault => env'.raw <= calls' /\ env'.salt <= calls'
      /\ \A u \in Tabs : \A i \in 1..Len(objects'[u]) :
           objects'[u][i].raw <= calls' /\ objects'[u][i].salt <= calls'
      /\ \A a \in acked' : a[2] <= calls'
  <2>1. env' # NoVault => env'.raw \in Nat /\ env'.salt \in Nat
    BY DEF TypeOK, StoreTypes, Envelopes
  <2>2. \A u \in Tabs : \A i \in 1..Len(objects'[u]) : objects'[u][i] \in Envelopes
    BY ElementOfSeq DEF TypeOK, TabTypes
  <2>3. \A u \in Tabs : \A i \in 1..Len(objects'[u]) :
          objects'[u][i].raw \in Nat /\ objects'[u][i].salt \in Nat
    BY <2>2 DEF Envelopes
  <2>4. \A a \in acked' : a[2] \in Nat
    BY DEF TypeOK, CallTypes
  <2> QED
    BY <1>1, <1>4, <2>1, <2>3, <2>4 DEF Stored
<1>6. ASSUME NEW u \in Tabs, NEW p \in Reserved(u)
      PROVE  ~(Stored(p)')
  <2>1. p \in Nat /\ ~Stored(p) /\ \A i \in 1..Len(queue[t]) : queue[t][i].id # p
    <3>1. p \in Nat
      BY <1>6 DEF IdsInv
    <3>2. ~Stored(p)
      BY <1>6 DEF FreshInv
    <3>3. \A i \in 1..Len(queue[t]) : queue[t][i].id # p
      BY <1>1, <1>6 DEF IdsInv
    <3> QED
      BY <3>1, <3>2, <3>3
  <2> QED
    BY <1>3, <2>1, StoredByStep
<1>7. ASSUME NEW u \in Tabs, NEW i \in 1..Len(queue'[u]), NEW n \in Nat,
             n = queue'[u][i].id, i = 1 => step'[u] \notin MaybeStored
      PROVE  ~(Stored(n)')
  <2>1. /\ Source(u, i) \in 1..Len(queue[u]) /\ queue'[u][i] = queue[u][Source(u, i)]
        /\ Source(u, i) \in {i, i + 1} /\ i \in Nat
        /\ Ends(t) /\ u = t => Source(u, i) = i + 1
    BY <1>1, SourceFacts
  <2>3. i \in 1..Len(queue'[u]) /\ 1 <= i
    BY <1>7, <2>1
  <2>4. Source(u, i) = 1 => i = 1 /\ ~(Ends(t) /\ u = t)
    BY <2>1, <2>3
  <2>5. Source(u, i) = 1 => step[u] \notin MaybeStored
    <3>1. u # t => step'[u] = step[u]
      BY <1>1 DEF Ends, Goes, TypeOK, RunTypes
    <3> QED
      BY <1>1, <1>7, <2>4, <3>1 DEF Goes
  <2>6. ~Stored(n)
    BY <1>7, <2>1, <2>5 DEF FreshInv
  <2>7. Saves(t) \/ Founds(t) => n # Op(t).id
    <3>1. ASSUME Saves(t) \/ Founds(t), n = Op(t).id PROVE FALSE
      <4>1. u = t /\ Source(u, i) = 1
        <5>1. PICK a : a = Source(u, i)
          OBVIOUS
        <5>2. /\ a \in 1..Len(queue[u]) /\ 1 \in 1..Len(queue[t])
              /\ queue[u][a].id = queue[t][1].id
          BY <1>3, <1>7, <2>1, <3>1, <5>1
        <5>3. u = t /\ a = 1
          BY <1>1, <5>2 DEF IdsInv
        <5> QED
          BY <5>1, <5>3
      <4>2. i = 1 /\ ~Ends(t)
        BY <2>4, <4>1
      <4>3. step'[t] = "putting"
        BY <3>1, <4>2 DEF Saves, Founds
      <4> QED
        BY <1>7, <4>1, <4>2, <4>3 DEF MaybeStored
    <3> QED
      BY <3>1
  <2> QED
    BY <2>6, <2>7, StoredByStep
<1>8. ASSUME NEW u \in Tabs, NEW i \in 1..Len(queue'[u])
      PROVE  queue'[u][i].id \in Nat
  <2>1. queue'[u] \in Seq(Items)
    BY DEF TypeOK, RunTypes
  <2>2. queue'[u][i] \in Items
    BY <2>1, ElementOfSeq
  <2> QED
    BY <2>2 DEF Items, Ids
<1> QED
  BY <1>2, <1>5, <1>6, <1>7, <1>8 DEF FreshInv, Stored

(* A copy of what is stored stays one, and what a save replaces has no     *)
(* copy left.                                                              *)
LEMMA StepCopy ==
  ASSUME UseLocks, TypeOK, RefsInv, LockInv, IdsInv, FreshInv, CopyInv,
         NEW t \in Tabs, Steps(t)
  PROVE  CopyInv'
<1>1. queue[t] # <<>>
  BY StepShape
<1>2. CASE Quiet(t)
  BY <1>2 DEF Quiet, CopyInv
<1>3. CASE Saves(t)
  <2>1. ~Stored(Op(t).id)
    BY <1>1, <1>3, OwnNumberIsFresh DEF Saves, MaybeStored
  <2>2. ASSUME NEW u \in Tabs, NEW i \in 1..Len(objects'[u]), objects'[u][i].raw = env'.raw
        PROVE  u = t /\ i = Op(t).obj
    BY <1>3, <2>1, <2>2, SavesFacts DEF Stored
  <2> QED
    BY <1>3, <2>2, SavesFacts DEF CopyInv
<1>5. CASE Founds(t)
  <2>1. ~Stored(Op(t).id)
    BY <1>1, <1>5, OwnNumberIsFresh DEF Founds, MaybeStored
  <2>2. env' # NoVault /\ env'.raw = Op(t).id /\ env' \in Envelopes /\ env'.data = {}
    BY <1>1, <1>5, FoundsFacts
  <2>3. Install(t, env') /\ env'.data \subseteq Ids \cup {Legacy}
    BY <1>1, <1>5, <2>2, FoundsFacts DEF Founds
  <2>4. ASSUME NEW u \in Tabs, NEW i \in 1..Len(objects'[u]), objects'[u][i].raw = env'.raw
        PROVE  objects'[u][i] = env'
    <3>1. \/ i \in 1..Len(objects[u]) /\ objects'[u][i] = objects[u][i]
          \/ objects'[u][i] = env'
      BY InstalledObjects, <2>2, <2>3
    <3>2. i \in 1..Len(objects[u]) => objects[u][i].raw # env'.raw
      BY <2>1, <2>2 DEF Stored
    <3> QED
      BY <2>4, <3>1, <3>2
  <2> QED
    BY <2>4 DEF CopyInv
<1>6. CASE Copies(t)
  <2>1. /\ env' = env /\ env # NoVault /\ env \in Envelopes
        /\ env.data \subseteq Ids \cup {Legacy} /\ Install(t, env)
    BY <1>6 DEF Copies, TypeOK, StoreTypes
  <2>2. ASSUME NEW u \in Tabs, NEW i \in 1..Len(objects'[u]), objects'[u][i].raw = env.raw
        PROVE  objects'[u][i].salt = env.salt /\ env.data \subseteq objects'[u][i].data
    <3>1. \/ i \in 1..Len(objects[u]) /\ objects'[u][i] = objects[u][i]
          \/ objects'[u][i] = env
      BY InstalledObjects, <2>1
    <3>2. CASE i \in 1..Len(objects[u]) /\ objects'[u][i] = objects[u][i]
      BY <2>1, <2>2, <3>2 DEF CopyInv
    <3> QED
      BY <3>1, <3>2
  <2> QED
    BY <2>1, <2>2 DEF CopyInv
<1> QED
  BY <1>2, <1>3, <1>5, <1>6, StepKinds

(* A save that a migration waits for reports the secrets it imported.      *)
LEMMA StepMigration ==
  ASSUME UseLocks, TypeOK, RefsInv, LockInv, MigrationInv,
         NEW t \in Tabs, Steps(t), UNCHANGED migVars
  PROVE  MigrationInv'
<1>1. queue[t] # <<>> /\ migration' = migration /\ (Ends(t) \/ Goes(t))
  BY StepShape DEF migVars
<1> SUFFICES ASSUME NEW u \in Tabs, migration[u].at = "saving"
             PROVE  /\ Legacy \in objects'[u][migration[u].obj].data
                    /\ objects'[u][migration[u].obj].raw = migration[u].id
                         => <<Legacy, objects'[u][migration[u].obj].salt>> \in acked'
                    /\ \A i \in 1..Len(queue'[u]) :
                         queue'[u][i].id = migration[u].id =>
                           /\ queue'[u][i].kind = "persist"
                           /\ queue'[u][i].obj = migration[u].obj
  BY <1>1 DEF MigrationInv
<1> DEFINE m == migration[u].obj
<1>2. m \in 1..Len(objects[u])
  BY DEF RefsInv
<1>3. ASSUME NEW i \in 1..Len(queue'[u]), queue'[u][i].id = migration[u].id
      PROVE  queue'[u][i].kind = "persist" /\ queue'[u][i].obj = m
  <2>1. Source(u, i) \in 1..Len(queue[u]) /\ queue'[u][i] = queue[u][Source(u, i)]
    BY <1>1, SourceFacts
  <2> QED
    BY <1>3, <2>1 DEF MigrationInv
<1>4. CASE objects'[u][m] = objects[u][m]
  <2>1. acked \subseteq acked'
    BY StepKinds DEF Quiet, Saves, Founds, Copies
  <2> QED
    BY <1>3, <1>4, <2>1 DEF MigrationInv
<1>5. CASE Saves(t) /\ u = t /\ m = Op(t).obj
  <2>1. /\ objects'[t][m].raw = Op(t).id /\ objects'[t][m].salt = env'.salt
        /\ objects'[t][m].data = objects[t][m].data
    BY <1>5, SavesFacts
  <2>2. ReadInv(t) /\ step[t] = "encrypting" /\ env'.data = local[t].data
    BY <1>1, <1>5, SavesFacts DEF LockInv, Saves
  <2>3. Op(t).id = migration[t].id => Legacy \in env'.data
    BY <1>5, <2>2 DEF ReadInv
  <2>4. Op(t).id = migration[t].id => <<Legacy, env'.salt>> \in acked'
    BY <1>5, <2>3 DEF Saves
  <2> QED
    BY <1>3, <1>5, <2>1, <2>4 DEF MigrationInv
<1>6. CASE Quiet(t)
  BY <1>4, <1>6 DEF Quiet
<1>7. CASE Saves(t) /\ ~(u = t /\ m = Op(t).obj)
  BY <1>2, <1>4, <1>7, SavesFacts
<1>8. CASE Founds(t)
  <2>1. /\ env' \in Envelopes /\ env'.data \subseteq Ids \cup {Legacy}
        /\ Install(t, env')
    BY <1>1, <1>8, FoundsFacts DEF Founds
  <2>2. \A i \in 1..Len(objects[u]) : objects'[u][i] = objects[u][i]
    BY <2>1, InstallFacts
  <2>3. objects'[u][m] = objects[u][m]
    BY <1>2, <2>2
  <2> QED
    BY <1>4, <2>3
<1>9. CASE Copies(t)
  <2>1. /\ env \in Envelopes /\ env.data \subseteq Ids \cup {Legacy}
        /\ Install(t, env)
    BY <1>9 DEF Copies, TypeOK, StoreTypes
  <2>2. \A i \in 1..Len(objects[u]) : objects'[u][i] = objects[u][i]
    BY <2>1, InstallFacts
  <2>3. objects'[u][m] = objects[u][m]
    BY <1>2, <2>2
  <2> QED
    BY <1>4, <2>3
<1> QED
  BY <1>5, <1>6, <1>7, <1>8, <1>9, StepKinds

(* What was acknowledged stays in the envelope.                            *)
LEMMA StepDurable ==
  ASSUME UseLocks, TypeOK, RefsInv, LockInv, IdsInv, FreshInv, CopyInv,
         AcknowledgedIsDurable, NEW t \in Tabs, Steps(t)
  PROVE  AcknowledgedIsDurable'
<1>1. queue[t] # <<>>
  BY StepShape
<1>2. CASE Quiet(t) \/ Copies(t)
  BY <1>2 DEF Quiet, Copies, AcknowledgedIsDurable
<1>3. CASE Saves(t)
  <2>1. env'.salt = env.salt /\ env # NoVault /\ env.data \subseteq env'.data
    BY <1>3, SavesFacts DEF CopyInv
  <2> QED
    BY <1>3, <2>1 DEF Saves, AcknowledgedIsDurable
<1>4. CASE Founds(t)
  <2>1. ~Stored(Op(t).id)
    BY <1>1, <1>4, OwnNumberIsFresh DEF Founds, MaybeStored
  <2> QED
    BY <1>1, <1>4, <2>1, FoundsFacts DEF Founds, Stored, AcknowledgedIsDurable
<1> QED
  BY <1>2, <1>3, <1>4, StepKinds

(* The lock keeps what the running operation has read, whatever it does.   *)
LEMMA StepLock ==
  ASSUME UseLocks, TypeOK, TypeOK', RefsInv, LockInv, IdsInv, CopyInv, MigrationInv,
         NEW t \in Tabs, Steps(t), UNCHANGED migVars
  PROVE  LockInv'
<1>1. /\ owner \in {t, NoTab} /\ queue[t] # <<>> /\ migration' = migration
      /\ Ends(t) \/ Goes(t)
  BY StepShape DEF migVars
<1>2. ASSUME NEW u \in Tabs, u # t PROVE step'[u] = "idle"
  <2>1. step[u] = "idle"
    BY <1>1, <1>2, VaultAssumption DEF LockInv
  <2> QED
    BY <1>1, <1>2, <2>1 DEF Ends, Goes, TypeOK, RunTypes
<1>3. CASE Ends(t)
  <2>1. step'[t] = "idle"
    BY <1>3 DEF Ends, TypeOK, RunTypes
  <2> QED
    BY <1>2, <2>1 DEF LockInv
<1>4. CASE Goes(t)
  <2> SUFFICES ReadInv(t)'
    BY <1>1, <1>2, <1>4 DEF LockInv, Goes
  <2>1. /\ queue' = queue /\ Op(t)' = Op(t) /\ Op(t) = queue[t][1] /\ 1 \in 1..Len(queue[t])
        /\ Op(t).id \in Nat
    BY <1>1, <1>4, OpFacts DEF Goes, Op
  <2>2. step[t] # "idle" => ReadInv(t)
    BY DEF LockInv
  <2>3. ASSUME NEW x, NEW l, Takes(t, x, l) \/ Await(t, x, l)
        PROVE  step'[t] = x /\ local'[t] = l
    BY <2>3 DEF Takes, Await, TypeOK, RunTypes
  <2>4. Finish(t) => FALSE
    BY <1>4 DEF Finish, Goes, TypeOK, RunTypes
  <2>5. ASSUME PersistStart(t) PROVE ReadInv(t)'
    <3> DEFINE s == objects[t][Op(t).obj]
    <3>1. /\ Op(t).kind = "persist" /\ IsCurrent(s)
          /\ Takes(t, "encrypting", [snap |-> <<metaGen, env>>, data |-> s.data])
          /\ UNCHANGED <<metaGen, env, objects>>
      BY <2>4, <2>5 DEF PersistStart, Starts, Runs, storeVars, tabVars
    <3>2. /\ step'[t] = "encrypting"
          /\ local'[t] = [snap |-> <<metaGen, env>>, data |-> s.data]
      BY <2>3, <3>1
    <3>3. local'[t].snap = <<metaGen, env>> /\ local'[t].data = s.data
      BY <3>2
    <3>4. Op(t).obj \in 1..Len(objects[t])
      BY <2>1, <3>1 DEF RefsInv
    <3>5. env # NoVault /\ env.data \subseteq s.data
      BY <3>1, <3>4 DEF CopyInv, IsCurrent
    <3>6. migration[t].at = "saving" /\ Op(t).id = migration[t].id => Legacy \in s.data
      BY <2>1 DEF MigrationInv
    <3>7. IsCurrent(s)'
      BY <2>1, <3>1 DEF IsCurrent
    <3> QED
      BY <1>1, <2>1, <3>1, <3>2, <3>3, <3>5, <3>6, <3>7 DEF ReadInv
  <2>6. ASSUME CreateStart(t) PROVE ReadInv(t)'
    BY <2>3, <2>4, <2>6 DEF CreateStart, ReadInv, storeVars
  <2>7. ASSUME UnlockStart(t) PROVE ReadInv(t)'
    BY <2>3, <2>4, <2>7 DEF UnlockStart, ReadInv, storeVars
  <2>8. ASSUME NEW s \in Envelopes,
               step'[t] = "putting" /\ local'[t] = [gen |-> s.gen, salt |-> s.salt, token |-> Op(t).id]
        PROVE  ReadInv(t)'
    BY <2>1, <2>8 DEF ReadInv, Envelopes, KeyRecords
  <2>9. ASSUME NEW s \in Envelopes, MaybePut(t, s) PROVE ReadInv(t)'
    BY <2>3, <2>4, <2>8, <2>9 DEF MaybePut
  <2>10. ASSUME RememberOnStart(t) PROVE ReadInv(t)'
    <3>1. session[t] # 0
      BY <2>4, <2>10 DEF RememberOnStart
    <3>2. session[t] \in 1..Len(objects[t]) /\ objects[t] \in Seq(Envelopes)
      BY <3>1 DEF RefsInv, TypeOK, TabTypes
    <3>3. objects[t][session[t]] \in Envelopes
      BY <3>2, ElementOfSeq
    <3> QED
      BY <2>3, <2>8, <2>10, <3>1, <3>3 DEF RememberOnStart
  <2>11. ASSUME CreateWrite(t) PROVE ReadInv(t)'
    <3>1. MaybePut(t, NewVault(t)) /\ step[t] = "deriving"
      BY <2>4, <2>11 DEF CreateWrite, NewVault
    <3>2. local[t] = metaGen + 1 /\ metaGen \in Nat
      BY <2>2, <3>1 DEF ReadInv, TypeOK, StoreTypes
    <3>3. NewVault(t) \in Envelopes
      BY <2>1, <3>2 DEF NewVault, Envelopes
    <3> QED
      BY <2>9, <3>1, <3>3
  <2>12. ASSUME UnlockInstall(t) PROVE ReadInv(t)'
    BY <2>2, <2>9, <2>12 DEF UnlockInstall, ReadInv, TypeOK, StoreTypes
  <2>13. ASSUME PutKey(t) PROVE ReadInv(t)'
    BY <2>3, <2>4, <2>13 DEF PutKey, NeverSettles, ReadInv
  <2>14. ASSUME LockStart(t) \/ ClearStart(t) \/ RememberOffStart(t) PROVE ReadInv(t)'
    BY <2>3, <2>14 DEF LockStart, ClearStart, RememberOffStart, Revoke, ReadInv
  <2>15. ASSUME DeleteKey(t) PROVE ReadInv(t)'
    BY <2>3, <2>15 DEF DeleteKey, NeverSettles, ReadInv
  <2>16. ASSUME RestoreStart(t) PROVE ReadInv(t)'
    BY <2>3, <2>4, <2>16 DEF RestoreStart, ReadInv, storeVars
  <2>17. ASSUME RestoreReadKey(t) PROVE ReadInv(t)'
    BY <2>2, <2>3, <2>4, <2>17 DEF RestoreReadKey, ReadInv, storeVars
  <2>18. ASSUME RestoreReadVault(t) PROVE ReadInv(t)'
    BY <2>2, <2>3, <2>18 DEF RestoreReadVault, ReadInv, storeVars
  <2>19. ASSUME RestoreInstall(t) PROVE ReadInv(t)'
    BY <2>3, <2>4, <2>19 DEF RestoreInstall, ReadInv
  <2>20. ASSUME DropKey(t) PROVE ReadInv(t)'
    BY <2>3, <2>4, <2>20 DEF DropKey, NeverSettles, ReadInv
  <2>21. ASSUME PersistWrite(t) \/ KeyIsPut(t) \/ KeyIsDeleted(t) PROVE FALSE
    BY <2>4, <2>21 DEF PersistWrite, KeyIsPut, KeyIsDeleted
  <2> QED
    BY <2>5, <2>6, <2>7, <2>10, <2>11, <2>12, <2>13, <2>14, <2>15, <2>16, <2>17, <2>18,
       <2>19, <2>20, <2>21 DEF Steps
<1> QED
  BY <1>1, <1>3, <1>4

-----------------------------------------------------------------------------
(* An operation is called: its number is new, or one its migration had     *)
(* reserved, and the payload of the session may grow.                      *)
Grows(t) ==
  \/ UNCHANGED objects
  \/ /\ session[t] # 0
     /\ \E c \in Ids \cup {Legacy} : Adds(t, c)

Asks(t, x) ==
  /\ x \in Items /\ Enqueues(t, x) /\ Grows(t)
  /\ UNCHANGED <<storeVars, session, owner, step, local, acked>>
  /\ calls' \in calls..MaxCalls
  /\ x.id <= calls' /\ (x.id > calls \/ x.id \in Reserved(t))
  /\ x.kind = "persist" => x.obj \in 1..Len(objects[t])
  /\ migration' = [migration EXCEPT ![t] = migration'[t]]
  /\ migration'[t] \in Waiting \cup {NoMigration}
  /\ migration'[t] # NoMigration => migration'[t].id <= calls'
  /\ \A p \in Reserved(t)' :
       p # x.id /\ p \in 1..calls' /\ (p > calls \/ p \in Reserved(t))

(* A migration that starts to wait for a save waits for the one called.    *)
WaitsFor(t, x) ==
  migration'[t].at = "saving" =>
    \/ migration'[t] = migration[t]
    \/ /\ migration'[t].id = x.id /\ migration'[t].obj = x.obj
       /\ x.kind = "persist" /\ Legacy \in objects'[t][x.obj].data

(* Where a migration stands.                                               *)
LEMMA MigrationFacts ==
  ASSUME TypeOK, NEW t \in Tabs
  PROVE  /\ migration[t].at \in {"none", "opening", "saving"}
         /\ migration[t].at # "none" => migration[t] \in Waiting
         /\ migration[t].at # "none" => migration[t] # NoMigration /\ migration[t].id \in Nat
         /\ migration[t] \in Waiting \cup {NoMigration}
         /\ migration[t] = NoMigration => Reserved(t) = {}
         /\ \A p \in Reserved(t) : p \in Nat /\ p > migration[t].id
<1>1. migration[t] \in Waiting \cup {NoMigration}
  BY DEF TypeOK, CallTypes
<1>2. CASE migration[t] = NoMigration
  BY <1>2 DEF NoMigration, Reserved
<1>3. CASE migration[t] \in Waiting
  BY <1>3 DEF Waiting, Ids, NoMigration, Reserved
<1> QED
  BY <1>1, <1>2, <1>3

(* A call of the API asks for one operation.                               *)
LEMMA CallAsks ==
  ASSUME TypeOK, RefsInv, IdsInv, NEW t \in Tabs, NEW k \in Kinds, Call(t, k)
  PROVE  \E x : Asks(t, x) /\ WaitsFor(t, x)
<1>1. /\ calls + 1 \in Ids /\ calls' = calls + 1 /\ calls' \in calls..MaxCalls /\ calls \in Nat
      /\ migration' = migration /\ migration[t] \in Waiting \cup {NoMigration}
  BY VaultAssumption DEF Call, TypeOK, CallTypes, Ids, migVars
<1>2. migration' = [migration EXCEPT ![t] = migration'[t]]
  BY <1>1 DEF TypeOK, CallTypes
<1>3. Reserved(t)' = Reserved(t)
  BY <1>1 DEF Reserved
<1>4. \A p \in Reserved(t)' :
        p # calls + 1 /\ p \in 1..calls' /\ (p > calls \/ p \in Reserved(t))
  BY <1>1, <1>3 DEF IdsInv
<1>5. migration'[t] # NoMigration => migration'[t].id <= calls'
  <2>1. migration[t] # NoMigration => migration[t].id <= calls /\ migration[t].id \in Nat
    BY <1>1 DEF IdsInv, Waiting, Ids
  <2> QED
    BY <1>1, <2>1
<1>6. CASE k = "persist"
  <2> DEFINE x == [kind |-> "persist", id |-> calls + 1, obj |-> session[t]]
  <2>1. /\ session[t] # 0 /\ Enqueues(t, x)
        /\ Adds(t, calls + 1)
    BY <1>1, <1>6 DEF Call, Change, Enqueue, Enqueues, Adds
  <2>2. session[t] \in 1..Len(objects[t]) /\ session[t] \in Nat
    BY <2>1 DEF RefsInv, TypeOK, TabTypes
  <2>3. x \in Items
    BY <1>1, <2>2 DEF Items, Kinds
  <2>4. Grows(t)
    BY <1>1, <2>1 DEF Grows
  <2>5. UNCHANGED <<storeVars, session, owner, step, local, acked>>
    BY <1>6 DEF Call, Change, Enqueue
  <2>6. Asks(t, x)
    BY <1>1, <1>2, <1>4, <1>5, <2>1, <2>2, <2>3, <2>4, <2>5 DEF Asks
  <2> QED
    BY <1>1, <2>6 DEF WaitsFor
<1>7. CASE k # "persist"
  <2> DEFINE x == [kind |-> k, id |-> calls + 1, obj |-> 0]
  <2>1. Enqueues(t, x) /\ objects' = objects
    BY <1>1, <1>7 DEF Call, Enqueue, Enqueues
  <2>2. x \in Items
    BY <1>1 DEF Items
  <2>3. UNCHANGED <<storeVars, session, owner, step, local, acked>>
    BY <1>7 DEF Call, Enqueue
  <2>4. Asks(t, x)
    BY <1>1, <1>2, <1>4, <1>5, <1>7, <2>1, <2>2, <2>3 DEF Asks, Grows
  <2> QED
    BY <1>1, <2>4 DEF WaitsFor
<1> QED
  BY <1>6, <1>7

(* So does an import, which goes on to wait for its save.                  *)
LEMMA ImportAsks ==
  ASSUME TypeOK, RefsInv, IdsInv, NEW t \in Tabs, session[t] # 0,
         NEW n \in Nat, Import(t, n), n \in 1..calls', n + 1 \in 1..calls',
         calls' \in calls..MaxCalls,
         n > calls \/ n \in Reserved(t), n + 1 > calls \/ n + 1 \in Reserved(t),
         UNCHANGED <<storeVars, session, acked>>
  PROVE  \E x : Asks(t, x) /\ WaitsFor(t, x)
<1> DEFINE x == [kind |-> "persist", id |-> n, obj |-> session[t]]
           w == [at |-> "saving", id |-> n, obj |-> session[t],
                 fresh |-> Legacy \notin objects[t][session[t]].data]
<1>1. /\ session[t] \in 1..Len(objects[t]) /\ session[t] \in Nat
      /\ calls' \in Nat /\ calls' <= MaxCalls /\ n \in Ids
  BY VaultAssumption DEF RefsInv, TypeOK, TabTypes, CallTypes, Ids
<1>2. x \in Items
  BY <1>1 DEF Items, Kinds
<1>3. w \in Waiting
  BY <1>1 DEF Waiting
<1>4. /\ Adds(t, Legacy)
      /\ Enqueues(t, x) /\ UNCHANGED <<owner, step, local>>
      /\ migration' = [migration EXCEPT ![t] = w]
  BY DEF Import, Change, Enqueue, Enqueues, Waits, Adds
<1>5. migration'[t] = w /\ migration' = [migration EXCEPT ![t] = migration'[t]]
  BY <1>4 DEF TypeOK, CallTypes
<1>6. \A p \in Reserved(t)' : p = n + 1
  BY <1>5 DEF Reserved
<1>7. Asks(t, x)
  <2>1. Grows(t)
    BY <1>4 DEF Grows
  <2>2. migration'[t].id <= calls'
    BY <1>1, <1>5
  <2>3. \A p \in Reserved(t)' :
          p # n /\ p \in 1..calls' /\ (p > calls \/ p \in Reserved(t))
    BY <1>1, <1>6
  <2>4. UNCHANGED <<storeVars, session, owner, step, local, acked>>
    BY <1>4
  <2>5. x.kind = "persist" /\ x.id = n /\ x.obj = session[t]
    OBVIOUS
  <2>6. x.id <= calls' /\ (x.id > calls \/ x.id \in Reserved(t))
    BY <1>1, <2>5
  <2> HIDE DEF x, w
  <2> QED
    BY <1>1, <1>2, <1>3, <1>4, <1>5, <2>1, <2>2, <2>3, <2>4, <2>5, <2>6 DEF Asks
<1>8. Legacy \in objects'[t][session[t]].data
  BY <1>4, ChangeFacts
<1>9. WaitsFor(t, x)
  BY <1>5, <1>8 DEF WaitsFor
<1> QED
  BY <1>7, <1>9

(* A migration's own calls.                                                *)
LEMMA MigrationAsks ==
  ASSUME TypeOK, RefsInv, IdsInv, MigrationInv, NEW t \in Tabs,
         \/ Migrate(t)
         \/ MigrateImport(t) /\ session[t] # 0
         \/ MigrateDelete(t) /\ CanDeleteLegacy(t)
  PROVE  \E x : Asks(t, x) /\ WaitsFor(t, x)
<1>1. calls \in Nat /\ MaxCalls \in Nat /\ calls <= MaxCalls
  BY VaultAssumption DEF TypeOK, CallTypes
<1>2. CASE Migrate(t) /\ env # NoVault /\ session[t] # 0
  <2>1. Import(t, calls + 2) /\ calls' = calls + 3 /\ calls + 3 <= MaxCalls
    BY <1>2 DEF Migrate
  <2>2. UNCHANGED <<storeVars, session, acked>>
    BY <1>2 DEF Migrate
  <2>3. /\ calls + 2 \in 1..calls' /\ (calls + 2) + 1 \in 1..calls'
        /\ calls' \in calls..MaxCalls /\ calls + 2 > calls /\ (calls + 2) + 1 > calls
        /\ calls + 2 \in Nat
    BY <1>1, <2>1
  <2> QED
    BY <1>2, <2>1, <2>2, <2>3, ImportAsks
<1>3. CASE Migrate(t) /\ ~(env # NoVault /\ session[t] # 0)
  <2> DEFINE k == IF env = NoVault THEN "create" ELSE "unlock"
             x == [kind |-> k, id |-> calls + 1, obj |-> 0]
             w == [at |-> "opening", id |-> calls + 1, obj |-> session[t], fresh |-> FALSE]
  <2>1. /\ Enqueues(t, x) /\ UNCHANGED <<objects, owner, step, local>>
        /\ migration' = [migration EXCEPT ![t] = w]
        /\ calls' = calls + 3 /\ calls + 3 <= MaxCalls
    BY <1>3 DEF Migrate, Enqueue, Enqueues, Waits
  <2>2. UNCHANGED <<storeVars, session, acked>>
    BY <1>3 DEF Migrate
  <2>3. calls + 1 \in Ids /\ calls' \in calls..MaxCalls /\ session[t] \in Nat
    BY <1>1, <2>1 DEF Ids, TypeOK, TabTypes
  <2>4. x \in Items
    BY <2>3 DEF Items, Kinds
  <2>5. w \in Waiting
    BY <2>3 DEF Waiting
  <2>6. migration'[t] = w /\ migration' = [migration EXCEPT ![t] = migration'[t]]
    BY <2>1 DEF TypeOK, CallTypes
  <2>7. \A p \in Reserved(t)' : p \in {calls + 2, calls + 3}
    BY <1>1, <2>6 DEF Reserved
  <2>8. Asks(t, x)
    BY <1>1, <2>1, <2>2, <2>3, <2>4, <2>5, <2>6, <2>7 DEF Asks, Grows
  <2> QED
    BY <2>6, <2>8 DEF WaitsFor
<1>4. CASE MigrateImport(t) /\ session[t] # 0
  <2> DEFINE n == migration[t].id + 1
  <2>1. migration[t].at = "opening" /\ Import(t, n) /\ calls' = calls
    BY <1>4 DEF MigrateImport, Answered
  <2>2. UNCHANGED <<storeVars, session, acked>>
    BY <1>4 DEF MigrateImport
  <2>3. migration[t].id \in Nat /\ n \in Nat
    BY <2>1, MigrationFacts
  <2>4. n \in Reserved(t) /\ n + 1 \in Reserved(t)
    BY <2>1, <2>3 DEF Reserved
  <2>5. n \in 1..calls' /\ n + 1 \in 1..calls' /\ calls' \in calls..MaxCalls
    BY <1>1, <2>1, <2>4 DEF IdsInv
  <2> QED
    BY <1>4, <2>1, <2>2, <2>3, <2>4, <2>5, ImportAsks
<1>5. CASE MigrateDelete(t) /\ CanDeleteLegacy(t)
  <2> DEFINE n == migration[t].id + 1
             x == [kind |-> "persist", id |-> n, obj |-> migration[t].obj]
  <2>1. migration[t].at = "saving" /\ calls' = calls
    BY <1>5 DEF MigrateDelete, Answered
  <2>2. /\ acked' = acked \cup {<<Legacy, objects[t][migration[t].obj].salt>>}
        /\ Enqueues(t, x) /\ UNCHANGED <<objects, owner, step, local>>
        /\ migration' = [migration EXCEPT ![t] = NoMigration]
    BY <1>5 DEF MigrateDelete, Enqueue, Enqueues
  <2>3. UNCHANGED <<storeVars, session>>
    BY <1>5 DEF MigrateDelete
  <2>4. acked' = acked
    BY <1>5, <2>1, <2>2 DEF CanDeleteLegacy, MigrationInv
  <2>5. migration[t].id \in Nat /\ migration[t] \in Waiting
    BY <2>1, MigrationFacts
  <2>6. n \in Reserved(t)
    BY <2>1 DEF Reserved
  <2>7. n \in 1..calls /\ n \in Ids
    BY <1>1, <2>6 DEF IdsInv, Ids
  <2>8. migration[t].obj \in 1..Len(objects[t]) /\ migration[t].obj \in Nat
    BY <2>1, <2>5 DEF RefsInv, Waiting
  <2>9. x \in Items
    BY <2>7, <2>8 DEF Items, Kinds
  <2>10. migration'[t] = NoMigration /\ migration' = [migration EXCEPT ![t] = migration'[t]]
    BY <2>2 DEF TypeOK, CallTypes
  <2>11. Reserved(t)' = {} /\ migration'[t].at = "none"
    BY <2>10 DEF Reserved, NoMigration
  <2>12. Asks(t, x)
    BY <1>1, <2>1, <2>2, <2>3, <2>4, <2>6, <2>7, <2>8, <2>9, <2>10, <2>11 DEF Asks, Grows
  <2> QED
    BY <2>11, <2>12 DEF WaitsFor
<1> QED
  BY <1>2, <1>3, <1>4, <1>5

(* A call leaves every object where it is, with a payload that is not less. *)
LEMMA AskedObjects ==
  ASSUME TypeOK, RefsInv, NEW t \in Tabs, Grows(t)
  PROVE  /\ objects' \in [Tabs -> Seq(Envelopes)]
         /\ \A u \in Tabs : Len(objects'[u]) = Len(objects[u])
         /\ \A u \in Tabs : \A i \in 1..Len(objects[u]) :
              /\ objects'[u][i].raw = objects[u][i].raw
              /\ objects'[u][i].rev = objects[u][i].rev
              /\ objects'[u][i].gen = objects[u][i].gen
              /\ objects'[u][i].salt = objects[u][i].salt
              /\ objects[u][i].data \subseteq objects'[u][i].data
              /\ objects'[u][i].data \subseteq Ids \cup {Legacy}
<1>1. CASE UNCHANGED objects
  BY <1>1 DEF TypeOK, TabTypes
<1>2. CASE ~UNCHANGED objects
  <2>1. PICK c \in Ids \cup {Legacy} : Adds(t, c)
    BY <1>2 DEF Grows
  <2>2. session[t] # 0
    BY <1>2 DEF Grows
  <2>3. /\ objects' \in [Tabs -> Seq(Envelopes)]
        /\ \A u \in Tabs : u # t => objects'[u] = objects[u]
        /\ \A u \in Tabs : Len(objects'[u]) = Len(objects[u])
        /\ \A i \in 1..Len(objects[t]) :
             /\ objects'[t][i].raw = objects[t][i].raw
             /\ objects'[t][i].rev = objects[t][i].rev
             /\ objects'[t][i].gen = objects[t][i].gen
             /\ objects'[t][i].salt = objects[t][i].salt
             /\ objects[t][i].data \subseteq objects'[t][i].data
             /\ objects'[t][i].data \subseteq Ids \cup {Legacy}
    BY <2>1, <2>2, ChangeFacts
  <2> QED
    BY <2>3 DEF TypeOK, TabTypes
<1> QED
  BY <1>1, <1>2

(* The queue of a tab after a call: what was there, and the operation      *)
(* called.                                                                 *)
LEMMA AskedQueue ==
  ASSUME TypeOK, NEW t \in Tabs, NEW x \in Items, Enqueues(t, x),
         NEW u \in Tabs, NEW i \in 1..Len(queue'[u])
  PROVE  \/ i \in 1..Len(queue[u]) /\ queue'[u][i] = queue[u][i]
         \/ u = t /\ queue'[u][i] = x /\ i = Len(queue[t]) + 1
<1>1. CASE u # t
  BY <1>1, EnqueueFacts
<1>2. CASE u = t
  <2>1. i \in 1..Len(queue[t]) \/ i = Len(queue[t]) + 1
    BY <1>2, EnqueueFacts
  <2> QED
    BY <1>2, <2>1, EnqueueFacts
<1> QED
  BY <1>1, <1>2

(* A call keeps the types.                                                 *)
LEMMA AskTypes ==
  ASSUME TypeOK, RefsInv, NEW t \in Tabs, NEW x, Asks(t, x)
  PROVE  TypeOK'
<1>1. x \in Items /\ Enqueues(t, x) /\ Grows(t)
  BY DEF Asks
<1>2. StoreTypes'
  BY DEF Asks, TypeOK, StoreTypes, storeVars
<1>3. RunTypes'
  BY <1>1, EnqueueFacts DEF Asks, TypeOK, RunTypes
<1>4. TabTypes'
  <2>1. session' \in [Tabs -> Nat]
    BY DEF Asks, TypeOK, TabTypes
  <2> QED
    BY <1>1, <2>1, AskedObjects DEF TabTypes
<1>5. CallTypes'
  <2>1. calls' \in 0..MaxCalls
    BY VaultAssumption DEF Asks, TypeOK, CallTypes
  <2>2. migration' \in [Tabs -> Waiting \cup {NoMigration}]
    BY DEF Asks, TypeOK, CallTypes
  <2>3. acked' = acked
    BY DEF Asks
  <2> QED
    BY <2>1, <2>2, <2>3 DEF TypeOK, CallTypes
<1> QED
  BY <1>2, <1>3, <1>4, <1>5 DEF TypeOK

(* What tab u's migration waits for is the same, or tab t's has moved on.  *)
LEMMA AskedMigration ==
  ASSUME TypeOK, NEW t \in Tabs, NEW x, Asks(t, x), NEW u \in Tabs
  PROVE  u # t => migration'[u] = migration[u] /\ Reserved(u)' = Reserved(u)
BY DEF Asks, TypeOK, CallTypes, Reserved

(* A call refers to what is there.                                         *)
LEMMA AskRefs ==
  ASSUME TypeOK, RefsInv, NEW t \in Tabs, NEW x, Asks(t, x), WaitsFor(t, x)
  PROVE  RefsInv'
<1>1. x \in Items /\ Enqueues(t, x) /\ Grows(t) /\ session' = session
  BY DEF Asks
<1>2. ASSUME NEW u \in Tabs
      PROVE  /\ session'[u] <= Len(objects'[u])
             /\ \A i \in 1..Len(queue'[u]) :
                  queue'[u][i].kind = "persist" => queue'[u][i].obj \in 1..Len(objects'[u])
             /\ migration'[u].at = "saving" => migration'[u].obj \in 1..Len(objects'[u])
  <2>1. Len(objects'[u]) = Len(objects[u])
    BY <1>1, AskedObjects
  <2>2. x.kind = "persist" => x.obj \in 1..Len(objects[t])
    BY DEF Asks
  <2>3. \A i \in 1..Len(queue'[u]) :
          queue'[u][i].kind = "persist" => queue'[u][i].obj \in 1..Len(objects'[u])
    BY SMTT(30), <1>1, <2>1, <2>2, AskedQueue DEF RefsInv
  <2>4. migration'[u].at = "saving" => migration'[u].obj \in 1..Len(objects'[u])
    <3>1. CASE u = t
      BY <2>1, <2>2, <3>1 DEF WaitsFor, RefsInv
    <3>2. CASE u # t
      BY <2>1, <3>2, AskedMigration DEF RefsInv
    <3> QED
      BY <3>1, <3>2
  <2> QED
    BY <1>1, <2>1, <2>3, <2>4 DEF RefsInv
<1> QED
  BY <1>2 DEF RefsInv

(* The number of a call is a new one.                                      *)
LEMMA AskIds ==
  ASSUME TypeOK, TypeOK', IdsInv, NEW t \in Tabs, NEW x, Asks(t, x)
  PROVE  IdsInv'
<1>1. /\ x \in Items /\ Enqueues(t, x) /\ calls \in Nat /\ calls' \in Nat /\ calls <= calls'
      /\ x.id \in Nat /\ x.id <= calls' /\ (x.id > calls \/ x.id \in Reserved(t))
  BY DEF Asks, TypeOK, CallTypes, Items, Ids
<1>2. \A u \in Tabs : \A p \in Reserved(u) : p \in Nat /\ p <= calls
  BY DEF IdsInv
<1>4. \A p \in Reserved(t)' :
        p # x.id /\ p \in 1..calls' /\ (p > calls \/ p \in Reserved(t))
  BY DEF Asks
<1>5. \A u \in Tabs : u # t => migration'[u] = migration[u] /\ Reserved(u)' = Reserved(u)
  BY AskedMigration
<1>3. \A u \in Tabs : \A p \in Reserved(u)' : p # x.id
  <2> SUFFICES ASSUME NEW u \in Tabs, NEW p \in Reserved(u)', u # t PROVE p # x.id
    BY <1>4
  <2>1. p \in Reserved(u) /\ p \in Nat /\ p <= calls
    BY <1>2, <1>5
  <2>2. p \notin Reserved(t)
    BY <2>1 DEF IdsInv
  <2> QED
    BY <1>1, <2>1, <2>2
<1>6. \A u \in Tabs : \A i \in 1..Len(queue[u]) :
        /\ queue[u][i].id \in Nat /\ queue[u][i].id <= calls /\ queue[u][i].id # x.id
        /\ \A v \in Tabs : queue[u][i].id \notin Reserved(v)'
  <2> SUFFICES ASSUME NEW u \in Tabs, NEW i \in 1..Len(queue[u])
               PROVE  /\ queue[u][i].id \in Nat /\ queue[u][i].id <= calls
                      /\ queue[u][i].id # x.id
                      /\ \A v \in Tabs : queue[u][i].id \notin Reserved(v)'
    OBVIOUS
  <2>1. queue[u][i] \in Items
    BY ElementOfSeq DEF TypeOK, RunTypes
  <2>2. queue[u][i].id \in Nat /\ queue[u][i].id <= calls
    BY <2>1 DEF Items, Ids, IdsInv
  <2>3. \A v \in Tabs : queue[u][i].id \notin Reserved(v)
    BY DEF IdsInv
  <2>4. queue[u][i].id # x.id
    BY <1>1, <2>2, <2>3
  <2>5. \A v \in Tabs : queue[u][i].id \notin Reserved(v)'
    <3> SUFFICES ASSUME NEW v \in Tabs, NEW p \in Reserved(v)' PROVE queue[u][i].id # p
      OBVIOUS
    <3>1. CASE v # t
      BY <1>5, <2>3, <3>1
    <3>2. CASE v = t
      BY <1>1, <1>4, <2>2, <2>3, <3>2
    <3> QED
      BY <3>1, <3>2
  <2> QED
    BY <2>2, <2>4, <2>5
<1>7. \A u, v \in Tabs : u # v => \A p \in Reserved(u)' : p \notin Reserved(v)'
  <2> SUFFICES ASSUME NEW u \in Tabs, NEW v \in Tabs, u # v, NEW p \in Reserved(u)'
               PROVE  p \notin Reserved(v)'
    OBVIOUS
  <2>1. CASE u # t /\ v # t
    BY <1>5, <2>1 DEF IdsInv
  <2>2. CASE u = t
    BY <1>1, <1>2, <1>4, <1>5, <2>2 DEF IdsInv
  <2>3. CASE v = t
    BY <1>1, <1>2, <1>4, <1>5, <2>3 DEF IdsInv
  <2> QED
    BY <2>1, <2>2, <2>3
<1>8. \A u \in Tabs : \A p \in Reserved(u)' : p \in 1..calls'
  BY <1>1, <1>4, <1>5 DEF IdsInv
<1>9. \A u \in Tabs : migration'[u] # NoMigration => migration'[u].id <= calls'
  <2> SUFFICES ASSUME NEW u \in Tabs, migration'[u] # NoMigration
               PROVE  migration'[u].id <= calls'
    OBVIOUS
  <2>1. CASE u = t
    BY <2>1 DEF Asks
  <2>2. CASE u # t
    <3>1. migration'[u] = migration[u] /\ migration[u].id <= calls
      BY <1>5, <2>2 DEF IdsInv
    <3>2. migration[u].id \in Nat
      BY <3>1 DEF TypeOK, CallTypes, Waiting, Ids
    <3> QED
      BY <1>1, <3>1, <3>2
  <2> QED
    BY <2>1, <2>2
<1>10. ASSUME NEW u \in Tabs, NEW i \in 1..Len(queue'[u])
       PROVE  /\ queue'[u][i].id <= calls'
              /\ \A v \in Tabs :
                   /\ queue'[u][i].id \notin Reserved(v)'
                   /\ \A j \in 1..Len(queue'[v]) :
                        queue'[u][i].id = queue'[v][j].id => u = v /\ i = j
  <2>1. \/ i \in 1..Len(queue[u]) /\ queue'[u][i] = queue[u][i]
        \/ u = t /\ queue'[u][i] = x /\ i = Len(queue[t]) + 1
    BY <1>1, AskedQueue
  <2>2. queue'[u][i].id <= calls'
    BY <1>1, <1>6, <2>1
  <2>3. \A v \in Tabs : queue'[u][i].id \notin Reserved(v)'
    BY <1>3, <1>6, <2>1
  <2>4. ASSUME NEW v \in Tabs, NEW j \in 1..Len(queue'[v]),
               queue'[u][i].id = queue'[v][j].id
        PROVE  u = v /\ i = j
    <3>1. \/ j \in 1..Len(queue[v]) /\ queue'[v][j] = queue[v][j]
          \/ v = t /\ queue'[v][j] = x /\ j = Len(queue[t]) + 1
      BY <1>1, AskedQueue
    <3>2. CASE i \in 1..Len(queue[u]) /\ j \in 1..Len(queue[v])
               /\ queue'[u][i] = queue[u][i] /\ queue'[v][j] = queue[v][j]
      BY <2>4, <3>2 DEF IdsInv
    <3>3. CASE \/ i \in 1..Len(queue[u]) /\ queue'[u][i] = queue[u][i] /\ queue'[v][j] = x
               \/ j \in 1..Len(queue[v]) /\ queue'[v][j] = queue[v][j] /\ queue'[u][i] = x
      BY <1>6, <2>4, <3>3
    <3> QED
      BY <2>1, <3>1, <3>2, <3>3
  <2> QED
    BY <2>2, <2>3, <2>4
<1> QED
  BY <1>7, <1>8, <1>9, <1>10 DEF IdsInv

(* A call writes nothing down.                                             *)
LEMMA AskFresh ==
  ASSUME TypeOK, TypeOK', RefsInv, IdsInv, IdsInv', FreshInv,
         NEW t \in Tabs, NEW x, Asks(t, x)
  PROVE  FreshInv'
<1>1. /\ x \in Items /\ Enqueues(t, x) /\ Grows(t)
      /\ calls \in Nat /\ calls' \in Nat /\ calls <= calls' /\ x.id \in Nat
      /\ x.id > calls \/ x.id \in Reserved(t)
      /\ env' = env /\ acked' = acked /\ step' = step
  BY DEF Asks, TypeOK, CallTypes, Items, Ids, storeVars
<1>2. ASSUME NEW n \in Nat PROVE Stored(n)' <=> Stored(n)
  <2>1. \A u \in Tabs : Len(objects'[u]) = Len(objects[u])
    BY <1>1, AskedObjects
  <2>2. \A u \in Tabs : \A i \in 1..Len(objects[u]) :
          /\ objects'[u][i].raw = objects[u][i].raw
          /\ objects'[u][i].salt = objects[u][i].salt
    BY <1>1, AskedObjects
  <2>3. (\E u \in Tabs : \E i \in 1..Len(objects'[u]) :
           n \in {objects'[u][i].raw, objects'[u][i].salt})
        <=> (\E u \in Tabs : \E i \in 1..Len(objects[u]) :
               n \in {objects[u][i].raw, objects[u][i].salt})
    BY SMTT(30), <2>1, <2>2
  <2> QED
    BY <1>1, <2>3 DEF Stored
<1>3. ASSUME NEW n \in Nat, Stored(n) PROVE n <= calls
  BY <1>3 DEF Stored, FreshInv
<1>4. \A u \in Tabs : \A i \in 1..Len(objects'[u]) :
        objects'[u][i].raw <= calls' /\ objects'[u][i].salt <= calls'
  <2> SUFFICES ASSUME NEW u \in Tabs, NEW i \in 1..Len(objects'[u])
               PROVE  objects'[u][i].raw <= calls' /\ objects'[u][i].salt <= calls'
    OBVIOUS
  <2>1. i \in 1..Len(objects[u])
    BY <1>1, AskedObjects
  <2>2. objects[u][i] \in Envelopes
    BY <2>1, ElementOfSeq DEF TypeOK, TabTypes
  <2>3. objects[u][i].raw \in Nat /\ objects[u][i].salt \in Nat
    BY <2>2 DEF Envelopes
  <2>4. objects'[u][i].raw = objects[u][i].raw /\ objects'[u][i].salt = objects[u][i].salt
    BY <1>1, <2>1, AskedObjects
  <2>5. objects[u][i].raw <= calls /\ objects[u][i].salt <= calls
    BY <2>1 DEF FreshInv
  <2> QED
    BY <1>1, <2>3, <2>4, <2>5
<1>5. env' # NoVault => env'.raw <= calls' /\ env'.salt <= calls'
  <2>1. env # NoVault => env.raw \in Nat /\ env.salt \in Nat
    BY DEF TypeOK, StoreTypes, Envelopes
  <2> QED
    BY <1>1, <2>1 DEF FreshInv
<1>6. \A a \in acked' : a[2] <= calls'
  <2>1. \A a \in acked : a[2] \in Nat
    BY DEF TypeOK, CallTypes
  <2> QED
    BY <1>1, <2>1 DEF FreshInv
<1>7. ~Stored(x.id)
  BY <1>1, <1>3 DEF FreshInv
<1>8. ASSUME NEW u \in Tabs, NEW p \in Reserved(u)'
      PROVE  ~(Stored(p)')
  <2>1. p \in Nat
    BY DEF IdsInv
  <2>2. p \in Reserved(u) \/ p > calls
    BY AskedMigration DEF Asks
  <2>3. ~Stored(p)
    BY <1>1, <1>3, <2>1, <2>2 DEF FreshInv
  <2> QED
    BY <1>2, <2>1, <2>3
<1>9. ASSUME NEW u \in Tabs, NEW i \in 1..Len(queue'[u]), NEW n \in Nat,
             n = queue'[u][i].id, i = 1 => step'[u] \notin MaybeStored
      PROVE  ~(Stored(n)')
  <2>1. \/ i \in 1..Len(queue[u]) /\ queue'[u][i] = queue[u][i]
        \/ u = t /\ queue'[u][i] = x
    BY <1>1, AskedQueue
  <2>2. ~Stored(n)
    BY <1>1, <1>7, <1>9, <2>1 DEF FreshInv
  <2> QED
    BY <1>2, <2>2
<1>10. ASSUME NEW u \in Tabs, NEW i \in 1..Len(queue'[u])
       PROVE  queue'[u][i].id \in Nat
  <2>1. queue'[u][i] \in Items
    BY ElementOfSeq DEF TypeOK, RunTypes
  <2> QED
    BY <2>1 DEF Items, Ids
<1> QED
  BY <1>4, <1>5, <1>6, <1>8, <1>9, <1>10 DEF FreshInv, Stored

(* Nothing has the number of a call yet.                                   *)
LEMMA AskedNumber ==
  ASSUME TypeOK, IdsInv, FreshInv, NEW t \in Tabs, NEW x, Asks(t, x)
  PROVE  /\ ~Stored(x.id)
         /\ \A u \in Tabs : \A i \in 1..Len(queue[u]) : queue[u][i].id # x.id
         /\ migration[t].at = "saving" => migration[t].id # x.id
<1>1. /\ calls \in Nat /\ x.id \in Nat /\ (x.id > calls \/ x.id \in Reserved(t))
  BY DEF Asks, TypeOK, CallTypes, Items, Ids
<1>2. ASSUME NEW n \in Nat, Stored(n) PROVE n <= calls
  BY <1>2 DEF Stored, FreshInv
<1>3. ~Stored(x.id)
  BY <1>1, <1>2 DEF FreshInv
<1>4. ASSUME NEW u \in Tabs, NEW i \in 1..Len(queue[u]) PROVE queue[u][i].id # x.id
  <2>1. queue[u][i] \in Items
    BY ElementOfSeq DEF TypeOK, RunTypes
  <2>2. queue[u][i].id \in Nat /\ queue[u][i].id <= calls /\ queue[u][i].id \notin Reserved(t)
    BY <2>1 DEF Items, Ids, IdsInv
  <2> QED
    BY <1>1, <2>2
<1>5. ASSUME migration[t].at = "saving" PROVE migration[t].id # x.id
  <2>1. migration[t].id \in Nat /\ migration[t].id <= calls
    BY <1>5, MigrationFacts DEF IdsInv
  <2>2. \A p \in Reserved(t) : p > migration[t].id
    BY MigrationFacts
  <2>3. migration[t].id \notin Reserved(t)
    BY <2>1, <2>2
  <2> QED
    BY <1>1, <2>1, <2>3
<1> QED
  BY <1>3, <1>4, <1>5

(* A call leaves the running operations as they are.                       *)
LEMMA AskLock ==
  ASSUME TypeOK, RefsInv, IdsInv, FreshInv, LockInv,
         NEW t \in Tabs, NEW x, Asks(t, x), WaitsFor(t, x)
  PROVE  LockInv'
<1>1. /\ x \in Items /\ Enqueues(t, x) /\ Grows(t)
      /\ step' = step /\ owner' = owner /\ local' = local
      /\ metaGen' = metaGen /\ env' = env /\ key' = key
      /\ remember' = remember /\ allowed' = allowed
  BY DEF Asks, storeVars
<1> SUFFICES ASSUME NEW u \in Tabs, step[u] # "idle"
             PROVE  queue'[u] # <<>> /\ owner = u /\ ReadInv(u)'
  BY <1>1 DEF LockInv
<1>2. queue[u] # <<>> /\ owner = u /\ ReadInv(u)
  BY DEF LockInv
<1>3. queue'[u] # <<>> /\ Op(u)' = Op(u)
  <2>1. CASE u = t
    BY <1>1, <1>2, <2>1, EnqueueFacts DEF Op
  <2>2. CASE u # t
    BY <1>1, <1>2, <2>2, EnqueueFacts DEF Op
  <2> QED
    BY <2>1, <2>2
<1>4. ASSUME step[u] = "encrypting"
      PROVE  /\ IsCurrent(objects[u][Op(u).obj])'
             /\ local[u].data \subseteq objects'[u][Op(u).obj].data
             /\ (migration'[u].at = "saving" /\ Op(u).id = migration'[u].id)
                  => Legacy \in local[u].data
  <2>1. /\ Op(u).kind = "persist" /\ IsCurrent(objects[u][Op(u).obj])
        /\ local[u].data \subseteq objects[u][Op(u).obj].data
        /\ (migration[u].at = "saving" /\ Op(u).id = migration[u].id)
             => Legacy \in local[u].data
    BY <1>2, <1>4 DEF ReadInv
  <2>2. 1 \in 1..Len(queue[u]) /\ Op(u) = queue[u][1]
    BY <1>2, OpFacts
  <2>3. Op(u).obj \in 1..Len(objects[u])
    BY <2>1, <2>2 DEF RefsInv
  <2>4. IsCurrent(objects[u][Op(u).obj])'
    BY <1>1, <1>3, <2>1, <2>3, AskedObjects DEF IsCurrent
  <2>5. local[u].data \subseteq objects'[u][Op(u).obj].data
    BY <1>1, <2>1, <2>3, AskedObjects
  <2>6. Op(u).id # x.id
    BY <2>2, AskedNumber
  <2>7. migration'[u] = migration[u] \/ migration'[u].at # "saving" \/ migration'[u].id = x.id
    BY AskedMigration DEF WaitsFor
  <2> QED
    BY <2>1, <2>4, <2>5, <2>6, <2>7
<1> QED
  BY <1>1, <1>2, <1>3, <1>4 DEF ReadInv

(* A copy of what is stored may only grow.                                 *)
LEMMA AskCopy ==
  ASSUME TypeOK, RefsInv, CopyInv, NEW t \in Tabs, NEW x, Asks(t, x)
  PROVE  CopyInv'
<1>1. Grows(t) /\ env' = env
  BY DEF Asks, storeVars
<1> SUFFICES ASSUME NEW u \in Tabs, NEW i \in 1..Len(objects[u]),
                    env # NoVault, objects'[u][i].raw = env.raw
             PROVE  /\ objects'[u][i].salt = env.salt
                    /\ env.data \subseteq objects'[u][i].data
  BY <1>1, AskedObjects DEF CopyInv
<1>2. /\ objects'[u][i].raw = objects[u][i].raw /\ objects'[u][i].salt = objects[u][i].salt
      /\ objects[u][i].data \subseteq objects'[u][i].data
  BY <1>1, AskedObjects
<1> QED
  BY <1>2 DEF CopyInv

(* A migration waits for the save it called.                               *)
LEMMA AskMigration ==
  ASSUME TypeOK, RefsInv, IdsInv, FreshInv, MigrationInv,
         NEW t \in Tabs, NEW x, Asks(t, x), WaitsFor(t, x)
  PROVE  MigrationInv'
<1>1. x \in Items /\ Enqueues(t, x) /\ Grows(t) /\ acked' = acked
  BY DEF Asks
<1> SUFFICES ASSUME NEW u \in Tabs, migration'[u].at = "saving"
             PROVE  /\ Legacy \in objects'[u][migration'[u].obj].data
                    /\ objects'[u][migration'[u].obj].raw = migration'[u].id
                         => <<Legacy, objects'[u][migration'[u].obj].salt>> \in acked'
                    /\ \A i \in 1..Len(queue'[u]) :
                         queue'[u][i].id = migration'[u].id =>
                           /\ queue'[u][i].kind = "persist"
                           /\ queue'[u][i].obj = migration'[u].obj
  BY DEF MigrationInv
<1>2. CASE migration'[u] = migration[u]
  <2> DEFINE m == migration[u].obj
  <2>1. m \in 1..Len(objects[u]) /\ migration[u].at = "saving"
    BY <1>2 DEF RefsInv
  <2>2. /\ objects'[u][m].raw = objects[u][m].raw /\ objects'[u][m].salt = objects[u][m].salt
        /\ objects[u][m].data \subseteq objects'[u][m].data
    BY <1>1, <2>1, AskedObjects
  <2>3. ASSUME NEW i \in 1..Len(queue'[u]), queue'[u][i].id = migration[u].id
        PROVE  queue'[u][i].kind = "persist" /\ queue'[u][i].obj = m
    <3>1. u = t => queue'[u][i] # x
      BY <2>1, <2>3, AskedNumber
    <3>2. i \in 1..Len(queue[u]) /\ queue'[u][i] = queue[u][i]
      BY <1>1, <3>1, AskedQueue
    <3> QED
      BY <2>1, <2>3, <3>2 DEF MigrationInv
  <2> QED
    BY ZenonT(60), <1>1, <1>2, <2>1, <2>2, <2>3 DEF MigrationInv
<1>3. CASE migration'[u] # migration[u]
  <2>1. /\ u = t /\ migration'[u].id = x.id /\ migration'[u].obj = x.obj
        /\ x.kind = "persist" /\ Legacy \in objects'[t][x.obj].data
    BY <1>3, AskedMigration DEF WaitsFor
  <2>2. x.obj \in 1..Len(objects[t])
    BY <2>1 DEF Asks
  <2>3. objects'[t][x.obj].raw # x.id
    <3>1. ~Stored(x.id)
      BY AskedNumber
    <3>2. objects[t][x.obj].raw # x.id
      BY <2>2, <3>1 DEF Stored
    <3>3. objects'[t][x.obj].raw = objects[t][x.obj].raw
      BY <1>1, <2>2, AskedObjects
    <3> QED
      BY <3>2, <3>3
  <2>4. ASSUME NEW i \in 1..Len(queue'[t]), queue'[t][i].id = x.id
        PROVE  queue'[t][i] = x
    BY <1>1, <2>4, AskedQueue, AskedNumber
  <2> QED
    BY <2>1, <2>3, <2>4
<1> QED
  BY <1>2, <1>3

(* A call keeps the invariant.                                             *)
LEMMA AskInvariant ==
  ASSUME IInv, NEW t \in Tabs, \E x : Asks(t, x) /\ WaitsFor(t, x)
  PROVE  IInv'
<1> USE DEF IInv
<1>1. PICK x : Asks(t, x) /\ WaitsFor(t, x)
  OBVIOUS
<1>2. TypeOK'
  BY <1>1, AskTypes
<1>3. RefsInv'
  BY <1>1, AskRefs
<1>4. IdsInv'
  BY <1>1, <1>2, AskIds
<1>5. FreshInv'
  BY <1>1, <1>2, <1>4, AskFresh
<1>6. LockInv'
  BY <1>1, AskLock
<1>7. CopyInv' /\ MigrationInv'
  BY <1>1, AskCopy, AskMigration
<1>8. AcknowledgedIsDurable'
  BY <1>1 DEF Asks, storeVars, AcknowledgedIsDurable
<1> QED
  BY <1>2, <1>3, <1>4, <1>5, <1>6, <1>7, <1>8

(* A step of an operation keeps it.                                        *)
LEMMA StepInvariant ==
  ASSUME UseLocks, IInv, NEW t \in Tabs, Steps(t), UNCHANGED migVars
  PROVE  IInv'
<1> USE DEF IInv
<1>1. TypeOK'
  BY StepStoreTypes, StepTabTypes, StepRunTypes DEF TypeOK
<1>2. RefsInv' /\ IdsInv'
  BY StepRefs, StepIds
<1>3. FreshInv'
  BY <1>1, StepFresh
<1>4. LockInv'
  BY <1>1, StepLock
<1>5. CopyInv' /\ MigrationInv' /\ AcknowledgedIsDurable'
  BY StepCopy, StepMigration, StepDurable
<1> QED
  BY <1>1, <1>2, <1>3, <1>4, <1>5

(* Nothing happens but that a number is drawn, or a migration given up.    *)
Rests(t) ==
  /\ UNCHANGED <<storeVars, tabVars, runVars, acked>>
  /\ calls' \in calls..MaxCalls
  /\ migration' = migration \/ migration' = [migration EXCEPT ![t] = NoMigration]

(* Such a step keeps the invariant.                                        *)
LEMMA RestInvariant ==
  ASSUME IInv, NEW t, Rests(t)
  PROVE  IInv'
<1> USE DEF IInv, Rests, storeVars, tabVars, runVars
<1>1. calls \in Nat /\ calls' \in Nat /\ calls <= calls' /\ calls' \in 0..MaxCalls
  BY VaultAssumption DEF TypeOK, CallTypes
<1>2. \A u \in Tabs : migration'[u] \in {migration[u], NoMigration}
  BY DEF TypeOK, CallTypes
<1>3. \A u \in Tabs : Reserved(u)' = Reserved(u) \/ Reserved(u)' = {}
  <2> SUFFICES ASSUME NEW u \in Tabs PROVE Reserved(u)' = Reserved(u) \/ Reserved(u)' = {}
    OBVIOUS
  <2>1. CASE migration'[u] = migration[u]
    BY <2>1 DEF Reserved
  <2>2. CASE migration'[u] = NoMigration
    BY <2>2 DEF Reserved, NoMigration
  <2> QED
    BY <1>2, <2>1, <2>2
<1>4. TypeOK'
  <2>1. migration' \in [Tabs -> Waiting \cup {NoMigration}]
    BY DEF TypeOK, CallTypes
  <2> QED
    BY <1>1, <2>1 DEF TypeOK, StoreTypes, RunTypes, TabTypes, CallTypes
<1>5. RefsInv'
  BY <1>2 DEF RefsInv, NoMigration
<1>6. IdsInv'
  <2>1. \A u \in Tabs : migration'[u] # NoMigration => migration'[u].id <= calls'
    <3> SUFFICES ASSUME NEW u \in Tabs, migration'[u] # NoMigration
                 PROVE  migration'[u].id <= calls'
      OBVIOUS
    <3>1. migration'[u] = migration[u] /\ migration[u].id <= calls
      BY <1>2 DEF IdsInv
    <3>2. migration[u].id \in Nat
      BY <3>1 DEF TypeOK, CallTypes, Waiting, Ids
    <3> QED
      BY <1>1, <3>1, <3>2
  <2>2. \A u \in Tabs : \A p \in Reserved(u)' :
          p \in 1..calls' /\ \A v \in Tabs : v # u => p \notin Reserved(v)'
    BY <1>1, <1>3 DEF IdsInv
  <2>3. \A u \in Tabs : \A i \in 1..Len(queue[u]) : queue[u][i].id <= calls'
    <3> SUFFICES ASSUME NEW u \in Tabs, NEW i \in 1..Len(queue[u])
                 PROVE  queue[u][i].id <= calls'
      OBVIOUS
    <3>1. queue[u][i] \in Items
      BY ElementOfSeq DEF TypeOK, RunTypes
    <3>2. queue[u][i].id \in Nat /\ queue[u][i].id <= calls
      BY <3>1 DEF Items, Ids, IdsInv
    <3> QED
      BY <1>1, <3>2
  <2> QED
    BY <1>3, <2>1, <2>2, <2>3 DEF IdsInv
<1>7. FreshInv'
  <2>1. env # NoVault => env.raw \in Nat /\ env.salt \in Nat
    BY DEF TypeOK, StoreTypes, Envelopes
  <2>2. \A u \in Tabs : \A i \in 1..Len(objects[u]) : objects[u][i] \in Envelopes
    BY ElementOfSeq DEF TypeOK, TabTypes
  <2>3. \A u \in Tabs : \A i \in 1..Len(objects[u]) :
          objects[u][i].raw \in Nat /\ objects[u][i].salt \in Nat
    BY <2>2 DEF Envelopes
  <2>4. \A a \in acked : a[2] \in Nat
    BY DEF TypeOK, CallTypes
  <2>5. env # NoVault => env.raw <= calls' /\ env.salt <= calls'
    BY <1>1, <2>1 DEF FreshInv
  <2>6. \A u \in Tabs : \A i \in 1..Len(objects[u]) :
          objects[u][i].raw <= calls' /\ objects[u][i].salt <= calls'
    BY <1>1, <2>3 DEF FreshInv
  <2>7. \A a \in acked : a[2] <= calls'
    BY <1>1, <2>4 DEF FreshInv
  <2>8. \A u \in Tabs : \A p \in Reserved(u)' : ~(Stored(p)')
    BY <1>3 DEF FreshInv, Stored
  <2>9. \A u \in Tabs : \A i \in 1..Len(queue[u]) :
          (i = 1 => step[u] \notin MaybeStored) => ~(Stored(queue[u][i].id)')
    BY DEF FreshInv, Stored
  <2> QED
    BY <2>5, <2>6, <2>7, <2>8, <2>9 DEF FreshInv
<1>8. LockInv'
  <2>1. ASSUME NEW u \in Tabs, ReadInv(u) PROVE ReadInv(u)'
    <3>1. migration'[u].at = "saving" => migration'[u] = migration[u]
      BY <1>2 DEF NoMigration
    <3>2. /\ step' = step /\ local' = local /\ queue' = queue /\ objects' = objects
          /\ env' = env /\ metaGen' = metaGen /\ key' = key
          /\ remember' = remember /\ allowed' = allowed
      OBVIOUS
    <3> QED
      BY ONLY <2>1, <3>1, <3>2 DEF ReadInv, Op, IsCurrent
  <2> QED
    BY <2>1 DEF LockInv
<1>9. CopyInv' /\ AcknowledgedIsDurable'
  BY DEF CopyInv, AcknowledgedIsDurable
<1>10. MigrationInv'
  BY <1>2 DEF MigrationInv, NoMigration
<1> QED
  BY <1>4, <1>5, <1>6, <1>7, <1>8, <1>9, <1>10

(* So does a reload: what the tab was doing is forgotten, not half done.   *)
LEMMA ReloadInvariant ==
  ASSUME IInv, NEW t \in Tabs, Reload(t)
  PROVE  IInv'
<1> USE DEF IInv
<1> DEFINE x == [kind |-> "restore", id |-> calls + 1, obj |-> 0]
<1>1. /\ calls \in Nat /\ calls' = calls + 1 /\ calls' \in 0..MaxCalls /\ calls + 1 \in Ids
  BY VaultAssumption DEF Reload, TypeOK, CallTypes, Ids
<1>2. /\ queue'[t] = <<x>> /\ step'[t] = "idle" /\ objects'[t] = <<>> /\ session'[t] = 0
      /\ migration'[t] = NoMigration
      /\ \A u \in Tabs : u # t =>
           /\ queue'[u] = queue[u] /\ step'[u] = step[u] /\ local'[u] = local[u]
           /\ objects'[u] = objects[u] /\ session'[u] = session[u]
           /\ migration'[u] = migration[u]
  BY DEF Reload, TypeOK, RunTypes, TabTypes, CallTypes
<1>3. x \in Items /\ x.kind = "restore" /\ x.id = calls + 1
  BY <1>1 DEF Items, Kinds
<1>4. \A u \in Tabs : u # t => Reserved(u)' = Reserved(u)
  BY <1>2 DEF Reserved
<1>5. Reserved(t)' = {}
  BY <1>2 DEF Reserved, NoMigration
<1>6. Len(queue'[t]) = 1 /\ queue'[t][1] = x /\ Len(objects'[t]) = 0
  BY <1>2
<1>7. UNCHANGED <<storeVars, acked>>
  BY DEF Reload
<1> HIDE DEF x
<1>8. TypeOK'
  <2>1. queue' \in [Tabs -> Seq(Items)]
    BY <1>3 DEF Reload, TypeOK, RunTypes, x
  <2>2. step' \in [Tabs -> StepNames] /\ DOMAIN local' = Tabs
    BY DEF Reload, TypeOK, RunTypes, StepNames
  <2>3. objects' \in [Tabs -> Seq(Envelopes)] /\ session' \in [Tabs -> Nat]
    BY DEF Reload, TypeOK, TabTypes
  <2>4. \A u \in Tabs : \A i \in 1..Len(objects'[u]) :
          objects'[u][i].data \subseteq Ids \cup {Legacy}
    BY SMTT(30), <1>2, <1>6 DEF TypeOK, TabTypes
  <2>5. migration' \in [Tabs -> Waiting \cup {NoMigration}]
    BY DEF Reload, TypeOK, CallTypes
  <2> QED
    BY <1>1, <1>7, <2>1, <2>2, <2>3, <2>4, <2>5
       DEF TypeOK, StoreTypes, RunTypes, TabTypes, CallTypes, storeVars
<1>9. RefsInv'
  <2> SUFFICES ASSUME NEW u \in Tabs
               PROVE  /\ session'[u] <= Len(objects'[u])
                      /\ \A i \in 1..Len(queue'[u]) :
                           queue'[u][i].kind = "persist" =>
                             queue'[u][i].obj \in 1..Len(objects'[u])
                      /\ migration'[u].at = "saving" =>
                           migration'[u].obj \in 1..Len(objects'[u])
    BY DEF RefsInv
  <2>1. CASE u = t
    BY <1>2, <1>3, <1>6, <2>1 DEF NoMigration
  <2>2. CASE u # t
    BY <1>2, <2>2 DEF RefsInv
  <2> QED
    BY <2>1, <2>2
<1>10. \A u \in Tabs : \A i \in 1..Len(queue[u]) :
         queue[u][i].id \in Nat /\ queue[u][i].id <= calls
  <2> SUFFICES ASSUME NEW u \in Tabs, NEW i \in 1..Len(queue[u])
               PROVE  queue[u][i].id \in Nat /\ queue[u][i].id <= calls
    OBVIOUS
  <2>1. queue[u][i] \in Items
    BY ElementOfSeq DEF TypeOK, RunTypes
  <2> QED
    BY <2>1 DEF Items, Ids, IdsInv
<1>11. \A u \in Tabs : \A p \in Reserved(u)' : p \in 1..calls /\ p # calls + 1
  BY <1>1, <1>4, <1>5 DEF IdsInv
<1>12. IdsInv'
  <2>1. \A u \in Tabs : migration'[u] # NoMigration => migration'[u].id <= calls'
    <3> SUFFICES ASSUME NEW u \in Tabs, migration'[u] # NoMigration
                 PROVE  migration'[u].id <= calls'
      OBVIOUS
    <3>1. migration'[u] = migration[u] /\ migration[u].id <= calls
      BY <1>2 DEF IdsInv
    <3>2. migration[u].id \in Nat
      BY <3>1 DEF TypeOK, CallTypes, Waiting, Ids
    <3> QED
      BY <1>1, <3>1, <3>2
  <2>2. \A u \in Tabs : \A p \in Reserved(u)' :
          p \in 1..calls' /\ \A v \in Tabs : v # u => p \notin Reserved(v)'
    <3> SUFFICES ASSUME NEW u \in Tabs, NEW p \in Reserved(u)'
                 PROVE  p \in 1..calls' /\ \A v \in Tabs : v # u => p \notin Reserved(v)'
      OBVIOUS
    <3>1. p \in 1..calls'
      BY <1>1, <1>11
    <3>2. \A v \in Tabs : v # u => p \notin Reserved(v)'
      BY <1>4, <1>5 DEF IdsInv
    <3> QED
      BY <3>1, <3>2
  <2>3. ASSUME NEW u \in Tabs, NEW i \in 1..Len(queue'[u])
        PROVE  /\ queue'[u][i].id <= calls'
               /\ \A v \in Tabs :
                    /\ queue'[u][i].id \notin Reserved(v)'
                    /\ \A j \in 1..Len(queue'[v]) :
                         queue'[u][i].id = queue'[v][j].id => u = v /\ i = j
    <3>1. CASE u = t
      <4>0. i \in 1..1
        BY <1>6, <2>3, <3>1
      <4>1. i = 1 /\ queue'[u][i].id = calls + 1
        BY <1>3, <1>6, <3>1, <4>0
      <4>2. \A v \in Tabs : calls + 1 \notin Reserved(v)'
        BY <1>11
      <4>3. ASSUME NEW v \in Tabs, NEW j \in 1..Len(queue'[v]), queue'[v][j].id = calls + 1
            PROVE  v = t /\ j = 1
        <5>1. CASE v = t
          BY <1>6, <4>3, <5>1
        <5>2. CASE v # t
          BY <1>1, <1>2, <1>10, <4>3, <5>2
        <5> QED
          BY <5>1, <5>2
      <4> QED
        BY <1>1, <3>1, <4>1, <4>2, <4>3
    <3>2. CASE u # t
      <4>1. queue'[u] = queue[u] /\ queue[u][i].id \in Nat /\ queue[u][i].id <= calls
        BY <1>2, <1>10, <3>2
      <4>2. \A v \in Tabs : queue[u][i].id \notin Reserved(v)'
        BY <1>4, <1>5, <4>1 DEF IdsInv
      <4>3. ASSUME NEW v \in Tabs, NEW j \in 1..Len(queue'[v]),
                   queue[u][i].id = queue'[v][j].id
            PROVE  u = v /\ i = j
        <5>1. CASE v = t
          BY <1>1, <1>3, <1>6, <4>1, <4>3, <5>1
        <5>2. CASE v # t
          BY <1>2, <4>1, <4>3, <5>2 DEF IdsInv
        <5> QED
          BY <5>1, <5>2
      <4>4. queue[u][i].id <= calls'
        BY <1>1, <4>1
      <4> QED
        BY <4>1, <4>2, <4>3, <4>4
    <3> QED
      BY <3>1, <3>2
  <2> QED
    BY <2>1, <2>2, <2>3 DEF IdsInv
<1>13. ASSUME NEW n \in Nat, Stored(n)' PROVE Stored(n)
  <2>1. ASSUME NEW u \in Tabs, NEW i \in 1..Len(objects'[u])
        PROVE  objects'[u] = objects[u] /\ i \in 1..Len(objects[u])
    BY <1>2, <1>6
  <2> QED
    BY <1>7, <1>13, <2>1 DEF Stored, storeVars
<1>14. ASSUME NEW n \in Nat, Stored(n) PROVE n <= calls
  BY <1>14 DEF Stored, FreshInv
<1>15. FreshInv'
  <2>1. /\ env # NoVault => env.raw \in Nat /\ env.salt \in Nat
        /\ \A a \in acked : a[2] \in Nat
    BY DEF TypeOK, StoreTypes, CallTypes, Envelopes
  <2>2. (env # NoVault => env.raw <= calls' /\ env.salt <= calls')
    BY <1>1, <2>1 DEF FreshInv
  <2>3. \A a \in acked : a[2] <= calls'
    BY <1>1, <2>1 DEF FreshInv
  <2>4. \A u \in Tabs : \A i \in 1..Len(objects'[u]) :
          objects'[u][i].raw <= calls' /\ objects'[u][i].salt <= calls'
    <3> SUFFICES ASSUME NEW u \in Tabs, NEW i \in 1..Len(objects'[u])
                 PROVE  objects'[u][i].raw <= calls' /\ objects'[u][i].salt <= calls'
      OBVIOUS
    <3>1. objects'[u] = objects[u] /\ i \in 1..Len(objects[u])
      BY <1>2, <1>6
    <3>2. objects[u][i] \in Envelopes
      BY <3>1, ElementOfSeq DEF TypeOK, TabTypes
    <3>3. objects[u][i].raw \in Nat /\ objects[u][i].salt \in Nat
      BY <3>2 DEF Envelopes
    <3>4. objects[u][i].raw <= calls /\ objects[u][i].salt <= calls
      BY <3>1 DEF FreshInv
    <3> QED
      BY <1>1, <3>1, <3>3, <3>4
  <2>5. ASSUME NEW u \in Tabs, NEW p \in Reserved(u)' PROVE ~(Stored(p)')
    <3>1. p \in Nat /\ p \in Reserved(u)
      BY <1>4, <1>5, <1>11
    <3> QED
      BY <1>13, <3>1 DEF FreshInv
  <2>6. ASSUME NEW u \in Tabs, NEW i \in 1..Len(queue'[u]), NEW n \in Nat,
               n = queue'[u][i].id, i = 1 => step'[u] \notin MaybeStored
        PROVE  ~(Stored(n)')
    <3>1. CASE u = t
      <4>1. n = calls + 1
        BY <1>3, <1>6, <2>6, <3>1
      <4>2. ~(n <= calls)
        BY <1>1, <4>1
      <4> QED
        BY <1>13, <1>14, <4>2
    <3>2. CASE u # t
      <4>1. ~Stored(n)
        BY <1>2, <2>6, <3>2 DEF FreshInv
      <4> QED
        BY <1>13, <4>1
    <3> QED
      BY <3>1, <3>2
  <2>7. \A u \in Tabs : \A i \in 1..Len(queue'[u]) : queue'[u][i].id \in Nat
    BY <1>1, <1>2, <1>3, <1>6, <1>10
  <2> QED
    BY <1>7, <2>2, <2>3, <2>4, <2>5, <2>6, <2>7 DEF FreshInv, Stored, storeVars
<1>16. LockInv'
  <2> SUFFICES ASSUME NEW u \in Tabs, step'[u] # "idle"
               PROVE  queue'[u] # <<>> /\ owner' = u /\ ReadInv(u)'
    BY DEF LockInv
  <2>1. u # t /\ step[u] # "idle"
    BY <1>2
  <2>2. queue[u] # <<>> /\ owner = u /\ ReadInv(u)
    BY <2>1 DEF LockInv
  <2>3. owner' = owner
    BY <2>1, <2>2 DEF Reload
  <2>4. ReadInv(u)'
    BY <1>2, <1>7, <2>1, <2>2 DEF ReadInv, Op, IsCurrent, storeVars
  <2> QED
    BY <1>2, <2>1, <2>2, <2>3, <2>4
<1>17. CopyInv' /\ AcknowledgedIsDurable'
  <2>1. ASSUME NEW u \in Tabs, NEW i \in 1..Len(objects'[u])
        PROVE  objects'[u] = objects[u] /\ i \in 1..Len(objects[u])
    BY <1>2, <1>6
  <2> QED
    BY <1>7, <2>1 DEF CopyInv, AcknowledgedIsDurable, storeVars
<1>18. MigrationInv'
  <2> SUFFICES ASSUME NEW u \in Tabs, migration'[u].at = "saving"
               PROVE  /\ Legacy \in objects'[u][migration'[u].obj].data
                      /\ objects'[u][migration'[u].obj].raw = migration'[u].id
                           => <<Legacy, objects'[u][migration'[u].obj].salt>> \in acked'
                      /\ \A i \in 1..Len(queue'[u]) :
                           queue'[u][i].id = migration'[u].id =>
                             /\ queue'[u][i].kind = "persist"
                             /\ queue'[u][i].obj = migration'[u].obj
    BY DEF MigrationInv
  <2>1. u # t
    BY <1>2 DEF NoMigration
  <2>2. /\ migration'[u] = migration[u] /\ objects'[u] = objects[u]
        /\ queue'[u] = queue[u] /\ acked' = acked
    BY <1>2, <1>7, <2>1
  <2> QED
    BY <2>2 DEF MigrationInv
<1> QED
  BY <1>8, <1>9, <1>12, <1>15, <1>16, <1>17, <1>18

-----------------------------------------------------------------------------
(* Every step of the system is one of an operation, a call, a rest or a    *)
(* reload.                                                                 *)
LEMMA NextCases ==
  ASSUME IInv, Next
  PROVE  \E t \in Tabs :
           \/ Steps(t) /\ UNCHANGED migVars
           \/ \E x : Asks(t, x) /\ WaitsFor(t, x)
           \/ Rests(t)
           \/ Reload(t)
<1> USE DEF IInv
<1>1. PICK t \in Tabs :
        \/ \E k \in Kinds : Call(t, k)
        \/ Reload(t) \/ Migrate(t) \/ Discard(t)
        \/ Proceed(t)
  BY DEF Next
<1>2. CASE \E k \in Kinds : Call(t, k)
  BY <1>2, CallAsks
<1>3. CASE \/ Migrate(t)
           \/ MigrateImport(t) /\ session[t] # 0
           \/ MigrateDelete(t) /\ CanDeleteLegacy(t)
  BY <1>3, MigrationAsks
<1>4. calls \in calls..MaxCalls
  BY VaultAssumption DEF TypeOK, CallTypes
<1>5. CASE MigrateImport(t) /\ session[t] = 0
  BY <1>4, <1>5 DEF MigrateImport, GivesUp, Rests, storeVars, tabVars, runVars
<1>6. CASE MigrateDelete(t) /\ ~CanDeleteLegacy(t)
  BY <1>4, <1>6 DEF MigrateDelete, GivesUp, Rests, storeVars, tabVars, runVars
<1>7. CASE Discard(t)
  <2>1. calls' \in calls..MaxCalls
    BY <1>7, VaultAssumption DEF Discard, TypeOK, CallTypes
  <2> QED
    BY <1>7, <2>1 DEF Discard, Rests
<1> QED
  BY <1>1, <1>2, <1>3, <1>5, <1>6, <1>7 DEF Proceed

(* The first state satisfies the invariant.                                *)
LEMMA InitInvariant == Init => IInv
<1> SUFFICES ASSUME Init PROVE IInv
  OBVIOUS
<1> USE DEF Init
<1>1. TypeOK
  <2>1. StoreTypes
    BY DEF StoreTypes
  <2>2. RunTypes
    BY DEF RunTypes, StepNames
  <2>3. TabTypes
    BY DEF TabTypes
  <2>4. CallTypes
    BY VaultAssumption DEF CallTypes
  <2> QED
    BY <2>1, <2>2, <2>3, <2>4 DEF TypeOK
<1>2. \A t \in Tabs : /\ Len(queue[t]) = 0 /\ Len(objects[t]) = 0 /\ session[t] = 0
                      /\ step[t] = "idle" /\ migration[t] = NoMigration
  OBVIOUS
<1>3. \A t \in Tabs : Reserved(t) = {} /\ migration[t].at = "none"
  BY <1>2 DEF Reserved, NoMigration
<1> QED
  BY <1>1, <1>2, <1>3 DEF IInv, RefsInv, IdsInv, FreshInv, Stored, LockInv, CopyInv,
     MigrationInv, AcknowledgedIsDurable

(* Under the Web Lock what an operation has read is still so when it goes  *)
(* on, no number is written down twice, and every object whose text is the *)
(* one stored holds all that is stored: whatever is called, reloaded or    *)
(* fails.                                                                  *)
THEOREM VaultInvariant ==
  ASSUME UseLocks PROVE Spec => []IInv
<1>1. Init => IInv
  BY InitInvariant
<1>2. IInv /\ [Next]_vars => IInv'
  <2> SUFFICES ASSUME IInv, [Next]_vars PROVE IInv'
    OBVIOUS
  <2>1. CASE Next
    BY <2>1, NextCases, StepInvariant, AskInvariant, RestInvariant, ReloadInvariant
  <2>2. CASE UNCHANGED vars
    <3>1. calls' \in calls..MaxCalls
      BY <2>2, VaultAssumption DEF vars, IInv, TypeOK, CallTypes
    <3>2. Rests(NoTab)
      BY <2>2, <3>1 DEF vars, migVars, Rests
    <3> QED
      BY <3>2, RestInvariant
  <2> QED
    BY <2>1, <2>2
<1> QED
  BY <1>1, <1>2, PTL DEF Spec

(* A change whose save was reported stays in the envelope for as long as   *)
(* the vault exists, and so do the secrets whose plaintext was deleted.    *)
THEOREM AcknowledgedStays ==
  ASSUME UseLocks PROVE Spec => []AcknowledgedIsDurable
<1>1. IInv => AcknowledgedIsDurable
  BY DEF IInv
<1> QED
  BY <1>1, VaultInvariant, PTL

-----------------------------------------------------------------------------
(* What a step does to the envelope and the generation.                    *)
LEMMA StoreStep ==
  ASSUME UseLocks, TypeOK, LockInv, NEW t \in Tabs, Steps(t)
  PROVE  \/ Saves(t) \/ Founds(t)
         \/ env' = NoVault /\ metaGen' = metaGen + 1
         \/ UNCHANGED <<metaGen, env>>
<1>1. CASE PersistWrite(t)
  <2>1. step[t] = "encrypting" /\ (Ends(t) \/ Goes(t)) /\ DOMAIN step = Tabs
    BY <1>1, StepShape DEF PersistWrite, TypeOK, RunTypes
  <2>2. Ends(t)
    BY <1>1, <2>1 DEF PersistWrite, Finish, Goes
  <2> QED
    BY <1>1, <2>1, <2>2 DEF PersistWrite, Saves, storeVars
<1>2. CASE CreateWrite(t)
  <2>1. local[t] = metaGen + 1
    BY <1>2 DEF CreateWrite, LockInv, ReadInv
  <2>2. env # NoVault => UNCHANGED <<metaGen, env>>
    BY <1>2 DEF CreateWrite
  <2>3. env = NoVault => metaGen' = metaGen + 1 /\ (env' = NewVault(t) \/ env' = env)
    BY <1>2, <2>1 DEF CreateWrite, NewVault
  <2>4. NewVault(t) # NoVault
    <3>1. queue[t] # <<>> /\ Op(t).id \in Nat /\ metaGen + 1 \in Nat
      BY StepShape, OpFacts DEF TypeOK, StoreTypes
    <3>2. NewVault(t) \in Envelopes
      BY <2>1, <3>1 DEF NewVault, Envelopes
    <3> QED
      BY <3>2, VaultAssumption
  <2>5. Quiet(t) \/ Saves(t) \/ Founds(t) \/ Copies(t)
    BY StepKinds
  <2>6. CASE Quiet(t)
    BY <2>2, <2>3, <2>4, <2>6 DEF Quiet
  <2> QED
    BY <2>5, <2>6 DEF Copies
<1>3. CASE KeyIsDeleted(t)
  BY <1>3 DEF KeyIsDeleted, GenAfterClear
<1>4. CASE ~(PersistWrite(t) \/ CreateWrite(t) \/ KeyIsDeleted(t))
  BY <1>4 DEF Steps, PersistStart, CreateStart, UnlockStart, UnlockInstall, RememberOnStart,
     PutKey, KeyIsPut, LockStart, ClearStart, RememberOffStart, Revoke, DeleteKey,
     RestoreStart, RestoreReadKey, RestoreReadVault, RestoreInstall, DropKey, storeVars
<1> QED
  BY <1>1, <1>2, <1>3, <1>4

(* Only a step changes them.                                               *)
LEMMA StoreNext ==
  ASSUME UseLocks, IInv, [Next]_vars
  PROVE  \/ \E t \in Tabs : queue[t] # <<>> /\ (Saves(t) \/ Founds(t))
         \/ env' = NoVault /\ metaGen' = metaGen + 1
         \/ UNCHANGED <<metaGen, env>>
<1>1. CASE UNCHANGED vars
  BY <1>1 DEF vars, storeVars
<1>2. CASE Next
  <2>1. PICK t \in Tabs :
          \/ Steps(t) /\ UNCHANGED migVars
          \/ \E x : Asks(t, x) /\ WaitsFor(t, x)
          \/ Rests(t)
          \/ Reload(t)
    BY <1>2, NextCases
  <2>2. CASE Steps(t)
    BY <2>2, StoreStep, StepShape DEF IInv
  <2> QED
    BY <2>1, <2>2 DEF Asks, Rests, Reload, storeVars
<1> QED
  BY <1>1, <1>2

(* Every step of the tabs is one of the one document they share, or leaves *)
(* it alone: no save takes another's change back, no session writes over a *)
(* later vault, and no generation comes twice.                             *)
THEOREM RefinesVaultStore ==
  ASSUME UseLocks PROVE Spec => ImplementsVaultStore
<1> DEFINE bar == IF env = NoVault THEN NoVault ELSE [gen |-> env.gen, data |-> env.data]
<1>1. Init => Store!Init
  BY DEF Init, Store!Init
<1>2. IInv /\ [Next]_vars => [Store!Next]_<<bar, metaGen>>
  <2> SUFFICES ASSUME IInv, [Next]_vars PROVE [Store!Next]_<<bar, metaGen>>
    OBVIOUS
  <2> USE DEF Store!Next
  <2>0. env # NoVault => bar = [gen |-> env.gen, data |-> env.data] /\ bar # NoVault
    <3>1. env # NoVault => env \in Envelopes
      BY DEF IInv, TypeOK, StoreTypes
    <3>2. env # NoVault => [gen |-> env.gen, data |-> env.data] \in Documents
      BY <3>1 DEF Envelopes, Documents
    <3> QED
      BY <3>2, VaultAssumption
  <2>1. CASE \E t \in Tabs : queue[t] # <<>> /\ Saves(t)
    <3>1. PICK t \in Tabs : queue[t] # <<>> /\ Saves(t)
      BY <2>1
    <3>2. /\ env # NoVault /\ env' # NoVault /\ env'.gen = env.gen
          /\ env.data \subseteq env'.data /\ env'.data \subseteq Ids \cup {Legacy}
      BY <3>1, SavesFacts DEF IInv
    <3>3. bar' = [gen |-> env.gen, data |-> env'.data] /\ metaGen' = metaGen
      BY <3>1, <3>2 DEF Saves
    <3>4. bar' \in [gen : {bar.gen}, data : SUBSET (Ids \cup {Legacy})]
      BY <2>0, <3>2, <3>3
    <3> QED
      BY <2>0, <3>2, <3>3, <3>4 DEF Store!Save
  <2>2. CASE \E t \in Tabs : queue[t] # <<>> /\ Founds(t)
    BY <2>2, FoundsFacts DEF IInv, Store!Create
  <2>3. CASE env' = NoVault /\ metaGen' = metaGen + 1
    BY <2>3 DEF Store!Clear
  <2>4. CASE UNCHANGED <<metaGen, env>>
    BY <2>4
  <2> QED
    BY <2>1, <2>2, <2>3, <2>4, StoreNext
<1> QED
  BY <1>1, <1>2, VaultInvariant, PTL DEF Spec, ImplementsVaultStore, Store!Spec

(* When a restore installs a session, the flags are still set and the key  *)
(* is still there and opens the envelope that is stored, although the      *)
(* restore read them before three awaits.                                  *)
THEOREM RestoreHasLeave ==
  ASSUME UseLocks PROVE Spec => RestoreIsAllowed
<1> DEFINE A == \A t \in Tabs :
                  step[t] = "decrypting" /\ session'[t] # session[t] /\ session'[t] # 0 =>
                    /\ remember /\ allowed
                    /\ key # NoKey /\ env # NoVault /\ key.salt = env.salt
<1>1. IInv /\ [Next]_vars => [A]_vars
  <2> SUFFICES ASSUME IInv, Next,
                      NEW t \in Tabs, step[t] = "decrypting",
                      session'[t] # session[t], session'[t] # 0
               PROVE  /\ remember /\ allowed
                      /\ key # NoKey /\ env # NoVault /\ key.salt = env.salt
    OBVIOUS
  <2>1. /\ owner = t /\ remember /\ allowed
        /\ key # NoKey /\ env # NoVault /\ local[t] = [key |-> key, env |-> env]
    BY DEF IInv, LockInv, ReadInv
  <2>2. PICK u \in Tabs :
          \/ Steps(u) /\ UNCHANGED migVars
          \/ \E x : Asks(u, x) /\ WaitsFor(u, x)
          \/ Rests(u)
          \/ Reload(u)
    BY NextCases
  <2>3. Steps(u)
    BY <2>2 DEF Asks, Rests, Reload, tabVars, IInv, TypeOK, TabTypes
  <2>4. u = t
    BY <2>1, <2>3, StepShape, VaultAssumption DEF IInv
  <2>5. RestoreInstall(t)
    BY <2>3, <2>4 DEF Steps, Starts, PersistStart, PersistWrite, CreateStart, CreateWrite,
       UnlockStart, UnlockInstall, RememberOnStart, PutKey, KeyIsPut, LockStart, ClearStart,
       RememberOffStart, Revoke, DeleteKey, KeyIsDeleted, RestoreStart, RestoreReadKey,
       RestoreReadVault, DropKey
  <2>6. key.salt = env.salt
    BY <2>1, <2>5 DEF RestoreInstall, Opens, tabVars
  <2> QED
    BY <2>1, <2>6
<1> QED
  BY <1>1, VaultInvariant, PTL DEF Spec, RestoreIsAllowed

=============================================================================

---------------------------- MODULE VaultLifecycle ----------------------------
(***************************************************************************)
(* packages/profiles/src/vault.ts: the encrypted credential vault as the   *)
(* tabs of one origin use it.  They share localStorage (the envelope, the  *)
(* generation, two flags), one key record in IndexedDB, and the Web Lock   *)
(* every operation runs under where the browser has it.  A tab runs its    *)
(* own operations one after the other (vaultOpTail) and dies when it is    *)
(* reloaded.                                                               *)
(*                                                                         *)
(* An operation is cut where it awaits PBKDF2, AES or IndexedDB.  Since    *)
(* its tab starts no other meanwhile, ticket.stillOwner() is always true   *)
(* and left out.  Passwords are right, keys can be stored (the probe       *)
(* succeeds); the flag rememberUnlock can be written; an operation that    *)
(* throws for another reason does so before it changed anything.           *)
(*                                                                         *)
(* Every operation has a number.  It stands for what the code makes unique *)
(* by random bytes: the salt of a new vault (and the key derived with it), *)
(* the text of an envelope, the opToken of a key record, and the change a  *)
(* save makes to the payload.                                              *)
(***************************************************************************)
EXTENDS Integers, Sequences

CONSTANTS
  Tabs,
  UseLocks,      (* navigator.locks exists                                 *)
  MaxCalls,      (* bound: operations called, reloads included             *)
  MaxQueue,      (* bound: operations of a tab that are under way          *)
  MaxFaults,     (* bound: writes that fail                                *)
  NoVault,       (* no envelope                                            *)
  NoKey,         (* no key record                                          *)
  NoTab

(* An envelope, the document a tab makes of one, and a key record.         *)
Envelopes  == [gen : Nat, rev : Nat, raw : Nat, salt : Nat, data : SUBSET Nat]
Documents  == [gen : Nat, data : SUBSET Nat]
KeyRecords == [gen : Nat, salt : Nat, token : Nat]

ASSUME VaultAssumption ==
  /\ UseLocks \in BOOLEAN
  /\ MaxCalls \in Nat \ {0} /\ MaxQueue \in Nat \ {0} /\ MaxFaults \in Nat
  /\ NoTab \notin Tabs
  /\ NoVault \notin Envelopes /\ NoVault \notin Documents /\ NoKey \notin KeyRecords

VARIABLES
  metaGen,       (* mudgate.vault.meta.v1                                  *)
  env,           (* mudgate.vault.v1                                       *)
  remember,      (* rememberUnlock                                         *)
  allowed,       (* restoreAllowed                                         *)
  key,           (* the record "default" in IndexedDB                      *)
  owner,         (* who holds the Web Lock                                 *)
  queue,         (* the operations of each tab that have not ended         *)
  step,          (* what the first of them awaits                          *)
  local,         (* what it has read                                       *)
  objects,       (* the Session objects of each tab                        *)
  session,       (* the current one, 0 for null                            *)
  calls,         (* operations called                                      *)
  faults,        (* writes that failed                                     *)
  acked,         (* changes whose save was reported, with their vault      *)
  legacy,        (* the plaintext of an older version is there           *)
  migration      (* what the migration of each tab waits for               *)

storeVars == <<metaGen, env, remember, allowed, key>>
tabVars   == <<objects, session>>
runVars   == <<owner, queue, step, local>>
migVars   == <<legacy, migration>>
vars == <<storeVars, tabVars, runVars, calls, faults, acked, migVars>>

(* The secrets of the older version, as a change of the payload.           *)
Legacy == 0

Ids   == 1..MaxCalls
Kinds == {"create", "unlock", "rememberOn", "rememberOff", "restore", "lock",
          "persist", "clear"}

NoMigration == [at |-> "none"]

Init ==
  /\ metaGen = 0 /\ env = NoVault
  /\ remember = FALSE /\ allowed = FALSE /\ key = NoKey
  /\ owner = NoTab
  /\ queue = [t \in Tabs |-> <<>>]
  /\ step = [t \in Tabs |-> "idle"]
  /\ local = [t \in Tabs |-> <<>>]
  /\ objects = [t \in Tabs |-> <<>>]
  /\ session = [t \in Tabs |-> 0]
  /\ calls = 0 /\ faults = 0 /\ acked = {}
  /\ legacy = TRUE /\ migration = [t \in Tabs |-> NoMigration]

-----------------------------------------------------------------------------
Op(t)      == Head(queue[t])
Runs(t, k) == queue[t] # <<>> /\ Op(t).kind = k

(* A write that may fail.                                                  *)
Works == UNCHANGED faults
Fails == faults < MaxFaults /\ faults' = faults + 1

Await(t, s, l) ==
  /\ step' = [step EXCEPT ![t] = s]
  /\ local' = [local EXCEPT ![t] = l]
  /\ UNCHANGED <<owner, queue>>

(* A transaction that is aborted when it commits, for want of space, fires *)
(* onabort alone.  Nobody listens for it: the promise stays pending, with  *)
(* the lock, until the tab is reloaded.                                    *)
NeverSettles(t) == Fails /\ Await(t, "hung", <<>>)

(* Fault: an operation that ends keeps the lock.                           *)
FinishLocked(t) ==
  /\ queue' = [queue EXCEPT ![t] = Tail(@)]
  /\ step' = [step EXCEPT ![t] = "idle"]
  /\ local' = [local EXCEPT ![t] = <<>>]
  /\ UNCHANGED owner

(* The operation's promise settles: the lock is free, the tail moves on.   *)
Finish(t) ==
  /\ queue' = [queue EXCEPT ![t] = Tail(@)]
  /\ step' = [step EXCEPT ![t] = "idle"]
  /\ local' = [local EXCEPT ![t] = <<>>]
  /\ owner' = IF owner = t THEN NoTab ELSE owner

Install(t, s) ==
  /\ objects' = [objects EXCEPT ![t] = Append(@, s)]
  /\ session' = [session EXCEPT ![t] = Len(objects[t]) + 1]

(* enqueueVaultOp                                                          *)
Enqueue(t, id, kind, obj) ==
  /\ queue' = [queue EXCEPT ![t] = Append(@, [kind |-> kind, id |-> id, obj |-> obj])]
  /\ UNCHANGED <<owner, step, local>>

(* The payload of the current session is changed on the spot, then saved.  *)
Change(t, id, change) ==
  /\ objects' = [objects EXCEPT ![t][session[t]].data = @ \cup {change}]
  /\ Enqueue(t, id, "persist", session[t])

(* The operation a migration awaits is over: the migration goes on at once.  *)
Answered(t, at) ==
  migration[t].at = at /\ \A i \in DOMAIN queue[t] : queue[t][i].id # migration[t].id

Resumes(t) == Answered(t, "opening") \/ Answered(t, "saving")

(* A function of the API is called; "persist" is setVaultSecret.           *)
Call(t, k) ==
  /\ calls < MaxCalls /\ Len(queue[t]) < MaxQueue /\ ~Resumes(t)
  /\ calls' = calls + 1
  /\ IF k = "persist"
     THEN session[t] # 0 /\ Change(t, calls', calls')
     ELSE Enqueue(t, calls', k, 0) /\ UNCHANGED objects
  /\ UNCHANGED <<storeVars, session, faults, acked, migVars>>

(* The tab is reloaded wherever it stands, and boots with a restore.       *)
Reload(t) ==
  /\ calls < MaxCalls
  /\ calls' = calls + 1
  /\ queue' = [queue EXCEPT ![t] = <<[kind |-> "restore", id |-> calls + 1, obj |-> 0]>>]
  /\ step' = [step EXCEPT ![t] = "idle"]
  /\ local' = [local EXCEPT ![t] = <<>>]
  /\ objects' = [objects EXCEPT ![t] = <<>>]
  /\ session' = [session EXCEPT ![t] = 0]
  /\ owner' = IF owner = t THEN NoTab ELSE owner
  /\ migration' = [migration EXCEPT ![t] = NoMigration]
  /\ UNCHANGED <<storeVars, faults, acked, legacy>>

(* Fault: the operation does not wait for the lock.                        *)
LockIsThere == TRUE

(* withExclusiveVaultLock lets an operation start.                         *)
LockIsFree == UseLocks => owner = NoTab

Starts(t, k) ==
  /\ Runs(t, k) /\ step[t] = "idle" /\ ~Resumes(t)
  /\ LockIsFree

(* It goes on to its first await with the lock.                            *)
Takes(t, s, l) ==
  /\ owner' = IF UseLocks THEN t ELSE owner
  /\ step' = [step EXCEPT ![t] = s]
  /\ local' = [local EXCEPT ![t] = l]
  /\ UNCHANGED queue

-----------------------------------------------------------------------------
(* persistSession                                                          *)
(* Fault: only the generation is compared.                                 *)
IsCurrentGen(s) == env # NoVault /\ env.gen = s.gen

(* The envelope is the one the session was read from or last wrote.        *)
IsCurrent(s) ==
  env # NoVault /\ env.gen = s.gen /\ env.rev = s.rev /\ env.raw = s.raw

(* The payload is serialised before the first await of encryptEnvelope.    *)
PersistStart(t) ==
  /\ Starts(t, "persist")
  /\ LET s == objects[t][Op(t).obj] IN
       IF IsCurrent(s)
       THEN Takes(t, "encrypting", [snap |-> <<metaGen, env>>, data |-> s.data])
       ELSE Finish(t)
  /\ UNCHANGED <<storeVars, tabVars, calls, faults, acked>>

(* snapEqual(before, readSnap())                                           *)
SnapEqual(snap) == snap = <<metaGen, env>>

(* What is written: the next revision, encrypted under the session's key.  *)
NextEnvelope(t) ==
  LET s == objects[t][Op(t).obj] IN
  [s EXCEPT !.rev = @ + 1, !.raw = Op(t).id, !.data = local[t].data]

PersistWrite(t) ==
  /\ Runs(t, "persist") /\ step[t] = "encrypting"
  /\ Finish(t)
  /\ \/ /\ SnapEqual(local[t].snap)
        /\ Works
        /\ env' = NextEnvelope(t)
        /\ objects' = [objects EXCEPT ![t][Op(t).obj] =
             [@ EXCEPT !.rev = env'.rev, !.raw = env'.raw]]
        /\ acked' = acked \cup (env'.data \X {env'.salt})
        /\ UNCHANGED <<metaGen, remember, allowed, key, session>>
     \/ /\ SnapEqual(local[t].snap) => Fails
        /\ ~SnapEqual(local[t].snap) => Works
        /\ UNCHANGED <<storeVars, tabVars, acked>>
  /\ UNCHANGED calls

-----------------------------------------------------------------------------
(* maybePutRememberKey, which create and unlock end with.                  *)
MaybePut(t, s) ==
  IF remember
  THEN Await(t, "putting", [gen |-> s.gen, salt |-> s.salt, token |-> Op(t).id])
  ELSE Finish(t)

(* createVault                                                             *)
CreateStart(t) ==
  /\ Starts(t, "create")
  /\ IF env = NoVault THEN Takes(t, "deriving", metaGen + 1) ELSE Finish(t)
  /\ UNCHANGED <<storeVars, tabVars, calls, faults, acked>>

(* The storage is looked at again, but only for the envelope.              *)
CreateWrite(t) ==
  LET new == [gen |-> local[t], rev |-> 1, raw |-> Op(t).id, salt |-> Op(t).id,
              data |-> {}]
  IN
  /\ Runs(t, "create") /\ step[t] = "deriving"
  /\ IF env # NoVault
     THEN Finish(t) /\ UNCHANGED <<metaGen, env, tabVars, faults>>
     ELSE /\ metaGen' = new.gen
          /\ \/ /\ Works
                /\ env' = new
                /\ Install(t, new)
                /\ MaybePut(t, new)
             \/ (* the envelope's write fails after the generation's *)
                /\ Fails
                /\ Finish(t)
                /\ UNCHANGED <<env, tabVars>>
  /\ UNCHANGED <<remember, allowed, key, calls, acked>>

(* unlockVault                                                             *)
UnlockStart(t) ==
  /\ Starts(t, "unlock")
  /\ IF env # NoVault THEN Takes(t, "opening", env) ELSE Finish(t)
  /\ UNCHANGED <<storeVars, tabVars, calls, faults, acked>>

UnlockInstall(t) ==
  /\ Runs(t, "unlock") /\ step[t] = "opening"
  /\ Install(t, local[t])
  /\ MaybePut(t, local[t])
  /\ UNCHANGED <<storeVars, calls, faults, acked>>

(* setRememberUnlock(true)                                                 *)
RememberOnStart(t) ==
  /\ Starts(t, "rememberOn")
  /\ IF session[t] # 0
     THEN LET s == objects[t][session[t]] IN
          Takes(t, "putting", [gen |-> s.gen, salt |-> s.salt, token |-> Op(t).id])
     ELSE Finish(t)
  /\ UNCHANGED <<storeVars, tabVars, calls, faults, acked>>

(* idbPut; without it the unlock is in memory only.                        *)
PutKey(t) ==
  /\ step[t] = "putting"
  /\ \/ Works /\ key' = local[t] /\ Await(t, "put", <<>>)
     \/ Fails /\ Finish(t) /\ UNCHANGED key
     \/ NeverSettles(t) /\ UNCHANGED key
  /\ UNCHANGED <<metaGen, env, remember, allowed, tabVars, calls, acked>>

(* The flags follow the key.                                               *)
KeyIsPut(t) ==
  /\ step[t] = "put"
  /\ remember' = (remember \/ Op(t).kind = "rememberOn")
  /\ allowed' = TRUE
  /\ Finish(t)
  /\ UNCHANGED <<metaGen, env, key, tabVars, calls, faults, acked>>

-----------------------------------------------------------------------------
(* lockVault, clearVault, setRememberUnlock(false): the flags are taken    *)
(* back before anything else.                                              *)
Revoke(t, k) ==
  /\ Starts(t, k)
  /\ Takes(t, "deleting", <<>>)
  /\ \/ Works /\ allowed' = FALSE
     \/ Fails /\ UNCHANGED allowed
  /\ UNCHANGED <<metaGen, env, key, objects, calls, acked>>

LockStart(t) ==
  Revoke(t, "lock") /\ session' = [session EXCEPT ![t] = 0] /\ UNCHANGED remember

ClearStart(t) ==
  Revoke(t, "clear") /\ session' = [session EXCEPT ![t] = 0] /\ remember' = FALSE

RememberOffStart(t) ==
  Revoke(t, "rememberOff") /\ remember' = FALSE /\ UNCHANGED session

(* idbDelete                                                               *)
DeleteKey(t) ==
  /\ step[t] = "deleting"
  /\ \/ Works /\ key' = NoKey /\ Await(t, "deleted", <<>>)
     \/ Fails /\ UNCHANGED key /\ Await(t, "deleted", <<>>)
     \/ NeverSettles(t) /\ UNCHANGED key
  /\ UNCHANGED <<metaGen, env, remember, allowed, tabVars, calls, acked>>

(* Fault: the generation goes with the vault.                              *)
GenForgotten == 0

(* The tombstone clearVault leaves.                                        *)
GenAfterClear == metaGen + 1

(* The flags are taken back once more.  Clear sets the generation, which   *)
(* may fail, and deletes the envelope.                                     *)
KeyIsDeleted(t) ==
  /\ step[t] = "deleted"
  /\ allowed' = FALSE
  /\ remember' = (remember /\ Op(t).kind # "clear")
  /\ \/ Op(t).kind = "clear" /\ Works /\ metaGen' = GenAfterClear /\ env' = NoVault
     \/ Op(t).kind = "clear" /\ Fails /\ UNCHANGED <<metaGen, env>>
     \/ Op(t).kind # "clear" /\ Works /\ UNCHANGED <<metaGen, env>>
  /\ Finish(t)
  /\ UNCHANGED <<key, tabVars, calls, acked>>

-----------------------------------------------------------------------------
(* tryRestoreVaultSession                                                  *)
RestoreStart(t) ==
  /\ Starts(t, "restore")
  /\ IF session[t] = 0 /\ remember /\ allowed THEN Takes(t, "reading", <<>>)
     ELSE Finish(t)
  /\ UNCHANGED <<storeVars, tabVars, calls, faults, acked>>

RestoreReadKey(t) ==
  /\ step[t] = "reading"
  /\ IF key # NoKey THEN Await(t, "read", key) ELSE Finish(t)
  /\ UNCHANGED <<storeVars, tabVars, calls, faults, acked>>

(* The generation is compared, then the envelope is decrypted.             *)
RestoreReadVault(t) ==
  /\ step[t] = "read"
  /\ IF env # NoVault /\ env.gen = local[t].gen
     THEN Await(t, "decrypting", [key |-> local[t], env |-> env])
     ELSE Await(t, "dropping", local[t])
  /\ UNCHANGED <<storeVars, tabVars, calls, faults, acked>>

(* decryptEnvelopeWithCryptoKey: AES-GCM tells another vault's key.         *)
Opens(k, e) == k.salt = e.salt

RestoreInstall(t) ==
  /\ step[t] = "decrypting"
  /\ LET l == local[t] IN
       IF Opens(l.key, l.env)
       THEN Install(t, l.env) /\ Finish(t)
       ELSE Await(t, "dropping", l.key) /\ UNCHANGED tabVars
  /\ UNCHANGED <<storeVars, calls, faults, acked>>

(* atomicDeleteIfOpToken                                                   *)
DropKey(t) ==
  /\ step[t] = "dropping"
  /\ \/ /\ Works /\ Finish(t)
        /\ key' = IF key # NoKey /\ key.token = local[t].token THEN NoKey ELSE key
     \/ Fails /\ Finish(t) /\ UNCHANGED key
     \/ NeverSettles(t) /\ UNCHANGED key
  /\ UNCHANGED <<metaGen, env, remember, allowed, tabVars, calls, acked>>

-----------------------------------------------------------------------------
(* migrateLegacyIntoVault, which the panel offers while there is plaintext *)
(* and is busy with until it ends.  It calls three operations at most, and *)
(* has three numbers of its own for them.                                  *)
Waits(t, at, id, fresh) ==
  migration' = [migration EXCEPT ![t] =
    [at |-> at, id |-> id, obj |-> session[t], fresh |-> fresh]]

(* The entries are put into the payload unless they are there.             *)
Import(t, id) ==
  /\ Change(t, id, Legacy)
  /\ Waits(t, "saving", id, Legacy \notin objects[t][session[t]].data)

Migrate(t) ==
  /\ legacy /\ migration[t] = NoMigration /\ queue[t] = <<>>
  /\ calls + 3 <= MaxCalls /\ calls' = calls + 3
  /\ IF env # NoVault /\ session[t] # 0
     THEN Import(t, calls + 2)
     ELSE /\ Enqueue(t, calls + 1, IF env = NoVault THEN "create" ELSE "unlock", 0)
          /\ Waits(t, "opening", calls + 1, FALSE) /\ UNCHANGED objects
  /\ UNCHANGED <<storeVars, session, faults, acked, legacy>>

GivesUp(t) ==
  /\ migration' = [migration EXCEPT ![t] = NoMigration]
  /\ UNCHANGED <<objects, queue, owner, step, local, acked, legacy>>

(* Without a session the create or unlock has thrown.                      *)
MigrateImport(t) ==
  /\ Answered(t, "opening")
  /\ IF session[t] # 0
     THEN Import(t, migration[t].id + 1) /\ UNCHANGED <<acked, legacy>>
     ELSE GivesUp(t)
  /\ UNCHANGED <<storeVars, session, calls, faults>>

(* canDeleteLegacy: the receipt names what was put in by this migration.   *)
CanDeleteLegacy(t) ==
  migration[t].fresh /\ objects[t][migration[t].obj].raw = migration[t].id

(* The plaintext goes, then the receipt is taken out with another save.    *)
MigrateDelete(t) ==
  /\ Answered(t, "saving")
  /\ IF CanDeleteLegacy(t)
     THEN /\ legacy' = FALSE
          /\ acked' = acked \cup {<<Legacy, objects[t][migration[t].obj].salt>>}
          /\ Enqueue(t, migration[t].id + 1, "persist", migration[t].obj)
          /\ migration' = [migration EXCEPT ![t] = NoMigration]
          /\ UNCHANGED objects
     ELSE GivesUp(t)
  /\ UNCHANGED <<storeVars, session, calls, faults>>

(* discardLegacyPlaintext                                                  *)
Discard(t) ==
  /\ legacy /\ migration[t] = NoMigration /\ calls < MaxCalls
  /\ legacy' = FALSE /\ calls' = calls + 1
  /\ UNCHANGED <<storeVars, tabVars, runVars, faults, acked, migration>>

-----------------------------------------------------------------------------
Steps(t) ==
  \/ PersistStart(t) \/ PersistWrite(t)
  \/ CreateStart(t) \/ CreateWrite(t)
  \/ UnlockStart(t) \/ UnlockInstall(t)
  \/ RememberOnStart(t) \/ PutKey(t) \/ KeyIsPut(t)
  \/ LockStart(t) \/ ClearStart(t) \/ RememberOffStart(t) \/ DeleteKey(t) \/ KeyIsDeleted(t)
  \/ RestoreStart(t) \/ RestoreReadKey(t) \/ RestoreReadVault(t)
  \/ RestoreInstall(t) \/ DropKey(t)

Proceed(t) ==
  \/ Steps(t) /\ UNCHANGED migVars
  \/ MigrateImport(t) \/ MigrateDelete(t)

Next ==
  \E t \in Tabs :
    \/ \E k \in Kinds : Call(t, k)
    \/ Reload(t) \/ Migrate(t) \/ Discard(t)
    \/ Proceed(t)

Spec == Init /\ [][Next]_vars

(* What an operation awaits comes, and a lock that is free is granted.     *)
FairSpec == Spec /\ \A t \in Tabs : WF_vars(Proceed(t))

-----------------------------------------------------------------------------
(* Under the Web Lock the tabs' operations, cut off by reloads at any      *)
(* await, are those of one document: a save never takes back what another  *)
(* tab stored, a session never writes over a later vault, and no           *)
(* generation comes twice (persistSession, createVault, clearVault).       *)
Store == INSTANCE VaultStore WITH
  Changes <- Ids \cup {Legacy},
  vault   <- IF env = NoVault THEN NoVault ELSE [gen |-> env.gen, data |-> env.data],
  last    <- metaGen
ImplementsVaultStore == Store!Spec

(* A change whose save was reported is in the envelope for as long as its  *)
(* vault exists, whatever the other tab saves, and wherever a tab is       *)
(* reloaded (persistSession).  That the plaintext of an older version was  *)
(* deleted reports that it is there (migrateLegacyIntoVault: "only deletes *)
(* legacy after full receipt verify").                                     *)
AcknowledgedIsDurable ==
  \A a \in acked : env # NoVault /\ env.salt = a[2] => a[1] \in env.data

(* docs/plans/2026-07-22-vault-remember-unlock.md:140, the conditions of a *)
(* restore: when it installs a session both flags are still set, the key   *)
(* is still there and opens the envelope that is stored                    *)
(* (tryRestoreVaultSession reads all of them before three awaits).         *)
RestoreIsAllowed ==
  [][\A t \in Tabs :
       step[t] = "decrypting" /\ session'[t] # session[t] /\ session'[t] # 0 =>
         /\ remember /\ allowed
         /\ key # NoKey /\ env # NoVault /\ key.salt = env.salt]_vars

(* No operation waits for ever: not for the lock a tab held when it was    *)
(* reloaded, nor behind an operation that failed (enqueueVaultOp); unless  *)
(* it waits for a transaction that was aborted at its commit, or for the   *)
(* tab that waits for one (idbPut, idbDelete, atomicDeleteIfOpToken).      *)
QueuesDrain ==
  \A t \in Tabs : (queue[t] # <<>>) ~> (queue[t] = <<>> \/ \E h \in Tabs : step[h] = "hung")
===============================================================================

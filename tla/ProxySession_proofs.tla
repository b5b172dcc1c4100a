------------------------ MODULE ProxySession_proofs ------------------------
(***************************************************************************)
(* Theorems about ProxySession, for every set of sessions and addresses    *)
(* and every limit.                                                        *)
(***************************************************************************)
EXTENDS ProxySession, ProxyEdge, FiniteSetTheorems, TLAPS

(* The two limiter operations keep its types.                              *)
LEMMA TryAcquireType ==
  ASSUME NEW s \in Slots, LimiterTypeOK, TryAcquire(s)
  PROVE  LimiterTypeOK'
<1>1. wsByIp' \in [Ips -> 0..MaxPerIp]
  BY LimitAssumption DEF LimiterTypeOK, TryAcquire, HasRoom, Slots
<1>2. wsByToken' \in [Tokens -> 0..MaxPerToken]
  BY LimitAssumption DEF LimiterTypeOK, TryAcquire, HasRoom, Slots
<1> QED
  BY <1>1, <1>2 DEF LimiterTypeOK, TryAcquire

(* Calling a release closure once or twice keeps the limiter's types.       *)
LEMMA ReleaseType ==
  ASSUME NEW s \in Slots, LimiterTypeOK, Release(s)
  PROVE  LimiterTypeOK'
BY LimitAssumption DEF LimiterTypeOK, Release, OneLess, Slots, limiterVars

(* A counted connection keeps the types of the rate windows.               *)
LEMMA HitType ==
  ASSUME NEW n \in Nat, NEW e \in BOOLEAN
  PROVE  Hit(n, e, 1) \in Nat
BY DEF Hit

(* A message that may still be received makes a slot of the right shape.   *)
LEMMA SlotForType ==
  ASSUME NEW c \in Conns, NEW m \in Messages, TypeOK, sent[c] < MaxMsgs
  PROVE  /\ SlotFor(c, m) \in Slots
         /\ SlotFor(c, m).id \in Calls
         /\ SlotFor(c, m).id = <<c, sent[c] + 1>>
         /\ SlotFor(c, m).ip = AddrOf[c]
BY ProxyAssumption DEF TypeOK, SlotFor, Slots, Calls, TokenKey, Tokens, Messages

(* Asking for the close handshake keeps the types.                         *)
LEMMA CloseWsType ==
  ASSUME NEW c \in Conns, TypeOK, CloseWs(c)
  PROVE  ws' \in [Conns -> {"none", "refused", "open", "closing", "closed"}]
BY DEF TypeOK, CloseWs, Closing

(* What a client message may change, whichever way the handler returns.    *)
LEMMA FirstMessageType ==
  ASSUME NEW c \in Conns, NEW m \in Messages, TypeOK, sent[c] < MaxMsgs,
         FirstMessage(c, m)
  PROVE  /\ LimiterTypeOK'
         /\ ws' \in [Conns -> {"none", "refused", "open", "closing", "closed"}]
         /\ timer' \in [Conns -> BOOLEAN]
         /\ release' \in [Conns -> Slots \cup {NoSlot}]
         /\ call' \in [Calls -> {"none", "resolving", "done"}]
<1>1. timer' \in [Conns -> BOOLEAN]
  BY DEF TypeOK, FirstMessage
<1>2. CASE Reject(c)
  BY <1>1, <1>2, CloseWsType DEF TypeOK, Reject, LimiterTypeOK, limiterVars
<1>3. CASE Admit(c, m)
  <2> DEFINE s == SlotFor(c, m)
  <2>1. s \in Slots /\ s.id \in Calls
    BY SlotForType
  <2>2. CASE /\ TryAcquire(s)
             /\ release' = [release EXCEPT ![c] = s]
             /\ call' = [call EXCEPT ![s.id] = "resolving"]
             /\ UNCHANGED ws
    <3>1. LimiterTypeOK'
      BY <2>1, <2>2, TryAcquireType DEF TypeOK
    <3> QED
      BY <1>1, <2>1, <2>2, <3>1 DEF TypeOK
  <2>3. CASE /\ release' = [release EXCEPT ![c] = NoSlot]
             /\ CloseWs(c)
             /\ UNCHANGED <<limiterVars, call>>
    BY <1>1, <2>3, CloseWsType DEF TypeOK, LimiterTypeOK, limiterVars
  <2> QED
    BY <1>3, <2>2, <2>3 DEF Admit
<1> QED
  BY <1>2, <1>3 DEF FirstMessage

(* Every step keeps the types.                                             *)
LEMMA TypeStep ==
  ASSUME TypeOK, [Next]_vars
  PROVE  TypeOK'
<1>1. ASSUME NEW c \in Conns, Upgrade(c)
      PROVE  TypeOK'
  <2>1. upgrades' \in [Peers -> Nat]
    <3>1. CASE UNCHANGED upgrades
      BY <3>1 DEF TypeOK
    <3>2. ASSUME NEW expired \in BOOLEAN,
                 upgrades' = [upgrades EXCEPT
                   ![PeerOf[c]] = Hit(upgrades[PeerOf[c]], expired, 1)]
          PROVE  upgrades' \in [Peers -> Nat]
      BY <3>2, HitType, ProxyAssumption DEF TypeOK
    <3> QED
      BY <1>1, <3>1, <3>2 DEF Upgrade
  <2>2. ws' \in [Conns -> {"none", "refused", "open", "closing", "closed"}]
    BY <1>1 DEF Upgrade, TypeOK
  <2>3. timer' \in [Conns -> BOOLEAN]
    BY <1>1 DEF Upgrade, TypeOK
  <2>4. preAuth' \in [Conns -> BOOLEAN]
    <3>1. CASE UNCHANGED preAuth
      BY <3>1 DEF TypeOK
    <3>2. ASSUME NEW ok \in BOOLEAN, preAuth' = [preAuth EXCEPT ![c] = ok]
          PROVE  preAuth' \in [Conns -> BOOLEAN]
      BY <3>2, Zenon DEF TypeOK
    <3> QED
      BY <1>1, <3>1, <3>2 DEF Upgrade
  <2> QED
    BY <1>1, <2>1, <2>2, <2>3, <2>4
    DEF Upgrade, TypeOK, LimiterTypeOK, limiterVars, clientVars
<1>2. ASSUME NEW c \in Conns, NEW m \in Messages, ClientMessage(c, m)
      PROVE  TypeOK'
  <2>1. PICK inExpired \in BOOLEAN, helloExpired \in BOOLEAN :
          LET n == Hit(inBytes[c], inExpired, 1)
              h == Hit(hellos[c], helloExpired, 1)
          IN
          /\ inBytes' = [inBytes EXCEPT ![c] = n]
          /\ \/ /\ n > InBudget
                /\ Reject(c)
                /\ UNCHANGED <<hellos, timer>>
             \/ /\ n <= InBudget
                /\ hellos' = [hellos EXCEPT ![c] = h]
                /\ IF h <= MaxHellos THEN FirstMessage(c, m)
                   ELSE Reject(c) /\ UNCHANGED timer
    BY <1>2 DEF ClientMessage
  <2>2. inBytes' \in [Conns -> Nat] /\ hellos' \in [Conns -> Nat]
    BY <2>1, HitType DEF TypeOK
  <2>3. /\ sent' \in [Conns -> 0..MaxMsgs]
        /\ helloed' \in [Conns -> 0..MaxClientHellos]
        /\ sent[c] < MaxMsgs
    BY <1>2, ProxyAssumption DEF ClientMessage, TypeOK
  <2>4. /\ LimiterTypeOK'
        /\ ws' \in [Conns -> {"none", "refused", "open", "closing", "closed"}]
        /\ timer' \in [Conns -> BOOLEAN]
        /\ release' \in [Conns -> Slots \cup {NoSlot}]
        /\ call' \in [Calls -> {"none", "resolving", "done"}]
    <3>1. CASE FirstMessage(c, m)
      BY <2>3, <3>1, FirstMessageType
    <3>2. CASE Reject(c) /\ UNCHANGED timer
      BY <3>2, CloseWsType DEF TypeOK, Reject, LimiterTypeOK, limiterVars
    <3> QED
      BY <2>1, <3>1, <3>2
  <2> QED
    BY <1>2, <2>2, <2>3, <2>4 DEF ClientMessage, TypeOK
<1>3. ASSUME NEW a \in Calls, DnsAnswer(a)
      PROVE  TypeOK'
  <2>1. a[1] \in Conns
    BY DEF Calls
  <2>2. ws' \in [Conns -> {"none", "refused", "open", "closing", "closed"}]
    BY <1>3, <2>1, CloseWsType DEF DnsAnswer, TypeOK
  <2>3. outBytes' \in [Conns -> Nat]
    <3>1. CASE UNCHANGED outBytes
      BY <3>1 DEF TypeOK
    <3>2. ASSUME NEW expired \in BOOLEAN,
                 outBytes' = [outBytes EXCEPT
                   ![a[1]] = Hit(outBytes[a[1]], expired, 1)]
          PROVE  outBytes' \in [Conns -> Nat]
      BY <2>1, <3>2, HitType DEF TypeOK
    <3> QED
      BY <1>3, <3>1, <3>2 DEF DnsAnswer
  <2>4. mud' \in [Calls -> {"none", "dialled", "gone"}]
    BY <1>3 DEF DnsAnswer, TypeOK
  <2> QED
    BY <1>3, <2>1, <2>2, <2>3, <2>4
    DEF DnsAnswer, TypeOK, LimiterTypeOK, limiterVars, clientVars
<1>4. ASSUME NEW c \in Conns, HelloTimeout(c)
      PROVE  TypeOK'
  BY <1>4, CloseWsType
  DEF HelloTimeout, TypeOK, LimiterTypeOK, limiterVars, clientVars, windowVars
<1>5. ASSUME NEW c \in Conns, OnClose(c)
      PROVE  TypeOK'
  <2>1. LimiterTypeOK'
    <3>1. CASE release[c] = NoSlot
      BY <1>5, <3>1 DEF OnClose, ReleaseSlot, TypeOK, LimiterTypeOK, limiterVars
    <3>2. CASE release[c] # NoSlot
      BY <1>5, <3>2, ReleaseType DEF OnClose, ReleaseSlot, TypeOK
    <3> QED
      BY <3>1, <3>2
  <2>2. mud' \in [Calls -> {"none", "dialled", "gone"}]
    BY <1>5 DEF OnClose, TypeOK
  <2> QED
    BY <1>5, <2>1, <2>2 DEF OnClose, TypeOK, clientVars
<1>6. ASSUME NEW a \in Calls, BridgeTraffic(a)
      PROVE  TypeOK'
  <2>1. a[1] \in Conns
    BY DEF Calls
  <2>2. inBytes' \in [Conns -> Nat] /\ outBytes' \in [Conns -> Nat]
    BY <1>6, <2>1, HitType DEF BridgeTraffic, TypeOK
  <2>3. ws' \in [Conns -> {"none", "refused", "open", "closing", "closed"}]
    BY <1>6, <2>1, CloseWsType DEF BridgeTraffic, TypeOK
  <2>4. mud' \in [Calls -> {"none", "dialled", "gone"}]
    BY <1>6 DEF BridgeTraffic, TypeOK
  <2> QED
    BY <1>6, <2>2, <2>3, <2>4
    DEF BridgeTraffic, TypeOK, LimiterTypeOK, limiterVars, clientVars
<1>7. ASSUME NEW a \in Calls, MudEnds(a)
      PROVE  TypeOK'
  <2>1. ws' \in [Conns -> {"none", "refused", "open", "closing", "closed"}]
    BY <1>7, CloseWsType DEF MudEnds, Calls
  <2> QED
    BY <1>7, <2>1
    DEF MudEnds, TypeOK, LimiterTypeOK, limiterVars, clientVars, windowVars
<1>8. CASE UNCHANGED vars
  BY <1>8
  DEF vars, sessionVars, windowVars, clientVars, limiterVars, TypeOK, LimiterTypeOK
<1> QED
  BY <1>1, <1>2, <1>3, <1>4, <1>5, <1>6, <1>7, <1>8
  DEF Next, ClientCloses, CloseCompletes

(* The proxy's state always has the types TypeOK gives it: counters never  *)
(* go below zero and every release closure is one tryAcquire made.         *)
THEOREM TypeCorrect == Spec => []TypeOK
<1>1. Init => TypeOK
  BY ProxyAssumption, LimitAssumption DEF Init, LimiterInit, TypeOK, LimiterTypeOK
<1> QED
  BY <1>1, TypeStep, PTL DEF Spec

-----------------------------------------------------------------------------
(* The inductive invariant behind the limits.  SlotCounts alone does not   *)
(* survive tryAcquire: a closure handed out twice would be counted twice   *)
(* and held once.  SlotsAreSent says why that cannot be: a closure is      *)
(* named after the message that asked for it, and the next message has a   *)
(* higher number than any before.                                          *)
SlotsAreSent ==
  \A s \in live : s.id[2] <= sent[s.id[1]] /\ s.ip = AddrOf[s.id[1]]

(* The closure a session holds is one its own message asked for.           *)
ReleaseIsOwn == \A c \in Conns : release[c] # NoSlot => release[c].id[1] = c

(* A call that is in its lookup, and the bridge it dials, hold the slot it *)
(* acquired for as long as the session's close event has not come.         *)
AttachedHoldsSlot ==
  \A a \in Calls :
    /\ call[a] = "resolving" \/ mud[a] = "dialled"
    /\ ws[a[1]] # "closed"
    => \E s \in live : s.id = a

LimitInv ==
  /\ TypeOK
  /\ IsFiniteSet(live)
  /\ SlotCounts
  /\ SlotsAreSent
  /\ ReleaseIsOwn
  /\ AttachedHoldsSlot

(* A subset of a finite set of closures that gains or loses one element.   *)
LEMMA AcquireCounts ==
  ASSUME NEW s \in Slots, s \notin live, LimiterTypeOK, IsFiniteSet(live),
         SlotCounts, TryAcquire(s)
  PROVE  IsFiniteSet(live') /\ SlotCounts'
<1>1. IsFiniteSet(live')
  BY FS_AddElement DEF TryAcquire
<1>2. ASSUME NEW ip \in Ips
      PROVE  wsByIp'[ip] = Cardinality(LiveOnIp(ip)')
  <2>1. IsFiniteSet(LiveOnIp(ip))
    BY FS_Subset DEF LiveOnIp
  <2>2. CASE ip = s.ip
    <3>1. LiveOnIp(ip)' = LiveOnIp(ip) \cup {s} /\ s \notin LiveOnIp(ip)
      BY <2>2 DEF LiveOnIp, TryAcquire
    <3>2. Cardinality(LiveOnIp(ip)') = Cardinality(LiveOnIp(ip)) + 1
      BY <2>1, <3>1, FS_AddElement
    <3> QED
      BY <2>2, <3>2 DEF TryAcquire, SlotCounts, LimiterTypeOK
  <2>3. CASE ip # s.ip
    <3>1. LiveOnIp(ip)' = LiveOnIp(ip)
      BY <2>3 DEF LiveOnIp, TryAcquire
    <3> QED
      BY <2>3, <3>1 DEF TryAcquire, SlotCounts, LimiterTypeOK
  <2> QED
    BY <2>2, <2>3
<1>3. ASSUME NEW t \in Tokens
      PROVE  wsByToken'[t] = Cardinality(LiveOnTok(t)')
  <2>1. IsFiniteSet(LiveOnTok(t))
    BY FS_Subset DEF LiveOnTok
  <2>2. CASE t = s.tok
    <3>1. LiveOnTok(t)' = LiveOnTok(t) \cup {s} /\ s \notin LiveOnTok(t)
      BY <2>2 DEF LiveOnTok, TryAcquire
    <3>2. Cardinality(LiveOnTok(t)') = Cardinality(LiveOnTok(t)) + 1
      BY <2>1, <3>1, FS_AddElement
    <3> QED
      BY <2>2, <3>2 DEF TryAcquire, SlotCounts, LimiterTypeOK
  <2>3. CASE t # s.tok
    <3>1. LiveOnTok(t)' = LiveOnTok(t)
      BY <2>3 DEF LiveOnTok, TryAcquire
    <3> QED
      BY <2>3, <3>1 DEF TryAcquire, SlotCounts, LimiterTypeOK
  <2> QED
    BY <2>2, <2>3
<1> QED
  BY <1>1, <1>2, <1>3 DEF SlotCounts

(* The closure that is called leaves both counts one lower.                *)
LEMMA ReleaseCounts ==
  ASSUME NEW s \in Slots, LimiterTypeOK, IsFiniteSet(live),
         SlotCounts, Release(s)
  PROVE  /\ IsFiniteSet(live') /\ SlotCounts'
         /\ live' = live \ {s}
<1>1. CASE s \notin live
  BY <1>1 DEF Release, limiterVars, SlotCounts, LiveOnIp, LiveOnTok
<1>2. CASE s \in live
  <2>1. IsFiniteSet(live') /\ live' = live \ {s}
    BY <1>2, FS_RemoveElement DEF Release
  <2>2. ASSUME NEW ip \in Ips
        PROVE  wsByIp'[ip] = Cardinality(LiveOnIp(ip)')
    <3>1. IsFiniteSet(LiveOnIp(ip))
      BY FS_Subset DEF LiveOnIp
    <3>2. CASE ip = s.ip
      <4>1. LiveOnIp(ip)' = LiveOnIp(ip) \ {s} /\ s \in LiveOnIp(ip)
        BY <1>2, <2>1, <3>2 DEF LiveOnIp
      <4>2. Cardinality(LiveOnIp(ip)') = Cardinality(LiveOnIp(ip)) - 1
        BY <3>1, <4>1, FS_RemoveElement
      <4>3. Cardinality(LiveOnIp(ip)) # 0 /\ Cardinality(LiveOnIp(ip)) \in Nat
        BY <3>1, <4>1, FS_EmptySet, FS_CardinalityType
      <4> QED
        BY <1>2, <3>2, <4>2, <4>3 DEF Release, OneLess, SlotCounts, LimiterTypeOK
    <3>3. CASE ip # s.ip
      <4>1. LiveOnIp(ip)' = LiveOnIp(ip)
        BY <2>1, <3>3 DEF LiveOnIp
      <4> QED
        BY <1>2, <3>3, <4>1 DEF Release, SlotCounts, LimiterTypeOK
    <3> QED
      BY <3>2, <3>3
  <2>3. ASSUME NEW t \in Tokens
        PROVE  wsByToken'[t] = Cardinality(LiveOnTok(t)')
    <3>1. IsFiniteSet(LiveOnTok(t))
      BY FS_Subset DEF LiveOnTok
    <3>2. CASE t = s.tok
      <4>1. LiveOnTok(t)' = LiveOnTok(t) \ {s} /\ s \in LiveOnTok(t)
        BY <1>2, <2>1, <3>2 DEF LiveOnTok
      <4>2. Cardinality(LiveOnTok(t)') = Cardinality(LiveOnTok(t)) - 1
        BY <3>1, <4>1, FS_RemoveElement
      <4>3. Cardinality(LiveOnTok(t)) # 0 /\ Cardinality(LiveOnTok(t)) \in Nat
        BY <3>1, <4>1, FS_EmptySet, FS_CardinalityType
      <4> QED
        BY <1>2, <3>2, <4>2, <4>3 DEF Release, OneLess, SlotCounts, LimiterTypeOK
    <3>3. CASE t # s.tok
      <4>1. LiveOnTok(t)' = LiveOnTok(t)
        BY <2>1, <3>3 DEF LiveOnTok
      <4> QED
        BY <1>2, <3>3, <4>1 DEF Release, SlotCounts, LimiterTypeOK
    <3> QED
      BY <3>2, <3>3
  <2> QED
    BY <2>1, <2>2, <2>3 DEF SlotCounts
<1> QED
  BY <1>1, <1>2

(* A step that leaves the limiter alone keeps what is said about it.       *)
LEMMA LimiterUnchanged ==
  ASSUME IsFiniteSet(live), SlotCounts, UNCHANGED limiterVars
  PROVE  IsFiniteSet(live') /\ SlotCounts'
BY DEF limiterVars, SlotCounts, LiveOnIp, LiveOnTok

(* An action that touches neither the limiter nor the closures, starts no  *)
(* lookup, dials for no call but one that was in its lookup, and reopens   *)
(* no session that is closed.                                              *)
LEMMA LimitQuiet ==
  ASSUME LimitInv, TypeOK', UNCHANGED <<limiterVars, release, sent>>,
         \A a \in Calls :
           call'[a] = "resolving" \/ mud'[a] = "dialled"
           => call[a] = "resolving" \/ mud[a] = "dialled",
         \A c \in Conns : ws[c] = "closed" => ws'[c] = "closed"
  PROVE  LimitInv'
<1>1. IsFiniteSet(live') /\ SlotCounts'
  BY LimiterUnchanged DEF LimitInv
<1>2. SlotsAreSent' /\ ReleaseIsOwn'
  BY DEF LimitInv, SlotsAreSent, ReleaseIsOwn, limiterVars
<1>3. AttachedHoldsSlot'
  BY DEF LimitInv, AttachedHoldsSlot, limiterVars, Calls
<1> QED
  BY <1>1, <1>2, <1>3 DEF LimitInv

(* An authorised hello, the one step that acquires.                        *)
LEMMA LimitMessage ==
  ASSUME LimitInv, TypeOK', NEW c \in Conns, NEW m \in Messages,
         ClientMessage(c, m)
  PROVE  LimitInv'
<1> DEFINE s == SlotFor(c, m)
<1>1. /\ sent' = [sent EXCEPT ![c] = @ + 1]
      /\ sent[c] < MaxMsgs
      /\ UNCHANGED mud
  BY DEF ClientMessage
<1>2. \/ Reject(c)
      \/ /\ TryAcquire(s)
         /\ release' = [release EXCEPT ![c] = s]
         /\ call' = [call EXCEPT ![s.id] = "resolving"]
         /\ UNCHANGED ws
      \/ /\ release' = [release EXCEPT ![c] = NoSlot]
         /\ CloseWs(c)
         /\ UNCHANGED <<limiterVars, call>>
  BY DEF ClientMessage, FirstMessage, Admit
<1>3. s \in Slots /\ s.id \in Calls /\ s.id = <<c, sent[c] + 1>> /\ s.ip = AddrOf[c]
  BY <1>1, SlotForType DEF LimitInv
<1>4. CASE /\ release' \in {release, [release EXCEPT ![c] = NoSlot]}
           /\ CloseWs(c)
           /\ UNCHANGED <<limiterVars, call>>
  <2>1. IsFiniteSet(live') /\ SlotCounts'
    BY <1>4, LimiterUnchanged DEF LimitInv
  <2>2. SlotsAreSent'
    <3> SUFFICES ASSUME NEW x \in live'
                 PROVE  x.id[2] <= sent'[x.id[1]] /\ x.ip = AddrOf[x.id[1]]
      BY DEF SlotsAreSent
    <3>1. x \in live /\ x \in Slots
      BY <1>4 DEF limiterVars, LimitInv, TypeOK, LimiterTypeOK
    <3>2. x.id[1] \in Conns /\ x.id[2] \in Nat
      BY <3>1, ProxyAssumption DEF Slots, Calls
    <3>3. x.id[2] <= sent[x.id[1]] /\ x.ip = AddrOf[x.id[1]]
      BY <3>1 DEF LimitInv, SlotsAreSent
    <3> QED
      BY <1>1, <3>2, <3>3 DEF LimitInv, TypeOK
  <2>3. ReleaseIsOwn'
    BY <1>4 DEF LimitInv, ReleaseIsOwn, TypeOK
  <2>4. AttachedHoldsSlot'
    BY <1>1, <1>4 DEF LimitInv, AttachedHoldsSlot, CloseWs, Closing, limiterVars,
       Calls, TypeOK
  <2> QED
    BY <2>1, <2>2, <2>3, <2>4 DEF LimitInv
<1>5. CASE /\ TryAcquire(s)
           /\ release' = [release EXCEPT ![c] = s]
           /\ call' = [call EXCEPT ![s.id] = "resolving"]
           /\ UNCHANGED ws
  <2>1. s \notin live
    BY <1>3 DEF LimitInv, SlotsAreSent, TypeOK
  <2>2. IsFiniteSet(live') /\ SlotCounts'
    BY <1>3, <1>5, <2>1, AcquireCounts DEF LimitInv, TypeOK
  <2>3. live' = live \cup {s}
    BY <1>5 DEF TryAcquire
  <2>4. SlotsAreSent'
    <3> SUFFICES ASSUME NEW x \in live'
                 PROVE  x.id[2] <= sent'[x.id[1]] /\ x.ip = AddrOf[x.id[1]]
      BY DEF SlotsAreSent
    <3>1. CASE x = s
      BY <1>1, <1>3, <3>1 DEF LimitInv, TypeOK
    <3>2. CASE x \in live
      <4>1. x.id[1] \in Conns /\ x.id[2] \in Nat
        BY <3>2, ProxyAssumption DEF Slots, Calls, LimitInv, TypeOK, LimiterTypeOK
      <4>2. x.id[2] <= sent[x.id[1]] /\ x.ip = AddrOf[x.id[1]]
        BY <3>2 DEF LimitInv, SlotsAreSent
      <4> QED
        BY <1>1, <4>1, <4>2 DEF LimitInv, TypeOK
    <3> QED
      BY <2>3, <3>1, <3>2
  <2>5. ReleaseIsOwn'
    BY <1>3, <1>5 DEF LimitInv, ReleaseIsOwn, TypeOK
  <2>6. AttachedHoldsSlot'
    <3> SUFFICES ASSUME NEW a \in Calls, ws'[a[1]] # "closed",
                        call'[a] = "resolving" \/ mud'[a] = "dialled"
                 PROVE  \E x \in live' : x.id = a
      BY DEF AttachedHoldsSlot
    <3>1. CASE a = s.id
      BY <2>3, <3>1
    <3>2. CASE a # s.id
      <4>1. /\ call[a] = "resolving" \/ mud[a] = "dialled"
            /\ ws[a[1]] # "closed"
        BY <1>1, <1>5, <3>2 DEF LimitInv, TypeOK
      <4>2. PICK x \in live : x.id = a
        BY <4>1 DEF LimitInv, AttachedHoldsSlot
      <4> QED
        BY <2>3, <4>2
    <3> QED
      BY <3>1, <3>2
  <2> QED
    BY <2>2, <2>4, <2>5, <2>6 DEF LimitInv
<1> QED
  BY <1>2, <1>4, <1>5 DEF Reject

(* The close event, the one step that gives back.                          *)
LEMMA LimitClose ==
  ASSUME LimitInv, TypeOK', NEW c \in Conns, OnClose(c)
  PROVE  LimitInv'
<1>1. /\ IsFiniteSet(live') /\ SlotCounts'
      /\ \A x \in live : x.id[1] # c => x \in live'
      /\ live' \subseteq live
  <2>1. CASE release[c] = NoSlot
    BY <2>1, LimiterUnchanged DEF LimitInv, OnClose, ReleaseSlot, limiterVars
  <2>2. CASE release[c] # NoSlot
    <3>1. release[c] \in Slots /\ Release(release[c]) /\ release[c].id[1] = c
      BY <2>2 DEF LimitInv, TypeOK, OnClose, ReleaseSlot, ReleaseIsOwn
    <3>2. IsFiniteSet(live') /\ SlotCounts'
          /\ live' = live \ {release[c]}
      BY <3>1, ReleaseCounts DEF LimitInv, TypeOK
    <3> QED
      BY <3>1, <3>2
  <2> QED
    BY <2>1, <2>2
<1>2. SlotsAreSent'
  BY <1>1 DEF LimitInv, SlotsAreSent, OnClose, clientVars
<1>3. ReleaseIsOwn'
  BY DEF LimitInv, ReleaseIsOwn, OnClose, TypeOK
<1>4. AttachedHoldsSlot'
  <2> SUFFICES ASSUME NEW a \in Calls, ws'[a[1]] # "closed",
                      call'[a] = "resolving" \/ mud'[a] = "dialled"
               PROVE  \E x \in live' : x.id = a
    BY DEF AttachedHoldsSlot
  <2>1. a[1] \in Conns /\ a[1] # c /\ ws[a[1]] # "closed"
    BY DEF OnClose, LimitInv, TypeOK, Calls
  <2>2. call[a] = "resolving" \/ mud[a] = "dialled"
    BY <2>1 DEF OnClose, BridgesOf, LimitInv, TypeOK
  <2>3. PICK x \in live : x.id = a
    BY <2>1, <2>2 DEF LimitInv, AttachedHoldsSlot
  <2> QED
    BY <1>1, <2>1, <2>3
<1> QED
  BY <1>1, <1>2, <1>3, <1>4 DEF LimitInv

(* Every step of the proxy keeps the limiter's invariant, action by action. *)
LEMMA LimitStep ==
  ASSUME LimitInv, [Next]_vars
  PROVE  LimitInv'
<1>0. TypeOK'
  BY TypeStep DEF LimitInv
<1>1. ASSUME NEW c \in Conns, Upgrade(c)
      PROVE  LimitInv'
  BY <1>0, <1>1, LimitQuiet DEF Upgrade, LimitInv, TypeOK, clientVars
<1>2. ASSUME NEW c \in Conns, NEW m \in Messages, ClientMessage(c, m)
      PROVE  LimitInv'
  BY <1>0, <1>2, LimitMessage
<1>3. ASSUME NEW a \in Calls, DnsAnswer(a)
      PROVE  LimitInv'
  <2>1. \A b \in Calls :
          call'[b] = "resolving" \/ mud'[b] = "dialled"
          => call[b] = "resolving" \/ mud[b] = "dialled"
    BY <1>3 DEF DnsAnswer, LimitInv, TypeOK
  <2>2. \A c \in Conns : ws[c] = "closed" => ws'[c] = "closed"
    BY <1>3 DEF DnsAnswer, LimitInv, TypeOK, CloseWs, Closing
  <2> QED
    BY <1>0, <1>3, <2>1, <2>2, LimitQuiet DEF DnsAnswer, clientVars
<1>4. ASSUME NEW c \in Conns, HelloTimeout(c)
      PROVE  LimitInv'
  BY <1>0, <1>4, LimitQuiet
  DEF HelloTimeout, LimitInv, TypeOK, CloseWs, Closing, clientVars
<1>5. ASSUME NEW c \in Conns, OnClose(c)
      PROVE  LimitInv'
  BY <1>0, <1>5, LimitClose
<1>6. ASSUME NEW a \in Calls, BridgeTraffic(a)
      PROVE  LimitInv'
  <2>1. \A b \in Calls :
          call'[b] = "resolving" \/ mud'[b] = "dialled"
          => call[b] = "resolving" \/ mud[b] = "dialled"
    BY <1>6 DEF BridgeTraffic, LimitInv, TypeOK
  <2>2. \A c \in Conns : ws[c] = "closed" => ws'[c] = "closed"
    BY <1>6 DEF BridgeTraffic, LimitInv, TypeOK, CloseWs, Closing
  <2> QED
    BY <1>0, <1>6, <2>1, <2>2, LimitQuiet DEF BridgeTraffic, clientVars
<1>7. ASSUME NEW a \in Calls, MudEnds(a)
      PROVE  LimitInv'
  BY <1>0, <1>7, LimitQuiet
  DEF MudEnds, LimitInv, TypeOK, CloseWs, Closing, clientVars
<1>8. CASE UNCHANGED vars
  BY <1>0, <1>8, LimitQuiet DEF vars, sessionVars, clientVars
<1> QED
  BY <1>1, <1>2, <1>3, <1>4, <1>5, <1>6, <1>7, <1>8
  DEF Next, ClientCloses, CloseCompletes

(* The inductive invariant: what the maps count, what the closures hold    *)
(* and which sessions may still hold one agree in every reachable state of *)
(* the handlers of index.ts.                                               *)
THEOREM LimitsInvariant == Spec => []LimitInv
<1>1. Init => LimitInv
  <2> SUFFICES ASSUME Init PROVE LimitInv
    OBVIOUS
  <2>1. TypeOK
    BY ProxyAssumption, LimitAssumption DEF Init, LimiterInit, TypeOK, LimiterTypeOK
  <2>2. IsFiniteSet(live) /\ SlotCounts
    BY FS_EmptySet DEF Init, LimiterInit, SlotCounts, LiveOnIp, LiveOnTok
  <2>4. SlotsAreSent /\ ReleaseIsOwn /\ AttachedHoldsSlot
    BY DEF Init, LimiterInit, SlotsAreSent, ReleaseIsOwn, AttachedHoldsSlot
  <2> QED
    BY <2>1, <2>2, <2>4 DEF LimitInv
<1> QED
  BY <1>1, LimitStep, PTL DEF Spec

(* For every number of sessions: the counts of tryAcquire are those of the *)
(* closures that are still to be called, so that no order of hellos,       *)
(* lookups and closes makes a limit drift.                                 *)
THEOREM CountsAreExact == Spec => []SlotCounts
<1>1. LimitInv => SlotCounts
  BY DEF LimitInv
<1> QED
  BY <1>1, LimitsInvariant, PTL

(* The bridges of one address that are attached inject into the closures   *)
(* charged to it, and those are as many as wsByIp says.                    *)
LEMMA AttachedBounded ==
  ASSUME LimitInv
  PROVE  AttachedWithinLimit
<1> SUFFICES ASSUME NEW ip \in Ips
             PROVE  Cardinality({a \in CallsFrom(ip) : Attached(a)}) <= MaxPerIp
  BY DEF AttachedWithinLimit
<1> DEFINE A == {a \in CallsFrom(ip) : Attached(a)}
           f == [a \in A |-> CHOOSE s \in live : s.id = a]
<1>1. ASSUME NEW a \in A
      PROVE  f[a] \in LiveOnIp(ip) /\ f[a].id = a
  <2>1. \E s \in live : s.id = a
    BY DEF LimitInv, AttachedHoldsSlot, Attached, CallsFrom
  <2>2. f[a] \in live /\ f[a].id = a
    BY <2>1
  <2>3. f[a].ip = AddrOf[a[1]]
    BY <2>2 DEF LimitInv, SlotsAreSent
  <2> QED
    BY <2>2, <2>3 DEF LiveOnIp, CallsFrom
<1>2. f \in Injection(A, LiveOnIp(ip))
  BY <1>1 DEF Injection, IsInjective
<1>3. IsFiniteSet(LiveOnIp(ip))
  BY FS_Subset DEF LimitInv, LiveOnIp
<1>4. IsFiniteSet(A) /\ Cardinality(A) <= Cardinality(LiveOnIp(ip))
  BY <1>2, <1>3, FS_Injection
<1>5. Cardinality(LiveOnIp(ip)) <= MaxPerIp
  BY DEF LimitInv, SlotCounts, TypeOK, LimiterTypeOK
<1>6. Cardinality(A) \in Nat /\ Cardinality(LiveOnIp(ip)) \in Nat /\ MaxPerIp \in Nat
  BY <1>3, <1>4, FS_CardinalityType, LimitAssumption
<1> QED
  BY <1>4, <1>5, <1>6

(* For every number of sessions and every limit, the connected bridges of  *)
(* one client address stay within concurrentWsPerIp.                       *)
THEOREM LimitHolds == Spec => []AttachedWithinLimit
BY LimitsInvariant, AttachedBounded, PTL

-----------------------------------------------------------------------------
(* The instance brings its own copy of Cardinality.                        *)
LEMMA PoolCardinality ==
  ASSUME NEW S
  PROVE  Pool!Cardinality(S) = Cardinality(S)
BY DEF Pool!Cardinality, Cardinality

(* Every step of the proxy is a step of the abstract pool or leaves the    *)
(* slots held as they are.                                                 *)
LEMMA PoolStep ==
  ASSUME LimitInv, [Next]_vars
  PROVE  [Pool!Next]_live
<1>1. ASSUME NEW c \in Conns, NEW m \in Messages, ClientMessage(c, m)
      PROVE  [Pool!Next]_live
  <2> DEFINE s == SlotFor(c, m)
  <2>1. s \in Slots /\ s.id = <<c, sent[c] + 1>>
    BY <1>1, SlotForType DEF ClientMessage, LimitInv
  <2>2. CASE TryAcquire(s)
    <3>1. s \notin live
      BY <2>1 DEF LimitInv, SlotsAreSent, TypeOK
    <3>2. /\ Cardinality(Pool!HeldByIp(s.ip)) < MaxPerIp
          /\ Cardinality(Pool!HeldByTok(s.tok)) < MaxPerToken
      BY <2>1, <2>2 DEF TryAcquire, HasRoom, LimitInv, SlotCounts, LiveOnIp,
         LiveOnTok, Pool!HeldByIp, Pool!HeldByTok, Slots
    <3>3. Pool!Acquire(s)
      BY <2>2, <3>1, <3>2, PoolCardinality DEF TryAcquire, Pool!Acquire
    <3> QED
      BY <2>1, <3>3 DEF Pool!Next
  <2>3. CASE UNCHANGED limiterVars
    BY <2>3 DEF limiterVars
  <2> QED
    BY <1>1, <2>2, <2>3 DEF ClientMessage, FirstMessage, Admit, Reject
<1>2. ASSUME NEW c \in Conns, OnClose(c)
      PROVE  [Pool!Next]_live
  <2>1. CASE release[c] = NoSlot \/ release[c] \notin live
    BY <1>2, <2>1 DEF OnClose, ReleaseSlot, Release, limiterVars
  <2>2. CASE release[c] # NoSlot /\ release[c] \in live
    BY <1>2, <2>2 DEF OnClose, ReleaseSlot, Release, Pool!Next, Pool!GiveBack, LimitInv,
       TypeOK, LimiterTypeOK
  <2> QED
    BY <2>1, <2>2
<1>3. CASE UNCHANGED limiterVars
  BY <1>3 DEF limiterVars
<1>4. ASSUME NEW c \in Conns, Upgrade(c) \/ HelloTimeout(c)
      PROVE  UNCHANGED limiterVars
  BY <1>4 DEF Upgrade, HelloTimeout
<1>5. ASSUME NEW a \in Calls, DnsAnswer(a) \/ BridgeTraffic(a) \/ MudEnds(a)
      PROVE  UNCHANGED limiterVars
  BY <1>5 DEF DnsAnswer, BridgeTraffic, MudEnds
<1> QED
  BY <1>1, <1>2, <1>3, <1>4, <1>5
  DEF Next, ClientCloses, CloseCompletes, vars, limiterVars

(* The maps, the closures and their interleavings implement the abstract   *)
(* pool: a slot is only handed out while both of its counts have room.     *)
THEOREM RefinesSlotPool == Spec => ImplementsSlotPool
<1>1. Init => Pool!Init
  BY DEF Init, LimiterInit, Pool!Init
<1>2. LimitInv /\ [Next]_vars => [Pool!Next]_live
  BY PoolStep
<1> QED
  BY <1>1, <1>2, LimitsInvariant, PTL DEF Spec, ImplementsSlotPool, Pool!Spec

-----------------------------------------------------------------------------
(* Why one hello leaves no slot: up to the first hello there is none, and  *)
(* the one it acquired is the one the close event finds in "release".      *)
OwnSlots(c) == {s \in live : s.id[1] = c}

OneHelloInv ==
  /\ TypeOK
  /\ \A c \in Conns : helloed[c] = 0 => OwnSlots(c) = {}
  /\ \A c \in Conns : helloed[c] <= 1 => \A s \in OwnSlots(c) : release[c] = s
  /\ OneHelloLeavesNoSlot

(* No step but a close event closes a session.                             *)
LEMMA OneHelloQuiet ==
  ASSUME OneHelloInv, TypeOK', UNCHANGED <<limiterVars, release, helloed>>,
         \A c \in Conns : ws'[c] = "closed" => ws[c] = "closed"
  PROVE  OneHelloInv'
<1>1. \A c : OwnSlots(c)' = OwnSlots(c)
  BY DEF OwnSlots, limiterVars
<1>2. OneHelloLeavesNoSlot'
  BY DEF OneHelloInv, OneHelloLeavesNoSlot, limiterVars
<1> QED
  BY <1>1, <1>2 DEF OneHelloInv

(* A message: only a hello may acquire, and then it is counted.            *)
LEMMA OneHelloMessage ==
  ASSUME OneHelloInv, TypeOK', NEW c \in Conns, NEW m \in Messages, ClientMessage(c, m)
  PROVE  OneHelloInv'
<1> DEFINE s == SlotFor(c, m)
<1>1. /\ sent[c] < MaxMsgs /\ ws[c] \in {"open", "closing"}
      /\ helloed' = (IF m.kind = "hello" THEN [helloed EXCEPT ![c] = @ + 1] ELSE helloed)
  BY DEF ClientMessage
<1>2. s.id = <<c, sent[c] + 1>> /\ \A d \in Conns : helloed[d] \in Nat
  <2>1. s.id = <<c, sent[c] + 1>>
    BY <1>1, SlotForType DEF OneHelloInv
  <2>2. \A d \in Conns : helloed[d] \in Nat
    BY ProxyAssumption DEF OneHelloInv, TypeOK
  <2> QED
    BY <2>1, <2>2
<1>3. \/ CloseWs(c) /\ UNCHANGED <<limiterVars, release>>
      \/ m.kind = "hello" /\ live' = live \cup {s} /\ release' = [release EXCEPT ![c] = s] /\ UNCHANGED ws
      \/ m.kind = "hello" /\ CloseWs(c) /\ release' = [release EXCEPT ![c] = NoSlot] /\ UNCHANGED limiterVars
  BY DEF ClientMessage, FirstMessage, Admit, Reject, TryAcquire
<1>4. \A d \in Conns : ws'[d] = "closed" => ws[d] = "closed" /\ d # c
  BY <1>1, <1>3 DEF CloseWs, Closing, OneHelloInv, TypeOK
<1>5. \A d \in Conns : d # c => helloed'[d] = helloed[d] /\ release'[d] = release[d]
  BY <1>1, <1>3 DEF OneHelloInv, TypeOK
<1>6. \A d \in Conns : d # c => OwnSlots(d)' = OwnSlots(d)
  BY <1>2, <1>3 DEF OwnSlots, limiterVars
<1>7. helloed'[c] = (IF m.kind = "hello" THEN helloed[c] + 1 ELSE helloed[c])
  BY <1>1 DEF OneHelloInv, TypeOK
<1>8. (helloed'[c] = 0 => OwnSlots(c)' = {}) /\ (helloed'[c] <= 1 => \A x \in OwnSlots(c)' : release'[c] = x)
  <2>1. CASE m.kind = "hello"
    <3>1. helloed'[c] # 0 /\ (helloed'[c] <= 1 => helloed[c] = 0)
      BY <1>2, <1>7, <2>1
    <3>2. helloed[c] = 0 => OwnSlots(c)' \subseteq {s} /\ (OwnSlots(c)' # {} => release'[c] = s)
      <4>1. SUFFICES ASSUME helloed[c] = 0
                     PROVE  OwnSlots(c)' \subseteq {s} /\ (OwnSlots(c)' # {} => release'[c] = s)
        OBVIOUS
      <4>2. OwnSlots(c) = {}
        BY <4>1 DEF OneHelloInv
      <4>3. CASE live' = live
        BY <4>2, <4>3 DEF OwnSlots
      <4>4. CASE live' = live \cup {s} /\ release' = [release EXCEPT ![c] = s]
        BY <4>2, <4>4 DEF OwnSlots, OneHelloInv, TypeOK
      <4> QED
        BY <1>3, <4>3, <4>4 DEF limiterVars
    <3> QED
      BY <3>1, <3>2
  <2>2. CASE m.kind # "hello"
    <3>1. live' = live /\ release' = release /\ helloed'[c] = helloed[c]
      BY <1>3, <1>7, <2>2 DEF limiterVars
    <3> QED
      BY <3>1 DEF OneHelloInv, OwnSlots
  <2> QED
    BY <2>1, <2>2
<1>9. OneHelloLeavesNoSlot'
  <2> SUFFICES ASSUME NEW d \in Conns, ws'[d] = "closed", helloed'[d] <= 1
               PROVE  \A x \in live' : x.id[1] # d
    BY DEF OneHelloLeavesNoSlot
  <2>1. d # c /\ ws[d] = "closed" /\ helloed[d] <= 1
    BY <1>4, <1>5
  <2>2. OwnSlots(d) = {}
    BY <2>1 DEF OneHelloInv, OneHelloLeavesNoSlot, OwnSlots
  <2> QED
    BY <1>6, <2>1, <2>2 DEF OwnSlots
<1>10. ASSUME NEW d \in Conns
       PROVE  /\ helloed'[d] = 0 => OwnSlots(d)' = {}
              /\ helloed'[d] <= 1 => \A x \in OwnSlots(d)' : release'[d] = x
  <2>1. CASE d = c
    BY <1>8, <2>1
  <2>2. CASE d # c
    BY <1>5, <1>6, <2>2 DEF OneHelloInv
  <2> QED
    BY <2>1, <2>2
<1> QED
  BY <1>9, <1>10 DEF OneHelloInv

(* The close event gives the one slot back.                                *)
LEMMA OneHelloClose ==
  ASSUME OneHelloInv, TypeOK', NEW c \in Conns, OnClose(c)
  PROVE  OneHelloInv'
<1>1. /\ ReleaseSlot(c) /\ release' = [release EXCEPT ![c] = NoSlot]
      /\ ws' = [ws EXCEPT ![c] = "closed"] /\ UNCHANGED helloed
  BY DEF OnClose, clientVars
<1>2. live' \subseteq live /\ (release[c] # NoSlot => release[c] \notin live')
  BY <1>1 DEF ReleaseSlot, Release, limiterVars
<1>3. helloed[c] <= 1 => OwnSlots(c)' = {}
  BY <1>2, ProxyAssumption DEF OneHelloInv, OwnSlots, TypeOK, LimiterTypeOK
<1>4. \A d \in Conns : OwnSlots(d)' \subseteq OwnSlots(d)
  BY <1>2 DEF OwnSlots
<1>5. \A d \in Conns : helloed[d] \in Nat
  BY ProxyAssumption DEF OneHelloInv, TypeOK
<1>6. ASSUME NEW d \in Conns
      PROVE  /\ helloed'[d] = 0 => OwnSlots(d)' = {}
             /\ helloed'[d] <= 1 => \A x \in OwnSlots(d)' : release'[d] = x
             /\ ws'[d] = "closed" /\ helloed'[d] <= 1 => OwnSlots(d)' = {}
  <2>1. CASE d = c
    BY <1>1, <1>3, <1>5, <2>1
  <2>2. CASE d # c
    <3>1. release'[d] = release[d] /\ ws'[d] = ws[d] /\ helloed'[d] = helloed[d]
      BY <1>1, <2>2 DEF OneHelloInv, TypeOK
    <3>2. ws[d] = "closed" /\ helloed[d] <= 1 => OwnSlots(d) = {}
      BY DEF OneHelloInv, OneHelloLeavesNoSlot, OwnSlots
    <3> QED
      BY <1>4, <3>1, <3>2 DEF OneHelloInv
  <2> QED
    BY <2>1, <2>2
<1>7. OneHelloLeavesNoSlot'
  BY <1>6 DEF OneHelloLeavesNoSlot, OwnSlots
<1> QED
  BY <1>6, <1>7 DEF OneHelloInv

(* Every step keeps the invariant of a single hello.                       *)
LEMMA OneHelloStep == ASSUME OneHelloInv, [Next]_vars PROVE OneHelloInv'
<1>0. TypeOK'
  BY TypeStep DEF OneHelloInv
<1>1. ASSUME NEW c \in Conns, NEW m \in Messages, ClientMessage(c, m)
      PROVE  OneHelloInv'
  BY <1>0, <1>1, OneHelloMessage
<1>2. ASSUME NEW c \in Conns, OnClose(c)
      PROVE  OneHelloInv'
  BY <1>0, <1>2, OneHelloClose
<1>3. ASSUME NEW c \in Conns, Upgrade(c)
      PROVE  OneHelloInv'
  BY <1>0, <1>3, OneHelloQuiet DEF Upgrade, OneHelloInv, TypeOK, clientVars
<1>4. ASSUME NEW c \in Conns, HelloTimeout(c)
      PROVE  OneHelloInv'
  BY <1>0, <1>4, OneHelloQuiet DEF HelloTimeout, CloseWs, Closing, OneHelloInv, TypeOK, clientVars
<1>5. ASSUME NEW a \in Calls, DnsAnswer(a) \/ BridgeTraffic(a) \/ MudEnds(a)
      PROVE  OneHelloInv'
  <2>1. UNCHANGED <<limiterVars, release, helloed>> /\ (UNCHANGED ws \/ CloseWs(a[1]))
    BY <1>5 DEF DnsAnswer, BridgeTraffic, MudEnds, clientVars
  <2>2. \A c \in Conns : ws'[c] = "closed" => ws[c] = "closed"
    BY <2>1 DEF CloseWs, Closing, OneHelloInv, TypeOK
  <2> QED
    BY <1>0, <2>1, <2>2, OneHelloQuiet
<1>6. CASE UNCHANGED vars
  BY <1>0, <1>6, OneHelloQuiet DEF vars, sessionVars, clientVars
<1> QED
  BY <1>1, <1>2, <1>3, <1>4, <1>5, <1>6 DEF Next, ClientCloses, CloseCompletes

(* A client that sent at most one hello leaves no slot behind, wherever    *)
(* its handler was suspended when the session closed.                      *)
THEOREM OneHelloIsGivenBack == Spec => []OneHelloLeavesNoSlot
<1>1. Init => OneHelloInv
  <2> SUFFICES ASSUME Init PROVE OneHelloInv
    OBVIOUS
  <2>1. TypeOK
    BY ProxyAssumption, LimitAssumption DEF Init, LimiterInit, TypeOK, LimiterTypeOK
  <2>2. live = {}
    BY DEF Init, LimiterInit
  <2> QED
    BY <2>1, <2>2 DEF OneHelloInv, OwnSlots, OneHelloLeavesNoSlot
<1>2. OneHelloInv => OneHelloLeavesNoSlot
  BY DEF OneHelloInv
<1> QED
  BY <1>1, <1>2, OneHelloStep, PTL DEF Spec

-----------------------------------------------------------------------------
(* The edge of the proxy, ProxyEdge: for every environment, every list of  *)
(* .env files, every client and every header a request may carry.          *)
Origins == {None, "ours", "local", "other"}
Creds   == {"none", "bearer", "cookie", "query", "hello"}

IsSession(c) ==
  /\ c = [client |-> c.client, by_hop |-> c.by_hop, wrote |-> c.wrote, addr |-> c.addr,
          source |-> c.source, origin |-> c.origin, cred |-> c.cred, pre |-> c.pre,
          dest |-> c.dest, ip |-> c.ip, src |-> c.src]
  /\ c.pre \in BOOLEAN /\ c.cred \in Creds
  /\ c.dest # None => c.ip \in Addresses

EdgeTypeOK == conn # None => IsSession(conn)

(* The proxy listens with what the environment says, if that is complete.  *)
ConfigInv ==
  /\ cfg \in {None, Exit} \/ (cfg = DefaultConfig(env) /\ AssertProdConfig(cfg))
  /\ conn # None => cfg \notin {None, Exit}

(* What a session was let in with.                                         *)
SessionInv ==
  conn # None /\ cfg.mode # "localhost-dev" =>
    /\ conn.origin \in cfg.origins
    /\ conn.pre => cfg.token # None /\ conn.cred \in {"bearer", "cookie", "hello"}

EdgeInv == EdgeTypeOK /\ ConfigInv /\ SessionInv /\ BridgeIsAllowed /\ CountedAsItself

-----------------------------------------------------------------------------
(* What the configuration is made of.                                      *)
LEMMA ConfigFacts ==
  ASSUME NEW e
  PROVE  LET c == DefaultConfig(e) IN
         /\ c.token = e["TOKEN"] /\ c.header = e["HEADER"]
         /\ c.site <=> e["SITE"] = "on"
         /\ c.relax <=> c.mode = "localhost-dev"
         /\ c.hops = IF e["HOP"] = None THEN {} ELSE {{Hop}}
         /\ c.mode # "localhost-dev" =>
              /\ c.origins = IF e["ORIGINS"] = None THEN {} ELSE {e["ORIGINS"]}
              /\ c.allow \subseteq ParseAllowlistEnv(e["ALLOW"])
                                   \cup IF e["SITE"] = "on" THEN {} ELSE {"rw"}
<1>1. DefaultConfig(e).token = e["TOKEN"] /\ DefaultConfig(e).header = e["HEADER"]
  BY DEF DefaultConfig
<1>2. DefaultConfig(e).site <=> e["SITE"] = "on"
  BY DEF DefaultConfig, EnvTruthy
<1>3. DefaultConfig(e).relax <=> DefaultConfig(e).mode = "localhost-dev"
  BY DEF DefaultConfig
<1>4. DefaultConfig(e).hops = IF e["HOP"] = None THEN {} ELSE {{Hop}}
  BY DEF DefaultConfig, ParseTrustedHops
<1>5. DefaultConfig(e).mode # "localhost-dev" => e["MODE"] \notin {None, "localhost-dev"}
  BY DEF DefaultConfig
<1>6. e["MODE"] \notin {None, "localhost-dev"} =>
        /\ DefaultConfig(e).origins = IF e["ORIGINS"] = None THEN {} ELSE {e["ORIGINS"]}
        /\ DefaultConfig(e).allow = IF e["SITE"] = "on" THEN ParseAllowlistEnv(e["ALLOW"])
                                    ELSE {"rw"} \cup ParseAllowlistEnv(e["ALLOW"])
  BY DEF DefaultConfig, EnvTruthy, MergeAllowlist
<1> QED
  BY <1>1, <1>2, <1>3, <1>4, <1>5, <1>6

(* Whom a request is counted as: the client that sent it, or the hop when  *)
(* no hop is trusted, unless the header believed is one the hop passed on. *)
LEMMA AddressIsClients ==
  ASSUME cfg = DefaultConfig(env),
         NEW client \in Clients, NEW by_hop \in BOOLEAN, NEW wrote \in SUBSET {"cf", "xri"},
         NEW peer \in Written(IF by_hop THEN Hop ELSE client),
         NEW headers \in Headers(client, wrote)
  PROVE  ~by_hop \/ HeaderSource(peer, headers) \in {None} \cup wrote =>
           ResolveEffectiveClientAddr(peer, headers)
             = IF by_hop /\ env["HOP"] = None THEN Hop ELSE client
<1> DEFINE source == HeaderSource(peer, headers)
<1>1. cfg.hops = IF env["HOP"] = None THEN {} ELSE {{Hop}}
  BY ConfigFacts
<1>2. NormalizeIp(peer) = IF by_hop THEN Hop ELSE client
  BY DEF Written, NormalizeIp
<1>3. client # Hop
  BY EdgeAssumption
<1>4. IsTrustedPeer(peer, cfg.hops) <=> by_hop /\ env["HOP"] # None
  BY <1>1, <1>2, <1>3 DEF IsTrustedPeer
<1>5. CASE ~(by_hop /\ env["HOP"] # None)
  BY <1>2, <1>4, <1>5 DEF ResolveEffectiveClientAddr, HeaderSource
<1>6. CASE by_hop /\ env["HOP"] # None /\ source \in wrote
  <2> HIDE DEF source
  <2>1. headers[source] \in Written(client)
    BY <1>6 DEF Headers
  <2>2. source # None
    BY <1>6, EdgeAssumption
  <2>3. headers[source] \in [host : Clients, mapped : BOOLEAN] /\ headers[source].host = client
    BY <2>1 DEF Written
  <2>4. headers[source] \notin {None, Junk}
    BY <2>3, EdgeAssumption
  <2> QED
    BY <1>6, <2>2, <2>3, <2>4 DEF source, ResolveEffectiveClientAddr, IsValidClientIp, NormalizeIp
<1>7. CASE by_hop /\ env["HOP"] # None /\ source = None
  BY <1>4, <1>7, EdgeAssumption DEF HeaderSource
<1> QED
  BY <1>5, <1>6, <1>7

(* A session that an upgrade made, and one whose first message was         *)
(* accepted.                                                               *)
LEMMA UpgradeStep ==
  ASSUME EdgeInv,
         NEW client \in Clients, NEW by_hop \in BOOLEAN, NEW wrote \in SUBSET {"cf", "xri"},
         NEW peer \in Written(IF by_hop THEN Hop ELSE client),
         NEW headers \in Headers(client, wrote), NEW origin \in Origins,
         NEW cred \in Creds \ {"hello"},
         OnUpgrade(client, by_hop, wrote, peer, headers, origin, cred)
  PROVE  EdgeInv'
<1> DEFINE addr == ResolveEffectiveClientAddr(peer, headers)
           source == HeaderSource(peer, headers)
           made == [client |-> client, by_hop |-> by_hop, wrote |-> wrote, addr |-> addr,
                    source |-> source, origin |-> origin, cred |-> cred,
                    pre |-> CheckAuth(cred), dest |-> None, ip |-> None, src |-> None]
<1>1. /\ Listening /\ env' = env /\ cfg' = cfg
      /\ conn' # None => conn' = made /\ CheckOrigin(origin)
  BY DEF OnUpgrade
<1>2. cfg = DefaultConfig(env) /\ cfg \notin {None, Exit} /\ AssertProdConfig(cfg)
  BY <1>1 DEF EdgeInv, ConfigInv, Listening
<1>3. ~by_hop \/ source \in {None} \cup wrote =>
        addr = IF by_hop /\ env["HOP"] = None THEN Hop ELSE client
  BY <1>2, AddressIsClients
<1>4. CheckAuth(cred) \in BOOLEAN
  BY DEF CheckAuth
<1> HIDE DEF addr, source
<1>5. CASE conn' = None
  BY <1>1, <1>2, <1>5 DEF EdgeInv, EdgeTypeOK, ConfigInv, SessionInv, BridgeIsAllowed, CountedAsItself
<1>6. CASE conn' = made /\ conn' # None
  <2>1. IsSession(made)
    BY <1>4 DEF IsSession
  <2>2. EdgeTypeOK' /\ ConfigInv'
    BY <1>1, <1>2, <1>6, <2>1 DEF EdgeTypeOK, ConfigInv
  <2>3. SessionInv'
    BY <1>1, <1>6 DEF SessionInv, CheckOrigin, CheckAuth
  <2>4. BridgeIsAllowed'
    BY <1>6 DEF BridgeIsAllowed
  <2>5. CountedAsItself'
    BY <1>1, <1>3, <1>6 DEF CountedAsItself
  <2> QED
    BY <2>2, <2>3, <2>4, <2>5 DEF EdgeInv
<1> QED
  BY <1>1, <1>5, <1>6

(* What the tests of policy.ts name is all of the private ranges but what  *)
(* NotOnList lists.                                                        *)
LEMMA PrivateIsBlocked ==
  ASSUME NEW ip \in IpAddrs, IsPrivate(ip), ~NotOnList(ip)
  PROVE  IsPrivateOrBlockedIp(ip)
<1> DEFINE o == ip.o
<1>1. CASE ip \in [form : {"dotted", "mapped", "hex"}, o : [1..4 -> 0..255]]
  <2>1. ip.form \in {"dotted", "mapped"} /\ o[1] \in 0..255 /\ o[2] \in 0..255
    BY <1>1 DEF NotOnList
  <2>2. o[1] \in {0, 127} => o \in {<<0, 0, 0, 0>>, <<127, 0, 0, 1>>}
    BY <2>1 DEF NotOnList
  <2>3. <<o[1], o[2]>> \in {<<192, 168>>, <<169, 254>>} =>
          (o[1] = 192 /\ o[2] = 168) \/ (o[1] = 169 /\ o[2] = 254)
    OBVIOUS
  <2>4. \/ o[1] \in {0, 10, 127}
        \/ o[1] = 100 /\ o[2] \in 64..127
        \/ o[1] = 172 /\ o[2] \in 16..31
        \/ <<o[1], o[2]>> \in {<<192, 168>>, <<169, 254>>}
    BY <2>1 DEF IsPrivate
  <2> HIDE DEF o
  <2>5. o \in {<<0, 0, 0, 0>>, <<127, 0, 0, 1>>} => o \in {<<127, 0, 0, 1>>, <<0, 0, 0, 0>>}
    OBVIOUS
  <2>6. IsPrivateText(o)
    BY <2>2, <2>3, <2>4, <2>5 DEF IsPrivateText
  <2> QED
    BY <2>1, <2>6 DEF o, IsPrivateOrBlockedIp
<1>2. CASE ip \in [form : {"v6"}, o : [1..3 -> 0..255]]
  <2>1. ip.form = "v6" /\ o[1] \in 0..255 /\ o[2] \in 0..255
    BY <1>2
  <2>2. o[1] = 254 => o[2] \notin 129..191
    BY <2>1 DEF NotOnList
  <2>3. \/ o \in {<<0, 0, 0>>, <<0, 0, 1>>} \/ o[1] \in {252, 253}
        \/ o[1] = 254 /\ o[2] \in 128..191
    BY <2>1 DEF IsPrivate
  <2> HIDE DEF o
  <2>4. o \in {<<0, 0, 0>>, <<0, 0, 1>>} \/ IsLocalText(o)
    BY <2>1, <2>2, <2>3 DEF IsLocalText
  <2> QED
    BY <2>1, <2>4 DEF o, IsPrivateOrBlockedIp
<1> QED
  BY <1>1, <1>2 DEF IpAddrs

(* A hello keeps the invariant of the edge.                                *)
LEMMA HelloStep ==
  ASSUME EdgeInv, NEW token \in {None, "right", "wrong"}, NEW d \in Destinations,
         Hello(token, d[1], d[2])
  PROVE  EdgeInv'
<1>1. conn # None /\ env' = env /\ cfg' = cfg
  BY DEF Hello
<1>2. cfg = DefaultConfig(env) /\ cfg \notin {None, Exit} /\ AssertProdConfig(cfg)
  BY <1>1 DEF EdgeInv, ConfigInv
<1>3. IsSession(conn)
  BY <1>1 DEF EdgeInv, EdgeTypeOK
<1>4. d[2] \in Addresses
  BY DEF Destinations, Dotted
<1>5. CASE conn' = None
  BY <1>1, <1>2, <1>5 DEF EdgeInv, EdgeTypeOK, ConfigInv, SessionInv, BridgeIsAllowed, CountedAsItself
<1>6. CASE conn' # None
  <2> DEFINE cred == IF token = "right" THEN "hello" ELSE conn.cred
             src  == FormatProxyV1Header(conn.addr, d[2])
  <2>1. /\ \/ conn.pre
           \/ token = "right" /\ cfg.token # None
           \/ cfg.mode = "localhost-dev" /\ cfg.token = None
        /\ AssertDestinationAllowed(d[1], d[2])
        /\ conn' = [conn EXCEPT !.dest = d[1], !.ip = d[2], !.cred = cred, !.src = src]
    BY <1>6 DEF Hello
  <2>2. src \in {"UNKNOWN", conn.addr}
    BY DEF FormatProxyV1Header
  <2>3. cred \in Creds
    BY <1>3 DEF IsSession, Creds
  <2> HIDE DEF cred, src
  <2>4. /\ IsSession(conn') /\ conn'.dest = d[1] /\ conn'.ip = d[2] /\ conn'.cred = cred
        /\ conn'.src = src /\ conn'.addr = conn.addr /\ conn'.client = conn.client
        /\ conn'.by_hop = conn.by_hop /\ conn'.wrote = conn.wrote /\ conn'.source = conn.source
        /\ conn'.origin = conn.origin /\ conn'.pre = conn.pre
    BY <1>3, <1>4, <2>1, <2>3 DEF IsSession
  <2>5. EdgeTypeOK' /\ ConfigInv'
    BY <1>1, <1>2, <2>4 DEF EdgeTypeOK, ConfigInv
  <2>6. cfg.mode # "localhost-dev" =>
          /\ cfg.token # None /\ cred \in {"bearer", "cookie", "hello"}
          /\ conn.origin \in cfg.origins
    BY <1>1, <2>1 DEF cred, EdgeInv, SessionInv
  <2>7. SessionInv'
    BY <1>1, <2>4, <2>6 DEF SessionInv
  <2>8. cfg.mode # "localhost-dev" =>
          /\ conn.origin \in {env["ORIGINS"]} \ {None}
          /\ d[1] \in ParseAllowlistEnv(env["ALLOW"])
                      \cup IF env["SITE"] = "on" THEN {} ELSE {"rw"}
    <3> SUFFICES ASSUME cfg.mode # "localhost-dev"
                 PROVE  /\ conn.origin \in {env["ORIGINS"]} \ {None}
                        /\ d[1] \in ParseAllowlistEnv(env["ALLOW"])
                                    \cup IF env["SITE"] = "on" THEN {} ELSE {"rw"}
      OBVIOUS
    <3>1. /\ cfg.origins = IF env["ORIGINS"] = None THEN {} ELSE {env["ORIGINS"]}
          /\ cfg.allow \subseteq ParseAllowlistEnv(env["ALLOW"])
                                  \cup IF env["SITE"] = "on" THEN {} ELSE {"rw"}
          /\ ~cfg.relax
      BY <1>2, ConfigFacts
    <3>2. d[1] \in cfg.allow
      BY <2>1, <3>1 DEF AssertDestinationAllowed
    <3> QED
      BY <2>6, <3>1, <3>2
  <2>9. IsPrivate(d[2]) /\ ~NotOnList(d[2]) =>
          d[1] = "lo" /\ (cfg.mode = "localhost-dev" \/ env["SITE"] = "on")
    <3> SUFFICES ASSUME IsPrivate(d[2]), ~NotOnList(d[2])
                 PROVE  d[1] = "lo" /\ (cfg.mode = "localhost-dev" \/ env["SITE"] = "on")
      OBVIOUS
    <3>1. d[2] \in IpAddrs
      BY <1>4, EdgeAssumption
    <3>2. IsPrivateOrBlockedIp(d[2])
      BY <3>1, PrivateIsBlocked
    <3>3. cfg.site <=> env["SITE"] = "on"
      BY <1>2, ConfigFacts
    <3> QED
      BY <2>1, <3>2, <3>3 DEF AssertDestinationAllowed
  <2>10. BridgeIsAllowed'
    BY <1>1, <2>4, <2>6, <2>8, <2>9 DEF BridgeIsAllowed
  <2>11. CountedAsItself'
    BY <1>1, <2>2, <2>4 DEF EdgeInv, CountedAsItself
  <2> QED
    BY <2>5, <2>7, <2>10, <2>11 DEF EdgeInv
<1> QED
  BY <1>5, <1>6

(* Every session the proxy has is one its configuration, and so its        *)
(* environment, lets in.                                                   *)
THEOREM EdgeInvariant == EdgeSpec => []EdgeInv
<1>1. EdgeInit => EdgeInv
  BY DEF EdgeInit, EdgeInv, EdgeTypeOK, ConfigInv, SessionInv, BridgeIsAllowed, CountedAsItself
<1>2. EdgeInv /\ [EdgeNext]_<<rate, edge>> => EdgeInv'
  <2> SUFFICES ASSUME EdgeInv, [EdgeNext]_<<rate, edge>> PROVE EdgeInv'
    OBVIOUS
  <2>1. CASE LoadFile
    <3>1. cfg = None /\ cfg' = cfg /\ conn' = conn /\ conn = None
      BY <2>1 DEF LoadFile, EdgeInv, ConfigInv
    <3> QED
      BY <3>1 DEF EdgeInv, EdgeTypeOK, ConfigInv, SessionInv, BridgeIsAllowed, CountedAsItself
  <2>2. CASE Listen
    <3>1. /\ conn' = conn /\ conn = None /\ env' = env
          /\ cfg' = Exit \/ (cfg' = DefaultConfig(env) /\ AssertProdConfig(cfg'))
      BY <2>2 DEF Listen, EdgeInv, ConfigInv
    <3> QED
      BY <3>1 DEF EdgeInv, EdgeTypeOK, ConfigInv, SessionInv, BridgeIsAllowed, CountedAsItself
  <2>3. CASE Close
    BY <2>3 DEF Close, EdgeInv, EdgeTypeOK, ConfigInv, SessionInv, BridgeIsAllowed, CountedAsItself
  <2>4. CASE UNCHANGED edge
    BY <2>4 DEF edge, EdgeInv, EdgeTypeOK, ConfigInv, SessionInv, BridgeIsAllowed, CountedAsItself,
       CheckAuth
  <2>5. CASE \E client \in Clients, by_hop \in BOOLEAN :
               \E peer \in Written(IF by_hop THEN Hop ELSE client),
                  wrote \in IF by_hop THEN SUBSET {"cf", "xri"} ELSE {{}} :
                 Listening /\ conn = None /\ \E headers \in Headers(client, wrote),
                    origin \in {None, "ours", "local", "other"},
                    cred \in {"none", "bearer", "cookie", "query"} :
                   OnUpgrade(client, by_hop, wrote, peer, headers, origin, cred)
    BY <2>5, UpgradeStep DEF Origins, Creds
  <2>6. CASE \E token \in {None, "right", "wrong"}, d \in Destinations : Hello(token, d[1], d[2])
    BY <2>6, HelloStep
  <2> QED
    BY <2>1, <2>2, <2>3, <2>4, <2>5, <2>6 DEF EdgeNext, Pass
<1> QED
  BY <1>1, <1>2, PTL DEF EdgeSpec

(* Only development opens a bridge for who did not show the token, comes   *)
(* from a page that is not listed or names a destination that is not, and  *)
(* only a listed MUD of this machine has an address of a private range, of *)
(* those policy.ts tests for.                                              *)
THEOREM BridgesAreAllowed == EdgeSpec => []BridgeIsAllowed
<1>1. EdgeInv => BridgeIsAllowed
  BY DEF EdgeInv
<1> QED
  BY <1>1, EdgeInvariant, PTL

(* A client is counted, and named to the MUD, as itself: directly whatever *)
(* headers it sends, and through any hop when the header that is believed  *)
(* is one the hop writes.                                                  *)
THEOREM ClientsAreCountedAsThemselves == EdgeSpec => []CountedAsItself
<1>1. EdgeInv => CountedAsItself
  BY DEF EdgeInv
<1> QED
  BY <1>1, EdgeInvariant, PTL


-----------------------------------------------------------------------------
(* Where the current window begins.                                        *)
Begin == resetAt - Period

RateTypes ==
  /\ now \in 0..MaxNow /\ count \in Nat /\ resetAt \in Nat
  /\ admitted \in [0..(MaxNow + 1) -> Nat]
  /\ resetAt = 0 \/ Begin \in 0..now

(* What was let through only grows, and nothing was since the last window  *)
(* was over, or after now.                                                 *)
GrowsInv ==
  /\ \A s, t \in 0..(MaxNow + 1) : s <= t => admitted[s] <= admitted[t]
  /\ \A t \in 0..(MaxNow + 1) :
       t > now \/ t >= resetAt => admitted[t] = admitted[now + 1]

(* The current window has let through one budget at most, and so had the   *)
(* Period before it.                                                       *)
WindowInv ==
  resetAt # 0 =>
    /\ admitted[now + 1] - admitted[Begin] <= count
    /\ admitted[now + 1] - admitted[Begin] <= Budget
    /\ \A s \in 0..(MaxNow + 1) :
         Begin - Period < s /\ s <= Begin => admitted[Begin] - admitted[s] <= Budget

RateInv == RateTypes /\ GrowsInv /\ WindowInv /\ TwiceAtMost

(* The bounds, as the proofs use them.                                     *)
LEMMA RateBounds ==
  MaxNow \in Nat /\ Period \in Nat /\ Period >= 1 /\ Budget \in Nat /\ Budget >= 1
BY RateAssumption

(* One budget before a moment and one after it are two.                    *)
LEMMA TwoBudgets ==
  ASSUME NEW x \in Nat, NEW y \in Nat, NEW z \in Nat, NEW n \in Nat, x - y <= n, y - z <= n
  PROVE  x - z <= 2 * n
OBVIOUS

(* The minutes that now, h, is in: what lies before the window that began  *)
(* at b and what lies in it are one budget each.                           *)
LEMMA MinutesOfNow ==
  ASSUME NEW h \in 0..MaxNow, NEW b \in 0..h, NEW a \in [0..(MaxNow + 1) -> Nat],
         \A s, t \in 0..(MaxNow + 1) : s <= t => a[s] <= a[t],
         \A t \in 0..(MaxNow + 1) : t > h => a[t] = a[h + 1],
         a[h + 1] - a[b] <= Budget,
         \A s \in 0..(MaxNow + 1) :
            b - Period < s /\ s <= b => a[b] - a[s] <= Budget,
         NEW t \in 0..(MaxNow + 1 - Period), t <= h, h < t + Period
  PROVE  a[t + Period] - a[t] <= 2 * Budget
<1> USE RateBounds
<1>1. /\ t \in 0..(MaxNow + 1) /\ t + Period \in 0..(MaxNow + 1)
      /\ b \in 0..(MaxNow + 1) /\ h + 1 \in 0..(MaxNow + 1)
  OBVIOUS
<1>2. a[t] \in Nat /\ a[t + Period] \in Nat /\ a[h + 1] \in Nat /\ a[b] \in Nat
  BY <1>1
<1>3. a[t + Period] = a[h + 1]
  BY <1>1
<1>4. CASE t >= b
  <2>1. a[b] <= a[t]
    BY <1>1, <1>4
  <2> QED
    BY <1>2, <1>3, <2>1
<1>5. CASE t < b
  <2>1. b - Period < t /\ t <= b
    BY <1>5
  <2>2. a[b] - a[t] <= Budget
    BY <1>1, <2>1
  <2>3. a[h + 1] - a[b] <= Budget /\ Budget \in Nat
    OBVIOUS
  <2> QED
    BY ONLY <1>2, <1>3, <2>2, <2>3, TwoBudgets
<1> QED
  BY <1>4, <1>5

(* Letting n through raises what was let through before instants to come,  *)
(* and leaves the minutes that are over as they were.                      *)
LEMMA LetThroughFacts ==
  ASSUME RateTypes, GrowsInv, TwiceAtMost, NEW n \in Nat, LetThrough(n), now' = now
  PROVE  /\ admitted' \in [0..(MaxNow + 1) -> Nat]
         /\ \A t \in 0..(MaxNow + 1) :
              admitted'[t] = IF t > now THEN admitted[t] + n ELSE admitted[t]
         /\ \A s, t \in 0..(MaxNow + 1) : s <= t => admitted'[s] <= admitted'[t]
         /\ \A t \in 0..(MaxNow + 1 - Period) :
              ~(t <= now /\ now < t + Period) =>
                 admitted'[t + Period] - admitted'[t] <= 2 * Budget
<1> USE RateBounds
<1>1. \A t \in 0..(MaxNow + 1) :
        admitted'[t] = IF t > now THEN admitted[t] + n ELSE admitted[t]
  BY DEF LetThrough
<1>2. \A t \in 0..(MaxNow + 1) : admitted[t] \in Nat /\ t \in Nat
  BY DEF RateTypes
<1>3. now \in 0..MaxNow
  BY DEF RateTypes
<1>4. admitted' \in [0..(MaxNow + 1) -> Nat]
  BY <1>2 DEF LetThrough
<1>5. ASSUME NEW s \in 0..(MaxNow + 1), NEW t \in 0..(MaxNow + 1), s <= t
      PROVE  admitted'[s] <= admitted'[t]
  <2>1. admitted[s] <= admitted[t]
    BY <1>5 DEF GrowsInv
  <2> QED
    BY <1>1, <1>2, <1>3, <1>5, <2>1
<1>6. ASSUME NEW t \in 0..(MaxNow + 1 - Period), ~(t <= now /\ now < t + Period)
      PROVE  admitted'[t + Period] - admitted'[t] <= 2 * Budget
  <2>1. t \in 0..(MaxNow + 1) /\ t + Period \in 0..(MaxNow + 1)
    OBVIOUS
  <2>2. admitted[t + Period] - admitted[t] <= 2 * Budget
    <3>1. t + Period - 1 + 1 = t + Period
      OBVIOUS
    <3> QED
      BY <3>1 DEF TwiceAtMost, Passed
  <2> QED
    BY <1>1, <1>2, <1>3, <1>6, <2>1, <2>2
<1> QED
  BY <1>1, <1>4, <1>5, <1>6


(* A hit that begins a window: the last one let through one budget at most *)
(* in all, so that the Period before now did.                              *)
LEMMA FirstHit ==
  ASSUME RateInv, NEW n \in Nat, n # 0, HitWindow(n), Over
  PROVE  RateTypes' /\ GrowsInv' /\ WindowInv'
<1> USE RateBounds
<1>1. /\ count' = n /\ resetAt' = now + Period /\ now' = now
      /\ IF n <= Budget THEN LetThrough(n) ELSE admitted' = admitted
  BY DEF HitWindow, Over, ResetAfter, Within
<1>2. /\ RateTypes /\ GrowsInv /\ WindowInv /\ TwiceAtMost
      /\ now \in 0..MaxNow /\ now \in Nat /\ now + 1 \in 0..(MaxNow + 1)
      /\ now \in 0..(MaxNow + 1) /\ Begin' = now /\ resetAt' # 0 /\ resetAt' \in Nat
  BY <1>1 DEF RateInv, RateTypes, Begin
<1>3. /\ admitted' \in [0..(MaxNow + 1) -> Nat]
      /\ \A t \in 0..(MaxNow + 1) :
           admitted'[t] = IF t > now /\ n <= Budget THEN admitted[t] + n ELSE admitted[t]
      /\ \A s, t \in 0..(MaxNow + 1) : s <= t => admitted'[s] <= admitted'[t]
  <2>1. CASE n <= Budget
    BY <1>1, <1>2, <2>1, LetThroughFacts
  <2>2. CASE ~(n <= Budget)
    BY <1>1, <1>2, <2>2 DEF RateTypes, GrowsInv
  <2> QED
    BY <2>1, <2>2
<1>4. \A t \in 0..(MaxNow + 1) : t \in Nat /\ admitted[t] \in Nat
  BY <1>2 DEF RateTypes
<1>5. admitted[now] = admitted[now + 1]
  BY <1>2 DEF GrowsInv, Over
<1>6. RateTypes'
  BY <1>1, <1>2, <1>3 DEF RateTypes
<1>7. GrowsInv'
  <2> SUFFICES ASSUME NEW t \in 0..(MaxNow + 1), t > now \/ t >= now + Period
               PROVE  admitted'[t] = admitted'[now + 1]
    BY <1>1, <1>3 DEF GrowsInv
  <2>1. t > now
    BY <1>2, <1>4
  <2>2. admitted[t] = admitted[now + 1]
    BY <1>2, <2>1 DEF GrowsInv
  <2> QED
    BY <1>2, <1>3, <2>1, <2>2
<1>8. ASSUME NEW s \in 0..(MaxNow + 1), now - Period < s, s <= now
      PROVE  admitted'[now] - admitted'[s] <= Budget
  <2>1. admitted'[now] = admitted[now] /\ admitted'[s] = admitted[s]
    BY <1>2, <1>3, <1>4, <1>8
  <2>2. CASE resetAt = 0
    <3>1. admitted[s] = admitted[now + 1]
      BY <1>2, <1>4, <2>2 DEF GrowsInv
    <3> QED
      BY <1>2, <1>4, <1>5, <2>1, <3>1
  <2>3. CASE resetAt # 0
    <3>1. Begin \in 0..now /\ Begin <= s /\ Begin \in 0..(MaxNow + 1)
      BY <1>2, <1>8, <2>3 DEF RateTypes, Begin, Over
    <3>2. admitted[Begin] <= admitted[s]
      BY <1>2, <3>1 DEF GrowsInv
    <3>3. admitted[now + 1] - admitted[Begin] <= Budget
      BY <1>2, <2>3 DEF WindowInv
    <3> QED
      BY <1>2, <1>4, <1>5, <2>1, <3>1, <3>2, <3>3
  <2> QED
    BY <2>2, <2>3
<1>9. admitted'[now + 1] - admitted'[now] <= n /\ admitted'[now + 1] - admitted'[now] <= Budget
  BY SMTT(30), <1>2, <1>3, <1>4, <1>5
<1>10. WindowInv'
  BY <1>1, <1>2, <1>8, <1>9 DEF WindowInv
<1> QED
  BY <1>6, <1>7, <1>10

(* A hit within the window: what it lets through is in the budget.         *)
LEMMA LaterHit ==
  ASSUME RateInv, NEW n \in Nat, n # 0, HitWindow(n), ~Over
  PROVE  RateTypes' /\ GrowsInv' /\ WindowInv'
<1> USE RateBounds
<1>1. /\ count' = count + n /\ resetAt' = resetAt /\ now' = now
      /\ IF count + n <= Budget THEN LetThrough(n) ELSE admitted' = admitted
  BY DEF HitWindow, ResetAfter, Within
<1>2. /\ RateTypes /\ GrowsInv /\ WindowInv /\ TwiceAtMost
      /\ now \in 0..MaxNow /\ now \in Nat /\ now + 1 \in 0..(MaxNow + 1)
      /\ count \in Nat /\ resetAt \in Nat /\ now < resetAt /\ Begin' = Begin
  BY <1>1 DEF RateInv, RateTypes, Begin, Over
<1>3. /\ admitted' \in [0..(MaxNow + 1) -> Nat]
      /\ \A t \in 0..(MaxNow + 1) :
           admitted'[t] = IF t > now /\ count + n <= Budget
                          THEN admitted[t] + n ELSE admitted[t]
      /\ \A s, t \in 0..(MaxNow + 1) : s <= t => admitted'[s] <= admitted'[t]
  <2>1. CASE count + n <= Budget
    BY <1>1, <1>2, <2>1, LetThroughFacts
  <2>2. CASE ~(count + n <= Budget)
    BY <1>1, <1>2, <2>2 DEF RateTypes, GrowsInv
  <2> QED
    BY <2>1, <2>2
<1>4. \A t \in 0..(MaxNow + 1) : t \in Nat /\ admitted[t] \in Nat
  BY <1>2 DEF RateTypes
<1>5. Begin \in 0..now /\ Begin \in 0..(MaxNow + 1)
  BY <1>2 DEF RateTypes
<1>6. RateTypes'
  BY <1>1, <1>2, <1>3, <1>5 DEF RateTypes
<1>7. GrowsInv'
  <2> SUFFICES ASSUME NEW t \in 0..(MaxNow + 1), t > now \/ t >= resetAt
               PROVE  admitted'[t] = admitted'[now + 1]
    BY <1>1, <1>3 DEF GrowsInv
  <2>1. t > now
    BY <1>2, <1>4
  <2>2. admitted[t] = admitted[now + 1]
    BY <1>2, <2>1 DEF GrowsInv
  <2> QED
    BY <1>2, <1>3, <2>1, <2>2
<1>8. /\ admitted[now + 1] - admitted[Begin] <= count
      /\ admitted[now + 1] - admitted[Begin] <= Budget
  BY <1>2 DEF WindowInv
<1>9. \A s \in 0..(MaxNow + 1) : s <= Begin => admitted'[s] = admitted[s]
  BY <1>2, <1>3, <1>4, <1>5
<1>10. admitted'[Begin] = admitted[Begin]
  BY <1>5, <1>9
<1>11. /\ admitted'[now + 1] - admitted'[Begin] <= count + n
       /\ admitted'[now + 1] - admitted'[Begin] <= Budget
  <2>1. CASE count + n <= Budget
    <3>1. admitted'[now + 1] = admitted[now + 1] + n
      BY <1>2, <1>3, <2>1
    <3> QED
      BY <1>2, <1>4, <1>5, <1>8, <1>10, <2>1, <3>1
  <2>2. CASE ~(count + n <= Budget)
    <3>1. admitted'[now + 1] = admitted[now + 1]
      BY <1>2, <1>3, <2>2
    <3> QED
      BY <1>2, <1>4, <1>5, <1>8, <1>10, <3>1
  <2> QED
    BY <2>1, <2>2
<1>12. ASSUME NEW s \in 0..(MaxNow + 1), Begin - Period < s, s <= Begin
       PROVE  admitted'[Begin] - admitted'[s] <= Budget
  BY <1>2, <1>9, <1>10, <1>12 DEF WindowInv
<1>13. WindowInv'
  BY <1>1, <1>2, <1>11, <1>12 DEF WindowInv
<1> QED
  BY <1>6, <1>7, <1>13

(* hitWindow and hitBytes, whatever one hit counts.                        *)
LEMMA HitStep ==
  ASSUME RateInv, NEW n \in Nat, HitWindow(n)
  PROVE  RateInv'
<1> USE RateBounds
<1>1. CASE n = 0
  BY <1>1 DEF HitWindow, RateInv, RateTypes, GrowsInv, WindowInv, Begin, TwiceAtMost, Passed
<1>2. CASE n # 0
  <2>1. RateTypes' /\ GrowsInv' /\ WindowInv'
    BY <1>2, FirstHit, LaterHit
  <2>2. now' = now /\ (LetThrough(n) \/ admitted' = admitted)
    BY <1>2 DEF HitWindow
  <2>3. TwiceAtMost'
    <3> SUFFICES ASSUME NEW t \in 0..(MaxNow + 1 - Period)
                 PROVE  admitted'[t + Period] - admitted'[t] <= 2 * Budget
      <4>1. \A t \in 0..(MaxNow + 1 - Period) : t + Period - 1 + 1 = t + Period
        OBVIOUS
      <4> QED
        BY <4>1 DEF TwiceAtMost, Passed
    <3>1. CASE t <= now /\ now < t + Period
      <4>1. resetAt' # 0
        BY <1>2 DEF HitWindow, ResetAfter, Over, RateInv, RateTypes
      <4>2. /\ now' \in 0..MaxNow /\ Begin' \in 0..now'
            /\ admitted' \in [0..(MaxNow + 1) -> Nat]
        BY <2>1, <4>1 DEF RateTypes
      <4>3. /\ \A s, u \in 0..(MaxNow + 1) : s <= u => admitted'[s] <= admitted'[u]
            /\ \A u \in 0..(MaxNow + 1) : u > now' => admitted'[u] = admitted'[now' + 1]
        BY <2>1 DEF GrowsInv
      <4>4. /\ admitted'[now' + 1] - admitted'[Begin'] <= Budget
            /\ \A s \in 0..(MaxNow + 1) :
                 Begin' - Period < s /\ s <= Begin'
                   => admitted'[Begin'] - admitted'[s] <= Budget
        BY <2>1, <4>1 DEF WindowInv
      <4>5. t <= now' /\ now' < t + Period
        BY <2>2, <3>1
      <4> QED
        BY ONLY <4>2, <4>3, <4>4, <4>5, t \in 0..(MaxNow + 1 - Period), MinutesOfNow
    <3>2. CASE ~(t <= now /\ now < t + Period)
      <4>1. CASE LetThrough(n)
        BY <2>2, <3>2, <4>1, LetThroughFacts DEF RateInv
      <4>2. CASE admitted' = admitted
        <5>1. t + Period - 1 + 1 = t + Period
          OBVIOUS
        <5> QED
          BY <4>2, <5>1 DEF RateInv, TwiceAtMost, Passed
      <4> QED
        BY <2>2, <4>1, <4>2
    <3> QED
      BY <3>1, <3>2
  <2> QED
    BY <2>1, <2>3 DEF RateInv
<1> QED
  BY <1>1, <1>2

(* The clock goes on.                                                      *)
LEMMA TickStep ==
  ASSUME RateInv, Tick
  PROVE  RateInv'
<1> USE RateBounds
<1>1. /\ now \in 0..MaxNow /\ now < MaxNow /\ now' = now + 1
      /\ count' = count /\ resetAt' = resetAt /\ admitted' = admitted /\ Begin' = Begin
      /\ resetAt \in Nat /\ RateTypes /\ GrowsInv /\ WindowInv /\ TwiceAtMost
  BY DEF Tick, RateInv, RateTypes, Begin
<1>2. now + 2 \in 0..(MaxNow + 1) /\ now + 2 > now /\ now + 1 + 1 = now + 2
  BY <1>1
<1>3. admitted[now + 2] = admitted[now + 1]
  BY <1>1, <1>2 DEF GrowsInv
<1>4. RateTypes'
  BY <1>1 DEF RateTypes
<1>5. GrowsInv'
  <2> SUFFICES ASSUME NEW t \in 0..(MaxNow + 1), t > now + 1 \/ t >= resetAt
               PROVE  admitted[t] = admitted[now + 2]
    BY <1>1, <1>2 DEF GrowsInv
  <2>1. t > now \/ t >= resetAt
    BY <1>1
  <2> QED
    BY <1>1, <1>3, <2>1 DEF GrowsInv
<1>6. WindowInv'
  BY <1>1, <1>2, <1>3 DEF WindowInv
<1>7. TwiceAtMost'
  BY <1>1 DEF TwiceAtMost, Passed
<1> QED
  BY <1>4, <1>5, <1>6, <1>7 DEF RateInv

(* The inductive invariant of the window of one key.                       *)
THEOREM RateInvariant == EdgeSpec => []RateInv
<1>1. EdgeInit => RateInv
  <2> SUFFICES ASSUME EdgeInit PROVE RateInv
    OBVIOUS
  <2> USE RateBounds
  <2>1. /\ now = 0 /\ count = 0 /\ resetAt = 0
        /\ admitted = [t \in 0..(MaxNow + 1) |-> 0]
    BY DEF EdgeInit, RateInit
  <2>2. RateTypes
    BY <2>1 DEF RateTypes
  <2>3. GrowsInv /\ WindowInv
    BY <2>1 DEF GrowsInv, WindowInv
  <2>4. TwiceAtMost
    <3> SUFFICES ASSUME NEW t \in 0..(MaxNow + 1 - Period)
                 PROVE  admitted[t + Period - 1 + 1] - admitted[t] <= 2 * Budget
      BY DEF TwiceAtMost, Passed
    <3>1. t + Period - 1 + 1 \in 0..(MaxNow + 1) /\ t \in 0..(MaxNow + 1)
      OBVIOUS
    <3> QED
      BY <2>1, <3>1
  <2> QED
    BY <2>2, <2>3, <2>4 DEF RateInv
<1>2. RateInv /\ [EdgeNext]_<<rate, edge>> => RateInv'
  <2> SUFFICES ASSUME RateInv, [EdgeNext]_<<rate, edge>> PROVE RateInv'
    OBVIOUS
  <2>1. ASSUME NEW client \in Clients, NEW by_hop \in BOOLEAN,
               NEW peer \in Written(IF by_hop THEN Hop ELSE client),
               NEW wrote, NEW headers, NEW origin, NEW cred,
               OnUpgrade(client, by_hop, wrote, peer, headers, origin, cred)
        PROVE  RateInv' \/ UNCHANGED rate
    <3>1. CASE NormalizeIp(peer) = watched
      BY <2>1, <3>1, HitStep DEF OnUpgrade
    <3>2. CASE NormalizeIp(peer) # watched
      BY <2>1, <3>2 DEF OnUpgrade, NormalizeIp, rate
    <3> QED
      BY <3>1, <3>2
  <2>2. ASSUME NEW token, NEW dest, NEW ip, Hello(token, dest, ip)
        PROVE  UNCHANGED rate
    BY <2>2 DEF Hello
  <2>3. CASE UNCHANGED rate
    BY <2>3
    DEF rate, RateInv, RateTypes, GrowsInv, WindowInv, Begin, TwiceAtMost, Passed
  <2>4. ASSUME Pass PROVE RateInv'
    BY <2>4, TickStep DEF Pass
  <2>5. ASSUME Close PROVE UNCHANGED rate
    BY <2>5 DEF Close
  <2> QED
    BY <2>1, <2>2, <2>3, <2>4, <2>5 DEF EdgeNext
<1> QED
  BY <1>1, <1>2, PTL DEF EdgeSpec

(* Fixed windows let no minute have more than twice the budget, wherever   *)
(* it is laid on the time axis and whenever the windows begin (limits.ts   *)
(* hitWindow).                                                             *)
THEOREM MinutesAreBounded == EdgeSpec => []TwiceAtMost
<1>1. RateInv => TwiceAtMost
  BY DEF RateInv
<1> QED
  BY <1>1, RateInvariant, PTL
=============================================================================

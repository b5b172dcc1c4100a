---------------------------- MODULE ProxySession ----------------------------
(***************************************************************************)
(* apps/proxy/src/server.ts, createProxyServer: the life of a WebSocket    *)
(* session from its HTTP upgrade to the bridge and to its close, for       *)
(* several sessions that share one AbuseLimiter.                           *)
(*                                                                         *)
(* The handler of a client message is asynchronous: it runs up to the DNS  *)
(* lookup of assertDestinationAllowed, suspends, and goes on when the      *)
(* answer is there.  ClientMessage is the part before the await and        *)
(* DnsAnswer the part after it; every other event of the session may come  *)
(* in between.  A run of the handler is a call <<c, k>>: the k-th message  *)
(* of session c.                                                           *)
(*                                                                         *)
(* The bridge a call opens (bridge.ts, module Bridge) is here its upstream *)
(* TCP socket: dialled, and gone once either side ended it.                *)
(***************************************************************************)
EXTENDS AbuseLimiter

CONSTANTS
  Conns,         (* upgrade requests                                       *)
  Peers,         (* transport peers (the socket's remote address)          *)
  PeerOf,        (* transport peer of each request                         *)
  AddrOf,        (* effective client address of each request               *)
  AuthRequired,  (* FALSE only for localhost-dev without an authToken      *)
  MaxUpgrades,   (* cfg.upgradesPerIpPerMin                                *)
  MaxHellos,     (* cfg.hellosPerConnPerMin                                *)
  InBudget,      (* inboundBudget, in messages                             *)
  OutBudget,     (* outboundBudget, in messages                            *)
  MaxMsgs,       (* bound: messages a client sends before its bridge       *)
  MaxClientHellos, (* bound: hellos among them (the web client sends one)  *)
  NoSlot         (* release = null                                         *)

Calls == Conns \X (1..MaxMsgs)

ASSUME ProxyAssumption ==
  /\ PeerOf \in [Conns -> Peers]
  /\ AddrOf \in [Conns -> Ips]
  /\ AuthRequired \in BOOLEAN
  /\ {MaxUpgrades, MaxHellos, InBudget, OutBudget, MaxMsgs, MaxClientHellos}
       \subseteq Nat \ {0}
  /\ Ids = Calls
  /\ NoSlot \notin Slots

VARIABLES
  upgrades,      (* upgrade window of each transport peer                  *)
  hellos,        (* hello window of each session                           *)
  inBytes,       (* inbound window of each session                         *)
  outBytes,      (* outbound window of each session                        *)
  ws,            (* the WebSocket's readyState; none before the upgrade    *)
  preAuth,       (* checkAuth accepted the upgrade request itself          *)
  timer,         (* the hello timer is armed                               *)
  release,       (* the session's release closure                          *)
  bridged,       (* onClientMessage has handed over to a bridge            *)
  sent,          (* messages received before the handover                  *)
  helloed,       (* hellos among them                                      *)
  call,          (* where each call of the handler stands                  *)
  mud            (* the upstream socket each call dialled                  *)

sessionVars == <<ws, preAuth, timer, release, bridged>>
windowVars  == <<upgrades, hellos, inBytes, outBytes>>
clientVars  == <<sent, helloed>>
vars == <<limiterVars, sessionVars, windowVars, clientVars, call, mud>>

(* A client message as far as the handler tells messages apart: a hello    *)
(* with or without the configured token, a well-formed message of another  *)
(* type (the web client's naws), or one JSON.parse rejects.                *)
Messages == [kind : {"hello", "other", "garbage"}, token : BOOLEAN]

TypeOK ==
  /\ LimiterTypeOK
  /\ upgrades \in [Peers -> Nat]
  /\ hellos \in [Conns -> Nat]
  /\ inBytes \in [Conns -> Nat]
  /\ outBytes \in [Conns -> Nat]
  /\ ws \in [Conns -> {"none", "refused", "open", "closing", "closed"}]
  /\ preAuth \in [Conns -> BOOLEAN]
  /\ timer \in [Conns -> BOOLEAN]
  /\ release \in [Conns -> Slots \cup {NoSlot}]
  /\ bridged \in [Conns -> BOOLEAN]
  /\ sent \in [Conns -> 0..MaxMsgs]
  /\ helloed \in [Conns -> 0..MaxClientHellos]
  /\ call \in [Calls -> {"none", "resolving", "done"}]
  /\ mud \in [Calls -> {"none", "dialled", "gone"}]

Init ==
  /\ LimiterInit
  /\ upgrades = [p \in Peers |-> 0]
  /\ hellos = [c \in Conns |-> 0]
  /\ inBytes = [c \in Conns |-> 0]
  /\ outBytes = [c \in Conns |-> 0]
  /\ ws = [c \in Conns |-> "none"]
  /\ preAuth = [c \in Conns |-> FALSE]
  /\ timer = [c \in Conns |-> FALSE]
  /\ release = [c \in Conns |-> NoSlot]
  /\ bridged = [c \in Conns |-> FALSE]
  /\ sent = [c \in Conns |-> 0]
  /\ helloed = [c \in Conns |-> 0]
  /\ call = [a \in Calls |-> "none"]
  /\ mud = [a \in Calls |-> "none"]

-----------------------------------------------------------------------------
(* ws.close on a socket that is not open does nothing.                     *)
Closing(state) == IF state = "open" THEN "closing" ELSE state

CloseWs(c) == ws' = [ws EXCEPT ![c] = Closing(@)]

(* The bridges whose own 'close' listener sits on session c: they were     *)
(* opened before c's close event.                                          *)
BridgesOf(c) == {a \in Calls : a[1] = c /\ mud[a] = "dialled"}

(* The "upgrade" listener.  The path is looked at first, then the peer's   *)
(* upgrade window, then the origin and the client address.                 *)
Upgrade(c) ==
  /\ ws[c] = "none"
  /\ UNCHANGED <<limiterVars, hellos, inBytes, outBytes, release, bridged,
                 clientVars, call, mud>>
  /\ \/ (* not /ws *)
        /\ ws' = [ws EXCEPT ![c] = "refused"]
        /\ UNCHANGED <<upgrades, preAuth, timer>>
     \/ \E expired \in BOOLEAN :
          LET n == Hit(upgrades[PeerOf[c]], expired, 1) IN
          /\ upgrades' = [upgrades EXCEPT ![PeerOf[c]] = n]
          /\ \/ (* over the limit, or a bad origin, or no client address *)
                /\ ws' = [ws EXCEPT ![c] = "refused"]
                /\ UNCHANGED <<preAuth, timer>>
             \/ /\ n <= MaxUpgrades
                /\ ws' = [ws EXCEPT ![c] = "open"]
                /\ timer' = [timer EXCEPT ![c] = TRUE]
                /\ \E ok \in BOOLEAN :
                     /\ ~AuthRequired => ok
                     /\ preAuth' = [preAuth EXCEPT ![c] = ok]

(* checkAuth on the request, or the token of the hello itself; without an  *)
(* authToken there is nothing a hello's token could equal.                 *)
Authed(c, m) == preAuth[c] \/ (AuthRequired /\ m.token)

TokenKey(c, m) ==
  IF AuthRequired /\ m.token THEN "tok"
  ELSE IF preAuth[c] THEN "pre" ELSE "anon"

SlotFor(c, m) ==
  [id |-> <<c, sent[c] + 1>>, ip |-> AddrOf[c], tok |-> TokenKey(c, m)]

(* An authorised hello: release is what tryAcquire returns, closure or     *)
(* null, whatever it was before; with a closure the lookup starts.         *)
Admit(c, m) ==
  LET s == SlotFor(c, m) IN
  \/ /\ TryAcquire(s)
     /\ release' = [release EXCEPT ![c] = s]
     /\ call' = [call EXCEPT ![s.id] = "resolving"]
     /\ UNCHANGED ws
  \/ /\ ~HasRoom(s.ip, s.tok)
     /\ release' = [release EXCEPT ![c] = NoSlot]
     /\ CloseWs(c)
     /\ UNCHANGED <<limiterVars, call>>

(* Fault: the handler returns without closing.                             *)
RejectSilently(c) == UNCHANGED <<ws, limiterVars, release, call>>

(* Every early return of the handler closes the WebSocket.                 *)
Reject(c) ==
  /\ CloseWs(c)
  /\ UNCHANGED <<limiterVars, release, call>>

(* The part of the handler past its two rate limits.                       *)
FirstMessage(c, m) ==
  /\ timer' = [timer EXCEPT ![c] = FALSE]
  /\ IF m.kind = "hello" /\ Authed(c, m) THEN Admit(c, m) ELSE Reject(c)

(* onClientMessage up to its await.  It still runs on a session that has   *)
(* been told to close, until the close event.                              *)
ClientMessage(c, m) ==
  /\ ws[c] \in {"open", "closing"}
  /\ ~bridged[c]
  /\ sent[c] < MaxMsgs
  /\ m.kind = "hello" => helloed[c] < MaxClientHellos
  /\ sent' = [sent EXCEPT ![c] = @ + 1]
  /\ helloed' = IF m.kind = "hello" THEN [helloed EXCEPT ![c] = @ + 1]
                ELSE helloed
  /\ UNCHANGED <<upgrades, outBytes, preAuth, bridged, mud>>
  /\ \E inExpired, helloExpired \in BOOLEAN :
       LET n == Hit(inBytes[c], inExpired, 1)
           h == Hit(hellos[c], helloExpired, 1)
       IN
       /\ inBytes' = [inBytes EXCEPT ![c] = n]
       /\ \/ /\ n > InBudget
             /\ Reject(c)
             /\ UNCHANGED <<hellos, timer>>
          \/ /\ n <= InBudget
             /\ hellos' = [hellos EXCEPT ![c] = h]
             /\ IF h <= MaxHellos THEN FirstMessage(c, m)
                ELSE Reject(c) /\ UNCHANGED timer

(* The handler after its await.  Nothing of the session is read again: a   *)
(* destination that is allowed is dialled whatever has happened since.     *)
DnsAnswer(a) ==
  LET c == a[1] IN
  /\ call[a] = "resolving"
  /\ call' = [call EXCEPT ![a] = "done"]
  /\ UNCHANGED <<limiterVars, upgrades, hellos, inBytes, preAuth, timer,
                 release, clientVars>>
  /\ \/ (* the destination is denied, or the handler throws *)
        /\ CloseWs(c)
        /\ UNCHANGED <<outBytes, bridged, mud>>
     \/ \E expired \in BOOLEAN :
          LET n == Hit(outBytes[c], expired, 1) IN
          /\ bridged' = [bridged EXCEPT ![c] = TRUE]
          /\ outBytes' = [outBytes EXCEPT ![c] = n]
          /\ IF n <= OutBudget
             THEN mud' = [mud EXCEPT ![a] = "dialled"] /\ UNCHANGED ws
             ELSE CloseWs(c) /\ UNCHANGED mud

(* The hello timer fires.                                                  *)
HelloTimeout(c) ==
  /\ timer[c]
  /\ timer' = [timer EXCEPT ![c] = FALSE]
  /\ CloseWs(c)
  /\ UNCHANGED <<limiterVars, preAuth, release, bridged, windowVars,
                 clientVars, call, mud>>

(* Fault: only a session that was bridged gives its slot back.             *)
ReleaseIfBridged(c) ==
  IF release[c] = NoSlot \/ ~bridged[c] THEN UNCHANGED limiterVars
  ELSE Release(release[c])

(* release?.()                                                             *)
ReleaseSlot(c) ==
  IF release[c] = NoSlot THEN UNCHANGED limiterVars ELSE Release(release[c])

(* The WebSocket's close event: the session's own listener, then those of  *)
(* its bridges.                                                            *)
OnClose(c) ==
  /\ ws' = [ws EXCEPT ![c] = "closed"]
  /\ ReleaseSlot(c)
  /\ release' = [release EXCEPT ![c] = NoSlot]
  /\ inBytes' = [inBytes EXCEPT ![c] = 0]
  /\ outBytes' = [outBytes EXCEPT ![c] = 0]
  /\ mud' = [a \in Calls |-> IF a \in BridgesOf(c) THEN "gone" ELSE mud[a]]
  /\ UNCHANGED <<upgrades, hellos, preAuth, timer, bridged, clientVars, call>>

(* The client goes away.                                                   *)
ClientCloses(c) == ws[c] = "open" /\ OnClose(c)

(* The close handshake of a ws.close completes, or times out in ws.        *)
CloseCompletes(c) == ws[c] = "closing" /\ OnClose(c)

(* A message of the client or of the MUD on a bridged session: the window  *)
(* is hit, and a bridge that finds it over the budget destroys itself.     *)
BridgeTraffic(a) ==
  LET c == a[1] IN
  /\ mud[a] = "dialled"
  /\ \E expired \in BOOLEAN, inbound \in BOOLEAN :
       /\ ws[c] \in (IF inbound THEN {"open", "closing"} ELSE {"open"})
       /\ LET n == Hit(IF inbound THEN inBytes[c] ELSE outBytes[c], expired, 1)
              over == n > (IF inbound THEN InBudget ELSE OutBudget)
          IN
          /\ inBytes' = IF inbound THEN [inBytes EXCEPT ![c] = n] ELSE inBytes
          /\ outBytes' = IF inbound THEN outBytes ELSE [outBytes EXCEPT ![c] = n]
          /\ IF over THEN CloseWs(c) /\ mud' = [mud EXCEPT ![a] = "gone"]
             ELSE UNCHANGED <<ws, mud>>
  /\ UNCHANGED <<limiterVars, upgrades, hellos, preAuth, timer, release,
                 bridged, clientVars, call>>

(* The MUD ends or the bridge destroys its connection: bridge.ts closes    *)
(* the WebSocket with it.                                                  *)
MudEnds(a) ==
  /\ mud[a] = "dialled"
  /\ mud' = [mud EXCEPT ![a] = "gone"]
  /\ CloseWs(a[1])
  /\ UNCHANGED <<limiterVars, preAuth, timer, release, bridged, windowVars,
                 clientVars, call>>

Next ==
  \/ \E c \in Conns :
       \/ Upgrade(c)
       \/ \E m \in Messages : ClientMessage(c, m)
       \/ HelloTimeout(c)
       \/ ClientCloses(c)
       \/ CloseCompletes(c)
  \/ \E a \in Calls : DnsAnswer(a) \/ BridgeTraffic(a) \/ MudEnds(a)

Spec == Init /\ [][Next]_vars

(* Timers fire, lookups settle, and a WebSocket that was told to close     *)
(* gets its close event (ws forces it after its close timeout).  Clients   *)
(* and MUDs owe nothing.                                                   *)
Fairness ==
  /\ \A c \in Conns : WF_vars(HelloTimeout(c)) /\ WF_vars(CloseCompletes(c))
  /\ \A a \in Calls : WF_vars(DnsAnswer(a))

FairSpec == Spec /\ Fairness

-----------------------------------------------------------------------------
(* A bridge that belongs to a session still connected.                     *)
Attached(a) == mud[a] = "dialled" /\ ws[a[1]] # "closed"

CallsFrom(ip) == {a \in Calls : AddrOf[a[1]] = ip}

(* For every client address, the bridged sessions that are connected never *)
(* exceed the concurrency limit, whatever the order of hellos, lookups,    *)
(* errors and closes (server.ts:209, limits.ts tryAcquire): no path gives  *)
(* a slot back while its bridge is attached, or opens one without a slot.  *)
AttachedWithinLimit ==
  \A ip \in Ips :
    Cardinality({a \in CallsFrom(ip) : Attached(a)}) <= MaxPerIp

(* What holds of it: a client that sent at most one hello, as the web      *)
(* client does, leaves no slot behind.  The close event finds the closure  *)
(* in "release" wherever the handler was suspended (server.ts:138, :209).  *)
OneHelloLeavesNoSlot ==
  \A c \in Conns :
    ws[c] = "closed" /\ helloed[c] <= 1 => \A s \in live : s.id[1] # c

(* docs/security/hosted-proxy-threat-model.md:64, "Concurrent session      *)
(* limits enforced", of the resource the limit protects: the MUD           *)
(* connections a client address has open at one time.                      *)
MudSocketsWithinLimit ==
  \A ip \in Ips :
    Cardinality({a \in CallsFrom(ip) : mud[a] = "dialled"}) <= MaxPerIp

(* Every WebSocket the proxy accepts is, in the end, bridged or closed: no *)
(* order of a late hello, the hello timer, a lookup and a close leaves an  *)
(* idle session behind (server.ts:110, :171).                              *)
EverySessionSettles ==
  \A c \in Conns : ws[c] = "open" ~> (bridged[c] \/ ws[c] = "closed")

(* The limiter's maps and closures behave as the abstract pool of slots.   *)
ImplementsSlotPool == Pool!Spec
===============================================================================

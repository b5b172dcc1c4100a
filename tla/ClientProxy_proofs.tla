-------------------------- MODULE ClientProxy_proofs --------------------------
(***************************************************************************)
(* Theorems about the client, for every number of hops, retries and lines  *)
(* and every size of the queue, and then about the client and the proxies  *)
(* it meets, for any number of frames in flight and upsets and a MUD that  *)
(* is up or down.  The first part is about MudSocket and uses nothing that *)
(* ClientProxy adds; what the client does in ClientProxy it does in        *)
(* MudSocket, so that the second part can use it.                          *)
(***************************************************************************)
EXTENDS ClientProxy, SequenceTheorems, TLAPS

ReadyStates == {"none", "connecting", "open", "closing", "closed"}
Codes == {"idle", "connecting", "handshaking", "connected", "proxy_error",
          "bad_frame", "reconnect_wait", "max_retries", "disconnected"}

TypeOK ==
  /\ started \in BOOLEAN /\ disposed \in BOOLEAN /\ opening \in BOOLEAN
  /\ mask \in BOOLEAN
  /\ attempt \in Nat /\ session \in Nat /\ entered \in Nat
  /\ timer \in {"none", "gap", "backoff"}
  /\ status \in Codes
  /\ ws \in 0..MaxHops /\ opened \in 0..MaxHops
  /\ sock \in [Hops -> ReadyStates]
  /\ sid \in [Hops -> Nat]
  /\ outbox \in Seq(Nat) /\ wire \in Seq(Nat)

(* Hops are created in order, each under a session no older one had; the   *)
(* one whose handlers are listened to is this.ws, until it has closed.     *)
HopsInv ==
  /\ \A n \in Hops : n > opened => sock[n] = "none"
  /\ \A n \in Hops : n <= opened => sid[n] <= session
  /\ \A n \in Hops : n <= opened /\ session = sid[n] /\ sock[n] # "closed" => ws = n
  /\ ws # 0 =>
       /\ ws <= opened /\ sid[ws] = session
       /\ sock[ws] \in {"connecting", "open", "closing"}

(* Who moves the client on.                                                *)
RetryInv ==
  /\ ~started => /\ ~disposed /\ ~opening
                 /\ timer = "none" /\ ws = 0 /\ opened = 0
  /\ disposed => timer = "none" /\ ws = 0
  /\ timer # "none" => ws = 0 /\ ~opening
  /\ opening /\ ~disposed => ws # 0 /\ sock[ws] = "connecting"
  /\ status = "max_retries" => timer = "none" /\ ws = 0
  /\ started /\ ~disposed /\ status # "max_retries" => timer # "none" \/ ws # 0

(* Nothing waits while lines go out at once.                               *)
QueueInv == CanSend => outbox = <<>>

IInv == TypeOK /\ HopsInv /\ SingleSocket /\ RetryInv /\ QueueInv

-----------------------------------------------------------------------------
(* The bounds are natural numbers.                                         *)
LEMMA Bounds == MaxHops \in Nat /\ OutboxCap \in Nat \ {0} /\ MaxAttempts \in Nat
<1>1. \A k \in {MaxAttempts, OutboxCap, MaxHops} : k \in Nat \ {0}
  BY MudSocketAssumption
<1> QED
  BY <1>1

(* killSocket keeps the types, and changes only the socket of this.ws.     *)
LEMMA KilledFacts ==
  ASSUME TypeOK
  PROVE  /\ Killed \in [Hops -> ReadyStates]
         /\ \A n \in Hops : n # ws => Killed[n] = sock[n]
         /\ \A n \in Hops : n = ws => Killed[n] \notin {"connecting", "open"}
         /\ \A n \in Hops : Killed[n] = "closed" => sock[n] = "closed"
         /\ \A n \in Hops : Killed[n] = "none" => sock[n] = "none"
BY DEF TypeOK, Killed, ReadyStates

(* Whichever way open() returns, the types hold.                           *)
LEMMA OpenType ==
  ASSUME TypeOK, NEW tries \in Nat, NEW early \in BOOLEAN, Open(tries, early)
  PROVE  /\ attempt' \in Nat /\ session' \in Nat
         /\ opening' \in BOOLEAN
         /\ timer' \in {"none", "gap", "backoff"}
         /\ status' \in Codes
         /\ ws' \in 0..MaxHops /\ opened' \in 0..MaxHops
         /\ sock' \in [Hops -> ReadyStates]
         /\ sid' \in [Hops -> Nat]
<1>1. CASE UNCHANGED <<opening, session, ws, status, hopVars>>
  BY <1>1 DEF Open, TypeOK, hopVars
<1>2. CASE ~opening /\ ~early /\ opened < MaxHops
  <2>1. opened + 1 \in Hops /\ opened + 1 \in 0..MaxHops
    BY <1>2, Bounds DEF TypeOK, Hops
  <2>2. sid' \in [Hops -> Nat] /\ session' \in Nat
    BY <1>2, <2>1 DEF Open, TypeOK, hopVars
  <2>3. sock' \in [Hops -> ReadyStates]
    BY <1>2, <2>1, KilledFacts DEF Open, TypeOK, hopVars, ReadyStates
  <2>4. attempt' \in Nat /\ ws' \in 0..MaxHops /\ opened' \in 0..MaxHops
    BY <1>2, <2>1, Bounds DEF Open, TypeOK, ScheduleReconnect
  <2>6. opening' \in BOOLEAN
    BY <1>2 DEF Open, ScheduleReconnect
  <2>5. timer' \in {"none", "gap", "backoff"} /\ status' \in Codes
    BY <1>2 DEF Open, ScheduleReconnect, Codes
  <2> QED
    BY <2>2, <2>3, <2>4, <2>5, <2>6
<1> QED
  BY <1>1, <1>2 DEF Open

(* Flushing and queueing keep the types of the lines.                      *)
LEMMA LineTypes ==
  ASSUME TypeOK
  PROVE  /\ wire \o outbox \in Seq(Nat)
         /\ Append(wire, entered + 1) \in Seq(Nat)
         /\ Queued(outbox, entered + 1) \in Seq(Nat)
<1>1. entered + 1 \in Nat
  BY DEF TypeOK
<1>2. CASE outbox = <<>>
  BY <1>1, <1>2, Bounds DEF TypeOK, Queued
<1>3. CASE outbox # <<>>
  BY <1>1, <1>3, HeadTailProperties DEF TypeOK, Queued
<1> QED
  BY <1>1, <1>2, <1>3 DEF TypeOK

(* Every step keeps the types.                                             *)
LEMMA TypeStep ==
  ASSUME TypeOK, [Next]_vars
  PROVE  TypeOK'
<1> USE DEF TypeOK, lineVars, hopVars, retryVars
<1>1. ASSUME Start PROVE TypeOK'
  BY <1>1, OpenType DEF Start
<1>2. ASSUME Stop PROVE TypeOK'
  <2>1. /\ outbox' \in Seq(Nat) /\ sock' \in [Hops -> ReadyStates]
        /\ ws' \in 0..MaxHops /\ session' \in Nat /\ status' \in Codes
    BY <1>2, KilledFacts, EmptySeq, Bounds DEF Stop, Codes
  <2> QED
    BY <1>2, <2>1 DEF Stop
<1>3. ASSUME TimerFires PROVE TypeOK'
  <2>1. PICK early \in BOOLEAN : Open(attempt, early)
    BY <1>3 DEF TimerFires
  <2> QED
    BY <1>3, <2>1, OpenType DEF TimerFires
<1>4. ASSUME Send PROVE TypeOK'
  <2>1. outbox' \in Seq(Nat) /\ wire' \in Seq(Nat)
    BY <1>4, LineTypes DEF Send
  <2>2. entered' \in Nat
    BY <1>4 DEF Send
  <2> QED
    BY <1>4, <2>1, <2>2 DEF Send
<1>5. ASSUME NEW n \in Hops, OnOpen(n) PROVE TypeOK'
  <2>1. sock' \in [Hops -> ReadyStates]
    BY <1>5 DEF OnOpen, ReadyStates
  <2>2. status' \in Codes
    BY <1>5 DEF OnOpen, Codes
  <2>3. opening' \in BOOLEAN
    BY <1>5 DEF OnOpen
  <2> QED
    BY <1>5, <2>1, <2>2, <2>3 DEF OnOpen
<1>6. ASSUME NEW n \in Hops, BeginsClosing(n) PROVE TypeOK'
  BY <1>6 DEF BeginsClosing, ReadyStates
<1>7. ASSUME NEW n \in Hops, OnClose(n) PROVE TypeOK'
  <2>1. sock' \in [Hops -> ReadyStates]
    BY <1>7 DEF OnClose, ReadyStates
  <2>2. status' \in Codes /\ timer' \in {"none", "gap", "backoff"}
    BY <1>7 DEF OnClose, ScheduleReconnect, Codes
  <2>3. attempt' \in Nat /\ session' \in Nat /\ ws' \in 0..MaxHops
    BY <1>7, Bounds DEF OnClose, ScheduleReconnect
  <2>4. opening' \in BOOLEAN
    BY <1>7 DEF OnClose, ScheduleReconnect
  <2> QED
    BY <1>7, <2>1, <2>2, <2>3, <2>4 DEF OnClose
<1>8. ASSUME NEW n \in Hops, NEW f \in Frames, OnFrame(n, f) PROVE TypeOK'
  <2>1. status' \in Codes
    BY <1>8 DEF OnFrame, Codes
  <2>2. outbox' \in Seq(Nat) /\ wire' \in Seq(Nat)
    BY <1>8, LineTypes, EmptySeq DEF OnFrame
  <2> QED
    BY <1>8, <2>1, <2>2 DEF OnFrame, MaskAfter
<1>9. CASE UNCHANGED vars
  BY <1>9 DEF vars
<1> QED
  BY <1>1, <1>2, <1>3, <1>4, <1>5, <1>6, <1>7, <1>8, <1>9 DEF Next

-----------------------------------------------------------------------------
(* open() either leaves the hops alone, or creates the next one under a    *)
(* fresh session and closes the one before.                                *)
LEMMA OpenHops ==
  ASSUME IInv, TypeOK', NEW tries \in Nat, NEW early \in BOOLEAN,
         Open(tries, early)
  PROVE  HopsInv' /\ SingleSocket'
<1> USE DEF IInv
<1>1. CASE UNCHANGED <<opening, session, ws, status, hopVars>>
  BY <1>1 DEF HopsInv, SingleSocket, hopVars
<1>2. CASE ~opening /\ ~early /\ opened < MaxHops
  <2> DEFINE m == opened + 1
  <2>1. m \in Hops /\ m \in Nat /\ m # 0 /\ m # ws /\ opened \in Nat /\ session \in Nat
    BY SMTT(30), <1>2, Bounds DEF TypeOK, HopsInv, Hops
  <2>2. /\ opened' = m /\ session' = session + 1
        /\ sid' = [sid EXCEPT ![m] = session + 1]
        /\ \/ ws' = m /\ sock' = [Killed EXCEPT ![m] = "connecting"]
           \/ ws' = 0 /\ sock' = [Killed EXCEPT ![m] = "closed"]
    BY <1>2 DEF Open, hopVars
  <2>3. sid'[m] = session' /\ \A n \in Hops : n # m => sid'[n] = sid[n] /\ sid[n] \in Nat
    BY <2>1, <2>2 DEF TypeOK
  <2>12. Killed \in [Hops -> ReadyStates]
    BY KilledFacts
  <2>4. /\ \A n \in Hops : n # m => sock'[n] = Killed[n]
        /\ \/ ws' = m /\ sock'[m] = "connecting"
           \/ ws' = 0 /\ sock'[m] = "closed"
    <3>1. CASE ws' = m /\ sock' = [Killed EXCEPT ![m] = "connecting"]
      BY <2>1, <2>12, <3>1
    <3>2. CASE ws' = 0 /\ sock' = [Killed EXCEPT ![m] = "closed"]
      BY <2>1, <2>12, <3>2
    <3> QED
      BY <2>2, <3>1, <3>2
  <2>5. ASSUME NEW n \in Hops, n # m PROVE sock'[n] \notin {"connecting", "open"}
    BY <2>4, <2>5, KilledFacts DEF SingleSocket
  <2>6. ASSUME NEW n \in Hops, n > opened' PROVE sock'[n] = "none"
    <3>1. n # m /\ n > opened /\ n # ws
      BY <2>1, <2>2, <2>6 DEF Hops, HopsInv
    <3> QED
      BY <3>1, <2>4, KilledFacts DEF HopsInv
  <2>7. ASSUME NEW n \in Hops, n <= opened', n # m
        PROVE  sid'[n] <= session /\ sid'[n] < session'
    <3>1. n <= opened
      BY <2>1, <2>2, <2>7 DEF Hops
    <3> QED
      BY <3>1, <2>1, <2>2, <2>3, <2>7 DEF HopsInv
  <2>8. \A n \in Hops : n <= opened' => sid'[n] <= session'
    BY <2>1, <2>2, <2>3, <2>7
  <2>9. \A n \in Hops : n <= opened' /\ session' = sid'[n] => n = m
    BY <2>1, <2>2, <2>3, <2>7
  <2>10. HopsInv'
    BY <2>1, <2>2, <2>3, <2>4, <2>6, <2>8, <2>9 DEF HopsInv
  <2>11. SingleSocket'
    BY <2>4, <2>5 DEF SingleSocket
  <2> QED
    BY <2>10, <2>11
<1> QED
  BY <1>1, <1>2 DEF Open

(* Every step keeps the order of the hops and the single socket.           *)
LEMMA HopsStep ==
  ASSUME IInv, TypeOK', [Next]_vars
  PROVE  HopsInv' /\ SingleSocket'
<1> USE DEF IInv, hopVars, retryVars
<1>1. ASSUME Start PROVE HopsInv' /\ SingleSocket'
  BY <1>1, OpenHops DEF Start
<1>2. ASSUME TimerFires PROVE HopsInv' /\ SingleSocket'
  <2>1. PICK early \in BOOLEAN : Open(attempt, early)
    BY <1>2 DEF TimerFires
  <2> QED
    BY <2>1, OpenHops DEF TypeOK
<1>3. ASSUME Stop PROVE HopsInv' /\ SingleSocket'
  <2>1. /\ sock' = Killed /\ ws' = 0 /\ session' = session + 1
        /\ opened' = opened /\ sid' = sid
    BY <1>3 DEF Stop
  <2>2. ASSUME NEW n \in Hops, n > opened PROVE Killed[n] = "none"
    <3>1. n # ws
      BY <2>2 DEF HopsInv, TypeOK, Hops
    <3> QED
      BY <2>2, <3>1, KilledFacts DEF HopsInv
  <2>3. session \in Nat /\ \A n \in Hops : sid[n] \in Nat
    BY DEF TypeOK
  <2>4. \A n \in Hops : n <= opened => sid[n] <= session + 1 /\ sid[n] # session + 1
    <3> SUFFICES ASSUME NEW n \in Hops, n <= opened
                 PROVE  sid[n] <= session + 1 /\ sid[n] # session + 1
      OBVIOUS
    <3>1. sid[n] <= session
      BY DEF HopsInv
    <3> QED
      BY ONLY <2>3, <3>1, n \in Hops
  <2>5. \A n \in Hops : Killed[n] \notin {"connecting", "open"}
    BY KilledFacts DEF SingleSocket
  <2> QED
    BY <2>1, <2>2, <2>4, <2>5 DEF HopsInv, SingleSocket
<1>4. ASSUME Send PROVE HopsInv' /\ SingleSocket'
  BY <1>4 DEF Send, HopsInv, SingleSocket
<1>5. ASSUME NEW n \in Hops, OnOpen(n) PROVE HopsInv' /\ SingleSocket'
  BY <1>5 DEF OnOpen, HopsInv, SingleSocket, TypeOK
<1>6. ASSUME NEW n \in Hops, BeginsClosing(n) PROVE HopsInv' /\ SingleSocket'
  BY <1>6 DEF BeginsClosing, HopsInv, SingleSocket, TypeOK
<1>7. ASSUME NEW n \in Hops, OnClose(n) PROVE HopsInv' /\ SingleSocket'
  <2>1. /\ sock' = [sock EXCEPT ![n] = "closed"]
        /\ session' = session /\ opened' = opened /\ sid' = sid
        /\ ws' = IF session = sid[n] /\ ws = n THEN 0 ELSE ws
    BY <1>7 DEF OnClose
  <2>2. n <= opened
    <3>1. ~(n > opened)
      BY <1>7 DEF OnClose, HopsInv
    <3>2. n \in Nat /\ opened \in Nat
      BY <1>7 DEF TypeOK, Hops
    <3> QED
      BY <3>1, <3>2
  <2>3. \A k \in Hops : sock'[k] = IF k = n THEN "closed" ELSE sock[k]
    BY <2>1 DEF TypeOK
  <2>4. sock[n] \in {"connecting", "open", "closing"}
    BY <1>7 DEF OnClose
  <2>5. session = sid[n] => ws = n
    BY <2>2, <2>4 DEF HopsInv
  <2>6. ws' # 0 => ws' = ws /\ ws # n
    BY <2>1, <2>5 DEF HopsInv
  <2>7. HopsInv'
    BY <2>1, <2>2, <2>3, <2>5, <2>6 DEF HopsInv, TypeOK, Hops
  <2>8. SingleSocket'
    BY <2>1, <2>3, <2>5 DEF SingleSocket
  <2> QED
    BY <2>7, <2>8
<1>8. ASSUME NEW n \in Hops, NEW f \in Frames, OnFrame(n, f)
      PROVE  HopsInv' /\ SingleSocket'
  BY <1>8 DEF OnFrame, HopsInv, SingleSocket
<1>9. CASE UNCHANGED vars
  BY <1>9 DEF vars, HopsInv, SingleSocket
<1> QED
  BY <1>1, <1>2, <1>3, <1>4, <1>5, <1>6, <1>7, <1>8, <1>9 DEF Next

-----------------------------------------------------------------------------
(* open(), called when nothing is under way, leaves something under way:   *)
(* the gap timer, the backoff timer or a WebSocket, or it gives up.        *)
LEMMA OpenRetries ==
  ASSUME IInv, NEW tries \in Nat, NEW early \in BOOLEAN, Open(tries, early),
         ~opening, ws = 0, ~disposed, status # "max_retries"
  PROVE  /\ timer' # "none" => ws' = 0 /\ ~opening'
         /\ opening' => ws' # 0 /\ sock'[ws'] = "connecting"
         /\ status' = "max_retries" => timer' = "none" /\ ws' = 0
         /\ status' # "max_retries" => timer' # "none" \/ ws' # 0
<1>1. CASE timer' = "gap" /\ UNCHANGED <<opening, session, ws, status, hopVars>>
  BY <1>1
<1>2. CASE ~opening /\ ~early /\ opened < MaxHops
  <2>1. opened + 1 \in Hops /\ opened + 1 # 0 /\ Killed \in [Hops -> ReadyStates]
    BY <1>2, Bounds, KilledFacts DEF IInv, TypeOK, Hops
  <2> QED
    BY <1>2, <2>1 DEF Open, ScheduleReconnect, hopVars
<1> QED
  BY <1>1, <1>2 DEF Open

(* Every step leaves the client moving on until it is stopped or gives up. *)
LEMMA RetryStep ==
  ASSUME IInv, [Next]_vars
  PROVE  RetryInv'
<1> USE DEF IInv, RetryInv, hopVars, retryVars
<1>1. ASSUME Start PROVE RetryInv'
  <2>1. /\ Open(0, FALSE) /\ ~opening /\ ws = 0 /\ ~disposed
        /\ started' = TRUE /\ disposed' = disposed
    BY <1>1 DEF Start
  <2>2. opened + 1 \in Hops /\ opened + 1 # 0 /\ Killed \in [Hops -> ReadyStates]
    BY <2>1, Bounds, KilledFacts DEF Open, TypeOK, Hops
  <2> QED
    BY <2>1, <2>2 DEF Open, ScheduleReconnect
<1>2. ASSUME TimerFires PROVE RetryInv'
  <2>1. PICK early \in BOOLEAN : Open(attempt, early)
    BY <1>2 DEF TimerFires
  <2>2. /\ ~opening /\ ws = 0 /\ ~disposed /\ started
        /\ status # "max_retries" /\ attempt \in Nat
    BY <1>2 DEF TimerFires, TypeOK
  <2> QED
    BY <1>2, <2>1, <2>2, OpenRetries DEF TimerFires
<1>3. ASSUME Stop PROVE RetryInv'
  BY <1>3 DEF Stop
<1>4. ASSUME Send PROVE RetryInv'
  BY <1>4 DEF Send
<1>5. ASSUME NEW n \in Hops, OnOpen(n) PROVE RetryInv'
  <2>1. /\ sock' = [sock EXCEPT ![n] = "open"] /\ sock[n] = "connecting" /\ n = ws
        /\ UNCHANGED <<started, disposed, timer, ws, opened>>
    BY <1>5 DEF OnOpen, SingleSocket
  <2>2. started /\ ws # 0
    BY <2>1 DEF Hops
  <2>3. ~opening' \/ disposed'
    BY <1>5, <2>1, <2>2 DEF OnOpen, HopsInv
  <2>4. status' # "max_retries"
    BY <1>5, <2>1, <2>2 DEF OnOpen
  <2> QED
    BY <2>1, <2>2, <2>3, <2>4
<1>6. ASSUME NEW n \in Hops, BeginsClosing(n) PROVE RetryInv'
  BY <1>6 DEF BeginsClosing, TypeOK
<1>7. ASSUME NEW n \in Hops, OnClose(n) PROVE RetryInv'
  <2>1. CASE session # sid[n]
    <3>1. n # ws
      BY <2>1 DEF HopsInv, Hops
    <3> QED
      BY <1>7, <2>1, <3>1 DEF OnClose, TypeOK
  <2>2. CASE session = sid[n]
    <3>1. n <= opened /\ sock[n] # "closed" /\ n # 0
      BY <1>7 DEF OnClose, HopsInv, TypeOK, Hops
    <3>2. ws = n /\ ~disposed /\ timer = "none" /\ started
      BY <2>2, <3>1 DEF HopsInv
    <3> QED
      BY <1>7, <2>2, <3>2 DEF OnClose, ScheduleReconnect
  <2> QED
    BY <2>1, <2>2
<1>8. ASSUME NEW n \in Hops, NEW f \in Frames, OnFrame(n, f) PROVE RetryInv'
  <2>1. /\ sock[n] = "open" /\ ws = n /\ n # 0 /\ ~disposed
        /\ UNCHANGED <<started, disposed, timer, opening, ws, sock, opened>>
    BY <1>8 DEF OnFrame, Hops
  <2>2. status' # "max_retries"
    BY <1>8, <2>1 DEF OnFrame
  <2> QED
    BY <2>1, <2>2
<1>9. CASE UNCHANGED vars
  BY <1>9 DEF vars
<1> QED
  BY <1>1, <1>2, <1>3, <1>4, <1>5, <1>6, <1>7, <1>8, <1>9 DEF Next

(* Only "ready" makes lines go out at once, and it empties the queue.      *)
LEMMA QueueStep ==
  ASSUME IInv, [Next]_vars
  PROVE  QueueInv'
<1> USE DEF IInv, QueueInv, CanSend, hopVars, retryVars, lineVars
<1>1. ASSUME NEW tries \in Nat, NEW early \in BOOLEAN, Open(tries, early),
             ws = 0, UNCHANGED lineVars
      PROVE  QueueInv'
  <2>1. CASE UNCHANGED <<opening, session, ws, status, hopVars>>
    BY <1>1, <2>1
  <2>2. CASE status' = "connecting" \/ ws' = 0
    BY <2>2
  <2> QED
    BY <1>1, <2>1, <2>2 DEF Open
<1>2. ASSUME Start PROVE QueueInv'
  BY <1>1, <1>2 DEF Start, RetryInv
<1>3. ASSUME TimerFires PROVE QueueInv'
  BY <1>1, <1>3 DEF TimerFires, RetryInv, TypeOK
<1>4. ASSUME Stop PROVE QueueInv'
  BY <1>4 DEF Stop
<1>5. ASSUME Send PROVE QueueInv'
  BY <1>5 DEF Send
<1>6. ASSUME NEW n \in Hops, OnOpen(n) PROVE QueueInv'
  <2>1. sock[n] = "connecting" /\ n = ws
    BY <1>6 DEF OnOpen, SingleSocket
  <2>2. status' = "handshaking"
    BY <1>6, <2>1 DEF OnOpen, HopsInv, RetryInv, Hops
  <2> QED
    BY <2>2
<1>7. ASSUME NEW n \in Hops, BeginsClosing(n) PROVE QueueInv'
  BY <1>7 DEF BeginsClosing, TypeOK
<1>8. ASSUME NEW n \in Hops, OnClose(n) PROVE QueueInv'
  <2>1. sock' = [sock EXCEPT ![n] = "closed"] /\ UNCHANGED lineVars
    BY <1>8 DEF OnClose
  <2>2. CASE session # sid[n]
    BY <1>8, <2>1, <2>2 DEF OnClose, TypeOK
  <2>3. CASE session = sid[n]
    BY <1>8, <2>1, <2>3 DEF OnClose, HopsInv, TypeOK, Hops
  <2> QED
    BY <2>2, <2>3
<1>9. ASSUME NEW n \in Hops, NEW f \in Frames, OnFrame(n, f) PROVE QueueInv'
  BY <1>9 DEF OnFrame
<1>10. CASE UNCHANGED vars
  BY <1>10 DEF vars
<1> QED
  BY <1>2, <1>3, <1>4, <1>5, <1>6, <1>7, <1>8, <1>9, <1>10 DEF Next

-----------------------------------------------------------------------------
(* The inductive invariant, for every number of hops, retries and lines.   *)
THEOREM ClientInvariant == Spec => []IInv
<1>1. Init => IInv
  <2> SUFFICES ASSUME Init PROVE IInv
    OBVIOUS
  <2> USE DEF Init
  <2>1. opened = 0 /\ ws = 0 /\ MaxHops \in Nat /\ status = "idle" /\ outbox = <<>>
    BY Bounds
  <2>2. outbox \in Seq(Nat) /\ wire \in Seq(Nat)
    BY EmptySeq
  <2>3. sock \in [Hops -> ReadyStates] /\ sid \in [Hops -> Nat]
    BY DEF ReadyStates
  <2>4. ws \in 0..MaxHops /\ opened \in 0..MaxHops /\ status \in Codes
    BY <2>1 DEF Codes
  <2>5. TypeOK
    BY <2>2, <2>3, <2>4 DEF TypeOK
  <2>6. HopsInv /\ SingleSocket
    BY <2>1 DEF HopsInv, SingleSocket, Hops
  <2>7. RetryInv /\ QueueInv
    BY <2>1 DEF RetryInv, QueueInv
  <2> QED
    BY <2>5, <2>6, <2>7 DEF IInv
<1>2. IInv /\ [Next]_vars => IInv'
  BY TypeStep, HopsStep, RetryStep, QueueStep DEF IInv
<1> QED
  BY <1>1, <1>2, PTL DEF Spec

(* At most one WebSocket of a client is connecting or open, and it is      *)
(* this.ws, however late the older ones close.                             *)
THEOREM OneSocket == Spec => []SingleSocket
BY ClientInvariant, PTL DEF IInv

(* A started client has a timer or a WebSocket it listens to exactly until *)
(* it is stopped or gives up: no guard swallows the last retry.            *)
THEOREM AlwaysMovingOn == Spec => []RetryPending
<1>1. IInv => RetryPending
  BY DEF IInv, HopsInv, RetryInv, RetryPending, Pending, TypeOK
<1> QED
  BY <1>1, ClientInvariant, PTL

(* A step of the client is a step of the abstract queue or leaves the      *)
(* lines alone: start, stop, the timers and the hops cannot reorder or     *)
(* double a line.                                                          *)
LEMMA QueueImplements ==
  ASSUME IInv, [Next]_vars
  PROVE  [Lines!Next]_(Lines!vars)
<1> USE DEF Lines!Next, Lines!vars
<1>1. ASSUME Send PROVE Lines!SendNow \/ Lines!Enqueue
  BY <1>1 DEF Send, IInv, QueueInv, Queued, Lines!SendNow, Lines!Enqueue
<1>2. ASSUME Stop PROVE Lines!Discard
  BY <1>2 DEF Stop, Lines!Discard
<1>3. ASSUME NEW n \in Hops, NEW f \in Frames, OnFrame(n, f)
      PROVE  Lines!Flush \/ UNCHANGED lineVars
  BY <1>3 DEF OnFrame, Lines!Flush, lineVars
<1>4. ASSUME \/ Start \/ TimerFires
             \/ \E n \in Hops : OnOpen(n) \/ BeginsClosing(n) \/ OnClose(n)
             \/ UNCHANGED vars
      PROVE  UNCHANGED lineVars
  BY <1>4 DEF Start, TimerFires, OnOpen, BeginsClosing, OnClose, vars
<1> QED
  BY <1>1, <1>2, <1>3, <1>4 DEF Next, lineVars

(* The client implements the abstract queue, for every size of the queue.  *)
THEOREM RefinesLineQueue == Spec => ImplementsLineQueue
<1>1. Init => Lines!Init
  BY DEF Init, Lines!Init
<1>2. IInv /\ [Next]_vars => [Lines!Next]_(Lines!vars)
  BY QueueImplements
<1> QED
  BY <1>1, <1>2, ClientInvariant, PTL DEF Spec, ImplementsLineQueue, Lines!Spec

-----------------------------------------------------------------------------
Increasing(s) == \A i, j \in 1..Len(s) : i < j => s[i] < s[j]
AtMost(s, k) == \A i \in 1..Len(s) : s[i] <= k

(* What is on the wire was entered before what still waits.                *)
OrderInv ==
  /\ Increasing(wire) /\ Increasing(outbox)
  /\ AtMost(wire, entered) /\ AtMost(outbox, entered)
  /\ \A i \in 1..Len(wire), j \in 1..Len(outbox) : wire[i] < outbox[j]
  /\ Len(outbox) <= OutboxCap

(* A new line goes behind all lines before it.                             *)
LEMMA AppendInOrder ==
  ASSUME NEW s \in Seq(Nat), NEW k \in Nat, Increasing(s), AtMost(s, k)
  PROVE  /\ Increasing(Append(s, k + 1))
         /\ AtMost(Append(s, k + 1), k + 1)
         /\ Len(Append(s, k + 1)) = Len(s) + 1
<1> DEFINE t == Append(s, k + 1)
<1>1. /\ Len(t) = Len(s) + 1 /\ Len(s) \in Nat /\ t[Len(s) + 1] = k + 1
      /\ \A i \in 1..Len(s) : t[i] = s[i]
  BY AppendProperties
<1>2. \A i \in 1..Len(s) : s[i] \in Nat /\ s[i] < k + 1
  <2> SUFFICES ASSUME NEW i \in 1..Len(s) PROVE s[i] \in Nat /\ s[i] < k + 1
    OBVIOUS
  <2>1. s[i] \in Nat /\ s[i] <= k
    BY ElementOfSeq DEF AtMost
  <2> QED
    BY <2>1
<1>3. \A i \in 1..Len(t) : i \in 1..Len(s) \/ i = Len(s) + 1
  BY <1>1
<1> HIDE DEF t
<1>4. AtMost(t, k + 1)
  <2> SUFFICES ASSUME NEW i \in 1..Len(t) PROVE t[i] <= k + 1
    BY DEF AtMost
  <2>1. CASE i \in 1..Len(s)
    BY <1>1, <1>2, <2>1
  <2>2. CASE i = Len(s) + 1
    BY <1>1, <2>2
  <2> QED
    BY <1>3, <2>1, <2>2
<1>5. Increasing(t)
  <2> SUFFICES ASSUME NEW i \in 1..Len(t), NEW j \in 1..Len(t), i < j
               PROVE  t[i] < t[j]
    BY DEF Increasing
  <2>1. i \in 1..Len(s)
    BY <1>1, <1>3
  <2>2. CASE j \in 1..Len(s)
    BY <1>1, <2>1, <2>2 DEF Increasing
  <2>3. CASE j = Len(s) + 1
    BY <1>1, <1>2, <2>1, <2>3
  <2> QED
    BY <1>3, <2>2, <2>3
<1> QED
  BY <1>1, <1>4, <1>5 DEF t

(* Dropping the oldest line keeps the order of the others.                 *)
LEMMA TailInOrder ==
  ASSUME NEW s \in Seq(Nat), s # <<>>, NEW k \in Nat, Increasing(s), AtMost(s, k)
  PROVE  /\ Tail(s) \in Seq(Nat) /\ Len(Tail(s)) = Len(s) - 1
         /\ \A i \in 1..Len(Tail(s)) : i + 1 \in 1..Len(s) /\ Tail(s)[i] = s[i + 1]
         /\ Increasing(Tail(s)) /\ AtMost(Tail(s), k)
<1>1. /\ Tail(s) \in Seq(Nat) /\ Len(Tail(s)) = Len(s) - 1
      /\ \A i \in 1..Len(Tail(s)) : Tail(s)[i] = s[i + 1]
  BY HeadTailProperties
<1>2. \A i \in 1..Len(Tail(s)) : i + 1 \in 1..Len(s)
  BY <1>1
<1> QED
  BY <1>1, <1>2 DEF Increasing, AtMost

(* Flushing puts the queue behind what is on the wire.                     *)
LEMMA FlushInOrder ==
  ASSUME NEW s \in Seq(Nat), NEW t \in Seq(Nat), NEW k \in Nat,
         Increasing(s), Increasing(t), AtMost(s, k), AtMost(t, k),
         \A i \in 1..Len(s), j \in 1..Len(t) : s[i] < t[j]
  PROVE  Increasing(s \o t) /\ AtMost(s \o t, k)
<1>1. /\ Len(s \o t) = Len(s) + Len(t)
      /\ \A i \in 1..Len(s \o t) :
            (s \o t)[i] = IF i <= Len(s) THEN s[i] ELSE t[i - Len(s)]
  BY ConcatProperties
<1>2. \A i \in 1..Len(s \o t) : i > Len(s) => i - Len(s) \in 1..Len(t)
  BY <1>1
<1>3. \A i \in 1..Len(s \o t) : i <= Len(s) => i \in 1..Len(s)
  BY <1>1
<1>4. AtMost(s \o t, k)
  BY <1>1, <1>2, <1>3 DEF AtMost
<1>5. ASSUME NEW i \in 1..Len(s \o t), NEW j \in 1..Len(s \o t), i < j
      PROVE  (s \o t)[i] < (s \o t)[j]
  <2>1. CASE j <= Len(s)
    BY <1>1, <1>3, <1>5, <2>1 DEF Increasing
  <2>2. CASE i <= Len(s) /\ j > Len(s)
    BY <1>1, <1>2, <1>3, <2>2
  <2>3. CASE i > Len(s)
    <3>1. i - Len(s) \in 1..Len(t) /\ j - Len(s) \in 1..Len(t) /\ j > Len(s)
      BY <1>2, <1>5, <2>3
    <3>2. (s \o t)[i] = t[i - Len(s)] /\ (s \o t)[j] = t[j - Len(s)]
      BY <1>1, <2>3, <3>1
    <3>3. i - Len(s) < j - Len(s)
      BY <1>5
    <3> QED
      BY <3>1, <3>2, <3>3 DEF Increasing
  <2> QED
    BY SMTT(30), <2>1, <2>2, <2>3
<1> QED
  BY <1>4, <1>5 DEF Increasing

(* A line queued last is behind everything that was sent.                  *)
LEMMA BehindTheWire ==
  ASSUME NEW w \in Seq(Nat), NEW t \in Seq(Nat), NEW k \in Nat, AtMost(w, k),
         \A i \in 1..Len(w), j \in 1..Len(t) : w[i] < t[j]
  PROVE  \A i \in 1..Len(w), j \in 1..Len(Append(t, k + 1)) :
            w[i] < Append(t, k + 1)[j]
<1> SUFFICES ASSUME NEW i \in 1..Len(w), NEW j \in 1..Len(Append(t, k + 1))
             PROVE  w[i] < Append(t, k + 1)[j]
  OBVIOUS
<1>1. /\ Len(Append(t, k + 1)) = Len(t) + 1
      /\ Append(t, k + 1)[Len(t) + 1] = k + 1
      /\ \A l \in 1..Len(t) : Append(t, k + 1)[l] = t[l]
  BY AppendProperties
<1>2. w[i] \in Nat /\ w[i] <= k
  BY DEF AtMost
<1>3. CASE j \in 1..Len(t)
  BY <1>1, <1>3
<1>4. CASE j = Len(t) + 1
  BY <1>1, <1>2, <1>4
<1> QED
  BY <1>1, <1>3, <1>4

(* A line that is queued waits behind all others, and what waits stays     *)
(* behind what was sent, whether or not the oldest line had to go.         *)
LEMMA QueuedInOrder ==
  ASSUME TypeOK, OrderInv
  PROVE  LET box == Queued(outbox, entered + 1)
         IN /\ Increasing(box) /\ AtMost(box, entered + 1)
            /\ \A i \in 1..Len(wire), j \in 1..Len(box) : wire[i] < box[j]
            /\ Len(box) <= OutboxCap
<1> USE DEF TypeOK
<1>1. /\ OutboxCap \in Nat \ {0} /\ entered \in Nat /\ entered + 1 \in Nat
      /\ Len(outbox) \in Nat /\ Len(outbox) <= OutboxCap
  BY Bounds DEF OrderInv
<1>2. CASE Len(outbox) < OutboxCap
  <2> DEFINE box == Append(outbox, entered + 1)
  <2>1. Increasing(box) /\ AtMost(box, entered + 1) /\ Len(box) = Len(outbox) + 1
    BY AppendInOrder DEF OrderInv
  <2>2. \A i \in 1..Len(wire), j \in 1..Len(box) : wire[i] < box[j]
    BY BehindTheWire DEF OrderInv
  <2>3. Queued(outbox, entered + 1) = box /\ Len(box) <= OutboxCap
    BY <1>1, <1>2, <2>1 DEF Queued
  <2> QED
    BY <2>1, <2>2, <2>3
<1>3. CASE ~(Len(outbox) < OutboxCap)
  <2> DEFINE t == Tail(outbox)
             box == Append(t, entered + 1)
  <2>1. /\ t \in Seq(Nat) /\ Len(t) = Len(outbox) - 1
        /\ \A i \in 1..Len(t) : i + 1 \in 1..Len(outbox) /\ t[i] = outbox[i + 1]
        /\ Increasing(t) /\ AtMost(t, entered)
    BY <1>1, <1>3, TailInOrder DEF OrderInv
  <2>2. Increasing(box) /\ AtMost(box, entered + 1) /\ Len(box) = Len(t) + 1
    BY <2>1, AppendInOrder
  <2>3. \A i \in 1..Len(wire), j \in 1..Len(t) : wire[i] < t[j]
    BY <2>1 DEF OrderInv
  <2>4. \A i \in 1..Len(wire), j \in 1..Len(box) : wire[i] < box[j]
    BY <2>1, <2>3, BehindTheWire DEF OrderInv
  <2>5. Queued(outbox, entered + 1) = box /\ Len(box) <= OutboxCap
    BY <1>1, <1>3, <2>1, <2>2 DEF Queued
  <2> QED
    BY <2>2, <2>4, <2>5
<1> QED
  BY <1>2, <1>3

(* Every step keeps the lines in the order in which they were entered.     *)
LEMMA OrderStep ==
  ASSUME IInv, OrderInv, [Next]_vars
  PROVE  OrderInv'
<1> USE DEF TypeOK
<1>1. TypeOK /\ entered \in Nat /\ OutboxCap \in Nat
  BY Bounds DEF IInv
<1>2. ASSUME Send PROVE OrderInv'
  <2>1. CASE CanSend
    <3>1. /\ wire' = Append(wire, entered + 1) /\ entered' = entered + 1
          /\ outbox = <<>> /\ outbox' = <<>>
      BY <1>2, <2>1 DEF Send, IInv, QueueInv
    <3>2. Increasing(wire') /\ AtMost(wire', entered')
      BY <1>1, <3>1, AppendInOrder DEF OrderInv
    <3> QED
      <4>1. Increasing(<<>>) /\ AtMost(<<>>, entered')
        BY DEF Increasing, AtMost
      <4>2. Len(outbox') = 0 /\ 0 <= OutboxCap
        BY <1>1, <3>1
      <4>3. \A i \in 1..Len(wire'), j \in 1..Len(outbox') : wire'[i] < outbox'[j]
        BY <4>2
      <4> QED
        BY <3>1, <3>2, <4>1, <4>2, <4>3 DEF OrderInv
  <2>2. CASE ~CanSend
    <3>1. /\ outbox' = Queued(outbox, entered + 1) /\ entered' = entered + 1
          /\ wire' = wire
      BY <1>2, <2>2 DEF Send
    <3>2. Increasing(wire') /\ AtMost(wire', entered')
      BY <1>1, <3>1 DEF OrderInv, AtMost
    <3> QED
      BY <1>1, <3>1, <3>2, QueuedInOrder DEF OrderInv
  <2> QED
    BY <2>1, <2>2
<1>3. ASSUME Stop PROVE OrderInv'
  BY <1>1, <1>3, Bounds DEF Stop, OrderInv, Increasing, AtMost
<1>4. ASSUME NEW n \in Hops, NEW f \in Frames, OnFrame(n, f) PROVE OrderInv'
  <2>1. CASE f = "ready"
    <3>1. wire' = wire \o outbox /\ outbox' = <<>> /\ entered' = entered
      BY <1>4, <2>1 DEF OnFrame
    <3>2. Increasing(wire') /\ AtMost(wire', entered')
      BY <1>1, <3>1, FlushInOrder DEF OrderInv
    <3> QED
      BY SMTT(30), <1>1, <3>1, <3>2, Bounds DEF OrderInv, Increasing, AtMost
  <2>2. CASE f # "ready"
    BY <1>4, <2>2 DEF OnFrame, OrderInv
  <2> QED
    BY <2>1, <2>2
<1>5. ASSUME \/ Start \/ TimerFires
             \/ \E n \in Hops : OnOpen(n) \/ BeginsClosing(n) \/ OnClose(n)
             \/ UNCHANGED vars
      PROVE  UNCHANGED lineVars
  BY <1>5 DEF Start, TimerFires, OnOpen, BeginsClosing, OnClose, vars
<1>6. CASE UNCHANGED lineVars
  BY <1>6 DEF lineVars, OrderInv
<1> QED
  BY <1>2, <1>3, <1>4, <1>5, <1>6 DEF Next

(* Over any number of hops the lines reach the wire in the order in which  *)
(* they were entered and none of them twice, and no more of them wait than *)
(* the queue may hold (send, flushOutbox).                                 *)
THEOREM LinesGoOutInOrder == Spec => [](Increasing(wire) /\ Len(outbox) <= OutboxCap)
<1>1. Init => OrderInv
  BY Bounds DEF Init, OrderInv, Increasing, AtMost
<1>2. IInv /\ OrderInv /\ [Next]_vars => OrderInv'
  BY OrderStep
<1>3. OrderInv => Increasing(wire) /\ Len(outbox) <= OutboxCap
  BY DEF OrderInv
<1> QED
  BY <1>1, <1>2, <1>3, ClientInvariant, PTL DEF Spec

-----------------------------------------------------------------------------
(* The client and the proxies.                                             *)

Proxies == {"none", "resolving", "refused", "dialling", "joined", "gone"}

FarType ==
  /\ proxy \in [Hops -> Proxies]
  /\ down \in [Hops -> Seq(Frames \cup {"close"})]
  /\ echo \in [Hops -> BOOLEAN]

(* Before the lookup is done nothing was sent, and a session that was      *)
(* refused in it sends no more than its end; only a bridge has an echo.    *)
SentOK ==
  \A n \in Hops :
    /\ sock[n] \in {"none", "connecting"} => proxy[n] = "none"
    /\ proxy[n] \in {"none", "resolving"} => down[n] = <<>>
    /\ proxy[n] = "refused" => down[n] \in {<<>>, <<"close">>}
    /\ proxy[n] \in {"none", "resolving", "refused", "dialling"} => ~echo[n]

(* Frames that tell the client the mask; "ready" tells it that there is    *)
(* none.                                                                   *)
Tells(f) == f \in {"ready", "mask", "unmask"}

(* The last of the frames that tells the mask, or else the client, has it  *)
(* as m.                                                                   *)
WillHave(now, frames, m) ==
  \/ now = m /\ \A i \in 1..Len(frames) : ~Tells(frames[i])
  \/ \E i \in 1..Len(frames) :
       /\ Tells(frames[i]) /\ m = (frames[i] = "mask")
       /\ \A j \in 1..Len(frames) : j > i => ~Tells(frames[j])

MaskOK ==
  \A n \in Hops :
    n = ws /\ sock[n] = "open" /\ proxy[n] \in {"dialling", "joined"} =>
      WillHave(mask, down[n], echo[n])

FarInv == FarType /\ SentOK /\ LinesMeetABridge /\ MaskOK


-----------------------------------------------------------------------------
(* A client that knows the mask has been told it by all of no frames.      *)
LEMMA ToldByNone ==
  ASSUME NEW m \in BOOLEAN, NEW now \in BOOLEAN, WillHave(now, <<>>, m)
  PROVE  now = m
BY DEF WillHave

(* A frame that tells the mask, sent last, decides it.                     *)
LEMMA ToldByLast ==
  ASSUME NEW now \in BOOLEAN, NEW s \in Seq(Frames \cup {"close"}),
         NEW f \in Frames, Tells(f)
  PROVE  WillHave(now, Append(s, f), f = "mask")
<1>1. /\ Len(Append(s, f)) = Len(s) + 1 /\ Len(s) \in Nat
      /\ Append(s, f)[Len(s) + 1] = f
  BY AppendProperties
<1>2. Len(s) + 1 \in 1..Len(Append(s, f))
  BY <1>1
<1>3. \A j \in 1..Len(Append(s, f)) : ~(j > Len(s) + 1)
  BY <1>1
<1> QED
  BY <1>1, <1>2, <1>3 DEF WillHave

(* Receiving the first frame leaves what all of them will have told.       *)
LEMMA ToldByReceived ==
  ASSUME NEW s \in Seq(Frames \cup {"close"}), s # <<>>, NEW m \in BOOLEAN,
         WillHave(mask, s, m)
  PROVE  WillHave(MaskAfter(Head(s)), Tail(s), m)
<1> DEFINE t == Tail(s)
<1>1. /\ Len(t) = Len(s) - 1 /\ Len(s) \in Nat /\ Len(s) >= 1 /\ Head(s) = s[1]
      /\ \A i \in 1..Len(t) : t[i] = s[i + 1]
  BY HeadTailProperties, LenProperties
<1>2. \A i \in 1..Len(t) : i + 1 \in 1..Len(s)
  BY <1>1
<1>3. \A i \in 1..Len(s) : i # 1 => i - 1 \in 1..Len(t) /\ t[i - 1] = s[i]
  BY <1>1
<1>4. 1 \in 1..Len(s)
  BY <1>1
<1>5. CASE mask = m /\ \A i \in 1..Len(s) : ~Tells(s[i])
  <2>1. MaskAfter(Head(s)) = m
    BY <1>1, <1>4, <1>5 DEF MaskAfter, Tells
  <2>2. \A i \in 1..Len(t) : ~Tells(t[i])
    BY <1>1, <1>2, <1>5
  <2> QED
    BY <2>1, <2>2 DEF WillHave
<1>6. ASSUME NEW i \in 1..Len(s), Tells(s[i]), m = (s[i] = "mask"),
             \A j \in 1..Len(s) : j > i => ~Tells(s[j])
      PROVE  WillHave(MaskAfter(Head(s)), t, m)
  <2>1. CASE i = 1
    <3>1. MaskAfter(Head(s)) = m
      BY <1>1, <1>6, <2>1 DEF MaskAfter, Tells
    <3>2. \A j \in 1..Len(t) : ~Tells(t[j])
      BY <1>1, <1>2, <1>6, <2>1
    <3> QED
      BY <3>1, <3>2 DEF WillHave
  <2>2. CASE i # 1
    <3>1. i - 1 \in 1..Len(t) /\ Tells(t[i - 1]) /\ m = (t[i - 1] = "mask")
      BY <1>3, <1>6, <2>2
    <3>2. \A j \in 1..Len(t) : j > i - 1 => ~Tells(t[j])
      <4> SUFFICES ASSUME NEW j \in 1..Len(t), j > i - 1 PROVE ~Tells(t[j])
        OBVIOUS
      <4>1. j + 1 \in 1..Len(s) /\ j + 1 > i /\ t[j] = s[j + 1]
        BY <1>1, <1>2
      <4> QED
        BY <1>6, <4>1
    <3> QED
      BY <3>1, <3>2 DEF WillHave
  <2> QED
    BY <2>1, <2>2
<1> QED
  BY <1>5, <1>6 DEF WillHave

-----------------------------------------------------------------------------
(* The far side keeps its types.                                           *)
LEMMA FarTypeStep ==
  ASSUME FarType, [FarNext]_allVars
  PROVE  FarType'
<1> DEFINE F == Frames \cup {"close"}
<1> USE DEF FarType, Proxies
<1>1. {"ready", "error", "mask", "unmask", "close"} \subseteq F /\ <<>> \in Seq(F)
  BY ClientProxyAssumption
<1>2. <<"error", "close">> \in Seq(F)
  BY <1>1
<1>3. \A n \in Hops, f \in F : Append(down[n], f) \in Seq(F)
  OBVIOUS
<1>4. ASSUME UNCHANGED farVars PROVE FarType'
  BY <1>4 DEF farVars
<1>5. ASSUME ClientStart \/ ClientTimer \/ ClientStop \/ ClientSend
      PROVE  UNCHANGED farVars
  BY <1>5 DEF ClientStart, ClientTimer, ClientStop, ClientSend
<1>6. ASSUME NEW n \in Hops, HopOpens(n) PROVE FarType'
  BY <1>6 DEF HopOpens
<1>7. ASSUME NEW n \in Hops, Receive(n) PROVE FarType'
  <2>1. Tail(down[n]) \in Seq(F)
    BY <1>7, HeadTailProperties DEF Receive
  <2>2. down' = [down EXCEPT ![n] = Tail(down[n])] /\ UNCHANGED <<proxy, echo>>
    BY <1>7 DEF Receive
  <2> QED
    BY <2>1, <2>2
<1>8. ASSUME NEW n \in Hops, HopCloses(n) PROVE FarType'
  BY <1>1, <1>8 DEF HopCloses
<1>9. ASSUME NEW n \in Hops, LookupDone(n) PROVE FarType'
  BY <1>1, <1>3, <1>9 DEF LookupDone
<1>10. ASSUME NEW n \in Hops, Dial(n) PROVE FarType'
  <2>1. down[n] \o <<"error", "close">> \in Seq(F)
    BY <1>2, ConcatProperties
  <2> QED
    BY <1>10, <2>1 DEF Dial
<1>11. ASSUME NEW n \in Hops, NEW m \in BOOLEAN, MudEcho(n, m) PROVE FarType'
  BY <1>1, <1>3, <1>11 DEF MudEcho
<1>12. ASSUME NEW n \in Hops, MudHangsUp(n) PROVE FarType'
  BY <1>1, <1>3, <1>12 DEF MudHangsUp
<1>13. ASSUME NEW n \in Hops, ResizeInHandshake(n) PROVE FarType'
  BY <1>1, <1>3, <1>13 DEF ResizeInHandshake
<1>14. ASSUME NEW n \in Hops, ConnectFails(n) PROVE FarType'
  BY <1>14 DEF ConnectFails
<1>15. ASSUME NEW n \in Hops, NetDrops(n) PROVE FarType'
  BY <1>1, <1>15 DEF NetDrops
<1> QED
  BY <1>4, <1>5, <1>6, <1>7, <1>8, <1>9, <1>10, <1>11, <1>12, <1>13, <1>14,
     <1>15 DEF FarNext, allVars, farVars

(* What the client does here is what MudSocket says a client does.         *)
LEMMA ClientStep ==
  ASSUME FarType, [FarNext]_allVars
  PROVE  [Next]_vars
<1>1. ASSUME ClientStart \/ ClientTimer \/ ClientStop \/ ClientSend PROVE Next
  BY <1>1 DEF ClientStart, ClientTimer, ClientStop, ClientSend, Next
<1>2. ASSUME NEW n \in Hops, HopOpens(n) \/ HopCloses(n) \/ ConnectFails(n)
                             \/ NetDrops(n)
      PROVE  Next
  BY <1>2 DEF HopOpens, HopCloses, ConnectFails, NetDrops, Next
<1>3. ASSUME NEW n \in Hops, Receive(n) PROVE Next
  <2>1. CASE Head(down[n]) = "close"
    BY <1>3, <2>1 DEF Receive, Next
  <2>2. CASE Head(down[n]) # "close"
    <3>1. Head(down[n]) \in Frames
      BY <1>3, <2>2, HeadTailProperties DEF Receive, FarType
    <3> QED
      BY <1>3, <2>2, <3>1 DEF Receive, Next
  <2> QED
    BY <2>1, <2>2
<1>4. ASSUME NEW n \in Hops, NEW m \in BOOLEAN,
             \/ LookupDone(n) \/ Dial(n) \/ MudEcho(n, m)
             \/ MudHangsUp(n) \/ ResizeInHandshake(n)
      PROVE  UNCHANGED vars
  BY <1>4 DEF LookupDone, Dial, MudEcho, MudHangsUp, ResizeInHandshake
<1>5. ASSUME UNCHANGED allVars PROVE UNCHANGED vars
  BY <1>5 DEF allVars
<1> QED
  BY <1>1, <1>2, <1>3, <1>4, <1>5 DEF FarNext

(* The client joined to a proxy and a MUD is still the client of           *)
(* MudSocket: OneSocket, AlwaysMovingOn, RefinesLineQueue and              *)
(* LinesGoOutInOrder hold of it.                                           *)
THEOREM StillAClient == FarSpec => Spec
<1>1. FarInit => Init
  BY DEF FarInit
<1>2. FarInit => FarType
  <2>1. <<>> \in Seq(Frames \cup {"close"})
    BY EmptySeq
  <2> QED
    BY <2>1 DEF FarInit, FarType, Proxies
<1>3. FarType /\ [FarNext]_allVars => FarType'
  BY FarTypeStep
<1>4. FarType /\ [FarNext]_allVars => [Next]_vars
  BY ClientStep
<1> QED
  BY <1>1, <1>2, <1>3, <1>4, PTL DEF FarSpec, Spec


-----------------------------------------------------------------------------
(* What open() does to the hops: nothing, or one more is created, which is *)
(* the client's or failed at once, and the one before is closed.           *)
LEMMA OneMoreHop ==
  ASSUME IInv, NEW tries \in Nat, NEW early \in BOOLEAN, Open(tries, early)
  PROVE  \/ UNCHANGED <<ws, status, hopVars>>
         \/ /\ opened + 1 \in Hops /\ sock[opened + 1] = "none"
            /\ sock'[opened + 1] \in {"connecting", "closed"}
            /\ \A n \in Hops : n # opened + 1 =>
                 sock'[n] = sock[n] \/ sock'[n] = "closing"
            /\ ws' = 0 \/ ws' = opened + 1
            /\ sock' \in [Hops -> ReadyStates]
<1>1. opened + 1 \in Hops <=> opened < MaxHops
  BY Bounds DEF IInv, TypeOK, Hops
<1>2. Killed \in [Hops -> ReadyStates]
  BY KilledFacts DEF IInv
<1>3. \A n \in Hops : Killed[n] = sock[n] \/ Killed[n] = "closing"
  BY DEF Killed
<1>4. opened < MaxHops => sock[opened + 1] = "none"
  BY <1>1 DEF IInv, HopsInv, TypeOK
<1>5. CASE UNCHANGED <<ws, status, hopVars>>
  BY <1>5
<1>6. ASSUME opened < MaxHops, ws' = opened + 1,
             sock' = [Killed EXCEPT ![opened + 1] = "connecting"]
      PROVE  /\ sock'[opened + 1] = "connecting"
             /\ \A n \in Hops : n # opened + 1 =>
                  sock'[n] = sock[n] \/ sock'[n] = "closing"
             /\ sock' \in [Hops -> ReadyStates]
  <2>1. opened + 1 \in Hops
    BY <1>1, <1>6
  <2>2. sock'[opened + 1] = "connecting"
    BY ONLY <1>2, <1>6, <2>1
  <2>3. \A n \in Hops : n # opened + 1 => sock'[n] = Killed[n]
    BY ONLY <1>2, <1>6, <2>1
  <2>4. sock' \in [Hops -> ReadyStates]
    BY ONLY <1>2, <1>6 DEF ReadyStates
  <2> QED
    BY <1>3, <2>2, <2>3, <2>4
<1>7. ASSUME opened < MaxHops, ws' = 0,
             sock' = [Killed EXCEPT ![opened + 1] = "closed"]
      PROVE  /\ sock'[opened + 1] = "closed"
             /\ \A n \in Hops : n # opened + 1 =>
                  sock'[n] = sock[n] \/ sock'[n] = "closing"
             /\ sock' \in [Hops -> ReadyStates]
  <2>1. opened + 1 \in Hops
    BY <1>1, <1>7
  <2>2. sock'[opened + 1] = "closed"
    BY ONLY <1>2, <1>7, <2>1
  <2>3. \A n \in Hops : n # opened + 1 => sock'[n] = Killed[n]
    BY ONLY <1>2, <1>7, <2>1
  <2>4. sock' \in [Hops -> ReadyStates]
    BY ONLY <1>2, <1>7 DEF ReadyStates
  <2> QED
    BY <1>3, <2>2, <2>3, <2>4
<1>8. \/ UNCHANGED <<opening, session, ws, status, hopVars>>
      \/ /\ opened < MaxHops /\ ws' = opened + 1
         /\ sock' = [Killed EXCEPT ![opened + 1] = "connecting"]
      \/ /\ opened < MaxHops /\ ws' = 0
         /\ sock' = [Killed EXCEPT ![opened + 1] = "closed"]
  BY DEF Open
<1>9. opened < MaxHops => opened + 1 \in Hops /\ sock[opened + 1] = "none"
  BY <1>1, <1>4
<1> QED
  BY <1>5, <1>6, <1>7, <1>8, <1>9

(* A step of the client on its own leaves the far side right.              *)
LEMMA ClientKeepsFar ==
  ASSUME IInv, FarInv, UNCHANGED farVars,
         ClientStart \/ ClientTimer \/ ClientStop \/ ClientSend
  PROVE  SentOK' /\ LinesMeetABridge' /\ MaskOK'
<1> USE DEF farVars
<1>1. ASSUME NEW tries \in Nat, NEW early \in BOOLEAN, Open(tries, early),
             mask' = mask
      PROVE  SentOK' /\ LinesMeetABridge' /\ MaskOK'
  <2>1. CASE UNCHANGED <<ws, status, hopVars>>
    BY <1>1, <2>1 DEF hopVars, FarInv, SentOK, LinesMeetABridge, MaskOK
  <2>2. CASE ~UNCHANGED <<ws, status, hopVars>>
    <3>1. /\ opened + 1 \in Hops /\ sock[opened + 1] = "none"
          /\ sock'[opened + 1] \in {"connecting", "closed"}
          /\ \A n \in Hops : n # opened + 1 =>
               sock'[n] = sock[n] \/ sock'[n] = "closing"
          /\ ws' = 0 \/ ws' = opened + 1
      BY <1>1, <2>2, OneMoreHop
    <3>2. SentOK'
      BY <3>1 DEF FarInv, SentOK
    <3>3. LinesMeetABridge'
      BY <3>1 DEF LinesMeetABridge
    <3>4. MaskOK'
      BY <3>1 DEF MaskOK, Hops
    <3> QED
      BY <3>2, <3>3, <3>4
  <2> QED
    BY <2>1, <2>2
<1>2. CASE ClientStart
  BY <1>1, <1>2 DEF ClientStart, Start
<1>3. CASE ClientTimer
  BY <1>1, <1>3 DEF ClientTimer, TimerFires, IInv, TypeOK
<1>4. CASE ClientStop
  <2>1. ws' = 0 /\ sock' = Killed
    BY <1>4 DEF ClientStop, Stop
  <2>2. \A n \in Hops : sock'[n] = sock[n] \/ sock'[n] = "closing"
    BY <2>1 DEF Killed
  <2> QED
    BY <2>1, <2>2 DEF FarInv, SentOK, LinesMeetABridge, MaskOK, Hops
<1>5. CASE ClientSend
  BY <1>5 DEF ClientSend, Send, hopVars, retryVars, FarInv, SentOK,
              LinesMeetABridge, MaskOK
<1> QED
  BY <1>2, <1>3, <1>4, <1>5


(* A WebSocket that closes is no longer the client's.                      *)
LEMMA ClosedIsNotWs ==
  ASSUME IInv, NEW n \in Hops, OnClose(n)
  PROVE  /\ sock' = [sock EXCEPT ![n] = "closed"] /\ mask' = mask
         /\ ws' # n /\ ws' # 0 => ws' = ws /\ status' = status
<1>1. sock' = [sock EXCEPT ![n] = "closed"] /\ mask' = mask /\ n # 0
  BY DEF OnClose, Hops
<1>2. CASE session # sid[n]
  <2>1. n # ws /\ ws' = ws /\ status' = status
    BY <1>1, <1>2 DEF OnClose, IInv, HopsInv, retryVars
  <2> QED
    BY <1>1, <2>1
<1>3. CASE session = sid[n]
  <2>1. ws' = IF ws = n THEN 0 ELSE ws
    BY <1>3 DEF OnClose
  <2>2. n <= opened /\ sock[n] # "closed"
    BY DEF OnClose, IInv, HopsInv, TypeOK, Hops
  <2>3. ws = n
    BY <1>3, <2>2 DEF IInv, HopsInv
  <2> QED
    BY <1>1, <2>1, <2>3
<1> QED
  BY <1>2, <1>3

(* A step of a hop's WebSocket leaves the far side right.                  *)
LEMMA HopKeepsFar ==
  ASSUME IInv, FarInv, NEW n \in Hops,
         HopOpens(n) \/ HopCloses(n) \/ ConnectFails(n) \/ NetDrops(n)
  PROVE  SentOK' /\ LinesMeetABridge' /\ MaskOK'
<1> USE DEF FarType, TypeOK
<1>1. FarType /\ SentOK /\ LinesMeetABridge /\ MaskOK /\ TypeOK
  BY DEF FarInv, IInv
<1>2. CASE HopOpens(n)
  <2>1. /\ sock' = [sock EXCEPT ![n] = "open"] /\ sock[n] = "connecting"
        /\ ws' = ws /\ n = ws /\ n # 0
    BY <1>2 DEF HopOpens, OnOpen, IInv, SingleSocket, Hops
  <2>2. status' = "handshaking" /\ proxy' = [proxy EXCEPT ![n] = "resolving"]
    BY <1>2, <2>1 DEF HopOpens, OnOpen, IInv, HopsInv, RetryInv
  <2>3. down' = down /\ echo' = echo
    BY <1>2 DEF HopOpens
  <2>4. proxy[n] = "none"
    BY <1>1, <2>1 DEF SentOK
  <2>5. SentOK'
    BY <1>1, <2>1, <2>2, <2>3, <2>4 DEF SentOK
  <2>6. LinesMeetABridge'
    BY <2>2 DEF LinesMeetABridge
  <2>7. MaskOK'
    BY <1>1, <2>1, <2>2 DEF MaskOK
  <2> QED
    BY <2>5, <2>6, <2>7
<1>3. CASE HopCloses(n) \/ ConnectFails(n)
  <2>1. /\ sock' = [sock EXCEPT ![n] = "closed"] /\ mask' = mask
        /\ ws' # n /\ ws' # 0 => ws' = ws /\ status' = status
    BY <1>3, ClosedIsNotWs DEF HopCloses, ConnectFails
  <2>2. /\ \A h \in Hops : h # n => proxy'[h] = proxy[h] /\ down'[h] = down[h]
        /\ echo' = echo
    BY <1>1, <1>3 DEF HopCloses, ConnectFails
  <2>3. down'[n] = <<>> /\ (proxy'[n] = "refused" => ~echo[n])
        /\ proxy'[n] \in {"refused", "gone"}
    <3>1. CASE HopCloses(n)
      BY <1>1, <3>1 DEF HopCloses, SentOK
    <3>2. CASE ConnectFails(n)
      BY <1>1, <3>2 DEF ConnectFails, SentOK
    <3> QED
      BY <1>3, <3>1, <3>2
  <2>4. \A h \in Hops : h # n => sock'[h] = sock[h]
    BY <1>1, <2>1
  <2>5. sock'[n] = "closed"
    BY <1>1, <2>1
  <2>6. SentOK'
    BY <1>1, <2>2, <2>3, <2>4, <2>5 DEF SentOK
  <2>7. LinesMeetABridge'
    <3>1. ws \in Hops \/ ws = 0
      BY <1>1, Bounds DEF Hops
    <3> QED
      BY <1>1, <2>1, <2>2, <2>4, <2>5, <3>1 DEF LinesMeetABridge
  <2>8. MaskOK'
    <3> SUFFICES ASSUME NEW h \in Hops, h = ws', sock'[h] = "open",
                        proxy'[h] \in {"dialling", "joined"}
                 PROVE  WillHave(mask', down'[h], echo'[h])
      BY DEF MaskOK
    <3>1. h # n /\ h # 0
      BY <2>5 DEF Hops
    <3>2. ws' = ws
      BY <2>1, <3>1
    <3> QED
      BY <1>1, <2>1, <2>2, <2>4, <3>1, <3>2 DEF MaskOK
  <2> QED
    BY <2>6, <2>7, <2>8
<1>4. CASE NetDrops(n)
  <2>1. /\ sock' = [sock EXCEPT ![n] = "closing"] /\ sock[n] = "open"
        /\ ws' = ws /\ n = ws
    BY <1>4 DEF NetDrops, BeginsClosing, IInv, SingleSocket, retryVars
  <2>2. /\ \A h \in Hops : h # n => proxy'[h] = proxy[h] /\ down'[h] = down[h]
        /\ echo' = echo
    BY <1>1, <1>4 DEF NetDrops
  <2>3. /\ down'[n] = <<>> /\ proxy'[n] \in {"refused", "gone"}
        /\ proxy'[n] = "refused" => proxy[n] = "resolving"
    BY <1>1, <1>4 DEF NetDrops
  <2>4. \A h \in Hops : h # n => sock'[h] = sock[h]
    BY <1>1, <2>1
  <2>5. sock'[n] = "closing"
    BY <1>1, <2>1
  <2>6. SentOK'
    BY <1>1, <2>2, <2>3, <2>4, <2>5 DEF SentOK
  <2>7. LinesMeetABridge' /\ MaskOK'
    BY <2>1, <2>5 DEF LinesMeetABridge, MaskOK
  <2> QED
    BY <2>6, <2>7
<1> QED
  BY <1>2, <1>3, <1>4


(* A frame the client receives leaves the far side right.                  *)
LEMMA ReceiveKeepsFar ==
  ASSUME IInv, FarInv, NEW n \in Hops, Receive(n)
  PROVE  SentOK' /\ LinesMeetABridge' /\ MaskOK'
<1> DEFINE f == Head(down[n])
<1>1. FarType /\ SentOK /\ LinesMeetABridge /\ MaskOK /\ TypeOK
  BY DEF FarInv, IInv
<1>2. /\ sock[n] = "open" /\ n = ws /\ down[n] # <<>>
      /\ down[n] \in Seq(Frames \cup {"close"})
  BY <1>1 DEF Receive, IInv, SingleSocket, FarType
<1>3. /\ down' = [down EXCEPT ![n] = Tail(down[n])]
      /\ proxy' = proxy /\ echo' = echo
  BY DEF Receive
<1>4. /\ ws' = ws
      /\ \A h \in Hops : sock'[h] = sock[h] \/ (sock'[h] = "closing" /\ h = n)
  BY <1>1 DEF Receive, BeginsClosing, OnFrame, hopVars, retryVars, TypeOK
<1>5. Tail(down[n]) = <<>> \/ down[n] # <<"close">>
  <2>1. Tail(<<"close">>) = <<>>
    OBVIOUS
  <2> QED
    BY <2>1
<1>6. down'[n] = Tail(down[n]) /\ \A h \in Hops : h # n => down'[h] = down[h]
  BY <1>1, <1>3 DEF FarType
<1>7. SentOK'
  <2> SUFFICES ASSUME NEW h \in Hops
               PROVE  /\ sock'[h] \in {"none", "connecting"} => proxy[h] = "none"
                      /\ proxy[h] \in {"none", "resolving"} => down'[h] = <<>>
                      /\ proxy[h] = "refused" => down'[h] \in {<<>>, <<"close">>}
                      /\ proxy[h] \in {"none", "resolving", "refused", "dialling"}
                           => ~echo[h]
    BY <1>3 DEF SentOK
  <2> QED
    BY <1>1, <1>2, <1>4, <1>5, <1>6 DEF SentOK
<1>8. CASE f = "close"
  <2>1. sock'[n] = "closing"
    BY <1>1, <1>8 DEF Receive, BeginsClosing, TypeOK
  <2>2. LinesMeetABridge' /\ MaskOK'
    BY <1>2, <1>4, <2>1 DEF LinesMeetABridge, MaskOK
  <2> QED
    BY <1>7, <2>2
<1>9. CASE f # "close"
  <2>1. OnFrame(n, f)
    BY <1>9 DEF Receive
  <2>2. /\ sock' = sock /\ mask' = MaskAfter(f)
        /\ status' = "connected" => status = "connected" \/ f = "ready"
    BY <2>1 DEF OnFrame, hopVars
  <2>3. proxy[n] \notin {"none", "resolving"}
    BY <1>1, <1>2 DEF SentOK
  <2>4. proxy[n] # "refused"
    <3>1. Head(<<"close">>) = "close"
      OBVIOUS
    <3> QED
      BY <1>1, <1>2, <1>9, <3>1 DEF SentOK
  <2>5. LinesMeetABridge'
    BY <1>1, <1>2, <1>3, <1>4, <2>3, <2>4
    DEF LinesMeetABridge, FarType, Proxies
  <2>6. MaskOK'
    <3> SUFFICES ASSUME proxy[n] \in {"dialling", "joined"}
                 PROVE  WillHave(MaskAfter(f), Tail(down[n]), echo[n])
      BY <1>2, <1>3, <1>4, <1>6, <2>2 DEF MaskOK
    <3>1. WillHave(mask, down[n], echo[n]) /\ echo[n] \in BOOLEAN
      BY <1>1, <1>2 DEF MaskOK, FarType
    <3> QED
      BY <1>2, <3>1, ToldByReceived
  <2> QED
    BY <1>7, <2>5, <2>6
<1> QED
  BY <1>8, <1>9

(* A step of the proxy or the MUD leaves the far side right.               *)
LEMMA ProxyKeepsFar ==
  ASSUME IInv, FarInv, NEW n \in Hops, NEW m \in BOOLEAN,
         \/ LookupDone(n) \/ Dial(n) \/ MudEcho(n, m)
         \/ MudHangsUp(n) \/ ResizeInHandshake(n)
  PROVE  SentOK' /\ LinesMeetABridge' /\ MaskOK'
<1>1. FarType /\ SentOK /\ LinesMeetABridge /\ MaskOK /\ TypeOK
  BY DEF FarInv, IInv
<1>2. ws' = ws /\ sock' = sock /\ status' = status /\ mask' = mask
  BY DEF LookupDone, Dial, MudEcho, MudHangsUp, ResizeInHandshake, vars,
         retryVars, hopVars
<1>3. down[n] \in Seq(Frames \cup {"close"}) /\ mask \in BOOLEAN
      /\ {"ready", "mask", "unmask"} \subseteq Frames
  BY <1>1, ClientProxyAssumption DEF FarType, TypeOK
<1>4. \A h \in Hops : h # n =>
        proxy'[h] = proxy[h] /\ down'[h] = down[h] /\ echo'[h] = echo[h]
  BY <1>1 DEF FarType, LookupDone, Dial, MudEcho, MudHangsUp, ResizeInHandshake
<1>5. ASSUME proxy'[n] \in {"dialling", "joined", "gone", "refused"},
             proxy'[n] = "refused" => /\ proxy[n] = "resolving" /\ ~echo'[n]
                                      /\ down'[n] = <<"close">>,
             proxy'[n] = "dialling" => ~echo'[n],
             proxy[n] # "none",
             proxy'[n] \in {"dialling", "joined"} /\ n = ws /\ sock[n] = "open"
                => WillHave(mask, down'[n], echo'[n])
      PROVE  SentOK' /\ LinesMeetABridge' /\ MaskOK'
  <2>1. SentOK'
    BY <1>1, <1>2, <1>4, <1>5 DEF SentOK
  <2>2. LinesMeetABridge'
    <3>1. ws \in Hops \/ ws = 0
      BY <1>1, Bounds DEF Hops, TypeOK
    <3> QED
      BY <1>1, <1>2, <1>4, <1>5, <3>1 DEF LinesMeetABridge
  <2>3. MaskOK'
    BY <1>1, <1>2, <1>4, <1>5 DEF MaskOK
  <2> QED
    BY <2>1, <2>2, <2>3
<1>6. CASE LookupDone(n)
  <2>1. /\ proxy[n] = "resolving" /\ proxy'[n] = "dialling"
        /\ down'[n] = Append(down[n], "ready") /\ echo'[n] = echo[n]
    BY <1>1, <1>6 DEF LookupDone, FarType
  <2>2. ~echo[n] /\ echo[n] \in BOOLEAN
    BY <1>1, <2>1 DEF SentOK, FarType
  <2>3. WillHave(mask, Append(down[n], "ready"), "ready" = "mask")
    BY <1>3, ToldByLast DEF Tells
  <2>4. WillHave(mask, down'[n], echo'[n])
    BY <2>1, <2>2, <2>3
  <2> QED
    BY <1>5, <2>1, <2>2, <2>4
<1>7. CASE Dial(n)
  <2>1. /\ proxy[n] = "dialling" /\ proxy'[n] \in {"joined", "gone"}
        /\ proxy'[n] = "joined" => down'[n] = down[n]
        /\ echo'[n] = echo[n]
    BY <1>1, <1>7 DEF Dial, FarType
  <2>2. n = ws /\ sock[n] = "open" => WillHave(mask, down[n], echo[n])
    BY <1>1, <2>1 DEF MaskOK
  <2> QED
    BY <1>5, <2>1, <2>2
<1>8. CASE MudEcho(n, m)
  <2>1. /\ proxy[n] = "joined" /\ proxy'[n] = "joined" /\ echo'[n] = m
        /\ down'[n] = Append(down[n], IF m THEN "mask" ELSE "unmask")
    BY <1>1, <1>8 DEF MudEcho, FarType
  <2>2. WillHave(mask, down'[n], m)
    <3>1. CASE m
      <4>1. WillHave(mask, Append(down[n], "mask"), "mask" = "mask")
        BY <1>3, ToldByLast DEF Tells
      <4>2. m = ("mask" = "mask")
        BY <3>1
      <4> QED
        BY <2>1, <3>1, <4>1, <4>2
    <3>2. CASE ~m
      <4>1. WillHave(mask, Append(down[n], "unmask"), "unmask" = "mask")
        BY <1>3, ToldByLast DEF Tells
      <4>2. m = ("unmask" = "mask")
        BY <3>2
      <4> QED
        BY <2>1, <3>2, <4>1, <4>2
    <3> QED
      BY <3>1, <3>2
  <2> QED
    BY <1>5, <2>1, <2>2
<1>9. CASE MudHangsUp(n)
  <2>1. proxy[n] = "joined" /\ proxy'[n] = "gone"
    BY <1>1, <1>9 DEF MudHangsUp, FarType
  <2> QED
    BY <1>5, <2>1
<1>10. CASE ResizeInHandshake(n)
  <2>1. /\ proxy[n] = "resolving" /\ proxy'[n] = "refused" /\ echo'[n] = echo[n]
        /\ down'[n] = Append(down[n], "close")
    BY <1>1, <1>10 DEF ResizeInHandshake, FarType
  <2>2. down[n] = <<>> /\ ~echo[n]
    BY <1>1, <2>1 DEF SentOK
  <2>3. Append(<<>>, "close") = <<"close">>
    OBVIOUS
  <2> QED
    BY <1>5, <2>1, <2>2, <2>3
<1> QED
  BY <1>6, <1>7, <1>8, <1>9, <1>10

-----------------------------------------------------------------------------
(* The inductive invariant of the client, the proxy and the MUD.           *)
THEOREM FarInvariant == FarSpec => [](IInv /\ FarInv)
<1>1. FarInit => FarInv
  <2> SUFFICES ASSUME FarInit PROVE FarInv
    OBVIOUS
  <2>1. <<>> \in Seq(Frames \cup {"close"})
    BY EmptySeq
  <2>2. FarType
    BY <2>1 DEF FarInit, FarType, Proxies
  <2>3. SentOK
    BY DEF FarInit, Init, SentOK
  <2>4. LinesMeetABridge /\ MaskOK
    BY DEF FarInit, Init, LinesMeetABridge, MaskOK
  <2> QED
    BY <2>2, <2>3, <2>4 DEF FarInv
<1>2. IInv /\ FarInv /\ [FarNext]_allVars => FarInv'
  <2> SUFFICES ASSUME IInv, FarInv, [FarNext]_allVars PROVE FarInv'
    OBVIOUS
  <2>1. FarType'
    BY FarTypeStep DEF FarInv
  <2>2. CASE ClientStart \/ ClientTimer \/ ClientStop \/ ClientSend
    <3>1. UNCHANGED farVars
      BY <2>2 DEF ClientStart, ClientTimer, ClientStop, ClientSend
    <3> QED
      BY <2>1, <2>2, <3>1, ClientKeepsFar DEF FarInv
  <2>3. ASSUME NEW n \in Hops, NEW m \in BOOLEAN,
               \/ HopOpens(n) \/ HopCloses(n) \/ ConnectFails(n) \/ NetDrops(n)
               \/ Receive(n)
               \/ LookupDone(n) \/ Dial(n) \/ MudEcho(n, m)
               \/ MudHangsUp(n) \/ ResizeInHandshake(n)
        PROVE  FarInv'
    BY <2>1, <2>3, HopKeepsFar, ReceiveKeepsFar, ProxyKeepsFar DEF FarInv
  <2>4. CASE UNCHANGED allVars
    BY <2>1, <2>4
    DEF allVars, farVars, vars, hopVars, retryVars, FarInv, SentOK,
        LinesMeetABridge, MaskOK
  <2> QED
    BY <2>2, <2>3, <2>4 DEF FarNext
<1> QED
  BY <1>1, <1>2, StillAClient, ClientInvariant, PTL DEF FarSpec

(* However lookups, dials, resizes and lost connections fall, a client     *)
(* that thinks itself connected sends its lines to a bridge and never to a *)
(* proxy that still waits for a hello (mudSocket.ts send, server.ts:174).  *)
THEOREM LinesMeetBridges == FarSpec => []LinesMeetABridge
BY FarInvariant, PTL DEF FarInv

(* With all frames in, a connected client masks its input exactly when the *)
(* bridge it is connected to does, over any number of hops and changes of  *)
(* the echo (mudSocket.ts:322, bridge.ts setEchoMask).                     *)
THEOREM MasksAgree == FarSpec => []MaskAgrees
<1>1. IInv /\ FarInv => MaskAgrees
  <2> SUFFICES ASSUME IInv, FarInv, ws # 0, sock[ws] = "open",
                      proxy[ws] = "joined", down[ws] = <<>>
               PROVE  mask = echo[ws]
    BY DEF MaskAgrees
  <2>1. ws \in Hops
    BY Bounds DEF IInv, TypeOK, Hops
  <2>2. /\ WillHave(mask, down[ws], echo[ws])
        /\ mask \in BOOLEAN /\ echo[ws] \in BOOLEAN
    BY <2>1 DEF FarInv, MaskOK, FarType, IInv, TypeOK
  <2> QED
    BY <2>2, ToldByNone
<1> QED
  BY <1>1, FarInvariant, PTL
=============================================================================

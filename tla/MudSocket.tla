------------------------------ MODULE MudSocket ------------------------------
(***************************************************************************)
(* apps/web/src/lib/mudSocket.ts, class MudSocket: the web client's        *)
(* connection to the proxy.  It opens WebSockets one after the other, with *)
(* a backoff timer between them, until it is stopped or has failed too     *)
(* often, and it queues the lines entered while no hop is ready.           *)
(*                                                                         *)
(* TerminalHost makes one MudSocket per URL, starts it once and stops it   *)
(* once.  The WebSockets are the browser's: hop n is the n-th one created, *)
(* and its readyState moves on its own.                                    *)
(***************************************************************************)
EXTENDS Integers, Sequences

CONSTANTS
  MaxAttempts,   (* MAX_ATTEMPTS                                           *)
  OutboxCap,     (* the 64 of send()                                       *)
  Frames,        (* the text frames a server sends: a subset of AllFrames  *)
  MaxHops,       (* bound: WebSockets created                              *)
  MaxLines       (* bound: lines entered                                   *)

AllFrames == {"ready", "error", "mask", "unmask", "bad"}

ASSUME MudSocketAssumption ==
  /\ {MaxAttempts, OutboxCap, MaxHops} \subseteq Nat \ {0}
  /\ MaxLines \in Nat
  /\ Frames \subseteq AllFrames

Hops == 1..MaxHops

VARIABLES
  started,       (* start() was called                                     *)
  disposed,      (* disposed                                               *)
  attempt,       (* attempt                                                *)
  timer,         (* the timer and what armed it                            *)
  session,       (* session                                                *)
  status,        (* status.code                                            *)
  opening,       (* opening                                                *)
  ws,            (* the hop of this.ws, 0 for null                         *)
  outbox,        (* outbox                                                 *)
  opened,        (* hops created                                           *)
  sock,          (* readyState of every hop's WebSocket                    *)
  sid,           (* the session each hop's handlers captured               *)
  mask,          (* what onEchoMask was last told                          *)
  entered,       (* lines entered                                          *)
  wire           (* lines handed to a WebSocket, in order                  *)

lineVars  == <<outbox, entered, wire>>
hopVars   == <<opened, sock, sid>>
retryVars == <<attempt, timer, session, opening, ws>>
vars == <<started, disposed, retryVars, status, hopVars, mask, lineVars>>

Init ==
  /\ started = FALSE
  /\ disposed = FALSE
  /\ attempt = 0
  /\ timer = "none"
  /\ session = 0
  /\ status = "idle"
  /\ opening = FALSE
  /\ ws = 0
  /\ outbox = <<>>
  /\ opened = 0
  /\ sock = [n \in Hops |-> "none"]
  /\ sid = [n \in Hops |-> 0]
  /\ mask = FALSE
  /\ entered = 0
  /\ wire = <<>>

-----------------------------------------------------------------------------
(* Fault: a WebSocket that is still connecting is left alone.              *)
KilledIfOpen == [n \in Hops |-> IF n = ws /\ sock[n] = "open"
                                THEN "closing" ELSE sock[n]]

(* close() of killSocket on the previous WebSocket, if there is one and it *)
(* is connecting or open.                                                  *)
Killed == [n \in Hops |-> IF n = ws /\ sock[n] \in {"connecting", "open"}
                          THEN "closing" ELSE sock[n]]

(* Faults: the count is not raised; the latch "opening" is not released.   *)
ScheduleReconnectUncounted(tries) ==
  /\ opening' = FALSE
  /\ attempt' = tries
  /\ status' = "reconnect_wait" /\ timer' = "backoff"
ScheduleReconnectLatched(tries) ==
  /\ UNCHANGED opening
  /\ attempt' = tries + 1
  /\ IF tries + 1 > MaxAttempts
     THEN status' = "max_retries" /\ timer' = "none"
     ELSE status' = "reconnect_wait" /\ timer' = "backoff"

(* scheduleReconnect, with no timer pending and "tries" failures so far:   *)
(* count one more and wait, or give up.                                    *)
ScheduleReconnect(tries) ==
  /\ opening' = FALSE
  /\ attempt' = tries + 1
  /\ IF tries + 1 > MaxAttempts
     THEN status' = "max_retries" /\ timer' = "none"
     ELSE status' = "reconnect_wait" /\ timer' = "backoff"

(* open(), called with no timer pending and "tries" failures counted.      *)
(* "early" says that less than MIN_OPEN_GAP_MS has passed since the last   *)
(* WebSocket; the constructor may throw.                                   *)
Open(tries, early) ==
  \/ /\ opening
     /\ timer' = "none"
     /\ attempt' = tries
     /\ UNCHANGED <<opening, session, ws, status, hopVars>>
  \/ /\ ~opening /\ early
     /\ timer' = "gap"
     /\ attempt' = tries
     /\ UNCHANGED <<opening, session, ws, status, hopVars>>
  \/ /\ ~opening /\ ~early
     /\ opened < MaxHops
     /\ opened' = opened + 1
     /\ session' = session + 1
     /\ sid' = [sid EXCEPT ![opened + 1] = session + 1]
     /\ \/ (* new WebSocket *)
           /\ ws' = opened + 1
           /\ sock' = [Killed EXCEPT ![opened + 1] = "connecting"]
           /\ opening' = TRUE
           /\ timer' = "none"
           /\ attempt' = tries
           /\ status' = "connecting"
        \/ (* the constructor throws *)
           /\ ws' = 0
           /\ sock' = [Killed EXCEPT ![opened + 1] = "closed"]
           /\ ScheduleReconnect(tries)

Start ==
  /\ ~started
  /\ started' = TRUE
  /\ Open(0, FALSE)
  /\ UNCHANGED <<disposed, mask, lineVars>>

Stop ==
  /\ started /\ ~disposed
  /\ disposed' = TRUE
  /\ timer' = "none"
  /\ outbox' = <<>>
  /\ sock' = Killed
  /\ ws' = 0
  /\ session' = session + 1
  /\ status' = "disconnected"
  /\ mask' = FALSE
  /\ UNCHANGED <<started, attempt, opening, opened, sid, entered, wire>>

(* Either timer fires.  A backoff is at least MIN_OPEN_GAP_MS long, but    *)
(* the gap is measured on Date.now, which may disagree with the timer; the *)
(* gap timer waits for exactly what was missing.                           *)
TimerFires ==
  /\ timer # "none"
  /\ \E early \in BOOLEAN :
       /\ early => timer = "backoff" /\ opened > 0
       /\ Open(attempt, early)
  /\ UNCHANGED <<started, disposed, mask, lineVars>>

(* onopen                                                                  *)
OnOpen(n) ==
  /\ sock[n] = "connecting"
  /\ sock' = [sock EXCEPT ![n] = "open"]
  /\ IF ~disposed /\ session = sid[n] /\ ws = n
     THEN opening' = FALSE /\ status' = "handshaking"
     ELSE UNCHANGED <<opening, status>>
  /\ UNCHANGED <<started, disposed, attempt, timer, session, ws, opened, sid,
                 mask, lineVars>>

(* The server's close frame is in, or the connection is lost: readyState   *)
(* changes before onclose runs.                                            *)
BeginsClosing(n) ==
  /\ sock[n] = "open"
  /\ sock' = [sock EXCEPT ![n] = "closing"]
  /\ UNCHANGED <<started, disposed, retryVars, status, opened, sid, mask,
                 lineVars>>

(* onclose, which also ends a failed connect.                              *)
OnClose(n) ==
  /\ sock[n] \in {"connecting", "open", "closing"}
  /\ sock' = [sock EXCEPT ![n] = "closed"]
  /\ IF session # sid[n]
     THEN UNCHANGED <<retryVars, status>>
     ELSE /\ ws' = IF ws = n THEN 0 ELSE ws
          /\ UNCHANGED session
          /\ IF disposed
             THEN /\ opening' = FALSE
                  /\ status' = "disconnected"
                  /\ UNCHANGED <<attempt, timer>>
             ELSE IF timer # "none"
             THEN opening' = FALSE /\ UNCHANGED <<status, attempt, timer>>
             ELSE ScheduleReconnect(attempt)
  /\ UNCHANGED <<started, disposed, opened, sid, mask, lineVars>>

(* Fault: "ready" leaves the mask of the hop before.                       *)
MaskKept(f) == IF f = "unmask" THEN FALSE ELSE IF f = "mask" THEN TRUE ELSE mask

(* What onEchoMask is told.                                                *)
MaskAfter(f) ==
  IF f \in {"ready", "unmask"} THEN FALSE ELSE IF f = "mask" THEN TRUE ELSE mask

(* onmessage.  "ready" resets the backoff and the mask and flushes the     *)
(* queue; an echo frame sets the mask; the rest only changes the status.   *)
OnFrame(n, f) ==
  /\ sock[n] = "open"
  /\ ~disposed /\ session = sid[n] /\ ws = n
  /\ attempt' = IF f = "ready" THEN 0 ELSE attempt
  /\ status' = CASE f = "ready" -> "connected"
                 [] f = "error" -> "proxy_error"
                 [] f = "bad"   -> "bad_frame"
                 [] OTHER       -> status
  /\ mask' = MaskAfter(f)
  /\ IF f = "ready"
     THEN wire' = wire \o outbox /\ outbox' = <<>>
     ELSE UNCHANGED <<wire, outbox>>
  /\ UNCHANGED <<started, disposed, timer, session, opening, ws, hopVars,
                 entered>>

(* Queue a line; past the cap the oldest one goes.                         *)
Queued(box, line) ==
  IF Len(box) < OutboxCap THEN Append(box, line) ELSE Append(Tail(box), line)

(* Fault: an open WebSocket is enough.                                     *)
WsIsOpen == ws # 0 /\ sock[ws] = "open"

(* The early return of send() does not apply.                              *)
CanSend == ws # 0 /\ sock[ws] = "open" /\ status = "connected"

(* send() of a line that is not too long                                   *)
Send ==
  /\ started /\ ~disposed
  /\ entered < MaxLines
  /\ entered' = entered + 1
  /\ IF CanSend
     THEN wire' = Append(wire, entered + 1) /\ UNCHANGED outbox
     ELSE outbox' = Queued(outbox, entered + 1) /\ UNCHANGED wire
  /\ UNCHANGED <<started, disposed, retryVars, status, hopVars, mask>>

Next ==
  \/ Start \/ Stop \/ TimerFires \/ Send
  \/ \E n \in Hops :
       \/ OnOpen(n) \/ BeginsClosing(n) \/ OnClose(n)
       \/ \E f \in Frames : OnFrame(n, f)

Spec == Init /\ [][Next]_vars

(* Timers fire and the browser ends a connect and a close.  A server ends  *)
(* what it began: it answers a hello or drops the connection, and it       *)
(* closes after an error (server.ts does both, see ProxySession).          *)
Answers(n) ==
  /\ ws = n /\ status \in {"handshaking", "proxy_error"}
  /\ \/ status = "handshaking" /\ "ready" \in Frames /\ OnFrame(n, "ready")
     \/ BeginsClosing(n)
     \/ OnClose(n)

Fairness ==
  /\ WF_vars(TimerFires)
  /\ \A n \in Hops :
       /\ WF_vars(sock[n] = "connecting" /\ (OnOpen(n) \/ OnClose(n)))
       /\ WF_vars(sock[n] = "closing" /\ OnClose(n))
       /\ WF_vars(Answers(n))

FairSpec == Spec /\ Fairness

-----------------------------------------------------------------------------
(* At most one WebSocket is connecting or open, and it is this.ws: no      *)
(* order of timers, late closes and stop() leaves a second one connected,  *)
(* to answer the MUD's prompts twice (killSocket, open).                   *)
SingleSocket ==
  \A n \in Hops : sock[n] \in {"connecting", "open"} => n = ws

(* What will move the client on: a timer, or a WebSocket whose onclose is  *)
(* still to come and will be listened to.                                  *)
Pending ==
  \/ timer # "none"
  \/ ws # 0 /\ session = sid[ws] /\ sock[ws] \in {"connecting", "open", "closing"}

(* A client that was started is moving on exactly until it is stopped or   *)
(* gives up: the guards on timer, opening and session never swallow the    *)
(* last retry, and none starts after max_retries or stop() (open,          *)
(* scheduleReconnect, stop).                                               *)
RetryPending ==
  started => (Pending <=> ~disposed /\ status # "max_retries")

(* The lines entered keep their order and are never doubled, over any      *)
(* number of hops (send, flushOutbox).                                     *)
Lines == INSTANCE LineQueue WITH Cap <- OutboxCap, waiting <- outbox
ImplementsLineQueue == Lines!Spec

(* While hops remain in the bound, a client is connected (if to a server   *)
(* that does not speak the protocol), gives up or is stopped: the retries  *)
(* neither stall nor go on for ever without a ready (scheduleReconnect).   *)
Decided == status \in {"connected", "bad_frame", "max_retries"} \/ disposed
RetriesEnd ==
  (started /\ opened + MaxAttempts < MaxHops) ~> Decided
===============================================================================

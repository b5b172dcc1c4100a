----------------------------- MODULE ClientProxy -----------------------------
(***************************************************************************)
(* The web client's MudSocket joined to the proxy and the MUD behind it:   *)
(* every hop's WebSocket ends in a session of server.ts, which looks the   *)
(* destination up, sends "ready", and dials the MUD (bridge.ts).           *)
(*                                                                         *)
(* The proxy's side of a hop is one state; what it sent and the client has *)
(* not received yet is a queue of frames that ends in "close".             *)
(***************************************************************************)
EXTENDS MudSocket

CONSTANTS
  MudUp,         (* the MUD accepts TCP connections                        *)
  MaxDown,       (* bound: frames in flight to the client                  *)
  MaxUpsets      (* bound: resizes in the handshake, connections lost...   *)

ASSUME ClientProxyAssumption ==
  /\ MudUp \in BOOLEAN
  /\ MaxDown \in Nat /\ MaxUpsets \in Nat
  /\ Frames = {"ready", "error", "mask", "unmask"}

VARIABLES
  proxy,         (* the proxy's session of each hop                        *)
  down,          (* frames on the way to the client                        *)
  echo,          (* echoMask of each hop's bridge                          *)
  dialFails,     (* dials that failed since one succeeded                  *)
  upsets         (* upsets so far                                          *)

farVars == <<proxy, down, echo, dialFails, upsets>>
allVars == <<vars, farVars>>

FarInit ==
  /\ Init
  /\ proxy = [n \in Hops |-> "none"]
  /\ down = [n \in Hops |-> <<>>]
  /\ echo = [n \in Hops |-> FALSE]
  /\ dialFails = 0
  /\ upsets = 0

(* The URL is a valid one: a hop that is created begins to connect.        *)
ValidUrl == opened' # opened => sock'[opened'] = "connecting"

ClientStart == Start /\ ValidUrl /\ UNCHANGED farVars
ClientTimer == TimerFires /\ ValidUrl /\ UNCHANGED farVars
ClientStop  == Stop /\ UNCHANGED farVars
ClientSend  == Send /\ UNCHANGED farVars

(* Fault: the hello is answered before the destination is looked up.       *)
HopOpensReady(n) ==
  /\ OnOpen(n)
  /\ proxy' = [proxy EXCEPT ![n] = IF status' = "handshaking" THEN "resolving"
                                   ELSE "refused"]
  /\ down' = [down EXCEPT ![n] = Append(@, "ready")]
  /\ UNCHANGED <<echo, dialFails, upsets>>

(* The WebSocket is up and the hello is on its way: the proxy's handler    *)
(* will suspend in the lookup.                                             *)
HopOpens(n) ==
  /\ OnOpen(n)
  /\ proxy' = [proxy EXCEPT ![n] = IF status' = "handshaking" THEN "resolving"
                                   ELSE "refused"]
  /\ UNCHANGED <<down, echo, dialFails, upsets>>

(* The handler goes on: "ready" is sent, and only then the MUD is dialled. *)
LookupDone(n) ==
  /\ proxy[n] = "resolving"
  /\ proxy' = [proxy EXCEPT ![n] = "dialling"]
  /\ down' = [down EXCEPT ![n] = Append(@, "ready")]
  /\ UNCHANGED <<vars, echo, dialFails, upsets>>

(* sock "connect", or the error that destroys the bridge.                  *)
Dial(n) ==
  /\ proxy[n] = "dialling"
  /\ IF MudUp
     THEN /\ proxy' = [proxy EXCEPT ![n] = "joined"]
          /\ dialFails' = 0
          /\ UNCHANGED down
     ELSE /\ proxy' = [proxy EXCEPT ![n] = "gone"]
          /\ dialFails' = dialFails + 1
          /\ down' = [down EXCEPT ![n] = @ \o <<"error", "close">>]
  /\ UNCHANGED <<vars, echo, upsets>>

(* The MUD turns its echo option: the bridge tells the client a change.    *)
MudEcho(n, m) ==
  /\ proxy[n] = "joined" /\ echo[n] # m
  /\ Len(down[n]) < MaxDown
  /\ echo' = [echo EXCEPT ![n] = m]
  /\ down' = [down EXCEPT ![n] = Append(@, IF m THEN "mask" ELSE "unmask")]
  /\ UNCHANGED <<vars, proxy, dialFails, upsets>>

(* The MUD ends the connection.                                            *)
MudHangsUp(n) ==
  /\ proxy[n] = "joined" /\ upsets < MaxUpsets
  /\ upsets' = upsets + 1
  /\ proxy' = [proxy EXCEPT ![n] = "gone"]
  /\ down' = [down EXCEPT ![n] = Append(@, "close")]
  /\ UNCHANGED <<vars, echo, dialFails>>

(* The terminal is resized: TerminalHost sends a naws message on any open  *)
(* WebSocket.  A proxy that is still in the lookup takes it for a hello    *)
(* and closes; a bridge takes it for what it is.                           *)
ResizeInHandshake(n) ==
  /\ ws = n /\ sock[n] = "open" /\ ~disposed
  /\ proxy[n] = "resolving" /\ upsets < MaxUpsets
  /\ upsets' = upsets + 1
  /\ proxy' = [proxy EXCEPT ![n] = "refused"]
  /\ down' = [down EXCEPT ![n] = Append(@, "close")]
  /\ UNCHANGED <<vars, echo, dialFails>>

(* The proxy cannot be reached, or refuses the upgrade.                    *)
ConnectFails(n) ==
  /\ sock[n] = "connecting" /\ upsets < MaxUpsets
  /\ upsets' = upsets + 1
  /\ OnClose(n)
  /\ proxy' = [proxy EXCEPT ![n] = "refused"]
  /\ UNCHANGED <<down, echo, dialFails>>

(* The connection to the proxy is lost.                                    *)
NetDrops(n) ==
  /\ sock[n] = "open" /\ upsets < MaxUpsets
  /\ upsets' = upsets + 1
  /\ BeginsClosing(n)
  /\ proxy' = [proxy EXCEPT ![n] = IF @ = "resolving" THEN "refused" ELSE "gone"]
  /\ down' = [down EXCEPT ![n] = <<>>]
  /\ UNCHANGED <<echo, dialFails>>

(* The browser receives the next frame.                                    *)
Receive(n) ==
  /\ sock[n] = "open" /\ down[n] # <<>>
  /\ down' = [down EXCEPT ![n] = Tail(@)]
  /\ IF Head(down[n]) = "close" THEN BeginsClosing(n)
     ELSE OnFrame(n, Head(down[n]))
  /\ UNCHANGED <<proxy, echo, dialFails, upsets>>

(* onclose; the proxy's session ends with it.                              *)
HopCloses(n) ==
  /\ sock[n] = "closing"
  /\ OnClose(n)
  /\ proxy' = [proxy EXCEPT ![n] = IF @ \in {"resolving", "refused", "none"}
                                   THEN "refused" ELSE "gone"]
  /\ down' = [down EXCEPT ![n] = <<>>]
  /\ UNCHANGED <<echo, dialFails, upsets>>

FarNext ==
  \/ ClientStart \/ ClientTimer \/ ClientStop \/ ClientSend
  \/ \E n \in Hops :
       \/ HopOpens(n) \/ Receive(n) \/ HopCloses(n)
       \/ LookupDone(n) \/ Dial(n)
       \/ \E m \in BOOLEAN : MudEcho(n, m)
       \/ MudHangsUp(n) \/ ResizeInHandshake(n)
       \/ ConnectFails(n) \/ NetDrops(n)

FarSpec == FarInit /\ [][FarNext]_allVars

(* Timers, lookups, dials and frames arrive; users, resizes, the network   *)
(* and the MUD's hang-ups owe nothing.                                     *)
FarFairness ==
  /\ WF_allVars(ClientTimer)
  /\ \A n \in Hops :
       /\ WF_allVars(HopOpens(n)) /\ WF_allVars(Receive(n))
       /\ WF_allVars(HopCloses(n))
       /\ WF_allVars(LookupDone(n)) /\ WF_allVars(Dial(n))

FarFairSpec == FarSpec /\ FarFairness

-----------------------------------------------------------------------------
(* A client that thinks itself connected sends its lines to a bridge: the  *)
(* proxy's session of that hop is past its lookup, so that no line, queued *)
(* or typed, is taken for a hello (mudSocket.ts send, server.ts:174).      *)
LinesMeetABridge ==
  ws # 0 /\ status = "connected" /\ sock[ws] = "open" =>
    proxy[ws] \in {"dialling", "joined", "gone"}

(* Once all frames are in, the client's mask is that of the bridge it is   *)
(* connected to, and not one left over from an earlier hop                 *)
(* (mudSocket.ts:322, bridge.ts setEchoMask).                              *)
MaskAgrees ==
  (/\ ws # 0 /\ status = "connected" /\ sock[ws] = "open"
   /\ proxy[ws] = "joined" /\ down[ws] = <<>>) => mask = echo[ws]

(* With the MUD up, fewer upsets than retries cannot end the session: the  *)
(* client gets connected, whatever they interrupt.                         *)
GetsConnected == started ~> (status = "connected" \/ disposed)

(* mudSocket.ts:46, "Stop auto-retry after this many failures": the client *)
(* does not go on dialling a MUD that never answers.                       *)
DialsBounded == dialFails <= MaxAttempts + 1
===============================================================================

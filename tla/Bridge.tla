------------------------------- MODULE Bridge -------------------------------
(***************************************************************************)
(* apps/proxy/src/bridge.ts, bridgeWsToMud: one WebSocket joined to one    *)
(* TCP connection, with the telnet replies, the password mask, the MCCP2   *)
(* inflater and the PROXY header between them, and every way either side   *)
(* ends.                                                                   *)
(*                                                                         *)
(* The MUD's output is a sequence of items that is never shortened: got    *)
(* counts the items read from the socket, fed those that went through the  *)
(* telnet parser.  The items in between are inside the inflater.  A chunk  *)
(* is one item, or the MCCP2 marker with the item behind it as residual.   *)
(***************************************************************************)
EXTENDS Integers, Sequences, FiniteSets

CONSTANTS
  Options,       (* opts.proxyProtocol and opts.mccp, as a proxy sets them *)
  WireCap,       (* maxCompressedWireSession, in items                     *)
  SessionCap,    (* maxInflatedSession, in items                           *)
  WindowCap,     (* maxInflatedPerWindow, in items                         *)
  Sizes,         (* terminal sizes                                         *)
  MaxStream,     (* bound: items the MUD sends                             *)
  MaxInput,      (* bound: messages the client sends                       *)
  MaxTraffic     (* bound: both together                                   *)

ASSUME BridgeAssumption ==
  /\ Options \subseteq [proxy : BOOLEAN, mccp : BOOLEAN]
  /\ {WireCap, SessionCap, WindowCap, MaxStream, MaxInput, MaxTraffic} \subseteq Nat
  /\ Sizes # {}

(* What the MUD sends, as far as the bridge tells it apart: text, the two  *)
(* ways to switch the echo option (WILL/DO and WONT/DONT are treated       *)
(* alike), a request for the window size, the MCCP2 start marker.          *)
Kinds == {"text", "echoOn", "echoOff", "doNaws", "mccp"}

VARIABLES
  opts,          (* opts                                                   *)
  ws,            (* the WebSocket's readyState                             *)
  code,          (* the close code the bridge gave it, 0 for none          *)
  sock,          (* the TCP socket                                         *)
  closed,        (* closed                                                 *)
  finishing,     (* finishing                                              *)
  finTimer,      (* the two-second timer of finishInflateThenClose         *)
  compressed,    (* compressedMode                                         *)
  inflate,       (* the inflater                                           *)
  window,        (* inflatedWindow                                         *)
  echoMask,      (* echoMask                                               *)
  size,          (* cols and rows                                          *)
  appReady,      (* tcpAppReady                                            *)
  queue,         (* tcpAppQueue                                            *)
  stream,        (* what the MUD has sent                                  *)
  fin,           (* how the MUD ended its output                           *)
  got,           (* items read                                             *)
  fed,           (* items parsed                                           *)
  shown,         (* text items forwarded to the client                     *)
  told,          (* the mask the client was last told                      *)
  input,         (* messages received from the client                      *)
  lines,         (* lines among them                                       *)
  toMud          (* what was written to the TCP connection                 *)

wsVars    == <<ws, code>>
endVars   == <<finishing, finTimer>>
mccpVars  == <<compressed, inflate, window>>
tcpVars   == <<appReady, queue, toMud>>
mudVars   == <<opts, stream, fin>>
viewVars  == <<echoMask, shown, told>>
inputVars == <<size, input, lines>>
vars == <<wsVars, sock, closed, endVars, mccpVars, tcpVars, mudVars, got, fed,
          viewVars, inputVars>>

(* bridgeWsToMud is called right after the session sent "ready"; the       *)
(* client may already have begun to close, or have closed during the       *)
(* lookup, of which no event will tell.                                    *)
Init ==
  /\ opts \in Options
  /\ ws \in {"open", "closing", "closed"} /\ code = 0
  /\ sock = "connecting"
  /\ closed = FALSE /\ finishing = FALSE /\ finTimer = FALSE
  /\ compressed = FALSE /\ inflate = "none" /\ window = 0
  /\ echoMask = FALSE /\ told = FALSE
  /\ size \in Sizes
  /\ appReady = ~opts.proxy
  /\ queue = <<>> /\ toMud = <<>>
  /\ stream = <<>> /\ fin = "no" /\ got = 0 /\ fed = 0
  /\ shown = {}
  /\ input = 0 /\ lines = 0

-----------------------------------------------------------------------------
(* ws.close(c)                                                             *)
CloseWs(c) ==
  IF ws = "open" THEN ws' = "closing" /\ code' = c ELSE UNCHANGED wsVars

(* What a sendTcp of each item leaves on the wire.                         *)
Written(items) == IF sock = "up" /\ appReady /\ ~closed THEN toMud \o items
                  ELSE toMud

(* sendTcp.  Before the connection is up with no header to write, Node     *)
(* keeps what is written for it; a write after the peer's FIN makes the    *)
(* socket fail, which the bridge learns from its error event.              *)
SendTcp(items) ==
  IF closed \/ sock \in {"failing", "destroyed"} \/ items = <<>>
  THEN UNCHANGED <<queue, toMud, sock>>
  ELSE IF ~appReady
  THEN queue' = queue \o items /\ UNCHANGED <<toMud, sock>>
  ELSE IF sock = "ended"
  THEN sock' = "failing" /\ UNCHANGED <<queue, toMud>>
  ELSE toMud' = toMud \o items /\ UNCHANGED <<queue, sock>>

(* What destroy, and ws.close and sock.write within one handler, write.     *)
bridgeVars == <<wsVars, sock, closed, inflate, queue, toMud>>

(* destroy, with "items" written just before in the same handler           *)
DestroyAfter(items) ==
  IF closed
  THEN UNCHANGED bridgeVars
  ELSE /\ closed' = TRUE
       /\ queue' = <<>>
       /\ toMud' = Written(items)
       /\ inflate' = IF inflate = "none" THEN "none" ELSE "destroyed"
       /\ CloseWs(1011)
       /\ sock' = "destroyed"

Destroy == DestroyAfter(<<>>)

(* The telnet replies to an item (replyToNegotiation, naws).               *)
Replies(kind) ==
  CASE kind = "text"   -> <<>>
    [] kind = "doNaws" -> <<<<"reply">>, <<"naws", size>>>>
    [] OTHER           -> <<<<"reply">>>>

MaskAfter(kind) ==
  CASE kind = "echoOn" -> TRUE [] kind = "echoOff" -> FALSE [] OTHER -> echoMask

(* Fault: only a mask that is switched on is told.                         *)
MakesFrameWhenOn(kind) ==
  ws = "open" /\ ~closed /\ (kind = "text" \/ (MaskAfter(kind) /\ ~echoMask))

(* The WebSocket frame an item gives rise to: its text, or a mask that     *)
(* differs from the one before.                                            *)
MakesFrame(kind) ==
  ws = "open" /\ ~closed /\ (kind = "text" \/ MaskAfter(kind) # echoMask)

(* handleEvents for item i.  Its replies go out first; a frame over the    *)
(* outbound budget destroys the bridge instead of being sent.              *)
HandleEvent(i) ==
  LET kind == stream[i] IN
  /\ echoMask' = MaskAfter(kind)
  /\ \/ /\ MakesFrame(kind)
        /\ DestroyAfter(Replies(kind))
        /\ UNCHANGED <<shown, told>>
     \/ /\ SendTcp(Replies(kind))
        /\ shown' = IF MakesFrame(kind) /\ kind = "text" THEN shown \cup {i}
                    ELSE shown
        /\ told' = IF MakesFrame(kind) THEN MaskAfter(kind) ELSE told
        /\ UNCHANGED <<wsVars, closed, inflate>>

-----------------------------------------------------------------------------
(* Fault: the queue is flushed before the header.                          *)
QueueThenHeader == IF opts.proxy THEN queue \o <<<<"header">>>> ELSE toMud

(* What is on the wire once the connection is up.                          *)
HeaderThenQueue == IF opts.proxy THEN <<<<"header">>>> \o queue ELSE toMud

(* sock "connect": the header first, then what was queued behind it.       *)
Connect ==
  /\ sock = "connecting"
  /\ sock' = "up"
  /\ appReady' = TRUE
  /\ queue' = <<>>
  /\ toMud' = HeaderThenQueue
  /\ UNCHANGED <<wsVars, closed, endVars, mccpVars, mudVars, got, fed,
                 viewVars, inputVars>>

(* The MUD writes, and ends: with its zlib stream finished, or cut.        *)
MudSends(kind) ==
  /\ sock = "up" /\ fin = "no" /\ Len(stream) < MaxStream /\ Len(stream) + input < MaxTraffic
  /\ kind = "mccp" => \A i \in 1..Len(stream) : stream[i] # "mccp"
  /\ stream' = Append(stream, kind)
  /\ UNCHANGED <<wsVars, sock, closed, endVars, mccpVars, tcpVars, opts, fin, got, fed,
                 viewVars, inputVars>>

MudEnds(how) ==
  /\ sock = "up" /\ fin = "no"
  /\ fin' = how
  /\ UNCHANGED <<wsVars, sock, closed, endVars, mccpVars, tcpVars, opts, stream, got, fed,
                 viewVars, inputVars>>

(* sock "data" before compression: the item is parsed at once.             *)
PlainData ==
  /\ sock = "up" /\ ~closed /\ ~compressed
  /\ got < Len(stream) /\ stream[got + 1] # "mccp"
  /\ got' = got + 1 /\ fed' = got + 1
  /\ HandleEvent(got + 1)
  /\ UNCHANGED <<endVars, appReady, compressed, window, mudVars, inputVars>>

(* sock "data" that completes the marker.  The residual is compressed      *)
(* bytes already.                                                          *)
MccpStart ==
  /\ sock = "up" /\ ~closed /\ ~compressed
  /\ got < Len(stream) /\ stream[got + 1] = "mccp"
  /\ fed' = got + 1
  /\ UNCHANGED <<endVars, window, appReady, mudVars, viewVars, inputVars>>
  /\ IF ~opts.mccp
     THEN /\ Destroy
          /\ got' = got + 1
          /\ UNCHANGED compressed
     ELSE /\ compressed' = TRUE
          /\ \E residual \in 0..1 :
               /\ got + 1 + residual <= Len(stream)
               /\ got' = got + 1 + residual
               /\ IF residual <= WireCap
                  THEN /\ inflate' = "live"
                       /\ UNCHANGED <<wsVars, sock, closed, queue, toMud>>
                  ELSE Destroy

(* The items behind the marker that were read, and that were inflated.     *)
Marker     == CHOOSE i \in 1..Len(stream) : stream[i] = "mccp"
WireRead   == got - Marker
Inflated   == fed - Marker

(* sock "data" in compressed mode: never parsed, written to the inflater   *)
(* unless that passes the wire cap.                                        *)
CompressedData ==
  /\ sock = "up" /\ ~closed /\ compressed
  /\ got < Len(stream)
  /\ UNCHANGED <<endVars, compressed, window, appReady, mudVars, fed,
                 viewVars, inputVars>>
  /\ IF WireRead + 1 <= WireCap
     THEN got' = got + 1 /\ UNCHANGED bridgeVars
     ELSE UNCHANGED got /\ Destroy

(* addCap of both caps on inflated output.                                 *)
WithinCaps(before) == Inflated + 1 <= SessionCap /\ before + 1 <= WindowCap

(* The inflater emits an item: feedDecompressed.                           *)
InflateData ==
  /\ inflate \in {"live", "ending"} /\ ~closed
  /\ fed < got
  /\ UNCHANGED <<endVars, appReady, compressed, mudVars, got, inputVars>>
  /\ \E expired \in BOOLEAN :
       LET before == IF expired THEN 0 ELSE window IN
       IF WithinCaps(before)
       THEN /\ window' = before + 1
            /\ fed' = fed + 1
            /\ HandleEvent(fed + 1)
       ELSE /\ window' = before
            /\ Destroy
            /\ UNCHANGED <<fed, viewVars>>

(* The inflater fails on what it was given.                                *)
InflateError ==
  /\ inflate \in {"live", "ending"} /\ ~closed
  /\ Destroy
  /\ UNCHANGED <<endVars, compressed, window, appReady, mudVars, got, fed,
                 viewVars, inputVars>>

(* sock "end": finishInflateThenClose.                                     *)
SockEnd ==
  /\ sock = "up" /\ fin # "no" /\ got = Len(stream) /\ ~closed
  /\ sock' = "ended"
  /\ finishing' = TRUE
  /\ IF inflate = "live"
     THEN /\ inflate' = "ending" /\ finTimer' = TRUE
          /\ UNCHANGED <<wsVars, closed>>
     ELSE /\ closed' = TRUE
          /\ CloseWs(1000)
          /\ UNCHANGED <<inflate, finTimer>>
  /\ UNCHANGED <<compressed, window, tcpVars, mudVars, got, fed, viewVars,
                 inputVars>>

(* Fault: an error while flushing counts as the end.                       *)
InflateEndAnyway ==
  /\ inflate = "ending" /\ ~closed /\ fed = got
  /\ closed' = TRUE
  /\ CloseWs(1000)
  /\ UNCHANGED <<sock, inflate, queue, toMud>>
  /\ UNCHANGED <<endVars, compressed, window, appReady, mudVars, got, fed,
                 viewVars, inputVars>>

(* The inflater has flushed: "end" after a finished zlib stream, "error"   *)
(* after one that was cut.                                                 *)
InflateEnd ==
  /\ inflate = "ending" /\ ~closed /\ fed = got
  /\ IF fin = "clean"
     THEN /\ closed' = TRUE
          /\ CloseWs(1000)
          /\ UNCHANGED <<sock, inflate, queue, toMud>>
     ELSE Destroy
  /\ UNCHANGED <<endVars, compressed, window, appReady, mudVars, got, fed,
                 viewVars, inputVars>>

(* Fault: the timer of a hung inflater does nothing.                       *)
FinTimeoutIgnored ==
  /\ finTimer
  /\ finTimer' = FALSE
  /\ UNCHANGED <<bridgeVars, finishing, compressed, window, appReady, mudVars,
                 got, fed, viewVars, inputVars>>

(* The two seconds of finishInflateThenClose are over.                     *)
FinTimeout ==
  /\ finTimer
  /\ finTimer' = FALSE
  /\ Destroy
  /\ UNCHANGED <<finishing, compressed, window, appReady, mudVars, got, fed,
                 viewVars, inputVars>>

(* sock "error": the connect fails, the connection is reset, or a write    *)
(* came after the MUD's FIN.                                               *)
SockError ==
  /\ sock \in {"connecting", "up", "failing"}
  /\ IF closed
     THEN sock' = "destroyed" /\ UNCHANGED <<wsVars, closed, inflate, queue, toMud>>
     ELSE Destroy
  /\ UNCHANGED <<endVars, compressed, window, appReady, mudVars, got, fed,
                 viewVars, inputVars>>

(* An ended socket is destroyed by Node once its own side is flushed.      *)
SockClose ==
  /\ sock = "ended"
  /\ sock' = "destroyed"
  /\ UNCHANGED <<wsVars, closed, endVars, mccpVars, tcpVars, mudVars, got, fed,
                 viewVars, inputVars>>

Line(n) == <<"line", n>>

(* ws "message": over the inbound budget the bridge is destroyed; a        *)
(* message that is too long is dropped; a naws or resize message changes   *)
(* the size and is passed on; anything else is a line.                     *)
ClientMessage ==
  /\ ws # "closed" /\ ~closed /\ input < MaxInput /\ Len(stream) + input < MaxTraffic
  /\ input' = input + 1
  /\ UNCHANGED <<wsVars, closed, endVars, mccpVars, appReady, mudVars, got, fed,
                 viewVars>>
  /\ \/ UNCHANGED <<sock, queue, toMud, size, lines>>
     \/ \E s \in Sizes :
          /\ size' = s
          /\ SendTcp(<<<<"naws", s>>>>)
          /\ UNCHANGED lines
     \/ /\ lines' = lines + 1
        /\ SendTcp(<<Line(lines + 1)>>)
        /\ UNCHANGED size

ClientOverBudget ==
  /\ ws # "closed" /\ ~closed /\ input < MaxInput /\ Len(stream) + input < MaxTraffic
  /\ input' = input + 1
  /\ Destroy
  /\ UNCHANGED <<endVars, compressed, window, appReady, mudVars, got, fed,
                 viewVars, size, lines>>

(* ws "close": the client leaves, or a close that was begun completes.     *)
OnWsClose ==
  /\ ws' = "closed"
  /\ closed' = TRUE
  /\ inflate' = IF inflate = "none" THEN "none" ELSE "destroyed"
  /\ sock' = "destroyed"
  /\ UNCHANGED <<code, finishing, finTimer, compressed, window, tcpVars,
                 mudVars, got, fed, viewVars, inputVars>>

ClientCloses   == ws = "open" /\ OnWsClose
CloseCompletes == ws = "closing" /\ OnWsClose

Next ==
  \/ Connect \/ PlainData \/ MccpStart \/ CompressedData
  \/ InflateData \/ InflateError \/ InflateEnd
  \/ SockEnd \/ SockError \/ SockClose \/ FinTimeout
  \/ ClientMessage \/ ClientOverBudget \/ ClientCloses \/ CloseCompletes
  \/ \E kind \in Kinds : MudSends(kind)
  \/ \E how \in {"clean", "cut"} : MudEnds(how)

Spec == Init /\ [][Next]_vars

(* Node delivers what a connection has for the bridge, timers fire, and    *)
(* ws ends a close that was begun.  The client and the MUD owe nothing,    *)
(* and the inflater may hang: that is what the two-second timer is for.    *)
Fairness ==
  /\ WF_vars(PlainData) /\ WF_vars(MccpStart) /\ WF_vars(CompressedData)
  /\ WF_vars(SockEnd) /\ WF_vars(SockClose) /\ WF_vars(FinTimeout)
  /\ WF_vars(sock = "failing" /\ SockError)
  /\ WF_vars(CloseCompletes)

FairSpec == Spec /\ Fairness

-----------------------------------------------------------------------------
Texts == {i \in 1..Len(stream) : stream[i] = "text"}

(* "mud closed" (1000) tells the client that it saw all the MUD had to     *)
(* say: every text of the whole stream was forwarded, and a compressed     *)
(* stream was not cut short (bridge.ts finishInflateThenClose).            *)
CleanCloseIsComplete ==
  code = 1000 => shown = Texts /\ (compressed => fin = "clean")

(* As long as a WebSocket is open its client knows the mask: no path of    *)
(* setEchoMask's deduplication, of the inflater or of a dropped frame      *)
(* leaves a password prompt unmasked (bridge.ts setEchoMask).              *)
MaskIsTold == ws = "open" /\ ~closed => told = echoMask

IsLine(item) == item[1] = "line"
ToMudSoon    == toMud \o queue
Writable     == ~closed /\ sock \in {"connecting", "up"}

(* The client's lines reach the MUD in order, none twice and none left     *)
(* out, behind the PROXY header if there is one, and none is lost while    *)
(* the connection takes writes, whether they had to wait for it to be up   *)
(* or not (bridge.ts:188, sendTcp, flushTcpAppQueue).                      *)
LinesInOrder ==
  LET sent == ToMudSoon IN
  /\ \A i \in 1..Len(sent) : IsLine(sent[i]) =>
       /\ sent[i][2] \in 1..lines
       /\ \A n \in 1..lines :
            n < sent[i][2] <=> \E j \in 1..(i - 1) : sent[j] = Line(n)
  /\ Writable => \A n \in 1..lines : \E i \in 1..Len(sent) : sent[i] = Line(n)
  /\ \A i \in 1..Len(toMud) : (toMud[i] = <<"header">>) <=> (opts.proxy /\ i = 1)

(* When one side is gone so is, in the end, the other: whichever of error, *)
(* FIN, hung inflater and WebSocket close comes first (bridge.ts destroy,  *)
(* finishInflateThenClose).  A WebSocket that had closed before is no end  *)
(* the bridge is told of, and nothing is promised of it: "closed" is set   *)
(* by every other one.                                                     *)
BothSidesEnd ==
  (closed \/ sock \in {"ended", "failing", "destroyed"})
    ~> (sock = "destroyed" /\ ws = "closed")
===============================================================================

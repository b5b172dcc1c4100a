---------------------------- MODULE ChunkedStream -----------------------------
(***************************************************************************)
(* A stream that reaches a parser in chunks, cut wherever the network cuts *)
(* it.  The browser's parsers live as long as the URL, not the connection  *)
(* (TerminalHost.tsx resets them in the effect of wsUrl), so they may hold *)
(* what a lost connection left.                                            *)
(***************************************************************************)
EXTENDS StreamParsers, FiniteSetsExt

CONSTANTS
  MaxStream,  (* bound: bytes in a stream                                  *)
  MaxLeft     (* bound: bytes of the connection before                     *)

StreamAssumption ==
  /\ {MaxBuf, MaxSb, MaxStream, MaxLeft} \subseteq Nat
  /\ MaxSb >= 3

Parsers == {"telnet", "mccp", "big5", "ansi", "lines"}

Alphabet(parser) ==
  CASE parser = "telnet" -> {"IAC", "WILL", "SB", "SE", "x"}
    [] parser = "mccp"   -> {"IAC", "SB", "SE", "MCCP2"}
    [] parser = "big5"   -> {"high", "letter", "LF"}
    [] parser = "ansi"   -> {"ESC", "[", "digit", "letter", "LF"}
    [] parser = "lines"  -> {"letter", "CR", "LF"}

Push(parser, held, chunk) ==
  CASE parser = "telnet" -> PushTelnet(held, chunk, FALSE)
    [] parser = "mccp"   -> PushTelnet(held, chunk, TRUE)
    [] parser = "big5"   -> PushBig5(held, chunk)
    [] parser = "ansi"   -> PushAnsi(held, chunk)
    [] parser = "lines"  -> PushLines(held, chunk)

Step(parser, p, byte) ==
  CASE parser = "telnet" -> TelnetStep(FALSE, p, byte)
    [] parser = "mccp"   -> TelnetStep(TRUE, p, byte)
    [] parser = "big5"   -> Big5Step(p, byte)
    [] parser = "ansi"   -> AnsiStep(p, byte)
    [] parser = "lines"  -> LineStep(p, byte)

Reference(parser, stream) ==
  FoldLeft(LAMBDA p, byte : Step(parser, p, byte), Give(<<>>, <<>>), stream).out

(* A parser of the proxy is made for one connection.                       *)
LeftBehind(parser) ==
  IF parser \in {"telnet", "mccp"} THEN {<<>>}
  ELSE {Push(parser, <<>>, stream).held :
          stream \in UNION {[1..n -> Alphabet(parser)] : n \in 1..MaxLeft}} \cup {<<>>}

VARIABLES
  parser,  (* which parser                                                 *)
  stream,  (* what the MUD sends on this connection                        *)
  fed,     (* how much of it has come                                      *)
  held,    (* buf, pending, ansiResidual or lineAcc                        *)
  out,     (* events, characters, tokens or lines it gave                  *)
  left     (* what it held when the connection began                       *)

vars == <<parser, stream, fed, held, out, left>>

Init ==
  /\ parser \in Parsers
  /\ stream \in [1..MaxStream -> Alphabet(parser)]
  /\ left \in LeftBehind(parser)
  /\ fed = 0
  /\ held = left
  /\ out = <<>>

Chunk ==
  /\ fed < Len(stream)
  /\ \E n \in (fed + 1)..Len(stream) :
       LET p == Push(parser, held, SubSeq(stream, fed + 1, n))
       IN  /\ fed' = n
           /\ held' = p.held
           /\ out' = out \o p.out
  /\ UNCHANGED <<parser, stream, left>>

Next == Chunk

Spec == Init /\ [][Next]_vars

-----------------------------------------------------------------------------
(* However the stream is cut, a parser gives what a machine that reads it  *)
(* byte by byte gives, unless Telnet dropped a chunk or a subnegotiation   *)
(* that is too long.                                                       *)
Dropped == \E i \in DOMAIN out : out[i][1] = "lost"

ChunksDontMatter ==
  left = <<>> /\ ~Dropped =>
    out = Reference(parser, SubSeq(stream, 1, fed))

(* Half a character, sequence or line that a lost connection left behind   *)
(* spoils at most what comes before the first line feed of the next.       *)
AfterLineFeed == Rest(stream, SelectInSeq(stream, LAMBDA b : b = "LF") + 1)

LeftoverEndsAtLineFeed ==
  fed = Len(stream) /\ Contains(stream, "LF") =>
    IsSuffix(Reference(parser, AfterLineFeed), out)
===============================================================================

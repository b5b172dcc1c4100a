----------------------------- MODULE MCTerminal ------------------------------
(* The screen, and the parsers in front of it.  They share no variable: an *)
(* execution is of one of the two, while the other does not begin.         *)
EXTENDS TerminalView

CONSTANTS MaxStream, MaxLeft, MaxBuf, MaxSb
VARIABLES part, parser, stream, fed, held, out, left

bytesVars == <<parser, stream, fed, held, out, left>>

Bytes == INSTANCE ChunkedStream

ASSUME BytesAssumption == Bytes!StreamAssumption

BytesIdle ==
  /\ parser = None /\ stream = <<>> /\ fed = 0 /\ held = <<>> /\ out = <<>>
  /\ left = <<>>

BothInit ==
  /\ Init
  /\ \/ part = "view"  /\ BytesIdle
     \/ part = "bytes" /\ Bytes!Init /\ screen.rows = Min(Heights)

BothNext ==
  \/ part = "view"  /\ Next       /\ UNCHANGED <<part, bytesVars>>
  \/ part = "bytes" /\ Bytes!Next /\ UNCHANGED <<part, vars>>

BothSpec == BothInit /\ [][BothNext]_<<part, vars, bytesVars>>

ChunksDontMatter       == part = "bytes" => Bytes!ChunksDontMatter
LeftoverEndsAtLineFeed == part = "bytes" => Bytes!LeftoverEndsAtLineFeed
===============================================================================

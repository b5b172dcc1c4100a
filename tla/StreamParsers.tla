---------------------------- MODULE StreamParsers -----------------------------
(***************************************************************************)
(* The parsers a MUD's output goes through, chunk by chunk: Telnet in the  *)
(* proxy (packages/protocol/src/telnet.ts, until MCCP starts or for good), *)
(* then in the browser Big5 (packages/codec-big5/src/index.ts), ANSI       *)
(* sequences (packages/vt/src/sgr.ts) and lines (TerminalHost.tsx).        *)
(*                                                                         *)
(* A parser is what it holds between two chunks, and Push a function from  *)
(* that and a chunk to what it holds then and what it gives.  Each scans   *)
(* held and new bytes again from the start, as the code does.  Reference   *)
(* is a second definition of each, a machine that takes a byte at a time.  *)
(* Bytes are named for what they are to the parser.                        *)
(***************************************************************************)
EXTENDS Integers, Sequences, SequencesExt

CONSTANTS
  MaxBuf,  (* MAX_BUF                                                      *)
  MaxSb    (* MAX_SB                                                       *)

Rest(s, i) == SubSeq(s, i, Len(s))

Give(held, out) == [held |-> held, out |-> out]

-----------------------------------------------------------------------------
(* TelnetParser.consume: from index i on, with the data since the last     *)
(* event in data.  Data counts byte by byte.                               *)
Negotiation == {"WILL", "DONT"}

Data(bytes) == [k \in DOMAIN bytes |-> <<"data", bytes[k]>>]

EndsSb(buf, j) == j < Len(buf) /\ buf[j] = "IAC" /\ buf[j + 1] = "SE"

(* The scan for IAC SE stops at it, at the last byte, or too far.          *)
ScanSb(buf, i) ==
  CHOOSE j \in (i + 2)..(Len(buf) + 1) :
    LET Stops(k) == k >= Len(buf) \/ k = i + MaxSb + 1 \/ EndsSb(buf, k)
    IN  Stops(j) /\ \A k \in (i + 2)..(j - 1) : ~Stops(k)

RECURSIVE Consume(_, _, _, _, _)
Consume(buf, i, data, out, until_mccp) ==
  LET all  == out \o Data(data)
      Go(k, more, events) == Consume(buf, k, more, events, until_mccp)
      Hold == Give(Rest(buf, i), all)
      Sb(b, from, j, events) ==
        LET event == <<"SB", SubSeq(b, from + 2, j - 1)>>
        IN  IF until_mccp /\ b[from + 2] = "MCCP2"
            THEN Give("zlib", Append(events, event)
                                \o [k \in 1..(Len(b) - j - 1) |-> <<"zlib", b[j + 1 + k]>>])
            ELSE Consume(b, j + 2, <<>>, Append(events, event), until_mccp)
      TooLong(j) ==
        LET cut  == Rest(buf, j)
            lost == Append(out, <<"lost", i>>)
        IN  IF j >= Len(cut) THEN Give(cut, lost)
            ELSE IF EndsSb(cut, j) THEN Sb(cut, 1, j, lost)
            ELSE Consume(cut, 1, <<>>, lost, until_mccp)
  IN
  IF i > Len(buf) THEN Give(<<>>, all)
  ELSE IF buf[i] # "IAC" THEN Go(i + 1, Append(data, buf[i]), out)
  ELSE IF i = Len(buf) THEN Hold
  ELSE CASE buf[i + 1] = "IAC" -> Go(i + 2, Append(data, "IAC"), out)
         [] buf[i + 1] \in Negotiation ->
              IF i + 2 > Len(buf) THEN Hold
              ELSE Go(i + 3, <<>>, Append(all, <<buf[i + 1], buf[i + 2]>>))
         [] buf[i + 1] = "SB" ->
              LET j == ScanSb(buf, i)
              IN  IF j > i + MaxSb THEN TooLong(j)
                  ELSE IF EndsSb(buf, j) THEN Sb(buf, i, j, all)
                  ELSE Hold
         [] OTHER -> Go(i + 2, data, out)

(* push, pushUntilMccpStart; behind the start the bytes are the inflater's. *)
PushTelnet(held, chunk, until_mccp) ==
  IF held = "zlib" THEN Give(held, [k \in DOMAIN chunk |-> <<"zlib", chunk[k]>>])
  ELSE IF Len(held) + Len(chunk) > MaxBuf THEN Give(<<>>, <<<<"lost", 0>>>>)
  ELSE Consume(held \o chunk, 1, <<>>, <<>>, until_mccp)

(* The reference: a byte in a state, which is the command so far.          *)
TelnetStep(until_mccp, p, byte) ==
  LET so_far == Append(p.held, byte)
      Emit(event) == Give(<<>>, Append(p.out, event))
      Wait == Give(so_far, p.out)
  IN CASE p.held = "zlib" -> Give("zlib", Append(p.out, <<"zlib", byte>>))
       [] p.held = <<>>   -> IF byte = "IAC" THEN Wait ELSE Emit(<<"data", byte>>)
       [] p.held = <<"IAC">> ->
            IF byte = "IAC" THEN Emit(<<"data", byte>>)
            ELSE IF byte \in Negotiation \cup {"SB"} THEN Wait
            ELSE Give(<<>>, p.out)
       [] OTHER ->
            IF p.held[2] # "SB" THEN Emit(<<p.held[2], byte>>)
            ELSE IF byte # "SE" \/ Len(p.held) < 3 \/ Last(p.held) # "IAC" THEN Wait
            ELSE LET sb == SubSeq(p.held, 3, Len(p.held) - 1)
                     on == until_mccp /\ sb # <<>> /\ sb[1] = "MCCP2"
                 IN  Give(IF on THEN "zlib" ELSE <<>>, Append(p.out, <<"SB", sb>>))

-----------------------------------------------------------------------------
(* Big5StreamDecoder.push.  A lead byte that no trail byte follows is      *)
(* skipped.  "high" is a lead and a trail byte, "letter" a trail byte and  *)
(* ASCII, the rest are ASCII and no trail byte.                            *)
IsTrail(byte) == byte \in {"high", "letter"}

RECURSIVE Decode(_, _, _)
Decode(bytes, i, out) ==
  IF i > Len(bytes) THEN Give(<<>>, out)
  ELSE IF bytes[i] # "high" THEN Decode(bytes, i + 1, Append(out, <<bytes[i]>>))
  ELSE IF i = Len(bytes) THEN Give(<<"high">>, out)
  ELSE IF IsTrail(bytes[i + 1])
  THEN Decode(bytes, i + 2, Append(out, <<"high", bytes[i + 1]>>))
  ELSE Decode(bytes, i + 1, out)

PushBig5(pending, chunk) ==
  IF pending = <<>> THEN Decode(chunk, 1, <<>>)
  ELSE IF IsTrail(chunk[1]) THEN Decode(chunk, 2, <<<<"high", chunk[1]>>>>)
  ELSE Decode(chunk, 1, <<>>)

(* The reference.                                                          *)
Big5Step(p, byte) ==
  CASE p.held = <<"high">> /\ IsTrail(byte) ->
         Give(<<>>, Append(p.out, <<"high", byte>>))
    [] (p.held = <<>> \/ ~IsTrail(byte)) /\ byte = "high" -> Give(<<"high">>, p.out)
    [] OTHER -> Give(<<>>, Append(p.out, <<byte>>))

-----------------------------------------------------------------------------
(* tokenizeAnsi, with the residual of ScreenBuffer.writeDecoded.  A        *)
(* sequence without a final byte is taken as the text it looks like.       *)
IsFinal(char) == char \in {"letter", "["}

(* Fault: a sequence goes on over whatever cannot end it.                  *)
EndOfParamsAtFinal(text, i) ==
  LET stop == {j \in (i + 2)..Len(text) : IsFinal(text[j])}
  IN  IF stop = {} THEN Len(text) + 1
      ELSE CHOOSE j \in stop : \A k \in stop : j <= k

EndOfParams(text, i) ==
  LET stop == {j \in (i + 2)..Len(text) : text[j] # "digit"}
  IN  IF stop = {} THEN Len(text) + 1
      ELSE CHOOSE j \in stop : \A k \in stop : j <= k

(* From index i on, behind what is already out.                            *)
RECURSIVE Tokenize(_, _, _)
Tokenize(text, i, out) ==
  IF i > Len(text) THEN Give(<<>>, out)
  ELSE IF text[i] # "ESC" THEN Tokenize(text, i + 1, Append(out, <<"text", text[i]>>))
  ELSE IF i = Len(text) THEN Give(<<"ESC">>, out)
  ELSE IF text[i + 1] # "[" THEN Tokenize(text, i + 1, Append(out, <<"control", "ESC">>))
  ELSE LET j == EndOfParams(text, i) IN
       IF j > Len(text) THEN Give(Rest(text, i), out)
       ELSE IF IsFinal(text[j])
       THEN Tokenize(text, j + 1, Append(out, <<"csi", SubSeq(text, i + 2, j)>>))
       ELSE Tokenize(text, i + 1, Append(out, <<"text", "ESC">>))

(* Fault: what is held is painted as text.                                 *)
PushAnsiAsText(residual, chunk) ==
  Tokenize(chunk, 1, [k \in DOMAIN residual |-> <<"text", residual[k]>>])

PushAnsi(residual, chunk) == Tokenize(residual \o chunk, 1, <<>>)

(* The reference.                                                          *)
AnsiStep(p, char) ==
  LET Text(chars) == [k \in DOMAIN chars |-> <<"text", chars[k]>>]
      Emit(tokens) == IF char = "ESC" THEN Give(<<"ESC">>, p.out \o tokens)
                      ELSE Give(<<>>, Append(p.out \o tokens, <<"text", char>>))
  IN CASE p.held = <<>>      -> Emit(<<>>)
       [] p.held = <<"ESC">> -> IF char = "[" THEN Give(<<"ESC", "[">>, p.out)
                                ELSE Emit(<<<<"control", "ESC">>>>)
       [] OTHER ->
            IF char = "digit" THEN Give(Append(p.held, char), p.out)
            ELSE IF IsFinal(char)
            THEN Give(<<>>, Append(p.out, <<"csi", Append(Rest(p.held, 3), char)>>))
            ELSE Emit(Text(p.held))

-----------------------------------------------------------------------------
(* onBinary's lineAcc: split(/\r?\n/), empty lines not reported.           *)
WithoutCr(line) ==
  IF line # <<>> /\ Last(line) = "CR" THEN Front(line) ELSE line

RECURSIVE Split(_, _, _, _)
Split(text, i, line, out) ==
  IF i > Len(text) THEN Give(line, out)
  ELSE IF text[i] # "LF" THEN Split(text, i + 1, Append(line, text[i]), out)
  ELSE LET full == WithoutCr(line)
       IN  Split(text, i + 1, <<>>, IF full = <<>> THEN out ELSE Append(out, full))

PushLines(acc, chunk) == Split(acc \o chunk, 1, <<>>, <<>>)

(* The reference.                                                          *)
LineStep(p, char) ==
  CASE char = "LF" /\ WithoutCr(p.held) = <<>> -> Give(<<>>, p.out)
    [] char = "LF" -> Give(<<>>, Append(p.out, WithoutCr(p.held)))
    [] OTHER       -> Give(Append(p.held, char), p.out)
===============================================================================

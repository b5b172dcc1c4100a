---------------------------- MODULE Bridge_proofs ----------------------------
(***************************************************************************)
(* Theorems about Bridge, for every configuration, every size of its caps, *)
(* and every interleaving of the two sides and the inflater.               *)
(***************************************************************************)
EXTENDS Bridge, SequenceTheorems, TLAPS

Items ==
  {<<"header">>, <<"reply">>} \cup ({"line"} \X Nat) \cup ({"naws"} \X Sizes)

ControlTypes ==
  /\ opts \in [proxy : BOOLEAN, mccp : BOOLEAN]
  /\ ws \in {"open", "closing", "closed"} /\ code \in {0, 1000, 1011}
  /\ sock \in {"connecting", "up", "ended", "failing", "destroyed"}
  /\ closed \in BOOLEAN /\ appReady \in BOOLEAN /\ compressed \in BOOLEAN
  /\ inflate \in {"none", "live", "ending", "destroyed"}
  /\ echoMask \in BOOLEAN /\ told \in BOOLEAN

StreamTypes ==
  /\ stream \in Seq(Kinds) /\ fin \in {"no", "clean", "cut"}
  /\ got \in Nat /\ fed \in Nat /\ fed <= got /\ got <= Len(stream)

TcpTypes ==
  /\ queue \in Seq(Items) /\ toMud \in Seq(Items)
  /\ size \in Sizes /\ lines \in Nat

TypeOK == ControlTypes /\ StreamTypes /\ TcpTypes

(* What was read and is not parsed is inside the inflater, and an inflater *)
(* that is ending has it all.                                              *)
InflaterInv ==
  ~closed =>
    /\ compressed <=> inflate \in {"live", "ending"}
    /\ ~compressed => fed = got
    /\ inflate = "ending" => sock \notin {"connecting", "up"} /\ fin # "no" /\ got = Len(stream)

(* What an open client was shown, and what one that was told "mud closed". *)
ShownInv ==
  /\ ws = "open" /\ ~closed => shown = {i \in 1..fed : stream[i] = "text"}
  /\ code = 1000 => closed /\ ws # "open" /\ fin # "no" /\ CleanCloseIsComplete

(* The queue is used before the connection is up, the wire after that.     *)
QueueInv ==
  /\ sock = "connecting" => (appReady <=> ~opts.proxy)
  /\ sock \in {"up", "ended", "failing"} => appReady
  /\ IF appReady THEN queue = <<>> /\ (opts.proxy => toMud # <<>>)
     ELSE toMud = <<>> /\ \A i \in 1..Len(queue) : queue[i] # <<"header">>

IInv == TypeOK /\ InflaterInv /\ ShownInv /\ MaskIsTold /\ QueueInv /\ LinesInOrder

-----------------------------------------------------------------------------
(* The lines on a sequence of items, numbered 1 to n as they were entered. *)
Orderly(s, n) ==
  \A i \in 1..Len(s) : IsLine(s[i]) =>
    /\ s[i][2] \in 1..n
    /\ \A k \in 1..n : k < s[i][2] <=> \E j \in 1..(i - 1) : s[j] = Line(k)

Full(s, n) == \A k \in 1..n : \E i \in 1..Len(s) : s[i] = Line(k)

(* Items that are written: telnet replies, sizes and lines.                *)
Replylike == {<<"reply">>} \cup ({"naws"} \X Sizes)

(* What may be written to the MUD, and which of it is a line.              *)
LEMMA ItemFacts ==
  /\ \A item \in Items, k \in Nat : item = Line(k) <=> IsLine(item) /\ item[2] = k
  /\ \A item \in Replylike \cup {<<"header">>} : item \in Items /\ ~IsLine(item)
  /\ \A item \in Replylike : item # <<"header">>
  /\ \A k \in Nat : Line(k) \in Items /\ IsLine(Line(k)) /\ Line(k) # <<"header">>
BY DEF Items, IsLine, Replylike, Line

(* What comes behind a sequence leaves its own places alone.               *)
LEMMA ConcatFacts ==
  ASSUME NEW s \in Seq(Items), NEW t \in Seq(Items)
  PROVE  /\ s \o t \in Seq(Items) /\ Len(s) \in Nat /\ Len(t) \in Nat
         /\ Len(s \o t) = Len(s) + Len(t)
         /\ \A i \in 1..Len(s) : (s \o t)[i] = s[i]
         /\ \A i \in 1..Len(t) : (s \o t)[Len(s) + i] = t[i]
         /\ \A i \in 1..Len(s \o t) :
              i \in 1..Len(s) \/ \E m \in 1..Len(t) : i = Len(s) + m
<1>1. /\ s \o t \in Seq(Items) /\ Len(s) \in Nat /\ Len(t) \in Nat
      /\ Len(s \o t) = Len(s) + Len(t)
  BY ConcatProperties
<1>2. \A i \in 1..(Len(s) + Len(t)) :
        (s \o t)[i] = IF i <= Len(s) THEN s[i] ELSE t[i - Len(s)]
  BY ConcatProperties
<1>3. \A i \in 1..Len(s) : i \in 1..(Len(s) + Len(t)) /\ i <= Len(s)
  BY <1>1
<1>4. \A i \in 1..Len(t) : /\ Len(s) + i \in 1..(Len(s) + Len(t)) /\ ~(Len(s) + i <= Len(s))
                           /\ (Len(s) + i) - Len(s) = i
  BY <1>1
<1>5. ASSUME NEW i \in 1..Len(s \o t), i \notin 1..Len(s)
      PROVE  \E m \in 1..Len(t) : i = Len(s) + m
  <2>1. i - Len(s) \in 1..Len(t) /\ i = Len(s) + (i - Len(s))
    BY <1>1, <1>5
  <2> QED
    BY <2>1
<1> QED
  BY <1>1, <1>2, <1>3, <1>4, <1>5

(* Dropping the end of an orderly sequence leaves it orderly.              *)
LEMMA OrderlyPrefix ==
  ASSUME NEW s \in Seq(Items), NEW t \in Seq(Items), NEW n \in Nat, Orderly(s \o t, n)
  PROVE  Orderly(s, n)
<1> SUFFICES ASSUME NEW i \in 1..Len(s), IsLine(s[i])
             PROVE  /\ s[i][2] \in 1..n
                    /\ \A k \in 1..n : k < s[i][2] <=> \E j \in 1..(i - 1) : s[j] = Line(k)
  BY DEF Orderly
<1>1. i \in 1..Len(s \o t) /\ (s \o t)[i] = s[i]
  BY ConcatFacts
<1>2. \A j \in 1..(i - 1) : j \in 1..Len(s) /\ (s \o t)[j] = s[j]
  BY ConcatFacts
<1> QED
  BY <1>1, <1>2 DEF Orderly

(* A line that is written nowhere leaves it so.                            *)
LEMMA OrderlyLost ==
  ASSUME NEW s \in Seq(Items), NEW n \in Nat, Orderly(s, n)
  PROVE  Orderly(s, n + 1)
<1> SUFFICES ASSUME NEW i \in 1..Len(s), IsLine(s[i])
             PROVE  /\ s[i][2] \in 1..(n + 1)
                    /\ \A k \in 1..(n + 1) :
                         k < s[i][2] <=> \E j \in 1..(i - 1) : s[j] = Line(k)
  BY DEF Orderly
<1>1. s[i][2] \in 1..n
  BY DEF Orderly
<1>2. ASSUME NEW j \in 1..(i - 1) PROVE s[j] # Line(n + 1)
  <2>1. j \in 1..Len(s) /\ s[j] \in Items
    BY ElementOfSeq
  <2>2. IsLine(s[j]) => s[j][2] \in 1..n
    BY <2>1 DEF Orderly
  <2>3. n + 1 \in Nat /\ n + 1 \notin 1..n
    OBVIOUS
  <2> QED
    BY <2>1, <2>2, <2>3, ItemFacts
<1>3. \A k \in 1..n : k < s[i][2] <=> \E j \in 1..(i - 1) : s[j] = Line(k)
  BY DEF Orderly
<1>4. \A k \in 1..(n + 1) : k \in 1..n \/ k = n + 1
  OBVIOUS
<1>5. ASSUME NEW k \in 1..(n + 1)
      PROVE  k < s[i][2] <=> \E j \in 1..(i - 1) : s[j] = Line(k)
  <2>1. CASE k \in 1..n
    BY <1>3, <2>1
  <2>2. CASE k = n + 1
    <3>1. ~(k < s[i][2])
      BY <1>1, <2>2
    <3> QED
      BY <1>2, <2>2, <3>1
  <2> QED
    BY <1>4, <2>1, <2>2
<1> QED
  BY SMTT(30), <1>1, <1>5

(* Items that are no lines may come behind it.                             *)
LEMMA OrderlyReplies ==
  ASSUME NEW s \in Seq(Items), NEW t \in Seq(Items), NEW n \in Nat,
         \A m \in 1..Len(t) : ~IsLine(t[m])
  PROVE  /\ Orderly(s, n) => Orderly(s \o t, n)
         /\ Full(s, n) => Full(s \o t, n)
<1>1. ASSUME Orderly(s, n), NEW i \in 1..Len(s \o t), IsLine((s \o t)[i])
      PROVE  /\ (s \o t)[i][2] \in 1..n
             /\ \A k \in 1..n :
                  k < (s \o t)[i][2] <=> \E j \in 1..(i - 1) : (s \o t)[j] = Line(k)
  <2>1. i \in 1..Len(s) /\ (s \o t)[i] = s[i]
    BY <1>1, ConcatFacts
  <2>2. \A j \in 1..(i - 1) : (s \o t)[j] = s[j]
    BY <2>1, ConcatFacts
  <2> QED
    BY <1>1, <2>1, <2>2 DEF Orderly
<1>2. ASSUME Full(s, n), NEW k \in 1..n
      PROVE  \E i \in 1..Len(s \o t) : (s \o t)[i] = Line(k)
  <2>1. PICK i \in 1..Len(s) : s[i] = Line(k)
    BY <1>2 DEF Full
  <2>2. i \in 1..Len(s \o t) /\ (s \o t)[i] = s[i]
    BY ConcatFacts
  <2> QED
    BY <2>1, <2>2
<1>3. Orderly(s, n) => Orderly(s \o t, n)
  BY <1>1 DEF Orderly
<1> QED
  BY <1>2, <1>3 DEF Full

(* The next line may come behind a sequence that has all before it.        *)
LEMMA OrderlyNext ==
  ASSUME NEW s \in Seq(Items), NEW n \in Nat, Orderly(s, n), Full(s, n)
  PROVE  LET t == s \o <<Line(n + 1)>> IN Orderly(t, n + 1) /\ Full(t, n + 1)
<1> DEFINE x == Line(n + 1)
           t == s \o <<x>>
<1>1. /\ x \in Items /\ <<x>> \in Seq(Items) /\ Len(<<x>>) = 1 /\ <<x>>[1] = x
      /\ IsLine(x) /\ x[2] = n + 1
  BY n + 1 \in Nat, ItemFacts DEF Line
<1> HIDE DEF x
<1>2. /\ t \in Seq(Items) /\ Len(t) = Len(s) + 1 /\ Len(s) \in Nat /\ t[Len(s) + 1] = x
      /\ \A i \in 1..Len(s) : t[i] = s[i]
  BY <1>1, ConcatFacts
<1>3. \A i \in 1..Len(t) : i \in 1..Len(s) \/ i = Len(s) + 1
  BY <1>2
<1> HIDE DEF t
<1>4. Orderly(s, n + 1)
  BY OrderlyLost
<1>5. ASSUME NEW i \in 1..Len(t), IsLine(t[i])
      PROVE  /\ t[i][2] \in 1..(n + 1)
             /\ \A k \in 1..(n + 1) : k < t[i][2] <=> \E j \in 1..(i - 1) : t[j] = Line(k)
  <2>1. \A j \in 1..(i - 1) : j \in 1..Len(s) /\ t[j] = s[j]
    BY <1>2, <1>3
  <2>2. CASE i \in 1..Len(s)
    BY ZenonT(60), <1>2, <1>4, <1>5, <2>1, <2>2 DEF Orderly
  <2>3. CASE i = Len(s) + 1
    <3>1. t[i][2] = n + 1
      BY <1>1, <1>2, <2>3
    <3>2. ASSUME NEW k \in 1..(n + 1), k < n + 1
          PROVE  \E j \in 1..(i - 1) : t[j] = Line(k)
      <4>1. k \in 1..n
        BY <3>2
      <4>2. PICK j \in 1..Len(s) : s[j] = Line(k)
        BY <4>1 DEF Full
      <4>3. j \in 1..(i - 1) /\ t[j] = s[j]
        BY <1>2, <2>3
      <4> QED
        BY <4>2, <4>3
    <3>3. ASSUME NEW j \in 1..(i - 1) PROVE t[j] # Line(n + 1)
      <4>1. j \in 1..Len(s) /\ t[j] = s[j] /\ s[j] \in Items
        BY <2>1, ElementOfSeq
      <4>2. IsLine(s[j]) => s[j][2] \in 1..n
        BY <4>1 DEF Orderly
      <4>3. n + 1 \in Nat /\ n + 1 \notin 1..n
        OBVIOUS
      <4> QED
        BY <4>1, <4>2, <4>3, ItemFacts
    <3>4. \A k \in 1..(n + 1) : k < n + 1 \/ k = n + 1
      OBVIOUS
    <3>5. ASSUME NEW k \in 1..(n + 1)
          PROVE  k < n + 1 <=> \E j \in 1..(i - 1) : t[j] = Line(k)
      <4>1. CASE k < n + 1
        BY <3>2, <4>1
      <4>2. CASE k = n + 1
        BY <3>3, <4>2
      <4> QED
        BY <3>4, <4>1, <4>2
    <3>6. \A k \in 1..(n + 1) : k < n + 1 <=> \E j \in 1..(i - 1) : t[j] = Line(k)
      BY <3>5
    <3>7. n + 1 \in 1..(n + 1)
      OBVIOUS
    <3> QED
      BY Zenon, <3>1, <3>6, <3>7
  <2> QED
    BY <1>3, <2>2, <2>3
<1>6. ASSUME NEW k \in 1..(n + 1)
      PROVE  \E i \in 1..Len(t) : t[i] = Line(k)
  <2>1. CASE k = n + 1
    BY <1>2, <2>1 DEF x
  <2>2. CASE k \in 1..n
    <3>1. PICK i \in 1..Len(s) : s[i] = Line(k)
      BY <2>2 DEF Full
    <3>2. i \in 1..Len(t) /\ t[i] = s[i]
      BY <1>2
    <3> QED
      BY <3>1, <3>2
  <2> QED
    BY <2>1, <2>2
<1> QED
  BY <1>5, <1>6 DEF Orderly, Full, t, x

(* And the header may come before it.                                      *)
LEMMA OrderlyHeader ==
  ASSUME NEW s \in Seq(Items), NEW n \in Nat
  PROVE  LET t == <<<<"header">>>> \o s IN
         /\ Orderly(s, n) => Orderly(t, n)
         /\ Full(s, n) => Full(t, n)
<1> DEFINE h == <<"header">>
           t == <<h>> \o s
<1>1. h \in Items /\ ~IsLine(h) /\ <<h>> \in Seq(Items) /\ Len(<<h>>) = 1 /\ <<h>>[1] = h
  BY ItemFacts DEF Items
<1> HIDE DEF h
<1>2. /\ t \in Seq(Items) /\ Len(t) = 1 + Len(s) /\ Len(s) \in Nat /\ t[1] = h
      /\ \A i \in 1..Len(s) : t[1 + i] = s[i]
  BY <1>1, ConcatFacts
<1>3. \A i \in 1..Len(t) : i = 1 \/ \E m \in 1..Len(s) : i = 1 + m
  <2> SUFFICES ASSUME NEW i \in 1..Len(t), i # 1 PROVE \E m \in 1..Len(s) : i = 1 + m
    OBVIOUS
  <2>1. i - 1 \in 1..Len(s) /\ i = 1 + (i - 1)
    BY <1>2
  <2> QED
    BY <2>1
<1> HIDE DEF t
<1>4. ASSUME Orderly(s, n), NEW i \in 1..Len(t), IsLine(t[i])
      PROVE  /\ t[i][2] \in 1..n
             /\ \A k \in 1..n : k < t[i][2] <=> \E j \in 1..(i - 1) : t[j] = Line(k)
  <2>1. PICK m \in 1..Len(s) : i = 1 + m
    BY <1>1, <1>2, <1>3, <1>4
  <2>2. t[i] = s[m]
    BY <1>2, <2>1
  <2>3. /\ s[m][2] \in 1..n
        /\ \A k \in 1..n : k < s[m][2] <=> \E j \in 1..(m - 1) : s[j] = Line(k)
    BY <1>4, <2>2 DEF Orderly
  <2>4. ASSUME NEW k \in 1..n
        PROVE  (\E j \in 1..(m - 1) : s[j] = Line(k))
                 <=> \E j \in 1..(i - 1) : t[j] = Line(k)
    <3>1. ASSUME NEW j \in 1..(m - 1), s[j] = Line(k)
          PROVE  1 + j \in 1..(i - 1) /\ t[1 + j] = Line(k)
      BY <1>2, <2>1, <3>1
    <3>2. ASSUME NEW j \in 1..(i - 1), t[j] = Line(k)
          PROVE  \E l \in 1..(m - 1) : s[l] = Line(k)
      <4>1. j # 1
        BY <1>1, <1>2, <3>2, k \in Nat, ItemFacts
      <4>2. j - 1 \in 1..(m - 1) /\ j - 1 \in 1..Len(s) /\ j = 1 + (j - 1)
        BY <1>2, <2>1, <4>1
      <4>3. t[j] = s[j - 1]
        BY <1>2, <4>2
      <4> QED
        BY <3>2, <4>2, <4>3
    <3> QED
      BY <3>1, <3>2
  <2> QED
    BY <2>2, <2>3, <2>4
<1>5. ASSUME Full(s, n), NEW k \in 1..n
      PROVE  \E i \in 1..Len(t) : t[i] = Line(k)
  <2>1. PICK i \in 1..Len(s) : s[i] = Line(k)
    BY <1>5 DEF Full
  <2>2. 1 + i \in 1..Len(t) /\ t[1 + i] = s[i]
    BY <1>2
  <2> QED
    BY <2>1, <2>2
<1>6. Orderly(s, n) => Orderly(t, n)
  BY <1>4 DEF Orderly
<1> QED
  BY <1>5, <1>6 DEF Full, t, h

-----------------------------------------------------------------------------
(* What the bridge writes behind what it wrote before.                     *)
LEMMA SendFacts ==
  ASSUME TypeOK, QueueInv, NEW items \in Seq(Items), SendTcp(items)
  PROVE  /\ queue' \in Seq(Items) /\ toMud' \in Seq(Items)
         /\ ToMudSoon' = IF Writable THEN ToMudSoon \o items ELSE ToMudSoon
         /\ sock' = sock \/ (sock = "ended" /\ sock' = "failing")
         /\ appReady => queue' = queue
         /\ ~appReady => toMud' = toMud /\ (queue' = queue \/ queue' = queue \o items)
         /\ toMud' = toMud \/ toMud' = toMud \o items
<1>1. /\ queue \in Seq(Items) /\ toMud \in Seq(Items)
      /\ queue \o items \in Seq(Items) /\ toMud \o items \in Seq(Items)
      /\ (toMud \o queue) \o items = toMud \o (queue \o items)
      /\ toMud \o <<>> = toMud /\ (toMud \o items) \o <<>> = toMud \o items
      /\ (toMud \o queue) \o <<>> = toMud \o queue
  <2>1. queue \in Seq(Items) /\ toMud \in Seq(Items) /\ items \in Seq(Items)
    BY DEF TypeOK, TcpTypes
  <2>2. /\ queue \o items \in Seq(Items) /\ toMud \o items \in Seq(Items)
        /\ toMud \o queue \in Seq(Items)
    BY <2>1, ConcatProperties
  <2>3. (toMud \o queue) \o items = toMud \o (queue \o items)
    BY ONLY SMTT(30), <2>1, ConcatAssociative
  <2>4. /\ toMud \o <<>> = toMud /\ (toMud \o items) \o <<>> = toMud \o items
        /\ (toMud \o queue) \o <<>> = toMud \o queue
    BY <2>1, <2>2, ConcatEmptySeq
  <2> QED
    BY <2>1, <2>2, <2>3, <2>4
<1>2. CASE closed \/ sock \in {"failing", "destroyed"} \/ items = <<>>
  BY <1>1, <1>2 DEF SendTcp, ToMudSoon, Writable
<1>3. CASE ~(closed \/ sock \in {"failing", "destroyed"} \/ items = <<>>)
  <2>1. sock \in {"connecting", "up", "ended"}
    BY <1>3 DEF TypeOK, ControlTypes
  <2>2. CASE ~appReady
    BY <1>1, <1>3, <2>1, <2>2 DEF SendTcp, ToMudSoon, Writable, QueueInv
  <2>3. CASE appReady /\ sock = "ended"
    BY <1>1, <1>3, <2>1, <2>3 DEF SendTcp, ToMudSoon, Writable
  <2>4. CASE appReady /\ sock # "ended"
    BY <1>1, <1>3, <2>1, <2>4 DEF SendTcp, ToMudSoon, Writable, QueueInv
  <2> QED
    BY <2>2, <2>3, <2>4
<1> QED
  BY <1>2, <1>3

(* The replies to an item of the MUD.                                      *)
LEMMA ReplyFacts ==
  ASSUME TypeOK, NEW kind \in Kinds
  PROVE  Replies(kind) \in Seq(Items) /\ \A m \in 1..Len(Replies(kind)) : Replies(kind)[m] \in Replylike
<1>1. <<"reply">> \in Replylike /\ <<"naws", size>> \in Replylike
  BY DEF TypeOK, TcpTypes, Replylike
<1>2. \A r \in Replylike : r \in Items
  BY ItemFacts
<1>3. CASE kind = "text"
  BY <1>3 DEF Replies
<1>4. CASE kind = "doNaws"
  BY <1>1, <1>2, <1>4 DEF Replies
<1>5. CASE kind \notin {"text", "doNaws"}
  BY <1>1, <1>2, <1>5 DEF Replies
<1> QED
  BY <1>3, <1>4, <1>5

(* What is written is in order, whatever is still waiting: the part of     *)
(* LinesInOrder about lines.                                               *)
LinesInv ==
  /\ Orderly(ToMudSoon, lines)
  /\ Writable => Full(ToMudSoon, lines)

(* The header is the first thing written, and only that.                   *)
HeaderInv == \A i \in 1..Len(toMud) : (toMud[i] = <<"header">>) <=> (opts.proxy /\ i = 1)

(* LinesInOrder in the two parts its proofs use.                           *)
LEMMA LinesParts == LinesInOrder <=> LinesInv /\ HeaderInv
BY DEF LinesInOrder, LinesInv, HeaderInv, Orderly, Full

(* Nothing but the header comes first.                                     *)
LEMMA SendKeeps ==
  ASSUME TypeOK, QueueInv, HeaderInv, NEW items \in Seq(Items),
         \A m \in 1..Len(items) : items[m] # <<"header">>,
         SendTcp(items), UNCHANGED <<closed, appReady, opts>>
  PROVE  QueueInv' /\ HeaderInv'
<1>1. /\ queue' \in Seq(Items) /\ toMud' \in Seq(Items)
      /\ sock' = sock \/ (sock = "ended" /\ sock' = "failing")
      /\ appReady => queue' = queue
      /\ ~appReady => toMud' = toMud /\ (queue' = queue \/ queue' = queue \o items)
      /\ toMud' = toMud \/ toMud' = toMud \o items
  BY SendFacts
<1>2. queue \in Seq(Items) /\ toMud \in Seq(Items)
  BY DEF TypeOK, TcpTypes
<1>3. ASSUME appReady, toMud' = toMud \o items, NEW i \in 1..Len(toMud')
      PROVE  (toMud'[i] = <<"header">>) <=> (opts.proxy /\ i = 1)
  <2>1. CASE i \in 1..Len(toMud)
    <3>1. toMud'[i] = toMud[i]
      BY <1>2, <1>3, <2>1, ConcatFacts
    <3> QED
      BY <2>1, <3>1 DEF HeaderInv
  <2>2. CASE i \notin 1..Len(toMud)
    <3>1. PICK m \in 1..Len(items) : i = Len(toMud) + m
      BY <1>2, <1>3, <2>2, ConcatFacts
    <3>2. toMud'[i] # <<"header">>
      BY <1>2, <1>3, <3>1, ConcatFacts
    <3>3. ~(opts.proxy /\ i = 1)
      <4>1. opts.proxy => Len(toMud) # 0
        BY <1>2, <1>3 DEF QueueInv
      <4>2. Len(toMud) \in Nat
        BY <1>2
      <4>3. Len(toMud) = 0 \/ i # 1
        BY <3>1, <4>2
      <4> QED
        BY <4>1, <4>3
    <3> QED
      BY <3>2, <3>3
  <2> QED
    BY <2>1, <2>2
<1>4. HeaderInv'
  <2>1. CASE toMud' = toMud
    BY <2>1 DEF HeaderInv
  <2>2. CASE toMud' # toMud
    BY <1>1, <1>3, <2>2 DEF HeaderInv
  <2> QED
    BY <2>1, <2>2
<1>5. appReady => queue' = <<>> /\ (opts.proxy => toMud' # <<>>)
  <2>1. toMud # <<>> => toMud \o items # <<>>
    BY <1>2, ConcatEqualIffEmpty
  <2> QED
    BY <1>1, <2>1 DEF QueueInv
<1>6. ASSUME ~appReady
      PROVE  toMud' = <<>> /\ \A i \in 1..Len(queue') : queue'[i] # <<"header">>
  <2>1. toMud' = <<>> /\ \A i \in 1..Len(queue) : queue[i] # <<"header">>
    BY <1>1, <1>6 DEF QueueInv
  <2>2. ASSUME queue' = queue \o items, NEW i \in 1..Len(queue')
        PROVE  queue'[i] # <<"header">>
    <3>1. CASE i \in 1..Len(queue)
      BY <1>2, <2>1, <2>2, <3>1, ConcatFacts
    <3>2. CASE i \notin 1..Len(queue)
      <4>1. PICK m \in 1..Len(items) : i = Len(queue) + m
        BY <1>2, <2>2, <3>2, ConcatFacts
      <4>2. (queue \o items)[Len(queue) + m] = items[m]
        BY <1>2, ConcatFacts
      <4> QED
        BY <2>2, <4>1, <4>2
    <3> QED
      BY <3>1, <3>2
  <2> QED
    BY <1>1, <1>6, <2>1, <2>2
<1> QED
  BY <1>1, <1>4, <1>5, <1>6 DEF QueueInv

(* Replies, and the new size, are written behind the rest.                 *)
LEMMA SendReplies ==
  ASSUME TypeOK, QueueInv, LinesInv, HeaderInv, NEW items \in Seq(Items),
         \A m \in 1..Len(items) : items[m] \in Replylike,
         SendTcp(items), UNCHANGED <<closed, appReady, opts, lines>>
  PROVE  QueueInv' /\ LinesInv' /\ HeaderInv'
<1>1. /\ ToMudSoon' = IF Writable THEN ToMudSoon \o items ELSE ToMudSoon
      /\ sock' = sock \/ (sock = "ended" /\ sock' = "failing")
  BY SendFacts
<1>2. /\ \A m \in 1..Len(items) : ~IsLine(items[m]) /\ items[m] # <<"header">>
      /\ ToMudSoon \in Seq(Items) /\ lines \in Nat
  BY ItemFacts, ConcatProperties DEF TypeOK, TcpTypes, ToMudSoon
<1>3. Writable' => Writable
  BY <1>1 DEF Writable
<1>4. CASE Writable
  BY <1>1, <1>2, <1>4, OrderlyReplies, SendKeeps DEF LinesInv
<1>5. CASE ~Writable
  BY <1>1, <1>2, <1>3, <1>5, SendKeeps DEF LinesInv
<1> QED
  BY <1>4, <1>5

(* So is a line, if anything is.                                           *)
LEMMA SendLine ==
  ASSUME TypeOK, QueueInv, LinesInv, HeaderInv, SendTcp(<<Line(lines + 1)>>),
         UNCHANGED <<closed, appReady, opts>>, lines' = lines + 1
  PROVE  QueueInv' /\ LinesInv' /\ HeaderInv'
<1> DEFINE x == Line(lines + 1)
           items == <<x>>
<1>1. lines \in Nat /\ lines + 1 \in Nat
  BY DEF TypeOK, TcpTypes
<1>2. x \in Items /\ x # <<"header">>
  BY <1>1, ItemFacts DEF Line
<1>3. items \in Seq(Items) /\ Len(items) = 1 /\ items[1] = x
  BY <1>2
<1>4. SendTcp(items)
  OBVIOUS
<1> HIDE DEF x, items
<1>5. /\ ToMudSoon' = IF Writable THEN ToMudSoon \o items ELSE ToMudSoon
      /\ sock' = sock \/ (sock = "ended" /\ sock' = "failing")
  BY <1>3, <1>4, SendFacts
<1>6. ToMudSoon \in Seq(Items)
  BY ConcatProperties DEF TypeOK, TcpTypes, ToMudSoon
<1>7. Writable' => Writable
  BY <1>5 DEF Writable
<1>8. LinesInv'
  <2>1. CASE Writable
    <3>1. /\ Orderly(ToMudSoon \o <<Line(lines + 1)>>, lines + 1)
          /\ Full(ToMudSoon \o <<Line(lines + 1)>>, lines + 1)
      BY <1>1, <1>6, <2>1, OrderlyNext DEF LinesInv
    <3> QED
      BY <1>5, <2>1, <3>1 DEF LinesInv, items, x
  <2>2. CASE ~Writable
    BY <1>1, <1>5, <1>6, <1>7, <2>2, OrderlyLost DEF LinesInv
  <2> QED
    BY <2>1, <2>2
<1>9. \A m \in 1..Len(items) : items[m] # <<"header">>
  BY <1>2, <1>3
<1> QED
  BY <1>3, <1>4, <1>8, <1>9, SendKeeps

-----------------------------------------------------------------------------
TcpInv == QueueInv /\ LinesInv /\ HeaderInv

(* The wire when the bridge is destroyed: what waited in the queue is gone. *)
LEMMA DestroyTcp ==
  ASSUME TypeOK, TcpInv, ~closed, NEW items \in Seq(Items),
         \A m \in 1..Len(items) : items[m] \in Replylike,
         DestroyAfter(items), UNCHANGED <<appReady, opts, lines>>
  PROVE  TcpInv' /\ queue' \in Seq(Items) /\ toMud' \in Seq(Items)
<1>1. /\ queue \in Seq(Items) /\ toMud \in Seq(Items) /\ toMud \o items \in Seq(Items)
      /\ toMud \o <<>> = toMud /\ (toMud \o items) \o <<>> = toMud \o items
      /\ lines \in Nat
  BY ConcatProperties, ConcatEmptySeq DEF TypeOK, TcpTypes
<1>2. /\ closed' = TRUE /\ queue' = <<>> /\ sock' = "destroyed"
      /\ toMud' = toMud \/ (appReady /\ toMud' = toMud \o items)
  BY DEF DestroyAfter, Written
<1>3. \A m \in 1..Len(items) : ~IsLine(items[m]) /\ items[m] # <<"header">>
  BY ItemFacts
<1>4. Orderly(toMud, lines)
  BY <1>1, OrderlyPrefix DEF TcpInv, LinesInv, ToMudSoon
<1>5. Orderly(toMud \o items, lines)
  BY <1>1, <1>3, <1>4, OrderlyReplies
<1>6. LinesInv'
  BY <1>1, <1>2, <1>4, <1>5 DEF LinesInv, ToMudSoon, Writable
<1>7. ASSUME appReady, NEW i \in 1..Len(toMud \o items)
      PROVE  ((toMud \o items)[i] = <<"header">>) <=> (opts.proxy /\ i = 1)
  <2>1. CASE i \in 1..Len(toMud)
    <3>1. (toMud \o items)[i] = toMud[i]
      BY <1>1, <2>1, ConcatFacts
    <3> QED
      BY <2>1, <3>1 DEF TcpInv, HeaderInv
  <2>2. CASE i \notin 1..Len(toMud)
    <3>1. PICK m \in 1..Len(items) : i = Len(toMud) + m
      BY <1>1, <2>2, ConcatFacts
    <3>2. (toMud \o items)[i] # <<"header">>
      BY <1>1, <1>3, <3>1, ConcatFacts
    <3>3. ~(opts.proxy /\ i = 1)
      <4>1. opts.proxy => Len(toMud) # 0
        BY <1>1, <1>7 DEF TcpInv, QueueInv
      <4>2. Len(toMud) \in Nat
        BY <1>1
      <4>3. Len(toMud) = 0 \/ i # 1
        BY <3>1, <4>2
      <4> QED
        BY <4>1, <4>3
    <3> QED
      BY <3>2, <3>3
  <2> QED
    BY <2>1, <2>2
<1>8. HeaderInv'
  BY <1>2, <1>7 DEF TcpInv, HeaderInv
<1>9. QueueInv'
  <2>1. toMud # <<>> => toMud \o items # <<>>
    BY <1>1, ConcatEqualIffEmpty
  <2> QED
    BY <1>2, <2>1 DEF TcpInv, QueueInv
<1>10. <<>> \in Seq(Items)
  OBVIOUS
<1>11. queue' \in Seq(Items)
  BY <1>2, <1>10
<1>12. toMud' \in Seq(Items)
  BY <1>1, <1>2
<1> QED
  BY <1>6, <1>8, <1>9, <1>11, <1>12 DEF TcpInv

(* A bridge that is destroyed owes nobody anything more.                   *)
LEMMA DestroyInvariant ==
  ASSUME IInv, ~closed, NEW items \in Seq(Items),
         \A m \in 1..Len(items) : items[m] \in Replylike,
         DestroyAfter(items), UNCHANGED <<appReady, opts, lines>>,
         StreamTypes', size' \in Sizes,
         compressed' \in BOOLEAN, echoMask' \in BOOLEAN, told' \in BOOLEAN
  PROVE  IInv'
<1>1. TypeOK /\ TcpInv
  BY LinesParts DEF IInv, TcpInv
<1>2. TcpInv' /\ queue' \in Seq(Items) /\ toMud' \in Seq(Items)
  BY <1>1, DestroyTcp
<1>3. /\ closed' = TRUE /\ sock' = "destroyed"
      /\ inflate' \in {"none", "destroyed"}
      /\ ws' \in {"open", "closing", "closed"} /\ code' \in {0, 1000, 1011}
      /\ code' = 1000 => code = 1000
  BY <1>1 DEF DestroyAfter, CloseWs, wsVars, TypeOK, ControlTypes
<1>4. TypeOK'
  BY <1>1, <1>2, <1>3 DEF TypeOK, ControlTypes, TcpTypes
<1>5. code' # 1000
  BY <1>3 DEF IInv, ShownInv
<1>6. InflaterInv' /\ ShownInv' /\ MaskIsTold'
  BY <1>3, <1>5 DEF InflaterInv, ShownInv, MaskIsTold
<1> QED
  BY <1>2, <1>4, <1>6, LinesParts DEF IInv, TcpInv, LinesInOrder, LinesInv, HeaderInv, Orderly, Full

(* Nothing written is no line.                                             *)
LEMMA NoItems == <<>> \in Seq(Items) /\ \A m \in 1..Len(<<>>) : <<>>[m] \in Replylike
OBVIOUS

(* The next item is parsed.                                                *)
LEMMA EventInvariant ==
  ASSUME IInv, ~closed, fed + 1 <= Len(stream), HandleEvent(fed + 1), fed' = fed + 1,
         UNCHANGED <<stream, fin, opts, appReady, lines, size, compressed>>,
         \/ ~compressed /\ got' = fed + 1
         \/ compressed /\ got' = got /\ fed < got
  PROVE  IInv'
<1> DEFINE i == fed + 1
           kind == stream[i]
<1>1. TypeOK /\ TcpInv
  BY LinesParts DEF IInv, TcpInv
<1>2. i \in 1..Len(stream) /\ i \in Nat /\ kind \in Kinds
  BY <1>1 DEF TypeOK, StreamTypes
<1>3. Replies(kind) \in Seq(Items) /\ \A m \in 1..Len(Replies(kind)) : Replies(kind)[m] \in Replylike
  BY <1>1, <1>2, ReplyFacts
<1>4. StreamTypes'
  BY <1>1, <1>2 DEF TypeOK, StreamTypes
<1>5. echoMask' = MaskAfter(kind) /\ MaskAfter(kind) \in BOOLEAN
  <2>1. echoMask' = MaskAfter(kind)
    BY DEF HandleEvent
  <2>2. echoMask \in BOOLEAN
    BY <1>1 DEF TypeOK, ControlTypes
  <2>3. MaskAfter(kind) \in BOOLEAN
    BY ONLY <2>2 DEF MaskAfter
  <2> QED
    BY <2>1, <2>3
<1>6. CASE MakesFrame(kind) /\ DestroyAfter(Replies(kind)) /\ UNCHANGED <<shown, told>>
  <2>1. size' \in Sizes /\ compressed' \in BOOLEAN /\ told' \in BOOLEAN
    BY <1>1, <1>6 DEF TypeOK, ControlTypes, TcpTypes
  <2> QED
    BY <1>3, <1>4, <1>5, <1>6, <2>1, DestroyInvariant
<1>7. CASE /\ SendTcp(Replies(kind))
           /\ shown' = IF MakesFrame(kind) /\ kind = "text" THEN shown \cup {i} ELSE shown
           /\ told' = IF MakesFrame(kind) THEN MaskAfter(kind) ELSE told
           /\ UNCHANGED <<wsVars, closed, inflate>>
  <2>1. TcpInv'
    BY <1>1, <1>3, <1>7, SendReplies DEF TcpInv
  <2>2. /\ queue' \in Seq(Items) /\ toMud' \in Seq(Items)
        /\ sock' = sock \/ (sock = "ended" /\ sock' = "failing")
    BY <1>1, <1>3, <1>7, SendFacts DEF TcpInv
  <2>3. told' \in BOOLEAN
    BY <1>1, <1>5, <1>7 DEF TypeOK, ControlTypes
  <2>4. TypeOK'
    BY <1>1, <1>4, <1>5, <1>7, <2>2, <2>3 DEF TypeOK, ControlTypes, TcpTypes, wsVars
  <2>5. InflaterInv'
    BY <1>1, <1>7, <2>2 DEF IInv, InflaterInv, TypeOK, ControlTypes
  <2>6. ShownInv'
    <3>1. code' # 1000
      BY <1>7 DEF IInv, ShownInv, wsVars
    <3>2. ASSUME ws = "open" PROVE shown' = {j \in 1..(fed + 1) : stream[j] = "text"}
      <4>1. shown = {j \in 1..fed : stream[j] = "text"}
        BY <3>2 DEF IInv, ShownInv
      <4>2. shown' = IF kind = "text" THEN shown \cup {i} ELSE shown
        BY <1>7, <3>2 DEF MakesFrame
      <4>3. \A j : j \in 1..(fed + 1) <=> j \in 1..fed \/ j = i
        BY <1>1, <1>2 DEF TypeOK, StreamTypes
      <4> QED
        BY <4>1, <4>2, <4>3
    <3> QED
      BY <1>7, <3>1, <3>2 DEF ShownInv, wsVars
  <2>7. MaskIsTold'
    BY <1>5, <1>7 DEF IInv, MaskIsTold, MakesFrame, wsVars
  <2> QED
    BY <2>1, <2>4, <2>5, <2>6, <2>7
       DEF IInv, TcpInv, LinesInOrder, LinesInv, HeaderInv, Orderly, Full
<1> QED
  BY <1>6, <1>7 DEF HandleEvent

(* The parts of the invariant make the invariant.                          *)
LEMMA Together ==
  ASSUME TypeOK', InflaterInv', ShownInv', MaskIsTold', TcpInv'
  PROVE  IInv'
BY DEF IInv, TcpInv, LinesInOrder, LinesInv, HeaderInv, Orderly, Full

(* A step that writes nothing leaves what is written in order.             *)
LEMMA TcpStays ==
  ASSUME TcpInv, UNCHANGED <<tcpVars, opts, lines>>, Writable' => Writable,
         sock' \in {sock, "destroyed"} \/ (sock = "up" /\ sock' = "ended")
  PROVE  TcpInv'
<1>1. QueueInv'
  BY DEF TcpInv, QueueInv, tcpVars
<1>2. LinesInv'
  <2>1. ToMudSoon' = ToMudSoon /\ lines' = lines
    BY DEF ToMudSoon, tcpVars
  <2> QED
    BY <2>1 DEF TcpInv, LinesInv
<1>3. HeaderInv'
  BY DEF TcpInv, HeaderInv, tcpVars
<1> QED
  BY <1>1, <1>2, <1>3 DEF TcpInv

-----------------------------------------------------------------------------
(* The first state satisfies the invariant.                                *)
LEMMA InitInvariant == Init => IInv
<1> SUFFICES ASSUME Init PROVE IInv
  OBVIOUS
<1>1. opts \in [proxy : BOOLEAN, mccp : BOOLEAN] /\ opts.proxy \in BOOLEAN
  BY BridgeAssumption DEF Init
<1>2. <<>> \in Seq(Items) /\ <<>> \in Seq(Kinds) /\ Len(<<>>) = 0
  OBVIOUS
<1>3. ControlTypes
  BY <1>1 DEF Init, ControlTypes
<1>4. StreamTypes
  BY <1>2 DEF Init, StreamTypes
<1>5. TcpTypes
  BY <1>2 DEF Init, TcpTypes
<1>6. InflaterInv
  BY DEF Init, InflaterInv
<1>7. MaskIsTold
  BY DEF Init, MaskIsTold
<1>8. QueueInv
  <2>1. sock = "connecting" /\ appReady = ~opts.proxy /\ queue = <<>> /\ toMud = <<>>
    BY DEF Init
  <2>2. appReady <=> ~opts.proxy
    BY <1>1, <2>1
  <2> QED
    BY <1>2, <2>1, <2>2 DEF QueueInv
<1>9. ShownInv
  BY DEF Init, ShownInv
<1>10. LinesInOrder
  BY DEF Init, LinesInOrder, ToMudSoon
<1> QED
  BY <1>3, <1>4, <1>5, <1>6, <1>7, <1>8, <1>9, <1>10 DEF IInv, TypeOK

(* The header is written first and what waited behind it.                  *)
LEMMA ConnectStep == IInv /\ Connect => IInv'
<1> SUFFICES ASSUME IInv, Connect PROVE IInv'
  OBVIOUS
<1>1. TypeOK /\ TcpInv
  BY LinesParts DEF IInv, TcpInv
<1>2. /\ queue \in Seq(Items) /\ toMud \in Seq(Items) /\ lines \in Nat
      /\ sock = "connecting" /\ (appReady <=> ~opts.proxy)
  BY <1>1 DEF TypeOK, TcpTypes, TcpInv, QueueInv, Connect
<1>3. <<"header">> \in Items /\ <<<<"header">>>> \in Seq(Items)
  BY ItemFacts DEF Items
<1>4. ASSUME opts.proxy PROVE TcpInv'
  <2>1. toMud' = <<<<"header">>>> \o queue /\ queue' = <<>> /\ toMud = <<>>
    BY <1>1, <1>2, <1>4 DEF Connect, HeaderThenQueue, TcpInv, QueueInv
  <2>2. toMud \o queue = queue
    BY <1>2, <2>1, ConcatEmptySeq
  <2>3. Orderly(queue, lines) /\ (Writable => Full(queue, lines))
    BY <1>1, <2>2 DEF TcpInv, LinesInv, ToMudSoon
  <2>4. /\ Orderly(<<<<"header">>>> \o queue, lines)
        /\ Writable => Full(<<<<"header">>>> \o queue, lines)
    BY <1>2, <2>3, OrderlyHeader
  <2> DEFINE t == <<<<"header">>>> \o queue
  <2>5. t \in Seq(Items)
    BY <1>2, <1>3, ConcatProperties
  <2>6. Len(t) = 1 + Len(queue) /\ t[1] = <<"header">>
    BY <1>2, <1>3, ConcatFacts
  <2>7. ASSUME NEW i \in 1..Len(t), i # 1 PROVE t[i] # <<"header">>
    <3>1. PICK m \in 1..Len(queue) : i = 1 + m
      <4>1. i - 1 \in 1..Len(queue) /\ i = 1 + (i - 1)
        BY <1>2, <2>6, <2>7
      <4> QED
        BY <4>1
    <3>2. t[i] = queue[m]
      BY <1>2, <1>3, <3>1, ConcatFacts
    <3> QED
      BY <1>1, <1>2, <1>4, <3>2 DEF TcpInv, QueueInv
  <2>8. toMud' = t /\ t \o <<>> = t /\ t # <<>>
    BY <2>1, <2>5, <2>6, ConcatEmptySeq
  <2> HIDE DEF t
  <2>9. HeaderInv'
    BY <1>4, <2>6, <2>7, <2>8 DEF HeaderInv, Connect, mudVars
  <2>10. LinesInv'
    BY <1>2, <2>1, <2>4, <2>8 DEF LinesInv, ToMudSoon, Writable, Connect, inputVars, t
  <2>11. appReady' /\ sock' = "up" /\ queue' = <<>> /\ toMud' # <<>>
    BY <2>1, <2>8 DEF Connect
  <2>12. QueueInv'
    BY <2>11 DEF QueueInv
  <2> QED
    BY <2>9, <2>10, <2>12 DEF TcpInv
<1>5. ASSUME ~opts.proxy PROVE TcpInv'
  <2>1. appReady /\ queue = <<>> /\ toMud' = toMud /\ queue' = queue /\ UNCHANGED <<opts, lines, closed>>
    BY <1>1, <1>2, <1>5 DEF Connect, HeaderThenQueue, TcpInv, QueueInv, mudVars, inputVars
  <2>2. QueueInv'
    BY <1>5, <2>1 DEF Connect, QueueInv
  <2>3. LinesInv' /\ HeaderInv'
    BY <1>1, <1>2, <2>1 DEF TcpInv, LinesInv, HeaderInv, ToMudSoon, Writable, Orderly, Full
  <2> QED
    BY <2>2, <2>3 DEF TcpInv
<1>6. TcpInv'
  BY <1>4, <1>5
<1>7. queue' \in Seq(Items)
  <2>1. queue' = <<>> /\ <<>> \in Seq(Items)
    BY DEF Connect
  <2> QED
    BY <2>1
<1>8. toMud' \in Seq(Items)
  <2>1. <<<<"header">>>> \o queue \in Seq(Items)
    BY <1>2, <1>3, ConcatProperties
  <2> QED
    BY <1>2, <2>1 DEF Connect, HeaderThenQueue
<1>9. TypeOK'
  <2>1. StreamTypes' /\ size' \in Sizes /\ lines' \in Nat
    BY <1>1 DEF Connect, TypeOK, StreamTypes, TcpTypes, mudVars, inputVars
  <2>2. ControlTypes'
    BY <1>1 DEF Connect, TypeOK, ControlTypes, wsVars, endVars, mccpVars, mudVars, viewVars
  <2> QED
    BY <1>7, <1>8, <2>1, <2>2 DEF TypeOK, TcpTypes
<1>10. InflaterInv' /\ MaskIsTold'
  <2>1. InflaterInv'
    BY DEF IInv, InflaterInv, Connect, mccpVars, mudVars
  <2>2. MaskIsTold'
    BY DEF IInv, MaskIsTold, Connect, viewVars, wsVars
  <2> QED
    BY <2>1, <2>2
<1>11. ShownInv'
  BY DEF IInv, ShownInv, CleanCloseIsComplete, Texts, Connect, mccpVars, mudVars, viewVars, wsVars
<1> QED
  BY <1>6, <1>9, <1>10, <1>11, Together

(* A chunk read in plain text keeps the invariant.                         *)
LEMMA PlainDataStep == IInv /\ PlainData => IInv'
<1> SUFFICES ASSUME IInv, PlainData PROVE IInv'
  OBVIOUS
<1>1. fed = got /\ ~compressed /\ ~closed
  BY DEF PlainData, IInv, InflaterInv
<1>2. fed + 1 <= Len(stream)
  BY <1>1 DEF PlainData, IInv, TypeOK, StreamTypes
<1>3. /\ HandleEvent(fed + 1) /\ fed' = fed + 1 /\ got' = fed + 1
      /\ UNCHANGED <<stream, fin, opts, appReady, lines, size, compressed>>
  BY <1>1 DEF PlainData, mudVars, inputVars
<1> QED
  BY <1>1, <1>2, <1>3, EventInvariant

(* Every other step that destroys the bridge.                              *)
LEMMA DestroyStep ==
  ASSUME IInv, ~closed, Destroy, StreamTypes',
         UNCHANGED <<opts, appReady, lines, size, echoMask, told>>, compressed' \in BOOLEAN
  PROVE  IInv'
<1>1. DestroyAfter(<<>>)
  BY DEF Destroy
<1>2. size' \in Sizes /\ echoMask' \in BOOLEAN /\ told' \in BOOLEAN
  BY DEF IInv, TypeOK, ControlTypes, TcpTypes
<1>3. <<>> \in Seq(Items) /\ \A m \in 1..Len(<<>>) : <<>>[m] \in Replylike
  OBVIOUS
<1> QED
  BY <1>1, <1>2, <1>3, DestroyInvariant

(* A chunk out of the inflater keeps it.                                   *)
LEMMA InflateDataStep == IInv /\ InflateData => IInv'
<1> SUFFICES ASSUME IInv, InflateData PROVE IInv'
  OBVIOUS
<1>1. /\ compressed /\ ~closed /\ fed < got /\ got' = got
      /\ UNCHANGED <<stream, fin, opts, appReady, lines, size, compressed>>
  BY DEF InflateData, IInv, InflaterInv, mudVars, inputVars
<1>2. fed + 1 <= Len(stream)
  BY <1>1 DEF IInv, TypeOK, StreamTypes
<1>3. CASE fed' = fed + 1 /\ HandleEvent(fed + 1)
  BY <1>1, <1>2, <1>3, EventInvariant
<1>4. CASE Destroy /\ UNCHANGED <<fed, viewVars>>
  <2>1. StreamTypes' /\ compressed' \in BOOLEAN
    BY <1>1, <1>4 DEF IInv, TypeOK, StreamTypes, ControlTypes
  <2> QED
    BY <1>1, <1>4, <2>1, DestroyStep DEF viewVars
<1> QED
  BY <1>3, <1>4 DEF InflateData

(* An error of the inflater keeps it.                                      *)
LEMMA InflateErrorStep == IInv /\ InflateError => IInv'
<1> SUFFICES ASSUME IInv, InflateError PROVE IInv'
  OBVIOUS
<1>1. StreamTypes' /\ compressed' \in BOOLEAN
  BY DEF InflateError, IInv, TypeOK, StreamTypes, ControlTypes, mudVars
<1> QED
  BY <1>1, DestroyStep DEF InflateError, mudVars, viewVars, inputVars

(* Bytes in compressed mode are behind what is shown.                      *)
LEMMA CompressedDataStep == IInv /\ CompressedData => IInv'
<1> SUFFICES ASSUME IInv, CompressedData PROVE IInv'
  OBVIOUS
<1>1. /\ ~closed /\ compressed /\ sock = "up" /\ got < Len(stream)
      /\ UNCHANGED <<compressed, appReady, fed, stream, fin, opts, echoMask, shown, told,
                     size, lines>>
  BY DEF CompressedData, mudVars, viewVars, inputVars
<1>2. CASE UNCHANGED got /\ Destroy
  <2>1. StreamTypes' /\ compressed' \in BOOLEAN
    BY <1>1, <1>2 DEF IInv, TypeOK, StreamTypes, ControlTypes
  <2> QED
    BY <1>1, <1>2, <2>1, DestroyStep
<1>3. CASE got' = got + 1 /\ UNCHANGED bridgeVars
  <2>1. UNCHANGED <<ws, code, sock, closed, inflate, queue, toMud>>
    BY <1>3 DEF bridgeVars, wsVars
  <2>2. StreamTypes'
    BY <1>1, <1>3 DEF IInv, TypeOK, StreamTypes
  <2>3. TypeOK'
    BY <1>1, <2>1, <2>2 DEF IInv, TypeOK, ControlTypes, TcpTypes
  <2>4. TcpInv'
    BY <1>1, <2>1, TcpStays, LinesParts DEF IInv, TcpInv, tcpVars, Writable
  <2>5. InflaterInv' /\ MaskIsTold'
    BY <1>1, <2>1 DEF IInv, InflaterInv, MaskIsTold
  <2>6. ShownInv'
    BY <1>1, <2>1 DEF IInv, ShownInv
  <2> QED
    BY <2>3, <2>4, <2>5, <2>6, Together
<1> QED
  BY <1>2, <1>3 DEF CompressedData

(* What the MUD writes is not read yet, and not shown.                     *)
LEMMA MudSendsStep ==
  ASSUME IInv, NEW kind \in Kinds, MudSends(kind) PROVE IInv'
<1>1. /\ UNCHANGED <<ws, code, sock, closed, compressed, inflate, appReady, queue, toMud, opts,
                     fin, got, fed, echoMask, shown, told, size, lines>>
      /\ sock = "up" /\ fin = "no" /\ stream' = Append(stream, kind)
  BY DEF MudSends, wsVars, mccpVars, tcpVars, viewVars, inputVars
<1>2. /\ stream' \in Seq(Kinds) /\ Len(stream') = Len(stream) + 1
      /\ \A i \in 1..Len(stream) : stream'[i] = stream[i]
  BY <1>1 DEF IInv, TypeOK, StreamTypes
<1>3. StreamTypes'
  BY <1>1, <1>2 DEF IInv, TypeOK, StreamTypes
<1>4. TypeOK'
  BY <1>1, <1>3 DEF IInv, TypeOK, ControlTypes, TcpTypes
<1>5. TcpInv'
  BY <1>1, TcpStays, LinesParts DEF IInv, TcpInv, tcpVars, Writable
<1>6. InflaterInv'
  BY <1>1 DEF IInv, InflaterInv
<1>7. MaskIsTold'
  BY <1>1 DEF IInv, MaskIsTold
<1>8. ShownInv'
  <2>1. code' # 1000
    BY <1>1 DEF IInv, ShownInv
  <2>2. \A i \in 1..fed : i \in 1..Len(stream)
    BY DEF IInv, TypeOK, StreamTypes
  <2>3. {i \in 1..fed : stream'[i] = "text"} = {i \in 1..fed : stream[i] = "text"}
    BY <1>2, <2>2
  <2>4. ws = "open" /\ ~closed => shown = {i \in 1..fed : stream[i] = "text"}
    BY DEF IInv, ShownInv
  <2>5. ws' = ws /\ closed' = closed /\ shown' = shown /\ fed' = fed
    BY <1>1
  <2> QED
    BY <2>1, <2>3, <2>4, <2>5 DEF ShownInv
<1> QED
  BY <1>4, <1>5, <1>6, <1>7, <1>8, Together

(* The end of the stream of the MUD keeps it.                              *)
LEMMA MudEndsStep ==
  ASSUME IInv, NEW how \in {"clean", "cut"}, MudEnds(how) PROVE IInv'
<1>1. /\ UNCHANGED <<ws, code, sock, closed, compressed, inflate, appReady, queue, toMud, opts,
                     stream, got, fed, echoMask, shown, told, size, lines>>
      /\ sock = "up" /\ fin = "no" /\ fin' = how
  BY DEF MudEnds, wsVars, mccpVars, tcpVars, viewVars, inputVars
<1>2. StreamTypes'
  BY <1>1 DEF IInv, TypeOK, StreamTypes
<1>3. TypeOK'
  BY <1>1, <1>2 DEF IInv, TypeOK, ControlTypes, TcpTypes
<1>4. TcpInv'
  BY <1>1, TcpStays, LinesParts DEF IInv, TcpInv, tcpVars, Writable
<1>5. InflaterInv'
  BY <1>1 DEF IInv, InflaterInv
<1>6. MaskIsTold'
  BY <1>1 DEF IInv, MaskIsTold
<1>7. ShownInv'
  BY <1>1 DEF IInv, ShownInv
<1> QED
  BY <1>3, <1>4, <1>5, <1>6, <1>7, Together

(* The start of compression keeps it.                                      *)
LEMMA MccpStartStep == IInv /\ MccpStart => IInv'
<1> SUFFICES ASSUME IInv, MccpStart PROVE IInv'
  OBVIOUS
<1>1. /\ ~closed /\ ~compressed /\ sock = "up" /\ got < Len(stream) /\ stream[got + 1] = "mccp"
      /\ fed' = got + 1 /\ fed = got
      /\ UNCHANGED <<appReady, stream, fin, opts, echoMask, shown, told, size, lines>>
  BY DEF MccpStart, IInv, InflaterInv, mudVars, viewVars, inputVars
<1>2. ASSUME got' \in {got + 1, got + 2}, got' <= Len(stream) PROVE StreamTypes'
  BY <1>1, <1>2 DEF IInv, TypeOK, StreamTypes
<1>3. CASE Destroy /\ got' = got + 1 /\ compressed' = compressed
  <2>1. StreamTypes' /\ compressed' \in BOOLEAN
    BY <1>1, <1>2, <1>3 DEF IInv, TypeOK, StreamTypes, ControlTypes
  <2> QED
    BY <1>1, <1>3, <2>1, DestroyStep
<1>4. ASSUME NEW residual \in 0..1, compressed' = TRUE,
             got + 1 + residual <= Len(stream), got' = got + 1 + residual,
             Destroy \/ (inflate' = "live" /\ UNCHANGED <<wsVars, sock, closed, queue, toMud>>)
      PROVE  IInv'
  <2>1. StreamTypes'
    <3>1. got' \in {got + 1, got + 2} /\ got' <= Len(stream)
      BY <1>4 DEF IInv, TypeOK, StreamTypes
    <3> QED
      BY <1>2, <3>1
  <2>2. CASE Destroy
    BY <1>1, <1>4, <2>1, <2>2, DestroyStep
  <2>3. CASE inflate' = "live" /\ UNCHANGED <<ws, code, sock, closed, queue, toMud>>
    <3>1. TypeOK'
      BY <1>1, <1>4, <2>1, <2>3 DEF IInv, TypeOK, ControlTypes, TcpTypes
    <3>2. TcpInv'
      BY <1>1, <2>3, TcpStays, LinesParts DEF IInv, TcpInv, tcpVars, Writable
    <3>3. InflaterInv' /\ MaskIsTold'
      BY <1>1, <1>4, <2>3 DEF IInv, InflaterInv, MaskIsTold
    <3>4. ShownInv'
      <4>1. code' # 1000
        BY <1>1, <2>3 DEF IInv, ShownInv
      <4>2. \A i : i \in 1..(got + 1) <=> i \in 1..got \/ i = got + 1
        BY DEF IInv, TypeOK, StreamTypes
      <4>3. {i \in 1..fed' : stream'[i] = "text"} = {i \in 1..fed : stream[i] = "text"}
        BY <1>1, <4>2
      <4> QED
        BY <1>1, <2>3, <4>1, <4>3 DEF IInv, ShownInv
    <3> QED
      BY <3>1, <3>2, <3>3, <3>4, Together
  <2> QED
    BY <1>4, <2>2, <2>3 DEF wsVars
<1> QED
  BY <1>3, <1>4 DEF MccpStart

(* A WebSocket is told "mud closed" when everything was shown to it.       *)
LEMMA CleanClose ==
  ASSUME IInv, ~closed, closed' = TRUE, CloseWs(1000), fed = Len(stream), fin # "no",
         UNCHANGED <<stream, fin, compressed, shown>>, compressed => fin = "clean"
  PROVE  ShownInv' /\ MaskIsTold' /\ ws' \in {"open", "closing", "closed"} /\ code' \in {0, 1000, 1011}
<1>1. code # 1000
  BY DEF IInv, ShownInv
<1>2. CASE ws = "open"
  <2>1. ws' = "closing" /\ code' = 1000
    BY <1>2 DEF CloseWs
  <2>2. shown = Texts
    BY <1>2 DEF IInv, ShownInv, Texts
  <2>3. shown' = Texts'
    BY <2>2 DEF Texts
  <2> QED
    BY <2>1, <2>3 DEF ShownInv, MaskIsTold, CleanCloseIsComplete
<1>3. CASE ws # "open"
  <2>1. ws' = ws /\ code' = code
    BY <1>3 DEF CloseWs, wsVars
  <2> QED
    BY <1>1, <2>1 DEF ShownInv, MaskIsTold, IInv, TypeOK, ControlTypes
<1> QED
  BY <1>2, <1>3

(* The 'end' of the TCP socket keeps it.                                   *)
LEMMA SockEndStep == IInv /\ SockEnd => IInv'
<1> SUFFICES ASSUME IInv, SockEnd PROVE IInv'
  OBVIOUS
<1>1. /\ sock = "up" /\ sock' = "ended" /\ fin # "no" /\ got = Len(stream) /\ ~closed
      /\ UNCHANGED <<compressed, appReady, queue, toMud, stream, fin, opts, got, fed, echoMask,
                     shown, told, size, lines>>
  BY DEF SockEnd, tcpVars, mudVars, viewVars, inputVars
<1>2. StreamTypes'
  BY <1>1 DEF IInv, TypeOK, StreamTypes
<1>3. TcpInv'
  BY <1>1, TcpStays, LinesParts DEF IInv, TcpInv, tcpVars, Writable
<1>4. TcpTypes'
  BY <1>1 DEF IInv, TypeOK, TcpTypes
<1>5. CASE inflate = "live"
  <2>1. inflate' = "ending" /\ UNCHANGED <<ws, code, closed>>
    BY <1>5 DEF SockEnd, wsVars
  <2>2. ControlTypes'
    BY <1>1, <2>1 DEF IInv, TypeOK, ControlTypes
  <2>3. InflaterInv' /\ MaskIsTold'
    BY <1>1, <1>5, <2>1 DEF IInv, InflaterInv, MaskIsTold
  <2>4. ShownInv'
    BY <1>1, <2>1 DEF IInv, ShownInv
  <2> QED
    BY <1>2, <1>3, <1>4, <2>2, <2>3, <2>4, Together DEF TypeOK
<1>6. CASE inflate # "live"
  <2>1. closed' = TRUE /\ CloseWs(1000) /\ inflate' = inflate
    BY <1>6 DEF SockEnd
  <2>2. ~compressed /\ fed = Len(stream)
    BY <1>1, <1>6 DEF IInv, InflaterInv
  <2>3. ShownInv' /\ MaskIsTold' /\ ws' \in {"open", "closing", "closed"} /\ code' \in {0, 1000, 1011}
    BY <1>1, <2>1, <2>2, CleanClose
  <2>4. ControlTypes'
    BY <1>1, <2>1, <2>3 DEF IInv, TypeOK, ControlTypes
  <2>5. InflaterInv'
    BY <2>1 DEF InflaterInv
  <2> QED
    BY <1>2, <1>3, <1>4, <2>3, <2>4, <2>5, Together DEF TypeOK
<1> QED
  BY <1>5, <1>6

(* The end of the inflater keeps it.                                       *)
LEMMA InflateEndStep == IInv /\ InflateEnd => IInv'
<1> SUFFICES ASSUME IInv, InflateEnd PROVE IInv'
  OBVIOUS
<1>1. /\ inflate = "ending" /\ ~closed /\ fed = got /\ fin # "no" /\ got = Len(stream)
      /\ UNCHANGED <<compressed, appReady, stream, fin, opts, got, fed, echoMask, shown, told,
                     size, lines>>
  BY DEF InflateEnd, IInv, InflaterInv, mudVars, viewVars, inputVars
<1>2. StreamTypes'
  BY <1>1 DEF IInv, TypeOK, StreamTypes
<1>3. CASE fin = "clean"
  <2>1. closed' = TRUE /\ CloseWs(1000) /\ UNCHANGED <<sock, inflate, queue, toMud>>
    BY <1>3 DEF InflateEnd
  <2>2. ShownInv' /\ MaskIsTold' /\ ws' \in {"open", "closing", "closed"} /\ code' \in {0, 1000, 1011}
    BY <1>1, <1>3, <2>1, CleanClose
  <2>3. ControlTypes'
    BY <1>1, <2>1, <2>2 DEF IInv, TypeOK, ControlTypes
  <2>4. TcpTypes'
    BY <1>1, <2>1 DEF IInv, TypeOK, TcpTypes
  <2>5. TcpInv'
    BY <1>1, <2>1, TcpStays, LinesParts DEF IInv, TcpInv, tcpVars, Writable
  <2>6. InflaterInv'
    BY <2>1 DEF InflaterInv
  <2> QED
    BY <1>2, <2>2, <2>3, <2>4, <2>5, <2>6, Together DEF TypeOK
<1>4. CASE fin # "clean"
  <2>1. Destroy /\ compressed' \in BOOLEAN
    BY <1>1, <1>4 DEF InflateEnd, IInv, TypeOK, ControlTypes
  <2> QED
    BY <1>1, <1>2, <2>1, DestroyStep
<1> QED
  BY <1>3, <1>4

(* A socket that goes away once nothing is owed on it.                     *)
LEMMA SockGone ==
  ASSUME IInv, sock' = "destroyed",
         UNCHANGED <<ws, code, closed, compressed, inflate, appReady, queue, toMud, opts, stream,
                     fin, got, fed, echoMask, shown, told, size, lines>>
  PROVE  IInv'
<1>1. ControlTypes'
  BY DEF IInv, TypeOK, ControlTypes
<1>2. StreamTypes' /\ TcpTypes'
  BY DEF IInv, TypeOK, StreamTypes, TcpTypes
<1>3. TcpInv'
  BY TcpStays, LinesParts DEF IInv, TcpInv, tcpVars, Writable
<1>4. InflaterInv' /\ MaskIsTold'
  BY DEF IInv, InflaterInv, MaskIsTold
<1>5. ShownInv'
  BY DEF IInv, ShownInv, CleanCloseIsComplete, Texts
<1> QED
  BY <1>1, <1>2, <1>3, <1>4, <1>5, Together DEF TypeOK

(* A step of nothing keeps it.                                             *)
LEMMA Stutter == IInv /\ UNCHANGED vars => IInv'
<1> SUFFICES ASSUME IInv, UNCHANGED vars PROVE IInv'
  OBVIOUS
<1> USE DEF vars, wsVars, mccpVars, tcpVars, mudVars, viewVars, inputVars
<1>1. ControlTypes'
  BY DEF IInv, TypeOK, ControlTypes
<1>2. StreamTypes' /\ TcpTypes'
  BY DEF IInv, TypeOK, StreamTypes, TcpTypes
<1>3. TcpInv'
  BY TcpStays, LinesParts DEF IInv, TcpInv, Writable
<1>4. InflaterInv' /\ MaskIsTold'
  BY DEF IInv, InflaterInv, MaskIsTold
<1>5. ShownInv'
  BY DEF IInv, ShownInv, CleanCloseIsComplete, Texts
<1> QED
  BY <1>1, <1>2, <1>3, <1>4, <1>5, Together DEF TypeOK

(* The timeout after a FIN keeps it.                                       *)
LEMMA FinTimeoutStep == IInv /\ FinTimeout => IInv'
<1> SUFFICES ASSUME IInv, FinTimeout PROVE IInv'
  OBVIOUS
<1>1. /\ Destroy
      /\ UNCHANGED <<compressed, appReady, stream, fin, opts, got, fed, echoMask, shown, told,
                     size, lines, window, input>>
  BY DEF FinTimeout, mudVars, viewVars, inputVars
<1>2. CASE closed
  <2>1. UNCHANGED <<ws, code, sock, closed, inflate, queue, toMud>>
    BY <1>1, <1>2 DEF Destroy, DestroyAfter, bridgeVars, wsVars
  <2>2. ControlTypes'
    BY <1>1, <2>1 DEF IInv, TypeOK, ControlTypes
  <2>3. StreamTypes' /\ TcpTypes'
    BY <1>1, <2>1 DEF IInv, TypeOK, StreamTypes, TcpTypes
  <2>4. TcpInv'
    BY <1>1, <2>1, TcpStays, LinesParts DEF IInv, TcpInv, tcpVars, Writable
  <2>5. InflaterInv' /\ MaskIsTold' /\ ShownInv'
    BY <1>1, <1>2, <2>1
       DEF IInv, InflaterInv, MaskIsTold, ShownInv, CleanCloseIsComplete, Texts
  <2> QED
    BY <2>2, <2>3, <2>4, <2>5, Together DEF TypeOK
<1>3. CASE ~closed
  <2>1. StreamTypes' /\ compressed' \in BOOLEAN
    BY <1>1 DEF IInv, TypeOK, StreamTypes, ControlTypes
  <2> QED
    BY <1>1, <1>3, <2>1, DestroyStep
<1> QED
  BY <1>2, <1>3

(* An error of the TCP socket keeps it.                                    *)
LEMMA SockErrorStep == IInv /\ SockError => IInv'
<1> SUFFICES ASSUME IInv, SockError PROVE IInv'
  OBVIOUS
<1>1. UNCHANGED <<compressed, appReady, stream, fin, opts, got, fed, echoMask, shown, told,
                  size, lines>>
  BY DEF SockError, mudVars, viewVars, inputVars
<1>2. CASE closed
  <2>1. sock' = "destroyed" /\ UNCHANGED <<ws, code, closed, inflate, queue, toMud>>
    BY <1>2 DEF SockError, wsVars
  <2> QED
    BY <1>1, <2>1, SockGone
<1>3. CASE ~closed
  <2>1. Destroy /\ StreamTypes' /\ compressed' \in BOOLEAN
    BY <1>1, <1>3 DEF SockError, IInv, TypeOK, StreamTypes, ControlTypes
  <2> QED
    BY <1>1, <1>3, <2>1, DestroyStep
<1> QED
  BY <1>2, <1>3

(* The 'close' of the TCP socket keeps it.                                 *)
LEMMA SockCloseStep == IInv /\ SockClose => IInv'
BY SockGone DEF SockClose, wsVars, mccpVars, tcpVars, mudVars, viewVars, inputVars

(* What the client enters is dropped, is a size or is the next line.       *)
LEMMA ClientMessageStep == IInv /\ ClientMessage => IInv'
<1> SUFFICES ASSUME IInv, ClientMessage PROVE IInv'
  OBVIOUS
<1>1. /\ ~closed /\ UNCHANGED <<ws, code, closed, compressed, inflate, appReady, stream, fin,
                                opts, got, fed, echoMask, shown, told>>
  BY DEF ClientMessage, wsVars, mccpVars, mudVars, viewVars
<1>2. TypeOK /\ QueueInv /\ LinesInv /\ HeaderInv
  BY LinesParts DEF IInv
<1>3. /\ TcpInv' /\ queue' \in Seq(Items) /\ toMud' \in Seq(Items)
      /\ size' \in Sizes /\ lines' \in Nat
      /\ sock' = sock \/ (sock = "ended" /\ sock' = "failing")
  <2>1. CASE UNCHANGED <<sock, queue, toMud, size, lines>>
    <3>1. TcpInv'
      BY <1>1, <1>2, <2>1, TcpStays DEF TcpInv, tcpVars, Writable
    <3> QED
      BY <1>2, <2>1, <3>1 DEF TypeOK, TcpTypes
  <2>2. ASSUME NEW s \in Sizes, size' = s, SendTcp(<<<<"naws", s>>>>), lines' = lines
        PROVE  /\ TcpInv' /\ queue' \in Seq(Items) /\ toMud' \in Seq(Items)
               /\ size' \in Sizes /\ lines' \in Nat
               /\ sock' = sock \/ (sock = "ended" /\ sock' = "failing")
    <3> DEFINE x == <<"naws", s>>
    <3>1. x \in Replylike /\ x \in Items
      BY DEF Replylike, Items
    <3>2. SendTcp(<<x>>)
      BY <2>2
    <3> HIDE DEF x
    <3>3. <<x>> \in Seq(Items) /\ \A m \in 1..Len(<<x>>) : <<x>>[m] \in Replylike
      BY <3>1
    <3>4. QueueInv' /\ LinesInv' /\ HeaderInv'
      BY <1>1, <1>2, <2>2, <3>2, <3>3, SendReplies
    <3>5. /\ queue' \in Seq(Items) /\ toMud' \in Seq(Items)
          /\ sock' = sock \/ (sock = "ended" /\ sock' = "failing")
      BY <1>2, <3>2, <3>3, SendFacts
    <3>6. size' \in Sizes /\ lines' \in Nat
      BY <1>2, <2>2 DEF TypeOK, TcpTypes
    <3> QED
      BY <3>4, <3>5, <3>6 DEF TcpInv
  <2>3. ASSUME lines' = lines + 1, SendTcp(<<Line(lines + 1)>>), size' = size
        PROVE  /\ TcpInv' /\ queue' \in Seq(Items) /\ toMud' \in Seq(Items)
               /\ size' \in Sizes /\ lines' \in Nat
               /\ sock' = sock \/ (sock = "ended" /\ sock' = "failing")
    <3>1. lines \in Nat /\ lines' \in Nat /\ size' \in Sizes
      BY <1>2, <2>3 DEF TypeOK, TcpTypes
    <3>2. Line(lines + 1) \in Items
      BY <3>1, ItemFacts
    <3>3. <<Line(lines + 1)>> \in Seq(Items)
      BY <3>2
    <3>4. QueueInv' /\ LinesInv' /\ HeaderInv'
      BY <1>1, <1>2, <2>3, SendLine
    <3>5. /\ queue' \in Seq(Items) /\ toMud' \in Seq(Items)
          /\ sock' = sock \/ (sock = "ended" /\ sock' = "failing")
      BY <1>2, <2>3, <3>3, SendFacts
    <3> QED
      BY <3>1, <3>4, <3>5 DEF TcpInv
  <2> QED
    BY <2>1, <2>2, <2>3 DEF ClientMessage
<1>4. TypeOK'
  <2>1. StreamTypes' /\ TcpTypes'
    BY <1>1, <1>2, <1>3 DEF TypeOK, StreamTypes, TcpTypes
  <2>2. ControlTypes'
    BY <1>1, <1>2, <1>3 DEF TypeOK, ControlTypes
  <2> QED
    BY <2>1, <2>2 DEF TypeOK
<1>5. InflaterInv' /\ MaskIsTold'
  BY <1>1, <1>3 DEF IInv, InflaterInv, MaskIsTold
<1>6. ShownInv'
  BY <1>1 DEF IInv, ShownInv
<1> QED
  BY <1>3, <1>4, <1>5, <1>6, Together

(* A client over its budget keeps it.                                      *)
LEMMA ClientOverBudgetStep == IInv /\ ClientOverBudget => IInv'
<1> SUFFICES ASSUME IInv, ClientOverBudget PROVE IInv'
  OBVIOUS
<1>1. StreamTypes' /\ compressed' \in BOOLEAN
  BY DEF ClientOverBudget, IInv, TypeOK, StreamTypes, ControlTypes, mudVars
<1> QED
  BY <1>1, DestroyStep DEF ClientOverBudget, mudVars, viewVars, inputVars

(* The 'close' of the WebSocket keeps it.                                  *)
LEMMA OnWsCloseStep == IInv /\ OnWsClose => IInv'
<1> SUFFICES ASSUME IInv, OnWsClose PROVE IInv'
  OBVIOUS
<1>1. /\ ws' = "closed" /\ closed' = TRUE /\ sock' = "destroyed"
      /\ inflate' \in {inflate, "destroyed"}
      /\ UNCHANGED <<code, compressed, appReady, queue, toMud, opts, stream, fin, got, fed,
                     echoMask, shown, told, size, lines>>
  BY DEF OnWsClose, tcpVars, mudVars, viewVars, inputVars
<1>2. ControlTypes'
  BY <1>1 DEF IInv, TypeOK, ControlTypes
<1>3. StreamTypes' /\ TcpTypes'
  BY <1>1 DEF IInv, TypeOK, StreamTypes, TcpTypes
<1>4. TcpInv'
  BY <1>1, TcpStays, LinesParts DEF IInv, TcpInv, tcpVars, Writable
<1>5. InflaterInv' /\ MaskIsTold' /\ ShownInv'
  BY <1>1 DEF IInv, InflaterInv, MaskIsTold, ShownInv, CleanCloseIsComplete, Texts
<1> QED
  BY <1>2, <1>3, <1>4, <1>5, Together DEF TypeOK

-----------------------------------------------------------------------------
(* The invariant of the bridge holds in every reachable state: what is     *)
(* inside the inflater, what the client was shown and told, and what is on *)
(* the wire agree with the state of both connections (bridge.ts            *)
(* bridgeWsToMud).                                                         *)
THEOREM BridgeInvariant == Spec => []IInv
<1>1. IInv /\ [Next]_vars => IInv'
  <2> SUFFICES ASSUME IInv, Next PROVE IInv'
    BY Stutter
  <2>1. CASE Connect \/ PlainData \/ MccpStart \/ CompressedData
    BY <2>1, ConnectStep, PlainDataStep, MccpStartStep, CompressedDataStep
  <2>2. CASE InflateData \/ InflateError \/ InflateEnd
    BY <2>2, InflateDataStep, InflateErrorStep, InflateEndStep
  <2>3. CASE SockEnd \/ SockError \/ SockClose \/ FinTimeout
    BY <2>3, SockEndStep, SockErrorStep, SockCloseStep, FinTimeoutStep
  <2>4. CASE ClientMessage \/ ClientOverBudget \/ ClientCloses \/ CloseCompletes
    BY <2>4, ClientMessageStep, ClientOverBudgetStep, OnWsCloseStep
       DEF ClientCloses, CloseCompletes
  <2>5. CASE \E kind \in Kinds : MudSends(kind)
    BY <2>5, MudSendsStep
  <2>6. CASE \E how \in {"clean", "cut"} : MudEnds(how)
    BY <2>6, MudEndsStep
  <2> QED
    BY <2>1, <2>2, <2>3, <2>4, <2>5, <2>6 DEF Next
<1> QED
  BY <1>1, InitInvariant, PTL DEF Spec

(* "mud closed" is said only to a client that was shown everything, and    *)
(* never over a compressed stream that was cut (bridge.ts                  *)
(* finishInflateThenClose).                                                *)
THEOREM CleanCloses == Spec => []CleanCloseIsComplete
<1>1. IInv => CleanCloseIsComplete
  BY DEF IInv, ShownInv, CleanCloseIsComplete
<1> QED
  BY <1>1, BridgeInvariant, PTL

(* An open client always knows whether to mask its input (bridge.ts        *)
(* setEchoMask).                                                           *)
THEOREM MaskReachesClient == Spec => []MaskIsTold
<1>1. IInv => MaskIsTold
  BY DEF IInv
<1> QED
  BY <1>1, BridgeInvariant, PTL

(* The lines of the client reach the MUD in order, none twice, none left   *)
(* out, behind the PROXY header (bridge.ts sendTcp, flushTcpAppQueue).     *)
THEOREM LinesReachMud == Spec => []LinesInOrder
<1>1. IInv => LinesInOrder
  BY DEF IInv
<1> QED
  BY <1>1, BridgeInvariant, PTL

=============================================================================

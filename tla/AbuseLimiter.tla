----------------------------- MODULE AbuseLimiter -----------------------------
(***************************************************************************)
(* apps/proxy/src/limits.ts, class AbuseLimiter: the two maps that count   *)
(* concurrent sessions and the closures that give a slot back, and the     *)
(* fixed one-minute windows that count upgrades, hellos and bytes.         *)
(*                                                                         *)
(* A map entry that is absent is the number 0.  A release closure is the   *)
(* record of what it captured; "live" holds the closures whose released    *)
(* flag is still false.                                                    *)
(***************************************************************************)
EXTENDS Integers, FiniteSets

CONSTANTS
  Ips,           (* effective client addresses                     *)
  Ids,           (* identities of tryAcquire calls                 *)
  MaxPerIp,      (* cfg.concurrentWsPerIp                          *)
  MaxPerToken    (* cfg.concurrentWsPerToken                       *)

(* The bucket names server.ts passes to tryAcquire. *)
Tokens == {"tok", "pre", "anon"}
Slots  == [id : Ids, ip : Ips, tok : Tokens]

ASSUME LimitAssumption ==
  /\ MaxPerIp \in Nat \ {0}
  /\ MaxPerToken \in Nat \ {0}

VARIABLES
  wsByIp,        (* Map<ip, number>                                *)
  wsByToken,     (* Map<tokenKey, number>                          *)
  live           (* release closures not yet called                *)

limiterVars == <<wsByIp, wsByToken, live>>

(* A count is never below zero nor above its limit.                        *)
LimiterTypeOK ==
  /\ wsByIp \in [Ips -> 0..MaxPerIp]
  /\ wsByToken \in [Tokens -> 0..MaxPerToken]
  /\ live \in SUBSET Slots

LimiterInit ==
  /\ wsByIp = [ip \in Ips |-> 0]
  /\ wsByToken = [t \in Tokens |-> 0]
  /\ live = {}

(* Faults for the properties to catch: the comparison is off by one, or    *)
(* the address is never looked at.                                         *)
HasRoomForOneMore(ip, tok) ==
  wsByIp[ip] <= MaxPerIp /\ wsByToken[tok] < MaxPerToken
HasRoomByToken(ip, tok) == wsByToken[tok] < MaxPerToken

(* tryAcquire's two early returns. *)
HasRoom(ip, tok) ==
  /\ wsByIp[ip] < MaxPerIp
  /\ wsByToken[tok] < MaxPerToken

(* tryAcquire past its early returns: both maps count one more and the     *)
(* closure s is handed out.                                                *)
TryAcquire(s) ==
  /\ HasRoom(s.ip, s.tok)
  /\ wsByIp' = [wsByIp EXCEPT ![s.ip] = @ + 1]
  /\ wsByToken' = [wsByToken EXCEPT ![s.tok] = @ + 1]
  /\ live' = live \cup {s}

(* One decrement of the release closure: (get ?? 1) - 1, and the entry is  *)
(* deleted when nothing is left.                                           *)
OneLess(n) == IF n = 0 THEN 0 ELSE n - 1

(* Fault: the token bucket is not given back. *)
ReleaseOfAddress(s) ==
  IF s \in live
  THEN /\ wsByIp' = [wsByIp EXCEPT ![s.ip] = OneLess(@)]
       /\ live' = live \ {s}
       /\ UNCHANGED wsByToken
  ELSE UNCHANGED limiterVars

(* Calling the release closure; a second call does nothing. *)
Release(s) ==
  IF s \in live
  THEN /\ wsByIp' = [wsByIp EXCEPT ![s.ip] = OneLess(@)]
       /\ wsByToken' = [wsByToken EXCEPT ![s.tok] = OneLess(@)]
       /\ live' = live \ {s}
  ELSE UNCHANGED limiterVars

(* hitWindow and hitBytes: a window that is absent (0) or whose minute is  *)
(* over starts again before n is added to it.  Whether the minute is over  *)
(* is the clock's to say; RateWindow models the clock.                     *)
Hit(count, expired, n) == (IF expired THEN 0 ELSE count) + n

-----------------------------------------------------------------------------
(* The closures still to be called, by what they are charged to.           *)
LiveOnIp(ip) == {s \in live : s.ip = ip}
LiveOnTok(t) == {s \in live : s.tok = t}

(* Both maps agree with the closures that are still to be called: no       *)
(* acquire or release updates one and not the other, and none is counted   *)
(* twice (tryAcquire and the closure it returns).                          *)
SlotCounts ==
  /\ \A ip \in Ips : wsByIp[ip] = Cardinality(LiveOnIp(ip))
  /\ \A t \in Tokens : wsByToken[t] = Cardinality(LiveOnTok(t))

(* The maps and the closures implement the bare set of held slots.         *)
Pool == INSTANCE SlotPool WITH held <- live
===============================================================================

------------------------------- MODULE SlotPool -------------------------------
(***************************************************************************)
(* What the proxy's concurrency limit promises, without its bookkeeping:   *)
(* a set of held slots, each charged to a client address and to a token    *)
(* bucket, that never holds more than the configured number for either.    *)
(* A slot is the release closure that AbuseLimiter.tryAcquire returns: it  *)
(* captures an address and a bucket.                                       *)
(***************************************************************************)
EXTENDS Integers, FiniteSets

CONSTANTS
  Slots,         (* every slot that may be asked for: records with an ip and a tok *)
  MaxPerIp,      (* LimitConfig.concurrentWsPerIp                                  *)
  MaxPerToken    (* LimitConfig.concurrentWsPerToken                               *)

VARIABLE held    (* the slots handed out and not given back *)

HeldByIp(ip)   == {s \in held : s.ip = ip}
HeldByTok(tok) == {s \in held : s.tok = tok}

Init == held = {}

Acquire(s) ==
  /\ s \notin held
  /\ Cardinality(HeldByIp(s.ip)) < MaxPerIp
  /\ Cardinality(HeldByTok(s.tok)) < MaxPerToken
  /\ held' = held \cup {s}

GiveBack(s) ==
  /\ s \in held
  /\ held' = held \ {s}

Next == \E s \in Slots : Acquire(s) \/ GiveBack(s)

Spec == Init /\ [][Next]_held
===============================================================================

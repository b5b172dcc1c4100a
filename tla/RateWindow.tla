------------------------------ MODULE RateWindow ------------------------------
(***************************************************************************)
(* apps/proxy/src/limits.ts, hitWindow and hitBytes: one window of one key *)
(* against the clock.  A window starts with the first hit after the last   *)
(* one is over, so its place on the time axis is the client's to choose.   *)
(*                                                                         *)
(* Time is Date.now in units of which a window lasts Period; the clock     *)
(* does not go backwards here.                                             *)
(***************************************************************************)
EXTENDS Integers

CONSTANTS
  Period,        (* 60_000                                                 *)
  Budget,        (* max, maxBytes                                          *)
  Amounts,       (* what one hit counts: 1 for upgrades and hellos, the    *)
                 (* length of a message for bytes                          *)
  MaxNow         (* bound: the last instant                                *)

ASSUME RateAssumption ==
  /\ {Period, Budget} \subseteq Nat \ {0}
  /\ Amounts \subseteq Nat
  /\ MaxNow \in Nat

VARIABLES
  now,           (* Date.now()                                             *)
  count,         (* w.count, w.bytes                                       *)
  resetAt,       (* w.resetAt; 0 when the map has no window for the key    *)
  admitted       (* what was let through before each instant               *)

rate == <<now, count, resetAt, admitted>>

RateInit ==
  /\ now = 0
  /\ count = 0
  /\ resetAt = 0
  /\ admitted = [t \in 0..(MaxNow + 1) |-> 0]

(* A window that is absent or over makes room for a new one.               *)
Over == now >= resetAt

(* resetAt after a hit.                                                    *)
ResetAfter == IF Over THEN now + Period ELSE resetAt

(* The verdict: "total" counts this hit of n, and those that were refused. *)
Within(total, n) == total <= Budget

(* n more were let through before every instant to come.                   *)
LetThrough(n) ==
  admitted' = [t \in 0..(MaxNow + 1) |-> IF t > now THEN admitted[t] + n
                                         ELSE admitted[t]]

(* hitWindow, hitBytes.  A hit of nothing touches no window.               *)
HitWindow(n) ==
  LET total == (IF Over THEN 0 ELSE count) + n IN
  /\ IF n = 0
     THEN UNCHANGED <<count, resetAt, admitted>>
     ELSE /\ count' = total
          /\ resetAt' = ResetAfter
          /\ IF Within(total, n) THEN LetThrough(n) ELSE UNCHANGED admitted
  /\ UNCHANGED now

Tick ==
  /\ now < MaxNow
  /\ now' = now + 1
  /\ UNCHANGED <<count, resetAt, admitted>>

-----------------------------------------------------------------------------
Passed(first, last) == admitted[last + 1] - admitted[first]

(* No minute, wherever it is laid on the time axis, lets more than twice   *)
(* the budget through: the end of one window and the start of the next     *)
(* are the most a client can make of fixed windows (limits.ts hitBytes).   *)
TwiceAtMost ==
  \A t \in 0..(MaxNow + 1 - Period) : Passed(t, t + Period - 1) <= 2 * Budget
===============================================================================

----------------------------- MODULE BurstDetector -----------------------------
(***************************************************************************)
(* packages/nav-memory/src/burstDetector.ts: guesses from absolute cursor  *)
(* moves that the MUD drew a map, waits until it is quiet and has the      *)
(* screen stored.  A detector is a record of the fields of the class.      *)
(*                                                                         *)
(* Time is what may happen next: rows leave the window at any event, a     *)
(* timer that is set may fire, and the interval since the last capture     *)
(* ends (recent).                                                          *)
(***************************************************************************)
EXTENDS Integers

CONSTANT MinRows (* minDistinctCupRows                                     *)

NewDetector ==
  [auto |-> TRUE, armed |-> FALSE, rows |-> 0, settle |-> FALSE,
   retry |-> FALSE, capturing |-> FALSE, recent |-> FALSE]

(* A cup-abs event that leaves n rows in the window.                       *)
CupAbs(d, n) ==
  IF ~d.auto THEN d
  ELSE LET armed == d.armed \/ n >= MinRows
       IN  [d EXCEPT !.rows = n, !.armed = armed, !.settle = d.settle \/ armed]

(* A buf-mut event.                                                        *)
BufMut(d) == IF d.auto /\ d.armed THEN [d EXCEPT !.settle = TRUE] ELSE d

Disarmed(d) ==
  [d EXCEPT !.armed = FALSE, !.rows = 0, !.settle = FALSE, !.retry = FALSE]

SetAutoDetectEnabled(d, on) ==
  IF on THEN [d EXCEPT !.auto = TRUE] ELSE [Disarmed(d) EXCEPT !.auto = FALSE]

Ready(d) == d.auto /\ d.armed /\ ~d.capturing

(* Fault: too early, and no timer for later.                               *)
TryCaptureOnce(d) ==
  IF ~Ready(d) \/ d.recent THEN d ELSE [Disarmed(d) EXCEPT !.capturing = TRUE]

(* tryCapture: it stores when the result is capturing.                     *)
TryCapture(d) ==
  IF ~Ready(d) THEN d
  ELSE IF d.recent THEN [d EXCEPT !.retry = TRUE]
  ELSE [Disarmed(d) EXCEPT !.capturing = TRUE]

Finish(d, ok) == [d EXCEPT !.capturing = FALSE, !.recent = d.recent \/ ok]
===============================================================================

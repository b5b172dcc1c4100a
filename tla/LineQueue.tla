------------------------------ MODULE LineQueue ------------------------------
(***************************************************************************)
(* What MudSocket promises about the lines a user enters: they reach the   *)
(* wire in the order they were entered and none twice; a line may wait,    *)
(* and a line that waits may only be lost when it is the oldest of a full  *)
(* queue, or with the whole queue when the socket is stopped.  Lines are   *)
(* numbered in the order they are entered.                                 *)
(***************************************************************************)
EXTENDS Integers, Sequences

CONSTANT Cap       (* the queue's capacity *)

VARIABLES entered, (* lines entered so far                          *)
          waiting, (* the queue                                     *)
          wire     (* lines handed to a WebSocket, in order         *)

vars == <<entered, waiting, wire>>

Init == entered = 0 /\ waiting = <<>> /\ wire = <<>>

SendNow ==
  /\ waiting = <<>>
  /\ entered' = entered + 1
  /\ wire' = Append(wire, entered + 1)
  /\ UNCHANGED waiting

Enqueue ==
  /\ entered' = entered + 1
  /\ waiting' = IF Len(waiting) < Cap THEN Append(waiting, entered + 1)
                ELSE Append(Tail(waiting), entered + 1)
  /\ UNCHANGED wire

Flush ==
  /\ wire' = wire \o waiting
  /\ waiting' = <<>>
  /\ UNCHANGED entered

Discard == waiting' = <<>> /\ UNCHANGED <<entered, wire>>

Next == SendNow \/ Enqueue \/ Flush \/ Discard

Spec == Init /\ [][Next]_vars
===============================================================================

------------------------------ MODULE VaultStore ------------------------------
(***************************************************************************)
(* What the credential vault promises about its document, whoever writes   *)
(* it and whenever a tab dies: there is one document or none; a save adds  *)
(* to what is stored and takes nothing of it back; and a vault that is     *)
(* created has a generation that none before it had.  Stored changes are   *)
(* members of a set.                                                       *)
(***************************************************************************)
EXTENDS Integers

CONSTANTS
  Changes,       (* changes a user may save                                *)
  NoVault        (* there is no document                                   *)

VARIABLES
  vault,         (* the document: its generation and the changes stored    *)
  last           (* the last generation used                               *)

Init == vault = NoVault /\ last = 0

Create ==
  /\ vault = NoVault
  /\ last' = last + 1
  /\ vault' = [gen |-> last + 1, data |-> {}]

Save ==
  /\ vault # NoVault
  /\ vault' \in [gen : {vault.gen}, data : SUBSET Changes]
  /\ vault.data \subseteq vault'.data
  /\ UNCHANGED last

Clear ==
  /\ vault' = NoVault
  /\ last' = last + 1

(* A create that fails between its two writes has used a generation up.    *)
Wasted == vault = NoVault /\ last' = last + 1 /\ UNCHANGED vault

Next == Create \/ Save \/ Clear \/ Wasted

Spec == Init /\ [][Next]_<<vault, last>>
===============================================================================

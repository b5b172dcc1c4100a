----------------------------- MODULE MCMudSocket -----------------------------
(* Instances of MudSocket for TLC.                                         *)
EXTENDS MudSocket
===============================================================================

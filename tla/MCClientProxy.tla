---------------------------- MODULE MCClientProxy ----------------------------
(* Instances of ClientProxy for TLC.                                       *)
EXTENDS ClientProxy
===============================================================================

------------------------------ MODULE MCBridge ------------------------------
(* A proxy with MCCP2, and one with the PROXY header.                      *)
EXTENDS Bridge
MCOptions == {[proxy |-> FALSE, mccp |-> TRUE], [proxy |-> TRUE, mccp |-> FALSE]}
===============================================================================

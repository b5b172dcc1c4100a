--------------------------- MODULE MCProxySession ---------------------------
(* Values of ProxySession's constants for TLC: two sessions of one client  *)
(* address behind the same transport peer.                                 *)
EXTENDS ProxySession

CONSTANTS c1, c2, ip1, p1

MCCalls   == Conns \X (1..MaxMsgs)
MCPeerOf  == [c \in Conns |-> p1]
MCAddrOf  == [c \in Conns |-> ip1]
===============================================================================

--------------------------- MODULE MCVaultLifecycle ---------------------------
(* Values of VaultLifecycle's constants for TLC.                           *)
EXTENDS VaultLifecycle

CONSTANTS t1, t2
===============================================================================

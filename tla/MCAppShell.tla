------------------------------ MODULE MCAppShell ------------------------------
EXTENDS AppShell

(* An endpoint that was ticked; a click chooses another mode.              *)
MCStorages ==
  {[mode |-> "custom", url |-> "u", ack |-> TRUE, ticked |-> "u", shared |-> FALSE]}

(* Another window writes while nothing is connected here: what it writes   *)
(* later is first read by a reload, and could as well have come before.    *)
(* Such executions are without a vault and commands, which have nothing to *)
(* do with the settings.                                                   *)
MCNext ==
  /\ Next
  /\ stored'.shared /\ ~stored.shared => ~AnyConnected
  /\ stored'.shared => ~vault'.boot /\ counts'.lines = 0

MCSpec ==
  Init /\ [][MCNext]_vars /\ WF_vars(Render) /\ WF_vars(PickTab) /\ WF_vars(AccountTimer)
===============================================================================

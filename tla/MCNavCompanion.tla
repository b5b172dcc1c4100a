---------------------------- MODULE MCNavCompanion ----------------------------
(* Two tabs of one profile.                                                *)
EXTENDS NavCompanion, TLC
CONSTANTS t1, t2, p1
MCProfileOf == t1 :> p1 @@ t2 :> p1
Symmetry    == Permutations(Tabs)
===============================================================================

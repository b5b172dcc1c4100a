------------------------------ MODULE MCRoomWalk ------------------------------
EXTENDS RoomWalk, TLC
CONSTANTS a, b, c
Go(n, s)  == [n |-> n, s |-> s]
Corridor  == (a :> Go(b, None)) @@ (b :> Go(c, a)) @@ (c :> Go(None, b))
Ring      == (a :> Go(b, c)) @@ (b :> Go(c, a)) @@ (c :> Go(a, b))
Trapdoor  == (a :> Go(b, None)) @@ (b :> Go(None, None)) @@ (c :> Go(c, c))
MCStored  == {<<>>, <<"n", "n">>}
MCWorlds  == {Corridor, Ring, Trapdoor}
MCTitle   == (a :> "hall") @@ (b :> "yard") @@ (c :> "hall")
===============================================================================

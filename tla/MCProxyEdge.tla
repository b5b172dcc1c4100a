----------------------------- MODULE MCProxyEdge ------------------------------
EXTENDS ProxyEdge
CONSTANTS c4, c6, hop

Unset == [k \in Keys |-> None]
Sets(S) == {[Unset EXCEPT !["MODE"] = m, !["TOKEN"] = t, !["ORIGINS"] = o,
                          !["SITE"] = s[1], !["ALLOW"] = s[2],
                          !["HOP"] = h[1], !["HEADER"] = h[2]] :
              m \in {None, "localhost-dev", "remote-prod", "prod"},
              t \in {None, "t"}, o \in {None, "ours"}, s \in S,
              h \in {<<None, None>>, <<"hop", None>>, <<"hop", "xri">>}}
MCEnvironments ==
  Sets({<<None, "mine">>, <<None, "lo">>, <<"on", "lo">>, <<"on", "junk">>})

V4(form, a, b, c, d) == [form |-> form, o |-> <<a, b, c, d>>]
MCAddresses ==
  {V4("dotted", 203, 0, 113, 9), V4("dotted", 127, 0, 0, 1), V4("dotted", 169, 254, 169, 254),
   V4("dotted", 172, 31, 0, 1), V4("dotted", 172, 32, 0, 1), V4("mapped", 10, 0, 0, 1),
   V4("mapped", 100, 127, 0, 1), V4("hex", 192, 168, 0, 1), V4("dotted", 0, 1, 0, 0),
   [form |-> "v6", o |-> <<0, 0, 1>>], [form |-> "v6", o |-> <<253, 0, 1>>]}

(* The clock moves under two of the environments, without and with a hop:  *)
(* what the others let in does not depend on it.                           *)
Clocked ==
  {[Unset EXCEPT !["MODE"] = "remote-prod", !["TOKEN"] = "t", !["ORIGINS"] = "ours",
                 !["ALLOW"] = "mine", !["HOP"] = h] : h \in {None, "hop"}}

MCNext == EdgeNext /\ (now' # now => env \in Clocked)

MCSpec == EdgeInit /\ [][MCNext]_<<rate, edge>>

MCEnvFiles ==
  {<<>>, <<[Unset EXCEPT !["MODE"] = "remote-prod", !["TOKEN"] = "t"],
           [Unset EXCEPT !["MODE"] = "localhost-dev", !["ORIGINS"] = "ours"]>>}
===============================================================================

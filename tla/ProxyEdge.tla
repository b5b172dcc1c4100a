------------------------------- MODULE ProxyEdge -------------------------------
(***************************************************************************)
(* The edge of the proxy: the environment it starts from (loadEnv.ts,      *)
(* cli.ts), its configuration and checks (policy.ts), whose a request is   *)
(* (clientAddr.ts) and what the MUD is told of it (proxyProtocol.ts),      *)
(* along the path of server.ts from the upgrade to the bridge.  Sessions   *)
(* that overlap are ProxySession's; here there is one at a time.           *)
(*                                                                         *)
(* A setting is a variable of the environment; texts that parse to the     *)
(* same are one value.  The window of tryUpgrade is RateWindow, that of    *)
(* the key "watched"; other keys have their own, so they may say anything. *)
(***************************************************************************)
EXTENDS RateWindow, Sequences

CONSTANTS
  None,
  Exit,         (* the process has refused its configuration               *)
  Junk,         (* a header that is not an address                         *)
  Clients,      (* addresses of clients                                    *)
  Ipv4,         (* those that are IPv4                                     *)
  Hop,          (* the address of the reverse proxy in front               *)
  watched,      (* the client or hop whose window is followed              *)
  Addresses,    (* addresses a destination may have                        *)
  Environments, (* what process.env may be at first                        *)
  EnvFiles      (* the .env files that may be found, in order              *)

(* A destination's address as its text is read: four octets, or those      *)
(* mapped into IPv6, "mapped" in dots and "hex" in two groups; or the two  *)
(* octets an IPv6 address begins with and its last, with zeros between.    *)
IpAddrs == [form : {"dotted", "mapped", "hex"}, o : [1..4 -> 0..255]]
           \cup [form : {"v6"}, o : [1..3 -> 0..255]]

ASSUME EdgeAssumption ==
  /\ Addresses \subseteq IpAddrs /\ None \notin Addresses
  /\ Hop \notin Clients /\ watched \in Clients \cup {Hop}
  /\ Ipv4 \subseteq Clients \cup {Hop}
  /\ None \notin Clients \cup {"cf", "xri"}
  /\ {None, Junk} \cap [host : Clients, mapped : BOOLEAN] = {}

Keys == {"MODE", "SITE", "TOKEN", "ALLOW", "ORIGINS", "HOP", "HEADER"}

VARIABLES
  env,       (* process.env                                                *)
  files,     (* .env files that are still to be read                       *)
  cfg,       (* None, Exit, or the configuration it listens with           *)
  conn       (* None, or the session                                       *)

edge == <<env, files, cfg, conn>>

EdgeInit ==
  /\ RateInit
  /\ env \in Environments /\ files \in EnvFiles
  /\ cfg = None /\ conn = None

-----------------------------------------------------------------------------
(* loadDotEnv reads one file after the other: the first one wins.          *)
ApplyEnv(e, file) == [k \in Keys |-> IF e[k] = None THEN file[k] ELSE e[k]]

LoadFile ==
  /\ cfg = None /\ files # <<>>
  /\ env' = ApplyEnv(env, Head(files))
  /\ files' = Tail(files)
  /\ UNCHANGED <<cfg, conn>>

(* Host and port pairs: "rw", the default; "mine", another MUD; "lo", one  *)
(* on this machine.  What does not parse is skipped.                       *)
ParseAllowlistEnv(text) == {text} \cap {"mine", "lo"}
MergeAllowlist(base, extra) == base \cup extra
EnvTruthy(text) == text = "on"

(* A trusted hop is a set of addresses.                                    *)
ParseTrustedHops(text) == IF text = None THEN {} ELSE {{Hop}}

DefaultConfig(e) ==
  LET dev   == e["MODE"] \in {None, "localhost-dev"}
      site  == EnvTruthy(e["SITE"])
      extra == ParseAllowlistEnv(e["ALLOW"])
  IN  [mode    |-> IF dev THEN "localhost-dev" ELSE e["MODE"],
       site    |-> site,
       token   |-> e["TOKEN"],
       allow   |-> IF dev THEN MergeAllowlist({"rw", "lo"}, extra)
                   ELSE IF site THEN extra ELSE MergeAllowlist({"rw"}, extra),
       relax   |-> dev,
       origins |-> IF e["ORIGINS"] # None THEN {e["ORIGINS"]}
                   ELSE IF dev THEN {"local"} ELSE {},
       hops    |-> ParseTrustedHops(e["HOP"]),
       header  |-> e["HEADER"]]

AssertProdConfig(c) ==
  /\ c.site => c.mode = "remote-prod" /\ c.allow # {}
  /\ c.mode = "remote-prod" => c.token # None /\ c.origins # {}

(* cli.ts                                                                  *)
Listen ==
  /\ cfg = None /\ files = <<>>
  /\ LET c == DefaultConfig(env) IN cfg' = IF AssertProdConfig(c) THEN c ELSE Exit
  /\ UNCHANGED <<env, files, conn>>

-----------------------------------------------------------------------------
(* An address as it is written: IPv4 may come mapped into IPv6.            *)
Written(host) == [host : {host}, mapped : IF host \in Ipv4 THEN BOOLEAN ELSE {FALSE}]

(* Fault: the written form is the key.                                     *)
NormalizeIpNot(ip) == ip

NormalizeIp(ip) == ip.host

(* Fault: a header is believed whoever sends it.                           *)
IsAnyPeer(peer, hops) == hops # {}

IsTrustedPeer(peer, hops) == \E hop \in hops : NormalizeIp(peer) \in hop

IsValidClientIp(value) == value \notin {None, Junk}

(* Which header the client's address is taken from, the one that is locked *)
(* or CF-Connecting-IP and then X-Real-IP, None for the peer's own address; *)
(* and the address, None to refuse.                                        *)
HeaderSource(peer, headers) ==
  IF ~IsTrustedPeer(peer, cfg.hops) THEN None
  ELSE IF cfg.header # None THEN cfg.header
  ELSE IF IsValidClientIp(headers["cf"]) THEN "cf" ELSE "xri"

ResolveEffectiveClientAddr(peer, headers) ==
  LET source == HeaderSource(peer, headers)
  IN  IF source = None THEN NormalizeIp(peer)
      ELSE IF IsValidClientIp(headers[source]) THEN NormalizeIp(headers[source]) ELSE None

CheckOrigin(origin) ==
  IF cfg.mode = "localhost-dev"
  THEN origin \in {None, "local"} \cup cfg.origins
  ELSE origin \in cfg.origins

(* checkAuth, with the right token in one place or nowhere.                *)
CheckAuth(cred) ==
  LET dev == cfg.mode = "localhost-dev"
  IN  IF cfg.token = None THEN dev
      ELSE cred \in {"bearer", "cookie"} \/ (cred = "query" /\ dev)

(* A text that begins with fc, fd or fe80:.                                *)
IsLocalText(o) == o[1] \in {252, 253} \/ (o[1] = 254 /\ o[2] = 128)

(* The tests of an IPv4 text: exact addresses and prefixes.                *)
IsPrivateText(o) ==
  \/ o \in {<<127, 0, 0, 1>>, <<0, 0, 0, 0>>}
  \/ o[1] = 10
  \/ o[1] = 192 /\ o[2] = 168
  \/ o[1] = 169 /\ o[2] = 254
  \/ o[1] = 100 /\ o[2] \in 64..127
  \/ o[1] = 172 /\ o[2] \in 16..31

(* Fault: "::ffff:" is not taken off.                                      *)
IsPrivateOrBlockedIpMapped(ip) ==
  CASE ip.form = "dotted" -> IsPrivateText(ip.o)
    [] ip.form = "v6"     -> ip.o \in {<<0, 0, 0>>, <<0, 0, 1>>} \/ IsLocalText(ip.o)
    [] OTHER              -> FALSE

(* isPrivateOrBlockedIp: "::ffff:" is taken off first.                     *)
IsPrivateOrBlockedIp(ip) ==
  CASE ip.form \in {"dotted", "mapped"} -> IsPrivateText(ip.o)
    [] ip.form = "v6"  -> ip.o \in {<<0, 0, 0>>, <<0, 0, 1>>} \/ IsLocalText(ip.o)
    [] ip.form = "hex" -> IsLocalText(ip.o)

(* assertDestinationAllowed, for a destination of this address; a name     *)
(* that does not resolve is as good as a blocked one.                      *)
AssertDestinationAllowed(dest, ip) ==
  LET onList   == dest \in cfg.allow
      loopback == onList /\ dest = "lo" /\ (cfg.mode = "localhost-dev" \/ cfg.site)
  IN  /\ onList \/ cfg.relax
      /\ ip # [form |-> "dotted", o |-> <<169, 254, 169, 254>>]
      /\ IsPrivateOrBlockedIp(ip) => loopback

(* A name has the IPv4 address the name service gives it, lookup's family  *)
(* 4; "mine" and "other" may be addresses themselves.                      *)
Dotted == {ip \in Addresses : ip.form = "dotted"}

Destinations == ({"lo"} \X {ip \in Addresses :
                             \/ ip.form = "dotted" /\ ip.o = <<127, 0, 0, 1>>
                             \/ ip.form = "v6" /\ ip.o = <<0, 0, 1>>})
                \cup ({"rw"} \X Dotted) \cup ({"mine", "other"} \X Addresses)

FormatProxyV1Header(src, dst) ==
  IF src \in Ipv4 /\ dst.form \in {"dotted", "mapped"} THEN src ELSE "UNKNOWN"

-----------------------------------------------------------------------------
Listening == cfg \notin {None, Exit}

(* The headers of a request.  The hop overwrites those it writes, and      *)
(* passes on what else the client sent.                                    *)
Headers(client, wrote) ==
  LET Any == {None, Junk} \cup UNION {Written(c) : c \in Clients}
  IN  {h \in [{"cf", "xri"} -> Any] : \A name \in wrote : h[name] \in Written(client)}

OnUpgrade(client, by_hop, wrote, peer, headers, origin, cred) ==
  LET key  == NormalizeIp(peer)
      addr == ResolveEffectiveClientAddr(peer, headers)
      open == CheckOrigin(origin) /\ addr # None
      made == [client |-> client, by_hop |-> by_hop, wrote |-> wrote, addr |-> addr,
               source |-> HeaderSource(peer, headers), origin |-> origin, cred |-> cred,
               pre |-> CheckAuth(cred), dest |-> None, ip |-> None, src |-> None]
  IN  /\ Listening /\ conn = None
      /\ IF key = watched
         THEN /\ count <= 2 * Budget /\ HitWindow(1)
              /\ conn' = IF Within(count', 1) /\ open THEN made ELSE None
         ELSE (* Another key; what passes is written down by address.      *)
              /\ conn' \in {None, IF open THEN made ELSE None}
              /\ UNCHANGED <<now, count, resetAt>>
              /\ IF peer.host = watched /\ conn' # None THEN LetThrough(1)
                 ELSE UNCHANGED admitted
      /\ UNCHANGED <<env, files, cfg>>

(* onClientMessage: the first message, with a token or not.                *)
Hello(token, dest, ip) ==
  LET authed == \/ conn.pre
                \/ token = "right" /\ cfg.token # None
                \/ cfg.mode = "localhost-dev" /\ cfg.token = None
      ok     == authed /\ AssertDestinationAllowed(dest, ip)
  IN  /\ conn # None /\ conn.dest = None
      /\ conn' = IF ok THEN [conn EXCEPT !.dest = dest, !.ip = ip,
                               !.cred = IF token = "right" THEN "hello" ELSE @,
                               !.src = FormatProxyV1Header(conn.addr, ip)]
                 ELSE None
      /\ UNCHANGED <<rate, env, files, cfg>>

Close == conn # None /\ conn' = None /\ UNCHANGED <<rate, env, files, cfg>>

Pass == Listening /\ Tick /\ UNCHANGED edge

EdgeNext ==
  \/ (LoadFile \/ Listen) /\ UNCHANGED rate
  \/ Pass \/ Close
  \/ \E client \in Clients, by_hop \in BOOLEAN :
       \E peer \in Written(IF by_hop THEN Hop ELSE client),
          wrote \in IF by_hop THEN SUBSET {"cf", "xri"} ELSE {{}} :
         Listening /\ conn = None /\ \E headers \in Headers(client, wrote),
            origin \in {None, "ours", "local", "other"},
            cred \in {"none", "bearer", "cookie", "query"} :
           OnUpgrade(client, by_hop, wrote, peer, headers, origin, cred)
  \/ \E token \in {None, "right", "wrong"}, d \in Destinations : Hello(token, d[1], d[2])

EdgeSpec == EdgeInit /\ [][EdgeNext]_<<rate, edge>>

-----------------------------------------------------------------------------
(* Out of production mode's reach: whatever the environment, even a mode   *)
(* that is misspelt, only development opens a bridge for who did not show  *)
(* the token, comes from a page that is not listed, or names a destination *)
(* that is not; and only a MUD of this machine that is listed by its own   *)
(* name, in development or on a site, has an address of a private range.   *)
(* The list of policy.ts knows of the ranges but the parts named in        *)
(* NotOnList, for which the threat model's "always block private" fails.   *)
IsPrivate(ip) ==
  IF ip.form = "v6"
  THEN \/ ip.o \in {<<0, 0, 0>>, <<0, 0, 1>>} \/ ip.o[1] \in {252, 253}
       \/ ip.o[1] = 254 /\ ip.o[2] \in 128..191
  ELSE \/ ip.o[1] \in {0, 10, 127}
       \/ ip.o[1] = 100 /\ ip.o[2] \in 64..127
       \/ ip.o[1] = 172 /\ ip.o[2] \in 16..31
       \/ <<ip.o[1], ip.o[2]>> \in {<<192, 168>>, <<169, 254>>}

NotOnList(ip) ==
  \/ ip.form = "hex"
  \/ ip.form = "v6" /\ ip.o[1] = 254 /\ ip.o[2] \in 129..191
  \/ ip.form # "v6" /\ ip.o[1] \in {0, 127} /\ ip.o \notin {<<0, 0, 0, 0>>, <<127, 0, 0, 1>>}

BridgeIsAllowed ==
  conn # None /\ conn.dest # None =>
    /\ cfg.mode # "localhost-dev" =>
         /\ cfg.token # None /\ conn.cred \in {"bearer", "cookie", "hello"}
         /\ conn.origin \in {env["ORIGINS"]} \ {None}
         /\ conn.dest \in ParseAllowlistEnv(env["ALLOW"])
                          \cup IF env["SITE"] = "on" THEN {} ELSE {"rw"}
    /\ IsPrivate(conn.ip) /\ ~NotOnList(conn.ip) =>
         conn.dest = "lo" /\ (cfg.mode = "localhost-dev" \/ env["SITE"] = "on")

(* A client is counted, and named to the MUD, as itself: directly it       *)
(* cannot pass for another whatever headers it sends, and behind the hop   *)
(* it is not taken for the hop, provided the hop is trusted and itself     *)
(* writes the header that is believed.  Which one that is the client has a *)
(* say in when none is locked and the hop writes X-Real-IP alone, as       *)
(* deploy/nginx-mud.revivalworld.org.conf:66 does: CF-Connecting-IP, which *)
(* the hop then passes on, comes first.  Such a session is exempt.         *)
CountedAsItself ==
  conn # None =>
    /\ ~conn.by_hop \/ conn.source \in {None} \cup conn.wrote =>
         conn.addr = IF conn.by_hop /\ env["HOP"] = None THEN Hop ELSE conn.client
    /\ conn.src \in {None, "UNKNOWN", conn.addr}
===============================================================================

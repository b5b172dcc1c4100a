------------------------------- MODULE AppShell -------------------------------
(***************************************************************************)
(* The application shell (App.tsx): tabs, the one terminal that is mounted *)
(* for the selected tab, password mode, auto-login, and the choice of the  *)
(* proxy (ConnectGate.tsx, lib/trustMode.ts), which localStorage keeps in  *)
(* keys of their own, for this window and any other.                       *)
(*                                                                         *)
(* React renders later than state changes: "shown" is what the last render *)
(* and its effects have seen, and a timer may fire between a change and    *)
(* the render that would clear it.  What takes the network or a back-off   *)
(* waits for the render: Settled.  MudSocket is reduced to the status it   *)
(* reports, its queue and what reaches the MUD.                            *)
(***************************************************************************)
EXTENDS Naturals, Sequences, SequencesExt

CONSTANTS
  None,
  Profiles,    (* each with a MUD, an account and a password of its own    *)
  FirstProfile,  (* the one a new page starts with                         *)
  AutoLogin,   (* those whose secret says autoLogin                        *)
  Urls,        (* endpoints a user may enter; "" is none                   *)
  Storages,    (* what localStorage may hold when the first page is loaded *)
  MaxTabs,     (* bound: tabs at a time                                    *)
  MaxIds,      (* bound: tabs ever                                         *)
  MaxOpens,    (* bound: sockets and retries                               *)
  MaxActs,     (* bound: what the user does, commands apart                *)
  MaxLines     (* bound: commands                                          *)

Codes ==
  {"idle", "connecting", "handshaking", "connected", "reconnect_wait", "max_retries"}

(* A line that goes to the MUD: a command of a tab, or the account or the  *)
(* password of a profile.                                                  *)
Lines ==
  [kind : {"command", "walk", "account", "password"}, of : Nat \cup Profiles, queued : BOOLEAN]

Timers == [tab : Nat, prof : Profiles]

Sockets ==
  [tab : Nat, prof : Profiles \cup {None}, code : Codes, mask : BOOLEAN,
   out : Seq(Lines), got : Seq(Lines), changed : BOOLEAN, url : Urls \cup {""}]

Modes == {"local", "selfhost", "custom"}

(* The three keys of trustMode.ts.  "ticked" is no key: which endpoint the *)
(* window showed whose tick this is; nor is "shared": that a second window *)
(* has written since the first page.                                       *)
TrustSettings ==
  [mode : Modes, url : Urls, ack : BOOLEAN, ticked : Urls \cup {None}, shared : BOOLEAN]

(* What one window leaves behind.                                          *)
StoredByOne(s) == ~s.shared /\ (s.ack => s.mode = "custom" /\ s.ticked = s.url)

ASSUME ShellAssumption ==
  /\ Storages \subseteq {s \in TrustSettings : StoredByOne(s)}
  /\ FirstProfile \in Profiles /\ AutoLogin \subseteq Profiles
  /\ {MaxTabs, MaxIds, MaxOpens, MaxActs, MaxLines} \subseteq Nat
  /\ None \notin Nat \cup Profiles /\ None \notin Lines /\ None \notin Timers /\ None \notin Sockets

VARIABLES
  tabs,        (* setTabs: a sequence                                      *)
  tabId,       (* setTabId                                                 *)
  pick,        (* None, or the tab a microtask will select                 *)
  echoMask,    (* setEchoMask                                              *)
  shown,       (* what was rendered last                                   *)
  flags,       (* autoLoginRef                                             *)
  timers,      (* the timers of the two auto-login effects                 *)
  inject,      (* injectPayload                                            *)
  sock,        (* None, or the socket of the mounted terminal              *)
  vault,       (* boot restore done, unlocked, vaultTick to be rendered    *)
  active,      (* activeProfile                                            *)
  choice,      (* trustMode, customWs, customAck of this window            *)
  stored,      (* and of localStorage                                      *)
  counts       (* tabs, sockets and acts of the user so far                *)

vars == <<tabs, tabId, pick, echoMask, shown, flags, timers, inject, sock, vault,
          active, choice, stored, counts>>

trust == <<active, choice, stored>>

NewTab(id, prof) == [id |-> id, prof |-> prof, on |-> FALSE, code |-> "idle"]
NoFlags  == [account |-> FALSE, password |-> FALSE]
NoTimers == [account |-> None, password |-> None]

TabIds(ts) == {ts[i].id : i \in 1..Len(ts)}

(* tabs.find, else the first.                                              *)
At(id) == IF id \in TabIds(tabs) THEN CHOOSE i \in 1..Len(tabs) : tabs[i].id = id ELSE 1

(* setTabs, with a change of one tab; none when it was closed.             *)
Having(id, field, value) ==
  [i \in 1..Len(tabs) |-> IF tabs[i].id = id THEN [tabs[i] EXCEPT ![field] = value]
                          ELSE tabs[i]]

(* What a render would see now.                                            *)
View == LET t == tabs[At(tabId)]
        IN  [key |-> tabId, id |-> t.id, prof |-> t.prof, on |-> t.on, code |-> t.code,
             mask |-> echoMask, boot |-> vault.boot]

(* A click is rendered before anything else happens; other changes are not. *)
ClicksShown == pick = None /\ \A k \in {"key", "id", "prof", "on"} : shown[k] = View[k]
AnyConnected == \E i \in 1..Len(tabs) : tabs[i].on
Settled     == pick = None /\ shown = View /\ ~vault.bumped

(* A page that was just loaded.                                            *)
FirstTabs == <<NewTab(1, FirstProfile)>>
BootVault == [boot |-> FALSE, open |-> FALSE, bumped |-> FALSE]
FirstView == [key |-> 1, id |-> 1, prof |-> FirstProfile, on |-> FALSE, code |-> "idle",
              mask |-> FALSE, boot |-> FALSE]

Init ==
  /\ tabs = FirstTabs /\ tabId = 1 /\ pick = None /\ echoMask = FALSE
  /\ shown = FirstView /\ vault = BootVault
  /\ flags = NoFlags /\ timers = NoTimers /\ inject = None /\ sock = None
  /\ active = FirstProfile
  /\ stored \in Storages /\ choice = stored
  /\ counts = [tabs |-> 1, opens |-> 0, acts |-> 0, lines |-> 0]

-----------------------------------------------------------------------------
Line(kind, of) == [kind |-> kind, of |-> of, queued |-> FALSE]

(* deliverLine and MudSocket.send; alias expansion changes no owner.       *)
Deliver(s, line) ==
  IF s.code = "connected" THEN [s EXCEPT !.got = Append(@, line)]
  ELSE [s EXCEPT !.out = Append(@, [line EXCEPT !.queued = TRUE])]

(* fireInject: mudSendRef is there while a terminal is mounted.            *)
FireInject(line) ==
  IF sock # None
  THEN sock' = Deliver(sock, line) /\ UNCHANGED inject
  ELSE inject' = line /\ UNCHANGED sock

-----------------------------------------------------------------------------
(* handleStatus, for the tab that is selected in the last render.          *)
SetTabStatus(key, code) == Having(key, "code", code)

MaskAfter(code) == IF code = "connected" THEN echoMask ELSE FALSE

FlagsAfter(code) ==
  IF code \in {"connecting", "reconnect_wait", "handshaking", "disconnected"}
  THEN NoFlags ELSE flags

HandleStatus(key, code) ==
  /\ tabs' = SetTabStatus(key, code)
  /\ echoMask' = MaskAfter(code)
  /\ flags' = FlagsAfter(code)

-----------------------------------------------------------------------------
(* The terminal has the selected tab as its key: another tab is another    *)
(* terminal, with a socket of its own.                                     *)

(* Fault: without the key the terminal of the tab before is kept.          *)
UnmountsOnIdle(now) == sock # None /\ ~now.on

Unmounts(now) == sock # None /\ (~now.on \/ now.key # shown.key)

(* Fault: the mask is left as it is.                                       *)
MaskKeptAtUnmount(now) == echoMask

(* The cleanup's onEchoMask(false), or the status of the new socket.       *)
MaskAtUnmount(now) == FALSE

NewSocket(now) ==
  [tab |-> now.id, prof |-> None, code |-> "connecting", mask |-> FALSE,
   out |-> IF inject = None THEN <<>> ELSE <<[inject EXCEPT !.queued = TRUE]>>,
   got |-> <<>>, changed |-> FALSE,
   url |-> IF choice.mode = "local" THEN "" ELSE choice.url]

(* Fault: the effect does not depend on vaultTick.                         *)
AccountDependsOn(now) ==
  <<now.boot, now.on, now.code, now.id, now.prof>> # <<shown.boot, shown.on, shown.code,
                                                        shown.id, shown.prof>>

AccountRerun(now) == vault.bumped \/ AccountDependsOn(now)

PasswordRerun(now) ==
  \/ vault.bumped
  \/ \E k \in {"boot", "mask", "on", "code", "prof"} : now[k] # shown[k]

(* Both effects arm a timer when the vault is open and nothing was sent.   *)
MayLogin(now) ==
  now.boot /\ now.on /\ now.code = "connected" /\ vault.open /\ now.prof \in AutoLogin

TimersAfter(now, sent) ==
  [account  |-> IF ~AccountRerun(now) THEN timers.account
                ELSE IF MayLogin(now) /\ ~sent.account
                     THEN [tab |-> now.id, prof |-> now.prof] ELSE None,
   password |-> IF ~PasswordRerun(now) THEN timers.password
                ELSE IF MayLogin(now) /\ now.mask /\ ~sent.password
                     THEN [tab |-> now.id, prof |-> now.prof] ELSE None]

(* A render and its effects: cleanups first, then those of the terminal,   *)
(* then those of App.                                                      *)
Render ==
  LET now  == View
      gone == Unmounts(now)
      born == now.on /\ (sock = None \/ gone)
  IN  /\ shown # now \/ vault.bumped
      /\ born => counts.opens < MaxOpens
      /\ shown' = now
      /\ vault' = [vault EXCEPT !.bumped = FALSE]
      /\ IF born
         THEN /\ sock' = NewSocket(now)
              /\ tabs' = SetTabStatus(now.key, "connecting")
              /\ flags' = FlagsAfter("connecting")
              /\ inject' = None
              /\ counts' = [counts EXCEPT !.opens = @ + 1]
         ELSE /\ sock' = IF gone THEN None ELSE sock
              /\ UNCHANGED <<tabs, flags, inject, counts>>
      /\ echoMask' = IF gone \/ born THEN MaskAtUnmount(now) ELSE echoMask
      /\ timers' = TimersAfter(now, flags')
      /\ UNCHANGED <<tabId, pick, trust>>

(* Fault: that it was sent is not noted.                                   *)
AccountUnnoted == flags

AccountNoted == [flags EXCEPT !.account = TRUE]

AccountGoes(t) == ~flags.account /\ vault.open /\ shown.key = t.tab

AccountTimer ==
  LET t == timers.account IN
  /\ t # None /\ ClicksShown
  /\ timers' = [timers EXCEPT !.account = None]
  /\ IF AccountGoes(t)
     THEN flags' = AccountNoted /\ FireInject(Line("account", t.prof))
     ELSE UNCHANGED <<flags, sock, inject>>
  /\ UNCHANGED <<tabs, tabId, pick, echoMask, shown, vault, trust, counts>>

PasswordTimer ==
  LET t == timers.password IN
  /\ t # None /\ ClicksShown
  /\ timers' = [timers EXCEPT !.password = None]
  /\ IF ~flags.password /\ vault.open
     THEN flags' = [flags EXCEPT !.password = TRUE] /\ FireInject(Line("password", t.prof))
     ELSE UNCHANGED <<flags, sock, inject>>
  /\ UNCHANGED <<tabs, tabId, pick, echoMask, shown, vault, trust, counts>>

-----------------------------------------------------------------------------
(* The socket reports.                                                     *)
Reports(code, s) ==
  /\ sock' = [s EXCEPT !.code = code]
  /\ HandleStatus(shown.key, code)
  /\ UNCHANGED <<tabId, pick, shown, timers, inject, vault, trust>>

(* onopen: the hello is that of the profile that was rendered last.        *)
Opens ==
  /\ sock # None /\ sock.code = "connecting" /\ Settled
  /\ Reports("handshaking", [sock EXCEPT !.prof = shown.prof]) /\ UNCHANGED counts

(* ready: the queue is flushed.                                            *)
Ready ==
  /\ sock # None /\ sock.code = "handshaking" /\ Settled
  /\ sock' = [sock EXCEPT !.code = "connected", !.mask = FALSE,
                          !.got = sock.got \o sock.out, !.out = <<>>]
  /\ tabs' = SetTabStatus(shown.key, "connected")
  /\ flags' = FlagsAfter("connected")
  /\ echoMask' = FALSE
  /\ UNCHANGED <<tabId, pick, shown, timers, inject, vault, trust, counts>>

Echo(mask) ==
  /\ ClicksShown /\ sock # None /\ sock.code = "connected" /\ sock.mask # mask
  /\ sock' = [sock EXCEPT !.mask = mask]
  /\ echoMask' = mask
  /\ UNCHANGED <<tabs, tabId, pick, shown, flags, timers, inject, vault, trust, counts>>

(* With the last socket of the bound the retries are used up too.          *)
Drops ==
  /\ sock # None /\ sock.code \in {"connecting", "handshaking", "connected"} /\ ClicksShown
  /\ Reports(IF counts.opens < MaxOpens THEN "reconnect_wait" ELSE "max_retries",
             [sock EXCEPT !.mask = FALSE])
  /\ UNCHANGED counts

Retries ==
  /\ sock # None /\ sock.code = "reconnect_wait" /\ Settled
  /\ counts.opens < MaxOpens /\ counts' = [counts EXCEPT !.opens = @ + 1]
  /\ Reports("connecting", [sock EXCEPT !.got = <<>>])

-----------------------------------------------------------------------------
(* The user, on what is shown.  Handlers know the tab of the last render.  *)
Act(new) ==
  /\ Settled /\ counts.acts < MaxActs
  /\ counts' = [counts EXCEPT !.acts = counts.acts + 1, !.tabs = counts.tabs + new]

Command ==
  /\ Settled /\ counts.lines < MaxLines
  /\ counts' = [counts EXCEPT !.lines = @ + 1]

AddTab ==
  /\ AnyConnected /\ Len(tabs) < MaxTabs /\ counts.tabs < MaxIds
  /\ Act(1)
  /\ tabs' = Append(tabs, NewTab(counts'.tabs, active))
  /\ tabId' = counts'.tabs
  /\ UNCHANGED <<pick, echoMask, shown, flags, timers, inject, sock, vault, trust>>

(* A click on a tab, or on its gear: manageTab.                            *)
SelectTab(id, gear) ==
  /\ AnyConnected /\ Act(0)
  /\ tabId' = id
  /\ active' = IF gear THEN tabs[At(id)].prof ELSE active
  /\ <<tabId, active>>' # <<tabId, active>>
  /\ UNCHANGED <<tabs, pick, echoMask, shown, flags, timers, inject, sock, vault, choice,
                 stored>>

(* The filter drops one tab: no two have the same id.                      *)
Without(id) == RemoveAt(tabs, At(id))

(* What confirmCloseTab selects instead, in a microtask: the neighbour.    *)
Fallback(id) ==
  IF shown.key # id THEN None
  ELSE LET i == At(id) IN Without(id)[IF i = 1 THEN 1 ELSE i - 1].id

CloseTab(id) ==
  /\ AnyConnected
  /\ IF Len(tabs) = 1
     THEN /\ counts.tabs < MaxIds /\ Act(1)
          /\ tabs' = <<NewTab(counts'.tabs, active)>>
          /\ pick' = counts'.tabs
     ELSE tabs' = Without(id) /\ pick' = Fallback(id) /\ Act(0)
  /\ UNCHANGED <<tabId, echoMask, shown, flags, timers, inject, sock, vault, trust>>

PickTab ==
  /\ pick # None
  /\ tabId' = pick /\ pick' = None
  /\ UNCHANGED <<tabs, echoMask, shown, flags, timers, inject, sock, vault, trust, counts>>

(* The profile of the tab: chosen while it is idle, or in the manager,     *)
(* which the gear of a connected tab opens too.                            *)
SelectProfile(prof) ==
  /\ Act(0) /\ shown.prof # prof
  /\ tabs' = Having(shown.key, "prof", prof)
  /\ active' = prof
  /\ sock' = IF sock = None THEN None ELSE [sock EXCEPT !.changed = TRUE]
  /\ UNCHANGED <<tabId, pick, echoMask, shown, flags, timers, inject, vault, choice, stored>>

IsValidProxyWsUrl(url) == url # ""

CanConnect(mode, ack, url) ==
  mode = "local" \/ ((mode = "custom" => ack) /\ IsValidProxyWsUrl(url))

(* The button of the gate, or that of an idle tab beside connected ones.   *)
ConnectTab ==
  /\ Act(0) /\ ~shown.on
  /\ AnyConnected \/ CanConnect(choice.mode, choice.ack, choice.url)
  /\ tabs' = Having(shown.key, "on", TRUE)
  /\ flags' = NoFlags
  /\ UNCHANGED <<tabId, pick, echoMask, shown, timers, inject, sock, vault, trust>>

DisconnectTab ==
  /\ Act(0) /\ shown.on
  /\ tabs' = [i \in 1..Len(tabs) |-> IF tabs[i].id # shown.key THEN tabs[i]
                                     ELSE [tabs[i] EXCEPT !.on = FALSE, !.code = "idle"]]
  /\ flags' = NoFlags /\ echoMask' = FALSE
  /\ UNCHANGED <<tabId, pick, shown, timers, inject, sock, vault, trust>>

(* The command line, and Enter anywhere else, are there while the tab is   *)
(* connected.                                                              *)
HasCommandLine == shown.on

SubmitCmd ==
  /\ Command /\ HasCommandLine
  /\ FireInject(Line("command", shown.id))
  /\ UNCHANGED <<tabs, tabId, pick, echoMask, shown, flags, timers, vault, trust>>

(* walkDir, from the map pad, which is there for an idle tab too.          *)
WalkDir ==
  /\ Command /\ AnyConnected
  /\ FireInject(Line("walk", shown.id))
  /\ UNCHANGED <<tabs, tabId, pick, echoMask, shown, flags, timers, vault, trust>>

(* The gate: other settings, or the acknowledgment of the one shown.       *)
Gate ==
  /\ Act(0) /\ ~AnyConnected
  /\ UNCHANGED <<tabs, tabId, pick, echoMask, shown, flags, timers, inject, sock, vault>>

(* saveTrustMode, saveCustomWs, saveCustomAck: each its own key.           *)
SaveTrustMode(s, mode) == [s EXCEPT !.mode = mode]

(* Fault: the tick of the old endpoint stays.                              *)
SaveCustomWsOnly(s, url) == [s EXCEPT !.url = url]

SaveCustomWs(s, url) == [s EXCEPT !.url = url, !.ack = @ /\ s.url = url]

SaveCustomAck(s, ok, url) == [s EXCEPT !.ack = ok, !.ticked = IF ok THEN url ELSE None]

OnTrustMode(mode) ==
  LET Change(s) == IF mode = "custom" THEN SaveTrustMode(s, mode)
                   ELSE SaveCustomAck(SaveTrustMode(s, mode), FALSE, None)
  IN  /\ Gate /\ mode # choice.mode
      /\ choice' = Change(choice) /\ stored' = Change(stored)
      /\ UNCHANGED active

(* What the gate shows in which mode.                                      *)
OffersWs  == choice.mode \in {"selfhost", "custom"}
OffersAck == choice.mode = "custom"

OnCustomWs(url) ==
  /\ Gate /\ OffersWs /\ url # choice.url
  /\ choice' = [choice EXCEPT !.url = url, !.ack = FALSE]
  /\ stored' = SaveCustomWs(stored, url)
  /\ UNCHANGED active

OnCustomAck(ok) ==
  /\ Gate /\ OffersAck /\ ok # choice.ack
  /\ choice' = SaveCustomAck(choice, ok, choice.url)
  /\ stored' = SaveCustomAck(stored, ok, choice.url)
  /\ UNCHANGED active

(* Another window, which shows what it likes, writes one of the keys.      *)
OtherWindow ==
  /\ Settled /\ counts.acts < MaxActs
  /\ counts' = [counts EXCEPT !.acts = @ + 1]
  /\ \E mode \in Modes, url \in Urls, ok \in BOOLEAN :
       \E s \in {SaveTrustMode(stored, mode), SaveCustomWs(stored, url),
                 SaveCustomAck(stored, ok, url)} : stored' = [s EXCEPT !.shared = TRUE]
  /\ UNCHANGED <<tabs, tabId, pick, echoMask, shown, flags, timers, inject, sock, vault,
                 active, choice>>

(* The page is loaded again: loadTrustMode, loadCustomWs, loadCustomAck.   *)
Reload ==
  /\ counts.acts < MaxActs
  /\ counts' = [counts EXCEPT !.tabs = 1, !.acts = @ + 1]
  /\ tabs' = FirstTabs /\ tabId' = 1 /\ pick' = None /\ echoMask' = FALSE
  /\ shown' = FirstView /\ vault' = BootVault
  /\ flags' = NoFlags /\ timers' = NoTimers /\ inject' = None /\ sock' = None
  /\ active' = FirstProfile
  /\ choice' = stored
  /\ UNCHANGED stored

BootDone(open) ==
  /\ Settled /\ ~vault.boot
  /\ vault' = [boot |-> TRUE, open |-> open \/ vault.open, bumped |-> vault.bumped \/ open]
  /\ UNCHANGED <<tabs, tabId, pick, echoMask, shown, flags, timers, inject, sock, trust, counts>>

(* unlockVault and lockVault tell their listeners.                         *)
SetVault(open) ==
  /\ Act(0) /\ vault.boot /\ vault.open # open
  /\ vault' = [vault EXCEPT !.open = open, !.bumped = TRUE]
  /\ UNCHANGED <<tabs, tabId, pick, echoMask, shown, flags, timers, inject, sock, trust>>

User ==
  \/ AddTab \/ ConnectTab \/ DisconnectTab \/ SubmitCmd \/ WalkDir
  \/ \E id \in TabIds(tabs) : CloseTab(id) \/ \E gear \in BOOLEAN : SelectTab(id, gear)
  \/ \E prof \in Profiles : SelectProfile(prof)
  \/ \E mode \in Modes : OnTrustMode(mode)
  \/ \E url \in Urls : OnCustomWs(url)
  \/ \E on \in BOOLEAN : OnCustomAck(on) \/ SetVault(on)

Next ==
  \/ Render \/ PickTab \/ AccountTimer \/ PasswordTimer \/ User
  \/ Opens \/ Ready \/ Drops \/ Retries
  \/ OtherWindow \/ Reload
  \/ \E on \in BOOLEAN : Echo(on) \/ BootDone(on)

Spec == Init /\ [][Next]_vars

(* React renders, microtasks run and timers fire; the rest need not happen. *)
FairSpec == Spec /\ WF_vars(Render) /\ WF_vars(PickTab) /\ WF_vars(AccountTimer)

-----------------------------------------------------------------------------
Received == IF sock = None THEN {} ELSE {sock.got[i] : i \in 1..Len(sock.got)}
Waiting  == IF sock = None THEN {} ELSE {sock.out[i] : i \in 1..Len(sock.out)}

IsLogin(line) == line.kind \in {"account", "password"}

(* What is typed in a tab, or logs its profile in, goes to the MUD of that *)
(* tab and profile, however tabs are switched and closed while timers run  *)
(* and lines wait (key={tabId}); unless the user gives the tab another     *)
(* profile while it is connected.                                          *)
LinesStayOnTab ==
  \A line \in Received \cup Waiting :
    /\ line.kind = "command" => line.of = sock.tab
    /\ IsLogin(line) /\ sock.prof # None /\ ~sock.changed => line.of = sock.prof

(* A hop is sent account and password once, however often the vault is     *)
(* locked and opened and the mask comes and goes; and a second time when a *)
(* timer fired on the hop before, between its drop and the render that     *)
(* clears the timer: that line is queued, goes out first, and the flag     *)
(* that noted it is gone.  (App.tsx:749, "send account once per wire hop", *)
(* takes no account of it.)                                                *)
OncePerConnection ==
  sock # None =>
    \A i, j \in 1..Len(sock.got) :
      i < j /\ IsLogin(sock.got[i]) /\ sock.got[i].kind = sock.got[j].kind
      => sock.got[i].queued /\ ~sock.got[j].queued

(* The command line is in password mode only for the socket on which the   *)
(* MUD asks for one now.                                                   *)
MaskIsOfSocket == echoMask => sock # None /\ sock.mask

(* A custom endpoint is connected to when the user has ticked this very    *)
(* one, after whatever changes of mode and endpoint and reloads.  When two *)
(* windows have written the three keys, tick and endpoint may be of one    *)
(* each; what was loaded from such a storage is exempt.                    *)
EndpointIsAcknowledged ==
  sock # None /\ choice.mode = "custom" => choice.ticked = sock.url \/ choice.shared

(* A connection that lasts, with the vault open, logs in.                  *)
CanLogin ==
  /\ sock # None /\ sock.code = "connected" /\ tabId = sock.tab
  /\ vault.boot /\ vault.open /\ shown.prof \in AutoLogin

LoginGoesOut == CanLogin ~> (~CanLogin \/ \E line \in Received : line.kind = "account")
===============================================================================

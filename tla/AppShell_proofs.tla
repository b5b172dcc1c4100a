--------------------------- MODULE AppShell_proofs ---------------------------
(***************************************************************************)
(* Theorems about AppShell, for any number of tabs, profiles and sockets.  *)
(***************************************************************************)
EXTENDS AppShell, SequenceTheorems, TLAPS

Tabs == [id : Nat, prof : Profiles, on : BOOLEAN, code : Codes]

Views ==
  [key : Nat, id : Nat, prof : Profiles, on : BOOLEAN, code : Codes, mask : BOOLEAN,
   boot : BOOLEAN]

TypeOK ==
  /\ tabs \in Seq(Tabs) /\ tabs # <<>>
  /\ tabId \in Nat /\ pick \in Nat \cup {None}
  /\ echoMask \in BOOLEAN
  /\ shown \in Views
  /\ flags \in [account : BOOLEAN, password : BOOLEAN]
  /\ timers \in [account : Timers \cup {None}, password : Timers \cup {None}]
  /\ inject \in Lines \cup {None}
  /\ sock \in Sockets \cup {None}
  /\ vault \in [boot : BOOLEAN, open : BOOLEAN, bumped : BOOLEAN]
  /\ active \in Profiles /\ choice \in TrustSettings /\ stored \in TrustSettings
  /\ counts \in [tabs : Nat, opens : Nat, acts : Nat, lines : Nat]

(* No two tabs have an id, and none is given twice.  Only while a microtask *)
(* is to select another one may the selected tab be closed.                *)
TabsOK ==
  /\ \A i, j \in 1..Len(tabs) : tabs[i].id = tabs[j].id => i = j
  /\ \A i \in 1..Len(tabs) : tabs[i].id <= counts.tabs
  /\ tabId <= counts.tabs /\ shown.key <= counts.tabs
  /\ pick = None => tabId \in TabIds(tabs)
  /\ pick # None => pick \in TabIds(tabs) /\ tabId \notin TabIds(tabs)

(* There is a socket when the tab that was rendered is connected; it is of *)
(* that tab unless this was closed, and another one was rendered for it.   *)
ShownOK ==
  /\ sock # None <=> shown.on
  /\ shown.id # shown.key => shown.key \notin TabIds(tabs)
  /\ sock # None /\ shown.id = shown.key => sock.tab = shown.key

(* The timers are of the profile rendered last, and nothing but a step of  *)
(* the map pad waits for a terminal.                                       *)
TimersOK ==
  /\ timers.account # None => shown.on /\ timers.account.prof = shown.prof
  /\ timers.password # None => shown.on /\ timers.password.prof = shown.prof
  /\ inject # None => inject.kind = "walk"

(* Whose lines the socket has: the profile is that of its hello, and until *)
(* then that of the tab.                                                   *)
OwnerOK ==
  sock # None =>
    /\ \A line \in Received \cup Waiting :
         /\ line.kind = "command" => line.of = sock.tab
         /\ IsLogin(line) /\ ~sock.changed =>
              IF sock.prof # None THEN line.of = sock.prof
              ELSE shown.id = shown.key => line.of = shown.prof
    /\ ~sock.changed /\ shown.id = shown.key =>
         /\ sock.prof # None => sock.prof = shown.prof
         /\ \A i \in 1..Len(tabs) : tabs[i].id = shown.key => tabs[i].prof = shown.prof

(* A login that went out at once is noted, unless the user has just        *)
(* disconnected.                                                           *)
OnceOK ==
  sock # None =>
    /\ \A i \in 1..Len(sock.out) : sock.out[i].queued
    /\ sock.code \in {"connecting", "handshaking"} => sock.got = <<>>
    /\ sock.code = "connected" /\ (\A i \in 1..Len(tabs) : tabs[i].id = shown.key => tabs[i].on)
       => \A i \in 1..Len(sock.got) :
            ~sock.got[i].queued =>
              /\ sock.got[i].kind = "account" => flags.account
              /\ sock.got[i].kind = "password" => flags.password

(* No line of a kind is there.                                             *)
NoneOf(kind, lines) == \A i \in 1..Len(lines) : lines[i].kind # kind

(* One login of a kind waits at most, and none while its timer runs: a     *)
(* render that sets a timer has seen the tab connected, and nothing waits  *)
(* in a connected socket.                                                  *)
LoginOK ==
  sock # None =>
    /\ sock.code = "connected" => sock.out = <<>>
    /\ \A i, j \in 1..Len(sock.out) :
         IsLogin(sock.out[i]) /\ sock.out[i].kind = sock.out[j].kind => i = j
    /\ shown.id = shown.key =>
         /\ \A i \in 1..Len(tabs) :
              tabs[i].id = shown.key /\ tabs[i].on => tabs[i].code = sock.code
         /\ timers.account # None => NoneOf("account", sock.out)
         /\ timers.password # None => NoneOf("password", sock.out)

(* The tick is of the endpoint, in this window and in what the next page   *)
(* loads, unless two windows have written.                                 *)
Ticked(c) == c.ack /\ ~c.shared => c.ticked = c.url

ChoiceOK ==
  /\ sock # None => sock.url = IF choice.mode = "local" THEN "" ELSE choice.url
  /\ AnyConnected \/ sock # None =>
       (choice.mode = "custom" => choice.ticked = choice.url \/ choice.shared)
  /\ Ticked(choice) /\ Ticked(stored)
  /\ ~stored.shared => choice = stored

IInv ==
  /\ TypeOK /\ TabsOK /\ ShownOK /\ TimersOK /\ OwnerOK
  /\ OnceOK /\ LoginOK /\ OncePerConnection /\ MaskIsOfSocket /\ ChoiceOK

-----------------------------------------------------------------------------
(* Every tab of the list is a tab.                                         *)
LEMMA TabFacts ==
  ASSUME TypeOK
  PROVE  /\ Len(tabs) \in Nat /\ Len(tabs) > 0
         /\ \A i \in 1..Len(tabs) : tabs[i] \in Tabs
BY DEF TypeOK

(* The place of a tab in the list is one.                                  *)
LEMMA AtFacts ==
  ASSUME TypeOK, TabsOK, NEW id
  PROVE  /\ At(id) \in 1..Len(tabs)
         /\ id \in TabIds(tabs) => tabs[At(id)].id = id
         /\ \A i \in 1..Len(tabs) : tabs[i].id = id => At(id) = i
<1>1. Len(tabs) \in Nat /\ Len(tabs) > 0
  BY TabFacts
<1>2. CASE id \in TabIds(tabs)
  <2>1. PICK i \in 1..Len(tabs) : tabs[i].id = id
    BY <1>2 DEF TabIds
  <2>2. At(id) \in 1..Len(tabs) /\ tabs[At(id)].id = id
    BY <1>2, <2>1 DEF At
  <2> QED
    BY <2>2 DEF TabsOK
<1>3. CASE id \notin TabIds(tabs)
  BY <1>1, <1>3 DEF At, TabIds
<1> QED
  BY <1>2, <1>3

(* What a render would see.                                                *)
LEMMA ViewFacts ==
  ASSUME TypeOK, TabsOK, NEW now, now = View
  PROVE  /\ now \in Views
         /\ now.key = tabId /\ now.mask = echoMask /\ now.boot = vault.boot
         /\ now.id # now.key => now.key \notin TabIds(tabs)
         /\ now.on => AnyConnected
         /\ \A i \in 1..Len(tabs) :
              tabs[i].id = tabId => /\ now.id = tabId /\ now.prof = tabs[i].prof
                                    /\ now.on = tabs[i].on /\ now.code = tabs[i].code
<1>1. At(tabId) \in 1..Len(tabs)
  BY AtFacts
<1>2. PICK t : t = tabs[At(tabId)]
  OBVIOUS
<1>3. t \in Tabs
  BY <1>1, <1>2, TabFacts
<1>4. now = [key |-> tabId, id |-> t.id, prof |-> t.prof, on |-> t.on, code |-> t.code,
             mask |-> echoMask, boot |-> vault.boot]
  BY <1>2 DEF View
<1>5. now \in Views
  BY <1>3, <1>4 DEF TypeOK, Tabs, Views
<1>6. /\ now.key = tabId /\ now.mask = echoMask /\ now.boot = vault.boot
      /\ now.id = t.id /\ now.prof = t.prof /\ now.on = t.on /\ now.code = t.code
  BY <1>4
<1>7. now.id # now.key => now.key \notin TabIds(tabs)
  BY <1>2, <1>6, AtFacts
<1>8. now.on => AnyConnected
  BY <1>1, <1>2, <1>6 DEF AnyConnected
<1>9. ASSUME NEW i \in 1..Len(tabs), tabs[i].id = tabId PROVE t = tabs[i]
  BY <1>2, <1>9, AtFacts
<1> QED
  BY <1>5, <1>6, <1>7, <1>8, <1>9

(* When what is shown is what there is.                                    *)
LEMMA SettledFacts ==
  ASSUME TypeOK, TabsOK, ShownOK, ClicksShown
  PROVE  /\ shown.key = tabId /\ shown.id = tabId /\ tabId \in TabIds(tabs)
         /\ shown.on => AnyConnected
         /\ \A i \in 1..Len(tabs) :
              tabs[i].id = shown.key => shown.prof = tabs[i].prof /\ shown.on = tabs[i].on
<1>1. PICK now : now = View
  OBVIOUS
<1>2. /\ pick = None /\ shown.key = now.key /\ shown.id = now.id /\ shown.prof = now.prof
      /\ shown.on = now.on
  BY <1>1 DEF ClicksShown
<1>3. tabId \in TabIds(tabs)
  BY <1>2 DEF TabsOK
<1> QED
  BY <1>1, <1>2, <1>3, ViewFacts

(* When nothing waits for a render, clicks show and no vault signal is up. *)
LEMMA SettledShown ==
  ASSUME Settled
  PROVE  ClicksShown /\ ~vault.bumped
BY DEF Settled, ClicksShown

(* The tabs after a change of one field of one of them.                    *)
LEMMA HavingCode ==
  ASSUME TypeOK, NEW key, NEW code \in Codes, NEW ts, ts = Having(key, "code", code)
  PROVE  /\ ts \in Seq(Tabs) /\ ts # <<>> /\ Len(ts) = Len(tabs)
         /\ \A i \in 1..Len(tabs) : /\ ts[i].id = tabs[i].id /\ ts[i].prof = tabs[i].prof
                                    /\ ts[i].on = tabs[i].on
                                    /\ tabs[i].id = key => ts[i].code = code
<1>1. Len(tabs) \in Nat /\ Len(tabs) > 0
  BY TabFacts
<1>2. ASSUME NEW i \in 1..Len(tabs)
      PROVE  /\ ts[i] \in Tabs
             /\ ts[i].id = tabs[i].id /\ ts[i].prof = tabs[i].prof
             /\ ts[i].on = tabs[i].on
             /\ tabs[i].id = key => ts[i].code = code
  <2>1. tabs[i] \in Tabs
    BY TabFacts
  <2>2. ts[i] = IF tabs[i].id = key THEN [tabs[i] EXCEPT !.code = code] ELSE tabs[i]
    BY DEF Having
  <2> QED
    BY <2>1, <2>2 DEF Tabs
<1>3. ts = [i \in 1..Len(tabs) |-> ts[i]]
  BY DEF Having
<1> QED
  BY <1>1, <1>2, <1>3

(* Giving a tab another profile keeps its number and its connection.       *)
LEMMA HavingProf ==
  ASSUME TypeOK, NEW key, NEW prof \in Profiles, NEW ts, ts = Having(key, "prof", prof)
  PROVE  /\ ts \in Seq(Tabs) /\ ts # <<>> /\ Len(ts) = Len(tabs)
         /\ \A i \in 1..Len(tabs) : /\ ts[i].id = tabs[i].id /\ ts[i].on = tabs[i].on
                                    /\ ts[i].code = tabs[i].code
                                    /\ ts[i].prof = IF tabs[i].id = key THEN prof ELSE tabs[i].prof
<1>1. Len(tabs) \in Nat /\ Len(tabs) > 0
  BY TabFacts
<1>2. ASSUME NEW i \in 1..Len(tabs)
      PROVE  /\ ts[i] \in Tabs
             /\ ts[i].id = tabs[i].id /\ ts[i].on = tabs[i].on
             /\ ts[i].code = tabs[i].code
             /\ ts[i].prof = IF tabs[i].id = key THEN prof ELSE tabs[i].prof
  <2>1. tabs[i] \in Tabs
    BY TabFacts
  <2>2. ts[i] = IF tabs[i].id = key THEN [tabs[i] EXCEPT !.prof = prof] ELSE tabs[i]
    BY DEF Having
  <2> QED
    BY <2>1, <2>2 DEF Tabs
<1>3. ts = [i \in 1..Len(tabs) |-> ts[i]]
  BY DEF Having
<1> QED
  BY <1>1, <1>2, <1>3

(* Switching a tab on keeps its number, its profile and the other tabs.    *)
LEMMA HavingOn ==
  ASSUME TypeOK, NEW key, NEW ts, ts = Having(key, "on", TRUE)
  PROVE  /\ ts \in Seq(Tabs) /\ ts # <<>> /\ Len(ts) = Len(tabs)
         /\ \A i \in 1..Len(tabs) : /\ ts[i].id = tabs[i].id /\ ts[i].prof = tabs[i].prof
                                    /\ tabs[i].id # key => ts[i].on = tabs[i].on
<1>1. Len(tabs) \in Nat /\ Len(tabs) > 0
  BY TabFacts
<1>2. ASSUME NEW i \in 1..Len(tabs)
      PROVE  /\ ts[i] \in Tabs
             /\ ts[i].id = tabs[i].id /\ ts[i].prof = tabs[i].prof
             /\ tabs[i].id # key => ts[i].on = tabs[i].on
  <2>1. tabs[i] \in Tabs
    BY TabFacts
  <2>2. ts[i] = IF tabs[i].id = key THEN [tabs[i] EXCEPT !.on = TRUE] ELSE tabs[i]
    BY DEF Having
  <2> QED
    BY <2>1, <2>2 DEF Tabs
<1>3. ts = [i \in 1..Len(tabs) |-> ts[i]]
  BY DEF Having
<1>4. \A i \in 1..Len(tabs) : ts[i] \in Tabs
  BY <1>2
<1>5. ts \in Seq(Tabs) /\ ts # <<>> /\ Len(ts) = Len(tabs)
  BY ONLY <1>1, <1>3, <1>4
<1> QED
  BY <1>2, <1>5

-----------------------------------------------------------------------------
(* Each part holds on when what it is about stays as it is.                *)
LEMMA FrameFacts ==
  ASSUME IInv
  PROVE  /\ UNCHANGED <<tabs, tabId, pick, shown>> /\ counts'.tabs = counts.tabs => TabsOK'
         /\ UNCHANGED <<tabs, shown, sock>> => ShownOK'
         /\ UNCHANGED <<shown, timers, inject>> => TimersOK'
         /\ UNCHANGED <<tabs, shown, sock>> => OwnerOK'
         /\ UNCHANGED <<tabs, shown, sock, flags>> => OnceOK'
         /\ UNCHANGED <<tabs, shown, sock, timers>> => LoginOK'
         /\ UNCHANGED sock => OncePerConnection'
         /\ UNCHANGED <<echoMask, sock>> => MaskIsOfSocket'
         /\ UNCHANGED <<tabs, choice, stored, sock>> => ChoiceOK'
<1>1. UNCHANGED <<tabs, tabId, pick, shown>> /\ counts'.tabs = counts.tabs => TabsOK'
  BY DEF IInv, TabsOK, TabIds
<1>2. UNCHANGED <<tabs, shown, sock>> => ShownOK'
  BY DEF IInv, ShownOK, TabIds
<1>3. UNCHANGED <<shown, timers, inject>> => TimersOK'
  BY DEF IInv, TimersOK
<1>4. UNCHANGED <<tabs, shown, sock>> => OwnerOK'
  BY DEF IInv, OwnerOK, Received, Waiting
<1>5. UNCHANGED <<tabs, shown, sock, flags>> => OnceOK'
  BY DEF IInv, OnceOK
<1>6. UNCHANGED sock => OncePerConnection'
  BY DEF IInv, OncePerConnection, IsLogin
<1>7. UNCHANGED <<echoMask, sock>> => MaskIsOfSocket'
  BY DEF IInv, MaskIsOfSocket
<1>8. UNCHANGED <<tabs, choice, stored, sock>> => ChoiceOK'
  BY DEF IInv, ChoiceOK, AnyConnected, Ticked
<1>9. UNCHANGED <<tabs, shown, sock, timers>> => LoginOK'
  BY DEF IInv, LoginOK, IsLogin, NoneOf
<1> QED
  BY <1>1, <1>2, <1>3, <1>4, <1>5, <1>6, <1>7, <1>8, <1>9

(* Changes of tabs that keep their order and ids.                          *)
LEMMA SameTabsFacts ==
  ASSUME IInv, Len(tabs') = Len(tabs), UNCHANGED shown,
         \A i \in 1..Len(tabs) : tabs'[i].id = tabs[i].id
  PROVE  /\ TabIds(tabs') = TabIds(tabs)
         /\ UNCHANGED <<tabId, pick>> /\ counts'.tabs = counts.tabs => TabsOK'
         /\ UNCHANGED sock => ShownOK'
<1>1. TabIds(tabs') = TabIds(tabs)
  BY DEF TabIds
<1>2. UNCHANGED <<tabId, pick>> /\ counts'.tabs = counts.tabs => TabsOK'
  BY <1>1 DEF IInv, TabsOK
<1>3. UNCHANGED sock => ShownOK'
  BY <1>1 DEF IInv, ShownOK
<1> QED
  BY <1>1, <1>2, <1>3

(* An act of the user is counted.                                          *)
LEMMA ActFacts ==
  ASSUME TypeOK, NEW new \in {0, 1}, Act(new)
  PROVE  /\ counts'.tabs = counts.tabs + new
         /\ counts' \in [tabs : Nat, opens : Nat, acts : Nat, lines : Nat]
<1>1. PICK a, n : a = counts.acts + 1 /\ n = counts.tabs + new
  OBVIOUS
<1>2. counts \in [tabs : Nat, opens : Nat, acts : Nat, lines : Nat]
  BY DEF TypeOK
<1>3. counts.acts \in Nat /\ counts.tabs \in Nat
  BY <1>2
<1>4. a \in Nat /\ n \in Nat
  BY <1>1, <1>3
<1>5. counts' = [counts EXCEPT !.acts = a, !.tabs = n]
  BY <1>1 DEF Act
<1>6. counts'.tabs = n /\ counts' \in [tabs : Nat, opens : Nat, acts : Nat, lines : Nat]
  BY <1>2, <1>4, <1>5
<1> QED
  BY <1>1, <1>6

(* A page that was just loaded shows one tab, which is idle.               *)
LEMMA FirstTabFacts ==
  /\ FirstTabs \in Seq(Tabs) /\ FirstTabs # <<>> /\ Len(FirstTabs) = 1
  /\ \A i \in 1..Len(FirstTabs) : i = 1 /\ FirstTabs[i].id = 1 /\ ~FirstTabs[i].on
  /\ TabIds(FirstTabs) = {1}
  /\ FirstView \in Views /\ FirstView.key = 1 /\ FirstView.id = 1 /\ ~FirstView.on
<1>1. PICK t : t = NewTab(1, FirstProfile)
  OBVIOUS
<1>2. t \in Tabs /\ t.id = 1 /\ ~t.on
  BY <1>1, ShellAssumption DEF NewTab, Tabs, Codes
<1>3. FirstTabs = <<t>>
  BY <1>1 DEF FirstTabs
<1>4. /\ FirstTabs \in Seq(Tabs) /\ FirstTabs # <<>> /\ Len(FirstTabs) = 1
      /\ \A i \in 1..Len(FirstTabs) : i = 1 /\ FirstTabs[i] = t
  BY <1>2, <1>3
<1>5. TabIds(FirstTabs) = {1}
  BY <1>2, <1>4 DEF TabIds
<1>6. FirstView \in Views /\ FirstView.key = 1 /\ FirstView.id = 1 /\ ~FirstView.on
  BY ShellAssumption DEF FirstView, Views, Codes
<1> QED
  BY <1>2, <1>4, <1>5, <1>6

(* What a page is when it was just loaded, with what it loaded.            *)
JustLoaded ==
  /\ tabs = FirstTabs /\ tabId = 1 /\ pick = None /\ echoMask = FALSE
  /\ shown = FirstView /\ vault = BootVault
  /\ flags = NoFlags /\ timers = NoTimers /\ inject = None /\ sock = None
  /\ active = FirstProfile
  /\ stored \in TrustSettings /\ Ticked(stored) /\ choice = stored
  /\ counts \in [tabs : Nat, opens : Nat, acts : Nat, lines : Nat] /\ counts.tabs = 1

(* The invariant holds of it.                                              *)
LEMMA PageOK == JustLoaded => IInv
<1> SUFFICES ASSUME JustLoaded PROVE IInv
  OBVIOUS
<1>1. /\ tabs \in Seq(Tabs) /\ tabs # <<>> /\ Len(tabs) = 1
      /\ \A i \in 1..Len(tabs) : i = 1 /\ tabs[i].id = 1 /\ ~tabs[i].on
      /\ TabIds(tabs) = {1}
      /\ shown \in Views /\ shown.key = 1 /\ shown.id = 1 /\ ~shown.on
  BY FirstTabFacts DEF JustLoaded
<1>2. TypeOK
  <2>1. /\ flags \in [account : BOOLEAN, password : BOOLEAN]
        /\ timers \in [account : Timers \cup {None}, password : Timers \cup {None}]
        /\ vault \in [boot : BOOLEAN, open : BOOLEAN, bumped : BOOLEAN]
    BY DEF JustLoaded, NoFlags, NoTimers, BootVault
  <2> QED
    BY <1>1, <2>1, ShellAssumption DEF JustLoaded, TypeOK
<1>3. TabsOK
  BY <1>1 DEF JustLoaded, TabsOK
<1>4. ShownOK
  BY <1>1 DEF JustLoaded, ShownOK
<1>5. TimersOK
  BY DEF JustLoaded, TimersOK, NoTimers
<1>6. OwnerOK /\ OnceOK /\ LoginOK /\ OncePerConnection /\ MaskIsOfSocket
  BY DEF JustLoaded, OwnerOK, OnceOK, LoginOK, OncePerConnection, MaskIsOfSocket
<1>7. ChoiceOK
  BY <1>1 DEF JustLoaded, ChoiceOK, AnyConnected
<1> QED
  BY <1>2, <1>3, <1>4, <1>5, <1>6, <1>7 DEF IInv

(* So it does of the first state,                                          *)
LEMMA InitOK ==
  ASSUME Init
  PROVE  IInv
<1>1. stored \in TrustSettings /\ Ticked(stored)
  BY ShellAssumption DEF Init, StoredByOne, Ticked
<1>2. counts \in [tabs : Nat, opens : Nat, acts : Nat, lines : Nat] /\ counts.tabs = 1
  BY DEF Init
<1> QED
  BY <1>1, <1>2, PageOK DEF Init, JustLoaded

(* and after a reload.                                                     *)
LEMMA ReloadOK ==
  ASSUME IInv, Reload
  PROVE  IInv'
<1>1. PICK n : n = counts.acts + 1
  OBVIOUS
<1>2. counts \in [tabs : Nat, opens : Nat, acts : Nat, lines : Nat]
  BY DEF IInv, TypeOK
<1>3. n \in Nat /\ counts' = [counts EXCEPT !.tabs = 1, !.acts = n]
  BY <1>1, <1>2 DEF Reload
<1>4. counts' \in [tabs : Nat, opens : Nat, acts : Nat, lines : Nat] /\ counts'.tabs = 1
  BY <1>2, <1>3
<1>5. stored' = stored /\ stored' \in TrustSettings /\ Ticked(stored)'
  BY DEF Reload, IInv, TypeOK, ChoiceOK, Ticked
<1>6. JustLoaded'
  BY <1>4, <1>5 DEF Reload, JustLoaded
<1> QED
  BY <1>6, PageOK, PTL

-----------------------------------------------------------------------------
(* Which tab is selected.                                                  *)
LEMMA AddTabOK ==
  ASSUME IInv, AddTab
  PROVE  IInv'
<1>1. TypeOK /\ TabsOK /\ ShownOK /\ ClicksShown
  BY SettledShown DEF IInv, AddTab, Act
<1>2. PICK n : n = counts.tabs + 1
  OBVIOUS
<1>3. PICK t : t = NewTab(n, active)
  OBVIOUS
<1>4. n \in Nat /\ n > counts.tabs /\ counts.tabs \in Nat
  BY <1>1, <1>2 DEF TypeOK
<1>6. counts'.tabs = n /\ counts' \in [tabs : Nat, opens : Nat, acts : Nat, lines : Nat]
  BY <1>1, <1>2, ActFacts DEF AddTab
<1>7. /\ tabs' = Append(tabs, t) /\ tabId' = n
      /\ UNCHANGED <<pick, echoMask, shown, flags, timers, inject, sock, vault, active, choice,
                    stored>>
  BY <1>3, <1>6 DEF AddTab, trust
<1>8. t \in Tabs /\ t.id = n /\ ~t.on
  BY <1>1, <1>3, <1>4 DEF NewTab, Tabs, Codes, TypeOK
<1>9. /\ tabs' \in Seq(Tabs) /\ Len(tabs') = Len(tabs) + 1 /\ Len(tabs) \in Nat
      /\ tabs'[Len(tabs) + 1] = t
      /\ \A i \in 1..Len(tabs) : tabs'[i] = tabs[i]
  BY <1>1, <1>7, <1>8 DEF TypeOK
<1>10. TypeOK'
  <2>1. tabs' # <<>>
    BY <1>9
  <2> QED
    BY <1>1, <1>4, <1>6, <1>7, <1>9, <2>1 DEF TypeOK
<1>11. TabIds(tabs') = TabIds(tabs) \cup {n}
  <2>1. 1..Len(tabs') = 1..Len(tabs) \cup {Len(tabs) + 1}
    BY <1>9
  <2> QED
    BY <1>8, <1>9, <2>1 DEF TabIds
<1>12. \A i \in 1..Len(tabs) : tabs[i].id <= counts.tabs /\ tabs[i].id \in Nat
  BY <1>1, TabFacts DEF TabsOK, Tabs
<1>13. pick = None /\ tabId \in Nat /\ shown.key = tabId /\ tabId <= counts.tabs
  BY <1>1, SettledFacts DEF ClicksShown, TabsOK, TypeOK
<1>14. TabsOK'
  <2>1. \A i, j \in 1..Len(tabs') : tabs'[i].id = tabs'[j].id => i = j
    <3>1. ASSUME NEW i \in 1..Len(tabs'), NEW j \in 1..Len(tabs'), tabs'[i].id = tabs'[j].id
          PROVE  i = j
      <4>1. CASE i \in 1..Len(tabs) /\ j \in 1..Len(tabs)
        BY <1>1, <1>9, <3>1, <4>1 DEF TabsOK
      <4>2. CASE i = Len(tabs) + 1 \/ j = Len(tabs) + 1
        <5>1. \A k \in 1..Len(tabs) : tabs'[k].id # n
          BY <1>4, <1>9, <1>12
        <5>2. tabs'[Len(tabs) + 1].id = n
          BY <1>8, <1>9
        <5>3. \A k \in 1..Len(tabs') : k \in 1..Len(tabs) \/ k = Len(tabs) + 1
          BY <1>9
        <5> QED
          BY <3>1, <4>2, <5>1, <5>2, <5>3
      <4> QED
        BY <1>9, <4>1, <4>2
    <3> QED
      BY <3>1
  <2>2. \A i \in 1..Len(tabs') : tabs'[i].id <= counts'.tabs
    <3>1. ASSUME NEW i \in 1..Len(tabs) PROVE tabs'[i].id <= n
      <4>1. tabs'[i] = tabs[i] /\ tabs[i].id <= counts.tabs /\ tabs[i].id \in Nat
        BY <1>9, <1>12
      <4>2. counts.tabs <= n
        BY <1>4
      <4> QED
        BY <1>4, <4>1, <4>2
    <3>2. tabs'[Len(tabs) + 1].id <= n
      BY <1>4, <1>8, <1>9
    <3>3. \A i \in 1..Len(tabs') : i \in 1..Len(tabs) \/ i = Len(tabs) + 1
      BY <1>9
    <3> QED
      BY <1>6, <3>1, <3>2, <3>3
  <2>3. tabId' <= counts'.tabs /\ shown'.key <= counts'.tabs
    BY <1>4, <1>6, <1>7, <1>13
  <2>4. tabId' \in TabIds(tabs') /\ pick' = None
    BY <1>7, <1>11, <1>13
  <2> QED
    BY <2>1, <2>2, <2>3, <2>4 DEF TabsOK
<1>15. ShownOK'
  BY <1>1, <1>7, SettledFacts DEF ShownOK
<1>16. n # shown.key
  BY <1>4, <1>13
<1>17. OwnerOK'
  <2>1. UNCHANGED <<sock, shown, Received, Waiting>>
    BY <1>7 DEF Received, Waiting
  <2>2. \A i \in 1..Len(tabs') :
          tabs'[i].id = shown.key => i \in 1..Len(tabs) /\ tabs'[i] = tabs[i]
    BY <1>8, <1>9, <1>16
  <2> QED
    BY <2>1, <2>2 DEF IInv, OwnerOK
<1>18. OnceOK'
  <2>1. UNCHANGED <<sock, shown, flags>>
    BY <1>7
  <2>2. (\A i \in 1..Len(tabs') : tabs'[i].id = shown.key => tabs'[i].on)
        => \A i \in 1..Len(tabs) : tabs[i].id = shown.key => tabs[i].on
    BY <1>9
  <2> QED
    BY <2>1, <2>2 DEF IInv, OnceOK
<1>19. ChoiceOK'
  <2>1. UNCHANGED <<sock, choice, stored>> /\ AnyConnected
    BY <1>7 DEF AddTab
  <2> QED
    BY <2>1 DEF IInv, ChoiceOK, Ticked
<1>20. LoginOK'
  <2>1. UNCHANGED <<sock, shown, timers>>
    BY <1>7
  <2>2. \A i \in 1..Len(tabs') :
          tabs'[i].id = shown.key => i \in 1..Len(tabs) /\ tabs'[i] = tabs[i]
    BY <1>8, <1>9, <1>16
  <2> QED
    BY ONLY IInv, <2>1, <2>2 DEF IInv, LoginOK, IsLogin, NoneOf
<1> QED
  BY <1>7, <1>10, <1>14, <1>15, <1>17, <1>18, <1>19, <1>20, FrameFacts DEF IInv

(* A click on a tab keeps the invariant.                                   *)
LEMMA SelectTabOK ==
  ASSUME IInv, NEW id \in TabIds(tabs), NEW gear \in BOOLEAN, SelectTab(id, gear)
  PROVE  IInv'
<1>1. TypeOK /\ TabsOK /\ ShownOK /\ ClicksShown /\ AnyConnected
  BY SettledShown DEF IInv, SelectTab, Act
<1>3. counts'.tabs = counts.tabs /\ counts' \in [tabs : Nat, opens : Nat, acts : Nat, lines : Nat]
  <2>1. counts.tabs \in Nat
    BY <1>1 DEF TypeOK
  <2> QED
    BY <1>1, <2>1, ActFacts DEF SelectTab
<1>4. /\ tabId' = id
      /\ UNCHANGED <<tabs, pick, echoMask, shown, flags, timers, inject, sock, vault>>
  BY DEF SelectTab
<1>5. PICK i \in 1..Len(tabs) : tabs[i].id = id
  BY DEF TabIds
<1>6. id \in Nat /\ id <= counts.tabs
  BY <1>1, <1>5, TabFacts DEF TabsOK, Tabs
<1>7. tabs[At(id)].prof \in Profiles
  BY <1>1, AtFacts, TabFacts DEF Tabs
<1>8. active' \in Profiles /\ UNCHANGED <<choice, stored>>
  BY <1>1, <1>7 DEF SelectTab, TypeOK
<1>9. TypeOK'
  BY <1>1, <1>3, <1>4, <1>6, <1>8 DEF TypeOK
<1>10. pick = None
  BY <1>1 DEF ClicksShown
<1>11. TabsOK'
  BY <1>1, <1>3, <1>4, <1>6, <1>10 DEF TabsOK
<1> QED
  BY <1>4, <1>8, <1>9, <1>11, FrameFacts DEF IInv

(* The effect that selects the tab picked keeps the invariant.             *)
LEMMA PickTabOK ==
  ASSUME IInv, PickTab
  PROVE  IInv'
<1>1. /\ pick # None /\ tabId' = pick /\ pick' = None
      /\ UNCHANGED <<tabs, echoMask, shown, flags, timers, inject, sock, vault, active, choice,
                     stored, counts>>
  BY DEF PickTab, trust
<1>2. TypeOK'
  BY <1>1 DEF IInv, TypeOK
<1>3. PICK i \in 1..Len(tabs) : tabs[i].id = pick
  BY <1>1 DEF IInv, TabsOK, TabIds
<1>4. TabsOK'
  BY <1>1, <1>3 DEF IInv, TabsOK
<1> QED
  BY <1>1, <1>2, <1>4, FrameFacts DEF IInv

-----------------------------------------------------------------------------
(* The gate and the vault.                                                 *)
LEMMA ActKeeps ==
  ASSUME IInv, Act(0)
  PROVE  /\ counts'.tabs = counts.tabs
         /\ counts' \in [tabs : Nat, opens : Nat, acts : Nat, lines : Nat]
<1>1. TypeOK /\ counts.tabs \in Nat
  BY DEF IInv, TypeOK
<1> QED
  BY <1>1, ActFacts

(* So does a choice that only the gate keeps.                              *)
LEMMA GateOK ==
  ASSUME IInv, Gate, UNCHANGED active,
         choice' \in TrustSettings, stored' \in TrustSettings,
         Ticked(choice'), Ticked(stored'), ~stored'.shared => choice' = stored'
  PROVE  IInv'
<1>1. TypeOK /\ TabsOK /\ ShownOK /\ ClicksShown /\ ~AnyConnected
  BY SettledShown DEF IInv, Gate, Act
<1>2. UNCHANGED <<tabs, tabId, pick, echoMask, shown, flags, timers, inject, sock, vault>>
  BY DEF Gate
<1>3. /\ counts'.tabs = counts.tabs
      /\ counts' \in [tabs : Nat, opens : Nat, acts : Nat, lines : Nat]
  BY ActKeeps DEF Gate
<1>4. TypeOK'
  BY <1>1, <1>2, <1>3 DEF TypeOK
<1>5. sock = None
  BY <1>1, SettledFacts DEF ShownOK
<1>6. ChoiceOK'
  BY <1>1, <1>2, <1>5 DEF ChoiceOK, AnyConnected, Ticked
<1> QED
  BY <1>2, <1>3, <1>4, <1>6, FrameFacts DEF IInv

(* What each write does to the three keys.                                 *)
LEMMA SaveFacts ==
  ASSUME NEW s \in TrustSettings
  PROVE  /\ \A mode \in Modes :
              /\ SaveTrustMode(s, mode) \in TrustSettings
              /\ SaveTrustMode(s, mode).shared = s.shared
              /\ Ticked(s) => Ticked(SaveTrustMode(s, mode))
         /\ \A url \in Urls :
              /\ SaveCustomWs(s, url) \in TrustSettings
              /\ SaveCustomWs(s, url).shared = s.shared
              /\ Ticked(s) => Ticked(SaveCustomWs(s, url))
         /\ \A ok \in BOOLEAN, url \in Urls \cup {None} :
              /\ SaveCustomAck(s, ok, url) \in TrustSettings
              /\ SaveCustomAck(s, ok, url).shared = s.shared
              /\ ok /\ (~s.shared => url = s.url) => Ticked(SaveCustomAck(s, ok, url))
              /\ ~ok => Ticked(SaveCustomAck(s, ok, url))
<1>1. ASSUME NEW mode \in Modes
      PROVE  /\ SaveTrustMode(s, mode) \in TrustSettings
             /\ SaveTrustMode(s, mode).shared = s.shared
             /\ Ticked(s) => Ticked(SaveTrustMode(s, mode))
  BY DEF SaveTrustMode, TrustSettings, Ticked
<1>2. ASSUME NEW url \in Urls
      PROVE  /\ SaveCustomWs(s, url) \in TrustSettings
             /\ SaveCustomWs(s, url).shared = s.shared
             /\ Ticked(s) => Ticked(SaveCustomWs(s, url))
  BY DEF SaveCustomWs, TrustSettings, Ticked
<1>3. ASSUME NEW ok \in BOOLEAN, NEW url \in Urls \cup {None}
      PROVE  /\ SaveCustomAck(s, ok, url) \in TrustSettings
             /\ SaveCustomAck(s, ok, url).shared = s.shared
             /\ ok /\ (~s.shared => url = s.url) => Ticked(SaveCustomAck(s, ok, url))
             /\ ~ok => Ticked(SaveCustomAck(s, ok, url))
  <2>1. PICK tick \in Urls \cup {None} : tick = IF ok THEN url ELSE None
    OBVIOUS
  <2>2. SaveCustomAck(s, ok, url) = [s EXCEPT !.ack = ok, !.ticked = tick]
    BY <2>1 DEF SaveCustomAck
  <2> QED
    BY <2>1, <2>2 DEF TrustSettings, Ticked
<1> QED
  BY <1>1, <1>2, <1>3

(* What the settings are before a click in the gate.                       *)
LEMMA SettingsFacts ==
  ASSUME IInv
  PROVE  /\ choice \in TrustSettings /\ stored \in TrustSettings
         /\ Ticked(choice) /\ Ticked(stored) /\ (~stored.shared => choice = stored)
BY DEF IInv, TypeOK, ChoiceOK

(* Choosing a mode keeps the invariant.                                    *)
LEMMA OnTrustModeOK ==
  ASSUME IInv, NEW mode \in Modes, OnTrustMode(mode)
  PROVE  IInv'
<1>1. Gate /\ UNCHANGED active
  BY DEF OnTrustMode
<1>2. CASE mode = "custom"
  <2>1. choice' = SaveTrustMode(choice, mode) /\ stored' = SaveTrustMode(stored, mode)
    BY <1>2 DEF OnTrustMode
  <2> QED
    BY <1>1, <2>1, SettingsFacts, SaveFacts, GateOK
<1>3. CASE mode # "custom"
  <2>1. PICK c, t : c = SaveTrustMode(choice, mode) /\ t = SaveTrustMode(stored, mode)
    OBVIOUS
  <2>2. choice' = SaveCustomAck(c, FALSE, None) /\ stored' = SaveCustomAck(t, FALSE, None)
    BY <1>3, <2>1 DEF OnTrustMode
  <2>3. c \in TrustSettings /\ t \in TrustSettings /\ t.shared = stored.shared
    BY <2>1, SettingsFacts, SaveFacts
  <2>4. /\ choice' \in TrustSettings /\ stored' \in TrustSettings
        /\ Ticked(choice') /\ Ticked(stored') /\ stored'.shared = t.shared
    BY <2>2, <2>3, SaveFacts
  <2>5. ~stored.shared => choice' = stored'
    BY <2>1, <2>2, SettingsFacts
  <2> QED
    BY <1>1, <2>3, <2>4, <2>5, GateOK
<1> QED
  BY <1>2, <1>3

(* Typing an endpoint keeps it: the tick is taken away with the old one.   *)
LEMMA OnCustomWsOK ==
  ASSUME IInv, NEW url \in Urls, OnCustomWs(url)
  PROVE  IInv'
<1>1. /\ Gate /\ UNCHANGED active /\ url # choice.url
      /\ choice' = [choice EXCEPT !.url = url, !.ack = FALSE]
      /\ stored' = SaveCustomWs(stored, url)
  BY DEF OnCustomWs
<1>2. /\ choice \in TrustSettings /\ stored \in TrustSettings /\ Ticked(stored)
      /\ ~stored.shared => choice = stored
  BY SettingsFacts
<1>3. choice' \in TrustSettings /\ Ticked(choice')
  BY <1>1, <1>2 DEF TrustSettings, Ticked
<1>4. stored' \in TrustSettings /\ stored'.shared = stored.shared /\ Ticked(stored')
  BY <1>1, <1>2, SaveFacts
<1>5. ~stored.shared => choice' = stored'
  BY <1>1, <1>2 DEF SaveCustomWs, TrustSettings
<1> QED
  BY <1>1, <1>3, <1>4, <1>5, GateOK

(* Ticking or clearing the acknowledgement keeps it.                       *)
LEMMA OnCustomAckOK ==
  ASSUME IInv, NEW ok \in BOOLEAN, OnCustomAck(ok)
  PROVE  IInv'
<1>1. /\ Gate /\ UNCHANGED active
      /\ choice' = SaveCustomAck(choice, ok, choice.url)
      /\ stored' = SaveCustomAck(stored, ok, choice.url)
  BY DEF OnCustomAck
<1>2. /\ choice \in TrustSettings /\ stored \in TrustSettings
      /\ ~stored.shared => choice = stored
  BY SettingsFacts
<1>3. choice.url \in Urls \cup {None}
  BY <1>2 DEF TrustSettings
<1>4. /\ choice' \in TrustSettings /\ stored' \in TrustSettings
      /\ choice'.shared = choice.shared /\ stored'.shared = stored.shared
  BY <1>1, <1>2, <1>3, SaveFacts
<1>5. Ticked(choice')
  BY <1>1, <1>2, <1>3, <1>4, SaveFacts DEF Ticked
<1>6. Ticked(stored')
  BY <1>1, <1>2, <1>3, <1>4, SaveFacts DEF Ticked
<1>7. ~stored'.shared => choice' = stored'
  BY <1>1, <1>2, <1>4
<1> QED
  BY <1>1, <1>4, <1>5, <1>6, <1>7, GateOK

(* Another window that writes one of the keys keeps it.                    *)
LEMMA OtherWindowOK ==
  ASSUME IInv, OtherWindow
  PROVE  IInv'
<1>1. UNCHANGED <<tabs, tabId, pick, echoMask, shown, flags, timers, inject, sock, vault,
                  active, choice>>
  BY DEF OtherWindow
<1>2. PICK mode \in Modes, url \in Urls, ok \in BOOLEAN :
        \E s \in {SaveTrustMode(stored, mode), SaveCustomWs(stored, url),
                  SaveCustomAck(stored, ok, url)} : stored' = [s EXCEPT !.shared = TRUE]
  BY DEF OtherWindow
<1>3. PICK s \in TrustSettings : stored' = [s EXCEPT !.shared = TRUE]
  BY <1>2, SettingsFacts, SaveFacts
<1>4. stored' \in TrustSettings /\ stored'.shared
  BY <1>3 DEF TrustSettings
<1>5. PICK n : n = counts.acts + 1
  OBVIOUS
<1>6. counts \in [tabs : Nat, opens : Nat, acts : Nat, lines : Nat]
  BY DEF IInv, TypeOK
<1>7. n \in Nat /\ counts' = [counts EXCEPT !.acts = n]
  BY <1>5, <1>6 DEF OtherWindow
<1>8. counts'.tabs = counts.tabs /\ counts' \in [tabs : Nat, opens : Nat, acts : Nat, lines : Nat]
  BY <1>6, <1>7
<1>9. TypeOK'
  BY <1>1, <1>4, <1>8 DEF IInv, TypeOK
<1>10. ChoiceOK'
  BY <1>1, <1>4 DEF IInv, ChoiceOK, AnyConnected, Ticked
<1> QED
  BY <1>1, <1>8, <1>9, <1>10, FrameFacts DEF IInv

(* Opening or locking the vault keeps it.                                  *)
LEMMA SetVaultOK ==
  ASSUME IInv, NEW open \in BOOLEAN, SetVault(open)
  PROVE  IInv'
<1>1. UNCHANGED <<tabs, tabId, pick, echoMask, shown, flags, timers, inject, sock, active, choice,
                  stored>>
  BY DEF SetVault, trust
<1>2. /\ counts'.tabs = counts.tabs
      /\ counts' \in [tabs : Nat, opens : Nat, acts : Nat, lines : Nat]
  BY ActKeeps DEF SetVault
<1>3. vault' \in [boot : BOOLEAN, open : BOOLEAN, bumped : BOOLEAN]
  BY DEF SetVault, IInv, TypeOK
<1>4. TypeOK'
  BY <1>1, <1>2, <1>3 DEF IInv, TypeOK
<1> QED
  BY <1>1, <1>2, <1>4, FrameFacts DEF IInv

(* The end of the boot keeps it.                                           *)
LEMMA BootDoneOK ==
  ASSUME IInv, NEW open \in BOOLEAN, BootDone(open)
  PROVE  IInv'
<1>1. UNCHANGED <<tabs, tabId, pick, echoMask, shown, flags, timers, inject, sock, active, choice,
                  stored, counts>>
  BY DEF BootDone, trust
<1>2. vault \in [boot : BOOLEAN, open : BOOLEAN, bumped : BOOLEAN]
  BY DEF IInv, TypeOK
<1>3. PICK a \in BOOLEAN, b \in BOOLEAN :
        a = (open \/ vault.open) /\ b = (vault.bumped \/ open)
  OBVIOUS
<1>4. vault' = [boot |-> TRUE, open |-> a, bumped |-> b]
  BY <1>2, <1>3 DEF BootDone
<1>5. TypeOK'
  BY <1>1, <1>4 DEF IInv, TypeOK
<1> QED
  BY <1>1, <1>5, FrameFacts DEF IInv

-----------------------------------------------------------------------------
(* Lines.                                                                  *)
LEMMA DeliverFacts ==
  ASSUME NEW s \in Sockets, NEW line \in Lines, ~line.queued, NEW d, d = Deliver(s, line)
  PROVE  /\ d \in Sockets
         /\ d.tab = s.tab /\ d.prof = s.prof /\ d.code = s.code /\ d.mask = s.mask
         /\ d.changed = s.changed /\ d.url = s.url
         /\ s.code = "connected" => d.got = Append(s.got, line) /\ d.out = s.out
         /\ s.code # "connected" =>
              /\ d.got = s.got
              /\ \E q \in Lines : /\ d.out = Append(s.out, q)
                                  /\ q.queued /\ q.kind = line.kind /\ q.of = line.of
<1>1. CASE s.code = "connected"
  <2>1. d = [s EXCEPT !.got = Append(s.got, line)]
    BY <1>1 DEF Deliver
  <2>2. s.got \in Seq(Lines)
    BY DEF Sockets
  <2>3. Append(s.got, line) \in Seq(Lines)
    BY <2>2
  <2>4. d \in Sockets
    BY <2>1, <2>3 DEF Sockets
  <2> QED
    BY <1>1, <2>1, <2>4 DEF Sockets
<1>2. CASE s.code # "connected"
  <2>1. PICK q : q = [line EXCEPT !.queued = TRUE]
    OBVIOUS
  <2>2. q \in Lines /\ q.queued /\ q.kind = line.kind /\ q.of = line.of
    BY <2>1 DEF Lines
  <2>3. d = [s EXCEPT !.out = Append(s.out, q)]
    BY <1>2, <2>1 DEF Deliver
  <2>4. s.out \in Seq(Lines)
    BY DEF Sockets
  <2>5. Append(s.out, q) \in Seq(Lines)
    BY <2>2, <2>4
  <2>6. d \in Sockets
    BY <2>3, <2>5 DEF Sockets
  <2>7. d.out = Append(s.out, q) /\ d.got = s.got
    BY <2>3 DEF Sockets
  <2>8. d.tab = s.tab /\ d.prof = s.prof /\ d.code = s.code /\ d.mask = s.mask
         /\ d.changed = s.changed /\ d.url = s.url
    BY <2>3 DEF Sockets
  <2> QED
    BY <1>2, <2>2, <2>6, <2>7, <2>8
<1> QED
  BY <1>1, <1>2

(* A line of the tab that is rendered; one of a login is noted, and was    *)
(* not there before.                                                       *)
LEMMA LineOK ==
  ASSUME IInv, sock # None, NEW line \in Lines, ~line.queued, sock' = Deliver(sock, line),
         UNCHANGED <<tabs, shown, choice, stored, echoMask>>,
         line.kind = "command" => line.of = sock.tab,
         IsLogin(line) => ClicksShown /\ line.of = shown.prof,
         line.kind = "account" => ~flags.account /\ flags'.account,
         line.kind = "password" => ~flags.password /\ flags'.password,
         flags.account => flags'.account, flags.password => flags'.password,
         timers'.account \in {timers.account, None}, timers'.password \in {timers.password, None},
         line.kind = "account" => timers.account # None /\ timers'.account = None,
         line.kind = "password" => timers.password # None /\ timers'.password = None
  PROVE  /\ sock' \in Sockets
         /\ ShownOK' /\ OwnerOK' /\ OnceOK' /\ LoginOK' /\ OncePerConnection'
         /\ MaskIsOfSocket' /\ ChoiceOK'
<1>1. sock \in Sockets /\ TypeOK /\ TabsOK /\ ShownOK
  BY DEF IInv, TypeOK
<1>2. /\ sock' \in Sockets
      /\ sock'.tab = sock.tab /\ sock'.prof = sock.prof /\ sock'.code = sock.code
      /\ sock'.mask = sock.mask /\ sock'.changed = sock.changed /\ sock'.url = sock.url
  BY <1>1, DeliverFacts
<1>3. sock' # None
  BY <1>2, ShellAssumption
<1>4. sock.got \in Seq(Lines) /\ sock.out \in Seq(Lines)
  BY <1>1 DEF Sockets
<1>5. ShownOK'
  BY <1>2, <1>3 DEF IInv, ShownOK, TabIds
<1>6. MaskIsOfSocket'
  BY <1>2, <1>3 DEF IInv, MaskIsOfSocket
<1>7. ChoiceOK'
  BY <1>2, <1>3 DEF IInv, ChoiceOK, AnyConnected, Ticked
<1>8. \A l \in Received' \cup Waiting' :
        \/ l \in Received \cup Waiting
        \/ l.kind = line.kind /\ l.of = line.of
  <2>1. CASE sock.code = "connected"
    <3>1. sock'.got = Append(sock.got, line) /\ sock'.out = sock.out
      BY <1>1, <2>1, DeliverFacts
    <3> QED
      BY <1>3, <1>4, <3>1 DEF Received, Waiting
  <2>2. CASE sock.code # "connected"
    <3>1. PICK q \in Lines : /\ sock'.got = sock.got /\ sock'.out = Append(sock.out, q)
                             /\ q.kind = line.kind /\ q.of = line.of
      BY <1>1, <2>2, DeliverFacts
    <3> QED
      BY <1>3, <1>4, <3>1 DEF Received, Waiting
  <2> QED
    BY <2>1, <2>2
<1>9. OwnerOK'
  <2>1. ASSUME NEW l \in Received' \cup Waiting'
        PROVE  /\ l.kind = "command" => l.of = sock'.tab
               /\ IsLogin(l) /\ ~sock'.changed =>
                    IF sock'.prof # None THEN l.of = sock'.prof
                    ELSE shown'.id = shown'.key => l.of = shown'.prof
    <3>1. CASE l \in Received \cup Waiting
      BY <1>2, <3>1 DEF IInv, OwnerOK
    <3>2. CASE l.kind = line.kind /\ l.of = line.of
      <4>1. ASSUME IsLogin(l)
            PROVE  l.of = shown.prof /\ shown.id = shown.key
        <5>1. IsLogin(line)
          BY <3>2, <4>1 DEF IsLogin
        <5> QED
          BY <1>1, <3>2, <5>1, SettledFacts
      <4> QED
        BY <1>2, <3>2, <4>1 DEF IInv, OwnerOK
    <3> QED
      BY <1>8, <2>1, <3>1, <3>2
  <2>2. ~sock'.changed /\ shown'.id = shown'.key =>
          /\ sock'.prof # None => sock'.prof = shown'.prof
          /\ \A i \in 1..Len(tabs') : tabs'[i].id = shown'.key => tabs'[i].prof = shown'.prof
    BY <1>2 DEF IInv, OwnerOK
  <2> QED
    BY <2>1, <2>2 DEF OwnerOK, IsLogin
<1>10. CASE sock.code # "connected"
  <2>1. PICK q \in Lines :
          sock'.got = sock.got /\ sock'.out = Append(sock.out, q) /\ q.queued
    BY <1>1, <1>10, DeliverFacts
  <2>2. OnceOK'
    <3>1. \A i \in 1..Len(sock'.out) : sock'.out[i].queued
      BY <1>4, <2>1 DEF IInv, OnceOK
    <3> QED
      BY <1>2, <1>10, <2>1, <3>1 DEF IInv, OnceOK
  <2>3. OncePerConnection'
    BY <2>1 DEF IInv, OncePerConnection, IsLogin
  <2>4. PICK n \in Nat : n = Len(sock.out)
    BY <1>4
  <2>5. q.kind = line.kind
    BY <1>1, <1>10, <2>1, DeliverFacts
  <2>6. /\ 1..Len(sock'.out) = 1..n \cup {n + 1} /\ sock'.out[n + 1] = q
        /\ \A i \in 1..n : sock'.out[i] = sock.out[i] /\ i # n + 1
    BY <1>4, <2>1, <2>4
  <2>7. IsLogin(line) => shown.id = shown.key /\ NoneOf(line.kind, sock.out)
    <3>1. IsLogin(line) => shown.id = shown.key
      BY <1>1, SettledFacts
    <3> QED
      BY <3>1 DEF IInv, LoginOK, IsLogin
  <2>8. ASSUME NEW i \in 1..Len(sock'.out), NEW j \in 1..Len(sock'.out),
               IsLogin(sock'.out[i]), sock'.out[i].kind = sock'.out[j].kind
        PROVE  i = j
    <3>1. CASE i \in 1..n /\ j \in 1..n
      BY <2>4, <2>6, <2>8, <3>1 DEF IInv, LoginOK
    <3>2. CASE i = n + 1 /\ j \in 1..n
      <4>1. IsLogin(line) /\ sock.out[j].kind = line.kind
        BY <2>5, <2>6, <2>8, <3>2 DEF IsLogin
      <4> QED
        BY <2>4, <2>7, <3>2, <4>1 DEF NoneOf
    <3>3. CASE i \in 1..n /\ j = n + 1
      <4>1. IsLogin(line) /\ sock.out[i].kind = line.kind
        BY <2>5, <2>6, <2>8, <3>3 DEF IsLogin
      <4> QED
        BY <2>4, <2>7, <3>3, <4>1 DEF NoneOf
    <3> QED
      BY <2>6, <3>1, <3>2, <3>3
  <2>9. ASSUME NEW kind \in {"account", "password"}, kind # line.kind,
               NoneOf(kind, sock.out)
        PROVE  NoneOf(kind, sock'.out)
    BY <2>4, <2>5, <2>6, <2>9 DEF NoneOf
  <2>10. LoginOK'
    <3>1. shown.id = shown.key /\ timers'.account # None => NoneOf("account", sock'.out)
      BY <2>9 DEF IInv, LoginOK
    <3>2. shown.id = shown.key /\ timers'.password # None => NoneOf("password", sock'.out)
      BY <2>9 DEF IInv, LoginOK
    <3>3. shown.id = shown.key =>
            \A i \in 1..Len(tabs) : tabs[i].id = shown.key /\ tabs[i].on => tabs[i].code = sock'.code
      BY <1>2 DEF IInv, LoginOK
    <3> QED
      BY <1>2, <1>10, <2>8, <3>1, <3>2, <3>3 DEF LoginOK, IsLogin, NoneOf
  <2> QED
    BY <1>2, <1>5, <1>6, <1>7, <1>9, <2>2, <2>3, <2>10
<1>11. CASE sock.code = "connected"
  <2>1. sock'.got = Append(sock.got, line) /\ sock'.out = sock.out
    BY <1>1, <1>11, DeliverFacts
  <2>2. PICK n \in Nat : n = Len(sock.got)
    BY <1>4
  <2>3. /\ 1..Len(sock'.got) = 1..n \cup {n + 1} /\ sock'.got[n + 1] = line
        /\ \A i \in 1..n : sock'.got[i] = sock.got[i] /\ i # n + 1
    BY <1>4, <2>1, <2>2
  <2>4. OnceOK'
    <3>1. ASSUME \A i \in 1..Len(tabs) : tabs[i].id = shown.key => tabs[i].on,
                 NEW i \in 1..Len(sock'.got), ~sock'.got[i].queued
          PROVE  /\ sock'.got[i].kind = "account" => flags'.account
                 /\ sock'.got[i].kind = "password" => flags'.password
      <4>1. CASE i \in 1..n
        BY <1>11, <2>2, <2>3, <3>1, <4>1 DEF IInv, OnceOK
      <4>2. CASE i = n + 1
        BY <2>3, <4>2
      <4> QED
        BY <2>3, <4>1, <4>2
    <3>2. \A i \in 1..Len(sock'.out) : sock'.out[i].queued
      BY <2>1 DEF IInv, OnceOK
    <3> QED
      BY <1>2, <1>11, <3>1, <3>2 DEF OnceOK
  <2>5. OncePerConnection'
    <3>1. ASSUME IsLogin(line), NEW i \in 1..n, sock.got[i].kind = line.kind,
                 ~sock.got[i].queued
          PROVE  FALSE
      <4>1. shown.on
        BY <1>1 DEF ShownOK
      <4>2. \A k \in 1..Len(tabs) : tabs[k].id = shown.key => tabs[k].on
        BY <1>1, <3>1, <4>1, SettledFacts
      <4> QED
        BY <1>11, <2>2, <3>1, <4>2 DEF IInv, OnceOK, IsLogin
    <3>2. ASSUME NEW i \in 1..Len(sock'.got), NEW j \in 1..Len(sock'.got), i < j,
                 IsLogin(sock'.got[i]), sock'.got[i].kind = sock'.got[j].kind
          PROVE  sock'.got[i].queued /\ ~sock'.got[j].queued
      <4>1. CASE i \in 1..n /\ j \in 1..n
        BY <2>2, <2>3, <3>2, <4>1 DEF IInv, OncePerConnection
      <4>2. CASE i \in 1..n /\ j = n + 1
        <5>1. IsLogin(line) /\ sock.got[i].kind = line.kind
          BY <2>3, <3>2, <4>2 DEF IsLogin
        <5> QED
          BY <2>3, <3>1, <4>2, <5>1
      <4> QED
        BY <2>3, <3>2, <4>1, <4>2
    <3> QED
      BY <3>2 DEF OncePerConnection, IsLogin
  <2>6. LoginOK'
    BY <1>2, <2>1 DEF IInv, LoginOK, IsLogin, NoneOf
  <2> QED
    BY <1>2, <1>5, <1>6, <1>7, <1>9, <2>4, <2>5, <2>6
<1> QED
  BY <1>10, <1>11

(* A timer that types its line keeps the invariant.                        *)
LEMMA TimerLine ==
  ASSUME IInv, ClicksShown, NEW t \in Timers, NEW kind \in {"account", "password"},
         t = timers[kind],
         kind = "account" => ~flags.account /\ flags' = [flags EXCEPT !.account = TRUE],
         kind = "password" => ~flags.password /\ flags' = [flags EXCEPT !.password = TRUE],
         timers' = [timers EXCEPT ![kind] = None],
         FireInject(Line(kind, t.prof)),
         UNCHANGED <<tabs, tabId, pick, echoMask, shown, vault, active, choice, stored, counts>>
  PROVE  IInv'
<1>1. t # None
  BY ShellAssumption
<1>2. shown.on /\ t.prof = shown.prof
  BY <1>1 DEF IInv, TimersOK
<1>3. sock # None
  BY <1>2 DEF IInv, ShownOK
<1>4. PICK line : line = Line(kind, t.prof)
  OBVIOUS
<1>5. /\ line \in Lines /\ ~line.queued /\ line.kind = kind /\ line.of = shown.prof
      /\ IsLogin(line)
  BY <1>2, <1>4 DEF Line, Lines, IsLogin, Timers
<1>6. sock' = Deliver(sock, line) /\ UNCHANGED inject
  BY <1>3, <1>4 DEF FireInject
<1>7. flags \in [account : BOOLEAN, password : BOOLEAN]
  BY DEF IInv, TypeOK
<1>8. /\ flags' \in [account : BOOLEAN, password : BOOLEAN]
      /\ flags.account => flags'.account
      /\ flags.password => flags'.password
      /\ kind = "account" => flags'.account
      /\ kind = "password" => flags'.password
  BY <1>7
<1>9. timers \in [account : Timers \cup {None}, password : Timers \cup {None}]
  BY DEF IInv, TypeOK
<1>10. /\ timers' \in [account : Timers \cup {None}, password : Timers \cup {None}]
       /\ timers'.account \in {timers.account, None}
       /\ timers'.password \in {timers.password, None}
       /\ kind = "account" => timers.account # None /\ timers'.account = None
       /\ kind = "password" => timers.password # None /\ timers'.password = None
  BY <1>1, <1>9
<1>11. /\ sock' \in Sockets
       /\ ShownOK' /\ OwnerOK' /\ OnceOK' /\ LoginOK' /\ OncePerConnection'
       /\ MaskIsOfSocket' /\ ChoiceOK'
  BY <1>3, <1>5, <1>6, <1>8, <1>10, LineOK
<1>12. TypeOK'
  BY <1>6, <1>8, <1>10, <1>11 DEF IInv, TypeOK
<1>13. TimersOK'
  BY <1>6, <1>10 DEF IInv, TimersOK
<1> QED
  BY <1>11, <1>12, <1>13, FrameFacts DEF IInv

(* A timer that comes to nothing.                                          *)
LEMMA TimerIdle ==
  ASSUME IInv, NEW kind \in {"account", "password"},
         timers' = [timers EXCEPT ![kind] = None],
         UNCHANGED <<flags, sock, inject, tabs, tabId, pick, echoMask, shown, vault, active,
                     choice, stored, counts>>
  PROVE  IInv'
<1>1. timers \in [account : Timers \cup {None}, password : Timers \cup {None}]
  BY DEF IInv, TypeOK
<1>2. /\ timers' \in [account : Timers \cup {None}, password : Timers \cup {None}]
      /\ timers'.account \in {timers.account, None}
      /\ timers'.password \in {timers.password, None}
  BY <1>1
<1>3. TypeOK'
  BY <1>2 DEF IInv, TypeOK
<1>4. TimersOK'
  BY <1>2 DEF IInv, TimersOK
<1>5. LoginOK'
  BY <1>2 DEF IInv, LoginOK, IsLogin, NoneOf
<1> QED
  BY <1>3, <1>4, <1>5, FrameFacts DEF IInv

(* The timer of the account keeps the invariant.                           *)
LEMMA AccountTimerOK ==
  ASSUME IInv, AccountTimer
  PROVE  IInv'
<1>1. PICK t : t = timers.account
  OBVIOUS
<1>2. /\ t # None /\ ClicksShown /\ timers' = [timers EXCEPT !.account = None]
      /\ UNCHANGED <<tabs, tabId, pick, echoMask, shown, vault, active, choice, stored, counts>>
  BY <1>1 DEF AccountTimer, trust
<1>3. t \in Timers
  BY <1>1, <1>2 DEF IInv, TypeOK
<1>4. CASE AccountGoes(t)
  <2>1. flags' = AccountNoted /\ FireInject(Line("account", t.prof))
    BY <1>1, <1>4 DEF AccountTimer
  <2>2. ~flags.account
    BY <1>4 DEF AccountGoes
  <2> QED
    BY <1>1, <1>2, <1>3, <2>1, <2>2, TimerLine DEF AccountNoted
<1>5. CASE ~AccountGoes(t)
  <2>1. UNCHANGED <<flags, sock, inject>>
    BY <1>1, <1>5 DEF AccountTimer
  <2> QED
    BY <1>2, <2>1, TimerIdle
<1> QED
  BY <1>4, <1>5

(* The timer of the password keeps the invariant.                          *)
LEMMA PasswordTimerOK ==
  ASSUME IInv, PasswordTimer
  PROVE  IInv'
<1>1. PICK t : t = timers.password
  OBVIOUS
<1>2. /\ t # None /\ ClicksShown /\ timers' = [timers EXCEPT !.password = None]
      /\ UNCHANGED <<tabs, tabId, pick, echoMask, shown, vault, active, choice, stored, counts>>
  BY <1>1 DEF PasswordTimer, trust
<1>3. t \in Timers
  BY <1>1, <1>2 DEF IInv, TypeOK
<1>4. CASE ~flags.password /\ vault.open
  <2>1. flags' = [flags EXCEPT !.password = TRUE] /\ FireInject(Line("password", t.prof))
    BY <1>1, <1>4 DEF PasswordTimer
  <2> QED
    BY <1>1, <1>2, <1>3, <1>4, <2>1, TimerLine
<1>5. CASE ~(~flags.password /\ vault.open)
  <2>1. UNCHANGED <<flags, sock, inject>>
    BY <1>1, <1>5 DEF PasswordTimer
  <2> QED
    BY <1>2, <2>1, TimerIdle
<1> QED
  BY <1>4, <1>5

(* A command is given when nothing waits for a render, and adds no tab.    *)
LEMMA CommandKeeps ==
  ASSUME IInv, Command
  PROVE  /\ Settled /\ counts'.tabs = counts.tabs
         /\ counts' \in [tabs : Nat, opens : Nat, acts : Nat, lines : Nat]
<1>1. PICK n : n = counts.lines + 1
  OBVIOUS
<1>2. counts \in [tabs : Nat, opens : Nat, acts : Nat, lines : Nat]
  BY DEF IInv, TypeOK
<1>3. n \in Nat
  BY <1>1, <1>2
<1>4. counts' = [counts EXCEPT !.lines = n] /\ Settled
  BY <1>1 DEF Command
<1> QED
  BY <1>2, <1>3, <1>4

(* What the user types or clicks.                                          *)
LEMMA UserLine ==
  ASSUME IInv, Command, NEW kind \in {"command", "walk"}, FireInject(Line(kind, shown.id)),
         kind = "command" => shown.on,
         UNCHANGED <<tabs, tabId, pick, echoMask, shown, flags, timers, vault, active, choice,
                     stored>>
  PROVE  IInv'
<1>1. PICK line : line = Line(kind, shown.id)
  OBVIOUS
<1>2. TypeOK /\ TabsOK /\ ShownOK /\ ClicksShown
  BY CommandKeeps, SettledShown DEF IInv
<1>3. shown.id \in Nat /\ shown.id = shown.key
  BY <1>2, SettledFacts DEF TypeOK, Views
<1>4. line \in Lines /\ ~line.queued /\ line.kind = kind /\ line.of = shown.id
  BY <1>1, <1>3 DEF Line, Lines
<1>5. /\ counts'.tabs = counts.tabs
      /\ counts' \in [tabs : Nat, opens : Nat, acts : Nat, lines : Nat]
  BY CommandKeeps
<1>6. CASE sock # None
  <2>1. sock' = Deliver(sock, line) /\ UNCHANGED inject
    BY <1>1, <1>6 DEF FireInject
  <2>2. line.of = sock.tab
    BY <1>2, <1>3, <1>4, <1>6 DEF ShownOK
  <2>3. /\ sock' \in Sockets
        /\ ShownOK' /\ OwnerOK' /\ OnceOK' /\ LoginOK' /\ OncePerConnection'
        /\ MaskIsOfSocket' /\ ChoiceOK'
    BY <1>4, <1>6, <2>1, <2>2, LineOK DEF IsLogin
  <2>4. TypeOK'
    BY <1>2, <1>5, <2>1, <2>3 DEF TypeOK
  <2> QED
    BY <1>5, <2>1, <2>3, <2>4, FrameFacts DEF IInv
<1>7. CASE sock = None
  <2>1. inject' = line /\ UNCHANGED sock
    BY <1>1, <1>7 DEF FireInject
  <2>2. kind = "walk"
    BY <1>2, <1>7 DEF ShownOK
  <2>3. TypeOK'
    BY <1>2, <1>4, <1>5, <2>1 DEF TypeOK
  <2>4. TimersOK'
    BY <1>4, <2>1, <2>2 DEF IInv, TimersOK
  <2> QED
    BY <1>5, <2>1, <2>3, <2>4, FrameFacts DEF IInv
<1> QED
  BY <1>6, <1>7

(* So a typed command does,                                                *)
LEMMA SubmitCmdOK ==
  ASSUME IInv, SubmitCmd
  PROVE  IInv'
BY UserLine DEF SubmitCmd, HasCommandLine, trust

(* and a walked direction.                                                 *)
LEMMA WalkDirOK ==
  ASSUME IInv, WalkDir
  PROVE  IInv'
BY UserLine DEF WalkDir, trust

-----------------------------------------------------------------------------
(* What the socket reports.                                                *)
LEMMA SocketOK ==
  ASSUME IInv, sock # None, sock' \in Sockets,
         sock'.tab = sock.tab, sock'.url = sock.url, sock'.changed = sock.changed,
         sock'.prof = sock.prof \/ (ClicksShown /\ sock'.prof = shown.prof),
         Received' \cup Waiting' \subseteq Received \cup Waiting,
         OnceOK', OncePerConnection',
         NEW code \in Codes, sock'.code = code, code = "connected" => sock'.out = <<>>,
         sock'.out \in {sock.out, <<>>}, tabs' = SetTabStatus(shown.key, code),
         echoMask' = FALSE, flags' \in [account : BOOLEAN, password : BOOLEAN],
         counts'.tabs = counts.tabs,
         counts' \in [tabs : Nat, opens : Nat, acts : Nat, lines : Nat],
         UNCHANGED <<tabId, pick, shown, timers, inject, vault, active, choice, stored>>
  PROVE  IInv'
<1>1. TypeOK /\ TabsOK /\ ShownOK
  BY DEF IInv
<1>2. /\ tabs' \in Seq(Tabs) /\ tabs' # <<>> /\ Len(tabs') = Len(tabs)
      /\ \A i \in 1..Len(tabs) : /\ tabs'[i].id = tabs[i].id /\ tabs'[i].prof = tabs[i].prof
                                 /\ tabs'[i].on = tabs[i].on
                                 /\ tabs[i].id = shown.key => tabs'[i].code = code
  <2>1. PICK key : key = shown.key
    OBVIOUS
  <2>2. tabs' = Having(key, "code", code)
    BY <2>1 DEF SetTabStatus
  <2> QED
    BY ONLY <1>1, <2>1, <2>2, code \in Codes, HavingCode
<1>3. sock' # None
  BY ShellAssumption
<1>4. TypeOK'
  BY <1>1, <1>2 DEF TypeOK
<1>5. TabIds(tabs') = TabIds(tabs) /\ TabsOK'
  BY <1>2, SameTabsFacts
<1>6. ShownOK'
  BY <1>3, <1>5 DEF IInv, ShownOK
<1>7. OwnerOK'
  <2>1. ASSUME ~sock.changed, sock'.prof # sock.prof
        PROVE  /\ sock'.prof = shown.prof /\ shown.id = shown.key
               /\ \A line \in Received \cup Waiting : IsLogin(line) => line.of = shown.prof
    <3>1. sock'.prof = shown.prof /\ shown.id = shown.key
      BY <1>1, <2>1, SettledFacts
    <3> QED
      BY <2>1, <3>1 DEF IInv, OwnerOK
  <2>2. ASSUME NEW line \in Received' \cup Waiting'
        PROVE  /\ line.kind = "command" => line.of = sock'.tab
               /\ IsLogin(line) /\ ~sock'.changed =>
                    IF sock'.prof # None THEN line.of = sock'.prof
                    ELSE shown'.id = shown'.key => line.of = shown'.prof
    <3>1. line \in Received \cup Waiting
      BY <2>2
    <3>2. CASE sock'.prof = sock.prof
      BY <3>1, <3>2 DEF IInv, OwnerOK
    <3>3. CASE sock'.prof # sock.prof
      BY <2>1, <3>1, <3>3 DEF IInv, OwnerOK
    <3> QED
      BY <3>2, <3>3
  <2>3. ~sock'.changed /\ shown'.id = shown'.key =>
          /\ sock'.prof # None => sock'.prof = shown'.prof
          /\ \A i \in 1..Len(tabs') : tabs'[i].id = shown'.key => tabs'[i].prof = shown'.prof
    BY <1>2, <2>1 DEF IInv, OwnerOK
  <2> QED
    BY <2>2, <2>3 DEF OwnerOK, IsLogin
<1>8. MaskIsOfSocket'
  BY DEF MaskIsOfSocket
<1>9. ChoiceOK'
  BY <1>2, <1>3 DEF IInv, ChoiceOK, AnyConnected, Ticked
<1>10. LoginOK'
  <2>1. CASE sock'.out = sock.out
    <3>1. /\ \A i, j \in 1..Len(sock'.out) :
               IsLogin(sock'.out[i]) /\ sock'.out[i].kind = sock'.out[j].kind => i = j
          /\ shown'.id = shown'.key =>
               /\ timers'.account # None => NoneOf("account", sock'.out)
               /\ timers'.password # None => NoneOf("password", sock'.out)
      BY <2>1 DEF IInv, LoginOK, IsLogin, NoneOf
    <3>2. \A i \in 1..Len(tabs') :
             tabs'[i].id = shown'.key /\ tabs'[i].on => tabs'[i].code = sock'.code
      BY <1>2
    <3>3. sock'.code = "connected" => sock'.out = <<>>
      OBVIOUS
    <3> QED
      BY ONLY <3>1, <3>2, <3>3 DEF LoginOK, IsLogin, NoneOf
  <2>2. CASE sock'.out = <<>>
    <3>1. 1..Len(sock'.out) = {}
      BY <2>2
    <3> QED
      BY <1>2, <2>2, <3>1 DEF LoginOK, NoneOf
  <2> QED
    BY <2>1, <2>2
<1> QED
  BY <1>4, <1>5, <1>6, <1>7, <1>8, <1>9, <1>10, FrameFacts DEF IInv

(* What a report other than ready leaves of mask and flags has its type.   *)
LEMMA NoFlagsType ==
  ASSUME IInv, NEW code, code # "connected"
  PROVE  MaskAfter(code) = FALSE /\ FlagsAfter(code) \in [account : BOOLEAN, password : BOOLEAN]
BY DEF MaskAfter, FlagsAfter, NoFlags, IInv, TypeOK

(* Reports of anything but ready: what the MUD received may be forgotten.  *)
LEMMA ReportsOK ==
  ASSUME IInv, sock # None, NEW code \in Codes \ {"connected"}, NEW s \in Sockets,
         Reports(code, s),
         s.tab = sock.tab, s.url = sock.url, s.changed = sock.changed, s.out = sock.out,
         s.prof = sock.prof \/ (ClicksShown /\ s.prof = shown.prof),
         s.got \in {sock.got, <<>>},
         code \in {"connecting", "handshaking"} => s.got = <<>>,
         counts'.tabs = counts.tabs,
         counts' \in [tabs : Nat, opens : Nat, acts : Nat, lines : Nat]
  PROVE  IInv'
<1>1. sock' = [s EXCEPT !.code = code]
  BY DEF Reports
<1>2. sock' \in Sockets
  BY <1>1 DEF Sockets
<1>3. /\ sock'.tab = s.tab /\ sock'.url = s.url /\ sock'.changed = s.changed
      /\ sock'.out = s.out /\ sock'.prof = s.prof /\ sock'.got = s.got /\ sock'.code = code
  BY <1>1 DEF Sockets
<1>4. sock' # None
  BY <1>2, ShellAssumption
<1>5. Received' \cup Waiting' \subseteq Received \cup Waiting
  BY <1>3, <1>4 DEF Received, Waiting
<1>6. OnceOK'
  BY <1>3 DEF IInv, OnceOK
<1>7. OncePerConnection'
  <2>1. sock'.got = sock.got \/ sock'.got = <<>>
    BY <1>3
  <2>2. CASE sock'.got = sock.got
    BY <2>2 DEF IInv, OncePerConnection, IsLogin
  <2>3. CASE sock'.got = <<>>
    <3>1. 1..Len(sock'.got) = {}
      BY <2>3
    <3> QED
      BY <3>1 DEF OncePerConnection
  <2> QED
    BY <2>1, <2>2, <2>3
<1>8. /\ tabs' = SetTabStatus(shown.key, code) /\ echoMask' = FALSE
      /\ flags' \in [account : BOOLEAN, password : BOOLEAN]
      /\ UNCHANGED <<tabId, pick, shown, timers, inject, vault, active, choice, stored>>
  BY NoFlagsType DEF Reports, HandleStatus, trust
<1>9. code \in Codes /\ code # "connected"
  OBVIOUS
<1> QED
  BY <1>2, <1>3, <1>5, <1>6, <1>7, <1>8, <1>9, SocketOK

(* A socket that opens keeps the invariant.                                *)
LEMMA OpensOK ==
  ASSUME IInv, Opens
  PROVE  IInv'
<1>1. /\ sock # None /\ sock.code = "connecting" /\ ClicksShown
      /\ UNCHANGED counts
  BY SettledShown DEF Opens
<1>2. PICK s : s = [sock EXCEPT !.prof = shown.prof]
  OBVIOUS
<1>3. Reports("handshaking", s)
  BY <1>2 DEF Opens
<1>4. sock \in Sockets /\ shown.prof \in Profiles
  BY <1>1 DEF IInv, TypeOK, Views
<1>5. s \in Sockets
  BY <1>2, <1>4 DEF Sockets
<1>6. /\ s.tab = sock.tab /\ s.url = sock.url /\ s.changed = sock.changed /\ s.out = sock.out
      /\ s.prof = shown.prof /\ s.got = sock.got
  BY <1>2, <1>4 DEF Sockets
<1>7. sock.got = <<>>
  BY <1>1 DEF IInv, OnceOK
<1>8. counts' \in [tabs : Nat, opens : Nat, acts : Nat, lines : Nat]
  BY <1>1 DEF IInv, TypeOK
<1>9. "handshaking" \in Codes \ {"connected"}
  BY DEF Codes
<1> QED
  BY <1>1, <1>3, <1>5, <1>6, <1>7, <1>8, <1>9, ReportsOK

(* A socket that drops keeps it.                                           *)
LEMMA DropsOK ==
  ASSUME IInv, Drops
  PROVE  IInv'
<1>1. sock # None /\ UNCHANGED counts
  BY DEF Drops
<1>2. PICK s : s = [sock EXCEPT !.mask = FALSE]
  OBVIOUS
<1>3. PICK code \in {"reconnect_wait", "max_retries"} : Reports(code, s)
  BY <1>2 DEF Drops
<1>4. sock \in Sockets
  BY <1>1 DEF IInv, TypeOK
<1>5. s \in Sockets
  BY <1>2, <1>4 DEF Sockets
<1>6. /\ s.tab = sock.tab /\ s.url = sock.url /\ s.changed = sock.changed /\ s.out = sock.out
      /\ s.prof = sock.prof /\ s.got = sock.got
  BY <1>2, <1>4 DEF Sockets
<1>7. counts' \in [tabs : Nat, opens : Nat, acts : Nat, lines : Nat]
  BY <1>1 DEF IInv, TypeOK
<1>8. code \in Codes \ {"connected"} /\ code \notin {"connecting", "handshaking"}
  BY DEF Codes
<1> QED
  BY <1>1, <1>3, <1>5, <1>6, <1>7, <1>8, ReportsOK

(* One more socket or retry is counted.                                    *)
LEMMA OpensCount ==
  ASSUME IInv, counts' = [counts EXCEPT !.opens = @ + 1]
  PROVE  /\ counts'.tabs = counts.tabs
         /\ counts' \in [tabs : Nat, opens : Nat, acts : Nat, lines : Nat]
<1>1. PICK n : n = counts.opens + 1
  OBVIOUS
<1>2. counts \in [tabs : Nat, opens : Nat, acts : Nat, lines : Nat]
  BY DEF IInv, TypeOK
<1>3. n \in Nat
  BY <1>1, <1>2
<1>4. counts' = [counts EXCEPT !.opens = n]
  BY <1>1
<1> QED
  BY <1>2, <1>3, <1>4

(* A socket that tries again keeps it.                                     *)
LEMMA RetriesOK ==
  ASSUME IInv, Retries
  PROVE  IInv'
<1>1. sock # None /\ counts' = [counts EXCEPT !.opens = @ + 1]
  BY DEF Retries
<1>2. PICK s : s = [sock EXCEPT !.got = <<>>]
  OBVIOUS
<1>3. Reports("connecting", s)
  BY <1>2 DEF Retries
<1>4. sock \in Sockets /\ <<>> \in Seq(Lines)
  BY <1>1 DEF IInv, TypeOK
<1>5. s \in Sockets
  BY <1>2, <1>4 DEF Sockets
<1>6. /\ s.tab = sock.tab /\ s.url = sock.url /\ s.changed = sock.changed /\ s.out = sock.out
      /\ s.prof = sock.prof /\ s.got = <<>>
  BY <1>2, <1>4 DEF Sockets
<1>7. "connecting" \in Codes \ {"connected"}
  BY DEF Codes
<1>8. /\ counts'.tabs = counts.tabs
      /\ counts' \in [tabs : Nat, opens : Nat, acts : Nat, lines : Nat]
  BY <1>1, OpensCount
<1> QED
  BY <1>1, <1>3, <1>5, <1>6, <1>7, <1>8, ReportsOK

(* A proxy that reports the MUD reached keeps it.                          *)
LEMMA ReadyOK ==
  ASSUME IInv, Ready
  PROVE  IInv'
<1>1. sock # None /\ sock.code = "handshaking" /\ UNCHANGED counts
  BY DEF Ready
<1>2. sock \in Sockets /\ sock.got = <<>> /\ \A i \in 1..Len(sock.out) : sock.out[i].queued
  BY <1>1 DEF IInv, TypeOK, OnceOK
<1>3. sock.out \in Seq(Lines) /\ <<>> \in Seq(Lines)
  BY <1>2 DEF Sockets
<1>4. sock.got \o sock.out = sock.out
  BY <1>2, <1>3
<1>5. sock' = [sock EXCEPT !.code = "connected", !.mask = FALSE, !.got = sock.out, !.out = <<>>]
  BY <1>4 DEF Ready
<1>6. "connected" \in Codes
  BY DEF Codes
<1>7. sock' \in Sockets
  BY <1>2, <1>3, <1>5, <1>6 DEF Sockets
<1>8. /\ sock'.tab = sock.tab /\ sock'.url = sock.url /\ sock'.changed = sock.changed
      /\ sock'.prof = sock.prof /\ sock'.got = sock.out /\ sock'.out = <<>>
      /\ sock'.code = "connected"
  BY <1>2, <1>5 DEF Sockets
<1>9. sock' # None
  BY <1>7, ShellAssumption
<1>10. Len(<<>>) = 0 /\ 1..Len(sock'.out) = {}
  BY <1>8
<1>11. Received' \cup Waiting' \subseteq Received \cup Waiting
  BY <1>1, <1>8, <1>9, <1>10 DEF Received, Waiting
<1>12. OnceOK'
  BY <1>2, <1>8, <1>10 DEF OnceOK
<1>13. OncePerConnection'
  <2>1. ASSUME NEW i \in 1..Len(sock.out), NEW j \in 1..Len(sock.out), i < j,
               IsLogin(sock.out[i]), sock.out[i].kind = sock.out[j].kind
        PROVE  FALSE
    <3>1. i = j
      BY <1>1, <2>1 DEF IInv, LoginOK
    <3> QED
      BY <2>1, <3>1
  <2> QED
    BY <1>8, <2>1 DEF OncePerConnection, IsLogin
<1>14. /\ tabs' = SetTabStatus(shown.key, "connected") /\ echoMask' = FALSE
       /\ UNCHANGED <<tabId, pick, shown, timers, inject, vault, active, choice, stored>>
  BY DEF Ready, trust
<1>15. /\ flags' \in [account : BOOLEAN, password : BOOLEAN]
       /\ counts' \in [tabs : Nat, opens : Nat, acts : Nat, lines : Nat]
  BY <1>1 DEF Ready, FlagsAfter, NoFlags, IInv, TypeOK
<1> QED
  BY <1>1, <1>6, <1>7, <1>8, <1>11, <1>12, <1>13, <1>14, <1>15, SocketOK

(* A change of the echo keeps it.                                          *)
LEMMA EchoOK ==
  ASSUME IInv, NEW mask \in BOOLEAN, Echo(mask)
  PROVE  IInv'
<1>1. /\ sock # None /\ sock' = [sock EXCEPT !.mask = mask] /\ echoMask' = mask
      /\ UNCHANGED <<tabs, tabId, pick, shown, flags, timers, inject, vault, active, choice,
                     stored, counts>>
  BY DEF Echo, trust
<1>2. sock \in Sockets
  BY <1>1 DEF IInv, TypeOK
<1>3. sock' \in Sockets
  BY <1>1, <1>2 DEF Sockets
<1>4. /\ sock'.tab = sock.tab /\ sock'.url = sock.url /\ sock'.changed = sock.changed
      /\ sock'.prof = sock.prof /\ sock'.got = sock.got /\ sock'.out = sock.out
      /\ sock'.code = sock.code /\ sock'.mask = mask
  BY <1>1, <1>2 DEF Sockets
<1>5. sock' # None
  BY <1>3, ShellAssumption
<1>6. TypeOK'
  BY <1>1, <1>3 DEF IInv, TypeOK
<1>7. Received' = Received /\ Waiting' = Waiting
  BY <1>1, <1>4, <1>5 DEF Received, Waiting
<1>8. OwnerOK'
  BY <1>1, <1>4, <1>7 DEF IInv, OwnerOK, IsLogin
<1>9. ShownOK'
  BY <1>1, <1>4, <1>5 DEF IInv, ShownOK, TabIds
<1>10. OnceOK' /\ OncePerConnection'
  BY <1>1, <1>4 DEF IInv, OnceOK, OncePerConnection, IsLogin
<1>11. MaskIsOfSocket' /\ ChoiceOK'
  BY <1>1, <1>4, <1>5 DEF IInv, MaskIsOfSocket, ChoiceOK, AnyConnected, Ticked
<1>12. LoginOK'
  BY <1>1, <1>4 DEF IInv, LoginOK, IsLogin, NoneOf
<1> QED
  BY <1>1, <1>6, <1>8, <1>9, <1>10, <1>11, <1>12, FrameFacts DEF IInv

-----------------------------------------------------------------------------
(* The user connects, disconnects, closes a tab, or gives it a profile.    *)
LEMMA ActedFacts ==
  ASSUME IInv, Settled
  PROVE  /\ TypeOK /\ TabsOK /\ ShownOK /\ pick = None
         /\ shown.key = tabId /\ shown.id = tabId /\ tabId \in TabIds(tabs)
         /\ shown.on => AnyConnected
         /\ \A i \in 1..Len(tabs) :
              tabs[i].id = shown.key => shown.prof = tabs[i].prof /\ shown.on = tabs[i].on
<1>1. TypeOK /\ TabsOK /\ ShownOK /\ ClicksShown
  BY SettledShown DEF IInv
<1>2. pick = None
  BY <1>1 DEF ClicksShown
<1> QED
  BY <1>1, <1>2, SettledFacts

(* A click on connect keeps the invariant.                                 *)
LEMMA ConnectTabOK ==
  ASSUME IInv, ConnectTab
  PROVE  IInv'
<1>1. /\ ~shown.on
      /\ UNCHANGED <<tabId, pick, echoMask, shown, timers, inject, sock, vault, active, choice,
                     stored>>
      /\ flags' = NoFlags
  BY DEF ConnectTab, trust
<1>2. PICK key : key = shown.key
  OBVIOUS
<1>3. tabs' = Having(key, "on", TRUE)
  BY <1>2 DEF ConnectTab
<1>4. TypeOK /\ sock = None
  BY <1>1 DEF IInv, ShownOK
<1>5. /\ tabs' \in Seq(Tabs) /\ tabs' # <<>> /\ Len(tabs') = Len(tabs)
      /\ \A i \in 1..Len(tabs) : tabs'[i].id = tabs[i].id
  BY ONLY <1>3, <1>4, HavingOn
<1>6. /\ counts'.tabs = counts.tabs
      /\ counts' \in [tabs : Nat, opens : Nat, acts : Nat, lines : Nat]
  BY ActKeeps DEF ConnectTab
<1>7. TypeOK'
  BY <1>1, <1>4, <1>5, <1>6 DEF TypeOK, NoFlags
<1>8. TabsOK' /\ ShownOK'
  BY <1>1, <1>5, <1>6, SameTabsFacts
<1>9. OwnerOK' /\ OnceOK' /\ LoginOK' /\ OncePerConnection'
  BY <1>1, <1>4 DEF OwnerOK, OnceOK, LoginOK, OncePerConnection
<1>10. ChoiceOK'
  <2>1. choice.mode = "custom" => choice.ticked = choice.url \/ choice.shared
    BY DEF ConnectTab, CanConnect, IInv, ChoiceOK, Ticked
  <2> QED
    BY <1>1, <1>4, <2>1 DEF IInv, ChoiceOK, Ticked
<1> QED
  BY <1>1, <1>7, <1>8, <1>9, <1>10, FrameFacts DEF IInv

(* A click on disconnect keeps it.                                         *)
LEMMA DisconnectTabOK ==
  ASSUME IInv, DisconnectTab
  PROVE  IInv'
<1>1. /\ Settled /\ echoMask' = FALSE /\ flags' = NoFlags
      /\ UNCHANGED <<tabId, pick, shown, timers, inject, sock, vault, active, choice, stored>>
      /\ tabs' = [i \in 1..Len(tabs) |->
                    IF tabs[i].id # shown.key THEN tabs[i]
                    ELSE [tabs[i] EXCEPT !.on = FALSE, !.code = "idle"]]
  BY DEF DisconnectTab, Act, trust
<1>2. TypeOK /\ shown.key \in TabIds(tabs)
  BY <1>1, ActedFacts
<1>3. ASSUME NEW i \in 1..Len(tabs)
      PROVE  /\ tabs'[i] \in Tabs
             /\ tabs'[i].id = tabs[i].id /\ tabs'[i].prof = tabs[i].prof
             /\ tabs'[i].on => tabs[i].on
             /\ tabs[i].id = shown.key => ~tabs'[i].on
  <2>1. tabs[i] \in Tabs
    BY <1>2, TabFacts
  <2>2. tabs'[i] = IF tabs[i].id # shown.key THEN tabs[i]
                   ELSE [tabs[i] EXCEPT !.on = FALSE, !.code = "idle"]
    BY <1>1
  <2>3. CASE tabs[i].id # shown.key
    BY <2>1, <2>2, <2>3
  <2>4. CASE tabs[i].id = shown.key
    <3>1. PICK t \in Tabs : t = tabs[i]
      BY <2>1
    <3>2. tabs'[i] = [t EXCEPT !.on = FALSE, !.code = "idle"]
      BY <2>2, <2>4, <3>1
    <3>3. /\ [t EXCEPT !.on = FALSE, !.code = "idle"] \in Tabs
          /\ [t EXCEPT !.on = FALSE, !.code = "idle"].id = t.id
          /\ [t EXCEPT !.on = FALSE, !.code = "idle"].prof = t.prof
          /\ ~[t EXCEPT !.on = FALSE, !.code = "idle"].on
      BY ONLY t \in Tabs DEF Tabs, Codes
    <3> QED
      BY <3>1, <3>2, <3>3
  <2> QED
    BY <2>3, <2>4
<1>4. \A i \in 1..Len(tabs) : tabs'[i] \in Tabs
  BY <1>3
<1>5. Len(tabs) \in Nat /\ Len(tabs) > 0 /\ tabs' = [i \in 1..Len(tabs) |-> tabs'[i]]
  BY <1>1, <1>2, TabFacts
<1>6. tabs' \in Seq(Tabs) /\ tabs' # <<>> /\ Len(tabs') = Len(tabs)
  BY ONLY <1>4, <1>5
<1>7. /\ counts'.tabs = counts.tabs
      /\ counts' \in [tabs : Nat, opens : Nat, acts : Nat, lines : Nat]
  BY ActKeeps DEF DisconnectTab
<1>8. TypeOK'
  BY <1>1, <1>2, <1>6, <1>7 DEF TypeOK, NoFlags
<1>9. TabsOK' /\ ShownOK'
  BY <1>1, <1>3, <1>6, <1>7, SameTabsFacts
<1>10. OwnerOK'
  <2>1. Received' = Received /\ Waiting' = Waiting
    BY <1>1 DEF Received, Waiting
  <2>2. UNCHANGED <<sock, shown>>
    BY <1>1
  <2>3. \A i \in 1..Len(tabs') :
          tabs'[i].id = shown.key => i \in 1..Len(tabs) /\ tabs[i].id = shown.key
                                     /\ tabs'[i].prof = tabs[i].prof
    BY <1>3, <1>6
  <2> QED
    BY ONLY IInv, <2>1, <2>2, <2>3 DEF IInv, OwnerOK, IsLogin
<1>11. OnceOK'
  <2>1. PICK i \in 1..Len(tabs) : tabs[i].id = shown.key
    BY <1>2 DEF TabIds
  <2>2. ~(\A k \in 1..Len(tabs') : tabs'[k].id = shown.key => tabs'[k].on)
    BY <1>3, <1>6, <2>1
  <2> QED
    BY <1>1, <2>2 DEF IInv, OnceOK
<1>12. MaskIsOfSocket'
  BY <1>1 DEF MaskIsOfSocket
<1>13. ChoiceOK'
  <2>1. AnyConnected' => AnyConnected
    BY <1>3, <1>6 DEF AnyConnected
  <2> QED
    BY <1>1, <2>1 DEF IInv, ChoiceOK, Ticked
<1>14. LoginOK'
  <2>1. UNCHANGED <<sock, shown, timers>>
    BY <1>1
  <2>2. \A i \in 1..Len(tabs') : tabs'[i].id = shown.key => ~tabs'[i].on
    BY <1>3, <1>6
  <2> QED
    BY ONLY IInv, <2>1, <2>2 DEF IInv, LoginOK, IsLogin, NoneOf
<1> QED
  BY <1>1, <1>8, <1>9, <1>10, <1>11, <1>12, <1>13, <1>14, FrameFacts DEF IInv

(* Choosing another profile keeps it.                                      *)
LEMMA SelectProfileOK ==
  ASSUME IInv, NEW prof \in Profiles, SelectProfile(prof)
  PROVE  IInv'
<1>1. UNCHANGED <<tabId, pick, echoMask, shown, flags, timers, inject, vault, choice, stored>>
  BY DEF SelectProfile
<1>2. PICK key : key = shown.key
  OBVIOUS
<1>3. tabs' = Having(key, "prof", prof)
  BY <1>2 DEF SelectProfile
<1>4. TypeOK /\ prof \in Profiles
  BY DEF IInv
<1>5. /\ tabs' \in Seq(Tabs) /\ tabs' # <<>> /\ Len(tabs') = Len(tabs)
      /\ \A i \in 1..Len(tabs) : /\ tabs'[i].id = tabs[i].id /\ tabs'[i].on = tabs[i].on
                                 /\ tabs'[i].code = tabs[i].code
  BY ONLY <1>3, <1>4, HavingProf
<1>6. /\ counts'.tabs = counts.tabs
      /\ counts' \in [tabs : Nat, opens : Nat, acts : Nat, lines : Nat]
  BY ActKeeps DEF SelectProfile
<1>7. active' \in Profiles
  BY DEF SelectProfile
<1>8. TabIds(tabs') = TabIds(tabs) /\ TabsOK'
  BY <1>1, <1>5, <1>6, SameTabsFacts
<1>9. AnyConnected' = AnyConnected
  BY <1>5 DEF AnyConnected
<1>10. CASE sock = None
  <2>1. sock' = None
    BY <1>10 DEF SelectProfile
  <2>2. TypeOK'
    BY <1>1, <1>4, <1>5, <1>6, <1>7, <2>1 DEF TypeOK
  <2>3. ShownOK'
    BY <1>1, <1>8, <1>10, <2>1 DEF IInv, ShownOK
  <2>4. OwnerOK' /\ OnceOK' /\ LoginOK' /\ OncePerConnection'
    BY <2>1 DEF OwnerOK, OnceOK, LoginOK, OncePerConnection
  <2>5. MaskIsOfSocket' /\ ChoiceOK'
    BY <1>1, <1>9, <1>10, <2>1 DEF IInv, MaskIsOfSocket, ChoiceOK, Ticked
  <2> QED
    BY <1>1, <1>8, <2>2, <2>3, <2>4, <2>5, FrameFacts DEF IInv
<1>11. CASE sock # None
  <2>1. sock \in Sockets /\ sock' = [sock EXCEPT !.changed = TRUE]
    BY <1>4, <1>11 DEF TypeOK, SelectProfile
  <2>2. sock' \in Sockets
    BY <2>1 DEF Sockets
  <2>3. /\ sock'.tab = sock.tab /\ sock'.url = sock.url /\ sock'.changed
        /\ sock'.prof = sock.prof /\ sock'.got = sock.got /\ sock'.out = sock.out
        /\ sock'.code = sock.code /\ sock'.mask = sock.mask
    BY <2>1 DEF Sockets
  <2>4. sock' # None
    BY <2>2, ShellAssumption
  <2>5. TypeOK'
    BY <1>1, <1>4, <1>5, <1>6, <1>7, <2>2 DEF TypeOK
  <2>6. ShownOK'
    BY <1>1, <1>8, <1>11, <2>3, <2>4 DEF IInv, ShownOK
  <2>7. Received' = Received /\ Waiting' = Waiting
    BY <1>11, <2>3, <2>4 DEF Received, Waiting
  <2>8. OwnerOK'
    BY <1>11, <2>3, <2>7 DEF IInv, OwnerOK
  <2>9. OnceOK' /\ OncePerConnection'
    <3>1. OnceOK'
      BY <1>1, <1>5, <1>11, <2>3 DEF IInv, OnceOK
    <3>2. OncePerConnection'
      BY ONLY IInv, <1>11, <2>3 DEF IInv, OncePerConnection, IsLogin
    <3> QED
      BY <3>1, <3>2
  <2>10. MaskIsOfSocket' /\ ChoiceOK'
    BY <1>1, <1>9, <1>11, <2>3, <2>4 DEF IInv, MaskIsOfSocket, ChoiceOK, Ticked
  <2>11. LoginOK'
    BY <1>1, <1>5, <1>11, <2>3 DEF IInv, LoginOK, IsLogin, NoneOf
  <2> QED
    BY <1>1, <1>8, <2>5, <2>6, <2>8, <2>9, <2>10, <2>11, FrameFacts DEF IInv
<1> QED
  BY <1>10, <1>11

(* The sequence without one of its elements.                               *)
LEMMA RemoveFacts ==
  ASSUME NEW S, NEW s \in Seq(S), NEW n \in 1..Len(s), NEW w, w = RemoveAt(s, n)
  PROVE  /\ w \in Seq(S) /\ Len(w) = Len(s) - 1 /\ Len(s) \in Nat
         /\ \A k \in 1..Len(w) : w[k] = IF k < n THEN s[k] ELSE s[k + 1]
<1>1. n \in Nat /\ Len(s) \in Nat /\ 1 <= n /\ n <= Len(s) /\ \A i \in 1..Len(s) : s[i] \in S
  OBVIOUS
<1>2. PICK a, b : a = SubSeq(s, 1, n - 1) /\ b = SubSeq(s, n + 1, Len(s))
  OBVIOUS
<1>3. /\ a \in Seq(S) /\ Len(a) = n - 1
      /\ \A i \in 1..(n - 1) : a[i] = s[i]
  <2>1. n - 1 \in Int /\ 1 \in Int /\ \A i \in 1..(n - 1) : s[i] \in S
    BY <1>1
  <2>2. /\ a \in Seq(S) /\ Len(a) = IF 1 <= n - 1 THEN (n - 1) - 1 + 1 ELSE 0
        /\ \A i \in 1..((n - 1) - 1 + 1) : a[i] = s[1 + i - 1]
    BY <1>2, <2>1, SubSeqProperties
  <2>3. (n - 1) - 1 + 1 = n - 1 /\ \A i \in 1..(n - 1) : 1 + i - 1 = i
    BY <1>1
  <2> QED
    BY <1>1, <2>2, <2>3
<1>4. /\ b \in Seq(S) /\ Len(b) = Len(s) - n
      /\ \A i \in 1..(Len(s) - n) : b[i] = s[i + n]
  <2>1. n + 1 \in Int /\ Len(s) \in Int /\ \A i \in (n + 1)..Len(s) : s[i] \in S
    BY <1>1
  <2>2. /\ b \in Seq(S) /\ Len(b) = IF n + 1 <= Len(s) THEN Len(s) - (n + 1) + 1 ELSE 0
        /\ \A i \in 1..(Len(s) - (n + 1) + 1) : b[i] = s[(n + 1) + i - 1]
    BY <1>2, <2>1, SubSeqProperties
  <2>3. Len(s) - (n + 1) + 1 = Len(s) - n /\ \A i \in 1..(Len(s) - n) : (n + 1) + i - 1 = i + n
    BY <1>1
  <2>4. Len(b) = Len(s) - n
    <3>1. Len(b) = IF n + 1 <= Len(s) THEN Len(s) - (n + 1) + 1 ELSE 0
      BY <2>2
    <3>2. n \in Nat /\ Len(s) \in Nat /\ n <= Len(s)
      BY <1>1
    <3> QED
      BY ONLY <3>1, <3>2
  <2>5. ASSUME NEW i \in 1..(Len(s) - n) PROVE b[i] = s[i + n]
    <3>1. b[i] = s[(n + 1) + i - 1] /\ (n + 1) + i - 1 = i + n
      BY <2>2, <2>3
    <3> QED
      BY <3>1
  <2> QED
    BY <2>2, <2>4, <2>5
<1>5. w = a \o b
  BY <1>2 DEF RemoveAt
<1>6. /\ w \in Seq(S) /\ Len(w) = Len(a) + Len(b)
      /\ \A i \in 1..(Len(a) + Len(b)) : w[i] = IF i <= Len(a) THEN a[i] ELSE b[i - Len(a)]
  <2>1. a \in Seq(S) /\ b \in Seq(S)
    BY <1>3, <1>4
  <2> QED
    BY ONLY <1>5, <2>1, ConcatProperties
<1>7. Len(w) = Len(s) - 1
  BY <1>1, <1>3, <1>4, <1>6
<1>8. ASSUME NEW k \in 1..Len(w) PROVE w[k] = IF k < n THEN s[k] ELSE s[k + 1]
  <2>1. CASE k < n
    <3>1. k \in 1..(n - 1) /\ k \in 1..(Len(a) + Len(b)) /\ k <= Len(a)
      BY <1>1, <1>3, <1>4, <1>7, <2>1
    <3> QED
      BY <1>3, <1>6, <2>1, <3>1
  <2>2. CASE ~(k < n)
    <3>1. /\ k \in 1..(Len(a) + Len(b)) /\ ~(k <= Len(a))
          /\ k - Len(a) \in 1..(Len(s) - n) /\ (k - Len(a)) + n = k + 1
      BY <1>1, <1>3, <1>4, <1>7, <2>2
    <3> QED
      BY <1>4, <1>6, <2>2, <3>1
  <2> QED
    BY <2>1, <2>2
<1> QED
  BY <1>1, <1>6, <1>7, <1>8

(* These are all the tabs but that with the id.                            *)
AllBut(w, id) ==
  /\ w \in Seq(Tabs) /\ Len(w) = Len(tabs) - 1 /\ Len(tabs) \in Nat
  /\ \A k \in 1..Len(w) : \E i \in 1..Len(tabs) : w[k] = tabs[i] /\ tabs[i].id # id
  /\ \A i \in 1..Len(tabs) : tabs[i].id # id => \E k \in 1..Len(w) : w[k] = tabs[i]
  /\ \A j, k \in 1..Len(w) : w[j].id = w[k].id => j = k

(* A list without one of its tabs has all the others.                      *)
LEMMA WithoutFacts ==
  ASSUME TypeOK, TabsOK, NEW id \in TabIds(tabs), NEW w, w = Without(id)
  PROVE  AllBut(w, id)
<1>1. PICK n : n = At(id)
  OBVIOUS
<1>2. /\ n \in 1..Len(tabs) /\ tabs[n].id = id
      /\ \A i, j \in 1..Len(tabs) : tabs[i].id = tabs[j].id => i = j
  BY <1>1, AtFacts DEF TabsOK
<1>3. tabs \in Seq(Tabs) /\ w = RemoveAt(tabs, n)
  BY <1>1 DEF TypeOK, Without
<1>4. /\ w \in Seq(Tabs) /\ Len(w) = Len(tabs) - 1 /\ Len(tabs) \in Nat
      /\ \A k \in 1..Len(w) : w[k] = IF k < n THEN tabs[k] ELSE tabs[k + 1]
  BY ONLY SMTT(30), <1>2, <1>3, RemoveFacts
<1>5. ASSUME NEW k \in 1..Len(w)
      PROVE  \E i \in 1..Len(tabs) : w[k] = tabs[i] /\ tabs[i].id # id
  <2>1. CASE k < n
    BY SMTT(30), <1>2, <1>4, <2>1
  <2>2. CASE ~(k < n)
    <3>1. k + 1 \in 1..Len(tabs) /\ k + 1 # n /\ w[k] = tabs[k + 1]
      BY <1>2, <1>4, <2>2
    <3> QED
      BY <1>2, <3>1
  <2> QED
    BY <2>1, <2>2
<1>6. ASSUME NEW i \in 1..Len(tabs), tabs[i].id # id
      PROVE  \E k \in 1..Len(w) : w[k] = tabs[i]
  <2>1. i # n
    BY <1>2, <1>6
  <2>2. CASE i < n
    BY <1>2, <1>4, <2>2
  <2>3. CASE i > n
    <3>1. i - 1 \in 1..Len(w) /\ ~(i - 1 < n) /\ (i - 1) + 1 = i
      BY <1>2, <1>4, <2>3
    <3> QED
      BY <1>4, <3>1
  <2> QED
    BY <1>2, <2>1, <2>2, <2>3
<1>7. ASSUME NEW j \in 1..Len(w), NEW k \in 1..Len(w), w[j].id = w[k].id
      PROVE  j = k
  <2>1. PICK a \in 1..Len(tabs) : a = IF j < n THEN j ELSE j + 1
    BY <1>2, <1>4
  <2>2. PICK b \in 1..Len(tabs) : b = IF k < n THEN k ELSE k + 1
    BY <1>2, <1>4
  <2>3. w[j] = tabs[a] /\ w[k] = tabs[b]
    BY <1>4, <2>1, <2>2
  <2>4. a = b
    BY <1>2, <1>7, <2>3
  <2> QED
    BY <1>2, <1>4, <2>1, <2>2, <2>4
<1> QED
  BY <1>4, <1>5, <1>6, <1>7 DEF AllBut

(* The tabs that are left are those there were, and perhaps a new one.     *)
LEMMA ClosedOK ==
  ASSUME IInv, Settled, AnyConnected, TypeOK', TabsOK',
         \A k \in 1..Len(tabs') :
           tabs'[k].id # shown.key \/ \E i \in 1..Len(tabs) : tabs'[k] = tabs[i],
         UNCHANGED <<echoMask, shown, flags, timers, inject, sock, choice, stored>>
  PROVE  IInv'
<1>1. /\ TypeOK /\ TabsOK /\ ShownOK /\ shown.key = shown.id
      /\ \A i \in 1..Len(tabs) :
           tabs[i].id = shown.key => shown.prof = tabs[i].prof /\ shown.on = tabs[i].on
  BY ActedFacts
<1>2. ShownOK'
  BY <1>1 DEF ShownOK
<1>3. OwnerOK'
  <2>1. Received' = Received /\ Waiting' = Waiting
    BY DEF Received, Waiting
  <2> QED
    BY <1>1, <2>1 DEF IInv, OwnerOK
<1>4. OnceOK'
  <2>1. sock # None => \A i \in 1..Len(tabs) : tabs[i].id = shown.key => tabs[i].on
    BY <1>1 DEF ShownOK
  <2> QED
    BY <2>1 DEF IInv, OnceOK
<1>5. ChoiceOK'
  BY DEF IInv, ChoiceOK, Ticked
<1>6. LoginOK'
  BY DEF IInv, LoginOK, IsLogin, NoneOf
<1> QED
  BY <1>2, <1>3, <1>4, <1>5, <1>6, FrameFacts DEF IInv

(* Closing a tab keeps the invariant.                                      *)
LEMMA CloseTabOK ==
  ASSUME IInv, NEW id \in TabIds(tabs), CloseTab(id)
  PROVE  IInv'
<1>1. /\ AnyConnected /\ Settled
      /\ UNCHANGED <<tabId, echoMask, shown, flags, timers, inject, sock, vault, active, choice,
                     stored>>
  BY DEF CloseTab, Act, trust
<1>2. /\ TypeOK /\ TabsOK /\ ShownOK /\ pick = None
      /\ shown.key = tabId /\ shown.id = tabId /\ tabId \in TabIds(tabs)
  BY <1>1, ActedFacts
<1>3. /\ tabId \in Nat /\ counts.tabs \in Nat /\ tabId <= counts.tabs
      /\ shown.key <= counts.tabs
  BY <1>2 DEF TypeOK, TabsOK
<1>4. CASE Len(tabs) = 1
  <2>1. Act(1)
    BY <1>4 DEF CloseTab
  <2>2. PICK n : n = counts.tabs + 1
    OBVIOUS
  <2>3. counts'.tabs = n /\ counts' \in [tabs : Nat, opens : Nat, acts : Nat, lines : Nat]
    BY <1>2, <2>1, <2>2, ActFacts
  <2>4. n \in Nat /\ n > counts.tabs
    BY <1>3, <2>2
  <2>5. PICK t : t = NewTab(n, active)
    OBVIOUS
  <2>6. t \in Tabs /\ t.id = n
    BY <1>2, <2>4, <2>5 DEF NewTab, Tabs, Codes, TypeOK
  <2>7. tabs' = <<t>> /\ pick' = n
    BY <1>4, <2>3, <2>5 DEF CloseTab
  <2>8. /\ tabs' \in Seq(Tabs) /\ tabs' # <<>> /\ Len(tabs') = 1
        /\ \A k \in 1..Len(tabs') : k = 1 /\ tabs'[k] = t
    BY <2>6, <2>7
  <2>9. TypeOK'
    BY <1>1, <1>2, <2>3, <2>4, <2>7, <2>8 DEF TypeOK
  <2>10. TabIds(tabs') = {n}
    BY <2>6, <2>8 DEF TabIds
  <2>11. TabsOK'
    <3>1. \A i, j \in 1..Len(tabs') : tabs'[i].id = tabs'[j].id => i = j
      BY <2>8
    <3>2. \A i \in 1..Len(tabs') : tabs'[i].id <= counts'.tabs
      BY <2>3, <2>4, <2>6, <2>8
    <3>3. tabId' <= counts'.tabs /\ shown'.key <= counts'.tabs /\ tabId # n
      BY <1>1, <1>2, <1>3, <2>3, <2>4
    <3>4. pick' # None /\ pick' \in TabIds(tabs') /\ tabId' \notin TabIds(tabs')
      BY <1>1, <2>4, <2>7, <2>10, <3>3, ShellAssumption
    <3> QED
      BY <3>1, <3>2, <3>3, <3>4 DEF TabsOK
  <2>12. \A k \in 1..Len(tabs') : tabs'[k].id # shown.key
    BY <1>2, <1>3, <2>4, <2>6, <2>8
  <2> QED
    BY <1>1, <2>9, <2>11, <2>12, ClosedOK
<1>5. CASE Len(tabs) # 1
  <2>1. PICK w : w = Without(id)
    OBVIOUS
  <2>2. tabs' = w /\ pick' = Fallback(id) /\ Act(0)
    BY <1>5, <2>1 DEF CloseTab
  <2>3. AllBut(w, id)
    BY <1>2, <2>1, WithoutFacts
  <2>4. Len(w) \in Nat /\ Len(w) >= 1 /\ w # <<>>
    BY <1>2, <1>5, <2>3, TabFacts DEF AllBut
  <2>5. /\ counts'.tabs = counts.tabs
        /\ counts' \in [tabs : Nat, opens : Nat, acts : Nat, lines : Nat]
    BY <2>2, ActKeeps
  <2>6. /\ pick' = None => tabId \in TabIds(w)
        /\ pick' # None => pick' \in TabIds(w) /\ tabId \notin TabIds(w)
        /\ pick' \in Nat \cup {None}
    <3>1. CASE shown.key # id
      <4>1. pick' = None
        BY <2>2, <3>1 DEF Fallback
      <4>2. PICK i \in 1..Len(tabs) : tabs[i].id = tabId
        BY <1>2 DEF TabIds
      <4>3. PICK k \in 1..Len(w) : w[k] = tabs[i]
        BY <1>2, <2>3, <3>1, <4>2 DEF AllBut
      <4> QED
        BY <4>1, <4>2, <4>3 DEF TabIds
    <3>2. CASE shown.key = id
      <4>1. PICK n : n = At(id)
        OBVIOUS
      <4>2. n \in 1..Len(tabs)
        BY <1>2, <4>1, AtFacts
      <4>3. PICK k \in 1..Len(w) : k = IF n = 1 THEN 1 ELSE n - 1
        BY <2>3, <2>4, <4>2 DEF AllBut
      <4>4. pick' = w[k].id
        BY <2>1, <2>2, <3>2, <4>1, <4>3 DEF Fallback
      <4>5. w[k] \in Tabs
        BY <2>3 DEF AllBut
      <4>6. pick' \in Nat /\ pick' \in TabIds(w)
        BY <4>4, <4>5 DEF Tabs, TabIds
      <4>7. tabId \notin TabIds(w)
        BY <1>2, <2>3, <3>2 DEF AllBut, TabIds
      <4> QED
        BY <4>6, <4>7, ShellAssumption
    <3> QED
      BY <3>1, <3>2
  <2>7. TypeOK'
    BY <1>1, <1>2, <2>2, <2>3, <2>4, <2>5, <2>6 DEF AllBut, TypeOK
  <2>8. TabsOK'
    <3>1. \A k \in 1..Len(tabs') : tabs'[k].id <= counts'.tabs
      BY <1>2, <2>2, <2>3, <2>5 DEF AllBut, TabsOK
    <3> QED
      BY <1>1, <1>3, <2>2, <2>3, <2>5, <2>6, <3>1 DEF AllBut, TabsOK
  <2> QED
    <3>1. \A k \in 1..Len(tabs') : \E i \in 1..Len(tabs) : tabs'[k] = tabs[i]
      BY <2>2, <2>3 DEF AllBut
    <3> QED
      BY <1>1, <2>7, <2>8, <3>1, ClosedOK
<1> QED
  BY <1>4, <1>5

-----------------------------------------------------------------------------
(* A render.                                                               *)
LEMMA TimersAfterFacts ==
  ASSUME TypeOK, TimersOK, NEW now \in Views, NEW sent
  PROVE  /\ TimersAfter(now, sent) \in
              [account : Timers \cup {None}, password : Timers \cup {None}]
         /\ TimersAfter(now, sent).account # None =>
              now.on /\ TimersAfter(now, sent).account.prof = now.prof
         /\ TimersAfter(now, sent).password # None =>
              now.on /\ TimersAfter(now, sent).password.prof = now.prof
         /\ now.code # "connected" =>
              /\ TimersAfter(now, sent).account \in {timers.account, None}
              /\ TimersAfter(now, sent).password \in {timers.password, None}
<1>1. PICK a, p, t :
        /\ t = [tab |-> now.id, prof |-> now.prof]
        /\ a = IF ~AccountRerun(now) THEN timers.account
               ELSE IF MayLogin(now) /\ ~sent.account THEN t ELSE None
        /\ p = IF ~PasswordRerun(now) THEN timers.password
               ELSE IF MayLogin(now) /\ now.mask /\ ~sent.password THEN t ELSE None
  OBVIOUS
<1>2. TimersAfter(now, sent) = [account |-> a, password |-> p]
  BY <1>1 DEF TimersAfter
<1>3. t \in Timers /\ t.prof = now.prof
  BY <1>1 DEF Views, Timers
<1>4. timers.account \in Timers \cup {None} /\ timers.password \in Timers \cup {None}
  BY DEF TypeOK
<1>5. MayLogin(now) => now.on
  BY DEF MayLogin
<1>6. ~AccountRerun(now) => now.on = shown.on /\ now.prof = shown.prof
  BY DEF AccountRerun, AccountDependsOn
<1>7. ~PasswordRerun(now) => now.on = shown.on /\ now.prof = shown.prof
  BY DEF PasswordRerun
<1>8. a \in Timers \cup {None} /\ (a # None => now.on /\ a.prof = now.prof)
  BY <1>1, <1>3, <1>4, <1>5, <1>6 DEF TimersOK
<1>9. p \in Timers \cup {None} /\ (p # None => now.on /\ p.prof = now.prof)
  BY <1>1, <1>3, <1>4, <1>5, <1>7 DEF TimersOK
<1>10. now.code # "connected" => a \in {timers.account, None} /\ p \in {timers.password, None}
  BY <1>1 DEF MayLogin
<1> QED
  BY <1>2, <1>8, <1>9, <1>10

(* The empty sequence is one of lines.                                     *)
LEMMA NoLines == <<>> \in Seq(Lines) /\ 1..Len(<<>>) = {}
OBVIOUS

(* The terminal of another tab, or of one that has just been connected.    *)
LEMMA BornOK ==
  ASSUME IInv, NEW now, now = View, now.on,
         shown' = now, sock' = NewSocket(now), inject' = None, echoMask' = FALSE,
         tabs' = SetTabStatus(now.key, "connecting"), flags' = NoFlags,
         timers' \in [account : Timers \cup {None}, password : Timers \cup {None}], TimersOK',
         vault' \in [boot : BOOLEAN, open : BOOLEAN, bumped : BOOLEAN],
         counts'.tabs = counts.tabs,
         counts' \in [tabs : Nat, opens : Nat, acts : Nat, lines : Nat],
         UNCHANGED <<tabId, pick, active, choice, stored>>
  PROVE  IInv'
<1>1. TypeOK /\ TabsOK
  BY DEF IInv
<1>2. /\ now \in Views /\ now.key = tabId /\ AnyConnected
      /\ now.id # now.key => now.key \notin TabIds(tabs)
      /\ \A i \in 1..Len(tabs) : tabs[i].id = tabId => now.id = tabId /\ now.prof = tabs[i].prof
  BY <1>1, ViewFacts
<1>3. PICK key : key = now.key
  OBVIOUS
<1>4. TypeOK /\ "connecting" \in Codes /\ tabs' = Having(key, "code", "connecting")
  BY <1>1, <1>3 DEF SetTabStatus, Codes
<1>5. /\ tabs' \in Seq(Tabs) /\ tabs' # <<>> /\ Len(tabs') = Len(tabs)
      /\ \A i \in 1..Len(tabs) : /\ tabs'[i].id = tabs[i].id /\ tabs'[i].prof = tabs[i].prof
                                 /\ tabs'[i].on = tabs[i].on
                                 /\ tabs[i].id = key => tabs'[i].code = "connecting"
  BY ONLY <1>4, HavingCode
<1>6. PICK out \in Seq(Lines) :
        /\ out = IF inject = None THEN <<>> ELSE <<[inject EXCEPT !.queued = TRUE]>>
        /\ \A i \in 1..Len(out) : out[i].queued /\ out[i].kind = "walk"
  <2>1. CASE inject = None
    <3>1. <<>> \in Seq(Lines) /\ 1..Len(<<>>) = {}
      OBVIOUS
    <3> QED
      BY <2>1, <3>1
  <2>2. CASE inject # None
    <3>1. inject \in Lines /\ inject.kind = "walk"
      BY <2>2 DEF IInv, TypeOK, TimersOK
    <3>2. PICK q : q = [inject EXCEPT !.queued = TRUE]
      OBVIOUS
    <3>3. q \in Lines /\ q.queued /\ q.kind = "walk"
      BY <3>1, <3>2 DEF Lines
    <3>4. <<q>> \in Seq(Lines) /\ Len(<<q>>) = 1 /\ <<q>>[1] = q
      BY <3>3
    <3>5. \A i \in 1..Len(<<q>>) : <<q>>[i] = q
      BY <3>4
    <3> QED
      BY <2>2, <3>2, <3>3, <3>4, <3>5
  <2> QED
    BY <2>1, <2>2
<1>7. PICK url \in Urls \cup {""} : url = IF choice.mode = "local" THEN "" ELSE choice.url
  BY DEF IInv, TypeOK, TrustSettings
<1>8. sock' = [tab |-> now.id, prof |-> None, code |-> "connecting", mask |-> FALSE,
               out |-> out, got |-> <<>>, changed |-> FALSE, url |-> url]
  BY <1>6, <1>7 DEF NewSocket
<1>9. sock' \in Sockets
  <2>1. <<>> \in Seq(Lines)
    BY ONLY NoLines
  <2>2. now.id \in Nat
    BY ONLY <1>2 DEF Views
  <2>3. out \in Seq(Lines) /\ url \in Urls \cup {""}
    OBVIOUS
  <2> QED
    BY ONLY <1>4, <1>8, <2>1, <2>2, <2>3 DEF Sockets
<1>10. /\ sock'.tab = now.id /\ sock'.prof = None /\ sock'.code = "connecting"
       /\ sock'.out = out /\ sock'.got = <<>> /\ sock'.url = url
  BY ONLY <1>8
<1>11. sock' # None
  BY <1>9, ShellAssumption
<1>12. TypeOK'
  BY <1>1, <1>2, <1>5, <1>9 DEF TypeOK, NoFlags
<1>13. TabIds(tabs') = TabIds(tabs)
  BY ONLY <1>5 DEF TabIds
<1>14. TabsOK'
  <2>1. shown'.key = tabId /\ tabId' = tabId /\ pick' = pick /\ counts'.tabs = counts.tabs
    BY <1>2
  <2> QED
    BY ONLY <1>1, <1>5, <1>13, <2>1 DEF TabsOK
<1>15. ShownOK'
  BY <1>2, <1>10, <1>11, <1>13 DEF ShownOK
<1>16. \A line \in Received' \cup Waiting' : line.kind = "walk"
  <2>1. 1..Len(sock'.got) = {}
    <3>1. sock'.got = <<>>
      BY <1>10
    <3> QED
      BY ONLY <3>1, NoLines
  <2> QED
    BY ONLY ZenonT(60), <1>6, <1>10, <1>11, <2>1 DEF Received, Waiting
<1>17. OwnerOK'
  <2>1. \A i \in 1..Len(tabs') : tabs'[i].id = shown'.key => tabs'[i].prof = shown'.prof
    <3>1. shown' = now
      OBVIOUS
    <3> QED
      BY ONLY <1>2, <1>5, <3>1
  <2> QED
    BY <1>10, <1>16, <2>1 DEF OwnerOK, IsLogin
<1>18. OnceOK'
  BY <1>6, <1>10 DEF OnceOK
<1>19. OncePerConnection'
  <2>1. 1..Len(sock'.got) = {}
    <3>1. sock'.got = <<>>
      BY <1>10
    <3> QED
      BY ONLY <3>1, NoLines
  <2> QED
    BY <2>1 DEF OncePerConnection
<1>20. MaskIsOfSocket'
  BY DEF MaskIsOfSocket
<1>21. ChoiceOK'
  BY <1>2, <1>7, <1>10 DEF IInv, ChoiceOK, Ticked
<1>22. LoginOK'
  <2>1. shown'.key = key
    BY <1>3
  <2>2. NoneOf("account", sock'.out) /\ NoneOf("password", sock'.out)
    BY ONLY <1>6, <1>10 DEF NoneOf
  <2>3. \A i \in 1..Len(sock'.out) : ~IsLogin(sock'.out[i])
    BY ONLY <1>6, <1>10 DEF IsLogin
  <2> QED
    BY ONLY <1>5, <1>10, <2>1, <2>2, <2>3 DEF LoginOK, IsLogin, NoneOf
<1> QED
  BY <1>12, <1>14, <1>15, <1>17, <1>18, <1>19, <1>20, <1>21, <1>22 DEF IInv

(* A render with all its effects keeps the invariant.                      *)
LEMMA RenderOK ==
  ASSUME IInv, Render
  PROVE  IInv'
<1>1. PICK now : now = View
  OBVIOUS
<1>2. PICK gone \in BOOLEAN : gone = Unmounts(now)
  BY DEF Unmounts
<1>3. PICK born \in BOOLEAN : born = (now.on /\ (sock = None \/ gone))
  OBVIOUS
<1>4. /\ shown' = now /\ vault' = [vault EXCEPT !.bumped = FALSE]
      /\ timers' = TimersAfter(now, flags')
      /\ UNCHANGED <<tabId, pick, active, choice, stored>>
  BY <1>1 DEF Render, trust
<1>5. echoMask' = IF gone \/ born THEN FALSE ELSE echoMask
  BY <1>1, <1>2, <1>3 DEF Render, MaskAtUnmount
<1>6. /\ TypeOK /\ TabsOK /\ ShownOK /\ TimersOK
  BY DEF IInv
<1>7. /\ now \in Views /\ now.key = tabId
      /\ now.id # now.key => now.key \notin TabIds(tabs)
      /\ now.on => AnyConnected
      /\ \A i \in 1..Len(tabs) :
           tabs[i].id = tabId => /\ now.id = tabId /\ now.prof = tabs[i].prof
                                 /\ now.on = tabs[i].on /\ now.code = tabs[i].code
  BY <1>1, <1>6, ViewFacts
<1>8. /\ timers' \in [account : Timers \cup {None}, password : Timers \cup {None}]
      /\ timers'.account # None => now.on /\ timers'.account.prof = now.prof
      /\ timers'.password # None => now.on /\ timers'.password.prof = now.prof
      /\ now.code # "connected" => /\ timers'.account \in {timers.account, None}
                                   /\ timers'.password \in {timers.password, None}
  BY <1>4, <1>6, <1>7, TimersAfterFacts
<1>9. vault' \in [boot : BOOLEAN, open : BOOLEAN, bumped : BOOLEAN]
  BY <1>4, <1>6 DEF TypeOK
<1>10. CASE born
  <2>1. /\ sock' = NewSocket(now) /\ tabs' = SetTabStatus(now.key, "connecting")
        /\ flags' = FlagsAfter("connecting") /\ inject' = None
        /\ counts' = [counts EXCEPT !.opens = @ + 1]
    BY <1>1, <1>2, <1>3, <1>10 DEF Render
  <2>2. flags' = NoFlags
    BY <2>1 DEF FlagsAfter
  <2>3. /\ counts'.tabs = counts.tabs
        /\ counts' \in [tabs : Nat, opens : Nat, acts : Nat, lines : Nat]
    BY <2>1, OpensCount
  <2>4. TimersOK'
    BY <1>4, <1>8, <2>1 DEF TimersOK
  <2>5. now.on /\ echoMask' = FALSE
    BY <1>3, <1>5, <1>10
  <2> QED
    BY <1>1, <1>4, <1>8, <1>9, <2>1, <2>2, <2>3, <2>4, <2>5, BornOK
<1>11. CASE ~born
  <2>1. sock' = IF gone THEN None ELSE sock
    BY <1>1, <1>2, <1>3, <1>11 DEF Render
  <2>2. UNCHANGED <<tabs, flags, inject, counts>>
    BY <1>1, <1>2, <1>3, <1>11 DEF Render
  <2>3. TypeOK'
    BY <1>4, <1>5, <1>6, <1>7, <1>8, <1>9, <2>1, <2>2 DEF TypeOK
  <2>4. TabsOK'
    BY <1>4, <1>6, <1>7, <2>2 DEF TabsOK, TabIds
  <2>5. TimersOK'
    BY <1>4, <1>6, <1>8, <2>2 DEF TimersOK
  <2>6. AnyConnected' = AnyConnected
    BY <2>2 DEF AnyConnected
  <2>7. CASE sock' = None
    <3>1. ~now.on
      BY <1>2, <1>3, <1>11, <2>1, <2>7 DEF Unmounts
    <3>2. ShownOK'
      BY <1>4, <1>7, <2>2, <2>7, <3>1 DEF ShownOK, TabIds
    <3>3. OwnerOK' /\ OnceOK' /\ LoginOK' /\ OncePerConnection'
      BY <2>7 DEF OwnerOK, OnceOK, LoginOK, OncePerConnection
    <3>4. MaskIsOfSocket'
      <4>1. sock = None => ~echoMask
        BY DEF IInv, MaskIsOfSocket
      <4> QED
        BY <1>5, <2>1, <2>7, <4>1 DEF MaskIsOfSocket
    <3>5. ChoiceOK'
      BY <1>4, <2>6, <2>7 DEF IInv, ChoiceOK, Ticked
    <3> QED
      BY <2>3, <2>4, <2>5, <3>2, <3>3, <3>4, <3>5 DEF IInv
  <2>8. CASE sock' # None
    <3>1. ~gone /\ sock' = sock /\ sock # None
      BY <2>1, <2>8
    <3>2. now.on /\ now.key = shown.key /\ echoMask' = echoMask
      BY <1>2, <1>3, <1>5, <1>11, <3>1 DEF Unmounts
    <3>3. ASSUME now.id = now.key, now.key \in TabIds(tabs)
          PROVE  shown.id = shown.key
      BY <1>6, <3>2, <3>3 DEF ShownOK
    <3>4. now.id = now.key => now.key \in TabIds(tabs)
      <4>1. PICK n : n = At(tabId)
        OBVIOUS
      <4>2. n \in 1..Len(tabs)
        BY <1>6, <4>1, AtFacts
      <4>3. now.id = tabs[n].id
        BY <1>1, <4>1 DEF View
      <4> QED
        BY <4>2, <4>3 DEF TabIds
    <3>5. ShownOK'
      BY <1>4, <1>6, <1>7, <2>2, <3>1, <3>2, <3>3, <3>4 DEF ShownOK, TabIds
    <3>6. ASSUME ~sock.changed, now.id = now.key
          PROVE  now.prof = shown.prof
      <4>1. PICK i \in 1..Len(tabs) : tabs[i].id = now.key
        BY <3>4, <3>6 DEF TabIds
      <4>2. tabs[i].prof = shown.prof
        BY <3>1, <3>2, <3>3, <3>4, <3>6, <4>1 DEF IInv, OwnerOK
      <4> QED
        BY <1>7, <4>1, <4>2
    <3>7. OwnerOK'
      <4>1. Received' = Received /\ Waiting' = Waiting
        BY <3>1 DEF Received, Waiting
      <4>2. ASSUME NEW line \in Received \cup Waiting
            PROVE  /\ line.kind = "command" => line.of = sock.tab
                   /\ IsLogin(line) /\ ~sock.changed =>
                        IF sock.prof # None THEN line.of = sock.prof
                        ELSE now.id = now.key => line.of = now.prof
        BY <3>1, <3>3, <3>4, <3>6, <4>2 DEF IInv, OwnerOK
      <4>3. ~sock.changed /\ now.id = now.key =>
              /\ sock.prof # None => sock.prof = now.prof
              /\ \A i \in 1..Len(tabs) : tabs[i].id = now.key => tabs[i].prof = now.prof
        BY <3>1, <3>2, <3>3, <3>4, <3>6 DEF IInv, OwnerOK
      <4> QED
        BY <1>4, <2>2, <3>1, <4>1, <4>2, <4>3 DEF OwnerOK, IsLogin
    <3>8. OnceOK'
      BY <1>4, <2>2, <3>1, <3>2 DEF IInv, OnceOK
    <3>9. OncePerConnection'
      BY <3>1, FrameFacts DEF IInv
    <3>10. MaskIsOfSocket' /\ ChoiceOK'
      BY <1>4, <2>6, <3>1, <3>2 DEF IInv, MaskIsOfSocket, ChoiceOK, Ticked
    <3>11. ASSUME now.id = now.key
           PROVE  /\ \A i \in 1..Len(tabs) :
                       tabs[i].id = now.key /\ tabs[i].on => tabs[i].code = sock.code
                  /\ timers'.account # None => NoneOf("account", sock.out)
                  /\ timers'.password # None => NoneOf("password", sock.out)
      <4>1. shown.id = shown.key
        BY <3>3, <3>4, <3>11
      <4>2. PICK i \in 1..Len(tabs) : tabs[i].id = now.key
        BY <3>4, <3>11 DEF TabIds
      <4>3. now.code = sock.code
        BY <1>7, <3>1, <3>2, <4>1, <4>2 DEF IInv, LoginOK
      <4>4. CASE now.code = "connected"
        <5>1. sock.out = <<>> /\ 1..Len(sock.out) = {}
          BY <3>1, <4>3, <4>4, NoLines DEF IInv, LoginOK
        <5> QED
          BY <3>1, <3>2, <4>1, <5>1 DEF IInv, LoginOK, NoneOf
      <4>5. CASE now.code # "connected"
        BY <1>8, <3>1, <3>2, <4>1, <4>5 DEF IInv, LoginOK
      <4> QED
        BY <4>4, <4>5
    <3>12. LoginOK'
      BY <1>4, <2>2, <3>1, <3>11 DEF IInv, LoginOK, IsLogin, NoneOf
    <3> QED
      BY <2>3, <2>4, <2>5, <3>5, <3>7, <3>8, <3>9, <3>10, <3>12 DEF IInv
  <2> QED
    BY <2>7, <2>8
<1> QED
  BY <1>10, <1>11

-----------------------------------------------------------------------------
(* Every step keeps the invariant.                                         *)
LEMMA NextOK ==
  ASSUME IInv, [Next]_vars
  PROVE  IInv'
<1>1. CASE UNCHANGED vars
  <2>1. TypeOK'
    BY <1>1 DEF vars, IInv, TypeOK
  <2>2. UNCHANGED <<tabs, tabId, pick, echoMask, shown, flags, timers, inject, sock, choice,
                    stored, counts>>
    BY <1>1 DEF vars
  <2> QED
    BY <2>1, <2>2, FrameFacts DEF IInv
<1>2. CASE User
  BY <1>2, AddTabOK, ConnectTabOK, DisconnectTabOK, SubmitCmdOK, WalkDirOK, CloseTabOK,
     SelectTabOK, SelectProfileOK, OnTrustModeOK, OnCustomWsOK, OnCustomAckOK, SetVaultOK
  DEF User
<1>3. CASE Render \/ PickTab \/ AccountTimer \/ PasswordTimer
  BY <1>3, RenderOK, PickTabOK, AccountTimerOK, PasswordTimerOK
<1>4. CASE Opens \/ Ready \/ Drops \/ Retries
  BY <1>4, OpensOK, ReadyOK, DropsOK, RetriesOK
<1>5. CASE \E on \in BOOLEAN : Echo(on) \/ BootDone(on)
  BY <1>5, EchoOK, BootDoneOK
<1>6. CASE OtherWindow \/ Reload
  BY <1>6, OtherWindowOK, ReloadOK
<1> QED
  BY <1>1, <1>2, <1>3, <1>4, <1>5, <1>6 DEF Next

(* Everything the parts above say of tabs, timers, lines and settings      *)
(* holds however renders, timers, clicks and the socket are interleaved.   *)
THEOREM ShellInvariant == Spec => []IInv
<1>1. Init => IInv
  BY InitOK
<1>2. IInv /\ [Next]_vars => IInv'
  BY NextOK
<1> QED
  BY <1>1, <1>2, PTL DEF Spec

(* No line reaches, or waits for, the MUD of another tab or profile than   *)
(* the one it was typed in or logs in (TerminalHost's key={tabId}).        *)
THEOREM LinesAreOfTheirTab == Spec => []LinesStayOnTab
<1>1. IInv => LinesStayOnTab
  <2>1. ASSUME IInv, NEW line \in Received \cup Waiting
        PROVE  /\ line.kind = "command" => line.of = sock.tab
               /\ IsLogin(line) /\ sock.prof # None /\ ~sock.changed => line.of = sock.prof
    <3>1. sock # None
      BY <2>1 DEF Received, Waiting
    <3> QED
      BY <2>1, <3>1 DEF IInv, OwnerOK
  <2> QED
    BY <2>1 DEF LinesStayOnTab
<1> QED
  BY <1>1, ShellInvariant, PTL

(* A hop is sent account and password once (autoLoginRef), whenever the    *)
(* timers of the two effects fire; a second time only behind a line that a *)
(* timer has queued between the drop of the hop before and the render that *)
(* clears the timer.  So App.tsx:749, "once per wire hop", fails of such a *)
(* line alone, and two is the most.                                        *)
THEOREM LogsInOnce == Spec => []OncePerConnection
<1>1. IInv => OncePerConnection
  BY DEF IInv
<1> QED
  BY <1>1, ShellInvariant, PTL

(* Password mode is that of the mounted terminal's socket (setEchoMask).   *)
THEOREM MaskIsCurrent == Spec => []MaskIsOfSocket
<1>1. IInv => MaskIsOfSocket
  BY DEF IInv
<1> QED
  BY <1>1, ShellInvariant, PTL

(* No socket goes to a custom endpoint that was not acknowledged, whatever *)
(* was stored before, is changed in the gate and loaded again              *)
(* (ConnectGate, canConnect, saveCustomWs); unless another window has      *)
(* written the keys before the page was loaded.                            *)
THEOREM EndpointsAreAcknowledged == Spec => []EndpointIsAcknowledged
<1>1. IInv => EndpointIsAcknowledged
  BY DEF IInv, ChoiceOK, EndpointIsAcknowledged
<1> QED
  BY <1>1, ShellInvariant, PTL

=============================================================================

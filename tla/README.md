# Formal model of mudgate

mudgate is a browser client for text MUDs. A web application (`apps/web`) talks
WebSocket to a proxy (`apps/proxy`) that talks telnet to the MUD; libraries
under `packages/` parse telnet, decode Big5, keep the screen, track rooms, and
store profiles, credentials and captured maps. This directory holds TLA+ models
of that code, TLC configurations that check them on small instances, and TLAPS
proofs of what matters most for instances of any size.

```
tlc -workers 2 -config MCProxySession.cfg MCProxySession     # one run
tlapm ProxySession_proofs.tla                                # the proofs of one module
```

`PROJECT.json` is the machine-readable index: components, runs, the source lines
every definition stands for, the hazards of the code and the properties aimed
at each, and for every property a *fault* that breaks it.

## 1. Inventory

### The parts, their state and their operations

| Part | Code | State it keeps | Operations | Modelled |
|---|---|---|---|---|
| Proxy sessions | `apps/proxy/src/server.ts` | per WebSocket: readyState, hello timer, release closure, `bridged` | upgrade, client message (async: DNS lookup), hello timeout, close | `ProxySession` |
| Abuse limiter | `apps/proxy/src/limits.ts` | two maps of concurrent sessions, closures that give a slot back, four maps of one-minute windows | `tryAcquire`, the closure, `hitWindow`, `hitBytes` | `AbuseLimiter`, `RateWindow`, abstract: `SlotPool` |
| Bridge | `apps/proxy/src/bridge.ts` | socket, WebSocket, inflater, their flags, the echo mask, the queue behind the PROXY header | every event of the socket, WebSocket, inflater and timer | `Bridge` |
| Client socket | `apps/web/src/lib/mudSocket.ts` | current WebSocket, session number, backoff count and timer, outbox | `start`, `stop`, `send`, the WebSocket's four handlers, both timers | `MudSocket`, abstract: `LineQueue` |
| Client and proxy | the four above and `TerminalHost.tsx` | frames under way, the proxy's session of each hop | hop opens or fails, lookup, dial, echo option, resize, loss, hang-up | `ClientProxy` |
| Telnet parser | `packages/protocol/src/telnet.ts`, `mccp.ts` | bytes of an unfinished command, the MCCP2 state | `push`, negotiation replies | `StreamParsers` (`ChunkedStream`); replies in `Bridge` |
| Edge of the proxy | `apps/proxy/src/loadEnv.ts`, `cli.ts`, `policy.ts`, `clientAddr.ts`, `proxyProtocol.ts` | environment, configuration | start, origin, authorisation, allow-lists, address checks, effective address, PROXY header | `ProxyEdge` on `RateWindow` |
| Credential vault | `packages/profiles/src/vault.ts` | an encrypted document in storage, its generation, a remembered key in IndexedDB, the unlocked session and an epoch per tab, plaintext of older versions | create, unlock, lock, restore, remember, set and delete a secret, clear, migrate, discard | `VaultLifecycle`, abstract: `VaultStore` |
| Map capture | `packages/nav-memory/src/burstDetector.ts` | the burst under way, two timers, one persist | events, timers, switch on and off | `BurstDetector` |
| Navigation stores | `packages/nav-memory/src/idbStore.ts`, `memoryStore.ts` | frames, pins, journeys | put, evict, protect, pin, clear | `NavStore`, abstract: `NavMemory` |
| Map companion | `apps/web/src/components/MapCompanion.tsx`, `App.tsx` | the frame on show, the frozen one, the last of each tab | capture, freeze, live, search, pin, clear, tab switch | `NavCompanion` |
| Room tracker | `packages/mapper/src/graph.ts` | the room graph, the current room, the last step | outbound move, server line, undo | `RoomTracker` |
| Journey replay | `packages/mapper/src/journeyReplay.ts`, `JourneyPanel.tsx`, `App.tsx` | the position in a journey, the step gate and its timer | record, play, step, stop | `RoomWalk` |
| Screen buffer | `packages/terminal/src/buffer.ts` | grid, cursor, scroll region, scrollback, snapshot of a shrink | write, control sequences, resize, width mode | `ScreenBuffer`, `TerminalView` |
| Big5, ANSI, lines | `packages/codec-big5`, `packages/vt`, `TerminalHost.tsx` | a pending lead byte, half a sequence, half a line | decode, feed, reset | `StreamParsers`, `ChunkedStream` |
| Application shell | `apps/web/src/App.tsx`, `ConnectGate.tsx`, `lib/trustMode.ts` | tabs, the mounted terminal, two login timers, the echo mask, the injected command, mode, endpoint and acknowledgement in the window and in localStorage | tabs, connect, disconnect, commands, auto-login, the gate, reload | `AppShell` |
| Script engine, history, numpad | `packages/script-engine`, `lib/commandHistory.ts`, `lib/numpadDirs.ts` | aliases; a list of commands | expand; previous, next | no |
| Profiles, forms, fonts, translations, painting, audit log | `packages/profiles/src/index.ts`, `apps/web/src/components`, `i18n`, `canvas2d.ts`, `audit.ts`, ... | presentation of state the parts above own | | no |

### How they interact

* The browser's `MudSocket` opens a WebSocket, a *hop*. The proxy's upgrade
  listener accepts or refuses it; the client's first message, `hello`, makes the
  proxy take a slot from the limiter, look up the destination, answer `ready`,
  and only then dial the MUD. From there `bridge.ts` owns the WebSocket.
* The limiter is the one object the sessions share. The closure `tryAcquire`
  returns is called by the session's close listener, wherever the session's
  asynchronous handler happens to be suspended.
* The bridge tells the client about a password prompt (`mask`, `unmask`), passes
  resizes on as NAWS, and inflates MCCP2 output. It listens to the WebSocket's
  close event a second time, next to the session.
* When a hop ends the client backs off and opens the next one. Lines entered
  meanwhile wait in the outbox, which outlives the hop.
* The shell mounts one terminal, for the selected tab; the terminal owns the
  socket. Status and mask travel up by callbacks, commands travel down as a
  property that an effect delivers, and both login timers are effects.
* The terminal feeds bytes to the decoders, what they give to the screen, and
  lines to the shell, which hands them to the room tracker and the step gate.
* The screen tells the burst detector of cursor moves; the detector has the
  screen stored, and the companion shows what was stored last.

### What is hard

* **An await in the middle of a handler.** `onClientMessage` suspends in the DNS
  lookup and goes on without reading the session again.
* **Four parties that can end a bridge** (the MUD, the client, the inflater, a
  cap) while output is still inside the inflater.
* **Guards against one another.** `timer`, `opening`, `session` and `disposed`
  in `mudSocket.ts` each stop a step; one too many loses the last retry, one too
  few opens a second connection.
* **Counts kept apart from what they count**: the two maps of the limiter.
* **Queues that are flushed while new input comes**: the outbox and the queue
  behind the PROXY header.
* **Two timers and a wall clock**, and windows that the client's first hit places.
* **Tabs on one vault**: operations that await a key derivation, an encryption or
  IndexedDB between reading and writing shared storage, and a reload or a failing
  write at any of these awaits; and a migration made of three of them.
* **State that is rendered later than it changes.** An effect sees the state of
  the last render; a timer may fire between the change and the render that would
  clear it.
* **Operations of several transactions.** A pin, a frame on a full disk and what
  the companion shows each take two or three transactions of IndexedDB, with
  bursts, tabs and other windows in between.
* **Two views of one place**: the player's position in the MUD and the tracker's,
  which moves before the MUD has answered.
* **A screen that shrinks and grows** while it is written to, with a snapshot that
  must give back what the shrink hid and nothing that is stale.
* **Streams cut anywhere**: four parsers in a row keep an unfinished piece each.

Every such place is a line of `hazards` in `PROJECT.json`, with the properties
aimed at it or the reason why there is none yet.

## 2. The modules

```
SlotPool <--implements-- AbuseLimiter <--EXTENDS-- ProxySession
RateWindow <--EXTENDS-- ProxyEdge         (one session at a time, against the clock)
Bridge                                    (inside of one dialled connection of ProxySession)
LineQueue <--implements-- MudSocket <--EXTENDS-- ClientProxy
VaultStore <--implements-- VaultLifecycle (tabs over shared storage)
NavMemory <--implements-- NavCompanion --EXTENDS--> NavStore, BurstDetector
RoomTracker <--EXTENDS-- RoomWalk         (the tracker and the journeys against the world)
ScreenBuffer <--EXTENDS-- TerminalView
StreamParsers <--EXTENDS-- ChunkedStream
AppShell                                  (tabs, terminal, login, endpoint)
X <--EXTENDS-- X_proofs                   (X: ProxySession, Bridge, ClientProxy, RoomWalk,
                                           VaultLifecycle, NavCompanion, AppShell,
                                           TerminalView; ProxyEdge's are in ProxySession_proofs)
MC*                                       (constants and configurations for TLC)
```

Operators whose comment begins with **Fault** are no part of any specification.
Each is a plausible mistake in the operator that follows it (a dropped guard, an
off-by-one, a missing reset, a swapped order) and is listed under `mutants` with
the property that catches it.

### AbuseLimiter, SlotPool (limits.ts)

A map entry that is absent is the number 0, which is what `?? 0` makes of it. A
release closure is the record of what it captured (`ip`, `tok`, and the call that
made it as its identity); `live` is the set of closures whose `released` flag is
false. `TryAcquire` and `Release` are the two halves of `tryAcquire`. `SlotPool`
is what the maps are for: a set of slots in which no address and no token bucket
has more than its number.

### ProxySession (server.ts)

State per session: the WebSocket's `readyState`, `preAuth`, the hello `timer`,
`release`, `bridged`. State per run of the handler (a *call* `<<c, k>>`, the k-th
message of session c): whether it is in its lookup, and the upstream socket it
dialled. The handler is cut at its one await: `ClientMessage` is the code before
it with all early returns, `DnsAnswer` the code after it. Every other event can
come in between. `OnClose` is the session's close listener followed by the
bridges' (a bridge opened after the close event has no listener that will still
be called, which the model shows as a `mud` that stays `dialled`). A client
message is what the handler tells messages apart by: kind and token. Whether a
one-minute window is over is a free choice here; `RateWindow` has the clock.
Origin, path and address checks of the upgrade are one refusal.

### RateWindow (limits.ts), ProxyEdge (policy.ts and around)

`RateWindow` is one window of one key against `Date.now`. The code's comment
calls the budgets rolling minutes; the windows are fixed, and what holds is
`TwiceAtMost`. `admitted` is a history variable: what was let through before each
instant, so that what a minute let through is the difference of two entries.

`ProxyEdge` follows the proxy from the start of the process to the bridge. The
environment is taken over file by file, as `loadDotEnv` does, turned into a
configuration, checked by `assertProdConfig` (or the process exits), and then
requests come: peer, forwarded headers, origin, credentials, hello, destination.
A setting is a value that its texts parse to; a client's address is a host and
the way it is written, since normalising the second away is what the code is
about. A destination's address is its octets and the form of its text (dotted,
mapped into IPv6 in dots or in hex, or IPv6), since `isPrivateOrBlockedIp` looks
at texts: exact addresses and prefixes. `IsPrivate` is what the ranges are, and
`NotOnList` the parts the code's list misses. A hop writes neither, one or both
of the two headers and passes the client's on for the rest; `source` remembers
which one was believed. The window of `RateWindow` is that of one watched
address: the upgrade is one hit of it.

### Bridge (bridge.ts)

Bytes are *items*: a text, an echo option on or off, a request for the window
size, the MCCP2 marker. `got` counts the items read from the socket and `fed`
those that went through the telnet parser; what lies between is in the inflater.
One action per event listener, with the code it calls: `HandleEvent` sends the
telnet replies first, then the mask or the text, and a frame over the outbound
budget destroys the bridge. `destroy` is an operator that knows what the same
handler had just written. A write after the MUD's FIN makes the socket fail,
which the bridge learns later (`sock = "failing"`). The inflater may emit, fail,
end or hang. The WebSocket is open, closing or closed when the bridge begins:
the lookup of `ProxySession` may have outlived it, and then no close event tells
the bridge (`proxy_orphan`, section 5).

### MudSocket, LineQueue (mudSocket.ts)

Hop n is the n-th WebSocket created. Its `readyState` moves on its own and its
handlers run in between, which is what the code's `session` check is for.
`scheduleReconnect` and `open` are operators of the number of failures so far,
because `open` calls `scheduleReconnect` when the constructor throws, in the
same step. Lines are numbered, so order, loss and doubling can be read off
`wire`. `LineQueue` is the promise: lines in order, never twice, lost only as the
oldest of a full queue or with the whole queue at `stop()`.

### ClientProxy

`MudSocket` joined to an abstraction of the proxy: per hop one state (`resolving`,
`refused`, `dialling`, `joined`, `gone`) and a queue of frames under way that ends
in `close`. A resize before `ready` is taken for a hello and closes the session,
as in `TerminalHost.tsx` and `server.ts`.

### VaultLifecycle, VaultStore (vault.ts)

Tabs over what they share: the envelope (`env`), the generation (`metaGen`), the
two flags, the key record, and the Web Lock (`owner`). Each tab has its `queue`
(`vaultOpTail`), the place where the first operation of it stands (`step`), what
that has read (`local`), and its `Session` objects, of which one may be current:
a queued save keeps the object it was called on, as the argument of
`persistSession` does. An operation is one action up to its first await and one
for each stretch between two awaits. Operations are numbered, and a number
stands for everything the code makes unique with random bytes. A change to a
secret is a member of the payload; taking a secret out is a change too.
`ticket.stillOwner()` is always true, because a tab runs one operation at a
time, and is left out. A transaction on the key record may commit, fail, or be
aborted at its commit, which fires `onabort` alone: `vault.ts` handles
`oncomplete` and `onerror`, so the promise stays pending, and with it the tab's
queue and the Web Lock, until the tab is reloaded (`NeverSettles`, step `hung`).
`VaultStore` is the promise: one document, to which saves only add, and whose
generations never come twice.

`migrateLegacyIntoVault` is a caller of these operations, not one of them:
`Migrate` opens or creates a vault when none is open, `MigrateImport` puts what
is missing into the payload and saves, `MigrateDelete` compares the receipt,
deletes the plaintext and saves once more. The panel is busy meanwhile, so a tab
calls nothing else; the other tab does.

### BurstDetector, NavStore, NavCompanion, NavMemory (packages/nav-memory, MapCompanion.tsx)

A detector is a record of the fields of its class, a database a record of two
functions; their methods are operators from records to records. `NavCompanion`
puts them together with what `App.tsx` and the companion keep. `queue` is the
sequence of transactions asked for, which IndexedDB commits in order: each action
of `Commit` is one transaction with what its continuation does, including the next
transaction it asks for. A rendering takes place at the end of each handler
(`Render`) and runs the effect that loads the frame when the frame meant has
changed. Another window on the same database, a quota error and a reload are
actions. Quiet times are choices; that the interval since the last capture is
over is an event. `NavMemory` is `memoryStore.ts`, where every method is one step.
A capture that completes after a change of tabs shows its frame in the other tab
(`setLastMapForTab`), so a frame can get pins of another profile than its own;
clearing the profile of the frame spares them. They are pins that nothing shows,
and the refinement follows a pin as long as its frame is there (`Kept`).

### RoomTracker, RoomWalk (packages/mapper, App.tsx, JourneyPanel.tsx)

`RoomTracker` is the class as operators on its record of fields. `RoomWalk` puts
it between a player, a MUD with a map of its own, and two queues, of commands and
of lines. `stands` is history: where a room of the tracker was when it was made.
The gate of a replayed step is closed by a line or by the timer of 900 ms, which
may come before the answer. `astray` and `offRoute` note that the player did what
the properties make no promise for: another move before the answer of the last,
a refusal in the dark, a command of his own during a replay.

### ScreenBuffer, TerminalView (buffer.ts, TerminalHost.tsx)

A screen is a record of the fields of the class and each method a function on
screens, so that a method can call another as in the code. A cell holds the number
of the glyph written there, so that order, loss and doubling can be read off the
screen. A line of the scrollback is the glyphs of a row, each at its column: a
function on the columns that have one, since blanks between two glyphs are in the
text and those at the end are cut. `TerminalView` writes tokens and changes the
height; `before` and `still` remember the screen whose rows the snapshot keeps,
`appended` and `setBack` whether the text was only appended to. The bounds on
glyphs and control sequences count from the last connect, which makes a new
buffer.

### StreamParsers, ChunkedStream

The four incremental parsers as recursive operators that scan what is held and
what is new from the start, as the code does, and for each a second definition, a
machine that takes one byte at a time. `ChunkedStream` feeds a stream in any cut,
after any leftover of a connection before. Bytes are named for what they are to
the parser. These modules declare RECURSIVE operators and are for TLC only.

### AppShell (App.tsx, TerminalHost.tsx, ConnectGate.tsx, trustMode.ts)

`shown` is what the last render and its effects have seen; `Render` is the next
one, with the effects whose dependencies changed, clean-ups first. Clicks see
what is shown; so does what the network brings and a back-off (`Settled`), since
React renders long before those. Timers do not wait: that is where the code is
hard. The socket is reduced to the status it reports, its queue and what
arrives at the MUD, since `MudSocket` and `ClientProxy` have the rest; the last
socket of the bound gives up. A line knows its kind, the tab and profile it was
made for, and whether it waited in the queue.

`choice` is the gate's mode, endpoint and acknowledgement, `stored` the three keys
of localStorage they are loaded from and saved to one by one; `Reload` loads the
page again, and `OtherWindow` is a second window that writes one of the keys.
`ticked` is history: the endpoint that was on show when the box was ticked; so is
`shared`: that a second window has written. What `Storages` lets the first page
find is what one window can have left.

## 3. The runs

| Run | Checks | Shows |
|---|---|---|
| `proxy_session` | `TypeOK`, `SlotCounts`, `AttachedWithinLimit`, `OneHelloLeavesNoSlot`, `ImplementsSlotPool`, `EverySessionSettles` | no order of hellos, lookups, timers and closes makes a limit drift or leaves a session idle for ever |
| `proxy_edge` | `BridgeIsAllowed`, `CountedAsItself`, `TwiceAtMost` | whatever the environment, outside of development only who showed the token gets a bridge, to a listed destination, and no private address the code's list knows; nobody is counted as somebody else whose hop writes the header that is believed; no minute passes more than twice the budget |
| `bridge` | `CleanCloseIsComplete`, `MaskIsTold`, `LinesInOrder`, `BothSidesEnd` | close code 1000 means the client saw everything; the mask is never stale; what waits for the PROXY header is neither lost nor overtaken; nothing hangs half open that was open when the bridge began |
| `mud_socket` | `SingleSocket`, `RetryPending`, `ImplementsLineQueue`, `RetriesEnd` | one live WebSocket; exactly one thing pending until stopped or given up; lines in order |
| `client_proxy` | `LinesMeetABridge`, `MaskAgrees`, `GetsConnected` | no line is taken for a hello; no mask of an earlier hop stays; upsets during the handshake are survived |
| `vault` | `AcknowledgedIsDurable`, `ImplementsVaultStore`, `RestoreIsAllowed`, `QueuesDrain` | under the Web Lock the tabs act on one document, reloads, failing writes and a migration included; no reported save and no deleted plaintext is lost; no restore of what is revoked; nobody waits for ever, but for a transaction aborted at its commit |
| `terminal` | `HistoryInOrder`, `FitLosesNothing`, `RowsKeepTheirText`, `ChunksDontMatter`, `LeftoverEndsAtLineFeed` | what was written is kept once and in order under any shrinking and growing; what a parser gives does not depend on the cuts |
| `nav` | `ShowsWhatIsAsked`, `ArmedHasTimer`, `PinsGoWithFrame`, `ImplementsNavMemory` | the IndexedDB store behaves as the one in memory; the companion settles on the right frame; no burst is left without a timer, but one that settles while another is being stored |
| `rooms` | `TrailIsTrue`, `ReplayOnRoute` | a player who waits for answers has a true map; a replay neither skips nor repeats a step |
| `shell` | `LinesStayOnTab`, `OncePerConnection`, `MaskIsOfSocket`, `EndpointIsAcknowledged`, `LoginGoesOut` | lines go to the MUD of their tab; the login goes out, and once per connection but behind one queued before; the mask is that of the socket; no endpoint without its own tick unless two windows wrote the settings |
| `proxy_orphan`, `client_proxy_down` | `MudSocketsWithinLimit`, `DialsBounded` | violated: section 5 |

### Bounds, and why they are enough

* `proxy_session`: two sessions of one address and a limit of one, so that every
  acquire competes; two messages each, so that a second hello can overtake the
  lookup of the first; three token buckets through three ways to be
  authorised; budgets of one and two, so that each is exceeded. What more
  sessions, addresses or messages could do to the counts is settled by proof.
* `proxy_edge`: every combination of mode (one misspelt), token, origins, site
  shell, allow-list, trusted hop and header that the checks tell apart, with
  none or two `.env` files; two clients, one of each address family, directly or
  behind a hop that writes any of the two headers. Eleven destination addresses:
  public ones, both sides of the upper border of 172.16/12, one or more of each
  form, and two the list misses. A minute of two instants, a budget of two and a
  clock that runs to 3: a window of the first two instants may pass two hits
  late, the next two more, so that three and four pass within one minute. The
  clock moves under two environments only, one without and one with a hop, since
  what the others let in does not depend on it.
* `bridge`: four items, so that after the marker three compressed items pass
  each of the caps (window 1, session 2, wire 2), and text and echo options can
  come before it; two client messages; one proxy with MCCP2 and one with the
  PROXY header, which concern opposite directions.
* `mud_socket`: five hops and two attempts: a full series of failures, one reset
  by `ready`, and a stop anywhere. A queue of two and four lines overflow.
* `client_proxy`: four hops, two lines, two upsets, up to three frames under way.
  With two attempts, two upsets are one fewer than end a series of retries.
* `vault`: two tabs, four calls, reloads included, and one failing write. Four are
  a create, an unlock in the other tab and a save of each; or a create, a
  remember, a lock in the other tab and a reload that restores; or a migration,
  which counts as three, against one call of the other tab. Two operations of a
  tab may be under way, so that a save can be called while another encrypts.
* `terminal`: the screen and the parsers share nothing and are the two halves of
  one run. Two columns, so that the third glyph wraps and a wide one does not
  fit; one to three rows, so that a shrink can hide one row or two and be done in
  two steps; three glyphs, one control sequence; a scrollback of three. Streams
  of up to six bytes in every cut, over a telnet buffer of six and subnegotiations
  of up to four bytes: a subnegotiation with its option and one byte of content,
  one that is too long, and the MCCP2 marker of five bytes with one byte of the
  compressed stream behind it, which turns the parser over in the middle of a
  chunk. The buffer never overflows in this run; that a chunk may be dropped when
  it does is a finding (section 5), which `ChunksDontMatter` exempts anyway.
* `nav`: two tabs of one profile, one frame at most and two ids, so that every
  capture evicts; one pin; one request while another is under way. Tabs are
  symmetric (every property treats them alike). One profile keeps the run small;
  the theorems are for tabs of any profiles.
* `rooms`: three commands in a corridor, a ring and a map with a trapdoor, of three
  places, two of the same title and one dark. Three commands are a move and back
  and one that is refused, or a recorded journey of two and one step of the
  player's own.
* `shell`: two tabs, two profiles of which one logs in by itself, two sockets,
  four acts of the user and one command. Four are a connect, a second tab, a
  switch back and a disconnect; or an endpoint typed, ticked and connected to
  after a reload. The first page finds a ticked endpoint, of three (one is
  empty); a change of mode gives the others. Acts of another window count too;
  the first comes while nothing is connected here, since what it writes later is
  first read by a reload, which ends the connection; and executions with another
  window open no vault and type no command, neither of which reads the settings.

All configurations but that of `nav` turn deadlock checking off, because the
systems really stop: sessions are finite in number, a stopped client does
nothing, and a bridge that is closed on both sides has no events left.

### Fairness

* `ProxySession`: hello timers fire, lookups settle, and a close that was asked
  for gets its close event (the `ws` library forces it after its timeout).
  Nothing is asked of clients or MUDs.
* `MudSocket`: timers fire; the browser ends every connect and every close; a
  server that got a hello answers it or drops the connection, and closes after
  an error. `ProxySession` and `Bridge` are where the proxy is shown to do so
  (`EverySessionSettles`, `BothSidesEnd`).
* `Bridge`: Node delivers data, FIN and errors, timers fire, `ws` ends a close
  that was begun. Nothing is asked of the inflater: that it may hang is the reason
  for the code's two-second timer.
* `VaultLifecycle`: key derivation, encryption and IndexedDB settle, and a free
  lock is granted (the browser grants it in turn). Nobody has to call anything.
* `AppShell`: React renders, a microtask runs, and the account timer fires. The
  network, the MUD and the user owe nothing.
* `ClientProxy`: timers, lookups, dials and frames arrive. Users, resizes, the
  network and hang-ups owe nothing.

All of it is weak fairness, since none of these events is disabled again by the
others for good without having been overtaken by an end of the hop.

## 4. What is proved

Each module `X_proofs` proves an inductive invariant of `X` and derives from it
what the runs check on small instances, for every value of the constants: any
number of sessions, hops, tabs, frames or lines, any caps and limits. The bounds
on counters (`Max...`) are constants as well, so they can be as large as one
likes.

| Module | Theorems | Property of a run |
|---|---|---|
| `ProxySession_proofs` | `TypeCorrect`, `CountsAreExact`, `LimitHolds`, `OneHelloIsGivenBack`, `RefinesSlotPool` | `TypeOK`, `SlotCounts`, `AttachedWithinLimit`, `OneHelloLeavesNoSlot`, `ImplementsSlotPool` |
| `ProxySession_proofs`, of `ProxyEdge` | `BridgesAreAllowed`, `ClientsAreCountedAsThemselves`, `MinutesAreBounded` | `BridgeIsAllowed`, `CountedAsItself`, `TwiceAtMost` |
| `Bridge_proofs` | `CleanCloses`, `MaskReachesClient`, `LinesReachMud` | `CleanCloseIsComplete`, `MaskIsTold`, `LinesInOrder` |
| `ClientProxy_proofs`, of `MudSocket` | `OneSocket`, `AlwaysMovingOn`, `RefinesLineQueue`, `LinesGoOutInOrder` | `SingleSocket`, `RetryPending`, `ImplementsLineQueue` |
| `ClientProxy_proofs` | `StillAClient`, `LinesMeetBridges`, `MasksAgree` | `LinesMeetABridge`, `MaskAgrees` |
| `VaultLifecycle_proofs` | `AcknowledgedStays`, `RestoreHasLeave`, `RefinesVaultStore` | `AcknowledgedIsDurable`, `RestoreIsAllowed`, `ImplementsVaultStore` |
| `NavCompanion_proofs` | `ShowsTheTabsMap`, `BurstsAreWoken`, `PinsLeaveWithFrames`, `RefinesNavMemory` | `ShowsWhatIsAsked`, `ArmedHasTimer`, `PinsGoWithFrame`, `ImplementsNavMemory` |
| `AppShell_proofs` | `LinesAreOfTheirTab`, `LogsInOnce`, `MaskIsCurrent`, `EndpointsAreAcknowledged` | `LinesStayOnTab`, `OncePerConnection`, `MaskIsOfSocket`, `EndpointIsAcknowledged` |
| `RoomWalk_proofs` | `WalkInvariant`, `ReplaysStayOnRoute`, `MapsAreTrue` | `ReplayOnRoute`, `TrailIsTrue` |
| `TerminalView_proofs` | `RowsComeBack`, `TextIsKept`, `SelectionFollows` | `FitLosesNothing`, `HistoryInOrder`, `RowsKeepTheirText` |

**Assumptions.** The ASSUMEs of the modules, which TLC evaluates in every run:
limits, budgets and bounds are natural numbers, positive where the code's
defaults are; the tables of addresses and profiles are functions; the frames a
server sends are among those the client knows. Some say that a model value is
none of the things it stands beside (`NoSlot` no slot, `NoVault` no envelope,
`None` no line, tab or client), which in the code is `null` against an object.
One is a hypothesis of the theorems: `UseLocks` in `VaultLifecycle_proofs`, that
the browser has the Web Locks API. Without it the refinement fails (section 5).

### ProxySession

`SlotCounts` alone is not inductive. A session's close calls the closure in
`release`, and nothing in `SlotCounts` says that this closure is the session's
own, or that a closure handed out is new. `LimitInv` adds: the live closures are
finite, and both maps stay between zero and their limits (`TypeOK`), which
needs `SlotCounts`, for it says that a closure that is called is still counted;
every live closure belongs to a
message already received, so the next `tryAcquire` makes a new one
(`SlotsAreSent`); the closure in `release` was made by a message of this session
(`ReleaseIsOwn`); and a call that is in its lookup or has dialled, of a session
whose close event has not come, has its slot in `live` (`AttachedHoldsSlot`). The
last one is the heart: the closure may have been overwritten by a second hello,
but then nobody calls it before the close event, so the bridge still counts; and
once the session is closed it is not attached. `LimitStep` goes through the
actions; only `ClientMessage` and the close event touch the limiter, and the
others go by `LimitQuiet`. For `LimitHolds` the attached bridges of an address
inject into the live closures charged to it, which are as many as `wsByIp` says,
which is within the limit. For `RefinesSlotPool`, each step acquires one slot the
pool has room for, gives one back, or stutters. `OneHelloInv` says why one hello
leaves nothing: before it the session owns no slot, and after it the only one it
owns is the one in `release`, which is what the close event finds.

### ProxyEdge

The proofs of the two modules of the proxy share `ProxySession_proofs`; neither
part uses the other.

For the policies `EdgeInv` says that a proxy that listens has the configuration that
`DefaultConfig` makes of the environment and that `assertProdConfig` let pass,
and what a session must have shown to be let in (`SessionInv`): the hello checks
the token and the destination, and relies on the upgrade for the origin. That
`IsPrivate` and not `NotOnList` is what `IsPrivateOrBlockedIp` finds is
arithmetic on octets, form by form. For the address, `SessionInv` keeps which
header was believed and which ones the hop wrote.

For the windows `RateInv` knows where the current window begins: what it let
through is at most its count and at most one budget, nothing was let through
since the last window was over, and the `Period` before the current window let
one budget through at most, since it lies in one older window (`WindowInv`). A
minute that now is in has a part before the window and a part in it, which are
one budget each (`MinutesOfNow`). The lemmas `FirstHit`, `LaterHit` and `HitStep`
hold for hits of any amount, that is for `hitBytes` too.

### Bridge

`LinesInOrder` speaks of what is on the wire; that the queue behind the PROXY
header is used until the connection is up, and never after, is `QueueInv`.
`CleanCloseIsComplete` needs to know where what was read and not parsed can be:
inside the inflater, and nowhere when there is none (`InflaterInv`), and that an
open client was shown exactly the texts that were parsed (`ShownInv`). Order is
proved over sequences: `Orderly` says that before the line k all older lines come
exactly once, and the lemmas about it say what appending replies, a line, the
header or the flushed queue does to it.

### MudSocket and ClientProxy

`HopsInv`: hops are created in order, each under a session no older one had, and
the only hop whose handlers are listened to is `this.ws` until it has closed.
`RetryInv` says for every combination of `timer`, `opening`, `ws` and the status
who moves the client on; it is what makes the guards of `open` and
`scheduleReconnect` safe. `QueueInv`: nothing waits while lines go out at once,
without which a line could overtake the queue.

`StillAClient` proves that the client in `ClientProxy` takes only steps of
`MudSocket`, so that all of the above holds there. `FarInv` adds the proxy:
before its lookup is done it has sent nothing, and one that refused has sent no
more than its end (`SentOK`), which is why `ready` proves that a bridge follows;
and the last frame under way that tells the mask, or else the client, has it as
the bridge does (`MaskOK`).

### VaultLifecycle

An operation reads shared storage, awaits, and writes. `LockInv` says that only
the owner of the lock is between two awaits, and `ReadInv` that what it has read
is still so. That is preserved because everyone else only asks for operations
or reloads. The rest is about identity: operations have numbers that are not
reused and that appear nowhere before they are written (`IdsInv`, `FreshInv`), so
a session object whose text is the one stored holds all that is stored
(`CopyInv`), also for the object a migration waits for (`MigrationInv`). From
this a save adds to the document, and `RefinesVaultStore` follows.

### NavCompanion

The refinement goes transaction by transaction: each is one method of
`memoryStore.ts` on the frames and the pins whose frame is there, or leaves them
alone (`StoreStep`). `Settling` is the invariant behind `ShowsWhatIsAsked`: as
long as the user has not acted while a transaction was waiting, the last load in the
queue is of the frame to show, or, if none waits, that frame is on show; and what
the user asked for is at the head of the queue.

### AppShell

What is rendered is older than what is so, and the invariant says how far they
may differ. `TabsOK`: ids are unique, and the selected tab is one of the tabs
unless a microtask is to select another. `ShownOK`: there is a socket just when
the rendered tab is connected, and it is of that tab. `TimersOK`: login timers
are of the profile rendered. `OwnerOK` gives every line sent or waiting its
owner: the socket's tab, and the profile of its hello, or before the hello that
of the tab. `OnceOK`: a login that went out at once is noted, unless the user
has just disconnected. `LoginOK` is about the ones that wait: of each kind there
is one at most, and none while a timer runs, since the render that sets a timer
has seen the tab connected, when nothing waits. With both `OncePerConnection` is
inductive: what waits is flushed into a hop that has received nothing, and from
then on the note keeps it at one more. `ChoiceOK` ties the socket's endpoint to
the gate, and a tick to the endpoint it was made for, in the window and in
storage: the two are the same until a second window writes, so that a reload
changes nothing (`ReloadOK`).

### RoomWalk

The journeys and the map are two invariants over one tracker, whose methods have
lemmas of their own: what `createRoom`, `stepOnMove`, `undoLastStep` and
`upgradeCurrent` of `graph.ts` do to rooms and exits (`LinkDraws`, `StepType`,
`UndoType`, `UpgradeType`), the two loops over listed exits by what they leave
in every room (`LinkLearns`).

`RouteInv` says that the step a replay is at has one of four states: to be sent,
sent, refused by a line still to be heard, or made. A gate is only ever closed by
a line when its step was made, and the timer closes it in any state, which puts
the replay off its route. The case that is easy to overlook is a gate without a
replay: stopping one clears its gate, but a step that was still being read from
the store is then sent and sets a gate, which the next replay would inherit; that
gate is off the route already.

`TrailInv` gives the player who waits for answers four phases. A move is under
way and the tracker is one ahead (`SentMove`, `Ahead`); something else is
(`SentOther`); it was refused (`ToldNo`); or it was answered, and the lines that
are left to be heard are of the place he stands in (`Told`). What makes a
refusal harmless is `Fresh`: if the room of the last step was made for it,
nothing else leads there, so `undoLastStep`, which deletes the room and the
exit, leaves no link into nowhere. If it was there before, its link is a true
way of the MUD, and the move cannot be refused: `Way` of the step is a place,
and the phase is `SentMove` with the second half of `Ahead`. A way back that
`upgradeCurrent` draws (`WayBack`) is true because the worlds are such
(`WalkAssumption`): what can be gone back leads back.

### TerminalView

`Shaped` is the type of a screen with the bounds the class keeps: cursor, saved
cursor and region are on the screen, the scrollback is within its cap. `Mirrors`
ties the screen to its snapshot: there are no more live rows than rows of the
snapshot below the view, they show just those, and hidden rows go where the
scrollback ends. Each method is shown to make such a screen of one (`LineFeedType`,
`PutType`, `CursorType`, `EraseType`, `ResizeType`), and `Resize` is first brought
into the form `Sized`, an equation for every field, on which all that follows
rests.

`FitLosesNothing` needs one more thing: the snapshot is that of `before`, and the
restore record is too as long as no cursor command came (`BeforeInv`). A fit to a
lower height then shows what a fit from `before` would because both start from the
same rows and the same cursor (`FitLook`).

`HistoryInOrder` counts glyphs, of which a step moves many at once. The proof reads
the text, `Everything`, as lines without an end, and each step as one of three
things: lines are cut off at the front (`Cut`), a glyph is written behind all
others (`Extended`), or nothing happens. That a row which scrolls off the top is
the next line of the scrollback, and a fit moves the border between what is
hidden and what is shown without moving a line, are `ScrollsText` and `FitText`. All
of this holds only of a screen to append to, and `Plain` says which that is: the
region starts at the top, and nothing is written behind the cursor, below it, or in
the snapshot below the view. The last is what a fit back would bring up, and what
the code owes to the snapshot being dropped by every write. Whether a fit sets the
cursor back on text is the one thing `Plain` does not survive, which is why
`setBack` is there. `Kept` adds that nothing is missing while the cap has cut
nothing off; the cap cuts only when the scrollback is full, and it stays full.
`SelectionFollows` uses the same three kinds of steps: with room for two lines
nothing is cut, and then every row stays or grows.

### What is only model-checked

* All liveness: `EverySessionSettles`, `RetriesEnd`, `BothSidesEnd`,
  `GetsConnected`, `QueuesDrain`, `LoginGoesOut`. They need fairness and ENABLED,
  which are out of this prover's reach.
* What the parsers give for every stream and every cut (`ChunksDontMatter`,
  `LeftoverEndsAtLineFeed`): they are recursive operators, and the proof would be
  by induction over the stream.
* The two properties that are violated.

## 5. Where code and documents disagree

Two are runs that TLC finds violated.

1. `proxy_orphan`. The threat model says that concurrent session limits are
   enforced. A WebSocket that closes during the lookup gives its slot back; the
   handler then goes on, dials the MUD, and the bridge's close listener is
   attached too late to be called. That MUD connection is open and uncounted.
2. `client_proxy_down`. `MAX_ATTEMPTS` is documented to stop the retries. The
   proxy says `ready` before it dials, and `ready` resets the count, so a MUD that
   is down is dialled for ever.

The models show more, for which there is no run of its own. Where a property had
to be weakened for one of them, its comment says so.

* *Slots* (`server.ts:209`). A second hello during the lookup assigns `release`
  again, and the slot of the first is never given back. The web client sends one
  hello, for which `OneHelloLeavesNoSlot` holds.
* *Lines* (`mudSocket.ts:157`). With 64 lines queued the oldest is dropped and
  nobody is told; the comment at `:144` says "never silently drop Enter sends".
  A status `bad_frame` or `proxy_error` in the middle of a hop makes later lines
  queue until the next hop.
* *Vault without Web Locks* (`vault.ts:959`). `createVault` compares only whether
  there is an envelope, so a create that straddles a create and a clear of another
  tab writes the generation it read before, and sets it back. The plan asks for
  the whole snapshot to be compared. `UseLocks = FALSE` shows it.
* *Migration* (`vault.ts:1313`). One that is cut off between its first save and the
  deletion never finishes when it is repeated: the second attempt finds its
  entries there, its receipt is empty, and the plaintext stays until it is
  discarded by hand. `tryFinishLegacyDelete`, which is to finish it at the next
  start, is called by nobody.
* *Auto-login* (`App.tsx:749`, "send account once per wire hop"). A drop that
  meets the timer sends the account into the queue; the reconnect flushes it,
  and the next timer sends it again to the same hop. `OncePerConnection` says
  that this is the only way to a second login, and that there is no third. A
  profile chosen in the gear of a connected tab changes its terminal's next
  login (`changed`).
* *Trust settings* (`trustMode.ts:86-123`). Endpoint and tick are two keys, and
  the comparison that takes the tick back looks at the stored endpoint, not at
  the one the tick was made for. With two windows, one can tick its endpoint
  after the other has stored another: the next page finds the pair, shows the
  box ticked, and lets the user connect (`shared`).
* *Private addresses* (`policy.ts:175-210`). The list tests texts, and misses
  127.0.0.0/8 but for 127.0.0.1, 0.0.0.0/8 but for 0.0.0.0, IPv4 mapped into
  IPv6 in hex groups, and fe81:: to febf:: of fe80::/10 (`NotOnList`). The
  threat model (`docs/security/hosted-proxy-threat-model.md:37`) says "always
  block private/metadata IPs".
* *Client address* (`clientAddr.ts:115-141`). With no header locked,
  CF-Connecting-IP comes before X-Real-IP. The nginx configuration in `deploy/`
  (`nginx-mud.revivalworld.org.conf:66`) writes X-Real-IP alone, and
  `docs/deploy/SITE-OPERATOR.md` sets no `MUDGATE_CLIENT_IP_HEADER`, so the
  client's own CF-Connecting-IP decides whom it is counted as. `CountedAsItself`
  exempts that case.
* *Vault writes* (`vault.ts:684-689`, `:721-726`, `:744-760`). No `onabort`: an
  abort at commit leaves the operation, the queue behind it and the Web Lock of
  all tabs waiting until a reload. `idbStore.ts:60` handles it. `QueuesDrain`
  exempts it.
* *Bridge on a closed WebSocket* (`server.ts:217-261`). What `proxy_orphan` shows
  has a second half: such a bridge has no client side that could end, so
  `BothSidesEnd` promises nothing until the MUD's side ends.
* *Injected commands.* `walkDir` on a tab that is not connected leaves the command
  to the next terminal that is mounted.
* *Screen* (`buffer.ts:217`). A fit sets a cursor that stands behind the last
  column back onto the last glyph, which the next character then overwrites
  (`setBack`). A window that is made lower and then higher than it was, with
  nothing written meanwhile, gets the scroll region of before (`:311`): its bottom
  stays at the row where the old window ended, and text scrolls above it.
* *Telnet* (`telnet.ts:58`). A full chunk that arrives while a command is held is
  dropped whole (`Dropped`).
* *Rooms* (`graph.ts:231`). With two moves under way only the last can be undone;
  a refusal in the dark keeps the step; undoing a move deletes the exit, even one
  the MUD had listed. The timer of a replayed step always advances, and a step
  that is read after the replay was stopped brings it back to life. The tracker
  is one for all tabs and is never reset.
* *Map companion.* `loadFrame` is not called off, so a frame that was left can
  come back (`hasty`); a capture belongs to the tab on show when it is stored,
  not when it was asked for; a burst that settles during a persist has no timer
  any more (`missed`). The capture sink set at `TerminalHost.tsx:149` is that of
  the first screen, which `:460` replaces.
* *Environment* (`loadEnv.ts:46`, "Load first existing file"): all that exist are
  loaded, each fills in what those before it left open.
* *Script engine* (`script-engine/src/index.ts:129`): triggers fill a queue nobody
  empties.

## 6. What is left out

* Bytes, texts and layout: messages are items, kinds or named bytes. In `Bridge`
  telnet parsing is atomic per item, `TTYPE` subnegotiation is one of the replies,
  and a zlib stream that ends before its connection does is not modelled.
* `/health`, audit lines, the parsers of headers and `.env` lines: nothing reads
  them back or they are one value per text.
* Floating-point geometry, painting, colours, keyboard and touch handling, forms
  and translations; the experimental stitching of frames.
* Profiles and their validation, command history, numpad and the script engine:
  sequential data code with unit tests of its own.
* Journeys in the database (`putJourney` reads and writes in two transactions);
  `RoomWalk` has one journey in one store.
* The endpoint of a site shell ("official"), which the site fixes.
* The growth of the limiter's window maps, and wall clocks that go back.
* In `MudSocket` the waiting times themselves; only their order, and that the gap
  timer may follow a backoff.
* In `RoomWalk` worlds where the way back does not lead back, failures whose text
  is not recognised, and recording while replaying.

## 7. Plan

1. Lemmas that the safety theorems leave open: that the weights behind the
   liveness properties (retries left, bytes still in the inflater, operations in
   the queue) go down.
2. The parsers of `StreamParsers` as recursive functions, so that a theorem can be
   about one step of the reference machines.

Models worth adding after that: journeys in two transactions, several windows on
one journey, and the profile store.

# FluxTorrent in TLA+

FluxTorrent is a single Go program that turns torrents into HTTP streams: it
adds a torrent on request, lets players read from it while it downloads, and
gets rid of it afterwards, from RAM at once, from disk after a grace window, and
for torrents that must be seeded only after a ratio or time target. A web page
shows the torrents live and edits rules and settings. This directory holds TLA+
models of the parts where goroutines, files, stops of the program, connections
and the page's asynchronous replies meet, the TLC configurations that check them, and TLAPS proofs of
the properties that matter most.

Paths below are relative to the repository. `engine.go`, `lifecycle.go`,
`stream.go`, `diskfile.go`, `seeding.go`, `janitor.go`, `storage_ram.go` are in
`internal/engine/`; `hub.go`, `auth.go`, `server.go` in `internal/api/`; `*.ts` and
`*.tsx` in `web/src/`.

To check everything by hand, in this directory:

    tlc -workers 2 -config MCLifecycle.cfg MCLifecycle     # any run of PROJECT.json
    tlapm Lifecycle_proofs.tla                             # any *_proofs module

## 1. The system

One process, with these goroutines: one per HTTP request (players, the web UI,
the compatibility APIs), the seed enforcer (every 20 s, `seeding.go:22-34`), the
janitor (every 30 s, `janitor.go:30-42`), one that resumes seeding at the start
(`ResumeKeepSeed`, `main.go:49`), the WebSocket hub and its pumps, and those of
the torrent client library (anacrolix/torrent), which call the piece stores.

They share: the client's own table of torrents; `e.managed`, the engine's map of
active torrents (under `e.mu`), and in each entry its readers and accounting
(under `m.mu`); `e.hashLocks`, a table of reference-counted locks per infohash;
the bbolt store with settings, rules and one record per torrent; the download
folder; and the RAM piece store.

### Components

| Component | State | Operations | What is hard | What makes it correct |
|---|---|---|---|---|
| Lifecycle locks (`lifecycle.go:43-75`) | `hashLocks`, a count per entry | `lockHash` and the release it returns | an entry deleted between another's lookup and its lock | mutual exclusion per hash, no entry leaked, no waiter forgotten |
| Torrent lifecycle (`engine.go`, `lifecycle.go`) | client table, `managed`, `dropped` | Add, Ensure, Drop, Delete, active limit, Close | AddTorrentSpec hands out a dying torrent; a second Drop panics; the limit closes torrents without their lock; early returns of Add | nothing closed twice, nothing managed that is dead, nothing left in the client unmanaged, the right victims |
| Streaming (`stream.go`, `diskfile.go`) | `readers` per torrent | OpenStream, OpenDiskFile, release, drop after playback | the torrent may be gone when the stream counts itself in; zero readers seen, then unlocked, then acted on | the count is that of the open streams; opening ends |
| Seed enforcer, idle reaper (`seeding.go`) | accounting in `managed` and records | reapIdle, enforceSeeding, ResumeKeepSeed | list, unlock, act; records rewritten without a lock | no viewer cut off; seeding survives restarts |
| RAM store (`storage_ram.go`) | pieces, `used`, order of last use | WriteAt, ReadAt, MarkComplete, Close, eviction | accounting over evict and refetch; what is complete and what is in memory drift apart | exact count, budget, LRU victims, complete means whole |
| Disk retention (`janitor.go`) | folders, `PendingDeleteAt` | retire, sweepPending, enforceDiskCap, CleanOrphans | a snapshot acted on later; folders found by name; a stop between two steps | what is in use is not deleted; what is due is |
| Disk storage (`storage_disk.go`) | none | a constructor | - | - |
| Settings and records (`internal/config`) | bbolt, current settings | Get, Put, Rules, PutRules, Torrents | persist and publish are two steps; the page's replies come late | a form that says it is saved shows what is stored |
| Rules (`internal/rules`) | none | Evaluate | first match wins | pure function |
| Classification (`internal/classify`) | none | Classify | order of the kinds | pure function |
| Authentication (`api/auth.go`) | a cookie signed with a secret of the process; failures per address | requestAuthorized, login, logout, status; throttle, recordFail, clearFails | a session ends under a page that is open; late 401s; window and lockout at their boundaries | the page notices, and lets its user back in; a lockout neither shorter nor endless |
| WebSocket hub (`api/hub.go`) | clients, channels | register, unregister, broadcast, pumps | unbuffered channels, channels closed by another goroutine, pumps that end one without the other | no send on a closed channel, connections that are gone are forgotten |
| HTTP API (`api/server.go`, `logging.go`, `diskinfo.go`, `spa.go`) | none | handlers, broadcastLoop | a list is read, and broadcast later | events in the order of the lists |
| Player APIs (`api/torrserver.go`, `stremio.go`, `torrent2http.go`) | none | handlers | protection checked before the lock | calls the engine |
| Process, memory limit (`cmd/fluxtorrent`) | none | start, stop, memoryLimitFor | handlers still running when the engine closes; arithmetic on limits | orderly stop; a limit that fits |
| Web UI: the live list (`api.ts`, `App.tsx`) | torrents shown, one WebSocket, one timer | connectEvents, ingest, api.list | reconnection, unmounting, events dropped, replies overtaken | one connection; the page ends up with the engine's list |
| Web UI: gate (`main.tsx`, `Login.tsx`) | phase | resolve, login, logout, 401 handler | a 401 that answers an older request | noticed expiry, a login that lasts, no button stuck |
| Web UI: forms (`RulesEditor.tsx`, `SettingsView.tsx`) | document, dirty, saving | load, edit, save | replies replace what is in the form | saved means stored |
| Web UI: library (`App.tsx`, `TorrentTable.tsx`, `DetailPanel.tsx`, `Sidebar.tsx`, `StatusBar.tsx`, `util.ts`, `use-media-query.ts`) | filter, selection, menus, layout | ingest, select, menus, toolbar, add box | the list is sorted anew under an open menu; two layouts; the same thresholds in several components | a menu acts on its torrent; the numbers agree; the layout is the window's |

### How they interact

* Handlers call Add, Ensure, OpenStream, Drop, Delete and Retire. Add, Drop and
  Delete work under the lock of the infohash; Ensure takes it only through Add.
* The active limit runs inside Add, under `e.mu`, and closes torrents of *other*
  infohashes, whose locks Add does not hold.
* A stream's end, the reaper, the enforcer and a player's "rem" all end in Drop,
  Delete or `retire` by infohash, having decided from what they read earlier.
* Records are read, changed and written back by Add, `retire`, the enforcer and
  the janitor; only Add and Delete hold the infohash's lock while doing so.
* The janitor and CleanOrphans remove folders, found by name, under no lock of
  the infohash; they ask `e.managed` first.
* Handlers that add and drop torrents announce it to the hub, and `broadcastLoop` sends
  it the engine's list every second; the hub fans out to a channel per
  WebSocket client and drops what finds a channel full.
* The page asks for the list when it mounts and on "dropped" events, and otherwise
  shows what the WebSocket brings; a closed connection is opened again after two seconds.
* All replies go through one function that turns a 401 into the login
  screen, which unmounts the page and whatever form is in it.
* The torrent client calls the piece stores; it is modelled from how the code
  uses it and marked external in `PROJECT.json`.

## 2. The modules

| Module | Models | Built on |
|---|---|---|
| `KeyedMutex` | what `lockHash` promises: a fair mutex per key | |
| `HashLock` | `lockHash` and its release as written | refines `KeyedMutex` |
| `TorrentLife` | what the engine promises of one infohash: gone, joining, active, leaving, gone | |
| `Lifecycle` | Add, Ensure, Drop, Delete, streams, sweeps | uses `KeyedMutex`'s guarantee, refines `TorrentLife` |
| `Shutdown` | `Engine.Close` against all of `Lifecycle` | extends `Lifecycle` |
| `RamStore` | the RAM piece store | |
| `Retention` | files and records of disk torrents, restarts | uses `NoZombie` of `Lifecycle` |
| `Hub` | `hub.go`: the fan-out and both pumps of every client | |
| `Events` | broadcastLoop, announcements, the page's connection and its list | extends `Hub`, and refines it |
| `Store` | rules and settings in the database and in memory, and the requests for them | |
| `Gate` | the login gate and the handlers it talks to | |
| `WebUI` | one tab: the gate, the view, the two forms | extends `Store` and `Gate` |
| `Library` | what the page does with the list | |
| `HashLock_proofs`, `Lifecycle_proofs`, `Engine_proofs`, `RamStore_proofs`, `Retention_proofs`, `Events_proofs`, `WebUI_proofs`, `Library_proofs` | theorems | `Engine_proofs` builds on `Lifecycle_proofs` and `Shutdown` |
| `MCHashLock`, `MCLifecycle`, `MCShutdown`, `MCRamStore`, `MCRetention`, `MCEvents`, `MCWebUI`, `MCLibrary` | instances for TLC | |

Actions bear the names of the functions they model, or of a step of them. One
action is one section under `e.mu`, one bbolt transaction, one call of the
client library or one `RemoveAll`; what the code does between two of these
touches only the goroutine's own variables and is folded into a neighbour.
`pc[p]` is where a goroutine is, `op[p]` what it is there for; `hash`, `tor`,
`copy`, `folder`, `l` are its local variables.

### HashLock and KeyedMutex

`Enter` is the section of `lockHash` under `hashLocksMu` (look up or create, count
in), `Lock` the acquisition of the entry's mutex, `Unlock` and `Leave` the two halves
of the release function (unlock; count out and delete at zero). Entries are
identities: an entry is free for reuse when neither the map nor a goroutine points
to it, which is what the garbage collector would do. `HashLock` is
checked and proved to implement `KeyedMutex`; `Lifecycle` then uses the
abstract lock, `lock[h]`, one step for getting it and one for giving it up.

### Lifecycle and TorrentLife

`client[h]` is the client library's torrent for `h`, `managed[h]` the engine's;
`readers`, `keep`, `dropped` are fields of the torrent's `managed` structure,
`older` the order in which they were last touched (`lastTouch`), which is all the
active limit asks of time. `Add` is the chain `StartAdd`, `Lock`, `AddCheck`,
`AddSpec`, `GotInfo` or `TimedOut`, for disk mode `ReaddDrop`, `AddAgain` and again
the metadata, then `Build` or `NotPlayable`, `Register` (which includes
`enforceActiveLimitLocked`), `Save`, `Unlock`. Drop and Delete are
`Remove`, `CloseManaged` and `DeleteRecord`; Ensure and OpenStream are `Ensure`,
`EnsureRecord`, the Add chain with `op = "wake"`, `EnsureAgain`, `Attach` and
`Release`. `ReapIdle` and `SeedVisit`/`SeedCheck` are the sweeps' decisions, each
followed by a Drop or Delete of its own; any goroutine may run them, which
allows more than the single enforcer of the program. Whether a record exists is a
free choice here: records are the state of `Retention`.

`Dispose` is `t.Drop` of the client, which panics on a torrent already
closed; `DropManaged` is `dropManaged` with its `markDropped` test. A panic is
recorded in `panicked`.

`TorrentLife` is the promise of the header of `lifecycle.go`: one infohash at a
time goes gone → joining → active → leaving → gone, or joining → gone. The refinement
mapping reads a hash's life off `client`, `managed` and where the lock's holder is.

### Shutdown

`Engine.Close` drops all managed torrents in one section, then closes the client.
`main` waits ten seconds for the handlers and then calls it whatever they are
doing, so that every step of `Lifecycle` may come in between.

### RamStore

One action per method. `have[p]` is the set of chunks the client wrote since the
piece became resident, `resident` the pieces in memory, `older` the relation between them that
the clock of last uses makes, `used` the byte count. A piece is
verified (`Hash`, external) only when it is all there, as the client does; it writes
chunks of valid length and none after it closed the torrent.

### Retention

`open` is what the client runs (and writes), `active` and `keep` are `e.managed` and
its `keepSeed` flags, `onDisk` the folders, `rec` the bucket of records. Add, Drop and
Delete are the chains of `Lifecycle` as far as files and records see them;
`MarkRead`/`MarkSave` are `retire`'s two transactions; `ListDue`, `Sweep`, `Removed`,
`Forget` are `sweepPending`, `ScanDisk`, `ScanActive`, `ScanRecords`, `Evict`,
`Removed`, `Forget` are `enforceDiskCap` and `CleanOrphans`; `todo[p]` is what is left of
the list a loop walks. `Crash` clears all but files and records and leads to
`ResumeKeepSeed`. Time is a choice: `Elapse` lets a grace window pass, idle
torrents are any subset, the cap may be exceeded or not. Readers are not kept:
viewers come and go before anyone acts on their number, so that whoever acts
only on idle torrents may act on any. `DataPath[f]` is what `safeDataPath` makes of the
name of a folder: a path, or `None` when it refuses the name; the sweeps then keep folder and
record, and `Delete` keeps the folder. `RemoveFails` is a `RemoveAll` that fails. `steady` and `owed` are history variables for
two properties.

`Reclaimed` follows a torrent whose window has passed and that is not in use (`Claimed`) until its
files *and* its record are gone, or it is in the client again, has a new window, or is being
deleted on request (`Disposed`). A torrent that is already being forgotten, after a `RemoveAll` that
succeeded, is not `Claimed`: an Add that comes and is abandoned between `RemoveAll` and
`DeleteTorrent` can bring files back just before the record goes, and these no sweep finds by
a record again. Its second condition, that the name is a path as it is, is needed: finding f.

`Protected` speaks of torrents that have been active ever since the sweep began (`steady`). What
becomes active during a sweep, between `isActive` and `RemoveAll`, does lose its
files, and an Add between `retire`'s two transactions leaves a marked record behind an active torrent,
against `config.go:141`; the model has both, and no property excludes them.

### Hub and Events

`clients`, `out`, `send` are the hub's map, its queue and the channel of each client; `chan`
says whether that channel is open, `reader` and `writer` where the two pumps are,
`up` whether the connection carries bytes as the server sees it. A rendezvous on an unbuffered channel
(`Register`, `Unregister`) is one step; so is a fan-out, which `hub.run` does without
interruption. `Collect` lets the name of a connection be used again.

`Events` adds who feeds the hub and who reads. The engine's list goes through the
versions of `Script`; `Tick` and `Push` are the halves of `broadcastLoop` (List, then
broadcast), `Announce` the handlers. `sock[c]` is the browser's WebSocket, `mine[c]` whether its
callbacks belong to the App on the screen, `timer` the pending `setTimeout`s,
`request` the list requests in flight. `Ingest` has the case of an event without
torrents. The browser and the server learn at different times that a connection is
gone (`Lose`, `Bye`; `ReadFails`, `SockClosed`).

### Store, Gate and WebUI

Documents are numbers, 0 the one `normalize` corrects. A request is a record of `call`: what it
asks, how far it is, whether its credentials were good when it was sent, and whether the
component that awaits it is still on the screen (`live`). `Persist` and `HotSwap` are the two steps
of `Put`; `Reopen` is a restart, which forgets all sessions and puts `applyEnv` over the settings, any function of them,
as `Open` does with the environment. A read of the database that fails is left out: `getRules` drops the error and answers
with an empty list, which needs a corrupt or a closed database.

`Gate` has `AuthGate`'s phase, the requests of the login screen, the logout button, and
App's own polling, in the three configurations of the server: with a UI password, with an API token only, with
neither. `SwapToken` sets or clears the API token, a setting, under the open page; in `WebUI` it is `Retoken`, after
which the requests under way may have lost or gained their credentials. `WebUI` puts the form of the current
view on the screen; leaving the view or the app (`Leave`, `Fresh`) drops the state of the form and
orphans its requests. `calm` is a history variable: nothing has crossed a request of
the form that is on the screen, edits made while a reply is awaited included: such an edit is thrown away by
the reply, which `ShownIsStored` does not exclude (section 5).

### Library

A torrent is a record with its hash; `Infos` are all looks of all torrents, and the engine's list is any finite
set of these in which no hash occurs twice, the newest first. App's state, and as functions of it what is on the screen: `filtered`, `counts`, `Rows` (table rows or
cards), `totals`, `StatusBar`, `Detail`. Every action ends in `Render(p, t)`, which says what
becomes of the state React keeps below App: an open menu goes with its row
or when table and cards change places, the tab of the detail panel with the panel. `wide` is the window,
`desktop` what `useIsDesktop` returned, `change` a due event. `sent` is what the last
step asked of server or browser; `aim` is a history variable: the torrent of the row on which the user opened
the menu.

## 3. The runs

`PROJECT.json` lists them with the properties of each. State counts are TLC's
distinct states with the bounds given.

| Run | Instance | States | Shows |
|---|---|---|---|
| `hashlock` | 3 goroutines, 2 hashes, 3 entries | 1,507 | the lock table excludes, leaks nothing, serves everybody, and implements `KeyedMutex` with its fairness |
| `lifecycle` | 2 goroutines, 2 hashes, 4 torrents, limit 1 | 309,687 (up to symmetry) | safety of the engine, and that it implements `TorrentLife` |
| `lifecycle_live` | 2 goroutines, 1 hash, 3 torrents | 211,328 | operations end; no torrent is stuck between gone and active |
| `shutdown` | 2 goroutines, 1 hash, 3 torrents | 85,334 (up to symmetry) | until the client closes, `Engine.Close` breaks nothing |
| `ramstore` | 2 torrents with 2 pieces each, 2 chunks a piece, budget 3 | 51,273 | accounting, completeness, the budget and LRU |
| `retention` | 1 request goroutine, janitor, enforcer, 1 hash | 322,899 | files in use stay; what is due goes, files and record, over failing removals and any stops |
| `events` | 1 connection, 3 versions, channels of 1, 2 breaks | 86,896 | the hub never touches a closed channel and forgets who is gone; one live connection; the page catches up |
| `webui` | 2 requests, 2 documents of 2 values, 1 foreign write | 2,003,584 | a rule editor with nothing to save shows what is stored |
| `webui_live` | 1 request, all 3 configurations, tokens set and cleared | 37,134 | expiry is noticed, a login lasts, no button stays disabled |
| `library` | 2 torrents of 4 looks, 2 tabs | 250,484 (up to symmetry) | menus act on their torrent, the numbers agree, the layout is the window's |
| `retention_shared` | 2 hashes of one name | violation | finding 1 |
| `events_empty` | as `events`, nothing breaks | violation | finding 2 |

Further instances, to be run by hand:

| Configuration | Module | Shows |
|---|---|---|
| `MCEvents.cfg` | `MCEvents` | safety with 2 connections, so that one page's old and new connection overlap, and `InOrder`: no connection carries an older list behind a newer one (892,796 states up to symmetry, passes) |
| `MCLifecycleUnbounded.cfg` | `MCLifecycle` | `OpenStreamReturns` is violated (section 5, a) |
| `MCLifecycleViewers.cfg` | `MCLifecycle` | `SeedingSparesViewers` is violated (b) |
| `MCRamStoreIdle.cfg` | `MCRamStore` | `OverBudgetOnlyInFlight` is violated (c) |
| `MCRetentionRestart.cfg` | `MCRetention` | `SharingSurvives` is violated (d) |
| `MCRetentionRefused.cfg` | `MCRetention` | `RefusedStay`: a folder whose name `safeDataPath` refuses is never removed, and its record only on request (120,442 states, passes) |
| `MCRetentionBlanks.cfg` | `MCRetention` | `ReclaimedByAnyName` is violated (f) |
| `MCWebUITorn.cfg` | `MCWebUI` | `MemoryIsDisk` is violated (e) |

### Why the bounds are enough

* *HashLock*: the races need one goroutine leaving, one that has looked up and one
  that comes after; three goroutines. Two hashes, so that entries can be
  confused. As many entries as goroutines, as every entry in use has a user.
* *Lifecycle*: goroutines meet in pairs, at the lock of one hash or where the sweep of
  one closes the torrent of another; with two hashes and a limit of one every
  registration may evict. Names of torrents are reused once nothing points to
  them, so |Hash| + |Proc| names never run out. The theorems below do
  away with these bounds for all invariants of the run.
* *lifecycle_live*, *shutdown*: one hash, where all waiting happens; the limit may
  evict the torrent just registered.
* *RamStore*: the budget of three is passed by the two long pieces, or any three; so
  zero, one or two victims, victims of the other torrent, and a store that is
  over its budget with nothing to evict all occur.
* *Retention*: one hash, because its goroutines meet at one record and one folder; the
  run `retention_shared` and the theorem `SweepsSpareActive` have more. The
  enforcer and `ResumeKeepSeed` are one goroutine (`Seeder = Booter`),
  which leaves out the enforcer at work during a resumption's Add; a request's
  Add, which takes the same steps, does meet the enforcer, and the theorems have the two
  apart. A second request goroutine would do what the enforcer already does beside the first. Torrents in the run are public; for private
  ones the code goes from retire to Delete, which requests call too.
* *events*: one connection suffices for all liveness: the page has at most one of its own
  (`OneSocket`), and its next one waits until nothing of the old is left. Channels of
  capacity one are full as soon as anything waits, so that events are dropped in the
  hub and in the fan-out. Two breaks: one to be reconnected after, and one of that
  reconnection. The script goes from a list through an empty one to another, so that
  stale and empty events both occur. `MaxLists = 1`: one list request is
  under way at a time. A reply overtaken by events is in the run; two
  replies of `api.list()` in the wrong order need `MaxLists = 2`, with which the same
  configuration passes too (394,902 states), at several times the cost.
* *webui*: two requests, so that a save and a load, two saves, or a request of an
  earlier form and one of the present one cross; more in flight are further pairs of these.
  Two values tell an edited document from the stored one. `MaxForeign = 1`: one write
  of another client may come at any moment. *webui_live* has one request:
  its properties are about the gate and about one button at a time.
* *library*: two torrents change places and come and go one by one. The four looks are the edges: just below and at the
  threshold of progress, shared by time, by ratio and not at all, a speed at which the unit
  changes, no files, and a playable file that is not the first.
* There are no counters to cap but `MaxBreaks` and `MaxForeign`; `Lifecycle`'s reader counts are bounded by the
  number of goroutines.

`MCShutdown.cfg` says `CHECK_DEADLOCK FALSE`: after `cl.Close` the program is at its
end and goroutines that wait for the client wait for ever.
`MCLifecycle.cfg`, `MCShutdown.cfg`, `MCLibrary.cfg` and `MCEvents.cfg` use symmetry, and check
safety only.

### Fairness

* *HashLock*: a goroutine that holds the lock gives it up, and `sync.Mutex` is
  starvation-free (its starvation mode hands the lock to the waiter of longest
  standing). Both are stated in `HashLock`'s `FairSpec`; `KeyedMutex`'s own fairness
  is what `ImplementsKeyedMutex` then derives.
* *Lifecycle*, `FairSpec`: goroutines run on (weak fairness of `Run`), the lock is
  fair (strong fairness of `Lock`), and an Add made for a handler or for resumption
  gives up at its deadline (90 s, `server.go:109`, `torrserver.go:81`, `stremio.go:87`; 120 s,
  `seeding.go:171`). Metadata and peers need never come; streams need never end; a player need
  not hang up. `ImpatientSpec` adds that no player waits for ever on a stream that
  does not start, which the code does not enforce; `lifecycle_live` uses it. It thereby assumes away that the
  lock of a hash is held for as long as the slowest caller waits for metadata: what the run shows
  is that nothing else keeps an operation from ending, a lock leaked by an early return for one.
  `MCLifecycleUnbounded.cfg` shows that without it operations need not end.
* *Retention*, `FairSpec`: the program is stopped finitely often; the janitor's
  ticker goes on and again and again finds the janitor free to begin with the due records
  (strong fairness of `ListDue`, as `janitor.go:37-39` calls `sweepPending` first); it
  works its list off (weak fairness of `WorkOff`); and `RemoveAll` does not fail for ever
  (strong fairness of `Removed`). Nothing is assumed of requests, downloads or the enforcer.
* *Events*, `Fairness`: goroutines run, timers fire, what is sent over a connection that
  lives arrives, and a request is answered or fails. Nothing is assumed of the handlers
  or the user: lists need not change, connections may stay up for
  ever. Of the network it is assumed that a connection that is lost is noticed: by the server, whose TCP gives up on a
  peer that is silent, and by the browser, which closes the socket (weak fairness of `HubStep`, with
  `ReadFails` in it, and of `SockClosed`). Neither side pings, so that this may take long when nothing is sent. `CatchesUp` has the premise `Quiet`: handlers that announce without end could
  fill `hub.out` before every `Push`.
* *WebUI*, `Fairness`: the server answers, replies arrive, App's interval fires, and a user
  in front of the login screen goes on logging in. That every request ends, with an answer or a
  failure, is what `Unblocked` rests on: the page has no timeouts of its own. Strong fairness of a login's success (who
  has the password gets it right some time) and of a poll that meets its 401 (not every
  poll is lost or crossed by something else). `LoginSticks` has the premise `Settled`: sessions end no more, by
  expiry, restart or the user's own logout.

## 4. The proofs

All for every number of goroutines, infohashes, torrents, folders or connections.

**HashLock_proofs.** The inductive invariant is `TypeOK /\ OneEntryPerHash`: whoever is
inside `lockHash` points to the entry the map has for its hash; an entry in the map
is used and its count is the number of its users; hashes share no entries;
who is past the mutex owns it. The count is the hard part: `Leave` deletes
the entry when the count it decremented is zero, and only because the count is the cardinality
of the set of users is that entry unused. `MutualExclusion` and `NoLeak`
follow without a further induction. `Implements` shows that each step is one of `KeyedMutex`
or a stutter (its safety part).

**Lifecycle_proofs.** The properties are not inductive: that `managed` holds
live torrents depends on who is between `lockHash` and its release. `IInv` says who
answers for each torrent of the client: where `client[h]` and `managed[h]`
differ, one goroutine that has the lock of `h`, is at a place where it brings the
torrent in or takes it out, and points to it (`Responsible`, `Settled`);
a torrent belongs to one hash (`Distinct`), and what is managed was not
dropped (`Undropped`). Since holders of different hashes hold different torrents,
closing one disturbs nobody; the sweep of the limit, which
has no lock, takes its victims from the map in the same section in which it closes them.
`NeverPanics`, `Alive`, `Zombieless`, `NoAdoption` and `TypeCorrect`
follow from `IInv`; `Implements` maps each action to a step of `TorrentLife`, one infohash at a
time, `Register` to the activation of one and the retirement of others.

**Engine_proofs.** What `IInv` lets one prove of the whole engine. `ExactCount`: the reader count of a torrent is
the number of goroutines between `markStreaming` and `releaseReader` on it, which is a cardinality and so needs
the set of goroutines to be finite. A torrent's count starts at zero when it is
registered; that nobody streams it then is `Fresh`: a torrent on its way in is
pointed to by no one but the goroutine that brings it. `Limited` is `LimitEnforced`: a registration that finds
more torrents than the limit allows closes as many idle ones as there are too many, or all there are, and the oldest. Two facts
make it true for every limit: the map has finitely many torrents at any time, though infohashes may be
infinitely many, and `older` orders them strictly, so that the number of older candidates is different
for any two of them; the victims are then those with fewer older ones than there are to close.
`SafeShutdown`: until the client closes, shutting down is just
one more source of steps that `IInv` survives; after that nothing is claimed, as
`Close` pulls the client from under the operations that run.

**RamStore_proofs.** The byte count is the cardinality of a set, the bytes of the resident pieces
(`BytesOf`), so that no induction is needed: `BytesUnion` and `BytesDifference` say what adding and evicting
pieces does to it. The invariant `RInv` says that the resident pieces are finitely many, ordered strictly by `older`, that
`used` is what they weigh (`Accounted`), and that a resident piece that is complete is all there (`Whole`,
of which `CompleteWhole` is a part). In a strict order the victims of an eviction are downward closed: what is older than a
victim is a victim, which is `LeastRecentlyUsed`; and as the newest victim was still needed when it was taken,
eviction ends as soon as the budget is met, or with nothing left to evict (`WithinBudget`).

**Retention_proofs.** `TypeCorrect` needs two facts besides the types: what an
operation is about to write back is a record it did read (`Copied`), and what a
scan of the disk has listed are folders (`Listed`). `DeletesClosed`: who is past `lockHash` has the lock (`Held`); past
the removal from the map the torrent is not active (`Out`), past the drop it is not open
(`Shut`), and no one else can open or register it meanwhile, as that needs the lock.
`SweepsSpareActive`: whoever comes to `RemoveAll` has just looked that the folder belongs to
no active torrent; what has been active since the list was begun is active at
that moment, and so does not have that folder, if folders are not shared. That condition is a
hypothesis of the theorem (`Unshared`), with another that `safeDataPath` takes a name as it
is or refuses it, for blanks around a name may lead to the folder of another torrent; finding 1 is what happens
without the first.

**Events_proofs.** `HubSafety` is about the hub alone, with clients that do anything: its invariant
is `HubTypeOK /\ ClientLife`. `ClientLife` ties the map to the read pumps: a client is in
it exactly from its registration to its unregistration, which happens once, and its
channel is open until then. That the hub never sends on a closed channel follows; by itself it
is not inductive, as nothing would say that a client unregisters only once. `Implementation` shows that
every step of `Events` is one of `Hub` or leaves the hub alone, which carries `NoPanic` over
(`Safety`), with `TypeCorrect` for the rest. `Sockets` is `OneSocket`, whose two halves need each other: that no
timer is pending while a socket is live, and that every closure of a page that is gone has let go of its
socket, so that its late `onclose` arms nothing. `Ordering` is `InOrder`; its invariant `OrderInv` gives each
queue its place: what is in a client's channel precedes what is in the hub's, which precedes what `broadcastLoop`
holds, which is no newer than the list. A fan-out moves an event across such a border, and may drop it for some; a client that joins late
begins with an empty channel; one that leaves keeps its channel in order, but no longer behind the hub's.

**WebUI_proofs.** `EditorTruthful` is `ShownIsStored`. Its invariant adds `Uncrossed`, about the rule editor on the
screen: while nothing has crossed its requests (`calm`), it awaits at most one reply; every save of rules under way is its own, so
that what a load was answered with is still stored when the reply arrives; what a save is answered with is the
document it wrote; and from the save to its reply the editor says that there is something to save. `SwapsSettings`
says that only settings have a second step between being persisted and being answered.

**Library_proofs.** `RightTorrent`: `PopupInv` says that an open popup hangs on the row it was opened on and that
this row is on the screen. It is inductive because every action ends in `Render`; then a step
that asks something of a torrent while a menu is open can only be one of its items
(`OnlyItems`), all else being under the modal menu. `RightLayout`: `LayoutMatches`
is inductive with the types of the hook's state; the step that makes it so is the
effect, which looks at the window again before it listens.

`Agreement` is `Coherent`, for lists of any length. Its invariant is `Listed`: the list is a sequence of torrents, in
the order of ingest (`Ordered`), each hash once (`Distinct`). Sorting, filtering and adding up are
folds, about which a proof needs to know what they compute: `SortedSteps`, `FilteredSteps` and `TotalSteps`
show that each is the end of a chain of steps, one per torrent, and `SortedIs`, `FilteredIs` and `TotalIs`
follow by induction on these chains. Induction itself is `Induct`, which speaks of a set of numbers; it comes from the least element of a set (`Least`), and that
from the well-foundedness of the naturals. The heart of sorting is `InsertKeeps`: in a list in order, the
torrents that are not behind a new one are a beginning of the list, as `Before` is a strict order in which ties are
transitive, so that counting them finds the place. `SidebarAgrees` is then a matter of partitions
of a finite set (`Part`), `TotalAgrees` of rounding that is monotone over the change of units (`ShowsMonotone`),
and `DetailAgrees` of hashes that are distinct: the marked row is the selected torrent's.

The assumptions are those the modules state: `None` is none of the other
values, an active limit is at least one (`config.go:313-315`), sets of goroutines are finite where counted, each
infohash has one folder, channels have room for one event, a piece has a length and chunks, another
client writes finitely often, a torrent looks like `TorrentInfo` (`api.ts:38-55`), and `"general"` is a
tab; `safeDataPath` gives a name a path or refuses it, and the environment turns settings into settings. None is needed of the number of torrents, of lists or of looks.

**Model-checked only.** Liveness: `Served`, `OperationsFinish`, `ActiveOrGone`,
`Reclaimed`, `Forgotten`, `CatchesUp`, `ExpiryNoticed`, `LoginSticks`, `Unblocked`, and the fairness
half of `ImplementsKeyedMutex`, which TLAPS does not prove. Every other property of the
passing runs is a theorem.

## 5. Findings

Checked by a run:

1. `janitor.go:86` promises that active content is never touched; retired torrents
   are found by infohash and their files by name, so a second torrent of the same
   name loses its files (`retention_shared`).
2. `README.md:335` promises live events with the list; an event whose list is empty
   has no list (`hub.go:17`, `omitempty`), on which `ingest` throws (`App.tsx:64`, `71`)
   and `onmessage` swallows the exception (`api.ts:216-222`). When the last
   torrent goes without an announcement the page goes on showing it (`events_empty`).

Counterexamples of the further instances:

* a. `stream.go:35` promises that OpenStream returns by the no-peers timeout; the
  re-add inside `Ensure` waits for metadata as long as the player's connection lives,
  holding the lock of the infohash (`MCLifecycleUnbounded.cfg`).
* b. `seeding.go:127` promises not to cut off an active viewer; the enforcer acts on a
  reader count it read before unlocking (`MCLifecycleViewers.cfg`).
* c. `storage_ram.go:14` promises bounded memory by eviction; only writes
  evict, so pieces verified after the last write stay over the budget (`MCRamStoreIdle.cfg`).
* d. `seeding.go:11` promises that sharing survives restarts; torrents kept for seeding
  without a numeric target are not resumed (`MCRetentionRestart.cfg`).
* e. `config.go:146` calls the store safe for concurrent use; two settings updates may be
  persisted in one order and published in the other, after which the database and
  memory disagree until the next start or update (`MCWebUITorn.cfg`).
* f. `janitor.go:269-271` promises that a record goes only once its files are gone;
  `safeDataPath` cuts blanks off a torrent's name (`janitor.go:295`), the client does not, and `RemoveAll` of a
  path that does not exist succeeds: the record goes and the folder stays. `CleanOrphans` and the disk cap
  cut the blanks off too, and miss it as well (`MCRetentionBlanks.cfg`).

Behaviours of the page that the models have and that no property excludes, as nothing in the
repository promises otherwise:

* A rule editor whose load failed can add a rule and save, which replaces all
  rules by that one; a reply that arrives after an edit throws the edit away (`RulesEditor.tsx:31-56`).
* `SettingsView` goes on showing what was typed, not what `normalize` made of it (`SettingsView.tsx:36-46`).
* A successful add empties the box, also of what was typed while it was under way (`App.tsx:91`).
* On a phone the detail drawer opens by itself when the selected torrent comes back
  to the list (`App.tsx:306`).
* With an API token and no password, the login screen that a 401 leads to accepts nothing (`auth.go`).
* Drop and remove do not go through the function that handles a 401, so that
  they fail silently when the session is over (`api.ts`).

## 6. Not modelled, and why

* The bytes of streams, ranges, readahead and rate meters (`stream.go`, `diskfile.go`), and the
  global rate limits (`engine.go:294-315`): wrappers
  around the client's reader without state of their own that outlives a request.
* What `infoOf`, `List` and `statsOf` show: read-only.
* The torrent client: external. Assumed of it: `AddTorrentSpec` returns the torrent it
  has for a hash or makes one, `Drop` of a closed one panics (the reason for
  `lifecycle.go`), stores are called as described under RamStore.
* bbolt: a transaction is atomic and durable.
* `storage_disk.go`, request parsing, status codes, CORS, logging, the
  static file server, `go.mod` and build files: no behaviour to check.
* Of the web UI: `OrphanCleanup` and `DiskUsage` (what is shown is one scan, what is deleted
  another, `SettingsView.tsx:264-287`; the deletion is `CleanOrphans` of
  `Retention`), `HelpDialog`, translations, `copyText` and the label of a player's agent, which
  have no behaviour beyond their text, and `components/ui`, wrappers of a component library. What
  React, Radix, the browser's WebSocket, its media queries and its timers do is modelled
  from how the page uses them.
* The counters of the login throttle over time: that a login may be refused is in `Gate`.
* A panic of the client other than by a second Drop; a full disk; corrupt records.

## 7. The plan

Order of importance; each is a module with a run, mutants and, where named, theorems.
The modules that are pure functions can share an instance.

1. `Retention`, completed: a player's "rem" and "drop" race with a torrent that is just
   being added with a seeding obligation (`torrserver.go:114`); private torrents; the
   interleavings that `Protected` leaves out, if the code comes to promise more.
2. `Seeding`: uploaded bytes and seed time over drops, re-adds, restarts and two writers of a
   record (`engine.go:455-500`, `seeding.go:88-151`). Property: what was uploaded is counted once, at
   most the part since the last save is lost; a target is met once.
3. `Throttle`: the login throttle over discrete time, against a reference that says when an address is
   locked (`auth.go:142-183`).
4. `Normalize`: what `normalize` and `applyEnv` make of each field of the settings, and that
   it is a projection (`config.go:289-355`).
5. `Sizing`: `memoryLimitFor` and the RAM budget with 64-bit integers, against the limits its
   comments state (theorem: the limit never exceeds the container's share and is
   monotone in the cache).
6. `Rules`, `Classify`: first match wins, against a declarative definition, over all short lists;
   with the merge of private seeding and rules in `Add` (`engine.go:455-481`).
7. `Eviction`: the order in which `enforceDiskCap` takes entries and stops
   (`janitor.go:88-135`), against a reference; with `scanDisk`'s sizes.
8. Player APIs: TorrServer's and torrent2http's verbs as compositions of engine operations.
9. `OrphanCleanup` over `Retention`: what the user confirmed against what is deleted.

Theorems still to prove are those of the modules above. For `Retention`, that private torrents and a player's
"rem" keep `Protected`; for `Seeding`, that nothing is counted twice; for `Sizing`, monotonicity.

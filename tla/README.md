# GoRemote: a TLA+ verification project

GoRemote is a desktop remote-connection manager written in Go. This directory
holds TLA+ modules of the parts of it where concurrency, failure and long
sequences of commands make the code hard to test, the TLC configurations that
check them on small instances, and TLAPS proofs for instances of any size.

`PROJECT.json` is the index: every definition with the source lines it models,
every run with its properties, every property with a mutant of the code that
breaks it, the findings, the hazards and the theorems.

    tlasany Tree.tla                               parse a module
    tlc -workers 2 -config MCTree.cfg MCTree       model-check a run
    tlapm TreeProofs.tla                           check the proofs of a module

## 1. The system and its parts

| part | state | operations | talks to |
|---|---|---|---|
| connection tree (`internal/domain/tree.go`) | folders, connections, parent ids, two child indexes | add, move, remove, walk | called by the commands under `App.treeMu` |
| commands (`internal/app/commands.go`) | none of its own | create, update, move, delete, duplicate, import, export, restore, list, search | tree, store, event bus |
| application (`internal/app/app.go`, `persister.go`) | `dirty`, `persistSig`, `started`, `stopped`, `persistMu`, `treeMu` | Start, markDirty, flushNow, the persister loop, Shutdown | store, sessions, hosts |
| session manager (`internal/app/sessions.go`) | the session map; per session pipes, subscribers, `closed`, `done`, credential | OpenSession, SubscribeOutput, CloseSession, closeAll, fanOut | credential host, protocol host, event bus |
| event bus (`internal/eventbus/bus.go`) | subscribers with their channels, counters | Subscribe, Publish, Close | everything that publishes |
| store (`internal/persistence`) | four JSON files, a directory of backups | Save, Load, Backup, Restore, migrate | application |
| plugin, protocol and credential hosts (`host/`) | registered plugins, failure counts, quarantine | Register, Unregister, Open, Resolve | application, plugins |
| plugin IPC (`host/plugin/ipc`, `proto`) | requests in flight, connections | Call, readLoop, Serve, Stop | external plugins |
| external plugins (`app/extplugin`, `app/marketplace`) | scanned entries, status file | Refresh, SetStatus, Forget, install | plugin host, disk |
| git sync, updater (`app/sync`, `app/update`) | a git work tree and its remote; the executable and `.old` | add, commit, push; check, download, swap | started by `cmd/desktop/main.go`, a goroutine each |
| settings, workspace, diagnostics (`app/`) | one file each | load, save, collect | GUI |
| protocol plugins (`plugins/protocol-*`) | sockets, goroutines, `once` and `started` flags | Open, Start, SendInput, Close | protocol host, session manager, a remote |
| credential plugins (`plugins/credential-*`) | a vault, its lock state, an index | Unlock, Resolve, Put, Delete, Lock | credential host, keychain |
| GUI (`cmd/desktop`) | registry of sessions, reservations, tabs, panes, windows | open, split, detach, reattach, reconnect, close, Disconnect all, switch profile | the application's commands, a watcher goroutine |

What is hard in it, and what makes each part correct:

- **Tree.** A node's place is stored twice, in the node and in an index, and
  different functions follow different ones. Correct means: after any sequence
  of commands there is no cycle, no orphan, the two agree, a walk finds
  everything and a restart loses nothing.
- **Event bus.** Publish, cancelled contexts and Close race for a channel that
  is closed outside the lock. Correct means: no panic, each event at most once
  and in its publisher's order, a publisher never waits, every channel is closed
  in the end.
- **Persistence of the application.** A flag, a one-slot channel and a debounce
  stand between a change and the disk; a flush reads the live tree; exports,
  restores, failing saves and Shutdown come in between. Correct means: nothing
  older replaces what was saved, a clear flag means saved, a set flag is
  flushed, Shutdown returns.
- **Sessions.** Each session has a run goroutine, a fan-out goroutine, a
  goroutine per subscription, and callers that close it. Correct means: no
  panic, a CloseSession that waited leaves nothing behind, credentials are
  wiped, everything ends.
- **Store.** A snapshot is four files, a restore two renames of directories and
  a move; the process may die, and any call fail, between any two of them.
  Correct means: readers see the files of one Save, what a restore replaced can
  be brought back, a restore that succeeded is complete.
- **Hosts.** Two hosts keep a map each of the same plugins, and call Init,
  Shutdown, Open and Resolve outside their locks. Correct means: one module per
  id is initialised, none is lost, one that is found is live, and a quarantine
  was earned by failures in a row, none counted after the window.
- **IPC.** Callers share a connection, give up, and lose it; the server drains.
  Correct means: an answer goes to its own call, a lost connection fails every
  call, a cancelled Serve leaves no connection open.
- **Protocol plugins.** Start has up to four goroutines, Close up to four
  callers, and Open many error paths. Correct means: nothing stays open after a
  failed Open or an ended session (idle connections of http do), a closed session
  winds up completely, telnet's
  two ends understand each other, an SFTP copy reported as done is whole, a
  changed host key is refused.
- **Desktop.** Six maps describe the open sessions; goroutines change them
  through the UI's queue while the user clicks. Correct means: panes, registry
  and reservations agree, and an ended session leaves.
- **What else is kept on disk.** Plugin folders, vaults, a git checkout, the
  executable, each changed in several steps that can fail. Correct means: nothing
  is enabled that the user did not enable, no secret is lost, a reported sync was
  pushed, an executable is always there.

`PROJECT.json` lists all parts under `components`, and the hazards with the
line where each bites under `hazards`; a hazard without a property says why.

## 2. Modules

| module | models | run by | proofs |
|---|---|---|---|
| `Tree` | `tree.go`, the tree commands of `commands.go`, `codec.go` | `MCTree` | `TreeProofs` |
| `EventBus` | `bus.go` | `MCEventBus` | `EventBusProofs` |
| `Persister` | `app.go`, `persister.go`, ExportSnapshot, RestoreSnapshot | `MCPersister`, `MCKept` | `PersisterProofs` |
| `Sessions` | `sessions.go`, closeAll | `MCSessions` | `SessionsProofs` |
| `Store` | `store.go`, `atomic.go`, `backup.go` | `MCStore` | `StoreProofs` |
| `Hosts` | `host/plugin/host.go`, `host/protocol/host.go`, `host/credential/host.go`, the end of App.Shutdown | `MCPlugins` | `PluginsProofs` |
| `IpcClient` | `host/plugin/ipc/client.go`, handleConn of `server.go`; implements `Calls` | `MCPlugins` | `PluginsProofs` |
| `Calls` | nothing of the code: what a caller of the IPC relies on | `MCPlugins` | `PluginsProofs` |
| `IpcServer` | `host/plugin/ipc/server.go` | `MCPlugins` | `PluginsProofs` |
| `PluginSession` | Open, Start and Close of all protocol plugins, safeSession, run goroutine and CloseSession of `sessions.go` | `MCPlugins` | `PluginsProofs` |
| `KnownHosts` | the host key check of `protocol-ssh/module.go` | `MCPlugins` | `PluginsProofs` |
| `Telnet` | `protocol-telnet/negotiate.go` | `MCPlugins` | |
| `Sftp` | the commands of `protocol-sftp/session.go` | `MCPlugins` | `PluginsProofs` |
| `Desktop` | the session registry of `cmd/desktop/gui_fyne.go`, `fyne_session.go` | `MCPlugins` | `DesktopProofs` |
| `Registry` | `app/extplugin`, `app/marketplace`, `sdk/plugin/trust.go`, `plugins_dialog.go` | `MCKept` | `KeptProofs` |
| `FileVault`, `KeychainVault`, `TokenVault` | `plugins/credential-file`, `plugins/credential-keychain`, `plugins/credential-1password` and `-bitwarden` | `MCKept` | `KeptProofs` |
| `GitSync` | `app/sync/git.go` and its callers in `main.go` | `MCKept` | `KeptProofs` |
| `Updater` | `app/update/update.go` and its callers in `main.go` | `MCKept` | `KeptProofs` |

`MCPlugins` and `MCKept` check several components that share no state: the
initial state chooses one (`part`), only its actions are then enabled, and the
variables of the others do not move, so that the behaviours are those of each
component by itself and the state space is the sum of theirs. Where names
clash the instance renames a variable (`pc <- hostPc`). A property of the run
is the component's own, for the behaviours of that part; an instance may join
two properties of one component (`HostsConsistent`, `DesktopConsistent`,
`SecretsKept`).

A definition whose comment starts with the word mutant is not part of a
specification: it is the definition after it with a plausible mistake, and the
project records which property notices.

### Tree

Every command holds `treeMu`, so a command is one step. `parent` is ParentID,
`folderChildren` and `connectionChildren` are the indexes. `FolderSubtree`,
`WalkedFolders` and `IsDescendantFolder` are what the recursions and loops of
`tree.go` visit, stated as least closed sets, which needs no recursion and can
be reasoned about by the provers. `SaveAndReload` is encodeInventory followed,
after a restart, by decodeInventory: what is written is what the walk visits,
what is read is rebuilt from the parents. Names, settings and positions are left
out: no command looks at them to decide where a node goes.

Remove leaves a deleted connection in the root's index. The model keeps this:
`VisitNilNode` is the panic of the next walk, and `IndexesMatchParents` states
the agreement of indexes and parents with that exception. A reload rebuilds the
indexes and makes the entry disappear.

### EventBus

A publisher holds the read lock during its fan-out, so fan-outs interleave send
by send while writers wait (`WriteLockFree`). Channels are sequences with a
capacity; an unbuffered channel hands over directly or drops. `RemoveSub` and
`RemoveSubClose` are the two halves of removeSub, before and after Unlock;
`CloseBegin`, `CloseDone`, `CloseNext` are those of Close. Which of Close and
the subscription's own goroutine closes a channel depends on who takes it out of
the map. `panicked` records a send on a closed channel or a second close.

### Persister

The tree's content is a pair: `ver` counts changes, `epoch` counts the archives
restored. A command is three steps (change under `treeMu`, `dirty.Store`, the
send on `persistSig`). A flush is: take `persistMu` and the snapshot
(`FlushBegin`); Save encodes the live tree and writes it (`FlushSaved`, any
content the tree had during the window) or fails (`FlushFailed`, with
inventory.json replaced or not); `dirty.Store(false)` (`FlushClear`). Four
actors flush: the loop, Shutdown, an export, a restore. Changing the tree's maps
while Save walks them is undefined in Go and often ends in a fatal error:
`Mutate` may then set `fatal`, and so does a signal sent on the closed channel.

`atRisk`, `late`, `saved` and `expFrom` are history variables for the
properties.

### Sessions

`Open*` is openSessionInternal, `Run*` the goroutine that runs Start and winds
up, with its two defers as separate steps, `Fan*` fanOut and trySend, `Sub*`
SubscribeOutput and its goroutine, `Close*` CloseSession for any caller
including Shutdown, `Shutdown*` closeAll. Holding the read lock of a
subscriber's mutex is `fanCur`. `StartWrites`, `StartClosesOutput` and
`RunReturn` are the plugin, as the SDK's contract lets it behave. Output is
counted, not carried: a chunk is sent, dropped because the channel is full or
the context cancelled, or passes by because the channel was closed (`skipped`).

### Store

A directory is a record: whether it is there, the content of each of the four
files, and the archives under `backups/`. A content is the number of the Save
that wrote it, 0 for a missing file; WriteAtomic makes a file's replacement one
step (`SaveFile`). An archive has a name (second and suffix), a number in the
order of the modification times pruneBackups sorts by, and is complete or not. `Zip*` is backupLocked for any caller, the safety
backup of Restore included; `Restore*` are the steps of Restore between system
calls that others, a crash or an error can see. Each `...Failed`, `...Refused`
and `...Rollback` action is an error return. `Crash` keeps only the files.

Restored archives are those under `backups/`, complete or left behind by a
crash. A backup and a restore are at least a second away from a crash before
them, since the process has to start. Errors that leave everything as it was
(a MkdirAll that fails, a cancelled context) are stuttering. `cut`, `base`,
`before` and `harmed` are history variables.

### Hosts

One plugin id and modules that carry it: nothing crosses ids. `plugins` and
`registering` are the plugin host's maps, `front` the map of the protocol or the
credential host, `life` what has been called on a module. A call is as many
steps as it has critical sections, with Init, Shutdown, Open and Resolve of the
module between two of them. recordFailure reads the clock before it takes the
lock: `ResolveFailed` is the reading (`failedAt`), `RecordFailure` with `Counted`
what happens under the lock, any time later.
`CheckQuarantine` is the deletion of an expired quarantine by whoever asks.
`QuarantineEarned` speaks of the recordings in their order (`log`): Threshold of
them in a row, none with a time later than Window after the first one's. It does
not say that the failures lie within one window, because they need not: a time
read long before it is recorded is counted too (findings, below).
`overlap` and `shut` mark the two cases where a found module may be dead: a
Register and an Unregister of one id overlapped (each host's calls are not atomic
over both maps), and App.Shutdown, which unregisters at the plugin host only and
leaves the specialised maps.

### IpcClient, Calls, IpcServer

`inflight`, `ch`, `closed` are the client's fields, `pc` where each caller is in
Call, `reader` and `hand` what readLoop holds; the socket is two bounded queues,
so that both sides can be blocked writing. `ConnDown` loses what is under way.
`Calls` knows only callers and their numbered calls: an answer needs a handled
request of this number. `ImplementsCalls` is the refinement, with `last` (the
history of each caller's calls) and `owner`/`served` as the mapping: it fails when
an answer reaches another call or the late answer to an abandoned one.

`IpcServer` is the accept goroutine, a goroutine per connection, Serve and Stop;
the three seconds of the drain may pass at any time.

### PluginSession

`kind` chooses the plugin in Init; Open's steps, the resources they hold and
the goroutines of Start are tables over the kind, so that one set of actions is
the code of twelve plugins. `held` are sockets and ports, `running` Start's
goroutines, `once` the plugin's Close, `wrapped` safeSession's. Close may come
from CloseSession, from the run goroutine, from the context's watcher and from
Start itself. The http plugin makes a `http.Transport` per fetch and per probe,
whose idle connection nobody closes: it is `idle` in `held`, may be there when the
fetch ends, and goes only when the server drops it (`DropIdle`).

### KnownHosts, Telnet, Sftp

`KnownHosts`: a dial reads the file, is shown a key, judges it by what it read,
and under accept-new appends under the file lock.
`Telnet`: `feed` takes a byte at a time, so every cut of the stream into chunks is
covered; `wire` is what the peer sees, decoded by an independent
definition; the bytes and options of the peer are constants.
`Sftp`: two file systems, a copy in pieces.

### Desktop

`uiq` is the queue of fyne.Do; a user's action is one step on the UI goroutine.
`openConns` are the reservations, `items` the registry, `panes` and `active` the
tabs' groups, `windowed` the detached sessions, `listed` what the watcher has
listed and not yet compared.

### Registry, the vaults, GitSync, Updater

In `Registry` the dialog's calls are single steps, an Install has a step per
rename; each write of `state.json` and `trusted_keys.json` may fail, and the
program may end at any point. In the vaults an operation is a step that succeeds
or fails after changing memory (the code does not undo it); only 1Password's
provider runs its tool outside the mutex, and `TokenVault` has its Unlock, Lock
and Resolve in two steps each. In `GitSync` each git
command is a step, and may fail: all end the sync with their error but rev-list,
whose failure CommitAndPush takes for nothing to push (`Ahead`, where `base` keeps
that the success was `unseen`). In `Updater` each rename is.

## 3. Runs

| run | instance | shows |
|---|---|---|
| `tree` | 4 ids, symmetric | types, parents, no cycle, indexes, walk, reload |
| `tree_root_delete` | 2 ids | **violated**: a nil node is visited after a connection at the root is deleted |
| `event_bus` | 2 publishers, 2 subscriptions, buffers 0 and 1, 2 events | no panic, order, every channel closes, Publish returns |
| `persister` | 2 commands, 2 changes per epoch, 1 restore, 1 failing save; 1 plugin, key and install; 2 secrets; 2 callers and 3 tokens; 2 syncs; 2 updates | what is saved stays, clean means saved, exports are current; nothing is enabled unasked, no secret lost or given out after Lock, a reported sync pushed unless it could not look, an executable there |
| `plugins` | 2 callers and modules; 2 IPC calls on a socket of 1 frame; 3 connections; 12 kinds of session; 2 tabs and sessions; 2 telnet items over 2 bytes, one of them 255, and 4 options; 3 SFTP lines; 2 dials and 3 keys | hosts agree, quarantine earned, IPC implements `Calls`, lost connections fail calls, the server closes, sessions release (http its idle connections not) and wind up, the desktop is consistent, streams and copies are whole, host keys trusted |
| `persister_liveness` | 1 command, 1 change per epoch, 1 restore, 1 failing save | the flag is flushed, Shutdown returns |
| `persister_race` | 1 command, 1 change | **violated**: the live tree is encoded while it is changed |
| `persister_lost_change` | 1 command, 2 changes | **violated**: a change made during a save is never flushed |
| `sessions` | 1 session with 2 chunks, 1 subscription of capacity 1, 1 closer and Shutdown | no panic, CloseSession, credentials, subscriptions and sessions end |
| `sessions_last_output` | 1 session with 1 chunk, 1 subscription | **violated**: the channel is closed before the last chunk |
| `store` | 2 Saves, 2 backup callers, 3 of 4 archives kept, 2 seconds | one Save's files, roll back possible, restores complete |
| `store_failed_restore` | 1 Save, 1 backup caller, 2 of 3 archives kept | **violated**: a failing restore deletes the archive it was to restore |

Why the bounds are enough for the interesting cases. Four ids give a chain of
folders three deep with a connection, a move of a folder below its grandchild, a
copy of a two-node subtree and the reuse of an index after a delete. Two
publishers and two events give two fan-outs at once and a publisher's second
event behind its first; a buffer of one fills at the second. Two commands let
one be between change and mark while the other changes the tree under a flush;
one restore crosses with a flush of each actor; the failing save can be any. One
session with two chunks fills a subscriber of capacity one and still has a chunk
under way when the session ends; a second closer (Shutdown) meets the first.
Sessions share nothing but the map, so one session shows what two would. Two
Saves tell old files from new ones; four archives with three kept let a restore's
safety backup prune, also the archive to be restored; two seconds let two
archives or two restores fall in one second, and one crash come at any point.

Two callers and two modules let two Registers, or a Register and an Unregister,
of one id meet in every order, and a clock of three ticks passes a window and a
quarantine of one each. Two calls let an abandoned one's answer come while the
other waits, and a socket of one frame blocks both writers. Three connections are
one served, one being accepted and one waiting when Serve is cancelled. Two items
and a width of 255 put an escaped byte into data and into a window size; three
lines let an SFTP copy follow one that failed. Two tabs and two sessions are a
split, a tab of one pane and a detached window; two syncs and two updates run
every command of one between any two of the other.

Deadlock is not checked: every instance may come to rest when its bounds are
used up or the app has stopped.

Fairness. Goroutines that run keep running (weak fairness of their steps). For
taking `persistMu` and the bus's write lock it is strong fairness: Go's Mutex
hands over to a waiter after 1 ms, and a waiting writer of RWMutex keeps new
readers out. The persister's ticker ticks. A plugin's Start returns after its
context is cancelled, which the SDK's comment on Session demands; it need not
return otherwise. In `PluginSession` that is no assumption: each goroutine of
Start is fair only once the code it is blocked in can return. The IPC client's
reader and the UI goroutine run, and the watcher ticks as long as a session is
registered. Nobody is assumed to publish, receive, cancel, close, change
the tree, export, restore or shut down, and no timeout is assumed to expire.

### Findings

1. `tree.go:159`: Remove does not update the root's index for a connection, so
   deleting one at the root leaves a stale id and the next walk dereferences nil.
2. `app.go:260`: a flush encodes the live tree without `treeMu`; and markDirty
   may send on `persistSig` after Shutdown closed it.
3. `app.go:273`: a flag set while Save was encoding is cleared by that flush;
   the change is on disk only after another change, an export, a restore or
   Shutdown.
4. `sessions.go:326`: the goroutine woken by `entry.done` closes a subscriber's
   channel while fanOut may still hold the last chunk.
5. `backup.go:240`: restoring the oldest of a full set of archives deletes that
   archive, because the safety backup prunes before the archive is opened, and
   then fails; and an error at `backup.go:315` comes after the store was
   replaced.

A further limit that `RollbackPossible` states as its exception: two restores
of the same second use the same directory names, so when the first failed in
its swap, the second removes the first's `.restore-old`, which may be the only
copy of the store (`backup.go:277`).

Exceptions that the new properties state, and behaviour met while modelling that
no run is about:

- Nobody closes a session's stdin pipe when the remote side ends it
  (`sessions.go:193`), so Start of ssh, telnet, rlogin, rawsocket and serial
  stays in its wait for the stdin copier until the user closes the session;
  `protocol-ssh/session.go:48` promises a return when the remote shell exits.
  `CloseWindsUp` therefore starts from CloseSession.
- Overlapping Register and Unregister of one id may leave a module that was shut
  down in the protocol host's map (`host/protocol/host.go:61`).
- Two opens of a new host under accept-new may each append the key it was shown
  (`protocol-ssh/module.go:500`); `HostKeysTrusted` bounds the keys by the opens.
- Disconnect all and a profile switch clear the reservations also of opens under
  way (`gui_fyne.go:4444`), leave detached windows, and let a session that was
  being opened appear afterwards; a split whose tab has just been closed shows
  the pane nowhere (`gui_fyne.go:2191`).
- A sync that finds the tree clean and whose `rev-list` fails reports success,
  logged as "git sync: ok", although commits of an earlier sync are not pushed
  (`git.go:127`, `git.go:205`): the comment there says "no upstream tracked", but any
  failure is treated alike, also another git's lock and the end of the minute. Nor is
  a first push that failed tried again, since there is no upstream branch yet.
  `SyncedMeansPushed` excepts this case and no other; also in it everything is
  committed, and the next sync that can look pushes.
- recordFailure reads the clock before it locks (`host/credential/host.go:386`): a
  caller delayed in between counts a failure from before the window began, so that
  a provider may be quarantined for failures further apart than the window, against
  the "rolling window" of Resolve's comment (`host.go:217`), and a quarantine may end
  sooner than its duration from now. `QuarantineEarned` is about the times in the
  order of the recordings. The window does not roll either: it begins with the first
  failure counted.
- Each fetch and each probe of the http plugin leaves the connection of a finished
  answer in a transport that nobody uses or closes again
  (`protocol-http/session.go:128`, `:156`; no idle timeout): it is open after the
  session has ended, until the server drops it. `ResourcesReleased` excepts it.
- SetStatus and Forget keep the change in memory when the save fails
  (`registry.go:251`); a crash between archive and swap of an install leaves the
  plugin only under `.old`.
- Keychain entries stored before the index is loaded replace the index file.
- 1Password's Lock clears a token that an Unlock stored while `op signout` ran, and
  an Unlock under way stores its token after Lock has returned
  (`credential-1password/provider.go:206`).
- A kill between the updater's renames leaves only `.old`, on Windows.
- SFTP's get and put truncate the target before the first read, so a failed copy
  has destroyed what was there. They report before the deferred Closes, whose errors
  are dropped (`protocol-sftp/session.go:463`, `:498`): the model takes a piece that
  was written for one that stays, so an error that only Close would tell of is
  outside `ReportedCopiesAreWhole`.
- Saving the workspace starts from defaults and drops the recent connections
  (`gui_fyne.go:3822`), and recents are loaded, touched and saved without a lock
  (`main.go:408`).

## 4. Proofs

Every safety property of the passing runs, every action property, and the
refinement of the IPC client are theorems, for every value of the constants that
the named ASSUMEs allow; so is the safety core of six of the liveness properties.
Each module is built the same way:
an inductive invariant as a conjunction of named parts, that Init implies it,
that each action keeps it (a step per action, under it one per part the action
can disturb), and that it implies the property. The invariants were checked with
TLC on the runs' instances before they were proved. A bound that is a constant
(`MaxEvents`, `MaxVer`, `MaxZips`) is any natural number in the proofs.

| module | assumes | proves |
|---|---|---|
| `TreeProofs` | NilID is not an id | types, `ParentsAreFolders`, `FoldersAcyclic`, `IndexesMatchParents`, the walk, the reload |
| `EventBusProofs` | buffers and the bound are numbers | types, `NoPanic`, the order of delivery, `NoChannelForgotten` |
| `PersisterProofs` | the bounds are numbers | types, `SavedStaysSaved`, `CleanMeansSaved`, `ExportHasEarlierChanges`, `LoopServesUntilShutdown`, `NobodyLocksTwice` |
| `SessionsProofs` | a subscription has room for a chunk; Shutdown is no other caller | types, `NoPanic`, `CloseWaits`, `SecretsWiped`, `NobodyStranded`, `NobodyLeaked` |
| `StoreProofs` | one archive at least is kept; there is a second; Restore is no caller of Backup | types, `ReadersSeeOneSave`, `RollbackPossible`, `RestoreIsComplete` |
| `KeptProofs` | None is neither a vault nor a build | `EnabledByUser`, `SecretsKept`, `SyncedMeansPushed`, `ExecutableKept`, for each component and for the composition |
| `PluginsProofs` | thresholds and bounds are numbers, a quarantine takes a failure, the kinds are plugins, dialers are finitely many, bytes, options and window sizes are numbers | `HostsConsistent`, `QuarantineEarned`, `ImplementsCalls`, `ReaderNeverBlocks`, `NoCallForgotten`, `ServeClosesConnections`, `ResourcesReleased`, `ReportedCopiesAreWhole`, `HostKeysTrusted`, `StreamsIntact` |
| `DesktopProofs` | sessions and opens are finitely many, no tab and no connection are none | `DesktopConsistent` |

`TreeProofs` assumes only that NilID is not an id. `TreeInv` is the inductive
invariant: types, ids, parents, acyclicity and agreement of indexes and parents.
None of these is inductive alone: acyclicity after a move needs that the loop
of isDescendantFolder sees all ancestors; that a delete takes whole subtrees
needs that the indexes agree with the parents; and a new node is free of stale
index entries only because every id in an index was drawn before. From `TreeInv`
follow that a walk reaches everything (a set the walk misses would be closed
under parents away from the root) and that a reload keeps the tree.

`EventBusProofs` assumes that buffer sizes are natural numbers. `BusInv` says
who is responsible for each channel: in the map or in Close's list, or with its
goroutine between removal and close, never in two places, and closed only when
in none; a publisher's remaining subscribers are all still in the map. From it
come the absence of panics and, with `StreamsBehind` (a stream holds nothing
newer than its publisher's current event, nor that event while the subscriber
is still to be served), the order of delivery. `CloserInv` adds that no open
channel lacks somebody to close it, from which `NoChannelForgotten`: when Close
has returned, a channel is closed or its goroutine took it out of the map before
and is about to close it.

`PersisterProofs`. `PersistInv` ties `persistMu` to the places of the four actors
(`LockInv`), orders saved, encoded, written and remembered contents (`GrowInv`),
follows the tree an export began with through its flush (`ExportInv`), and says
of each phase of a flush where a change may be that is not on disk (`CleanInv`).
`CleanMeansSaved` alone is not inductive: the flag is cleared by a step that no
longer sees what was encoded, so the invariant has to carry through the flush
that disk and memory agree unless somebody is about to mark, or marked late.
`LoopInv` follows the loop from Start to its end and Shutdown from step to step:
the loop does not end before Shutdown is called, a loop Shutdown has waited for
does not flush beside or after Shutdown's own flush, and (`LockInv`) nobody
waits for a `persistMu` it holds.

`SessionsProofs`. A panic needs a send on a channel that was closed, so
`LockInv` says that a subscriber whose lock fanOut holds is open. `Stage` ties
the program counters of open and run goroutine to the map, the credential, the
cancellation and the event, from which `CloseWaits` and `SecretsWiped` are read
off: whoever waited on `done` waited for the last of the two defers. `WindInv`
is about who waits for whom. A chunk in the pipe means that Start runs, and
fanOut only stops reading a closed pipe, so a Write always has its reader;
fanOut has a subscriber's lock only for a select that does not wait; a
CloseSession waits for a session it has cancelled; and a session's list holds
the subscribers whose goroutine still watches.

`StoreProofs`. `ReadInv`: who holds `Store.mu`, how far the Save under way is,
and that every content that can become the store's (archives, `.restore-old`
directories, what was extracted) is that of one Save or of one a crash cut
short. `RollInv`: archives have distinct names and are numbered; while a Restore
runs its safety backup is the newest archive, wherever the directory has been
renamed to (`RestoreInv`); afterwards, as long as fewer archives than Retention
were made, the archive or the directory is still there, because only archives
made later are newer (`BaseInv`, with the cardinality of the set of newer
archives, and the maximum of a finite set for pruning).

`KeptProofs`. An enabled plugin is approved also in memory and in the state file,
from which a scan or a start makes entries. A git sync's commands may be run by
another sync, so what counts is not who ran one but that index, branch and
remote follow the saved version in order (`SyncProgress`); a sync reports success
only where its own version has come far enough (`Finished`). While the executable
is missing, the running file is the one beside it (`SwapInv`). A token about to
be stored was never held, so no Lock has retired it (`Numbered`). For each
component a theorem about its own specification, and for the composition
`KeptInvariant` with the runs' properties. The builds of the updater are those
that `MCKept` fixes.

`PluginsProofs`. Hosts: an id is reserved by one caller while Init runs
(`ReservationInv`), nobody is about to enter a module while an Unregister is
between the hosts unless they overlapped (`FrontInv`), and the failures counted
are the last of the log, the first of them began the window and none is after it
(`CountInv`), which makes `QuarantineEarned` a theorem about every step, whatever
the clocks that are still to be recorded. IPC: requests have an owner, a
caller inside a call owns its request, and what lies on a channel answers the
channel's request (`ClientInv`); with it every step of `IpcClient` is a step of
`Calls` or a stutter (`ClientImplementsCalls`). A request somebody waits for is
in the map, in the reader's hands or answered, and the channels of the first two
are empty (`WaitInv`), so that readLoop's sends do not block and none who waits
is left out when it ends. Server: an accepted connection
reaches the map before anything else happens, and a Serve past its join has
outlived the accept goroutine. Sessions: what is held is what Close closes, or
what http's transports keep, and after the once only the latter.
Host keys: keys in the file and opens that may add one are together no more than
the dialers (`RoomInv`). SFTP: the destination holds the pieces read so far.

`StreamsIntact` compares the wire with a decoder that is a recursive function of
the whole wire. `RunsExist`, `RunsAgree` and the `Decoding*` lemmas give what is
needed of it: that it exists, and that decoding a stream and then another is
decoding the two in a row. They are inductions over the number of bytes, done
by hand: a set of counterexamples would have a least element (`LeastExists`, from
the well-foundedness of `<`). `Answers` says of bytes that are written in one
piece which options they answer: the replies, a window size in its escaping, and
typed bytes each decode, from between two frames to between two frames, to just
what they are meant to say. `Position` says for each place inside each kind of
item of the peer where feed's mode, `sbOpt` and `sbBuf` are and which bytes and
options are still due. With both, `TelnetInv`: what is put out and what is still
due in the item is what the peer meant, and what is answered on the wire, in the
reply under way and due is what it asked.

`DesktopProofs`. `ReservationsBalanced` counts entries of a queue, so the
invariant counts sessions instead: those registered or about to be, and a session
is about to be added at most once and not registered before (`QueueInv`);
then add moves a session within one set, and open, failure and remove change it
by one. `AddsCounted` shows with a bijection that entries and sessions are as many.
Only a pane's session can be active (`PaneInv`), which is why detach, duplicate
and reconnect have a connection.

Only model-checked: the liveness properties themselves (`EveryChannelCloses`,
`PublishReturns`, `LostConnectionFailsCalls`, `CloseWindsUp`,
`EndedSessionsLeave`, `DirtyGetsFlushed`, `ShutdownReturns`, `SubscriptionsEnd`,
`ClosedSessionsEnd`), since fairness and ENABLED are out of the prover's reach.
`NoChannelForgotten`, `NoCallForgotten`, `LoopServesUntilShutdown` and
`NobodyStranded` with their companions say what safety can of six of them: that
whoever waits waits for somebody who can go on. Nor are the
violated properties of section 3 more than model-checked: TLC's counterexample
is the result.

## 5. Plan

All modules are written and every safety property is proved. What is left is to
look for stronger theorems about the same modules: the step relation between Save
and readers as an abstract store, and that the violated properties hold once the
finding's step is taken out.

## 6. Not modelled

Text processing and input/output without state that a model checker would
explore: parsing of mRemoteNG files, inheritance and search (pure functions whose
reference would repeat them), log redaction, signatures and encryption,
diagnostics archives, calls of the operating system, widgets and dialogs, the
JSON framing of the IPC. The settings and workspace stores are one file behind
one mutex. The reasons are with each component in `PROJECT.json`.

# A verification of dankgo in TLA+

dankgo is the Go library behind the DankMaterialShell tools: a line-based IPC
server with an event bus, a file-manager service with live directory watches, a
client of the Wayland protocol and a clipboard on top of it, a concurrent map, a
launcher of shells, a trash can, lyrics lookup, D-Bus portals, colour schemes and
a number of stateless helpers. It is a library of goroutines, and of processes
that meet on the disk: what is hard in it is the order in which they take their
locks, read their channels, call each other back and rename each other's files.

This directory holds models of it, the configurations that check them with TLC
on small instances, and proofs, checked by TLAPS, that some of the properties
hold on every instance. File and line references are to the repository.

    tlc -workers 2 -config WatchFeed_feed.cfg WatchFeed.tla     # one run
    tlapm SyncMapProofs.tla                                     # one proof module

`PROJECT.json` lists the components, the runs, for every property a faulty
variant of the code that breaks it, the source lines each definition stands for,
the hazards, and the theorems.

## 1. Inventory

### Components with state shared between goroutines or processes

| Component | State | Operations | What is hard, and what makes it correct |
|---|---|---|---|
| **files: directory watch** (`files/watch.go`, `service.go`, `handlers.go`) | per watch: listing, options, sequence number, buffer of unsent batches, closed flag; per service: table of watches | open, list, unwatch, attach; the run goroutine (coalesce, flush, resync, gone); enrichment tasks | Notifications, timer, paging, attaching, enriching and closing interleave, and reads fail. The numbered feed has no gap, what a client has plus what is on its way is the listing, no change of a file is forgotten but where its own read fails, a vanished directory is told |
| **files: worker pool** (`files/pool.go`) | queue, running, condition variable | submit, work, drain | A worker giving up against a submit. No task stranded, at most max workers, drain leaves nothing behind and returns |
| **files: sizes** (`size.go`) | the scans under way | start, cancel, end of connection and service | Cancelling against the last report: what the done event says is true |
| **files: thumbnails** (`thumbs.go`, `pngtext.go`) | a cache on the disk, shared with every program | look up, generate, mark as failed | The file changes in between; a thumbnail that counts is of the file as it is |
| **ipc: bus and connections** (`ipc/bus.go`, `server.go`, `writer.go`) | set of subscribers; per subscriber topics, closed; per connection write lock and deadline | accept, dispatch, subscribe, unsubscribe, publish, deliver, write, close | A slow or dead client against publishers, requests and other clients. Events reach exactly the subscribed, lines are never joined, nobody blocks for ever, the dead leave the bus |
| **ipc: client** (`ipc/client.go`) | a buffered connection | Call, Subscribe | takes the next line for its answer |
| **syncmap** (`syncmap/syncmap.go`) | read table, dirty table, misses, a pointer per entry | Load, Store, Swap, LoadOrStore, LoadAndDelete, Delete, CompareAndSwap, CompareAndDelete, Range | Lock-free access against promotion and expunging. The map is linearizable, the tables keep the rule of the `entry` comment, some call always finishes |
| **wlclipboard: owner** (`wlclipboard/owner.go`) | current source, request channel, stop channel, wake pipe | Set, Close; run, await, serve | Requests, poll, the events of the round trip, other clients, a lost connection. The owner and the compositor agree; Close returns; a Set is answered, and truthfully |
| **wlclipboard: watch, paste** (`watch.go`, `paste.go`, `session.go`) | a session and a goroutine per selection | Watch, WatchChan, Paste | callbacks out of order, and after the watch ended; a deadline in mid-message |
| **wayland client runtime** (`wayland/client/context.go`, `event.go`, `request.go`) | object table (a syncmap), id counter, received file descriptors | register, dispatch, write, destroy | descriptors paired with messages, messages that come in pieces, ids used again after deletion, events on their way to an object that is gone |
| **wayland generated protocols** (`client.go`, `xdg_shell.go`, `data_control.go`), written by `cmd/go-wayland-scanner` | none of their own | a method per request, a Dispatch per interface | every message is encoded and decoded as the wire format wants it, at every length |
| **shellapp** (`shellapp/supervise.go`, `pidfile.go`, `commands.go`) | PID, session and state files of several processes | run, restart, kill, reap | launches that overlap, crashes, what they leave behind |
| **shellapp/shellfs** | extracted shell files in a cache directory | Extract, Prune | one process removes what another was just handed |
| **trash** | info files and files, shared with every other file manager | Put, Restore, Empty | several processes; a crash between info file and rename |
| **lyrics: provider race and cache** (`lyrics.go`, `cache.go`) | a flight shared by callers, results per tier, grace timer; cache files | Lookup | answers, grace period, deadline and cancelling callers race |
| **portal** (`request.go`, `secret.go`) | a D-Bus subscription per request | call, redirect, wait | the Response against the subscription to it |
| **boottimer** | a timer descriptor, a reader goroutine, a channel of one place | Reset, Stop | an expiry already read follows the Reset |
| **app, httpapi** | the runners of a program | Serve, Shutdown | who ends Serve, and whether a clean stop is one |
| **desktop: mimeapps** | `mimeapps.list` | SetDefaults, GetDefault, AppsForMime | read, edit and rename by several goroutines and processes, on a file anyone edits |
| **material: colours of a scheme** (`material/dynamic`) | two tables of colours by role, one embedding the other | NewDynamicScheme, ToColorMap, GetTone | a tone is computed from other tones by calls that nest: they must end, on the colours meant |

### Components that keep no state of interest

The mutations of `files` (mkdir, rename, copy: system calls), `ipc` mux and
parameters (table lookups), the lyrics parsers and providers (text formats,
HTTP), the `desktop` parsers, the arithmetic of `material` (floating point),
`log`, `paths`, `errdefs`, `dbusutil`, `netutil`, generated enums and mocks.

### How they interact

- `files.Service` is handed a publish function by its host; in practice that is
  `ipc.EventBus.Publish`. When a client subscribes, the IPC server's subscribe
  hook calls `Service.Attach`, which flushes what watches buffered before they
  had a listener. `WatchFeed` takes the bus as a queue that keeps order and loses
  nothing (`wire`); `IpcBus` and `IpcDelivery` show what the bus really gives: it
  reaches everyone subscribed throughout, or closes the connection.
- Batches are published under the watch's lock, so events leave in the order of
  their numbers; responses (pages) travel on the same connection but are written
  by another goroutine, so a page may overtake events and be overtaken by them.
- `files` runs enrichment and thumbnails on its pool (`watch.go:350`,
  `service.go:206`, `service.go:234`). `drain` is called only by tests.
- `wlclipboard` talks to the compositor through `wayland/client`, whose object
  table is a `syncmap` (`wayland/client/context.go:16`). The owner's round trip
  dispatches events: handlers run inside `Set`'s service. The watch reads under a
  deadline, which the owner never does: `WaylandConn` has readers of both kinds, up
  to the loss of the place in the stream.
- `app.Serve` runs the servers of `ipc` and `httpapi` side by side: `AppServe`
  composes the three.
- `shellapp` launches from the trees `shellfs` extracts; one decides by PID files
  what the other may remove: `Shell` is both.

## 2. Plan

Written:

1. `WatchFeed`, `WatchFeedProofs`: the directory watch, the part of the program
   with the most goroutines and the one with a protocol to a client.
2. `SyncMap`, the abstract `AtomicMap`, and `SyncMapHistory`, which shows that
   the one implements the other; `SyncMapProofs`.
3. `ClipboardOwner`, `ClipboardWatch`.
4. `IpcBus`, and `IpcDelivery`, which states what a Publish promises with
   history variables; `IpcProofs`.
5. `WorkerPool`.
6. On the disk: `Trash`, `Shell`, `MimeApps`, `Thumbs`; `Recursion`,
   `DiskProofs`.
7. Goroutines: `LyricsRule`, `LyricsRace`, `LyricsRaceProofs`, `BootTimer`,
   `Portal`, `SizeScan`, `AppServe`; `GoroutinesProofs`, also of the pool and the
   clipboard's owner.
8. At the socket: `WaylandConn`, `WaylandInterfaces`, `WireFormat`,
   `WaylandWire`; `WaylandProofs`.
9. `SchemeColors`.

To come, in the order of what a fault would cost:

| Module | Of | Questions |
|---|---|---|
| `IpcListen` | `ipc/server.go` Listen, `client.go` | the stale socket of a server that crashed against one that is starting; an event taken for an answer |
| `LyricsCache` | `lyrics/lyrics.go` upgradeCache, `cache.go` | how often an entry that cannot be upgraded is tried |
| `EntriesCache` | `desktop/entries.go`, `mime.go` | a cached table against a directory that changes |
| `Notification` | `portal/notification.go` | actions of a notification that was replaced |

## 3. The modules

Each module's comments say what it abstracts; here is how it corresponds to the
code. Components that never meet are composed only to be checked together:
`MCGoroutines`, `MCDisk` and `MCSockets` have the variables of all of theirs and
one more, `which`, that says whose behaviour it is; the others rest in one
initial state. What a run shows of a component is what a run of that
component alone would. In the same way `MCSyncMap` and `MCSyncMapHistory` keep, in
`mix`, which operations a behaviour calls.

### WatchFeed

One watch, one client. An entry of the listing is its modification time and
whether enrichment has been applied to it; names, sort order, page limits,
MIME types and thumbnails are left out, the filter for hidden files is kept
(it decides what a batch must say). Any read of a file may fail though the file is
there: a listing then has it as `Unreadable` (`list.go:86`), a flush leaves what was
listed (`watch.go:222`) and goes on, its name forgotten; `missed`, a history variable,
remembers which. An error of reading the whole directory is one that it is gone, as
the code takes it (`watch.go:201`, `watch.go:309`).

| Code | Model |
|---|---|
| `openWatch`: armNotifier, readDir, register, `go run` | `ArmNotifier`, `OpenRead` per file (one of `Listed`), `OpenFail`, `Register` |
| `handleWatch`: closeWith, enrich, page | `HookAndEnrich`, `OpenPage` |
| `run`'s select | `RunReturn`, `RecvName`, `RecvSelf`, `RecvOverflow`, `FlushBegin` |
| `flush` (under `w.mu` while it reads each file) and `diff` | `FlushBegin`, `FlushRead`, `FlushEnd` |
| `resync` (reads without the lock) | `RecvOverflow`, `ResyncRead`, `ResyncEnd` |
| `publishLocked`, `attach` | `Publish`, `Attach` |
| `publishGone`, `close` with its `sync.Once` | `GoneClose`, `GonePublish`, `CloseBy`, `CloseFinish` |
| `enrich`, `enrichChunk`, `applyChanged` | `EnrichStart`, `EnrichApply`, `EnrichSkip` |
| `Service.Attach`, `watchByID`, `handleList`, `handleUnwatch`, `Service.Close` | `Subscribe`, `Attach`, `ListLookup`, `ListPage`, `Unwatch`, `ServiceClose` |

A read of a directory or of several files is one step per file, so that files
change while they are read. `MuFree` says that `w.mu` is held only by a flush
between two steps; every other section under it is one step. `armed` and `timer`
are two variables because an overflow forgets the pending names without stopping
the timer (`watch.go:180`). The kernel queue (external) merges equal neighbours
and ends in one overflow mark when it is full. The client (external) is written
from the contract of the server: apply batches in order, skip those that a page
already contained, fetch a page on resync. It does not read events while it waits
for a page.

### SyncMap, AtomicMap, SyncMapHistory

A step is one access another goroutine can see: the read table, an entry's
pointer, or a critical section up to its first such access. Delete is
LoadAndDelete and Store is Swap, as in the code. Processes store their own name.
An entry nobody refers to may be allocated again, which is what the garbage
collector permits. Compare-and-swap is on the value: a pointer replaced by one to
an equal value counts as unchanged. The code compares addresses; it then retries
and reads the same value again, so the answers are the same.

`AtomicMap` is the specification of a concurrent map in the form a caller can
observe: calls and returns. Its state is, per key, the set of possibilities
(value now, answers of calls that may already have happened) the returns so far
do not exclude; a call may return an answer only if some possibility gives it.
`SyncMapHistory` adds that set as a history variable to `SyncMap` and checks
`A!Spec` as a property: every answer is one an atomic map could have given.
Operations concern one key each, so linearizability per key is that of the map.
`Range` is no such operation; `RangeSees` states its comment. Both are also proved
(section 5). `HistoryAssumption` says that there are finitely many goroutines and
that the mark `NoKey` of a Range is none of them; how many may act at once enters
the definition of the possibilities (`A!Reach` widens as often as there are
goroutines).

### ClipboardOwner

The run goroutine's program counter is its place: in the select, in poll, in the
round trip of a Set, or writing to the pipe of a pasting client. Callers of Set
write the wake byte, offer the request, and are handed over or told that the
owner is closed. Serving a Set sends a selection and a sync; the compositor
(external) processes requests in order and answers with cancellations, selection
events and the sync's answer. Other clients take the selection and paste. Losing
the connection makes the next use of it fail; the round trip's error is ignored,
as in `owner.go:269`. MIME types and the data are left out.

### IpcBus, IpcDelivery

Each connection has a reader goroutine; each request line starts a goroutine
(`Apply`, `Respond`); publishers take a snapshot of the members and deliver to
each. All write through `ConnWriter.write`: wait for the lock, set the deadline,
write, and on failure close the connection (`Lock`, `Written`, `WriteFails`,
`CloseFailed`). A write to a full socket whose deadline passes may leave part of
the line, a torn line. A section under `Subscriber.mu` or `EventBus.mu` is one
step: neither lock is held over a blocking call, and `bus.mu` is never taken
under `s.mu`. The client, the socket's room and hanging up are external.

`IpcDelivery` adds three history variables per publisher (subscribed throughout
the publish, at some moment of it, and reached), which state what a publish
promises.

### WorkerPool

`pool.go` step by step, a section under `p.mu` being one step. A worker is named
by the task whose submit started it. `before` remembers, for each drain, what had
been submitted when it was called.

### LyricsRule, LyricsRace

The rule of `lookupProviders` (which answer is best, and when a provider still
out might have a better one) is a set of operators over the answers; the race is
the loop that applies it, the grace timer, the deadline, and the callers that
share a flight, join it, cancel and forget it. An answer in the buffered channel
is still out to the loop. Which providers have synchronized lyrics is `marked`,
and arbitrary. The cache behind a provider and its rate limiter are left out.

### ClipboardWatch

`WatchChan`: the goroutine of `Watch` (`Turn`, `DispatchSelection`,
`DispatchFails`, `CloseChan`), and a goroutine for each selection that reads the
pipe (`ReadAll`, however long its owner takes) and then calls back (`Callback`):
a send on the channel, which drops its value when the channel is full and panics
when it is closed.

### WaylandConn

| Code | Model |
|---|---|
| `readMsgUnix`: header and descriptors; `ReadMsg`: body | `ReadHeader`, `ReadBody`, and `Interrupted` or `Expire` where a deadline is set |
| `eventTakesFd` and the popping of `ctx.fds` | `TakesFd`, `Dispatch` |
| the destroy request of an object; delete_id | `Destroy`, `DeletesId` |

The compositor (external) buffers events (`out`) and their descriptors (`outfds`)
and flushes when it likes; the kernel gives all the descriptors of a flush with
its first byte. A flush may end inside its last event (`Cuts`: in the header, between
header and body, in the body), and what is left of it comes later (`FlushRest`), in one
piece. A read that meets the cut is short, which `ReadMsg` makes an error
(`event.go:32`, `event.go:48`): the second disjuncts of `ReadHeader` and `ReadBody`,
possible also when the rest has come, for the socket need not join the two. A cut
between header and body is no error: the read of the body waits. Some events (`plain`)
have no body. With `desync` the model of the connection ends: what is read then
depends on the bytes (section 6).

### WaylandInterfaces, WireFormat, WaylandWire

`WaylandInterfaces` is the generated code as a table: for each of the 32
interfaces the requests and the events at the places of their opcodes, with
the arguments each puts or takes and whether it destroys. `WireFormat` is one
message: `PaddedLen`, `PutArg` and `SizeOf` are the writing of a request word by
word, `ReadArg` and `BytesAt` what `Dispatch` reads. `WaylandWire` is the object
tables of the two ends: `Call`, `Destroy` and `Dispatch` are the effects on
`ctx.objects`. The compositor's side (`WirePut`, `WireRead`; `Handle`, `Emit`) is
written from the wire format and is external. Bytes are abstract: a message
is a sequence of items with the room they take, a string is its length. `last` is
the last message taken in, with what its sender meant and what its reader made of
it.

`Dispatch` reads an array to its last byte and not to the end of its padding, so
the code is right only while an array is the last argument of its event; and
no request has an array or a string that may be null. `EventArgs` and `RequestArgs`
say so, `ReadableAssumption` in `MCSockets` has TLC check it of every row of the
table, and the theorems on reading start from them.

### Portal

`Order` is the order in `RetrieveSecret`: subscribe to the predicted path, then
call. `Returned` compares the path the portal chose, `Redirect` subscribes to that,
`Await` takes a Response off the channel and drops those of other requests,
`ContextEnds` gives up, `ReadSecret` reads the pipe, which no context interrupts.
The bus and the portal, an old or a new one, are external. The connection may be lost
(`Lose`): calls fail then (`CallFails`), and the closed channel yields nil for ever,
which `wait` passes over (`request.go:76`), a step that changes nothing.

### BootTimer

`Reset` drains the channel and arms the timerfd, in the order `ResetOrder` names;
the reader goroutine reads an expiry (`ReadExpiry`) and then sends it (`Send`),
dropping it if the channel is full. The deadline is `due` when the time of the
last arming is over; the program receives and looks at it again.

### AppServe

`Serve` is a counter over its runners (`ServeStep`); each runner begins, serves,
shuts down by itself when the context ends, and is shut down by `Serve` as well.
`errgroup` is `Return`; the runners are of any number and kind (`Kind`). A request may be under way (`RequestBegins`,
`RequestEnds`), and each of the two waits of ten seconds may end (`TenSeconds`).

### SizeScan

One step per entry walked (`Visit`, which checks for cancellation each
`CheckRun`-th entry), then `Judge`, `Unregister`, `Publish`. Cancelling is a lookup
under the mutex and a call of the context's cancel function after it
(`CancelLookup`, `CancelFound`); the end of the connection and of the service
cancel one scan after the other.

### Trash

| Code | Model |
|---|---|
| `Put`: uniqueName, create the info file exclusively, write it, rename, or remove the info file again | `PickName`, `CreateInfo` (which `ClaimFree` guards), `WriteInfo`, `MoveIn`, `UndoInfo` |
| `Restore`: read the info, look at the target, rename, remove the info | `RestoreBegin`, `CheckTarget`, `MoveBack`, `DropInfo`; the target may be filled in between (`UserCreates`) |
| `Empty`: read each directory and remove what it had | `EmptyBegin`, `ReadDir`, `RemoveOne`, `NextPass`, `EmptyEnds`, over `WithFile` and `WithInfo` |

A call may fail at each system call and a process may die between any two
(`Die`). All files want the same name. The choice of the trash directory among
mounts, percent-encoding and the time stamps are left out.

### Shell

`run`: `ReadState`, `CheckState`, `Extract` (with `RemoveTarget` and `Publish` of
`materialize`), `CountPIDs`, `Prune`, `Show`, `CheckSession`, `Boot`, `StartUI`,
`CreatePIDFile`, `WritePIDFile`; then the supervisor (`UIExits`, `ExitNow`,
`RemovePIDFile`, `ClearConfigState`). `kill` and `restart-detached`: `ListPIDs`,
`KillAll`, `RemoveAllPIDFiles`. `Crash` ends a process with everything it has on
the disk left there. Pids are not used again; signals to a process that is told
to restart, configurations of the user's own and `CallUI` are left out.

### MimeApps

The file is a sequence of lines, headers, keys and others in any order, as the
user may have left them. `SetDefaults` is `Set` (take the mutex of this process,
which other processes do not share: `shared`), `Read` (parse and render) and `Rename`
or `WriteFails`; `Render` keeps the lines of others (`Verbatim`). `GetDefault`
and `AppsForMime` are functions of the file, of the system's files and of the tables
of aliases and subtypes. The loops over a list (`Without`), over the lines of a file
(`Rendered`) and over the parents of a type (`Visit`, `Chain`) are recursive
functions of the number of elements done, as the proofs need them.

### Thumbs

A thumbnail, or a fail marker, carries the second of the entry it was asked for.
`ThumbEntry` takes the modification time the caller has, from Lstat or from a
watch that may lag (`listed`); `Lookup` and `Failed` compare; `Generate`, `Render`
and `Write` are the pool's. What the path leads to may change at each moment, and the
second need not: it is that of the entry (`entry.go:46`, `entry.go:75`), so that a file
written twice in a second, one moved in with its time and a link whose target changed
(`thumbs.go:195` opens the target) have one that counted before. `FileChanges` picks
any second, an earlier one too, and `file.past` remembers those the entry had with
other contents. The thumbnailers and their sandbox are external.

### SchemeColors

Which other colours the tone of a colour is computed from: an entry, per role,
with the calls of its Tone function, its backgrounds and its pair, in the table
of `MaterialSpec2021` or in that of `MaterialSpec2025`; `Entry` is
`extendSpecVersion`, `Calls21` and `Calls25` are the two `GetTone`, by the calls
they make in their order. `stack` is the call stack. The numbers are left out: a
2021 pair computes both tones and a 2025 colour asks the other role in full, and
no call depends on a number computed before it, except that a contrast curve
is there (`curve`, which depends on the scheme's contrast being raised).

## 4. The runs

| Run | Instance | Shows |
|---|---|---|
| `watch_feed` | one hidden file that is enriched, 2 changes and up to 1 listing with another hidden option, a buffer and a kernel queue of 1, reads that fail, hosts with and without per-topic subscription; 3.6 M states | `SeqContiguous`, `NoLostChange`, `FeedInSync` |
| `watch_live` | two files, one hidden, changes, overflow, reads that fail, removal of the directory; no enrichment, no listing with other options; fair; 864 k | `Converges`, `GoneTold`, `TypeOK` |
| `watch_attach` | one file | finding 1 |
| `syncmap_keys` | 2 goroutines, 2 keys; Load, Swap, LoadAndDelete and Range, or LoadOrStore, CompareAndSwap and CompareAndDelete, without end; 1.64 M | `Linearizable`, `RangeSees` |
| `syncmap_live` | the same with Swap, LoadAndDelete and Range, or LoadOrStore and CompareAndSwap; fair; 564 k | `EntryRule`, `LockFree`, `TypeOK` |
| `owner_wakeup` | one Set, nobody else | finding 2 |
| `watch_closed` | two selections, a channel of 1 | finding 3 |
| `shell_session` | three pids, one display and one revision | finding 4 |
| `ipc_live` | 2 connections, 1 publish, 2 requests, lines that are not JSON; fair; 151 k | `PublishReturns`, `LeavesBus` |
| `sockets` | bus: 2 connections, 1 publish, 2 requests, a socket that holds 1 line; connection: 2 objects, 3 events, flushes that end inside an event; wire: each message once with strings of 0 to 4 bytes, or 4 messages about offers and surfaces; colours: 3 variants, with and without given palettes; 1.20 M | `TornLast`, `Settled`, `Delivers`, `Understood`, `Resolves`, `TypesOK` |
| `goroutines` | pool: 3 tasks, 2 workers, a drain; owner: 2 callers, 3 Sets, Close, one act of another client, a connection that may be lost; lyrics: 3 providers, 2 callers, 2 flights; timer: 3 Resets; portal: one request, a connection that may be lost; sizes: one scan of 4 entries, 2 cancels; servers: http, ipc and a function; fair; 135 k | `DrainedAll`, `WorkConserving`, `DrainReturns`, `AgreesWithCompositor`, `CloseReturns`, `Unbeatable`, `Prompt`, `LeaderServed`, `Wakes`, `Answered`, `SizesTrue`, `StopsCleanly`, `TypesOK` |
| `disk` | shell: 3 pids, 2 revisions, 1 kill; trash: 3 processes, 2 paths, 2 files, 3 calls; mimeapps: 3 writers, 2 calls, 3 types, files of up to 3 lines; thumbnails: 2 requests of one size, 3 seconds, 3 contents; 1.13 M | `Recoverable`, `NothingLost`, `EmptyClears`, `TreeKept`, `Sticks`, `ChangesOnly`, `ThumbsTrue`, `TypesOK` |

What the properties say:

- `SeqContiguous`: "sequence numbers must have no gaps" (`watch_test.go`), for
  the buffer and for the connection.
- `FeedInSync`: what the client has, with what is on its way applied to it, is
  the filtered listing at every moment, unless a resync is among the latter: for
  each name, the last word on it (of the events to come, else of the client's copy)
  is like the listing's. This
  is the property a lost, doubled or misplaced batch, a page answered between
  batches, or an enrichment published under other options would break.
- `NoLostChange`: a file listed with an old state has a notification, a pending
  name with its timer running, or a read that will see it, unless it is the very
  file whose last read failed (`ReadFailed`): the failure of one file costs no
  other its change. It is what makes the coalescing timer, the overflow and the
  enrichment race safe; the last of these is in `watch_feed`, where there is
  enrichment.
- `Converges`, `GoneTold`: once the directory rests, a client that stays has what the
  watch lists, and that is the directory, but for files whose last read failed;
  a client whose directory goes is told.
- `Linearizable`, `RangeSees`, `EntryRule`: above, and the comments of
  `syncmap.go` on `Range` and `entry`. `LockFree`: while calls are under way some
  call finishes. One call alone may be overtaken for ever.
- `AgreesWithCompositor`: `current` is what the compositor has as selection, or
  its cancellation is on its way; a selection of ours is `current`; and a Set
  that returns nil was handled, while the connection holds. `CloseReturns`: wherever
  the goroutine is, it stops, and Close returns.
- `Delivers`: who is subscribed throughout a publish gets the event or loses its
  connection; who never was does not get it. `TornLast`: a line cut by the
  deadline is the last one. `Settled`: a client that waits for its answers has the
  topics it asked for. `PublishReturns`, `LeavesBus`: no client blocks a publisher
  for ever, and dead connections leave the bus.
- `WorkConserving`: no task waits unless max workers run or one is about to look.
- `Unbeatable`: what wins before all have answered is what the rule picks from
  all answers, whatever those still out say. `Prompt`: nobody is waited for in
  vain. `LeaderServed`: the grace timer ends the wait, whoever cancels.
- `Wakes`: a deadline that has passed wakes the program, unless it re-arms or
  stops the timer. `Answered`: an answer on the predicted path ends
  `RetrieveSecret`, however soon it comes, and only the own answer yields a secret;
  if the connection is lost first, the end of the context ends it.
- `SizesTrue`: a total that is not marked cancelled is of every entry; a cancelled
  scan stops at its next check; a scan that is over cannot be cancelled.
- `StopsCleanly`: a stop nobody failed is no error, in whatever order the runners
  and `Serve` meet; no request is dropped before its time; `Serve` returns.
- `Recoverable`, `NothingLost`, `EmptyClears`: a file in the trash is listed with
  the path it came from; no file disappears but by Empty or at a path that
  somebody filled after a Restore had looked; an Empty alone leaves nothing, the
  remains of crashes included.
- `TreeKept`: "Callers must ensure no running instance still uses the others"
  (`shellfs.go`): no launch takes the tree of an instance that ran when it began,
  provided no other launch was about to replace or prune trees at that moment (see
  section 6 for what such a launch can do); launches of one revision leave each
  instance its tree.
- `Sticks`, `ChangesOnly`: a default that was set is the one found, on whatever
  file; nothing else in the file changes.
- `ThumbsTrue`: a thumbnail or fail marker that counts is of the file as it is,
  unless its entry had the same second with an earlier content, which is all the
  code goes by (section 6 says when that happens).
- `Understood`: the object and every argument of a message are what its sender
  meant, though ids are used again and events come late (a NULL string and an
  event that names an object just destroyed excepted, see section 6); a handler
  gets the descriptor sent with its event, none is leaked or closed under it, and a
  connection that sets no deadline loses its place only at an event whose header or
  body itself came in two pieces (`FdPairing`).
- `Resolves`: no tone is computed inside its own computation, no call goes to a
  role that is not there or to a colour of 2021 that 2025 redefines, every palette
  is there and of its own specification, and the two roles of a pair of 2021
  start from the same pair and background. The run computes the tone of every
  colour `ToColorMap` names, for both themes, platforms and contrasts.

`TypeOK` of each module also carries bounds the code promises: the buffer of a
watch within `pendingCap`, `misses` within the number of keys, the members of the
bus being exactly the connections whose reader has not left, `running` within
`max`.

### Bounds, and why they are enough

- *Buffer and kernel queue of 1, socket of 1 line, wake pipe of 2 bytes.* What
  matters is below, at and above the limit; with limits this small all three
  happen within two or three operations.
- *One or two files.* Two are needed for a flush that reads one while the other
  changes, and for a hidden and a visible one; every rule about a file concerns
  that file alone. Enrichment and option changes are checked with one file, in
  `watch_feed`, since they multiply the states; so only `NoLostChange` and
  `FeedInSync` speak of enrichment, and `Converges` does not.
- *Two goroutines and two keys of the map.* Two goroutines give every race for
  one pointer and for `mu`. Promotion, the copy into a new dirty table, expunging
  and unexpunging need a second key; four entries are more than are ever
  reachable at once. The calls are not bounded: the processes call for ever.
- *Three Sets* are one current, one in service and one waiting. `MaxForeign` of 1
  lets another client take the selection before or during a Set, or paste.
- *Two connections and one publish*: one that stalls and one that must not suffer
  from it. Requests of all clients are counted by `MaxRequests`; the publish, a
  request and the reader queue for one write lock.
- *Three tasks on two workers*: both workers busy and one task queued while a
  worker gives up. Proved for every instance, as are the three providers of the
  lyrics and the processes of the trash, see below.
- *Three pids, at most two of them launching or killing at once* (`MaxRuns`), and
  one kill: an instance that runs, and two launches, or a launch and a kill, that
  race over it. Two launches and a kill all at once, and three launches at once,
  were also checked, once each: they take longer than a run should.
- *Strings of 0 to 4 bytes* are every remainder of the padding, and the empty one.
  *Four messages* make, destroy and delete an object, and use its id again while
  an event for the former is on its way; five were also checked once.
- *Files of up to three lines* are a header, a key and a line that does not belong
  there, in every order; two calls are one that undoes the other.
- *Variants*: `vibrant` has tones of its own in 2025, `tonal_spot` stands for the
  others of 2025, `content` for those that fall back to 2021 and follow the source.
- `MaxOps`, `MaxLists`, `MaxSets`, `MaxForeign`, `MaxRequests`, `MaxPublishes`,
  `MaxFlights`, `MaxResets`, `MaxFiles`, `MaxCalls`, `MaxRuns`, `MaxKills`,
  `MaxTime`, `MaxWrites`, `MaxEvents`, `MaxMessages` and `MaxSelections` bound the
  environment only, and stand in the guards of its actions. Runs switch deadlock
  checking off because an environment that stops lets the system stop.
- Symmetry is used in `syncmap_keys` (goroutines, keys) and `disk` (processes;
  paths, which are also the revisions and the applications): neither checks
  liveness.

### Fairness, and why the code justifies it

Fairness is weak, and per goroutine or group of steps that one goroutine takes:

- `WatchFeed`: opening, the run goroutine, enrichment, the context hook and the
  rest of a close that began, the serving of requests, and a client that reads its
  connection. Goroutines that can run do, timers fire. Nothing makes files
  change, clients hang up or list, or the service close.
- `SyncMap`: each process with a call under way. Nobody has to call.
- `ClipboardOwner`: the run goroutine, each caller within its Set, a Close that
  has begun, the compositor processing requests. A pasting client reads or closes
  its end: the handler's write is on the run goroutine and blocking, so without
  this Close can wait for ever. It is listed as a hazard (`owner.go:245`), and
  assumed here.
- `IpcBus`: every goroutine of the server, and deadlines expire (30 s,
  `writer.go:12`). Clients need not read, send or leave.
- `WorkerPool`: workers and the tasks they run, and a drain that was woken.
- `LyricsRace`: the grace timer fires. No provider has to answer.
- `BootTimer`: the reader goroutine, a Reset that began, and a program that
  receives, as the comment of `Timer` asks it to.
- `Portal`: the steps of `RetrieveSecret`, whose calls fail on a lost connection, a
  portal that replies to the call and closes its end of the pipe after it has answered. The user need not answer.
- `AppServe`: `Serve`, the runners once the context has ended (a function runner
  returns when it does), and the two deadlines. A request may take for ever.

The composite runs take these conditions from the modules; the steps of a
component that is not running are never enabled.

## 5. What is proved

All for every value of the constants, from the ASSUME of the module that declares
them (finite sets of keys or callers, capacities that are natural numbers,
marks such as `Nil` distinct from values). Each is Init, every step of Next, and
stuttering; PTL combines them. Of a component that is checked in a composite run,
the theorem is proved of the component alone, and the lemmas `Group...` (every
step of `MCNext` is a step of that component or leaves it alone) carry it over to
the property the run checks. `MimeApps`, which rests at no initial state of its own
while another component moves, has its invariant proved of `MCSpec` (`DiskInv`).

- `WatchFeedProofs`. `TypeCorrect`, by one lemma per group of actions over
  the four parts of `TypeOK`; `PublishType` is cited by all that publish.
  `SeqContiguousCorrect`: `SeqContiguous` is inductive once joined with "nothing
  is on the connection of a client that left" (`FeedInv`), needed because a
  publish to a subscriber that left is dropped. `EndsAtAppend` and `EndsAtTail`
  are the facts about queues, `PublishFeed` and `AttachFeed` the two steps that
  matter: a publish extends the run by one, and an attach moves a whole buffer, or
  the resync that stands for it, to an empty connection.
  `NoLostChangeCorrect`, from `LostInv`: while the first listing is read nobody
  takes from the kernel queue, so that a file whose change was missed is still
  noted there (`OpenRule`); later it is noted there, pending with the timer
  running, or in the read under way (`LiveRule`); the queue loses a name only for
  an overflow mark at its end (`QueueRule`); names are pending only while the timer
  runs, armed or not (`TimerRule`). A read that fails makes `ReadFailed` true of its
  own file and of no other, in the listing as in the listing being read.
  `FeedInSyncCorrect`, from `SyncInv` over the two invariants before. The property
  speaks of the view after all events are applied; the proof goes name by name,
  through the last word on it (`LastWord`, `Told`). `FlushRule`: a flush compares
  a name with what was in the listing before it read it; `PageRule` and
  `MirrorRule`: a page that was answered, and the client's copy, are followed by
  events that lead to the listing of now (`Follows`), and are of the options of
  now. `Follows` also bounds the client's number from below: without that a page
  could be older than the first event the client will take.
  `GoneUnregistered`, the safety half of `GoneTold`, from `GoneInv`: nobody is told
  before the watch was closed, and a closed watch is in no table.
- `SyncMapProofs`. `TypeCorrect`: `misses` stays within the number of keys, because
  a miss that reaches the size of the dirty table promotes it and that table never
  has more entries than there are keys (`PresentCount`, `MissType`). `Good` adds
  to `TypeOK` that a process about to touch an entry holds one.
  `EntryRuleCorrect`: the rule of the `entry` comment at every instant, for
  any number of goroutines, keys and entries. Alone it is not inductive. `IInv`
  adds `Distinct` (an entry belongs to one key in both tables, else unexpunging
  one key would change another), `NoDirty` (without a dirty table the read table
  is complete), and for each process `MuRule`: the steps of a critical section are
  taken by the holder of `mu`, the copy loop has not yet copied what it still has to
  do, and no compare-and-swap expects the expunged mark, so no lock-free step can
  bring an expunged entry back to life. `QuietRule` disposes of the steps that
  touch neither table nor mark; `UnexpungeRule`, `PromoteRule` and
  `CopyOneRule` are the heart.
  What an answer means needs more than that, `HInv`: a key that only the dirty table
  has is there because the read table is marked amended (`AmendRule`); what the place
  of a call in the code says of it (`CallRule`, `SeenRule`); an entry that calls hold
  is of one key, theirs (`OwnRule`); what a snapshot of the read table has is still
  there, or expunged and gone for good (`SnapRule`); who may work on an entry that
  only the dirty table has (`DirtyOnlyRule`). The hard case is `OrphanRule`:
  LoadAndDelete takes an entry out of the dirty table and empties it afterwards,
  outside the lock, so for a while goroutines work on a live entry the map no longer
  has. Nobody can find such an entry any more, and nobody stores in it.
  `RangeCorrect`: a Range hands out values of its snapshot's entries; each is
  either in the tables and its pointer is what the map holds, or was, when the
  entry left them, since the call began (`HeldRule`, `VisitRule`).
  `LinearizableCorrect`: `SyncMapHistory` implements `AtomicMap`. The abstract state of
  a key is a set of possibilities: `LInv` says, of every assignment of answers to the
  calls under way that `Fits` them, that (the value now, those answers) is reached
  from that set (`Covered`). What fits a call is the answer it has at its return, and
  before that none, except for the calls on an entry that left the tables: those
  may already be taken to have read its value or, one of them, deleted it
  (`May`, `OneDeletes`). `StepEffect` shows that every step is either silent or the one
  moment at which its call takes effect on the map; `OrphanAdvance` and
  `RemovedAdvance` treat the steps on an entry outside the tables and the removal
  itself, where the calls that hold the entry are put before the deletion though
  they may act after it. `ReturnEnds` then gives the step of `AtomicMap`.
  `A!Reach` is a recursive function; what the proofs need of it (`ReachKeeps`,
  `ReachTakes`, `ReachSteady`, `ReachTypes`) goes by the least number at which it would
  fail (`Least`), set-wise, since the induction theorems with an operator parameter
  are out of reach.
- `DiskProofs`, of the trash. `RecoverableCorrect`, `NothingLostCorrect`, `EmptyClearsCorrect`,
  `OwnNamesCorrect` and `TypeCorrect`, for any processes, names, paths and number
  of calls, under `Distinct` (the marks are not files or paths). The invariant is
  `Shape`, and, as long as no Empty ran beside another call (`spoiled`): `Own` (no
  two calls between an info file and its file have one name), `Claimed` (such a
  call's name has its info file, with the path once it is written), `Lists` (a
  file in the trash has an info file with its path), `Alone` and `Swept` (what an
  Empty still has to do covers everything that is left) and `Kept` (every file is
  somewhere). `Recoverable` alone is not inductive: a rename puts a file
  beside an info file that only `Claimed` says is right.
  Of the thumbnails: `ThumbsTrueCorrect`, for any requests, sizes and writes. A
  request goes by a second the entry has or had (`Had`); what it read later than that
  is, if the entry still has that second and never had it with an earlier content, of
  the file as it is (`Current`). `JobRule` says so of the requests under way, `MadeRule` of what
  lies in the cache.
  Of the launcher: `TreeKeptCorrect`, for any processes, revisions, displays and
  kills. `ShellInv` has, besides the types, `Equipped` (a process at a step has
  the revision and the tree that step needs), `StandRule` (a PID in a file and the
  instances a process goes by are of processes that have started), `KnownRule` (an
  instance that was established when a process began has its tree, no process is
  about to prune, and none is replacing that very tree) and, for launches of
  one revision, `OneRule`. `KnownRule` is what makes counting PIDs and pruning safe
  though they are two steps: whoever comes to prune later has counted later, and
  found the instance.
  Of `mimeapps.list`: `SticksCorrect` and `ChangesOnlyCorrect`, for any writers,
  types, applications, tables, any files and any number of calls, under
  `MimeAssumption` (the types are finitely many, the tables are of types and
  applications, and "none" is no line, type or application). The heart is two facts
  about `Render`, for every file and every wish: `RenderReads`, that what is rendered
  reads back as exactly the associations that were to be written, and the second
  part of `RenderIs`, that the lines of others (`Foreign`) are those of the file, in
  their order and each in its group. Both follow from what every line keeps of what
  has come out before it (`RenderLineKeeps`): no entry in a managed group says
  anything but what it is to say (`Right`), so that of several entries it does not
  matter which counts, and the group the output is in is the group the input is in. What
  was not in the file is added where its group ends first or in a new group at the
  end, after which nothing is missing (`FlushKeeps`, `AddGroupKeeps`). Above
  that `MimeInv`: of the goroutines of one process at most one has read and not yet
  renamed, and its copy is the file (`OneRenames`); what was set stands in the file and
  is not among what the file takes away (`StandsThere`; the second half is what makes
  `GetDefault` find it). `FirstCandidate` shows that the default comes first among
  the candidates of each alias, through the chain of parents and the concatenation
  of the lists.
  `TypesCorrect`: the types of all four components, and `OwnNames`, under `Distinct`.

  What a recursive function computes goes by induction over a set of numbers
  (`UpTo`, from the least number of a set, `LeastNumber`), and that the function exists
  by repeating a step given as a function (`Repeated`, and `StaysIn` for the values
  it has): the library's theorems on induction and recursion take operators. These
  are the module `Recursion`, which `WaylandProofs` uses as well. `SiftsRun`,
  `ForeignsRun`, `RendersRun`, `ExtendsRun` and `GrowsRun` are that for each of the
  functions.
- `IpcProofs`, for any clients, publishers and requests. `TornLastCorrect` and
  `BusTypeCorrect` from `BusInv`: a connection's lock has one holder (`LockRule`), a
  writer writes whole lines (`LineRule`), after a torn one the connection is closed
  or its writer is about to close it (`TornRule`), which keeps the others out; and
  who has left the bus stays out of it (`LeaveRule`). `SettledCorrect`, of clients
  that wait for each answer: `AskInv` follows the one request and the one answer of
  a connection through the reader, the dispatch, the writer and the socket.
  `DeliversCorrect`: whom a publish has still to serve is in its snapshot, being
  written to, reached or lost (`DeliverRule`). The assumption that no topic is called
  "none" keeps the mark of a line that is no event apart.
- `GoroutinesProofs`. Of the pool: `WorkConservingCorrect`, `DrainedAllCorrect` and
  `TypeCorrect`, from one inductive invariant: `running` counts the workers alive,
  a task queued is in the queue and one started is the job of a busy worker,
  what a drain was told to wait for is not new, and no task waits without a worker
  that looks unless `running` is `Max`. Cardinalities go through
  `FiniteSetTheorems`.
  The rest is from the named assumptions of `MCGoroutines`.
  `AgreesWithCompositorCorrect`, from `OwnerInv`. `TurnRule` is its heart: while
  nobody is served, the owner's current source is the selection or its cancellation
  is on the way (`Quiet`); while a Set is served, either the compositor has not
  seen its source (`Asked`), or it has, and the cancellation of the former source
  comes before the answer to the sync (`Granted`, `Due`), so that the handler of the
  answer finds `current` free to be replaced. `OnceRule` (a source is the selection
  but once) and `CountRule` (sources are numbered as they are made) keep a late
  cancellation from hitting a newer source.
  `SizesTrueCorrect`, from `SizesInv`: the tally of a scan (`WalkRule`), how far it
  has counted since it was cancelled, which a check every `CheckRun` entries bounds
  (`LateRule`; the arithmetic is in `CheckComes` and `CheckBound`), and that a scan
  whose event is out is in no table (`GoneRule`).
  `GrantedOnlyCorrect` and `CleanStopCorrect`, the safety halves of `Answered` and
  `StopsCleanly`: from `PortalInv`, no signal under the request's path is older
  than the call, and the portal answers a request once; from `AppInv`, an error
  has a cause (`CauseRule`) and `Serve` goes past an HTTP server only when it is
  closed to new requests and has none, or the ten seconds are over (`PastRule`).
  `TypesCorrect`: the types of all seven components.
- `WaylandProofs`. `FdPairingCorrect` and `ConnTypeCorrect`, for any objects and
  events (`Bounded`: their number is a natural one). `Matched`: the descriptors
  received and those ahead are in the order of the events they belong to, and none
  comes after its event; that the compositor says nothing of an object after its
  delete_id (`LastWord`) is why a client that reads one event after the other knows
  which of them take a descriptor. The place is lost in three steps, one by a
  deadline and two at a header or a body that was cut, and stays lost.
  `RequestRead` and `EventRead`, of `WireFormat`: for any number of arguments, with
  strings and arrays of every length, the compositor reads from a request exactly
  what its method put, and ends where the size says that the method had computed
  beforehand; `Dispatch` reads from an event what the compositor put, but
  for a string that is null, which it reads as none (`Bad`; the code panics). Every buffer
  on the way to the whole message is open at its end (`Open`: no item lies at or
  past it) and is found again in what comes after (`Grown`), so that an item put once
  stays where it was put (`Holds`) and one argument is read by the lemma for its kind
  (`EventArg`, `RequestArg`); the reader is at each argument where the writer
  was (`Prefix`), for which `Padding` says that the two roundings agree.
- `LyricsRaceProofs`. `UnbeatableCorrect` and `PromptCorrect`, for any number of
  providers: `Decided` says how a flight that ended was decided from the answers
  it had, `Open4All` that a flight goes on only while some provider out could
  still win; that an answer received never changes is what carries a decision
  over to the answers still to come.

Only model-checked, and why:

- everything temporal (`Converges`, `GoneTold`, `LockFree`, `CloseReturns`,
  `PublishReturns`, `LeavesBus`, `DrainReturns`, `LeaderServed`, `Wakes`, and the
  second halves of `Answered` and `StopsCleanly`): liveness under fairness is beyond
  these provers;
- `Understood` and `Resolves`: the generated code and the colours are finite tables,
  and TLC goes through every row. Two parts of `Understood` are proved: that a
  message that fits its row is read as it was put (`RequestRead`, `EventRead`), and
  that it gets its own descriptors (`FdPairing`). What is left to TLC is that both
  ends have the same row in mind, through the object tables and the numbers that
  are given back and used again;
- `TypesOK` of `MCSockets`, for the same reason; the types of `IpcBus` and
  `WaylandConn` in it are proved;
- `ClipboardWatch`, of which only a finding is shown.

## 6. Where the code and its comments part

Shown by a run:

1. `watch_attach` violates `AttachFlushes`. `service.go:87`: "Attach flushes what
   each watch buffered before its topic had a subscriber." A watch whose directory
   vanished after the page and before the subscribe has left the table that Attach
   walks (`service.go:94`); its buffered "gone" is never published and
   the client is not told.
2. `owner_wakeup` violates `SetReturns`. `owner.go:136`: "wake interrupts the poll
   in run so a pending Set or Close is picked up without waiting for the compositor
   to send something." Set writes the byte (`owner.go:100`) before it offers the
   request (`owner.go:102`). If run drains the byte, finds nobody on the channel and
   polls again in between, Set waits until the compositor happens to speak.
   Close does not have this fault: it closes `stop` first, which is why the
   faulty variant that swaps the two breaks `CloseReturns`.
3. `watch_closed` violates `UntilDone`. `wlclipboard/watch.go:22`: Watch "invokes
   callback with the content of each new selection until ctx is done." The
   goroutine that reads a selection (`watch.go:75`) is not waited for; WatchChan
   closes the channel its callback sends on (`watch.go:113`), and a send on a closed
   channel panics.
4. `shell_session` violates `RefusesSecond`. `commands.go:42`: "already running for
   this session". The check goes by the first session file of the display
   (`pidfile.go:142`), which may be one a crash left behind: it hides the instance
   that runs, and a second one starts.

Met while modelling, and shown by no run (they are in the models unless it says
otherwise):

- `owner.go:269` ignores the error of the round trip: on a lost connection Set
  returns nil for a request the compositor never saw, against `owner.go:18`.
- `WatchChan` drops the newest selection when its channel is full, and selections
  may arrive in any order.
- Trash: Empty removes the info file of a file it failed to remove, and skips a
  directory it cannot read (`trash.go:378`); two Restores of one path may overwrite
  one another (`trash.go:430`). PIDs may remove a PID file another process has
  created and not yet written.
- Shell: a launch that has counted the instances and found none (`shellapp.go:153`)
  prunes a moment later; an instance that another launch starts in between loses
  its tree while it runs, and launches that then extract its revision again may
  still replace each other's tree under it. The first version of `TreeKept` denied
  the latter: three pids were too few to show it, and its proof did not go through.
- Lyrics: `upgradeCache` does not restamp an entry on an error or when the
  rate limiter says no, though its comment says "restamped either way"
  (`lyrics.go:279`); not modelled.
- Mimeapps: a default set for an alias is never consulted; a removal in a file of
  the system beats the user's default; rewriting keeps only the first of a list
  of defaults; two processes lose each other's updates; `GetDefault` may return an
  application that `AppsForMime` omits.
- Portal: `RetrieveSecret` ignores its context during the call and while it reads
  the pipe; when the connection is lost `wait` spins on the nil of the closed channel
  until the context ends (`request.go:76`), for ever with one that never does; a portal older than 0.9 may answer before `redirect` has subscribed.
- `app.Serve` waits for ever when every runner returns nil.
- `files`: a flush forgets a name whose Lstat fails with anything but NotExist
  (`watch.go:222`), and the listing keeps the old entry until the next notification of
  that file; a listing that meets the error has it as unreadable for as long
  (`list.go:86`); any error of `os.Stat` or `os.ReadDir` on the directory is told as
  "gone".
- `files`: the cache of counts is keyed by path and modification time but not by
  `includeHidden` (`service.go:150`; not modelled); a fail marker is for all sizes
  and also set for passing failures; a file written twice in a second may keep the
  thumbnail of the moment in between, a link that of a former target (the time is the
  link's own, `entry.go:46`, the image the target's, `thumbs.go:195`), a file moved in
  that of another with the same time; a scan started after the service's snapshot of
  its scans is not cancelled by Close.
- `ipc`: `Client.Call` takes the next line for its answer (`client.go:45`; not
  modelled).
- Wayland: a header or body that arrives in two pieces is an error after part of it was
  read (`event.go:32`, `event.go:48`), and the next read starts in its middle. The round
  trips' callers ignore the error (`owner.go:269`, `session.go:62`, `watch.go:85`), so
  that an owner goes on reading noise. What it then makes of the bytes is not modelled.
- Wayland: `context.go:88` calls `GetDispatch` safe for concurrent use, but
  `ReadMsg` reads header and body in two calls without a lock; `Register` does
  not cover the write, so that two goroutines may send new ids out of order;
  `session.Close` marks the display but never closes the connection; offers are
  never destroyed; an offer announced to a device just destroyed is dropped; a NULL
  string in an event panics inside Dispatch; a size of 64 KiB and more does not
  fit its 16 bits; an event that names an object just destroyed makes a new proxy
  for it.
- Material: `color.go:35` says of a pair that one role "must be the color being
  constructed", but `surface_tint` of 2025, a renamed copy of `primary`, has
  primary's pair; under 2021 the dim roles are nil in `ToColorMap`; and a 2021
  colour asked in a scheme of 2025 would recurse without end, which is why
  `Resolves` forbids that 2025 reaches one it redefines.

## 7. What is not modelled, and why

- Data: MIME sniffing, sort order, page cursors, JSON, clipboard contents,
  percent-encoding, colours as numbers. The properties do not tell them apart.
- In `files`: the mutations, whose effect on a watch is a change of the directory,
  which `ChangeFile` and `RemoveDir` already are; counts; several watches and
  several clients, which share only the table of watches and, on hosts that
  deliver per topic, no feed.
- In `ipc`: listening and the stale socket; the client library; mux and parameters.
- In the clipboard: a source that offers several types, Paste, and the failure of
  setting up a session.
- In `wayland/client`: truncated control messages, messages of 64 KiB and more, what is
  read after the place in the stream was lost, a rest that comes in several pieces,
  several goroutines that send at once (the library has one).
- In `shellapp`: signals to a process told to restart, configurations of the
  user's own, `CallUI`, the environment of the UI.
- In `lyrics`: the cache behind a provider, the rate limiter, parsers and providers.
- In `portal`: notifications. In `desktop`: reading desktop entries and the caches
  of the tables. In `trash`: the choice of the directory among mounts.
- In `material`: all arithmetic (colour spaces, contrast, quantizers, palettes,
  the loops that search a tone by its chroma) and the generated enums.
- The scanner's reading of XML; generated mocks; helpers. Nothing in them depends
  on an order of events.

------------------------------ MODULE WatchFeed ------------------------------
(***************************************************************************)
(* One directory watch of the files service: the goroutine that turns      *)
(* file-system notifications into numbered batches (files/watch.go), the   *)
(* registration, attach and paging calls of files/service.go and           *)
(* files/handlers.go, the enrichment tasks that amend entries later, and   *)
(* the client that mirrors the directory from pages and batches.           *)
(*                                                                         *)
(* An entry is its modification time and whether its enrichment (sniffed   *)
(* mime, thumbnail, icon) has been applied.  The directory and the kernel  *)
(* queue are the environment, and any read of the directory or of a file   *)
(* may fail though it is there: permission, an I/O error.  The client      *)
(* follows the contract the server code is written for: apply batches in   *)
(* sequence, fetch a page on resync.                                       *)
(***************************************************************************)
EXTENDS Naturals, FiniteSets, SequencesExt

CONSTANTS Names,        \* file names of the directory
          HiddenNames,  \* those listed only when hidden entries are asked for
          Enrichable,   \* those for which the service sniffs or thumbnails
          PendingCap,   \* pendingCap of watch.go: batches kept before attach
          KernelCap,    \* notifications the kernel holds before overflowing
          AttachOnOpen, \* whether the host has no per-topic subscribe: both, or one
          AsksHidden,   \* whether clients ask for hidden entries: both, or one
          MaxOps,       \* bound: changes of the directory
          MaxLists      \* bound: pages the client asks for on its own

ASSUME WatchFeedAssumption ==
  /\ HiddenNames \subseteq Names
  /\ Enrichable \subseteq Names
  /\ PendingCap \in Nat
  /\ KernelCap \in Nat \ {0}
  /\ AttachOnOpen \subseteq BOOLEAN /\ AsksHidden \subseteq BOOLEAN
  /\ MaxOps \in Nat \ {0}
  /\ MaxLists \in Nat
  /\ "Self" \notin Names /\ "Overflow" \notin Names

VARIABLES
  dir, exists, ops,                      \* the directory
  kq,                                    \* notifications not yet read
  opc, watching, scan,                   \* openWatch: its step, w.watching, its listing
  rpc, names, armed, timer,              \* the run goroutine and its coalescing timer
  todo, fresh, before, touched,          \* its flush or readDir under way
  missed,                                \* history: files the last flush of could not read
  entries, inclHidden, seq, subscribed, pending, dropped,   \* watch, under w.mu
  once, registered, shut,                \* closeOnce, Service.watches, Service.Close called
  tasks, sniffing,                       \* enrichment queued, and past its closed check
  wire,                                  \* events on the subscriber's connection
  cphase, attach, lpc, resp, mirror, cseq, chidden, lists   \* the client and its requests

env      == <<dir, exists, ops, kq>>
openv    == <<opc, watching, scan>>
runv     == <<rpc, names, armed, timer, todo, fresh, before, touched, missed>>
watchv   == <<entries, inclHidden, subscribed, seq, pending, dropped, wire>>
closev   == <<once, registered, shut>>
enrichv  == <<tasks, sniffing>>
clientv  == <<cphase, attach, lpc, resp, mirror, cseq, chidden, lists>>
vars     == <<env, openv, runv, watchv, closev, enrichv, clientv>>

\* Parts of those, for the steps that change only some of one.
world    == <<dir, exists, ops>>
batching == <<names, armed, timer>>
reading  == <<todo, fresh, before, touched, missed>>
listing  == <<entries, inclHidden, subscribed>>
feed     == <<seq, pending, dropped, wire>>
requests == <<attach, lpc, resp>>
mirrorv  == <<mirror, cseq, chidden, lists>>

Absent == [v |-> 0, e |-> FALSE]
Unreadable == [v |-> MaxOps + 1, e |-> FALSE]   \* listed without a modification time
Fresh(n) == [v |-> dir[n], e |-> FALSE]
NoEntries == [n \in Names |-> Absent]
NoPage == [kind |-> "none", seq |-> 0, view |-> << >>]

\* filterView: what a client with this includeHidden option is shown.
View(es, hidden) ==
  LET shown == {n \in Names : es[n].v > 0 /\ (hidden \/ n \notin HiddenNames)}
  IN  [n \in shown |-> es[n]]

Done == once # "open"                  \* w.done is closed
NotifierOpen == once # "closed"
MuFree == rpc # "flushing"             \* only flush holds w.mu over several reads
Connected == cphase # "left"

-----------------------------------------------------------------------------
(* Publishing: publishLocked, and what the bus writes to the connection.    *)

Batch(kind, s, put, removed) == [kind |-> kind, seq |-> s, put |-> put, removed |-> removed]

OnWire(events) == wire' = IF Connected THEN wire \o events ELSE wire

BufferFullLate == Len(pending) > PendingCap   \* faulty: one batch too many

BufferFull == Len(pending) >= PendingCap

Publish(kind, put, removed) ==
  IF kind = "batch" /\ DOMAIN put = {} /\ removed = {}
  THEN UNCHANGED feed
  ELSE LET payload == Batch(kind, seq + 1, put, removed) IN
       /\ seq' = seq + 1
       /\ \/ /\ subscribed
             /\ OnWire(<<payload>>)
             /\ UNCHANGED <<pending, dropped>>
          \/ /\ ~subscribed /\ BufferFull
             /\ pending' = << >> /\ dropped' = TRUE
             /\ UNCHANGED wire
          \/ /\ ~subscribed /\ ~BufferFull
             /\ pending' = Append(pending, payload)
             /\ UNCHANGED <<dropped, wire>>

\* Faulty: an entry that was listed before is never sent again.
PublishDiffUntouched(es) ==
  LET now == View(es, inclHidden)
  IN  Publish("batch", [n \in DOMAIN now \ before |-> now[n]], before \ DOMAIN now)

\* diff: removals by name, then what is new or was touched.
PublishDiff(es) ==
  LET now == View(es, inclHidden)
  IN  Publish("batch",
              [n \in {m \in DOMAIN now : m \notin before \/ m \in touched} |-> now[n]],
              before \ DOMAIN now)

\* unenriched: what a freshly read listing hands to enrich.
Unenriched(es, from) ==
  {<<n, es[n].v>> : n \in {m \in from \cap Enrichable : es[m].v \notin {0, Unreadable.v}}}

-----------------------------------------------------------------------------
(* The directory and the kernel's notification queue.                       *)

\* inotify merges a notification equal to the last one and ends a full queue
\* with a single overflow mark.
Notified(n) ==
  IF ~watching \/ ~NotifierOpen \/ (kq # << >> /\ Last(kq) = n) THEN kq
  ELSE IF Len(kq) < KernelCap THEN Append(kq, n)
  ELSE IF Len(kq) > KernelCap \/ Last(kq) = "Overflow" THEN kq
  ELSE Append(kq, "Overflow")

\* A file is created, written, or removed.
ChangeFile(n) ==
  /\ exists /\ ops < MaxOps
  /\ ops' = ops + 1
  /\ \E v \in {0, ops + 1} : v # dir[n] /\ dir' = [dir EXCEPT ![n] = v]
  /\ kq' = Notified(n)
  /\ UNCHANGED <<exists, openv, runv, watchv, closev, enrichv, clientv>>

\* The directory itself is removed or renamed away.
RemoveDir ==
  /\ exists /\ ops < MaxOps
  /\ exists' = FALSE /\ ops' = ops + 1
  /\ dir' = [n \in Names |-> 0]
  /\ kq' = Notified("Self")
  /\ UNCHANGED <<openv, runv, watchv, closev, enrichv, clientv>>

-----------------------------------------------------------------------------
(* openWatch and the page that handleWatch answers with.                    *)

ArmNotifier ==
  /\ opc = "arm"
  /\ \E ok \in BOOLEAN : (ok => exists) /\ watching' = ok
  /\ opc' = "read" /\ todo' = Names
  /\ UNCHANGED <<env, scan, rpc, batching, fresh, before, touched, missed, watchv, closev,
                 enrichv, clientv>>

\* readDir fails: the notifier is closed and the request answered with an error.
OpenFail ==
  /\ opc = "read" /\ todo = Names
  /\ opc' = "failed" /\ watching' = FALSE /\ kq' = << >> /\ todo' = {}
  /\ cphase' = "left" /\ wire' = << >>
  /\ UNCHANGED <<world, scan, rpc, batching, fresh, before, touched, missed, listing, seq, pending,
                 dropped, closev, enrichv, requests, mirrorv>>

\* What readDir makes of n: its entry, or one that says it could not be read.
Listed(n) == IF dir[n] = 0 THEN {Fresh(n)} ELSE {Fresh(n), Unreadable}

OpenRead(n) ==
  /\ opc = "read" /\ n \in todo /\ (todo = Names => exists)
  /\ \E f \in Listed(n) : scan' = [scan EXCEPT ![n] = f]
  /\ todo' = todo \ {n}
  /\ UNCHANGED <<env, opc, watching, rpc, batching, fresh, before, touched, missed, watchv,
                 closev, enrichv, clientv>>

Register ==
  /\ opc = "read" /\ todo = {}
  /\ opc' = "hook"
  /\ entries' = scan /\ inclHidden' = chidden
  /\ registered' = TRUE
  /\ rpc' = IF watching THEN "select" ELSE "returned"
  /\ UNCHANGED <<env, watching, scan, batching, reading, subscribed, feed, once, shut, enrichv,
                 clientv>>

\* closeWith and the first enrich; awaitEnrich waits no longer than its budget.
HookAndEnrich ==
  /\ opc = "hook"
  /\ opc' = "page"
  /\ tasks' = tasks \cup Unenriched(scan, Names)
  /\ scan' = NoEntries
  /\ UNCHANGED <<env, watching, runv, watchv, closev, sniffing, clientv>>

\* watch.page, for the first answer or for a later list request.
Page ==
  /\ MuFree
  /\ inclHidden' = chidden
  /\ resp' = [kind |-> "page", seq |-> seq, view |-> View(entries, chidden)]

OpenPage ==
  /\ opc = "page" /\ Page
  /\ opc' = "done"
  /\ UNCHANGED <<env, watching, scan, runv, entries, subscribed, feed, closev, enrichv, cphase,
                 attach, lpc, mirrorv>>

-----------------------------------------------------------------------------
(* The run goroutine.                                                       *)

RunReturn ==
  /\ rpc = "select" /\ Done
  /\ rpc' = "returned"
  /\ UNCHANGED <<env, openv, batching, reading, watchv, closev, enrichv, clientv>>

Receive(e) ==
  /\ rpc = "select" /\ NotifierOpen
  /\ kq # << >> /\ Head(kq) = e
  /\ kq' = Tail(kq)

Rearmed == timer \/ ~armed

RecvName(n) ==
  /\ Receive(n)
  /\ names' = names \cup {n} /\ armed' = TRUE
  /\ timer' = Rearmed
  /\ UNCHANGED <<world, openv, rpc, reading, watchv, closev, enrichv, clientv>>

\* Faulty: the goroutine ends without telling the client.
RecvSelfSilent ==
  /\ Receive("Self")
  /\ rpc' = "returned"
  /\ UNCHANGED <<world, openv, batching, reading, watchv, closev, enrichv, clientv>>

RecvSelf ==
  /\ Receive("Self")
  /\ rpc' = "goneReturn"
  /\ UNCHANGED <<world, openv, batching, reading, watchv, closev, enrichv, clientv>>

\* ErrEventOverflow: resync; the pending names are forgotten, the timer is not stopped.
RecvOverflow ==
  /\ Receive("Overflow")
  /\ \/ /\ exists
        /\ rpc' = "resyncing" /\ todo' = Names /\ fresh' = NoEntries
        /\ UNCHANGED <<names, armed>>
     \/ /\ rpc' = "goneLoop" /\ names' = {} /\ armed' = FALSE
        /\ UNCHANGED <<todo, fresh>>
  /\ UNCHANGED <<world, openv, timer, before, touched, missed, watchv, closev, enrichv, clientv>>

ResyncRead(n) ==
  /\ rpc = "resyncing" /\ n \in todo
  /\ \E f \in Listed(n) : fresh' = [fresh EXCEPT ![n] = f]
  /\ todo' = todo \ {n}
  /\ UNCHANGED <<env, openv, rpc, batching, before, touched, missed, watchv, closev, enrichv,
                 clientv>>

ResyncEnd ==
  /\ rpc = "resyncing" /\ todo = {}
  /\ entries' = fresh
  /\ Publish("resync", << >>, {})
  /\ tasks' = tasks \cup Unenriched(fresh, Names)
  /\ rpc' = "select" /\ names' = {} /\ armed' = FALSE /\ fresh' = NoEntries /\ missed' = {}
  /\ UNCHANGED <<env, openv, timer, todo, before, touched, inclHidden, subscribed, closev,
                 sniffing, clientv>>

\* The coalescing timer fires: take the names, check the directory, lock w.mu.
FlushBegin ==
  /\ rpc = "select" /\ timer
  /\ timer' = FALSE /\ armed' = FALSE /\ names' = {}
  /\ \/ /\ exists
        /\ rpc' = "flushing" /\ todo' = names /\ touched' = names
        /\ before' = DOMAIN View(entries, inclHidden)
     \/ /\ rpc' = "goneLoop"
        /\ UNCHANGED <<todo, touched, before>>
  /\ UNCHANGED <<env, openv, fresh, missed, watchv, closev, enrichv, clientv>>

\* The entry as it is; or none can be had, and what is listed of n stays as it was.
FlushRead(n) ==
  /\ rpc = "flushing" /\ n \in todo
  /\ \/ entries' = [entries EXCEPT ![n] = Fresh(n)] /\ missed' = missed \ {n}
     \/ missed' = missed \cup {n} /\ UNCHANGED entries
  /\ todo' = todo \ {n}
  /\ UNCHANGED <<env, openv, rpc, batching, fresh, before, touched, inclHidden, subscribed,
                 feed, closev, enrichv, clientv>>

FlushEnd ==
  /\ rpc = "flushing" /\ todo = {}
  /\ PublishDiff(entries)
  /\ tasks' = tasks \cup Unenriched(entries, touched \ missed)
  /\ rpc' = "select" /\ before' = {} /\ touched' = {}
  /\ UNCHANGED <<env, openv, batching, todo, fresh, missed, listing, closev, sniffing,
                 clientv>>

\* publishGone: close, wait for whoever is closing already, then publish.
GoneClose ==
  /\ rpc \in {"goneReturn", "goneLoop"} /\ once = "open"
  /\ once' = "closing"
  /\ UNCHANGED <<env, openv, runv, watchv, registered, shut, enrichv, clientv>>

ClosedFirst == once = "closed"

GonePublish ==
  /\ rpc \in {"goneReturn", "goneLoop"} /\ ClosedFirst
  /\ Publish("gone", << >>, {})
  /\ rpc' = IF rpc = "goneReturn" THEN "returned" ELSE "select"
  /\ UNCHANGED <<env, openv, batching, reading, listing, closev, enrichv, clientv>>

-----------------------------------------------------------------------------
(* Enrichment tasks on the worker pool.                                     *)

\* The closed check made before the file is sniffed.
EnrichStart(t) ==
  /\ t \in tasks
  /\ tasks' = tasks \ {t}
  /\ sniffing' = IF Done THEN sniffing ELSE sniffing \cup {t}
  /\ UNCHANGED <<env, openv, runv, watchv, closev, clientv>>

StillListed(t) == entries[t[1]].v > 0   \* faulty: a snapshot of an older file applies

StillCurrent(t) == entries[t[1]].v = t[2]

\* applyChanged: the snapshot replaces the entry if that still has its mtime.
EnrichApply(t) ==
  /\ t \in sniffing /\ MuFree
  /\ sniffing' = sniffing \ {t}
  /\ LET n == t[1]
         es == [entries EXCEPT ![n] = [v |-> t[2], e |-> TRUE]]
     IN  IF StillCurrent(t)
         THEN /\ entries' = es
              /\ Publish("batch", [m \in {n} \cap DOMAIN View(es, inclHidden) |-> es[m]], {})
         ELSE UNCHANGED <<entries, feed>>
  /\ UNCHANGED <<env, openv, runv, inclHidden, subscribed, closev, tasks, clientv>>

\* The sniffed entry turns out no different: nothing is applied.
EnrichSkip(t) ==
  /\ t \in sniffing
  /\ sniffing' = sniffing \ {t}
  /\ UNCHANGED <<env, openv, runv, watchv, closev, tasks, clientv>>

-----------------------------------------------------------------------------
(* Closing: ctx, files.unwatch, Service.Close and publishGone all run close. *)

CloseBy(cause) ==
  /\ cause /\ once = "open"
  /\ once' = "closing"
  /\ UNCHANGED <<env, openv, runv, listing, seq, pending, dropped, registered, enrichv,
                 requests, mirrorv>>

\* The connection's context ended: the hook armed by closeWith closes the watch.
CtxClose ==
  /\ CloseBy(cphase = "left" /\ opc \in {"page", "done"})
  /\ UNCHANGED <<wire, shut, cphase>>

ServiceClose ==
  /\ CloseBy(registered)
  /\ shut' = TRUE
  /\ UNCHANGED <<wire, cphase>>

Unwatch ==
  /\ CloseBy(cphase = "live" /\ registered)
  /\ cphase' = "left" /\ wire' = << >>
  /\ UNCHANGED shut

\* The rest of close: the notifier stops, the service forgets the watch.
CloseFinish ==
  /\ once = "closing"
  /\ once' = "closed" /\ registered' = FALSE /\ kq' = << >>
  /\ UNCHANGED <<world, openv, runv, watchv, shut, enrichv, clientv>>

-----------------------------------------------------------------------------
(* Requests and the client.                                                 *)

Idle == lpc = "none" /\ resp = NoPage

Disconnect ==
  /\ cphase \in {"opening", "page", "live"}
  /\ cphase' = "left" /\ wire' = << >>
  /\ UNCHANGED <<env, openv, runv, listing, seq, pending, dropped, closev, enrichv, requests,
                 mirrorv>>

\* The answer to a watch or list request arrives, ordered with no event.
RecvPage ==
  /\ resp.kind # "none" /\ cphase \in {"opening", "live"}
  /\ resp' = NoPage
  /\ \/ /\ resp.kind = "page"
        /\ mirror' = resp.view /\ cseq' = resp.seq
        /\ cphase' = IF cphase = "live" \/ subscribed THEN "live" ELSE "page"
     \/ /\ resp.kind = "error"
        /\ cphase' = "lost"
        /\ UNCHANGED <<mirror, cseq>>
  /\ UNCHANGED <<env, openv, runv, watchv, closev, enrichv, attach, lpc, chidden, lists>>

\* subscribe: Service.Attach looks the topic's watch up ...
Subscribe ==
  /\ cphase = "page"
  /\ cphase' = "live"
  /\ attach' = IF registered THEN "found" ELSE "finished"
  /\ UNCHANGED <<env, openv, runv, watchv, closev, enrichv, lpc, resp, mirrorv>>

\* ... and watch.attach flushes the buffer, or one resync for a dropped one.
\* Faulty: the resync is not numbered; the loss is not told.
FlushedUnnumbered == IF dropped THEN <<Batch("resync", seq, << >>, {})>> ELSE pending
FlushedSilently == pending

Flushed == IF dropped THEN <<Batch("resync", seq + 1, << >>, {})>> ELSE pending

Attach ==
  /\ attach = "found" /\ MuFree
  /\ attach' = "finished"
  /\ subscribed' = TRUE /\ pending' = << >> /\ dropped' = FALSE
  /\ seq' = IF dropped THEN seq + 1 ELSE seq
  /\ OnWire(Flushed)
  /\ UNCHANGED <<env, openv, runv, entries, inclHidden, closev, enrichv, cphase, lpc, resp,
                 mirrorv>>

\* The client asks for a page on its own, perhaps with another hidden option.
AskList ==
  /\ cphase = "live" /\ Idle /\ lists < MaxLists
  /\ lpc' = "asked" /\ lists' = lists + 1
  /\ chidden' \in AsksHidden
  /\ UNCHANGED <<env, openv, runv, watchv, closev, enrichv, cphase, attach, resp, mirror, cseq>>

\* handleList: watchByID first, the page afterwards.
ListLookup ==
  /\ lpc = "asked"
  /\ \/ /\ registered
        /\ lpc' = "found"
        /\ UNCHANGED resp
     \/ /\ ~registered
        /\ lpc' = "none"
        /\ resp' = [kind |-> "error", seq |-> 0, view |-> << >>]
  /\ UNCHANGED <<env, openv, runv, watchv, closev, enrichv, cphase, attach, mirrorv>>

ListPage ==
  /\ lpc = "found" /\ Page
  /\ lpc' = "none"
  /\ UNCHANGED <<env, openv, runv, entries, subscribed, feed, closev, enrichv, cphase, attach,
                 mirrorv>>

\* What a client makes of a batch: removals first, then what was added or changed.
Applied(m, ev) ==
  [n \in (DOMAIN m \ ev.removed) \cup DOMAIN ev.put |->
     IF n \in DOMAIN ev.put THEN ev.put[n] ELSE m[n]]

\* The next event; events wait while a page is asked for, since the page may
\* already contain them.
RecvEvent ==
  /\ cphase = "live" /\ Idle /\ wire # << >>
  /\ wire' = Tail(wire)
  /\ LET ev == Head(wire) IN
     \/ /\ ev.kind = "gone"
        /\ cphase' = "gone"
        /\ UNCHANGED <<mirror, cseq, lpc>>
     \/ /\ ev.kind # "gone" /\ ev.seq <= cseq
        /\ UNCHANGED <<cphase, mirror, cseq, lpc>>
     \/ /\ ev.kind = "batch" /\ ev.seq > cseq
        /\ mirror' = Applied(mirror, ev) /\ cseq' = ev.seq
        /\ UNCHANGED <<cphase, lpc>>
     \/ /\ ev.kind = "resync" /\ ev.seq > cseq
        /\ cseq' = ev.seq /\ lpc' = "asked"
        /\ UNCHANGED <<cphase, mirror>>
  /\ UNCHANGED <<env, openv, runv, listing, seq, pending, dropped, closev, enrichv, attach,
                 resp, chidden, lists>>

-----------------------------------------------------------------------------
Init ==
  /\ dir \in [Names -> {0, 1}] /\ exists = TRUE /\ ops = 1
  /\ kq = << >>
  /\ opc = "arm" /\ watching = FALSE /\ scan = NoEntries
  /\ rpc = "none" /\ names = {} /\ armed = FALSE /\ timer = FALSE
  /\ todo = {} /\ fresh = NoEntries /\ before = {} /\ touched = {} /\ missed = {}
  /\ entries = NoEntries /\ inclHidden = FALSE
  /\ seq = 0 /\ subscribed \in AttachOnOpen /\ pending = << >> /\ dropped = FALSE
  /\ once = "open" /\ registered = FALSE /\ shut = FALSE
  /\ tasks = {} /\ sniffing = {}
  /\ wire = << >>
  /\ cphase = "opening" /\ attach = "no" /\ lpc = "none" /\ resp = NoPage
  /\ mirror = << >> /\ cseq = 0 /\ chidden \in AsksHidden /\ lists = 0

Environment == RemoveDir \/ (\E n \in Names : ChangeFile(n))

Opening == ArmNotifier \/ OpenFail \/ (\E n \in Names : OpenRead(n)) \/ Register
           \/ HookAndEnrich \/ OpenPage

Run == \/ RunReturn \/ RecvSelf \/ RecvOverflow \/ FlushBegin \/ FlushEnd \/ ResyncEnd
       \/ GoneClose \/ GonePublish
       \/ \E n \in Names : RecvName(n) \/ FlushRead(n) \/ ResyncRead(n)

Enrich == \/ \E t \in tasks : EnrichStart(t)
          \/ \E t \in sniffing : EnrichApply(t) \/ EnrichSkip(t)

Closing == CtxClose \/ ServiceClose \/ Unwatch \/ CloseFinish

Serving == Attach \/ ListLookup \/ ListPage

Client == RecvPage \/ Subscribe \/ AskList \/ RecvEvent

Next == Environment \/ Opening \/ Run \/ Enrich \/ Closing \/ Serving \/ Client \/ Disconnect

Spec == Init /\ [][Next]_vars

\* Every goroutine that can run does, timers fire, and the client reads its socket.
Fairness ==
  /\ WF_vars(Opening) /\ WF_vars(Run) /\ WF_vars(Enrich)
  /\ WF_vars(CtxClose \/ CloseFinish) /\ WF_vars(Serving)
  /\ WF_vars(RecvPage \/ Subscribe \/ RecvEvent)

FairSpec == Spec /\ Fairness

-----------------------------------------------------------------------------
Entry == [v : 0..MaxOps + 1, e : BOOLEAN]
ViewType == UNION {[S -> Entry] : S \in SUBSET Names}
Event == [kind : {"batch", "resync", "gone"}, seq : Nat, put : ViewType, removed : SUBSET Names]

EnvTypeOK ==
  /\ dir \in [Names -> 0..MaxOps] /\ exists \in BOOLEAN /\ ops \in 1..MaxOps
  /\ kq \in Seq(Names \cup {"Self", "Overflow"}) /\ Len(kq) <= KernelCap + 1

RunTypeOK ==
  /\ opc \in {"arm", "read", "hook", "page", "done", "failed"}
  /\ watching \in BOOLEAN /\ scan \in [Names -> Entry]
  /\ rpc \in {"none", "select", "flushing", "resyncing", "goneReturn", "goneLoop",
              "returned"}
  /\ names \subseteq Names /\ armed \in BOOLEAN /\ timer \in BOOLEAN
  /\ todo \subseteq Names /\ fresh \in [Names -> Entry]
  /\ before \subseteq Names /\ touched \subseteq Names /\ missed \subseteq Names

WatchTypeOK ==
  /\ entries \in [Names -> Entry] /\ inclHidden \in BOOLEAN
  /\ seq \in Nat /\ subscribed \in BOOLEAN /\ dropped \in BOOLEAN
  /\ pending \in Seq(Event) /\ Len(pending) <= PendingCap /\ wire \in Seq(Event)
  /\ once \in {"open", "closing", "closed"} /\ registered \in BOOLEAN /\ shut \in BOOLEAN
  /\ tasks \subseteq Names \X (0..MaxOps) /\ sniffing \subseteq Names \X (0..MaxOps)

ClientTypeOK ==
  /\ cphase \in {"opening", "page", "live", "gone", "lost", "left"}
  /\ attach \in {"no", "found", "finished"} /\ lpc \in {"none", "asked", "found"}
  /\ resp \in [kind : {"none", "page", "error"}, seq : Nat, view : ViewType]
  /\ mirror \in ViewType /\ cseq \in Nat /\ chidden \in BOOLEAN /\ lists \in 0..MaxLists

\* The state's shape; the buffer never holds more than pendingCap batches.
TypeOK == EnvTypeOK /\ RunTypeOK /\ WatchTypeOK /\ ClientTypeOK

\* q holds consecutive events, the last numbered s.
EndsAt(q, s) == \A i \in DOMAIN q : q[i].seq + Len(q) = s + i

\* "sequence numbers must have no gaps" (watch_test.go): what is buffered and what
\* is on the connection each run without a gap up to the number last given out,
\* and nothing is lost from the buffer unless it is marked dropped.
SeqContiguous ==
  /\ EndsAt(pending, seq) /\ EndsAt(wire, seq)
  /\ subscribed => pending = << >> /\ ~dropped
  /\ ~subscribed => wire = << >>
  /\ ~subscribed /\ ~dropped => Len(pending) = seq

\* The events of q that tell of n to a client that has everything up to number s.
Tells(q, s, n) == {i \in DOMAIN q : q[i].seq > s /\ n \in DOMAIN q[i].put \cup q[i].removed}

\* f has the last word on n for a client that has m and is still to apply q: it is what
\* the last of those events put, or m itself.
LastWord(q, s, m, n, f) ==
  \/ Tells(q, s, n) = {} /\ f = m
  \/ \E i \in Tells(q, s, n) : (\A j \in Tells(q, s, n) : j <= i) /\ f = q[i].put

\* f and g list n alike, or neither lists it.
Alike(f, g, n) == (n \in DOMAIN f <=> n \in DOMAIN g) /\ (n \in DOMAIN g => f[n] = g[n])

ResyncAhead == \E i \in DOMAIN wire : wire[i].kind = "resync" /\ wire[i].seq > cseq

\* At every moment a live client can use its next event, which is at most one past
\* what it has or the resync that stands for what was dropped; and what a subscribed
\* client has plus what is on its way to it is the server's filtered view: pages,
\* batches, enrichments and option changes interleave without the two ever drifting
\* apart.
FeedInSync ==
  cphase = "live" /\ Idle =>
    /\ wire # << >> => Head(wire).seq <= cseq + 1 \/ Head(wire).kind = "resync"
    /\ subscribed /\ MuFree /\ ~ResyncAhead =>
         \A n \in Names : \E f \in {wire[i].put : i \in DOMAIN wire} \cup {mirror} :
           LastWord(wire, cseq, mirror, n, f) /\ Alike(f, View(entries, chidden), n)

\* The last read of n failed: a flush left the older entry (watch.go: "case err
\* != nil: continue"), or readDir listed it as unreadable.
ReadFailed(n) == n \in missed \/ entries[n] = Unreadable

\* A file whose listed state is out of date always has a notification in the
\* kernel queue, a pending name with its timer running, or a read under way,
\* unless it is the very file whose last read failed; a failure loses no change
\* of another file.
NoLostChange ==
  registered /\ watching /\ once = "open" /\ rpc # "goneLoop" /\ exists =>
    \A n \in Names :
      \/ entries[n].v = dir[n] \/ ReadFailed(n)
      \/ n \in ToSet(kq) \/ "Overflow" \in ToSet(kq)
      \/ rpc = "select" /\ n \in names /\ timer
      \/ rpc = "flushing" /\ n \in todo
      \/ rpc = "resyncing" /\ (n \in todo \/ fresh[n].v = dir[n] \/ fresh[n] = Unreadable)

\* service.go: "Attach flushes what each watch buffered before its topic had a
\* subscriber": after the subscribe is served nothing stays in the buffer.
AttachFlushes == attach = "finished" /\ cphase = "live" /\ ~shut => pending = << >> /\ ~dropped

Shown(n) == chidden \/ n \notin HiddenNames

\* Once the directory rests, a live client's mirror becomes and stays what the
\* watch lists, and that is the directory as it should be shown, whatever was
\* dropped or overflowed before; only of a file whose last read failed both may
\* be out of date.
Converges ==
  <>[](cphase = "live" /\ subscribed /\ watching /\ exists /\ once = "open" =>
         \A n \in Names :
           /\ Alike(mirror, View(entries, chidden), n)
           /\ ReadFailed(n) \/ (n \in DOMAIN mirror <=> dir[n] > 0 /\ Shown(n))
           /\ n \in DOMAIN mirror => ReadFailed(n) \/ mirror[n].v = dir[n])

\* Somebody was told, or is about to be told, that the directory is gone.
ToldGone == cphase = "gone" \/ \E q \in {pending, wire} : \E i \in DOMAIN q : q[i].kind = "gone"

\* A subscribed client whose directory disappears is told so, unless it or the
\* service closed the watch first; and never before the watch is "closed first so
\* a client told "gone" can no longer resolve the watch id" (watch.go).
GoneTold ==
  /\ [](ToldGone => ~registered)
  /\ (subscribed /\ registered /\ watching /\ once = "open" /\ ~exists)
       ~> (cphase \in {"gone", "lost", "left"} \/ shut)
=============================================================================

--------------------------- MODULE WatchFeedProofs ---------------------------
(***************************************************************************)
(* What holds of a directory watch whatever the files, the capacities and  *)
(* the number of changes: the type invariant, the gap-free numbering of    *)
(* the feed, that no change of a file is lost, that the feed and the pages *)
(* agree, and that a client told "gone" cannot resolve the watch.          *)
(***************************************************************************)
EXTENDS WatchFeed, TLAPS

\* A filtered listing is a function from some of the names to entries.
LEMMA ViewIsView ==
  ASSUME NEW es \in [Names -> Entry], NEW h \in BOOLEAN
  PROVE  View(es, h) \in ViewType /\ DOMAIN View(es, h) \subseteq Names
<1> DEFINE shown == {n \in Names : es[n].v > 0 /\ (h \/ n \notin HiddenNames)}
<1>1. View(es, h) = [n \in shown |-> es[n]]
  BY DEF View
<1>2. View(es, h) \in [shown -> Entry]
  BY <1>1
<1>3. shown \in SUBSET Names
  OBVIOUS
<1> QED
  BY <1>1, <1>2, <1>3 DEF ViewType

\* The empty listing is a view, and the empty queue a queue of events.
LEMMA EmptyIsView == << >> \in ViewType
<1>1. << >> = [n \in {} |-> n]
  OBVIOUS
<1>2. << >> \in [{} -> Entry]
  BY <1>1
<1> QED
  BY <1>2 DEF ViewType

LEMMA EmptyIsQueue == << >> \in Seq(Event) /\ Len(<< >>) = 0 /\ 0 <= PendingCap
BY WatchFeedAssumption

\* What a directory read finds is an entry.
LEMMA FreshIsEntry ==
  ASSUME EnvTypeOK, NEW n \in Names
  PROVE  Fresh(n) \in Entry /\ Listed(n) \subseteq Entry
<1>1. dir[n] \in 0..MaxOps + 1 /\ MaxOps + 1 \in 0..MaxOps + 1
  <2>1. dir[n] \in 0..MaxOps
    BY DEF EnvTypeOK
  <2> QED
    BY <2>1, WatchFeedAssumption
<1>2. \A v \in 0..MaxOps + 1 : [v |-> v, e |-> FALSE] \in Entry
  BY DEF Entry
<1>3. Fresh(n) \in Entry /\ Unreadable \in Entry
  BY <1>1, <1>2 DEF Fresh, Unreadable
<1> QED
  BY <1>3 DEF Listed

LEMMA AppliedIsEntry == \A v \in 0..MaxOps : [v |-> v, e |-> TRUE] \in Entry
BY WatchFeedAssumption DEF Entry

\* The tasks of a listing name files and their mtimes.
LEMMA UnenrichedIsTask ==
  ASSUME NEW es \in [Names -> Entry], NEW from \in SUBSET Names
  PROVE  Unenriched(es, from) \subseteq Names \X (0..MaxOps)
<1>1. \A v \in 0..MaxOps + 1 : v # MaxOps + 1 => v \in 0..MaxOps
  BY WatchFeedAssumption
<1>2. \A n \in Names : es[n].v \in 0..MaxOps + 1
  BY DEF Entry
<1> QED
  BY <1>1, <1>2 DEF Unenriched, Unreadable

\* Publishing a well-formed batch keeps the feed well formed.
LEMMA PublishType ==
  ASSUME WatchTypeOK, NEW kind \in {"batch", "resync", "gone"}, NEW put \in ViewType,
         NEW removed \in SUBSET Names, Publish(kind, put, removed)
  PROVE  /\ seq' \in Nat /\ dropped' \in BOOLEAN
         /\ pending' \in Seq(Event) /\ Len(pending') <= PendingCap /\ wire' \in Seq(Event)
<1> DEFINE ev == Batch(kind, seq + 1, put, removed)
<1>1. ev \in Event
  BY DEF WatchTypeOK, Batch, Event
<1>2. CASE UNCHANGED feed
  BY <1>2 DEF feed, WatchTypeOK
<1>3. CASE subscribed /\ OnWire(<<ev>>) /\ UNCHANGED <<pending, dropped>> /\ seq' = seq + 1
  BY <1>1, <1>3 DEF WatchTypeOK, OnWire
<1>4. CASE pending' = << >> /\ dropped' = TRUE /\ UNCHANGED wire /\ seq' = seq + 1
  BY <1>4, WatchFeedAssumption DEF WatchTypeOK
<1>5. CASE ~BufferFull /\ pending' = Append(pending, ev) /\ UNCHANGED <<dropped, wire>> /\ seq' = seq + 1
  BY <1>1, <1>5, WatchFeedAssumption DEF WatchTypeOK, BufferFull
<1> QED
  BY <1>2, <1>3, <1>4, <1>5 DEF Publish

\* What leaves a group of variables alone leaves its types alone.
LEMMA EnvSame == EnvTypeOK /\ UNCHANGED env => EnvTypeOK'
BY DEF EnvTypeOK, env

LEMMA RunSame == RunTypeOK /\ UNCHANGED <<openv, runv>> => RunTypeOK'
BY DEF RunTypeOK, openv, runv

LEMMA WatchSame == WatchTypeOK /\ UNCHANGED <<watchv, closev, enrichv>> => WatchTypeOK'
BY DEF WatchTypeOK, watchv, closev, enrichv

LEMMA ClientSame == ClientTypeOK /\ UNCHANGED clientv => ClientTypeOK'
BY DEF ClientTypeOK, clientv

LEMMA TailType ==
  ASSUME NEW S, NEW q \in Seq(S), q # << >>
  PROVE  Tail(q) \in Seq(S) /\ Len(Tail(q)) = Len(q) - 1
OBVIOUS

\* The kernel queue holds names and marks, one mark above its capacity at most.
LEMMA NotifiedType ==
  ASSUME EnvTypeOK, NEW n \in Names \cup {"Self"}
  PROVE  /\ Notified(n) \in Seq(Names \cup {"Self", "Overflow"})
         /\ Len(Notified(n)) <= KernelCap + 1
<1> DEFINE S == Names \cup {"Self", "Overflow"}
<1>1. /\ kq \in Seq(S) /\ Len(kq) <= KernelCap + 1 /\ n \in S /\ "Overflow" \in S
      /\ KernelCap \in Nat
  BY WatchFeedAssumption DEF EnvTypeOK
<1>2. \/ Notified(n) = kq
      \/ Notified(n) = Append(kq, n) /\ Len(kq) < KernelCap
      \/ Notified(n) = Append(kq, "Overflow") /\ ~(Len(kq) > KernelCap)
  BY DEF Notified
<1> HIDE DEF S
<1>3. Notified(n) \in Seq(S) /\ Len(Notified(n)) <= KernelCap + 1
  BY <1>1, <1>2
<1> QED
  BY <1>3 DEF S

LEMMA ReceiveType ==
  ASSUME EnvTypeOK, NEW e, Receive(e), UNCHANGED world
  PROVE  EnvTypeOK'
<1> DEFINE S == Names \cup {"Self", "Overflow"}
<1>1. kq \in Seq(S) /\ Len(kq) <= KernelCap + 1 /\ kq # << >> /\ kq' = Tail(kq)
      /\ KernelCap \in Nat
  BY WatchFeedAssumption DEF EnvTypeOK, Receive
<1> HIDE DEF S
<1>2. kq' \in Seq(S) /\ Len(kq') <= KernelCap + 1
  BY <1>1, TailType
<1> QED
  BY <1>2 DEF EnvTypeOK, world, S

\* Steps of the directory keep the types.
LEMMA EnvironmentType == TypeOK /\ Environment => TypeOK'
<1> SUFFICES ASSUME TypeOK, Environment PROVE TypeOK'
  OBVIOUS
<1>1. UNCHANGED <<openv, runv>> /\ UNCHANGED <<watchv, closev, enrichv>> /\ UNCHANGED clientv
  BY DEF Environment, ChangeFile, RemoveDir
<1>2. RunTypeOK' /\ WatchTypeOK' /\ ClientTypeOK'
  BY <1>1, RunSame, WatchSame, ClientSame DEF TypeOK
<1>3. MaxOps \in Nat \ {0} /\ EnvTypeOK
  BY WatchFeedAssumption DEF TypeOK
<1>4. ASSUME NEW n \in Names, ChangeFile(n) PROVE EnvTypeOK'
  <2>1. dir' \in [Names -> 0..MaxOps] /\ exists' \in BOOLEAN /\ ops' \in 1..MaxOps
    <3>1. PICK v \in {0, ops + 1} : dir' = [dir EXCEPT ![n] = v]
      BY <1>4 DEF ChangeFile
    <3>2. exists' = exists /\ ops' = ops + 1 /\ ops < MaxOps
      BY <1>4 DEF ChangeFile
    <3>3. v \in 0..MaxOps
      BY <1>3, <3>2 DEF EnvTypeOK
    <3> QED
      BY <1>3, <3>1, <3>2, <3>3 DEF EnvTypeOK
  <2>2. kq' = Notified(n)
    BY <1>4 DEF ChangeFile
  <2> QED
    BY <1>3, <2>1, <2>2, NotifiedType DEF EnvTypeOK
<1>5. ASSUME RemoveDir PROVE EnvTypeOK'
  <2>1. dir' \in [Names -> 0..MaxOps] /\ exists' \in BOOLEAN /\ ops' \in 1..MaxOps
    <3>1. /\ exists' = FALSE /\ ops' = ops + 1 /\ ops < MaxOps
          /\ dir' = [n \in Names |-> 0]
      BY <1>5 DEF RemoveDir
    <3>2. dir' \in [Names -> 0..MaxOps]
      BY <1>3, <3>1
    <3>3. ops \in Nat
      BY <1>3 DEF EnvTypeOK
    <3>4. ops' \in 1..MaxOps
      BY <1>3, <3>1, <3>3
    <3>5. exists' \in BOOLEAN
      BY <3>1
    <3> QED
      BY <3>2, <3>4, <3>5
  <2>2. kq' = Notified("Self")
    BY <1>5 DEF RemoveDir
  <2> QED
    BY <1>3, <2>1, <2>2, NotifiedType DEF EnvTypeOK
<1> QED
  BY <1>2, <1>4, <1>5 DEF Environment, TypeOK

\* Steps of openWatch keep the types.
LEMMA OpeningType == TypeOK /\ Opening => TypeOK'
<1> SUFFICES ASSUME TypeOK, Opening PROVE TypeOK'
  OBVIOUS
<1>0. EnvTypeOK /\ RunTypeOK /\ WatchTypeOK /\ ClientTypeOK
  BY DEF TypeOK
<1>1. ASSUME ArmNotifier PROVE TypeOK'
  <2>1. RunTypeOK'
    BY <1>0, <1>1 DEF ArmNotifier, RunTypeOK, batching
  <2> QED
    BY <1>0, <1>1, <2>1, EnvSame, WatchSame, ClientSame DEF ArmNotifier, TypeOK
<1>2. ASSUME OpenFail PROVE TypeOK'
  <2>1. EnvTypeOK'
    BY <1>0, <1>2, WatchFeedAssumption DEF OpenFail, EnvTypeOK, world
  <2>2. RunTypeOK'
    BY <1>0, <1>2 DEF OpenFail, RunTypeOK, batching
  <2>3. ClientTypeOK'
    BY <1>0, <1>2 DEF OpenFail, ClientTypeOK, requests, mirrorv
  <2>4. WatchTypeOK'
    BY <1>0, <1>2, EmptyIsQueue DEF OpenFail, WatchTypeOK, listing, closev, enrichv
  <2> QED
    BY <2>1, <2>2, <2>3, <2>4 DEF TypeOK
<1>3. ASSUME NEW n \in Names, OpenRead(n) PROVE TypeOK'
  <2>1. RunTypeOK'
    BY <1>0, <1>3, FreshIsEntry DEF OpenRead, RunTypeOK, batching
  <2> QED
    BY <1>0, <1>3, <2>1, EnvSame, WatchSame, ClientSame DEF OpenRead, TypeOK
<1>4. ASSUME Register PROVE TypeOK'
  <2>1. RunTypeOK'
    BY <1>0, <1>4 DEF Register, RunTypeOK, batching, reading
  <2>2. WatchTypeOK'
    BY <1>0, <1>4 DEF Register, RunTypeOK, WatchTypeOK, ClientTypeOK, feed, enrichv
  <2> QED
    BY <1>0, <1>4, <2>1, <2>2, EnvSame, ClientSame DEF Register, TypeOK
<1>5. ASSUME HookAndEnrich PROVE TypeOK'
  <2>1. Unenriched(scan, Names) \subseteq Names \X (0..MaxOps)
    BY <1>0, UnenrichedIsTask DEF RunTypeOK
  <2>2. NoEntries \in [Names -> Entry]
    BY WatchFeedAssumption DEF NoEntries, Absent, Entry
  <2>3. RunTypeOK'
    BY <1>0, <1>5, <2>2 DEF HookAndEnrich, RunTypeOK, runv
  <2>4. WatchTypeOK'
    BY <1>0, <1>5, <2>1 DEF HookAndEnrich, WatchTypeOK, watchv, closev
  <2> QED
    BY <1>0, <1>5, <2>3, <2>4, EnvSame, ClientSame DEF HookAndEnrich, TypeOK
<1>6. ASSUME OpenPage PROVE TypeOK'
  <2>1. View(entries, chidden) \in ViewType
    BY <1>0, ViewIsView DEF WatchTypeOK, ClientTypeOK
  <2>2. WatchTypeOK'
    BY <1>0, <1>6 DEF OpenPage, Page, WatchTypeOK, ClientTypeOK, feed, closev, enrichv
  <2>3. ClientTypeOK'
    BY <1>0, <1>6, <2>1 DEF OpenPage, Page, WatchTypeOK, ClientTypeOK, mirrorv
  <2>4. RunTypeOK'
    BY <1>0, <1>6 DEF OpenPage, RunTypeOK, runv
  <2> QED
    BY <1>0, <1>6, <2>2, <2>3, <2>4, EnvSame DEF OpenPage, TypeOK
<1> QED
  BY <1>1, <1>2, <1>3, <1>4, <1>5, <1>6 DEF Opening

\* Steps of the run goroutine keep the types.
LEMMA RunType == TypeOK /\ Run => TypeOK'
<1> SUFFICES ASSUME TypeOK, Run PROVE TypeOK'
  OBVIOUS
<1>0. /\ EnvTypeOK /\ RunTypeOK /\ WatchTypeOK /\ ClientTypeOK
      /\ NoEntries \in [Names -> Entry] /\ << >> \in ViewType
  <2>1. NoEntries \in [Names -> Entry]
    BY WatchFeedAssumption DEF NoEntries, Absent, Entry
  <2> QED
    BY <2>1, EmptyIsView DEF TypeOK
<1>1. ASSUME RunReturn PROVE TypeOK'
  <2>1. RunTypeOK'
    BY <1>0, <1>1 DEF RunReturn, RunTypeOK, openv, batching, reading
  <2> QED
    BY <1>0, <1>1, <2>1, EnvSame, WatchSame, ClientSame DEF RunReturn, TypeOK
<1>2. ASSUME NEW n \in Names, RecvName(n) PROVE TypeOK'
  <2>1. RunTypeOK'
    <3>1. /\ names' = names \cup {n} /\ armed' = TRUE /\ timer' \in BOOLEAN
          /\ UNCHANGED <<openv, rpc, reading>>
      BY <1>0, <1>2 DEF RecvName, Rearmed, RunTypeOK
    <3> QED
      BY <1>0, <3>1 DEF RunTypeOK, openv, reading
  <2> QED
    BY <1>0, <1>2, <2>1, ReceiveType, WatchSame, ClientSame DEF RecvName, TypeOK
<1>3. ASSUME RecvSelf PROVE TypeOK'
  <2>1. RunTypeOK'
    <3>1. rpc' = "goneReturn" /\ UNCHANGED <<openv, batching, reading>>
      BY <1>3 DEF RecvSelf
    <3> QED
      BY <1>0, <3>1 DEF RunTypeOK, openv, batching, reading
  <2> QED
    BY <1>0, <1>3, <2>1, ReceiveType, WatchSame, ClientSame DEF RecvSelf, TypeOK
<1>4. ASSUME RecvOverflow PROVE TypeOK'
  <2>1. RunTypeOK'
    <3>1. /\ rpc' \in {"resyncing", "goneLoop"} /\ todo' \in {Names, todo}
          /\ fresh' \in {NoEntries, fresh} /\ names' \in {names, {}}
          /\ armed' \in {armed, FALSE} /\ UNCHANGED <<openv, timer, before, touched, missed>>
      BY <1>4 DEF RecvOverflow
    <3> QED
      BY <1>0, <3>1 DEF RunTypeOK, openv
  <2> QED
    BY <1>0, <1>4, <2>1, ReceiveType, WatchSame, ClientSame DEF RecvOverflow, TypeOK
<1>5. ASSUME NEW n \in Names, ResyncRead(n) PROVE TypeOK'
  <2>1. RunTypeOK'
    BY <1>0, <1>5, FreshIsEntry DEF ResyncRead, RunTypeOK, openv, batching
  <2> QED
    BY <1>0, <1>5, <2>1, EnvSame, WatchSame, ClientSame DEF ResyncRead, TypeOK
<1>6. ASSUME ResyncEnd PROVE TypeOK'
  <2>1. Unenriched(fresh, Names) \subseteq Names \X (0..MaxOps)
    BY <1>0, UnenrichedIsTask DEF RunTypeOK
  <2>2. /\ seq' \in Nat /\ dropped' \in BOOLEAN /\ pending' \in Seq(Event)
        /\ Len(pending') <= PendingCap /\ wire' \in Seq(Event)
    BY <1>0, <1>6, PublishType DEF ResyncEnd
  <2>3. WatchTypeOK'
    BY <1>0, <1>6, <2>1, <2>2 DEF ResyncEnd, WatchTypeOK, RunTypeOK, closev
  <2>4. RunTypeOK'
    BY <1>0, <1>6 DEF ResyncEnd, RunTypeOK, openv
  <2> QED
    BY <1>0, <1>6, <2>3, <2>4, EnvSame, ClientSame DEF ResyncEnd, TypeOK
<1>7. ASSUME FlushBegin PROVE TypeOK'
  <2>1. DOMAIN View(entries, inclHidden) \subseteq Names
    BY <1>0, ViewIsView DEF WatchTypeOK
  <2>2. RunTypeOK'
    BY <1>0, <1>7, <2>1 DEF FlushBegin, RunTypeOK, openv
  <2> QED
    BY <1>0, <1>7, <2>2, EnvSame, WatchSame, ClientSame DEF FlushBegin, TypeOK
<1>8. ASSUME NEW n \in Names, FlushRead(n) PROVE TypeOK'
  <2>1. RunTypeOK'
    BY <1>0, <1>8 DEF FlushRead, RunTypeOK, openv, batching
  <2>2. WatchTypeOK'
    BY <1>0, <1>8, FreshIsEntry DEF FlushRead, WatchTypeOK, feed, closev, enrichv
  <2> QED
    BY <1>0, <1>8, <2>1, <2>2, EnvSame, ClientSame DEF FlushRead, TypeOK
<1>9. ASSUME FlushEnd PROVE TypeOK'
  <2> DEFINE now == View(entries, inclHidden)
             sent == {m \in DOMAIN now : m \notin before \/ m \in touched}
  <2>1. Unenriched(entries, touched \ missed) \subseteq Names \X (0..MaxOps)
    BY <1>0, UnenrichedIsTask DEF RunTypeOK, WatchTypeOK
  <2>2. now \in ViewType /\ DOMAIN now \subseteq Names
    BY <1>0, ViewIsView DEF WatchTypeOK
  <2>3. [n \in sent |-> now[n]] \in ViewType
    <3>1. PICK S \in SUBSET Names : now \in [S -> Entry]
      BY <2>2 DEF ViewType
    <3>2. sent \in SUBSET Names /\ \A n \in sent : now[n] \in Entry
      BY <2>2, <3>1
    <3>3. [n \in sent |-> now[n]] \in [sent -> Entry]
      BY <3>2
    <3> QED
      BY <3>2, <3>3 DEF ViewType
  <2>4. before \ DOMAIN now \in SUBSET Names
    BY <1>0 DEF RunTypeOK
  <2>5. Publish("batch", [n \in sent |-> now[n]], before \ DOMAIN now)
    BY <1>9 DEF FlushEnd, PublishDiff
  <2> HIDE DEF now, sent
  <2>6. /\ seq' \in Nat /\ dropped' \in BOOLEAN /\ pending' \in Seq(Event)
        /\ Len(pending') <= PendingCap /\ wire' \in Seq(Event)
    BY <1>0, <2>3, <2>4, <2>5, PublishType
  <2>7. WatchTypeOK'
    BY <1>0, <1>9, <2>1, <2>6 DEF FlushEnd, WatchTypeOK, listing, closev
  <2>8. RunTypeOK'
    BY <1>0, <1>9 DEF FlushEnd, RunTypeOK, openv, batching
  <2> QED
    BY <1>0, <1>9, <2>7, <2>8, EnvSame, ClientSame DEF FlushEnd, TypeOK
<1>10. ASSUME GoneClose PROVE TypeOK'
  <2>1. WatchTypeOK'
    BY <1>0, <1>10 DEF GoneClose, WatchTypeOK, watchv, enrichv
  <2> QED
    BY <1>0, <1>10, <2>1, EnvSame, RunSame, ClientSame DEF GoneClose, TypeOK
<1>11. ASSUME GonePublish PROVE TypeOK'
  <2>1. /\ seq' \in Nat /\ dropped' \in BOOLEAN /\ pending' \in Seq(Event)
        /\ Len(pending') <= PendingCap /\ wire' \in Seq(Event)
    <3>1. Publish("gone", << >>, {}) /\ {} \in SUBSET Names
      BY <1>11 DEF GonePublish
    <3> QED
      BY <1>0, <3>1, PublishType
  <2>2. WatchTypeOK'
    BY <1>0, <1>11, <2>1 DEF GonePublish, WatchTypeOK, listing, closev, enrichv
  <2>3. RunTypeOK'
    BY <1>0, <1>11 DEF GonePublish, RunTypeOK, openv, batching, reading
  <2> QED
    BY <1>0, <1>11, <2>2, <2>3, EnvSame, ClientSame DEF GonePublish, TypeOK
<1> QED
  BY <1>1, <1>2, <1>3, <1>4, <1>5, <1>6, <1>7, <1>8, <1>9, <1>10, <1>11 DEF Run

\* Steps of the enrichment tasks keep the types.
LEMMA EnrichType == TypeOK /\ Enrich => TypeOK'
<1> SUFFICES ASSUME TypeOK, Enrich PROVE TypeOK'
  OBVIOUS
<1>0. EnvTypeOK /\ RunTypeOK /\ WatchTypeOK /\ ClientTypeOK
  BY DEF TypeOK
<1>1. UNCHANGED env /\ UNCHANGED <<openv, runv>> /\ UNCHANGED clientv
  BY DEF Enrich, EnrichStart, EnrichApply, EnrichSkip
<1>2. ASSUME NEW t \in tasks, EnrichStart(t) PROVE WatchTypeOK'
  BY <1>0, <1>2 DEF EnrichStart, WatchTypeOK, watchv, closev
<1>3. ASSUME NEW t \in sniffing, EnrichSkip(t) PROVE WatchTypeOK'
  BY <1>0, <1>3 DEF EnrichSkip, WatchTypeOK, watchv, closev
<1>4. ASSUME NEW t \in sniffing, EnrichApply(t) PROVE WatchTypeOK'
  <2> DEFINE n == t[1]
             es == [entries EXCEPT ![n] = [v |-> t[2], e |-> TRUE]]
             put == [m \in {n} \cap DOMAIN View(es, inclHidden) |-> es[m]]
  <2>1. n \in Names /\ t[2] \in 0..MaxOps
    BY <1>0 DEF WatchTypeOK
  <2>2. es \in [Names -> Entry]
    BY <1>0, <2>1, AppliedIsEntry DEF WatchTypeOK
  <2>3. put \in ViewType
    <3>1. DOMAIN put \in SUBSET Names /\ put \in [DOMAIN put -> Entry]
      BY <2>1, <2>2
    <3> QED
      BY <3>1 DEF ViewType
  <2>4. \/ entries' = es /\ Publish("batch", put, {})
        \/ UNCHANGED <<entries, feed>>
    BY <1>4 DEF EnrichApply
  <2>5. sniffing' \subseteq sniffing /\ UNCHANGED <<inclHidden, subscribed, closev, tasks>>
    BY <1>4 DEF EnrichApply
  <2> HIDE DEF put, es, n
  <2>6. CASE entries' = es /\ Publish("batch", put, {})
    <3>1. /\ seq' \in Nat /\ dropped' \in BOOLEAN /\ pending' \in Seq(Event)
          /\ Len(pending') <= PendingCap /\ wire' \in Seq(Event)
      BY <1>0, <2>3, <2>6, PublishType
    <3> QED
      BY <1>0, <2>2, <2>5, <2>6, <3>1 DEF WatchTypeOK, closev
  <2>7. CASE UNCHANGED <<entries, feed>>
    BY <1>0, <2>5, <2>7 DEF WatchTypeOK, closev, feed
  <2> QED
    BY <2>4, <2>6, <2>7
<1> QED
  BY <1>0, <1>1, <1>2, <1>3, <1>4, EnvSame, RunSame, ClientSame DEF Enrich, TypeOK

\* Closing, serving and the client's steps keep the types.
LEMMA ClosingType == TypeOK /\ Closing => TypeOK'
<1> SUFFICES ASSUME TypeOK, Closing PROVE TypeOK'
  OBVIOUS
<1>0. EnvTypeOK /\ RunTypeOK /\ WatchTypeOK /\ ClientTypeOK
  BY DEF TypeOK
<1>1. ASSUME NEW c, CloseBy(c), cphase' \in {cphase, "left"}, wire' \in {wire, << >>},
             shut' \in BOOLEAN
      PROVE  TypeOK'
  <2>0. /\ once' = "closing"
        /\ UNCHANGED <<listing, seq, pending, dropped, registered, enrichv>>
        /\ UNCHANGED <<requests, mirrorv>>
    BY <1>1 DEF CloseBy
  <2>1. wire' \in Seq(Event)
    BY <1>0, <1>1, EmptyIsQueue DEF WatchTypeOK
  <2>2. WatchTypeOK'
    BY <1>0, <1>1, <2>0, <2>1 DEF WatchTypeOK, listing, enrichv
  <2>3. ClientTypeOK'
    BY <1>0, <1>1, <2>0 DEF ClientTypeOK, requests, mirrorv
  <2> QED
    BY <1>0, <1>1, <2>2, <2>3, EnvSame, RunSame DEF CloseBy, TypeOK
<1>2. CtxClose \/ ServiceClose \/ Unwatch => TypeOK'
  BY <1>0, <1>1 DEF CtxClose, ServiceClose, Unwatch, WatchTypeOK
<1>3. ASSUME CloseFinish PROVE TypeOK'
  <2>1. EnvTypeOK'
    BY <1>0, <1>3, WatchFeedAssumption DEF CloseFinish, EnvTypeOK, world
  <2>2. WatchTypeOK'
    BY <1>0, <1>3 DEF CloseFinish, WatchTypeOK, watchv, enrichv
  <2> QED
    BY <1>0, <1>3, <2>1, <2>2, RunSame, ClientSame DEF CloseFinish, TypeOK
<1> QED
  BY <1>2, <1>3 DEF Closing

LEMMA ServingType == TypeOK /\ Serving => TypeOK'
<1> SUFFICES ASSUME TypeOK, Serving PROVE TypeOK'
  OBVIOUS
<1>0. EnvTypeOK /\ RunTypeOK /\ WatchTypeOK /\ ClientTypeOK
  BY DEF TypeOK
<1>1. ASSUME Attach PROVE TypeOK'
  <2>1. << >> \in ViewType
    BY EmptyIsView
  <2>2. Flushed \in Seq(Event)
    <3>1. Batch("resync", seq + 1, << >>, {}) \in Event
      BY <1>0, <2>1 DEF Batch, Event, WatchTypeOK
    <3> QED
      BY <1>0, <3>1 DEF Flushed, WatchTypeOK
  <2>3. wire' \in Seq(Event)
    BY <1>0, <1>1, <2>2 DEF Attach, OnWire, WatchTypeOK
  <2>4. WatchTypeOK'
    <3>1. pending' \in Seq(Event) /\ Len(pending') <= PendingCap
      BY <1>1, EmptyIsQueue DEF Attach
    <3>2. /\ seq' \in {seq, seq + 1} /\ subscribed' = TRUE /\ dropped' = FALSE
          /\ UNCHANGED <<entries, inclHidden, closev, enrichv>>
      BY <1>1 DEF Attach
    <3>3. seq' \in Nat
      BY <1>0, <3>2 DEF WatchTypeOK
    <3>4. /\ entries' \in [Names -> Entry] /\ inclHidden' \in BOOLEAN
          /\ subscribed' \in BOOLEAN /\ dropped' \in BOOLEAN
          /\ once' \in {"open", "closing", "closed"} /\ registered' \in BOOLEAN
          /\ shut' \in BOOLEAN /\ tasks' \subseteq Names \X (0..MaxOps)
          /\ sniffing' \subseteq Names \X (0..MaxOps)
      BY <1>0, <3>2 DEF WatchTypeOK, closev, enrichv
    <3> QED
      BY <2>3, <3>1, <3>3, <3>4 DEF WatchTypeOK
  <2>5. ClientTypeOK'
    BY <1>0, <1>1 DEF Attach, ClientTypeOK, mirrorv
  <2> QED
    BY <1>0, <1>1, <2>4, <2>5, EnvSame, RunSame DEF Attach, TypeOK
<1>2. ASSUME ListLookup PROVE TypeOK'
  <2>1. << >> \in ViewType
    BY EmptyIsView
  <2>2. ClientTypeOK'
    BY <1>0, <1>2, <2>1 DEF ListLookup, ClientTypeOK, mirrorv
  <2> QED
    BY <1>0, <1>2, <2>2, EnvSame, RunSame, WatchSame DEF ListLookup, TypeOK
<1>3. ASSUME ListPage PROVE TypeOK'
  <2>1. View(entries, chidden) \in ViewType
    BY <1>0, ViewIsView DEF WatchTypeOK, ClientTypeOK
  <2>2. WatchTypeOK'
    BY <1>0, <1>3 DEF ListPage, Page, WatchTypeOK, ClientTypeOK, feed, closev, enrichv
  <2>3. ClientTypeOK'
    BY <1>0, <1>3, <2>1 DEF ListPage, Page, WatchTypeOK, ClientTypeOK, mirrorv
  <2> QED
    BY <1>0, <1>3, <2>2, <2>3, EnvSame, RunSame DEF ListPage, TypeOK
<1> QED
  BY <1>1, <1>2, <1>3 DEF Serving

LEMMA ClientType == TypeOK /\ (Client \/ Disconnect) => TypeOK'
<1> SUFFICES ASSUME TypeOK, Client \/ Disconnect PROVE TypeOK'
  OBVIOUS
<1>0. EnvTypeOK /\ RunTypeOK /\ WatchTypeOK /\ ClientTypeOK
  BY DEF TypeOK
<1>1. UNCHANGED env /\ UNCHANGED <<openv, runv>>
  BY DEF Client, Disconnect, RecvPage, Subscribe, AskList, RecvEvent
<1>2. ASSUME RecvPage PROVE TypeOK'
  <2>1. << >> \in ViewType
    BY EmptyIsView
  <2>2. ClientTypeOK'
    BY <1>0, <1>2, <2>1 DEF RecvPage, ClientTypeOK, NoPage
  <2> QED
    BY <1>0, <1>1, <1>2, <2>2, EnvSame, RunSame, WatchSame DEF RecvPage, TypeOK
<1>3. ASSUME Subscribe PROVE TypeOK'
  <2>1. ClientTypeOK'
    BY <1>0, <1>3 DEF Subscribe, ClientTypeOK, mirrorv
  <2> QED
    BY <1>0, <1>1, <1>3, <2>1, EnvSame, RunSame, WatchSame DEF Subscribe, TypeOK
<1>4. ASSUME AskList PROVE TypeOK'
  <2>1. ClientTypeOK'
    BY <1>0, <1>4, WatchFeedAssumption DEF AskList, ClientTypeOK
  <2> QED
    BY <1>0, <1>1, <1>4, <2>1, EnvSame, RunSame, WatchSame DEF AskList, TypeOK
<1>5. ASSUME RecvEvent PROVE TypeOK'
  <2> DEFINE ev == Head(wire)
  <2>1. wire # << >> /\ wire \in Seq(Event) /\ wire' = Tail(wire)
    BY <1>0, <1>5 DEF RecvEvent, WatchTypeOK
  <2>2. ev \in Event /\ wire' \in Seq(Event)
    BY <2>1
  <2>3. Applied(mirror, ev) \in ViewType
    <3>1. PICK S \in SUBSET Names : mirror \in [S -> Entry]
      BY <1>0 DEF ClientTypeOK, ViewType
    <3>2. PICK T \in SUBSET Names : ev.put \in [T -> Entry]
      BY <2>2 DEF Event, ViewType
    <3>3. Applied(mirror, ev) \in [(S \ ev.removed) \cup T -> Entry]
      BY <3>1, <3>2 DEF Applied
    <3>4. (S \ ev.removed) \cup T \in SUBSET Names
      BY <3>1, <3>2
    <3> QED
      BY <3>3, <3>4 DEF ViewType
  <2>4. /\ mirror' \in {mirror, Applied(mirror, ev)} /\ cseq' \in {cseq, ev.seq}
        /\ cphase' \in {cphase, "gone"} /\ lpc' \in {lpc, "asked"}
        /\ UNCHANGED <<attach, resp, chidden, lists>>
        /\ UNCHANGED <<listing, seq, pending, dropped, closev, enrichv>>
    BY <1>5 DEF RecvEvent
  <2>5. ev.seq \in Nat
    BY <2>2 DEF Event
  <2> HIDE DEF ev
  <2>6. ClientTypeOK'
    BY <1>0, <2>3, <2>4, <2>5 DEF ClientTypeOK
  <2>7. WatchTypeOK'
    BY <1>0, <2>2, <2>4 DEF WatchTypeOK, listing, closev, enrichv
  <2> QED
    BY <1>0, <1>1, <2>6, <2>7, EnvSame, RunSame DEF TypeOK
<1>6. ASSUME Disconnect PROVE TypeOK'
  <2>1. ClientTypeOK'
    BY <1>0, <1>6 DEF Disconnect, ClientTypeOK, requests, mirrorv
  <2>2. WatchTypeOK'
    BY <1>0, <1>6 DEF Disconnect, WatchTypeOK, listing, closev, enrichv
  <2> QED
    BY <1>0, <1>1, <2>1, <2>2, EnvSame, RunSame DEF TypeOK
<1> QED
  BY <1>2, <1>3, <1>4, <1>5, <1>6 DEF Client

\* The type invariant holds for every set of files and every capacity; in particular
\* the buffer of publishLocked never exceeds pendingCap.
THEOREM TypeCorrect == Spec => []TypeOK
<1>1. Init => TypeOK
  <2> SUFFICES ASSUME Init PROVE TypeOK
    OBVIOUS
  <2>1. << >> \in ViewType
    BY EmptyIsView
  <2>2. NoEntries \in [Names -> Entry]
    BY WatchFeedAssumption DEF NoEntries, Absent, Entry
  <2>3. EnvTypeOK
    BY WatchFeedAssumption DEF Init, EnvTypeOK
  <2>4. RunTypeOK
    BY <2>2 DEF Init, RunTypeOK
  <2>5. WatchTypeOK
    <3>1. pending = << >> /\ wire = << >> /\ subscribed \in BOOLEAN
      BY WatchFeedAssumption DEF Init
    <3> QED
      BY <2>2, <3>1, EmptyIsQueue DEF Init, WatchTypeOK
  <2>6. ClientTypeOK
    BY <2>1, WatchFeedAssumption DEF Init, ClientTypeOK, NoPage
  <2> QED
    BY <2>3, <2>4, <2>5, <2>6 DEF TypeOK
<1>2. TypeOK /\ [Next]_vars => TypeOK'
  <2>1. TypeOK /\ UNCHANGED vars => TypeOK'
    BY EnvSame, RunSame, WatchSame, ClientSame DEF TypeOK, vars
  <2> QED
    BY <2>1, EnvironmentType, OpeningType, RunType, EnrichType, ClosingType, ServingType,
       ClientType DEF Next
<1> QED
  BY <1>1, <1>2, PTL DEF Spec

-----------------------------------------------------------------------------
(* The feed's numbering.  SeqContiguous is inductive once it is known that  *)
(* nothing is on the connection of a client that left.                      *)

FeedInv == SeqContiguous /\ (cphase = "left" => wire = << >>)

LEMMA EndsAtAppend ==
  ASSUME NEW E, \A e \in E : e.seq \in Nat, NEW q \in Seq(E), NEW s \in Nat, EndsAt(q, s),
         NEW ev \in E, ev.seq = s + 1
  PROVE  EndsAt(Append(q, ev), s + 1)
<1> DEFINE r == Append(q, ev)
<1>1. Len(q) \in Nat /\ DOMAIN q = 1..Len(q) /\ Len(r) = Len(q) + 1 /\ DOMAIN r = 1..Len(r)
  OBVIOUS
<1>2. \A i \in DOMAIN q : r[i] = q[i] /\ q[i] \in E
  BY <1>1
<1>3. r[Len(r)] = ev
  BY <1>1
<1>4. \A i \in DOMAIN q : q[i].seq + Len(q) = s + i
  BY Zenon DEF EndsAt
<1> HIDE DEF r
<1>5. ASSUME NEW i \in DOMAIN r PROVE r[i].seq + Len(r) = (s + 1) + i
  <2>1. CASE i \in DOMAIN q
    <3>1. r[i] = q[i] /\ q[i] \in E
      BY <1>2, <2>1
    <3>2. r[i].seq \in Nat /\ i \in Nat
      BY <1>1, <2>1, <3>1
    <3>3. r[i].seq + Len(q) = s + i
      BY <1>4, <2>1, <3>1
    <3>4. Len(q) \in Nat /\ Len(r) = Len(q) + 1
      BY <1>1
    <3> QED
      BY <3>2, <3>3, <3>4
  <2>2. CASE i = Len(r)
    BY <1>1, <1>3, <2>2
  <2> QED
    BY <1>1, <2>1, <2>2
<1> QED
  BY <1>5, Zenon DEF EndsAt, r

LEMMA EndsAtTail ==
  ASSUME NEW E, \A e \in E : e.seq \in Nat, NEW q \in Seq(E), NEW s \in Nat, EndsAt(q, s), q # << >>
  PROVE  EndsAt(Tail(q), s)
<1> DEFINE r == Tail(q)
<1>1. Len(q) \in Nat /\ DOMAIN q = 1..Len(q) /\ Len(r) = Len(q) - 1 /\ DOMAIN r = 1..Len(r)
  OBVIOUS
<1>2. \A i \in DOMAIN r : r[i] = q[i + 1] /\ i + 1 \in DOMAIN q /\ q[i + 1] \in E
  BY <1>1
<1>3. \A i \in DOMAIN q : q[i].seq + Len(q) = s + i
  BY Zenon DEF EndsAt
<1> HIDE DEF r
<1>4. ASSUME NEW i \in DOMAIN r PROVE r[i].seq + Len(r) = s + i
  <2> DEFINE x == r[i].seq
             l == Len(r)
             k == Len(q)
  <2>1. x \in Nat /\ x + k = s + (i + 1)
    BY <1>2, <1>3
  <2>2. i \in Nat /\ l \in Nat /\ k = l + 1
    BY <1>1
  <2> HIDE DEF x, l, k
  <2>3. x + l = s + i
    BY <2>1, <2>2
  <2> QED
    BY <2>3 DEF x, l
<1> QED
  BY <1>4, Zenon DEF EndsAt, r

LEMMA EventNumbered == \A e \in Event : e.seq \in Nat
BY DEF Event

LEMMA EndsAtEmpty == ASSUME NEW s \in Nat PROVE EndsAt(<< >>, s)
BY DEF EndsAt

\* A step that publishes nothing and loses no client keeps the numbering.
LEMMA FeedSame ==
  FeedInv /\ UNCHANGED <<subscribed, feed>> /\ (cphase' = "left" => cphase = "left") => FeedInv'
BY DEF FeedInv, SeqContiguous, EndsAt, feed

\* publishLocked gives out the next number, to the connection or to the buffer.
LEMMA PublishFeed ==
  ASSUME TypeOK, FeedInv, NEW kind \in {"batch", "resync", "gone"}, NEW put \in ViewType,
         NEW removed \in SUBSET Names, Publish(kind, put, removed), UNCHANGED <<subscribed, cphase>>
  PROVE  FeedInv'
<1> DEFINE ev == Batch(kind, seq + 1, put, removed)
<1>0. /\ seq \in Nat /\ pending \in Seq(Event) /\ wire \in Seq(Event)
      /\ subscribed \in BOOLEAN /\ dropped \in BOOLEAN
  BY DEF TypeOK, WatchTypeOK
<1>1. ev \in Event /\ ev.seq = seq + 1
  BY <1>0 DEF Batch, Event
<1> HIDE DEF ev
<1>2. CASE UNCHANGED feed
  BY <1>2, FeedSame
<1>3. CASE subscribed /\ OnWire(<<ev>>) /\ UNCHANGED <<pending, dropped>> /\ seq' = seq + 1
  <2>1. pending = << >> /\ ~dropped /\ EndsAt(pending', seq')
    BY <1>0, <1>3, EndsAtEmpty DEF FeedInv, SeqContiguous
  <2>2. CASE cphase = "left"
    <3>1. wire' = << >>
      BY <1>3, <2>2 DEF OnWire, Connected, FeedInv
    <3>2. EndsAt(wire', seq')
      BY <1>0, <1>3, <3>1, EndsAtEmpty
    <3> QED
      BY <1>3, <2>1, <3>1, <3>2 DEF FeedInv, SeqContiguous
  <2>3. CASE cphase # "left"
    <3>1. wire' = Append(wire, ev)
      BY <1>0, <1>1, <1>3, <2>3 DEF OnWire, Connected
    <3>2. EndsAt(wire', seq')
      BY <1>0, <1>1, <1>3, <3>1, EndsAtAppend, EventNumbered DEF FeedInv, SeqContiguous
    <3> QED
      BY <1>3, <2>1, <2>3, <3>2 DEF FeedInv, SeqContiguous
  <2> QED
    BY <2>2, <2>3
<1>4. CASE ~subscribed /\ pending' = << >> /\ dropped' = TRUE /\ UNCHANGED wire /\ seq' = seq + 1
  <2>1. EndsAt(pending', seq') /\ wire' = << >> /\ EndsAt(wire', seq')
    BY <1>0, <1>4, EndsAtEmpty DEF FeedInv, SeqContiguous
  <2> QED
    BY <1>4, <2>1 DEF FeedInv, SeqContiguous
<1>5. CASE ~subscribed /\ pending' = Append(pending, ev) /\ UNCHANGED <<dropped, wire>> /\ seq' = seq + 1
  <2>1. EndsAt(pending', seq')
    BY <1>0, <1>1, <1>5, EndsAtAppend, EventNumbered DEF FeedInv, SeqContiguous
  <2>2. wire' = << >> /\ EndsAt(wire', seq')
    BY <1>0, <1>5, EndsAtEmpty DEF FeedInv, SeqContiguous
  <2>3. Len(pending') = Len(pending) + 1
    BY <1>0, <1>1, <1>5
  <2>4. ~dropped => Len(pending') = seq'
    BY <1>0, <1>5, <2>3 DEF FeedInv, SeqContiguous
  <2> QED
    BY <1>5, <2>1, <2>2, <2>4 DEF FeedInv, SeqContiguous
<1> QED
  BY <1>2, <1>3, <1>4, <1>5 DEF Publish, ev

\* A client that leaves takes what was on its connection with it.
LEMMA LeaveFeed ==
  ASSUME TypeOK, FeedInv, wire' = << >>, UNCHANGED <<subscribed, seq, pending, dropped>>
  PROVE  FeedInv'
<1>1. EndsAt(wire', seq')
  BY EndsAtEmpty DEF TypeOK, WatchTypeOK
<1> QED
  BY <1>1 DEF FeedInv, SeqContiguous, EndsAt

LEMMA AttachFeed == ASSUME TypeOK, FeedInv, Attach PROVE FeedInv'
<1>0. /\ seq \in Nat /\ pending \in Seq(Event) /\ wire \in Seq(Event)
      /\ subscribed \in BOOLEAN /\ dropped \in BOOLEAN /\ EndsAt(pending, seq)
  BY DEF TypeOK, WatchTypeOK, FeedInv, SeqContiguous
<1>1. /\ subscribed' = TRUE /\ pending' = << >> /\ dropped' = FALSE /\ cphase' = cphase
      /\ seq' = IF dropped THEN seq + 1 ELSE seq
      /\ wire' = IF Connected THEN wire \o Flushed ELSE wire
  BY DEF Attach, OnWire
<1>2. EndsAt(pending', seq')
  BY <1>0, <1>1, EndsAtEmpty
<1>3. EndsAt(wire', seq') /\ (cphase' = "left" => wire' = << >>)
  <2>1. CASE cphase = "left"
    <3>1. wire' = << >>
      BY <1>1, <2>1 DEF Connected, FeedInv
    <3>2. seq' \in Nat
      BY <1>0, <1>1
    <3> QED
      BY <3>1, <3>2, EndsAtEmpty
  <2>2. CASE cphase # "left" /\ subscribed
    <3>1. pending = << >> /\ ~dropped /\ EndsAt(wire, seq)
      BY <2>2 DEF FeedInv, SeqContiguous
    <3>2. wire' = wire /\ seq' = seq
      BY <1>0, <1>1, <2>2, <3>1 DEF Connected, Flushed
    <3> QED
      BY <1>1, <2>2, <3>1, <3>2
  <2>3. CASE cphase # "left" /\ ~subscribed /\ ~dropped
    <3>1. wire = << >> /\ wire' = wire \o pending /\ seq' = seq
      BY <1>1, <2>3 DEF Connected, Flushed, FeedInv, SeqContiguous
    <3>2. wire' = pending
      BY <1>0, <3>1
    <3> QED
      BY <1>0, <1>1, <2>3, <3>1, <3>2
  <2>4. CASE cphase # "left" /\ ~subscribed /\ dropped
    <3> DEFINE ev == Batch("resync", seq + 1, << >>, {})
    <3>1. wire = << >> /\ wire' = wire \o <<ev>> /\ seq' = seq + 1
      BY <1>1, <2>4 DEF Connected, Flushed, FeedInv, SeqContiguous
    <3>2. ev \in Event /\ ev.seq = seq + 1
      BY <1>0, EmptyIsView DEF Batch, Event
    <3> HIDE DEF ev
    <3>3. wire' = Append(<< >>, ev)
      BY <3>1, <3>2
    <3>4. EndsAt(<< >>, seq)
      BY <1>0, EndsAtEmpty
    <3> QED
      BY <1>0, <1>1, <2>4, <3>1, <3>2, <3>3, <3>4, EndsAtAppend, EventNumbered, EmptyIsQueue
  <2> QED
    BY <1>0, <2>1, <2>2, <2>3, <2>4
<1> QED
  BY <1>1, <1>2, <1>3 DEF FeedInv, SeqContiguous

\* The numbering and the left client's empty connection, for every buffer size.
THEOREM FeedInvCorrect == Spec => []FeedInv
<1>1. Init => FeedInv
  <2> SUFFICES ASSUME Init PROVE FeedInv
    OBVIOUS
  <2>1. seq = 0 /\ pending = << >> /\ wire = << >> /\ ~dropped
    BY DEF Init
  <2>2. EndsAt(pending, seq) /\ EndsAt(wire, seq) /\ Len(pending) = seq
    BY <2>1, EndsAtEmpty
  <2> QED
    BY <2>1, <2>2 DEF FeedInv, SeqContiguous
<1>2. ASSUME TypeOK, FeedInv, [Next]_vars PROVE FeedInv'
  <2>1. CASE UNCHANGED vars
    BY <1>2, <2>1, FeedSame DEF vars, watchv, clientv, feed
  <2>2. CASE Environment
    BY <1>2, <2>2, FeedSame DEF Environment, ChangeFile, RemoveDir, watchv, clientv, feed
  <2>3. CASE Opening
    <3>1. CASE OpenFail
      BY <1>2, <3>1, LeaveFeed DEF OpenFail, listing
    <3>2. CASE ~OpenFail
      BY <1>2, <2>3, <3>2, FeedSame DEF Opening, ArmNotifier, OpenRead, Register, HookAndEnrich,
         OpenPage, Page, watchv, clientv, feed
    <3> QED
      BY <3>1, <3>2
  <2>4. CASE Run
    <3>0. UNCHANGED <<subscribed, cphase>>
      BY <2>4 DEF Run, RunReturn, RecvSelf, RecvOverflow, FlushBegin, FlushEnd, ResyncEnd,
         GoneClose, GonePublish, RecvName, FlushRead, ResyncRead, watchv, clientv, listing
    <3>1. CASE FlushEnd
      <4> DEFINE now == View(entries, inclHidden)
                 sent == {m \in DOMAIN now : m \notin before \/ m \in touched}
      <4>1. now \in ViewType /\ DOMAIN now \subseteq Names
        BY <1>2, ViewIsView DEF TypeOK, WatchTypeOK
      <4>2. [n \in sent |-> now[n]] \in ViewType
        <5>1. PICK S \in SUBSET Names : now \in [S -> Entry]
          BY <4>1 DEF ViewType
        <5>2. sent \in SUBSET Names /\ \A n \in sent : now[n] \in Entry
          BY <4>1, <5>1
        <5>3. [n \in sent |-> now[n]] \in [sent -> Entry]
          BY <5>2
        <5> QED
          BY <5>2, <5>3 DEF ViewType
      <4>3. before \ DOMAIN now \in SUBSET Names
        BY <1>2 DEF TypeOK, RunTypeOK
      <4>4. Publish("batch", [n \in sent |-> now[n]], before \ DOMAIN now)
        BY <3>1 DEF FlushEnd, PublishDiff
      <4> HIDE DEF now, sent
      <4> QED
        BY <1>2, <3>0, <4>2, <4>3, <4>4, PublishFeed
    <3>2. CASE ResyncEnd
      <4>1. Publish("resync", << >>, {})
        BY <3>2 DEF ResyncEnd
      <4> QED
        BY <1>2, <3>0, <4>1, PublishFeed, EmptyIsView
    <3>3. CASE GonePublish
      <4>1. Publish("gone", << >>, {})
        BY <3>3 DEF GonePublish
      <4> QED
        BY <1>2, <3>0, <4>1, PublishFeed, EmptyIsView
    <3>4. CASE ~(FlushEnd \/ ResyncEnd \/ GonePublish)
      <4>1. UNCHANGED feed
        BY <2>4, <3>4 DEF Run, RunReturn, RecvSelf, RecvOverflow, FlushBegin, GoneClose,
           RecvName, FlushRead, ResyncRead, watchv, feed
      <4> QED
        BY <1>2, <3>0, <4>1, FeedSame
    <3> QED
      BY <3>1, <3>2, <3>3, <3>4
  <2>5. CASE Enrich
    <3>1. UNCHANGED <<subscribed, cphase>>
      BY <2>5 DEF Enrich, EnrichStart, EnrichApply, EnrichSkip, watchv, clientv
    <3>2. UNCHANGED feed \/ (\E t \in sniffing : EnrichApply(t))
      BY <2>5 DEF Enrich, EnrichStart, EnrichSkip, watchv, feed
    <3>3. ASSUME NEW t \in sniffing, EnrichApply(t) PROVE FeedInv'
      <4> DEFINE n == t[1]
                 es == [entries EXCEPT ![n] = [v |-> t[2], e |-> TRUE]]
                 put == [m \in {n} \cap DOMAIN View(es, inclHidden) |-> es[m]]
      <4>1. n \in Names /\ t[2] \in 0..MaxOps
        BY <1>2 DEF TypeOK, WatchTypeOK
      <4>2. es \in [Names -> Entry]
        BY <1>2, <4>1, AppliedIsEntry DEF TypeOK, WatchTypeOK
      <4>3. put \in ViewType
        <5>1. DOMAIN put \in SUBSET Names /\ put \in [DOMAIN put -> Entry]
          BY <4>1, <4>2
        <5> QED
          BY <5>1 DEF ViewType
      <4>4. Publish("batch", put, {}) \/ UNCHANGED feed
        BY <3>3 DEF EnrichApply
      <4> HIDE DEF put, es, n
      <4> QED
        BY <1>2, <3>1, <4>3, <4>4, PublishFeed, FeedSame
    <3> QED
      BY <1>2, <3>1, <3>2, <3>3, FeedSame
  <2>6. CASE Closing
    <3>1. CASE Unwatch
      BY <1>2, <3>1, LeaveFeed DEF Unwatch, CloseBy, listing
    <3>2. CASE CtxClose \/ ServiceClose \/ CloseFinish
      BY <1>2, <3>2, FeedSame DEF CtxClose, ServiceClose, CloseFinish, CloseBy, listing, watchv,
         clientv, feed
    <3> QED
      BY <2>6, <3>1, <3>2 DEF Closing
  <2>7. CASE Serving
    <3>1. CASE Attach
      BY <1>2, <3>1, AttachFeed
    <3>2. CASE ListLookup \/ ListPage
      BY <1>2, <3>2, FeedSame DEF ListLookup, ListPage, Page, watchv, feed
    <3> QED
      BY <2>7, <3>1, <3>2 DEF Serving
  <2>8. CASE Client
    <3>1. CASE RecvEvent
      <4>1. /\ wire # << >> /\ wire' = Tail(wire) /\ cphase = "live" /\ cphase' \in {cphase, "gone"}
            /\ UNCHANGED <<subscribed, seq, pending, dropped>>
        BY <3>1 DEF RecvEvent, listing
      <4>2. seq \in Nat /\ wire \in Seq(Event) /\ EndsAt(wire, seq) /\ subscribed
        BY <1>2, <4>1 DEF TypeOK, WatchTypeOK, FeedInv, SeqContiguous
      <4>3. EndsAt(wire', seq')
        BY <4>1, <4>2, EndsAtTail, EventNumbered
      <4> QED
        BY <1>2, <4>1, <4>2, <4>3 DEF FeedInv, SeqContiguous
    <3>2. CASE RecvPage \/ Subscribe \/ AskList
      BY <1>2, <3>2, FeedSame DEF RecvPage, Subscribe, AskList, watchv, feed
    <3> QED
      BY <2>8, <3>1, <3>2 DEF Client
  <2>9. CASE Disconnect
    BY <1>2, <2>9, LeaveFeed DEF Disconnect, listing
  <2> QED
    BY <1>2, <2>1, <2>2, <2>3, <2>4, <2>5, <2>6, <2>7, <2>8, <2>9 DEF Next
<1> QED
  BY <1>1, <1>2, TypeCorrect, PTL DEF Spec

\* The events a watch numbers reach the connection, or wait in its buffer, in order
\* and without a gap, for every buffer size and every interleaving.
THEOREM SeqContiguousCorrect == Spec => []SeqContiguous
<1>1. FeedInv => SeqContiguous
  BY DEF FeedInv
<1> QED
  BY <1>1, FeedInvCorrect, PTL

-----------------------------------------------------------------------------
(* No change is lost.  While the first listing is read nobody takes from    *)
(* the kernel queue; afterwards a stale file is in the queue, pending, or   *)
(* in the read under way, which for a resync replaces the whole listing.    *)

Noted(n) == n \in ToSet(kq) \/ "Overflow" \in ToSet(kq)

QueueRule == /\ Len(kq) > KernelCap => kq[Len(kq)] = "Overflow"
             /\ "Self" \in ToSet(kq) => ~exists
TimerRule == /\ armed => timer
             /\ rpc = "goneReturn" => ~exists
OpenRule  == /\ opc \in {"arm", "read"} => rpc = "none" /\ once = "open" /\ ~registered
             /\ opc = "read" /\ watching /\ exists =>
                  \A n \in Names : n \in todo \/ scan[n].v = dir[n] \/ scan[n] = Unreadable \/ Noted(n)

Found(n) ==
  \/ Noted(n)
  \/ rpc = "resyncing" /\ (n \in todo \/ fresh[n].v = dir[n] \/ fresh[n] = Unreadable)
  \/ rpc = "select" /\ (entries[n].v = dir[n] \/ ReadFailed(n) \/ (n \in names /\ timer))
  \/ rpc = "flushing" /\ (entries[n].v = dir[n] \/ ReadFailed(n) \/ n \in todo)
LiveRule == registered /\ watching /\ once = "open" /\ rpc # "goneLoop" /\ exists =>
              \A n \in Names : Found(n)

LostInv == QueueRule /\ TimerRule /\ OpenRule /\ LiveRule

\* The variables the invariant reads.
lostv == <<dir, exists, kq, opc, watching, scan, rpc, names, armed, timer, todo, fresh,
           missed, entries, once, registered>>

\* What appending and taking make of the notifications a queue holds.
LEMMA AppendSet ==
  ASSUME NEW S, NEW q \in Seq(S), NEW x \in S
  PROVE  ToSet(Append(q, x)) = ToSet(q) \cup {x}
<1>1. ToSet(q) \subseteq ToSet(Append(q, x))
  BY DEF ToSet
<1>2. x \in ToSet(Append(q, x))
  <2>1. Len(q) + 1 \in DOMAIN Append(q, x) /\ Append(q, x)[Len(q) + 1] = x
    OBVIOUS
  <2> QED
    BY <2>1 DEF ToSet
<1>3. ToSet(Append(q, x)) \subseteq ToSet(q) \cup {x}
  BY DEF ToSet
<1> QED
  BY <1>1, <1>2, <1>3

LEMMA TailSet ==
  ASSUME NEW S, NEW q \in Seq(S), q # << >>
  PROVE  ToSet(Tail(q)) \subseteq ToSet(q) /\ ToSet(q) \subseteq {Head(q)} \cup ToSet(Tail(q))
<1>1. ToSet(Tail(q)) \subseteq ToSet(q)
  BY DEF ToSet
<1>2. ASSUME NEW i \in DOMAIN q
      PROVE  q[i] \in {Head(q)} \cup ToSet(Tail(q))
  <2>1. CASE i = 1
    BY <2>1
  <2>2. CASE i # 1
    <3>1. i - 1 \in DOMAIN Tail(q) /\ Tail(q)[i - 1] = q[i]
      BY <2>2
    <3> QED
      BY <3>1 DEF ToSet
  <2> QED
    BY <2>1, <2>2
<1> QED
  BY <1>1, <1>2 DEF ToSet

LEMMA LastOfSet ==
  ASSUME NEW S, NEW q \in Seq(S), q # << >>
  PROVE  Last(q) \in ToSet(q)
<1>1. Len(q) \in DOMAIN q
  OBVIOUS
<1> QED
  BY <1>1 DEF Last, ToSet

\* The kernel forgets no notification it holds, and a change it does not note
\* under its name it notes as an overflow.
LEMMA NotifiedKeeps ==
  ASSUME EnvTypeOK, QueueRule, NEW e \in Names \cup {"Self", "Overflow"}
  PROVE  /\ ToSet(kq) \subseteq ToSet(Notified(e))
         /\ ToSet(Notified(e)) \subseteq ToSet(kq) \cup {e, "Overflow"}
         /\ watching /\ NotifierOpen =>
              e \in ToSet(Notified(e)) \/ "Overflow" \in ToSet(Notified(e))
         /\ Len(Notified(e)) > KernelCap => Last(Notified(e)) = "Overflow"
<1> DEFINE S == Names \cup {"Self", "Overflow"}
<1>1. kq \in Seq(S) /\ KernelCap \in Nat \ {0} /\ "Overflow" \in S
  BY WatchFeedAssumption DEF EnvTypeOK
<1>2. Len(kq) > KernelCap => Last(kq) = "Overflow"
  BY DEF QueueRule, Last
<1> HIDE DEF S
<1>3. CASE ~watching \/ ~NotifierOpen
  BY <1>2, <1>3 DEF Notified
<1>4. CASE watching /\ NotifierOpen /\ kq # << >> /\ Last(kq) = e
  <2>1. Notified(e) = kq
    BY <1>4 DEF Notified
  <2> QED
    BY <1>1, <1>2, <1>4, <2>1, LastOfSet
<1>5. CASE /\ watching /\ NotifierOpen /\ ~(kq # << >> /\ Last(kq) = e)
           /\ Len(kq) < KernelCap
  <2>1. Notified(e) = Append(kq, e)
    BY <1>5 DEF Notified
  <2>2. ToSet(Append(kq, e)) = ToSet(kq) \cup {e}
    BY <1>1, AppendSet DEF S
  <2>3. ~(Len(Append(kq, e)) > KernelCap)
    BY <1>1, <1>5
  <2> QED
    BY <2>1, <2>2, <2>3
<1>6. CASE /\ watching /\ NotifierOpen /\ ~(kq # << >> /\ Last(kq) = e)
           /\ ~(Len(kq) < KernelCap)
  <2>1. kq # << >>
    BY <1>1, <1>6
  <2>2. CASE Last(kq) = "Overflow"
    BY <1>1, <1>2, <1>6, <2>1, <2>2, LastOfSet DEF Notified
  <2>3. CASE Last(kq) # "Overflow"
    <3>1. Notified(e) = Append(kq, "Overflow")
      BY <1>2, <1>6, <2>3 DEF Notified
    <3>2. ToSet(Append(kq, "Overflow")) = ToSet(kq) \cup {"Overflow"}
      BY <1>1, AppendSet
    <3>3. Last(Append(kq, "Overflow")) = "Overflow"
      BY <1>1 DEF Last
    <3> QED
      BY <3>1, <3>2, <3>3
  <2> QED
    BY <2>2, <2>3
<1> QED
  BY <1>3, <1>4, <1>5, <1>6

\* A step that leaves what the invariant reads as it is keeps the invariant.
LEMMA LostSame ==
  ASSUME LostInv, UNCHANGED lostv
  PROVE  LostInv'
<1>1. UNCHANGED <<dir, exists, kq, opc, watching, scan, rpc, names, armed, timer, todo, fresh,
                  missed, entries, once, registered>>
  BY DEF lostv
<1>2. QueueRule' /\ TimerRule'
  BY <1>1 DEF LostInv, QueueRule, TimerRule
<1>3. \A n \in Names : (Noted(n) => Noted(n)') /\ (Found(n) => Found(n)')
  BY <1>1 DEF Noted, Found, ReadFailed
<1>4. OpenRule' /\ LiveRule'
  BY <1>1, <1>3 DEF LostInv, OpenRule, LiveRule
<1> QED
  BY <1>2, <1>4 DEF LostInv

-----------------------------------------------------------------------------
\* The directory changes: the change is noted before anyone looks.
LEMMA ChangeLost ==
  ASSUME TypeOK, LostInv, NEW n \in Names, ChangeFile(n)
  PROVE  LostInv'
<1>1. /\ UNCHANGED <<exists, opc, watching, scan, rpc, names, armed, timer, todo, fresh,
                     missed, entries, once, registered>>
      /\ kq' = Notified(n) /\ exists /\ EnvTypeOK /\ QueueRule
      /\ \A m \in Names \ {n} : dir'[m] = dir[m]
  BY DEF ChangeFile, TypeOK, EnvTypeOK, LostInv, openv, runv, batching, reading, watchv, closev
<1>2. /\ ToSet(kq) \subseteq ToSet(kq') /\ ToSet(kq') \subseteq ToSet(kq) \cup {n, "Overflow"}
      /\ watching /\ once # "closed" => n \in ToSet(kq') \/ "Overflow" \in ToSet(kq')
      /\ Len(kq') > KernelCap => kq'[Len(kq')] = "Overflow"
  BY <1>1, NotifiedKeeps DEF NotifierOpen, Last
<1>3. "Self" # n
  BY WatchFeedAssumption
<1>4. QueueRule'
  BY <1>1, <1>2, <1>3 DEF QueueRule
<1>5. \A m \in Names : Noted(m) => Noted(m)'
  BY <1>2 DEF Noted
<1>6. watching /\ once = "open" => Noted(n)'
  BY <1>2 DEF Noted
<1>7. TimerRule'
  BY <1>1 DEF LostInv, TimerRule
<1>8. OpenRule'
  BY <1>1, <1>5, <1>6 DEF LostInv, OpenRule
<1>9. LiveRule'
  BY <1>1, <1>5, <1>6 DEF LostInv, LiveRule, Found, ReadFailed
<1> QED
  BY <1>4, <1>7, <1>8, <1>9 DEF LostInv

LEMMA RemoveLost ==
  ASSUME TypeOK, LostInv, RemoveDir
  PROVE  LostInv'
<1>1. /\ UNCHANGED <<opc, watching, rpc, names, armed, timer, once, registered>>
      /\ kq' = Notified("Self") /\ ~exists' /\ EnvTypeOK /\ QueueRule
  BY DEF RemoveDir, TypeOK, LostInv, openv, runv, batching, reading, watchv, closev
<1>2. Len(kq') > KernelCap => kq'[Len(kq')] = "Overflow"
  BY <1>1, NotifiedKeeps DEF Last
<1> QED
  BY <1>1, <1>2 DEF LostInv, QueueRule, TimerRule, OpenRule, LiveRule

\* openWatch: what it read is noted when it changes, until the watch is live.
LEMMA OpenLost ==
  ASSUME TypeOK, LostInv, Opening
  PROVE  LostInv'
<1>1. CASE ArmNotifier
  <2>1. /\ UNCHANGED <<exists, kq, rpc, names, armed, timer, once, registered>>
        /\ opc = "arm" /\ opc' = "read" /\ todo' = Names
    BY <1>1 DEF ArmNotifier, env, batching, watchv, closev
  <2> QED
    BY <2>1 DEF LostInv, QueueRule, TimerRule, OpenRule, LiveRule
<1>2. CASE OpenFail
  <2>1. /\ UNCHANGED <<exists, rpc, names, armed, timer, once, registered>>
        /\ kq' = << >> /\ opc' = "failed" /\ ~watching'
    BY <1>2 DEF OpenFail, world, batching, closev
  <2>2. Len(kq') = 0 /\ ToSet(kq') = {}
    BY <2>1 DEF ToSet
  <2>3. ~(0 > KernelCap)
    BY WatchFeedAssumption
  <2>4. QueueRule'
    BY <2>2, <2>3 DEF QueueRule
  <2> QED
    BY <2>1, <2>4 DEF LostInv, TimerRule, OpenRule, LiveRule
<1>3. ASSUME NEW n \in Names, OpenRead(n)
      PROVE  LostInv'
  <2>1. /\ UNCHANGED <<dir, exists, kq, opc, watching, rpc, names, armed, timer, once,
                       registered>>
        /\ opc = "read" /\ todo' = todo \ {n} /\ \E f \in Listed(n) : scan' = [scan EXCEPT ![n] = f]
    BY <1>3 DEF OpenRead, env, batching, watchv, closev
  <2>2. (scan'[n].v = dir'[n] \/ scan'[n] = Unreadable) /\ \A m \in Names \ {n} : scan'[m] = scan[m]
    BY <2>1 DEF TypeOK, RunTypeOK, Listed, Fresh
  <2>3. OpenRule'
    BY <2>1, <2>2 DEF LostInv, OpenRule, Noted
  <2> QED
    BY <2>1, <2>3 DEF LostInv, QueueRule, TimerRule, OpenRule, LiveRule
<1>4. CASE Register
  <2>1. /\ UNCHANGED <<dir, exists, kq, watching, names, armed, timer, once>>
        /\ opc = "read" /\ todo = {} /\ opc' = "hook" /\ entries' = scan
        /\ rpc' = IF watching THEN "select" ELSE "returned"
    BY <1>4 DEF Register, env, batching, reading
  <2>2. LiveRule'
    BY <2>1 DEF LostInv, OpenRule, LiveRule, Found, ReadFailed, Noted
  <2> QED
    BY <2>1, <2>2 DEF LostInv, QueueRule, TimerRule, OpenRule
<1>5. CASE HookAndEnrich \/ OpenPage
  <2>1. /\ UNCHANGED <<dir, exists, kq, watching, rpc, names, armed, timer, todo, fresh, missed,
                       entries, once, registered>>
        /\ opc' \notin {"arm", "read"}
    BY <1>5 DEF HookAndEnrich, OpenPage, Page, env, runv, batching, reading, watchv, closev
  <2> QED
    BY <2>1 DEF LostInv, QueueRule, TimerRule, OpenRule, LiveRule, Found, ReadFailed, Noted
<1> QED
  BY <1>1, <1>2, <1>3, <1>4, <1>5 DEF Opening

\* The run goroutine: what it takes from the queue is pending or under way before
\* its notification is gone, and what it reads may have changed only if noted again.
LEMMA TakeLost ==
  ASSUME TypeOK, LostInv, NEW e, Receive(e)
  PROVE  /\ e \in ToSet(kq) /\ ToSet(kq') \subseteq ToSet(kq)
         /\ \A m \in ToSet(kq) : m \in ToSet(kq') \/ m = e
         /\ (UNCHANGED exists => QueueRule')
<1>1. /\ kq \in Seq(Names \cup {"Self", "Overflow"}) /\ kq # << >> /\ Head(kq) = e
      /\ kq' = Tail(kq) /\ Len(kq) <= KernelCap + 1 /\ KernelCap \in Nat
  BY WatchFeedAssumption DEF Receive, TypeOK, EnvTypeOK
<1>2. ToSet(kq') \subseteq ToSet(kq) /\ ToSet(kq) \subseteq {e} \cup ToSet(kq')
  BY <1>1, TailSet
<1>3. e \in ToSet(kq)
  <2>1. 1 \in DOMAIN kq /\ kq[1] = e
    BY <1>1
  <2> QED
    BY <2>1 DEF ToSet
<1>4. ~(Len(kq') > KernelCap)
  BY <1>1
<1>5. UNCHANGED exists => QueueRule'
  BY <1>2, <1>4 DEF LostInv, QueueRule
<1> QED
  BY <1>2, <1>3, <1>5

LEMMA RecvLost ==
  ASSUME TypeOK, LostInv, RecvSelf \/ RecvOverflow \/ \E n \in Names : RecvName(n)
  PROVE  LostInv'
<1>1. opc \notin {"arm", "read"} /\ UNCHANGED <<dir, exists, opc, watching, entries, missed, once, registered>>
  <2>1. rpc = "select"
    BY DEF RecvSelf, RecvOverflow, RecvName, Receive
  <2> QED
    BY <2>1 DEF RecvSelf, RecvOverflow, RecvName, world, openv, reading, watchv, listing, closev,
                LostInv, OpenRule
<1>2. OpenRule'
  BY <1>1 DEF OpenRule
<1>3. CASE RecvSelf
  <2>1. Receive("Self") /\ rpc' = "goneReturn" /\ UNCHANGED <<armed, timer>>
    BY <1>3 DEF RecvSelf, batching
  <2>2. QueueRule' /\ ~exists
    BY <1>1, <2>1, TakeLost DEF LostInv, QueueRule
  <2> QED
    BY <1>1, <1>2, <2>1, <2>2 DEF LostInv, TimerRule, LiveRule
<1>4. CASE RecvOverflow
  <2>1. /\ Receive("Overflow") /\ timer' = timer
        /\ \/ rpc' = "resyncing" /\ todo' = Names /\ armed' = armed
           \/ rpc' = "goneLoop" /\ armed' = FALSE
    BY <1>4 DEF RecvOverflow
  <2>2. QueueRule'
    BY <1>1, <2>1, TakeLost
  <2>3. LiveRule'
    BY <1>1, <2>1 DEF LiveRule, Found, ReadFailed
  <2>4. TimerRule'
    <3>1. armed => timer
      BY DEF LostInv, TimerRule
    <3> QED
      BY <2>1, <3>1 DEF TimerRule
  <2> QED
    BY <1>2, <2>2, <2>3, <2>4 DEF LostInv
<1>5. ASSUME NEW n \in Names, RecvName(n)
      PROVE  LostInv'
  <2>1. /\ Receive(n) /\ rpc = "select" /\ rpc' = rpc
        /\ names' = names \cup {n} /\ armed' = TRUE /\ timer' = Rearmed
    BY <1>5 DEF RecvName, Receive
  <2>2. QueueRule' /\ \A m \in ToSet(kq) : m \in ToSet(kq') \/ m = n
    BY <1>1, <2>1, TakeLost
  <2>3. timer' = TRUE
    BY <2>1 DEF LostInv, TimerRule, Rearmed, TypeOK, RunTypeOK
  <2>4. n # "Overflow"
    BY WatchFeedAssumption
  <2>5. \A m \in Names : Noted(m) => Noted(m)' \/ m = n
    BY <2>2, <2>4 DEF Noted
  <2>6. LiveRule'
    BY <1>1, <2>1, <2>3, <2>5 DEF LostInv, LiveRule, Found, ReadFailed
  <2> QED
    BY <1>1, <1>2, <2>1, <2>2, <2>3, <2>6 DEF LostInv, TimerRule
<1> QED
  BY <1>3, <1>4, <1>5

\* A resync: what is still to be read, or was read as it now is.
LEMMA ResyncLost ==
  ASSUME TypeOK, LostInv, ResyncEnd \/ \E n \in Names : ResyncRead(n)
  PROVE  LostInv'
<1>1. /\ rpc = "resyncing" /\ opc \notin {"arm", "read"}
      /\ UNCHANGED <<dir, exists, kq, opc, watching, timer, once, registered>>
  BY DEF ResyncEnd, ResyncRead, env, openv, batching, closev, LostInv, OpenRule
<1>2. OpenRule' /\ QueueRule'
  BY <1>1 DEF LostInv, OpenRule, QueueRule
<1>3. \A m \in Names : Noted(m) => Noted(m)'
  BY <1>1 DEF Noted
<1>4. CASE ResyncEnd
  <2>1. todo = {} /\ entries' = fresh /\ rpc' = "select" /\ armed' = FALSE
    BY <1>4 DEF ResyncEnd
  <2>2. LiveRule'
    BY <1>1, <1>3, <2>1 DEF LostInv, LiveRule, Found, ReadFailed
  <2> QED
    BY <1>2, <2>1, <2>2 DEF LostInv, TimerRule
<1>5. ASSUME NEW n \in Names, ResyncRead(n)
      PROVE  LostInv'
  <2>1. /\ UNCHANGED <<rpc, armed>> /\ todo' = todo \ {n}
        /\ \E f \in Listed(n) : fresh' = [fresh EXCEPT ![n] = f]
    BY <1>5 DEF ResyncRead, batching
  <2>2. (fresh'[n].v = dir'[n] \/ fresh'[n] = Unreadable) /\ \A m \in Names \ {n} : fresh'[m] = fresh[m]
    BY <1>1, <2>1 DEF TypeOK, RunTypeOK, Listed, Fresh
  <2>3. LiveRule'
    BY <1>1, <1>3, <2>1, <2>2 DEF LostInv, LiveRule, Found, ReadFailed
  <2> QED
    BY <1>1, <1>2, <2>1, <2>3 DEF LostInv, TimerRule
<1> QED
  BY <1>4, <1>5

\* A flush: the names it took are those it is still to read, or are up to date.
LEMMA FlushLost ==
  ASSUME TypeOK, LostInv, FlushBegin \/ FlushEnd \/ \E n \in Names : FlushRead(n)
  PROVE  LostInv'
<1>1. /\ rpc \in {"select", "flushing"} /\ opc \notin {"arm", "read"}
      /\ UNCHANGED <<dir, exists, kq, opc, watching, once, registered>>
  BY DEF FlushBegin, FlushEnd, FlushRead, env, openv, closev, LostInv, OpenRule
<1>2. OpenRule' /\ QueueRule'
  BY <1>1 DEF LostInv, OpenRule, QueueRule
<1>3. \A m \in Names : Noted(m) => Noted(m)'
  BY <1>1 DEF Noted
<1>4. CASE FlushBegin
  <2>1. /\ rpc = "select" /\ timer /\ armed' = FALSE /\ UNCHANGED <<entries, missed>>
        /\ \/ rpc' = "flushing" /\ todo' = names
           \/ rpc' = "goneLoop"
    BY <1>4 DEF FlushBegin, watchv
  <2>2. LiveRule'
    BY <1>1, <1>3, <2>1 DEF LostInv, LiveRule, Found, ReadFailed
  <2> QED
    BY <1>1, <1>2, <2>1, <2>2 DEF LostInv, TimerRule
<1>5. CASE FlushEnd
  <2>1. /\ rpc = "flushing" /\ todo = {} /\ rpc' = "select"
        /\ UNCHANGED <<armed, timer, entries, missed>>
    BY <1>5 DEF FlushEnd, batching, listing
  <2>2. LiveRule'
    BY <1>1, <1>3, <2>1 DEF LostInv, LiveRule, Found, ReadFailed
  <2> QED
    BY <1>2, <2>1, <2>2 DEF LostInv, TimerRule
<1>6. ASSUME NEW n \in Names, FlushRead(n)
      PROVE  LostInv'
  <2>1. /\ rpc = "flushing" /\ UNCHANGED <<rpc, armed, timer>> /\ todo' = todo \ {n}
        /\ \/ entries' = [entries EXCEPT ![n] = Fresh(n)] /\ missed' = missed \ {n}
           \/ entries' = entries /\ missed' = missed \cup {n}
    BY <1>6 DEF FlushRead, batching
  <2>2. /\ entries'[n].v = dir'[n] \/ ReadFailed(n)'
        /\ \A m \in Names \ {n} : entries'[m] = entries[m] /\ (m \in missed' <=> m \in missed)
    BY <1>1, <2>1 DEF TypeOK, WatchTypeOK, Fresh, ReadFailed
  <2>3. LiveRule'
    BY <1>1, <1>3, <2>1, <2>2 DEF LostInv, LiveRule, Found, ReadFailed
  <2> QED
    BY <1>2, <2>1, <2>3 DEF LostInv, TimerRule
<1> QED
  BY <1>4, <1>5, <1>6

\* Once the watch is closing nothing more is claimed of it.
LEMMA CloseLost ==
  ASSUME TypeOK, LostInv, Closing \/ GoneClose \/ GonePublish \/ RunReturn
  PROVE  LostInv'
<1>1. /\ UNCHANGED <<exists, opc, armed, timer, watching>> /\ once' # "open"
      /\ opc \notin {"arm", "read"} /\ rpc' \in {rpc, "returned", "select"}
  <2>1. CASE Closing
    BY <2>1 DEF Closing, CtxClose, ServiceClose, Unwatch, CloseBy, CloseFinish, env, openv, runv,
                world, batching, LostInv, OpenRule
  <2>2. CASE GoneClose \/ GonePublish \/ RunReturn
    BY <2>2 DEF GoneClose, GonePublish, ClosedFirst, RunReturn, Done, env, openv, runv, batching,
                closev, LostInv, OpenRule
  <2> QED
    BY <2>1, <2>2
<1>2. QueueRule'
  <2>1. CASE kq' = << >>
    <3>1. Len(kq') = 0 /\ ToSet(kq') = {} /\ ~(0 > KernelCap)
      BY <2>1, WatchFeedAssumption DEF ToSet
    <3> QED
      BY <3>1 DEF QueueRule
  <2>2. CASE kq' = kq
    BY <1>1, <2>2 DEF LostInv, QueueRule
  <2>3. kq' = << >> \/ kq' = kq
    BY DEF Closing, CtxClose, ServiceClose, Unwatch, CloseBy, CloseFinish, GoneClose, GonePublish,
           RunReturn, env
  <2> QED
    BY <2>1, <2>2, <2>3
<1> QED
  BY <1>1, <1>2 DEF LostInv, TimerRule, OpenRule, LiveRule

\* An enrichment replaces an entry by one of the same modification time.
LEMMA EnrichLost ==
  ASSUME TypeOK, LostInv, Enrich
  PROVE  LostInv'
<1>1. UNCHANGED <<dir, exists, kq, opc, watching, scan, rpc, names, armed, timer, todo, fresh,
                  missed, once, registered>>
  BY DEF Enrich, EnrichStart, EnrichApply, EnrichSkip, env, openv, runv, batching, reading, closev
<1>2. \A n \in Names : /\ entries'[n].v = entries[n].v
                       /\ entries[n] = Unreadable => entries'[n] = Unreadable
  <2>1. CASE UNCHANGED entries
    BY <2>1
  <2>2. CASE ~UNCHANGED entries
    <3>1. PICK t \in sniffing : EnrichApply(t)
      BY <2>2 DEF Enrich, EnrichStart, EnrichSkip, watchv
    <3>2. /\ entries' = [entries EXCEPT ![t[1]] = [v |-> t[2], e |-> TRUE]]
          /\ entries[t[1]].v = t[2]
      BY <2>2, <3>1 DEF EnrichApply, StillCurrent
    <3>3. t[1] \in Names /\ t[2] \in 0..MaxOps /\ entries \in [Names -> Entry]
      BY DEF TypeOK, WatchTypeOK
    <3>4. \A v \in 0..MaxOps : v # MaxOps + 1
      BY WatchFeedAssumption
    <3>5. entries[t[1]] # Unreadable
      BY <3>2, <3>3, <3>4 DEF Unreadable
    <3>6. \A n \in Names : entries'[n] = IF n = t[1] THEN [v |-> t[2], e |-> TRUE] ELSE entries[n]
      BY <3>2, <3>3
    <3> QED
      BY <3>2, <3>5, <3>6
  <2> QED
    BY <2>1, <2>2
<1>3. QueueRule' /\ TimerRule'
  BY <1>1 DEF LostInv, QueueRule, TimerRule
<1>4. \A n \in Names : (Noted(n) => Noted(n)') /\ (Found(n) => Found(n)')
  BY <1>1, <1>2 DEF Noted, Found, ReadFailed
<1>5. OpenRule' /\ LiveRule'
  BY <1>1, <1>4 DEF LostInv, OpenRule, LiveRule
<1> QED
  BY <1>3, <1>5 DEF LostInv

LEMMA LostStart == Init => LostInv
<1> SUFFICES ASSUME Init PROVE LostInv
  OBVIOUS
<1>1. /\ kq = << >> /\ exists /\ ~armed /\ rpc = "none" /\ opc = "arm" /\ once = "open"
      /\ ~registered
  BY DEF Init
<1>2. ToSet(kq) = {} /\ Len(kq) = 0 /\ ~(0 > KernelCap)
  BY <1>1, WatchFeedAssumption DEF ToSet
<1> QED
  BY <1>1, <1>2 DEF LostInv, QueueRule, TimerRule, OpenRule, LiveRule

\* The invariant of the changes under way.
THEOREM LostInvCorrect == Spec => []LostInv
<1>1. TypeOK /\ LostInv /\ [Next]_vars => LostInv'
  <2> SUFFICES ASSUME TypeOK, LostInv, [Next]_vars PROVE LostInv'
    OBVIOUS
  <2>1. CASE Environment
    BY <2>1, ChangeLost, RemoveLost DEF Environment
  <2>2. CASE Opening
    BY <2>2, OpenLost
  <2>3. CASE Run
    BY <2>3, RecvLost, ResyncLost, FlushLost, CloseLost DEF Run
  <2>4. CASE Enrich
    BY <2>4, EnrichLost
  <2>5. CASE Closing
    BY <2>5, CloseLost
  <2>6. CASE Serving \/ Client \/ Disconnect \/ UNCHANGED vars
    <3>1. UNCHANGED lostv
      BY <2>6 DEF Serving, Attach, ListLookup, ListPage, Page, Client, RecvPage, Subscribe,
         AskList, RecvEvent, Disconnect, lostv, vars, env, openv, runv, batching, reading, watchv,
         listing, closev
    <3> QED
      BY <3>1, LostSame
  <2> QED
    BY <2>1, <2>2, <2>3, <2>4, <2>5, <2>6 DEF Next
<1> QED
  BY <1>1, LostStart, TypeCorrect, PTL DEF Spec

\* A file whose listed state is out of date always has a notification in the
\* kernel queue, a pending name with its timer running, or a read under way,
\* unless its own last read failed, from the moment the watch is registered until it is closed (watch.go, run,
\* readDir and flush; the kernel queue may overflow at any time).
THEOREM NoLostChangeCorrect == Spec => []NoLostChange
<1>1. LostInv => NoLostChange
  BY DEF LostInv, LiveRule, Found, ReadFailed, Noted, NoLostChange
<1> QED
  BY <1>1, LostInvCorrect, PTL

-----------------------------------------------------------------------------
(* The feed and the pages.  Of a listing m that a client has, or is about    *)
(* to get, as of event s, the invariant says that m with the events still to *)
(* come is what the server shows, unless a resync is among them or owed: for *)
(* every name the listing that has the last word on it agrees with the       *)
(* watch's own.  While a flush is under way the watch has already replaced   *)
(* the entries it read and not yet told anyone: of those the clients have    *)
(* what was listed before.                                                   *)

Queue == IF subscribed THEN wire ELSE pending

Cut(s) == dropped \/ \E i \in DOMAIN Queue : Queue[i].kind = "resync" /\ Queue[i].seq > s

Listing == View(entries, inclHidden)

HasRead(n) == rpc = "flushing" /\ n \in touched /\ n \notin todo

Known(f, n) == IF HasRead(n) THEN n \in DOMAIN f <=> n \in before ELSE Alike(f, Listing, n)

Told(m, s, n) == \E f \in ViewType : LastWord(Queue, s, m, n, f) /\ Known(f, n)

\* The next event of the queue is no further than one past s, or is a resync.
InReach(s) == seq <= s + Len(Queue) \/ (Queue # << >> /\ Queue[1].kind = "resync")

Follows(m, s) ==
  /\ s <= seq
  /\ ~dropped => InReach(s)
  /\ ~Cut(s) => \A n \in Names : Told(m, s, n)

EarlyRule == opc \in {"arm", "read", "hook", "page"} =>
               resp = NoPage /\ lpc = "none" /\ cphase \in {"opening", "left"}

FlushRule == rpc = "flushing" =>
  /\ todo \subseteq touched
  /\ \A n \in Names : ~HasRead(n) => (n \in before <=> n \in DOMAIN Listing)

PageRule == cphase \in {"opening", "page", "live"} /\ resp.kind = "page" =>
              Follows(resp.view, resp.seq) /\ inclHidden = chidden

MirrorRule == cphase \in {"page", "live"} /\ Idle =>
                Follows(mirror, cseq) /\ inclHidden = chidden

SyncInv == EarlyRule /\ FlushRule /\ PageRule /\ MirrorRule

\* The last word after one more event, after one that is skipped, after one that is
\* applied, and for a client that has every event of the queue.
LEMMA WordAppend ==
  ASSUME NEW q \in Seq(Event), NEW s \in Nat, NEW m, NEW n, NEW f, LastWord(q, s, m, n, f),
         NEW ev \in Event, ev.seq > s
  PROVE  LastWord(Append(q, ev), s, m, n,
                  IF n \in DOMAIN ev.put \cup ev.removed THEN ev.put ELSE f)
<1> DEFINE r == Append(q, ev)
           k == Len(q) + 1
<1>1. /\ DOMAIN q = 1..Len(q) /\ Len(q) \in Nat /\ DOMAIN r = 1..k /\ r[k] = ev
      /\ \A i \in DOMAIN q : r[i] = q[i]
  OBVIOUS
<1> HIDE DEF r
<1>2. k \in DOMAIN r /\ \A i \in DOMAIN r : i <= k /\ (i \in DOMAIN q \/ i = k)
  BY <1>1
<1>3. DOMAIN q \subseteq DOMAIN r /\ k \notin DOMAIN q
  BY <1>1
<1> HIDE DEF k
<1>4. CASE n \in DOMAIN ev.put \cup ev.removed
  <2>1. k \in Tells(r, s, n) /\ \A j \in Tells(r, s, n) : j <= k
    BY <1>1, <1>2, <1>4 DEF Tells
  <2>2. ev.put = r[k].put
    BY <1>1
  <2> QED
    BY <1>4, <2>1, <2>2 DEF LastWord, r
<1>5. CASE n \notin DOMAIN ev.put \cup ev.removed
  <2>1. \A i \in Tells(r, s, n) : i \in Tells(q, s, n)
    BY <1>1, <1>2, <1>5 DEF Tells
  <2>2. \A i \in Tells(q, s, n) : i \in Tells(r, s, n) /\ r[i].put = q[i].put
    BY <1>1, <1>3 DEF Tells
  <2>3. Tells(r, s, n) = Tells(q, s, n)
    BY <2>1, <2>2
  <2>4. LastWord(r, s, m, n, f)
    BY <2>2, <2>3 DEF LastWord
  <2> QED
    BY <1>5, <2>4 DEF r
<1> QED
  BY <1>4, <1>5

\* What Tail leaves: every event one place further on.
LEMMA TailEvents ==
  ASSUME NEW q \in Seq(Event), q # << >>
  PROVE  /\ 1 \in DOMAIN q /\ q[1] = Head(q) /\ Head(q) \in Event /\ Tail(q) \in Seq(Event)
         /\ \A i \in DOMAIN Tail(q) : i + 1 \in DOMAIN q /\ Tail(q)[i] = q[i + 1] /\ i \in Nat
         /\ \A j \in DOMAIN q : j = 1 \/ (j - 1 \in DOMAIN Tail(q) /\ Tail(q)[j - 1] = q[j])
         /\ DOMAIN q \subseteq Nat
<1>1. Len(q) \in Nat /\ Len(q) > 0 /\ DOMAIN q = 1..Len(q)
  OBVIOUS
<1>2. Len(Tail(q)) = Len(q) - 1 /\ DOMAIN Tail(q) = 1..(Len(q) - 1) /\ Tail(q) \in Seq(Event)
  BY <1>1
<1>3. \A i \in 1..(Len(q) - 1) : Tail(q)[i] = q[i + 1]
  BY <1>1
<1>4. q[1] = Head(q) /\ Head(q) \in Event /\ 1 \in DOMAIN q
  BY <1>1
<1>5. \A i \in DOMAIN Tail(q) : i + 1 \in DOMAIN q /\ Tail(q)[i] = q[i + 1] /\ i \in Nat
  BY <1>1, <1>2, <1>3
<1>6. ASSUME NEW j \in DOMAIN q, j # 1
      PROVE  j - 1 \in DOMAIN Tail(q) /\ Tail(q)[j - 1] = q[j]
  <2>1. j - 1 \in 1..(Len(q) - 1) /\ (j - 1) + 1 = j
    BY <1>1, <1>6
  <2> QED
    BY <1>2, <1>3, <2>1
<1> QED
  BY <1>1, <1>2, <1>4, <1>5, <1>6

\* Dropping the head moves what the others tell.
LEMMA TellsTail ==
  ASSUME NEW q \in Seq(Event), q # << >>, NEW s \in Nat, NEW t \in Nat, NEW n,
         \A i \in DOMAIN Tail(q) : Tail(q)[i].seq > s <=> Tail(q)[i].seq > t
  PROVE  /\ \A i \in Tells(Tail(q), t, n) : i + 1 \in Tells(q, s, n) /\ i \in Nat
         /\ \A j \in Tells(q, s, n) : j \in Nat /\ (j = 1 \/ j - 1 \in Tells(Tail(q), t, n))
<1>1. \A i \in DOMAIN Tail(q) : i + 1 \in DOMAIN q /\ Tail(q)[i] = q[i + 1] /\ i \in Nat
  BY TailEvents
<1>2. \A j \in DOMAIN q : j \in Nat /\ (j = 1 \/ (j - 1 \in DOMAIN Tail(q) /\ Tail(q)[j - 1] = q[j]))
  BY TailEvents
<1>3. \A i \in Tells(Tail(q), t, n) : i + 1 \in Tells(q, s, n) /\ i \in Nat
  BY <1>1 DEF Tells
<1>4. \A j \in Tells(q, s, n) : j \in Nat /\ (j = 1 \/ j - 1 \in Tells(Tail(q), t, n))
  BY <1>2 DEF Tells
<1> QED
  BY <1>3, <1>4

LEMMA WordTail ==
  ASSUME NEW q \in Seq(Event), q # << >>, NEW s \in Nat, NEW t \in Nat, NEW m, NEW n, NEW f, NEW g,
         \A i \in DOMAIN Tail(q) : Tail(q)[i].seq > s <=> Tail(q)[i].seq > t,
         LastWord(q, s, m, n, f)
  PROVE  \/ LastWord(Tail(q), t, g, n, f)
         \/ /\ LastWord(Tail(q), t, g, n, g)
            /\ IF 1 \in Tells(q, s, n) THEN f = q[1].put ELSE f = m
<1> DEFINE r == Tail(q)
<1>1. /\ \A i \in Tells(r, t, n) : i + 1 \in Tells(q, s, n) /\ i \in Nat
      /\ \A j \in Tells(q, s, n) : j \in Nat /\ (j = 1 \/ j - 1 \in Tells(r, t, n))
  BY TellsTail
<1>2. \A j \in DOMAIN q : j = 1 \/ (j - 1 \in DOMAIN r /\ r[j - 1] = q[j])
  BY TailEvents
<1>3. Tells(q, s, n) \subseteq DOMAIN q
  BY DEF Tells
<1> HIDE DEF r
<1>4. CASE Tells(q, s, n) = {}
  <2>1. Tells(r, t, n) = {} /\ f = m
    BY <1>1, <1>4 DEF LastWord
  <2> QED
    BY <1>4, <2>1 DEF LastWord, r
<1>5. ASSUME NEW i \in Tells(q, s, n), \A j \in Tells(q, s, n) : j <= i, f = q[i].put
      PROVE  \/ LastWord(r, t, g, n, f)
             \/ /\ LastWord(r, t, g, n, g)
                /\ IF 1 \in Tells(q, s, n) THEN f = q[1].put ELSE f = m
  <2>1. CASE i = 1
    <3>1. \A k \in Tells(r, t, n) : FALSE
      <4> SUFFICES ASSUME NEW k \in Tells(r, t, n) PROVE FALSE
        OBVIOUS
      <4>1. k + 1 \in Tells(q, s, n) /\ k \in Nat
        BY <1>1
      <4>2. k + 1 <= 1
        BY <1>5, <2>1, <4>1
      <4>3. k = 0
        BY <4>1, <4>2
      <4>4. k \in DOMAIN r
        BY DEF Tells
      <4>5. 0 \notin DOMAIN r
        BY DEF r
      <4> QED
        BY <4>3, <4>4, <4>5
    <3>2. Tells(r, t, n) = {}
      BY <3>1
    <3> QED
      BY <1>5, <2>1, <3>2 DEF LastWord
  <2>2. CASE i # 1
    <3>1. i - 1 \in Tells(r, t, n) /\ i \in Nat
      BY <1>1, <1>5, <2>2
    <3>2. ASSUME NEW k \in Tells(r, t, n) PROVE k <= i - 1
      <4>1. k + 1 \in Tells(q, s, n) /\ k \in Nat
        BY <1>1
      <4>2. k + 1 <= i
        BY <1>5, <4>1
      <4> QED
        BY <3>1, <4>1, <4>2
    <3>3. r[i - 1] = q[i]
      BY <1>2, <1>3, <2>2
    <3>4. f = r[i - 1].put
      BY <1>5, <3>3
    <3> QED
      BY <3>1, <3>2, <3>4 DEF LastWord
  <2> QED
    BY <2>1, <2>2
<1> QED
  BY <1>4, <1>5 DEF LastWord, r

\* The client has every event of a queue that ends at s.
LEMMA WordNow ==
  ASSUME NEW q \in Seq(Event), NEW s \in Nat, EndsAt(q, s), NEW m, NEW n
  PROVE  LastWord(q, s, m, n, m)
<1>1. ASSUME NEW i \in DOMAIN q PROVE ~(q[i].seq > s)
  <2>1. q[i].seq + Len(q) = s + i
    BY DEF EndsAt
  <2>2. i \in 1..Len(q) /\ Len(q) \in Nat /\ q[i] \in Event
    OBVIOUS
  <2>3. q[i].seq \in Nat /\ i <= Len(q) /\ i \in Nat
    BY <2>2, EventNumbered
  <2> QED
    BY <2>1, <2>2, <2>3
<1>2. Tells(q, s, n) = {}
  BY <1>1 DEF Tells
<1> QED
  BY <1>2 DEF LastWord

\* Events follow each other by one.
LEMMA EndsAtHead ==
  ASSUME NEW q \in Seq(Event), NEW s \in Nat, EndsAt(q, s), q # << >>
  PROVE  /\ Head(q).seq \in Nat /\ Head(q).seq + Len(q) = s + 1 /\ Len(Tail(q)) = Len(q) - 1
         /\ Len(q) \in Nat /\ Len(q) >= 1
         /\ \A i \in DOMAIN Tail(q) : Tail(q)[i].seq > Head(q).seq /\ Tail(q)[i].seq \in Nat
<1>1. 1 \in DOMAIN q /\ q[1] = Head(q) /\ q[1] \in Event /\ Tail(q) \in Seq(Event)
  BY TailEvents
<1>2. Head(q).seq + Len(q) = s + 1 /\ Head(q).seq \in Nat
  BY <1>1, EventNumbered DEF EndsAt
<1>3. Len(Tail(q)) = Len(q) - 1 /\ Len(q) \in Nat /\ Len(q) >= 1
  OBVIOUS
<1>4. EndsAt(Tail(q), s)
  BY EndsAtTail, EventNumbered
<1>5. ASSUME NEW i \in DOMAIN Tail(q)
      PROVE  Tail(q)[i].seq > Head(q).seq /\ Tail(q)[i].seq \in Nat
  <2>1. Tail(q)[i].seq + Len(Tail(q)) = s + i
    BY <1>4 DEF EndsAt
  <2>2. i \in 1..Len(Tail(q)) /\ Tail(q)[i] \in Event
    BY <1>1
  <2>3. Tail(q)[i].seq \in Nat
    BY <2>2, EventNumbered
  <2>4. i \in Nat /\ i >= 1
    BY <2>2
  <2> DEFINE x == Tail(q)[i].seq
             h == Head(q).seq
             l == Len(Tail(q))
  <2>5. x \in Nat /\ h \in Nat /\ x + l = s + i /\ h + (l + 1) = s + 1 /\ l \in Nat
    BY <1>2, <1>3, <2>1, <2>3
  <2> HIDE DEF x, h, l
  <2>6. x > h
    BY <2>4, <2>5
  <2> QED
    BY <2>3, <2>6 DEF x, h
<1> QED
  BY <1>2, <1>3, <1>5

\* What a listing shows of a name.
LEMMA ViewAt ==
  ASSUME NEW es \in [Names -> Entry], NEW h \in BOOLEAN
  PROVE  \A n \in Names : /\ n \in DOMAIN View(es, h) <=> es[n].v > 0 /\ (h \/ n \notin HiddenNames)
                          /\ n \in DOMAIN View(es, h) => View(es, h)[n] = es[n]
BY DEF View

LEMMA FeedTypes ==
  ASSUME TypeOK
  PROVE  /\ seq \in Nat /\ pending \in Seq(Event) /\ wire \in Seq(Event) /\ Queue \in Seq(Event)
         /\ subscribed \in BOOLEAN /\ dropped \in BOOLEAN /\ entries \in [Names -> Entry]
         /\ inclHidden \in BOOLEAN /\ chidden \in BOOLEAN /\ mirror \in ViewType /\ cseq \in Nat
         /\ resp.view \in ViewType /\ resp.seq \in Nat
BY DEF TypeOK, WatchTypeOK, ClientTypeOK, Queue

\* The queue ends at the last number given out.
LEMMA QueueEnds == TypeOK /\ FeedInv => EndsAt(Queue, seq)
BY DEF FeedInv, SeqContiguous, Queue

\* A listing goes on being followed when nothing is published and what is known of
\* each name stays known ...
LEMMA FollowsSame ==
  ASSUME NEW m \in ViewType, NEW s \in Nat, Follows(m, s), UNCHANGED <<Queue, seq, dropped>>,
         \A n \in Names : \A f \in ViewType : Known(f, n) => Known(f, n)'
  PROVE  Follows(m, s)'
<1>1. InReach(s) => InReach(s)'
  BY DEF InReach
<1>2. Cut(s)' <=> Cut(s)
  BY DEF Cut
<1>3. \A n \in Names : Told(m, s, n) => Told(m, s, n)'
  BY DEF Told
<1> QED
  BY <1>1, <1>2, <1>3 DEF Follows

\* ... when an event is added that tells what is no longer known, or is a resync ...
LEMMA FollowsTold ==
  ASSUME TypeOK, NEW m \in ViewType, NEW s \in Nat, Follows(m, s), NEW ev \in Event,
         Queue' = Append(Queue, ev), seq' = seq + 1, ev.seq = seq + 1, dropped' = dropped,
         \/ ev.kind = "resync"
         \/ \A n \in Names : \A f \in ViewType :
              Known(f, n) => Known(IF n \in DOMAIN ev.put \cup ev.removed THEN ev.put ELSE f, n)'
  PROVE  Follows(m, s)'
<1>0. seq \in Nat /\ Queue \in Seq(Event) /\ s <= seq
  BY FeedTypes DEF Follows
<1> DEFINE k == Len(Queue) + 1
<1>1. /\ Len(Queue') = k /\ k \in DOMAIN Queue' /\ Queue'[k] = ev /\ Queue' # << >>
      /\ \A i \in DOMAIN Queue : i \in DOMAIN Queue' /\ Queue'[i] = Queue[i]
      /\ Queue # << >> => 1 \in DOMAIN Queue
      /\ Len(Queue) \in Nat
  BY <1>0
<1>2. s <= seq' /\ ev.seq > s
  BY <1>0
<1>3. InReach(s) => InReach(s)'
  <2>1. CASE seq <= s + Len(Queue)
    <3>1. seq' <= s + Len(Queue')
      BY <1>0, <1>1, <2>1
    <3> QED
      BY <3>1 DEF InReach
  <2>2. CASE Queue # << >> /\ Queue[1].kind = "resync"
    <3>1. Queue' # << >> /\ Queue'[1].kind = "resync"
      BY <1>1, <2>2
    <3> QED
      BY <3>1 DEF InReach
  <2> QED
    BY <2>1, <2>2 DEF InReach
<1> HIDE DEF k
<1>4. Cut(s) => Cut(s)'
  BY <1>1 DEF Cut
<1>5. CASE ev.kind = "resync"
  <2>1. Cut(s)'
    BY <1>1, <1>2, <1>5 DEF Cut
  <2> QED
    BY <1>2, <1>3, <2>1 DEF Follows
<1>6. CASE \A n \in Names : \A f \in ViewType :
             Known(f, n) => Known(IF n \in DOMAIN ev.put \cup ev.removed THEN ev.put ELSE f, n)'
  <2>1. ASSUME NEW n \in Names, Told(m, s, n) PROVE Told(m, s, n)'
    <3>1. PICK f \in ViewType : LastWord(Queue, s, m, n, f) /\ Known(f, n)
      BY <2>1 DEF Told
    <3> DEFINE g == IF n \in DOMAIN ev.put \cup ev.removed THEN ev.put ELSE f
    <3>2. g \in ViewType
      BY DEF Event
    <3>3. Known(g, n)'
      BY <1>6, <3>1
    <3>4. LastWord(Queue', s, m, n, g)
      BY <1>0, <1>2, <3>1, WordAppend
    <3> HIDE DEF g
    <3> QED
      BY <3>2, <3>3, <3>4 DEF Told
  <2> QED
    BY <1>2, <1>3, <1>4, <2>1 DEF Follows
<1> QED
  BY <1>5, <1>6

\* ... and when what was buffered is dropped, since a resync is owed then.
LEMMA FollowsDropped ==
  ASSUME TypeOK, NEW m \in ViewType, NEW s \in Nat, Follows(m, s), seq' = seq + 1, dropped' = TRUE
  PROVE  Follows(m, s)'
<1>1. s <= seq'
  BY FeedTypes DEF Follows
<1>2. Cut(s)'
  BY DEF Cut
<1> QED
  BY <1>1, <1>2 DEF Follows

\* Any publishing step, for a client that is connected.
LEMMA FollowsPublish ==
  ASSUME TypeOK, FeedInv, NEW m \in ViewType, NEW s \in Nat, Follows(m, s),
         NEW kind \in {"batch", "resync", "gone"}, NEW put \in ViewType, NEW removed \in SUBSET Names,
         Publish(kind, put, removed), UNCHANGED subscribed, Connected,
         \/ kind = "resync"
         \/ \A n \in Names : \A f \in ViewType :
              Known(f, n) => Known(IF n \in DOMAIN put \cup removed THEN put ELSE f, n)'
  PROVE  Follows(m, s)'
<1> DEFINE ev == Batch(kind, seq + 1, put, removed)
<1>0. /\ seq \in Nat /\ pending \in Seq(Event) /\ wire \in Seq(Event) /\ subscribed \in BOOLEAN
  BY FeedTypes
<1>1. /\ ev \in Event /\ ev.seq = seq + 1 /\ ev.kind = kind /\ ev.put = put
      /\ ev.removed = removed
  BY <1>0 DEF Batch, Event
<1>2. \/ kind = "batch" /\ DOMAIN put = {} /\ removed = {} /\ UNCHANGED feed
      \/ seq' = seq + 1 /\ Queue' = Append(Queue, ev) /\ dropped' = dropped
      \/ seq' = seq + 1 /\ dropped' = TRUE
  <2>1. \/ kind = "batch" /\ DOMAIN put = {} /\ removed = {} /\ UNCHANGED feed
        \/ /\ seq' = seq + 1 /\ subscribed /\ wire' = wire \o <<ev>>
           /\ UNCHANGED <<pending, dropped>>
        \/ seq' = seq + 1 /\ dropped' = TRUE
        \/ /\ seq' = seq + 1 /\ ~subscribed /\ pending' = Append(pending, ev)
           /\ UNCHANGED <<dropped, wire>>
    BY DEF Publish, OnWire
  <2>2. wire \o <<ev>> = Append(wire, ev)
    BY <1>0, <1>1
  <2> QED
    BY <2>1, <2>2 DEF Queue
<1> HIDE DEF ev
<1>3. CASE kind = "batch" /\ DOMAIN put = {} /\ removed = {} /\ UNCHANGED feed
  <2>1. UNCHANGED <<Queue, seq, dropped>>
    BY <1>3 DEF feed, Queue
  <2>2. \A n \in Names : \A f \in ViewType : Known(f, n) => Known(f, n)'
    BY <1>3
  <2> QED
    BY <2>1, <2>2, FollowsSame
<1>4. CASE seq' = seq + 1 /\ Queue' = Append(Queue, ev) /\ dropped' = dropped
  BY <1>1, <1>4, FollowsTold
<1>5. CASE seq' = seq + 1 /\ dropped' = TRUE
  BY <1>5, FollowsDropped
<1> QED
  BY <1>2, <1>3, <1>4, <1>5

\* Every listing a client may have goes on being followed.
Keeps == \A m \in ViewType : \A s \in Nat : Follows(m, s) => Follows(m, s)'

\* A step of the server that no client sees: it leaves what the client has, and has
\* asked for, alone.
LEMMA SyncKept ==
  ASSUME TypeOK, SyncInv, UNCHANGED <<cphase, lpc, resp, mirror, cseq, chidden, inclHidden>>,
         opc' \in {"arm", "read", "hook", "page"} => opc \in {"arm", "read", "hook", "page"},
         Connected => Keeps, FlushRule'
  PROVE  SyncInv'
<1>1. EarlyRule'
  BY DEF SyncInv, EarlyRule
<1>2. PageRule'
  <2> SUFFICES ASSUME cphase \in {"opening", "page", "live"}, resp.kind = "page"
               PROVE  Follows(resp.view, resp.seq)' /\ inclHidden = chidden
    BY DEF PageRule
  <2>1. Follows(resp.view, resp.seq) /\ inclHidden = chidden /\ Connected
    BY DEF SyncInv, PageRule, Connected
  <2>2. resp.view \in ViewType /\ resp.seq \in Nat
    BY FeedTypes
  <2> QED
    BY <2>1, <2>2 DEF Keeps
<1>3. MirrorRule'
  <2> SUFFICES ASSUME cphase \in {"page", "live"}, Idle
               PROVE  Follows(mirror, cseq)' /\ inclHidden = chidden
    BY DEF MirrorRule, Idle
  <2>1. Follows(mirror, cseq) /\ inclHidden = chidden /\ Connected
    BY DEF SyncInv, MirrorRule, Connected
  <2>2. mirror \in ViewType /\ cseq \in Nat
    BY FeedTypes
  <2> QED
    BY <2>1, <2>2 DEF Keeps
<1> QED
  BY <1>1, <1>2, <1>3 DEF SyncInv

\* A step that publishes nothing and touches neither the entries nor a flush.
listed == <<entries, inclHidden, subscribed, seq, pending, dropped, wire>>
flushed == <<rpc, todo, touched, before>>

LEMMA KnownSame ==
  ASSUME UNCHANGED <<entries, inclHidden>>,
         (rpc = "flushing" \/ rpc' = "flushing") => UNCHANGED flushed
  PROVE  /\ \A n \in Names : \A f \in ViewType : Known(f, n) => Known(f, n)'
         /\ FlushRule => FlushRule'
<1>1. \A n \in Names : HasRead(n)' <=> HasRead(n)
  BY DEF HasRead, flushed
<1>2. Listing' = Listing
  BY DEF Listing, View
<1>3. \A n \in Names : HasRead(n) => before' = before
  BY DEF HasRead, flushed
<1>4. ASSUME NEW n \in Names, NEW f \in ViewType, Known(f, n) PROVE Known(f, n)'
  <2>1. CASE HasRead(n)
    BY <1>1, <1>3, <1>4, <2>1 DEF Known
  <2>2. CASE ~HasRead(n)
    BY <1>1, <1>2, <1>4, <2>2 DEF Known, Alike
  <2> QED
    BY <2>1, <2>2
<1>5. FlushRule => FlushRule'
  BY <1>1, <1>2 DEF FlushRule, flushed
<1> QED
  BY <1>4, <1>5

LEMMA SyncQuiet ==
  ASSUME TypeOK, SyncInv, UNCHANGED listed, UNCHANGED <<cphase, lpc, resp, mirror, cseq, chidden>>,
         opc' \in {"arm", "read", "hook", "page"} => opc \in {"arm", "read", "hook", "page"},
         (rpc = "flushing" \/ rpc' = "flushing") => UNCHANGED flushed
  PROVE  SyncInv'
<1>1. UNCHANGED <<entries, inclHidden, seq, dropped>> /\ Queue' = Queue
  BY DEF listed, Queue
<1>2. \A n \in Names : \A f \in ViewType : Known(f, n) => Known(f, n)'
  BY <1>1, KnownSame
<1>3. FlushRule'
  BY <1>1, KnownSame DEF SyncInv
<1>4. Keeps
  BY <1>1, <1>2, FollowsSame DEF Keeps
<1> QED
  BY <1>1, <1>3, <1>4, SyncKept

\* Steps that say nothing of the listing: the directory, the opening up to the page,
\* and what the run goroutine takes from its queue.
LEMMA QuietSync ==
  ASSUME TypeOK, LostInv, SyncInv,
         \/ Environment \/ ArmNotifier \/ HookAndEnrich \/ (\E n \in Names : OpenRead(n))
         \/ RunReturn \/ RecvSelf \/ RecvOverflow \/ GoneClose
         \/ (\E n \in Names : RecvName(n) \/ ResyncRead(n))
         \/ (\E t \in tasks : EnrichStart(t)) \/ (\E t \in sniffing : EnrichSkip(t))
         \/ CtxClose \/ ServiceClose \/ CloseFinish \/ UNCHANGED vars
  PROVE  SyncInv'
<1>1. UNCHANGED listed /\ UNCHANGED <<cphase, lpc, resp, mirror, cseq, chidden>>
  BY DEF Environment, ChangeFile, RemoveDir, ArmNotifier, HookAndEnrich, OpenRead, RunReturn,
         RecvSelf, RecvOverflow, RecvName, ResyncRead, GoneClose, EnrichStart, EnrichSkip, CtxClose,
         ServiceClose, CloseBy, CloseFinish, vars, env, watchv, clientv, listing, feed, requests,
         mirrorv, listed
<1>2. opc' \in {"arm", "read", "hook", "page"} => opc \in {"arm", "read", "hook", "page"}
  BY DEF Environment, ChangeFile, RemoveDir, ArmNotifier, HookAndEnrich, OpenRead, RunReturn,
         RecvSelf, RecvOverflow, RecvName, ResyncRead, GoneClose, EnrichStart, EnrichSkip, CtxClose,
         ServiceClose, CloseBy, CloseFinish, vars, openv
<1>3. opc \in {"arm", "read"} => rpc = "none"
  BY DEF LostInv, OpenRule
<1>4. (rpc = "flushing" \/ rpc' = "flushing") => UNCHANGED flushed
  <2>1. CASE ArmNotifier \/ HookAndEnrich \/ (\E n \in Names : OpenRead(n))
    BY <1>3, <2>1 DEF ArmNotifier, HookAndEnrich, OpenRead, runv, reading, flushed
  <2>2. CASE RunReturn \/ RecvSelf \/ RecvOverflow \/ (\E n \in Names : RecvName(n) \/ ResyncRead(n))
    BY <2>2 DEF RunReturn, RecvSelf, RecvOverflow, RecvName, ResyncRead, Receive, reading, flushed
  <2>3. CASE Environment \/ GoneClose \/ (\E t \in tasks : EnrichStart(t))
             \/ (\E t \in sniffing : EnrichSkip(t)) \/ CtxClose \/ ServiceClose \/ CloseFinish
             \/ UNCHANGED vars
    BY <2>3 DEF Environment, ChangeFile, RemoveDir, GoneClose, EnrichStart, EnrichSkip, CtxClose,
         ServiceClose, CloseBy, CloseFinish, vars, runv, reading, flushed
  <2> QED
    BY <2>1, <2>2, <2>3
<1> QED
  BY <1>1, <1>2, <1>4, SyncQuiet

\* The client leaves, or the watch goes live before anyone has a page of it: nothing
\* is claimed.
LEMMA LeaveSync ==
  ASSUME TypeOK, LostInv, SyncInv, OpenFail \/ Unwatch \/ Disconnect \/ Register
  PROVE  SyncInv'
<1>1. CASE OpenFail
  <2>1. /\ cphase' = "left" /\ opc' = "failed" /\ opc = "read" /\ rpc' = rpc
    BY <1>1 DEF OpenFail
  <2>2. rpc = "none"
    BY <2>1 DEF LostInv, OpenRule
  <2> QED
    BY <2>1, <2>2 DEF SyncInv, EarlyRule, FlushRule, PageRule, MirrorRule
<1>2. CASE Unwatch \/ Disconnect
  <2>1. /\ cphase' = "left" /\ UNCHANGED <<opc, lpc, resp, entries, inclHidden>> /\ UNCHANGED flushed
    BY <1>2 DEF Unwatch, Disconnect, CloseBy, openv, runv, reading, listing, requests, flushed
  <2>2. FlushRule'
    BY <2>1, KnownSame DEF SyncInv
  <2> QED
    BY <2>1, <2>2 DEF SyncInv, EarlyRule, PageRule, MirrorRule
<1>3. CASE Register
  <2>1. /\ opc = "read" /\ rpc' \in {"select", "returned"} /\ UNCHANGED <<cphase, lpc, resp>>
    BY <1>3 DEF Register, clientv
  <2>2. resp = NoPage /\ lpc = "none" /\ cphase \in {"opening", "left"} /\ resp.kind # "page"
    BY <2>1 DEF SyncInv, EarlyRule, NoPage
  <2> QED
    BY <2>1, <2>2 DEF SyncInv, EarlyRule, FlushRule, PageRule, MirrorRule
<1> QED
  BY <1>1, <1>2, <1>3

\* A page is what the watch lists and the number of the last event.
LEMMA PageFollows ==
  ASSUME TypeOK, FeedInv, MuFree, NEW v \in ViewType, NEW k \in Nat, v = View(entries, chidden),
         k = seq, inclHidden' = chidden, UNCHANGED <<entries, subscribed, feed, rpc>>
  PROVE  Follows(v, k)' /\ FlushRule'
<1>1. /\ Queue' = Queue /\ seq' = k /\ ~(rpc' = "flushing") /\ Listing' = v
  BY DEF Queue, feed, MuFree, Listing, View
<1>2. EndsAt(Queue, k) /\ Queue \in Seq(Event) /\ k \in Nat /\ Len(Queue) \in Nat
  BY FeedTypes, QueueEnds
<1>3. \A n \in Names : Told(v, k, n)'
  <2>1. \A n \in Names : LastWord(Queue, k, v, n, v)
    BY <1>2, WordNow
  <2>2. \A n \in Names : Known(v, n)'
    BY <1>1 DEF Known, HasRead, Alike
  <2> QED
    BY <1>1, <2>1, <2>2 DEF Told
<1>4. k <= seq' /\ InReach(k)'
  <2>1. seq' <= k + Len(Queue') /\ k <= seq'
    BY <1>1, <1>2
  <2> QED
    BY <2>1 DEF InReach
<1> QED
  BY <1>1, <1>3, <1>4 DEF Follows, FlushRule

LEMMA PageSync ==
  ASSUME TypeOK, FeedInv, SyncInv, OpenPage \/ ListPage
  PROVE  SyncInv'
<1>1. /\ MuFree /\ inclHidden' = chidden /\ UNCHANGED <<entries, subscribed, feed, rpc, cphase, chidden>>
      /\ resp'.kind = "page" /\ resp'.seq = seq /\ resp'.view = View(entries, chidden)
      /\ opc' \in {opc, "done"} /\ resp' # NoPage
  BY DEF OpenPage, ListPage, Page, runv, openv, feed, mirrorv, NoPage
<1>2. View(entries, chidden) \in ViewType /\ seq \in Nat
  BY FeedTypes, ViewIsView
<1>3. Follows(resp.view, resp.seq)' /\ FlushRule'
  BY <1>1, <1>2, PageFollows
<1>4. PageRule' /\ MirrorRule'
  BY <1>1, <1>3 DEF PageRule, MirrorRule, Idle, NoPage
<1>5. EarlyRule'
  <2>1. CASE OpenPage
    BY <2>1 DEF OpenPage, EarlyRule
  <2>2. CASE ListPage
    <3>1. opc \notin {"arm", "read", "hook", "page"} /\ opc' = opc
      BY <2>2 DEF ListPage, SyncInv, EarlyRule, openv
    <3> QED
      BY <3>1 DEF EarlyRule
  <2> QED
    BY <2>1, <2>2
<1> QED
  BY <1>3, <1>4, <1>5 DEF SyncInv

\* The run goroutine replaces the listing and owes a resync, or tells the directory
\* is gone.
LEMMA PublishSync ==
  ASSUME TypeOK, FeedInv, SyncInv, ResyncEnd \/ GonePublish
  PROVE  SyncInv'
<1>1. UNCHANGED <<opc, inclHidden, subscribed, cphase, lpc, resp, mirror, cseq, chidden>>
  BY DEF ResyncEnd, GonePublish, openv, listing, clientv
<1>2. rpc # "flushing" /\ rpc' # "flushing"
  BY DEF ResyncEnd, GonePublish
<1>3. FlushRule'
  BY <1>2 DEF FlushRule
<1>4. << >> \in ViewType /\ {} \in SUBSET Names /\ DOMAIN << >> = {}
  BY EmptyIsView
<1>5. Connected => Keeps
  <2>1. CASE ResyncEnd
    <3>1. Publish("resync", << >>, {})
      BY <2>1 DEF ResyncEnd
    <3> QED
      BY <1>1, <1>4, <3>1, FollowsPublish DEF Keeps
  <2>2. CASE GonePublish
    <3>1. Publish("gone", << >>, {}) /\ UNCHANGED <<entries, inclHidden>>
      BY <2>2 DEF GonePublish, listing
    <3>2. \A n \in Names : \A f \in ViewType :
            Known(f, n) => Known(IF n \in DOMAIN << >> \cup {} THEN << >> ELSE f, n)'
      BY <1>2, <1>4, <3>1, KnownSame
    <3> QED
      BY <1>1, <1>4, <3>1, <3>2, FollowsPublish DEF Keeps
  <2> QED
    BY <2>1, <2>2
<1> QED
  BY <1>1, <1>3, <1>5, SyncKept

\* A flush begins with what is listed, and reads without telling.
LEMMA FlushSync ==
  ASSUME TypeOK, SyncInv, FlushBegin \/ (\E n \in Names : FlushRead(n))
  PROVE  SyncInv'
<1>1. /\ UNCHANGED <<opc, inclHidden, subscribed, cphase, lpc, resp, mirror, cseq, chidden>>
      /\ Queue' = Queue /\ UNCHANGED <<seq, dropped>>
  BY DEF FlushBegin, FlushRead, openv, watchv, feed, clientv, Queue
<1>2. entries \in [Names -> Entry] /\ inclHidden \in BOOLEAN
  BY FeedTypes
<1>3. CASE FlushBegin
  <2>1. /\ rpc = "select" /\ Listing' = Listing
        /\ \/ rpc' = "flushing" /\ todo' = names /\ touched' = names /\ before' = DOMAIN Listing
           \/ rpc' = "goneLoop"
    BY <1>3 DEF FlushBegin, watchv, Listing, View
  <2>2. \A n \in Names : ~HasRead(n) /\ ~HasRead(n)'
    BY <2>1 DEF HasRead
  <2>3. FlushRule'
    BY <2>1, <2>2 DEF FlushRule
  <2>4. \A n \in Names : \A f \in ViewType : Known(f, n) => Known(f, n)'
    BY <2>1, <2>2 DEF Known, Alike
  <2>5. Keeps
    BY <1>1, <2>4, FollowsSame DEF Keeps
  <2> QED
    BY <1>1, <2>3, <2>5, SyncKept
<1>4. ASSUME NEW k \in Names, FlushRead(k) PROVE SyncInv'
  <2>1. /\ rpc = "flushing" /\ rpc' = rpc /\ k \in todo /\ todo' = todo \ {k}
        /\ UNCHANGED <<touched, before>>
        /\ entries' \in {entries, [entries EXCEPT ![k] = Fresh(k)]}
    BY <1>4 DEF FlushRead
  <2>2. todo \subseteq touched /\ \A n \in Names : ~HasRead(n) => (n \in before <=> n \in DOMAIN Listing)
    BY <2>1 DEF SyncInv, FlushRule
  <2>3. HasRead(k)' /\ ~HasRead(k) /\ \A n \in Names \ {k} : HasRead(n)' <=> HasRead(n)
    BY <2>1, <2>2 DEF HasRead
  <2>4. \A n \in Names \ {k} : /\ n \in DOMAIN Listing' <=> n \in DOMAIN Listing
                               /\ n \in DOMAIN Listing => Listing'[n] = Listing[n]
    <3>1. \A n \in Names \ {k} : entries'[n] = entries[n]
      BY <1>2, <2>1
    <3>2. entries' \in [Names -> Entry]
      BY <1>2, <2>1, FreshIsEntry DEF TypeOK
    <3> QED
      BY <1>1, <1>2, <3>1, <3>2, ViewAt DEF Listing
  <2>5. FlushRule'
    <3>1. todo' \subseteq touched'
      BY <2>1, <2>2
    <3>2. ASSUME NEW n \in Names, ~HasRead(n)' PROVE n \in before' <=> n \in DOMAIN Listing'
      <4>1. n # k /\ ~HasRead(n)
        BY <2>3, <3>2
      <4> QED
        BY <2>1, <2>2, <2>4, <4>1
    <3> QED
      BY <3>1, <3>2 DEF FlushRule
  <2>6. ASSUME NEW n \in Names, NEW f \in ViewType, Known(f, n) PROVE Known(f, n)'
    <3>1. CASE n = k
      <4>1. n \in DOMAIN f <=> n \in before
        BY <2>2, <2>3, <2>6, <3>1 DEF Known, Alike
      <4> QED
        BY <2>1, <2>3, <3>1, <4>1 DEF Known
    <3>2. CASE n # k /\ HasRead(n)
      BY <2>1, <2>3, <2>6, <3>2 DEF Known
    <3>3. CASE n # k /\ ~HasRead(n)
      <4>1. Alike(f, Listing, n)
        BY <2>6, <3>3 DEF Known
      <4>2. Alike(f, Listing', n)
        BY <2>4, <3>3, <4>1 DEF Alike
      <4>3. ~HasRead(n)'
        BY <2>3, <3>3
      <4> QED
        BY <4>2, <4>3 DEF Known
    <3> QED
      BY <3>1, <3>2, <3>3
  <2>7. Keeps
    BY <1>1, <2>6, FollowsSame DEF Keeps
  <2> QED
    BY <1>1, <2>5, <2>7, SyncKept
<1> QED
  BY <1>3, <1>4

\* What a flush and an enrichment publish is a batch of entries and names.
LEMMA FlushPuts ==
  ASSUME TypeOK, FlushEnd
  PROVE  \E p \in ViewType : \E r \in SUBSET Names :
           /\ Publish("batch", p, r)
           /\ \A n : n \in DOMAIN p <=> n \in DOMAIN Listing /\ (n \notin before \/ n \in touched)
           /\ \A n \in DOMAIN p : p[n] = Listing[n]
           /\ \A n : n \in r <=> n \in before /\ n \notin DOMAIN Listing
<1> DEFINE sent == {m \in DOMAIN Listing : m \notin before \/ m \in touched}
           put == [n \in sent |-> Listing[n]]
           removed == before \ DOMAIN Listing
<1>1. Publish("batch", put, removed)
  BY DEF FlushEnd, PublishDiff, Listing
<1>2. entries \in [Names -> Entry] /\ inclHidden \in BOOLEAN /\ before \subseteq Names
  BY FeedTypes DEF TypeOK, RunTypeOK
<1>3. Listing \in ViewType /\ DOMAIN Listing \subseteq Names
  BY <1>2, ViewIsView DEF Listing
<1>4. put \in ViewType /\ removed \in SUBSET Names
  <2>1. PICK S \in SUBSET Names : Listing \in [S -> Entry]
    BY <1>3 DEF ViewType
  <2>2. sent \in SUBSET Names /\ \A n \in sent : Listing[n] \in Entry
    BY <1>3, <2>1
  <2>3. put \in [sent -> Entry]
    BY <2>2
  <2> QED
    BY <1>2, <2>2, <2>3 DEF ViewType
<1>5. /\ \A n : n \in DOMAIN put <=> n \in DOMAIN Listing /\ (n \notin before \/ n \in touched)
      /\ \A n \in DOMAIN put : put[n] = Listing[n]
      /\ \A n : n \in removed <=> n \in before /\ n \notin DOMAIN Listing
  OBVIOUS
<1> HIDE DEF sent, put, removed
<1> QED
  BY <1>1, <1>4, <1>5

LEMMA ApplyPuts ==
  ASSUME TypeOK, NEW t \in sniffing, EnrichApply(t), ~UNCHANGED <<entries, feed>>
  PROVE  \E p \in ViewType :
           /\ StillCurrent(t) /\ t[1] \in Names /\ t[2] \in 0..MaxOps
           /\ entries' = [entries EXCEPT ![t[1]] = [v |-> t[2], e |-> TRUE]]
           /\ Publish("batch", p, {})
           /\ \A n : n \in DOMAIN p <=> n = t[1] /\ n \in DOMAIN View(entries', inclHidden)
           /\ \A n \in DOMAIN p : p[n] = entries'[n]
<1> DEFINE es == [entries EXCEPT ![t[1]] = [v |-> t[2], e |-> TRUE]]
           put == [m \in {t[1]} \cap DOMAIN View(es, inclHidden) |-> es[m]]
<1>1. t[1] \in Names /\ t[2] \in 0..MaxOps /\ entries \in [Names -> Entry]
  BY DEF TypeOK, WatchTypeOK
<1>2. StillCurrent(t) /\ entries' = es /\ Publish("batch", put, {})
  BY DEF EnrichApply
<1>3. put \in ViewType
  <2>1. es \in [Names -> Entry]
    BY <1>1, AppliedIsEntry
  <2>2. DOMAIN put \in SUBSET Names /\ put \in [DOMAIN put -> Entry]
    BY <1>1, <2>1
  <2> QED
    BY <2>2 DEF ViewType
<1>4. /\ \A n : n \in DOMAIN put <=> n = t[1] /\ n \in DOMAIN View(entries', inclHidden)
      /\ \A n \in DOMAIN put : put[n] = entries'[n]
  BY <1>2
<1> HIDE DEF put
<1> QED
  BY <1>1, <1>2, <1>3, <1>4

\* The flush ends by telling what it added, changed and removed.
LEMMA FlushEndSync ==
  ASSUME TypeOK, FeedInv, SyncInv, FlushEnd
  PROVE  SyncInv'
<1>1. /\ UNCHANGED <<opc, inclHidden, entries, subscribed, cphase, lpc, resp, mirror, cseq, chidden>>
      /\ rpc = "flushing" /\ rpc' = "select" /\ todo = {}
  BY DEF FlushEnd, openv, listing, clientv
<1>2. PICK p \in ViewType : \E r \in SUBSET Names :
           /\ Publish("batch", p, r)
           /\ \A n : n \in DOMAIN p <=> n \in DOMAIN Listing /\ (n \notin before \/ n \in touched)
           /\ \A n \in DOMAIN p : p[n] = Listing[n]
           /\ \A n : n \in r <=> n \in before /\ n \notin DOMAIN Listing
  BY FlushPuts
<1>3. PICK r \in SUBSET Names :
           /\ Publish("batch", p, r)
           /\ \A n : n \in r <=> n \in before /\ n \notin DOMAIN Listing
  BY <1>2
<1>4. \A n \in Names : HasRead(n) <=> n \in touched
  BY <1>1 DEF HasRead
<1>5. \A n \in Names : n \notin touched => (n \in before <=> n \in DOMAIN Listing)
  BY <1>1, <1>4 DEF SyncInv, FlushRule
<1>6. Listing' = Listing /\ \A n \in Names : ~HasRead(n)'
  BY <1>1 DEF Listing, View, HasRead
<1>7. ASSUME NEW n \in Names, NEW f \in ViewType, Known(f, n)
      PROVE  Known(IF n \in DOMAIN p \cup r THEN p ELSE f, n)'
  <2>1. PICK g : g = IF n \in DOMAIN p \cup r THEN p ELSE f
    OBVIOUS
  <2>2. Alike(g, Listing, n)
    <3>1. CASE n \in touched
      <4>1. n \in DOMAIN f <=> n \in before
        BY <1>4, <1>7, <3>1 DEF Known
      <4> QED
        BY <1>2, <1>3, <2>1, <3>1, <4>1 DEF Alike
    <3>2. CASE n \notin touched
      <4>1. Alike(f, Listing, n)
        BY <1>4, <1>7, <3>2 DEF Known
      <4>2. n \notin DOMAIN p \cup r
        BY <1>2, <1>3, <1>5, <3>2
      <4> QED
        BY <2>1, <4>1, <4>2
    <3> QED
      BY <3>1, <3>2
  <2>3. Known(g, n)'
    BY <1>6, <2>2 DEF Known, Alike
  <2> QED
    BY <2>1, <2>3
<1>8. Connected => Keeps
  BY <1>1, <1>3, <1>7, FollowsPublish DEF Keeps
<1>9. FlushRule'
  BY <1>1 DEF FlushRule
<1> QED
  BY <1>1, <1>8, <1>9, SyncKept

\* An enrichment tells the one entry it replaced, if that is shown.
LEMMA ApplySync ==
  ASSUME TypeOK, FeedInv, SyncInv, NEW t \in sniffing, EnrichApply(t)
  PROVE  SyncInv'
<1>1. /\ UNCHANGED <<opc, inclHidden, subscribed, cphase, lpc, resp, mirror, cseq, chidden, rpc>>
      /\ rpc # "flushing" /\ UNCHANGED runv
  BY DEF EnrichApply, MuFree, openv, runv, clientv
<1>2. FlushRule'
  BY <1>1 DEF FlushRule
<1>3. CASE UNCHANGED <<entries, feed>>
  <2>1. Queue' = Queue /\ UNCHANGED <<seq, dropped>>
    BY <1>1, <1>3 DEF feed, Queue
  <2>2. Keeps
    BY <1>1, <1>3, <2>1, KnownSame, FollowsSame DEF Keeps
  <2> QED
    BY <1>1, <1>2, <2>2, SyncKept
<1>4. CASE ~UNCHANGED <<entries, feed>>
  <2>1. PICK p \in ViewType :
           /\ StillCurrent(t) /\ t[1] \in Names /\ t[2] \in 0..MaxOps
           /\ entries' = [entries EXCEPT ![t[1]] = [v |-> t[2], e |-> TRUE]]
           /\ Publish("batch", p, {})
           /\ \A n : n \in DOMAIN p <=> n = t[1] /\ n \in DOMAIN View(entries', inclHidden)
           /\ \A n \in DOMAIN p : p[n] = entries'[n]
    BY <1>4, ApplyPuts
  <2>2. PICK k \in Names : k = t[1]
    BY <2>1
  <2>3. entries \in [Names -> Entry] /\ inclHidden \in BOOLEAN /\ entries' \in [Names -> Entry]
    BY <2>1, AppliedIsEntry, FeedTypes
  <2>4. /\ \A n \in Names : entries'[n].v = entries[n].v
        /\ \A n \in Names \ {k} : entries'[n] = entries[n]
    BY <2>1, <2>2, <2>3 DEF StillCurrent
  <2>5. Listing' = View(entries', inclHidden) /\ Listing = View(entries, inclHidden)
    BY <1>1 DEF Listing
  <2>6. /\ \A n \in Names : n \in DOMAIN Listing' <=> n \in DOMAIN Listing
        /\ \A n \in Names \ {k} : n \in DOMAIN Listing => Listing'[n] = Listing[n]
        /\ k \in DOMAIN Listing' => Listing'[k] = entries'[k]
    BY <2>3, <2>4, <2>5, ViewAt
  <2>7. /\ \A n \in Names : n \in DOMAIN p <=> n = k /\ n \in DOMAIN Listing'
        /\ k \in DOMAIN p => p[k] = entries'[k]
    BY <2>1, <2>2, <2>5
  <2>8. \A n \in Names : ~HasRead(n) /\ ~HasRead(n)'
    BY <1>1 DEF HasRead
  <2>9. ASSUME NEW n \in Names, NEW f \in ViewType, Known(f, n)
        PROVE  Known(IF n \in DOMAIN p \cup {} THEN p ELSE f, n)'
    <3>1. PICK g : g = IF n \in DOMAIN p \cup {} THEN p ELSE f
      OBVIOUS
    <3>2. Alike(f, Listing, n)
      BY <2>8, <2>9 DEF Known
    <3>3. Alike(g, Listing', n)
      <4>1. CASE n = k
        BY <2>6, <2>7, <3>1, <3>2, <4>1 DEF Alike
      <4>2. CASE n # k
        BY <2>6, <2>7, <3>1, <3>2, <4>2 DEF Alike
      <4> QED
        BY <4>1, <4>2
    <3>4. Known(g, n)'
      BY <2>8, <3>3 DEF Known, Alike
    <3> QED
      BY <3>1, <3>4
  <2>10. Connected => Keeps
    BY <1>1, <2>1, <2>9, FollowsPublish DEF Keeps
  <2> QED
    BY <1>1, <1>2, <2>10, SyncKept
<1> QED
  BY <1>3, <1>4


\* attach: the buffer moves to the connection, or the resync that it owes.
LEMMA AttachSync ==
  ASSUME TypeOK, FeedInv, SyncInv, Attach
  PROVE  SyncInv'
<1>1. /\ UNCHANGED <<opc, inclHidden, entries, cphase, lpc, resp, mirror, cseq, chidden>>
      /\ UNCHANGED flushed /\ rpc # "flushing" /\ rpc' = rpc
  BY DEF Attach, MuFree, openv, runv, reading, mirrorv, flushed
<1>2. FlushRule'
  BY <1>1 DEF FlushRule
<1>3. /\ subscribed' /\ dropped' = FALSE /\ seq' = IF dropped THEN seq + 1 ELSE seq
      /\ Connected => wire' = wire \o Flushed
  BY DEF Attach, OnWire
<1>4. seq \in Nat /\ pending \in Seq(Event) /\ wire \in Seq(Event) /\ dropped \in BOOLEAN
  BY FeedTypes
<1>5. ASSUME Connected, NEW m \in ViewType, NEW s \in Nat, Follows(m, s)
      PROVE  Follows(m, s)'
  <2>1. CASE ~dropped
    <3>1. Flushed = pending
      BY <2>1 DEF Flushed
    <3>2. Queue' = wire \o pending
      BY <1>3, <1>5, <3>1 DEF Queue
    <3>3. wire \o << >> = wire /\ << >> \o pending = pending
      BY <1>4
    <3>4. Queue' = Queue
      BY <3>2, <3>3 DEF FeedInv, SeqContiguous, Queue
    <3>5. seq' = seq /\ dropped' = dropped
      BY <1>3, <1>4, <2>1
    <3> QED
      BY <1>1, <1>5, <3>4, <3>5, KnownSame, FollowsSame
  <2>2. CASE dropped
    <3>1. Flushed = <<Batch("resync", seq + 1, << >>, {})>>
      BY <2>2 DEF Flushed
    <3>2. wire = << >>
      BY <2>2 DEF FeedInv, SeqContiguous
    <3>3. Queue' = <<Batch("resync", seq + 1, << >>, {})>>
      <4>1. << >> \o <<Batch("resync", seq + 1, << >>, {})>>
              = <<Batch("resync", seq + 1, << >>, {})>>
        OBVIOUS
      <4> QED
        BY <1>3, <1>5, <3>1, <3>2, <4>1 DEF Queue
    <3>4. Queue'[1].kind = "resync" /\ Queue'[1].seq = seq + 1 /\ 1 \in DOMAIN Queue' /\ Queue' # << >>
      BY <3>3 DEF Batch
    <3>5. s <= seq' /\ seq + 1 > s
      BY <1>3, <1>4, <1>5, <2>2 DEF Follows
    <3> QED
      BY <3>4, <3>5 DEF Follows, InReach, Cut
  <2> QED
    BY <1>4, <2>1, <2>2
<1>6. Connected => Keeps
  BY <1>5 DEF Keeps
<1> QED
  BY <1>1, <1>2, <1>6, SyncKept

\* A client that skips an event it has already.
LEMMA FollowsSkip ==
  ASSUME TypeOK, FeedInv, NEW m \in ViewType, NEW s \in Nat, Follows(m, s), Queue # << >>,
         Head(Queue).seq <= s, Queue' = Tail(Queue), UNCHANGED <<seq, dropped>>,
         \A n \in Names : \A f \in ViewType : Known(f, n) => Known(f, n)'
  PROVE  Follows(m, s)'
<1>1. Queue \in Seq(Event) /\ EndsAt(Queue, seq) /\ seq \in Nat
  BY FeedTypes, QueueEnds
<1>2. /\ Head(Queue).seq \in Nat /\ Head(Queue).seq + Len(Queue) = seq + 1
      /\ Len(Tail(Queue)) = Len(Queue) - 1 /\ Len(Queue) \in Nat
  BY <1>1, EndsAtHead
<1>3. InReach(s)'
  <2>1. seq' <= s + Len(Queue')
    BY <1>1, <1>2
  <2> QED
    BY <2>1 DEF InReach
<1>4. /\ 1 \in DOMAIN Queue /\ Queue[1] = Head(Queue) /\ ~(Queue[1].seq > s)
      /\ \A j \in DOMAIN Queue : j = 1 \/ (j - 1 \in DOMAIN Tail(Queue) /\ Tail(Queue)[j - 1] = Queue[j])
  BY <1>1, <1>2, TailEvents
<1>5. Cut(s) => Cut(s)'
  <2> SUFFICES ASSUME NEW j \in DOMAIN Queue, Queue[j].kind = "resync", Queue[j].seq > s
               PROVE  Cut(s)'
    BY DEF Cut
  <2>1. j - 1 \in DOMAIN Queue' /\ Queue'[j - 1] = Queue[j]
    BY <1>4
  <2> QED
    BY <2>1 DEF Cut
<1>6. ASSUME NEW n \in Names, Told(m, s, n) PROVE Told(m, s, n)'
  <2>1. PICK f \in ViewType : LastWord(Queue, s, m, n, f) /\ Known(f, n)
    BY <1>6 DEF Told
  <2>2. 1 \notin Tells(Queue, s, n)
    BY <1>4 DEF Tells
  <2>3. LastWord(Tail(Queue), s, m, n, f)
    BY <1>1, <2>1, <2>2, WordTail
  <2> QED
    BY <2>1, <2>3 DEF Told
<1> QED
  BY <1>3, <1>5, <1>6 DEF Follows

\* A client that applies the next event has, as of that event, what it makes of it.
LEMMA FollowsApply ==
  ASSUME TypeOK, FeedInv, NEW m \in ViewType, NEW s \in Nat, Follows(m, s), Queue # << >>,
         NEW ev, ev = Head(Queue), ev.seq > s, ev.kind # "resync", Applied(m, ev) \in ViewType,
         Queue' = Tail(Queue), UNCHANGED <<seq, dropped>>,
         \A n \in Names : \A f \in ViewType : Known(f, n) => Known(f, n)'
  PROVE  Follows(Applied(m, ev), ev.seq)'
<1> DEFINE t == ev.seq
           g == Applied(m, ev)
<1>1. Queue \in Seq(Event) /\ EndsAt(Queue, seq) /\ seq \in Nat
  BY FeedTypes, QueueEnds
<1>2. /\ t \in Nat /\ t + Len(Queue) = seq + 1
      /\ Len(Tail(Queue)) = Len(Queue) - 1 /\ Len(Queue) \in Nat /\ Len(Queue) >= 1
      /\ \A i \in DOMAIN Tail(Queue) : Tail(Queue)[i].seq > t /\ Tail(Queue)[i].seq \in Nat
  BY <1>1, EndsAtHead
<1>3. t <= seq' /\ InReach(t)'
  <2>1. t <= seq' /\ seq' <= t + Len(Queue')
    BY <1>1, <1>2
  <2> QED
    BY <2>1 DEF InReach
<1>4. /\ 1 \in DOMAIN Queue /\ Queue[1] = ev
      /\ \A i \in DOMAIN Tail(Queue) : i + 1 \in DOMAIN Queue /\ Tail(Queue)[i] = Queue[i + 1]
      /\ \A j \in DOMAIN Queue : j = 1 \/ (j - 1 \in DOMAIN Tail(Queue) /\ Tail(Queue)[j - 1] = Queue[j])
  BY <1>1, TailEvents
<1>5. \A i \in DOMAIN Tail(Queue) : Tail(Queue)[i].seq > s /\ Tail(Queue)[i].seq > t
  BY <1>2
<1>6. Cut(s) => Cut(t)'
  <2>1. CASE dropped
    BY <2>1 DEF Cut
  <2>2. ASSUME NEW j \in DOMAIN Queue, Queue[j].kind = "resync", Queue[j].seq > s
        PROVE  Cut(t)'
    <3>1. j - 1 \in DOMAIN Queue' /\ Queue'[j - 1] = Queue[j]
      BY <1>4, <2>2
    <3>2. Queue'[j - 1].seq > t
      BY <1>5, <3>1
    <3> HIDE DEF t
    <3> QED
      BY <2>2, <3>1, <3>2 DEF Cut
  <2> QED
    BY <2>1, <2>2 DEF Cut
<1>7. ASSUME NEW n \in Names, Told(m, s, n) PROVE Told(g, t, n)'
  <2>1. PICK f \in ViewType : LastWord(Queue, s, m, n, f) /\ Known(f, n)
    BY <1>7 DEF Told
  <2>2. \/ LastWord(Tail(Queue), t, g, n, f)
        \/ /\ LastWord(Tail(Queue), t, g, n, g)
           /\ IF 1 \in Tells(Queue, s, n) THEN f = Queue[1].put ELSE f = m
    <3>1. \A i \in DOMAIN Tail(Queue) : Tail(Queue)[i].seq > s <=> Tail(Queue)[i].seq > t
      BY <1>5
    <3> HIDE DEF t, g
    <3> QED
      BY <1>1, <1>2, <2>1, <3>1, WordTail
  <2>3. CASE LastWord(Tail(Queue), t, g, n, f)
    <3> HIDE DEF t, g
    <3> QED
      BY <2>1, <2>3 DEF Told
  <2>4. CASE /\ LastWord(Tail(Queue), t, g, n, g)
             /\ IF 1 \in Tells(Queue, s, n) THEN f = Queue[1].put ELSE f = m
    <3>1. 1 \in Tells(Queue, s, n) <=> n \in DOMAIN ev.put \cup ev.removed
      BY <1>4 DEF Tells
    <3>2. Alike(g, f, n)
      <4>1. /\ n \in DOMAIN g <=> (n \in DOMAIN m /\ n \notin ev.removed) \/ n \in DOMAIN ev.put
            /\ n \in DOMAIN g => g[n] = IF n \in DOMAIN ev.put THEN ev.put[n] ELSE m[n]
        BY DEF Applied
      <4> HIDE DEF g
      <4> QED
        BY <1>4, <2>4, <3>1, <4>1 DEF Alike
    <3>3. Known(g, n)
      <4> HIDE DEF g
      <4> QED
        BY <2>1, <3>2 DEF Known, Alike
    <3> HIDE DEF t, g
    <3>4. g \in ViewType
      BY DEF g
    <3> QED
      BY <2>4, <3>3, <3>4 DEF Told
  <2> QED
    BY <2>2, <2>3, <2>4
<1> HIDE DEF t, g
<1>8. Follows(g, t)'
  BY <1>3, <1>6, <1>7 DEF Follows
<1> QED
  BY <1>8 DEF g, t

\* What the client does with the next event.
LEMMA EventSync ==
  ASSUME TypeOK, TypeOK', FeedInv, SyncInv, RecvEvent
  PROVE  SyncInv'
<1> DEFINE ev == Head(wire)
<1>1. /\ UNCHANGED <<opc, entries, inclHidden, subscribed, seq, dropped, resp, chidden>>
      /\ UNCHANGED flushed /\ cphase = "live" /\ Idle /\ wire # << >> /\ wire' = Tail(wire)
  BY DEF RecvEvent, openv, runv, reading, listing, flushed
<1>2. /\ Queue = wire /\ Queue' = Tail(Queue) /\ Queue # << >> /\ ev \in Event /\ ev.seq \in Nat
  <2>1. subscribed /\ subscribed' /\ wire \in Seq(Event)
    BY <1>1, FeedTypes DEF FeedInv, SeqContiguous
  <2> QED
    BY <1>1, <2>1, EventNumbered DEF Queue
<1>3. Follows(mirror, cseq) /\ inclHidden = chidden /\ mirror \in ViewType /\ cseq \in Nat
  BY <1>1, FeedTypes DEF SyncInv, MirrorRule
<1>4. \A n \in Names : \A f \in ViewType : Known(f, n) => Known(f, n)'
  BY <1>1, KnownSame
<1>5. EarlyRule' /\ FlushRule' /\ PageRule'
  <2>1. EarlyRule'
    BY <1>1 DEF SyncInv, EarlyRule
  <2>2. FlushRule'
    BY <1>1, KnownSame DEF SyncInv
  <2>3. PageRule'
    BY <1>1 DEF PageRule, Idle, NoPage
  <2> QED
    BY <2>1, <2>2, <2>3
<1> HIDE DEF ev
<1>6. MirrorRule'
  <2>1. \/ cphase' = "gone"
        \/ ev.seq <= cseq /\ UNCHANGED <<cphase, mirror, cseq, lpc>>
        \/ /\ ev.kind = "batch" /\ ev.seq > cseq /\ mirror' = Applied(mirror, ev) /\ cseq' = ev.seq
           /\ UNCHANGED <<cphase, lpc>>
        \/ lpc' = "asked"
    BY DEF RecvEvent, ev
  <2>2. CASE cphase' = "gone" \/ lpc' = "asked"
    BY <2>2 DEF MirrorRule, Idle
  <2>3. CASE ev.seq <= cseq /\ UNCHANGED <<cphase, mirror, cseq, lpc>>
    <3>1. Head(Queue).seq <= cseq
      BY <1>2, <2>3 DEF ev
    <3>2. Follows(mirror, cseq)'
      BY <1>1, <1>2, <1>3, <1>4, <2>3, <3>1, FollowsSkip
    <3> QED
      BY <1>1, <1>3, <3>2 DEF MirrorRule
  <2>4. CASE /\ ev.kind = "batch" /\ ev.seq > cseq /\ mirror' = Applied(mirror, ev) /\ cseq' = ev.seq
             /\ UNCHANGED <<cphase, lpc>>
    <3>1. mirror' \in ViewType
      BY FeedTypes DEF TypeOK, ClientTypeOK
    <3>2. PICK e : e = ev
      OBVIOUS
    <3>3. PICK m \in ViewType : m = mirror
      BY <1>3
    <3>4. PICK s \in Nat : s = cseq
      BY <1>3
    <3>5. e = Head(Queue) /\ e.kind # "resync" /\ e.seq > s /\ Applied(m, e) \in ViewType
      BY <1>2, <2>4, <3>1, <3>2, <3>3, <3>4 DEF ev
    <3>6. Follows(Applied(m, e), e.seq)'
      BY <1>1, <1>2, <1>3, <1>4, <3>3, <3>4, <3>5, FollowsApply
    <3>7. mirror' = Applied(m, e) /\ cseq' = e.seq
      BY <2>4, <3>2, <3>3
    <3>8. Follows(mirror, cseq)'
      BY <3>6, <3>7
    <3> QED
      BY <1>1, <1>3, <3>8 DEF MirrorRule
  <2> QED
    BY <2>1, <2>2, <2>3, <2>4
<1> QED
  BY <1>5, <1>6 DEF SyncInv

\* The answers, the subscription and the client's own requests.
LEMMA RequestSync ==
  ASSUME TypeOK, SyncInv, RecvPage \/ Subscribe \/ AskList \/ ListLookup
  PROVE  SyncInv'
<1>1. /\ UNCHANGED <<opc, entries, inclHidden, seq, dropped>> /\ UNCHANGED flushed
      /\ Queue' = Queue
  BY DEF RecvPage, Subscribe, AskList, ListLookup, openv, runv, reading, watchv, flushed, Queue
<1>2. FlushRule' /\ Keeps
  BY <1>1, KnownSame, FollowsSame DEF SyncInv, Keeps
<1>3. resp.view \in ViewType /\ resp.seq \in Nat /\ mirror \in ViewType /\ cseq \in Nat
  BY FeedTypes
<1>4. CASE RecvPage
  <2>1. EarlyRule'
    BY <1>1, <1>4 DEF RecvPage, SyncInv, EarlyRule, NoPage
  <2>2. PageRule'
    BY <1>4 DEF RecvPage, PageRule, NoPage
  <2>3. MirrorRule'
    <3>1. CASE resp.kind = "page"
      <4>1. /\ Follows(resp.view, resp.seq) /\ inclHidden = chidden /\ chidden' = chidden
            /\ mirror' = resp.view /\ cseq' = resp.seq
        BY <1>4, <3>1 DEF RecvPage, SyncInv, PageRule
      <4>2. Follows(resp.view, resp.seq) => Follows(mirror, cseq)'
        BY <1>2, <1>3, <4>1 DEF Keeps
      <4> QED
        BY <1>1, <4>1, <4>2 DEF MirrorRule
    <3>2. CASE resp.kind # "page"
      BY <1>4, <3>2 DEF RecvPage, MirrorRule
    <3> QED
      BY <3>1, <3>2
  <2> QED
    BY <1>2, <2>1, <2>2, <2>3 DEF SyncInv
<1>5. CASE Subscribe
  <2>1. UNCHANGED <<lpc, resp, mirror, cseq, chidden>> /\ cphase = "page" /\ cphase' = "live"
    BY <1>5 DEF Subscribe, mirrorv
  <2>2. EarlyRule'
    BY <1>1, <2>1 DEF SyncInv, EarlyRule
  <2>3. resp.kind = "page" => Follows(resp.view, resp.seq)' /\ inclHidden' = chidden'
    BY <1>1, <1>2, <1>3, <2>1 DEF SyncInv, PageRule, Keeps
  <2>4. Idle => Follows(mirror, cseq)' /\ inclHidden' = chidden'
    BY <1>1, <1>2, <1>3, <2>1 DEF SyncInv, MirrorRule, Keeps
  <2>5. PageRule' /\ MirrorRule'
    BY <2>1, <2>3, <2>4 DEF PageRule, MirrorRule, Idle
  <2> QED
    BY <1>2, <2>2, <2>5 DEF SyncInv
<1>6. CASE AskList
  <2>1. lpc' = "asked" /\ resp' = resp /\ resp = NoPage /\ cphase = "live" /\ cphase' = cphase
    BY <1>6 DEF AskList, Idle
  <2>2. EarlyRule' /\ PageRule' /\ MirrorRule'
    BY <1>1, <2>1 DEF SyncInv, EarlyRule, PageRule, MirrorRule, Idle, NoPage
  <2> QED
    BY <1>2, <2>2 DEF SyncInv
<1>7. CASE ListLookup
  <2>1. /\ lpc = "asked" /\ UNCHANGED <<cphase, mirror, cseq, chidden>>
        /\ \/ lpc' = "found" /\ resp' = resp
           \/ resp'.kind = "error"
    BY <1>7 DEF ListLookup, mirrorv
  <2>2. EarlyRule'
    BY <1>1, <2>1 DEF SyncInv, EarlyRule
  <2>3. PageRule'
    <3>1. CASE resp'.kind = "error"
      BY <3>1 DEF PageRule
    <3>2. CASE resp' = resp
      BY <1>1, <1>2, <1>3, <2>1, <3>2 DEF SyncInv, PageRule, Keeps
    <3> QED
      BY <2>1, <3>1, <3>2
  <2>4. MirrorRule'
    BY <2>1 DEF MirrorRule, Idle, NoPage
  <2> QED
    BY <1>2, <2>2, <2>3, <2>4 DEF SyncInv
<1> QED
  BY <1>4, <1>5, <1>6, <1>7

LEMMA SyncStart == Init => SyncInv
<1> SUFFICES ASSUME Init PROVE SyncInv
  OBVIOUS
<1>1. /\ opc = "arm" /\ rpc = "none" /\ cphase = "opening" /\ lpc = "none" /\ resp = NoPage
      /\ resp.kind # "page"
  BY DEF Init, NoPage
<1> QED
  BY <1>1 DEF SyncInv, EarlyRule, FlushRule, PageRule, MirrorRule

\* What the invariant says of a live client.
LEMMA SyncShows == TypeOK /\ FeedInv /\ SyncInv => FeedInSync
<1> SUFFICES ASSUME TypeOK, FeedInv, SyncInv, cphase = "live", Idle
             PROVE  /\ wire # << >> => Head(wire).seq <= cseq + 1 \/ Head(wire).kind = "resync"
                    /\ subscribed /\ MuFree /\ ~ResyncAhead =>
                         \A n \in Names : \E f \in {wire[i].put : i \in DOMAIN wire} \cup {mirror} :
                           LastWord(wire, cseq, mirror, n, f) /\ Alike(f, View(entries, chidden), n)
  BY DEF FeedInSync
<1>1. Follows(mirror, cseq) /\ inclHidden = chidden /\ cseq \in Nat /\ seq \in Nat
  BY FeedTypes DEF SyncInv, MirrorRule
<1>2. ASSUME wire # << >> PROVE Head(wire).seq <= cseq + 1 \/ Head(wire).kind = "resync"
  <2>1. Queue = wire /\ ~dropped /\ wire \in Seq(Event) /\ EndsAt(wire, seq)
    BY <1>2, FeedTypes DEF FeedInv, SeqContiguous, Queue
  <2>2. seq <= cseq + Len(wire) \/ wire[1].kind = "resync"
    BY <1>1, <2>1 DEF Follows, InReach
  <2>3. /\ wire[1] = Head(wire) /\ Head(wire).seq \in Nat /\ Len(wire) \in Nat
        /\ Head(wire).seq + Len(wire) = seq + 1
    BY <1>1, <1>2, <2>1, EndsAtHead, TailEvents
  <2> QED
    BY <1>1, <2>2, <2>3
<1>3. ASSUME subscribed, MuFree, ~ResyncAhead, NEW n \in Names
      PROVE  \E f \in {wire[i].put : i \in DOMAIN wire} \cup {mirror} :
               LastWord(wire, cseq, mirror, n, f) /\ Alike(f, View(entries, chidden), n)
  <2>1. Queue = wire /\ ~dropped
    BY <1>3 DEF FeedInv, SeqContiguous, Queue
  <2>2. ~Cut(cseq)
    BY <1>3, <2>1 DEF Cut, ResyncAhead
  <2>3. PICK f : LastWord(wire, cseq, mirror, n, f) /\ Known(f, n)
    BY <1>1, <2>1, <2>2 DEF Follows, Told
  <2>4. Alike(f, View(entries, chidden), n)
    BY <1>1, <1>3, <2>3 DEF Known, HasRead, MuFree, Listing
  <2>5. f \in {wire[i].put : i \in DOMAIN wire} \cup {mirror}
    BY <2>3 DEF LastWord, Tells
  <2> QED
    BY <2>3, <2>4, <2>5
<1> QED
  BY <1>2, <1>3

\* At every moment a live client can use its next event, and what it has with what
\* is on its way to it is what the server lists for it: pages (watch.page), batches
\* (diff, applyChanged), resyncs and the buffer that Attach flushes interleave
\* without the two drifting apart.
THEOREM FeedInSyncCorrect == Spec => []FeedInSync
<1>1. TypeOK /\ TypeOK' /\ FeedInv /\ LostInv /\ SyncInv /\ [Next]_vars => SyncInv'
  <2> SUFFICES ASSUME TypeOK, TypeOK', FeedInv, LostInv, SyncInv, [Next]_vars PROVE SyncInv'
    OBVIOUS
  <2>1. CASE Environment \/ UNCHANGED vars
    BY <2>1, QuietSync
  <2>2. CASE Opening
    BY <2>2, QuietSync, LeaveSync, PageSync DEF Opening
  <2>3. CASE Run
    BY <2>3, QuietSync, PublishSync, FlushSync, FlushEndSync DEF Run
  <2>4. CASE Enrich
    BY <2>4, QuietSync, ApplySync DEF Enrich
  <2>5. CASE Closing
    BY <2>5, QuietSync, LeaveSync DEF Closing
  <2>6. CASE Serving
    BY <2>6, AttachSync, RequestSync, PageSync DEF Serving
  <2>7. CASE Client \/ Disconnect
    BY <2>7, RequestSync, EventSync, LeaveSync DEF Client
  <2> QED
    BY <2>1, <2>2, <2>3, <2>4, <2>5, <2>6, <2>7 DEF Next
<1> QED
  BY <1>1, SyncStart, SyncShows, TypeCorrect, FeedInvCorrect, LostInvCorrect, PTL DEF Spec

-----------------------------------------------------------------------------
(* The end of a watch: publishGone closes before it publishes.  Whoever was  *)
(* told can no longer resolve the watch id, since a closed watch is          *)
(* forgotten, and none is registered once closed.                            *)

GoneFree(q) == \A i \in DOMAIN q : q[i].kind # "gone"
Untold == cphase # "gone" /\ GoneFree(pending) /\ GoneFree(wire)

GoneInv == (once = "closed" => ~registered) /\ (once # "closed" => Untold)

\* What is appended, taken or joined leaves a queue free of the word.
LEMMA GoneFreeQueues ==
  ASSUME NEW q \in Seq(Event), GoneFree(q), NEW r \in Seq(Event), GoneFree(r), NEW ev \in Event,
         ev.kind # "gone"
  PROVE  /\ GoneFree(<< >>) /\ GoneFree(<<ev>>) /\ GoneFree(Append(q, ev)) /\ GoneFree(q \o r)
         /\ q # << >> => GoneFree(Tail(q)) /\ Head(q).kind # "gone"
<1>1. GoneFree(<< >>) /\ GoneFree(<<ev>>)
  BY DEF GoneFree
<1>2. \A i \in DOMAIN Append(q, ev) : Append(q, ev)[i] = ev \/ (i \in DOMAIN q /\ Append(q, ev)[i] = q[i])
  OBVIOUS
<1>3. ASSUME NEW i \in DOMAIN (q \o r)
      PROVE  \/ i \in DOMAIN q /\ (q \o r)[i] = q[i]
             \/ \E j \in DOMAIN r : (q \o r)[i] = r[j]
  <2>1. /\ i \in 1..(Len(q) + Len(r)) /\ Len(q) \in Nat /\ Len(r) \in Nat
        /\ i <= Len(q) => (q \o r)[i] = q[i]
        /\ i > Len(q) => (q \o r)[i] = r[i - Len(q)]
    OBVIOUS
  <2>2. CASE i <= Len(q)
    BY <2>1, <2>2
  <2>3. CASE i > Len(q)
    <3>1. i - Len(q) \in 1..Len(r)
      BY <2>1, <2>3
    <3>2. i - Len(q) \in DOMAIN r
      BY <3>1
    <3> QED
      BY <2>1, <2>3, <3>2
  <2> QED
    BY <2>1, <2>2, <2>3
<1>4. q # << >> => GoneFree(Tail(q)) /\ Head(q).kind # "gone"
  BY TailEvents DEF GoneFree
<1>5. GoneFree(Append(q, ev))
  BY <1>2 DEF GoneFree
<1>6. GoneFree(q \o r)
  BY <1>3 DEF GoneFree
<1> QED
  BY <1>1, <1>4, <1>5, <1>6

LEMMA PublishUntold ==
  ASSUME TypeOK, Untold, NEW kind \in {"batch", "resync"}, NEW put \in ViewType,
         NEW removed \in SUBSET Names, Publish(kind, put, removed), cphase' = cphase
  PROVE  Untold'
<1> DEFINE ev == Batch(kind, seq + 1, put, removed)
<1>1. /\ seq \in Nat /\ pending \in Seq(Event) /\ wire \in Seq(Event)
      /\ cphase # "gone" /\ GoneFree(pending) /\ GoneFree(wire)
  BY FeedTypes DEF Untold
<1>2. ev \in Event /\ ev.kind # "gone"
  BY <1>1 DEF Batch, Event
<1>3. /\ pending' \in {pending, << >>, Append(pending, ev)}
      /\ wire' \in {wire, wire \o <<ev>>}
  BY DEF Publish, OnWire, feed
<1> HIDE DEF ev
<1>4. <<ev>> \in Seq(Event)
  BY <1>2
<1>5. GoneFree(pending')
  BY <1>1, <1>2, <1>3, GoneFreeQueues
<1>6. GoneFree(<<ev>>)
  BY <1>1, <1>2, GoneFreeQueues
<1>7. GoneFree(wire')
  BY <1>1, <1>2, <1>3, <1>4, <1>6, GoneFreeQueues
<1> QED
  BY <1>1, <1>5, <1>7 DEF Untold

\* Before the watch is closed nobody is told, and afterwards it stays closed.
LEMMA GoneStep ==
  ASSUME TypeOK, LostInv, GoneInv, [Next]_vars
  PROVE  GoneInv'
<1>1. CASE once = "closed"
  <2>1. opc # "read"
    BY <1>1 DEF LostInv, OpenRule
  <2>2. CASE Environment \/ Opening \/ Disconnect \/ UNCHANGED vars
    BY <1>1, <2>1, <2>2 DEF Environment, ChangeFile, RemoveDir, Opening, ArmNotifier, OpenFail,
       OpenRead, Register, HookAndEnrich, OpenPage, Page, Disconnect, closev, vars, GoneInv
  <2>3. CASE Run
    BY <1>1, <2>3 DEF Run, RunReturn, RecvSelf, RecvOverflow, FlushBegin, FlushEnd, ResyncEnd,
       GoneClose, GonePublish, RecvName, FlushRead, ResyncRead, closev, GoneInv
  <2>4. CASE Enrich
    <3>1. UNCHANGED closev
      BY <2>4 DEF Enrich, EnrichStart, EnrichApply, EnrichSkip
    <3> QED
      BY <1>1, <3>1 DEF closev, GoneInv
  <2>5. CASE Closing
    BY <1>1, <2>5 DEF Closing, CtxClose, ServiceClose, Unwatch, CloseBy, CloseFinish, GoneInv
  <2>6. CASE Serving \/ Client
    BY <1>1, <2>6 DEF Serving, Attach, ListLookup, ListPage, Client, RecvPage, Subscribe, AskList,
       RecvEvent, closev, GoneInv
  <2> QED
    BY <2>2, <2>3, <2>4, <2>5, <2>6 DEF Next
<1>2. CASE once # "closed"
  <2>0. Untold
    BY <1>2 DEF GoneInv
  <2>1. ASSUME Untold', once' # "closed" PROVE GoneInv'
    BY <2>1 DEF GoneInv
  <2>2. << >> \in ViewType /\ {} \in SUBSET Names
    BY EmptyIsView
  <2>3. GoneFree(<< >>)
    BY DEF GoneFree
  <2>4. CASE CloseFinish
    BY <2>4 DEF CloseFinish, GoneInv
  <2>5. ASSUME wire' \in {wire, << >>}, pending' = pending, cphase' \in {cphase, "left", "page",
               "live", "lost"}
        PROVE  Untold'
    BY <2>0, <2>3, <2>5 DEF Untold
  <2>6. CASE Environment \/ Opening \/ Closing \/ Disconnect \/ UNCHANGED vars
    <3>1. Untold'
      BY <2>5, <2>6 DEF Environment, ChangeFile, RemoveDir, Opening, ArmNotifier, OpenFail, OpenRead,
         Register, HookAndEnrich, OpenPage, Page, Closing, CtxClose, ServiceClose, Unwatch, CloseBy,
         CloseFinish, Disconnect, watchv, clientv, feed, vars
    <3>2. once' # "closed" \/ CloseFinish
      BY <1>2, <2>6 DEF Environment, ChangeFile, RemoveDir, Opening, ArmNotifier, OpenFail, OpenRead,
         Register, HookAndEnrich, OpenPage, Closing, CtxClose, ServiceClose, Unwatch, CloseBy,
         Disconnect, closev, vars
    <3> QED
      BY <2>1, <2>4, <3>1, <3>2
  <2>7. CASE Run
    <3>1. once' # "closed" /\ cphase' = cphase
      BY <1>2, <2>7 DEF Run, RunReturn, RecvSelf, RecvOverflow, FlushBegin, FlushEnd, ResyncEnd,
         GoneClose, GonePublish, RecvName, FlushRead, ResyncRead, closev, clientv
    <3>2. ~GonePublish
      BY <1>2 DEF GonePublish, ClosedFirst
    <3>3. CASE ResyncEnd
      BY <2>0, <2>1, <2>2, <3>1, <3>3, PublishUntold DEF ResyncEnd
    <3>4. CASE FlushEnd
      <4>1. PICK put \in ViewType, removed \in SUBSET Names : Publish("batch", put, removed)
        BY <3>4, FlushPuts
      <4> QED
        BY <2>0, <2>1, <3>1, <4>1, PublishUntold
    <3>5. CASE ~ResyncEnd /\ ~FlushEnd
      <4>1. UNCHANGED <<wire, pending>>
        BY <2>7, <3>2, <3>5 DEF Run, RunReturn, RecvSelf, RecvOverflow, FlushBegin, GoneClose,
           RecvName, FlushRead, ResyncRead, watchv, feed
      <4> QED
        BY <2>1, <2>5, <3>1, <4>1
    <3> QED
      BY <3>3, <3>4, <3>5
  <2>8. CASE Enrich
    <3>1. once' # "closed" /\ cphase' = cphase
      BY <1>2, <2>8 DEF Enrich, EnrichStart, EnrichApply, EnrichSkip, closev, clientv
    <3>2. CASE UNCHANGED <<wire, pending>>
      BY <2>1, <2>5, <3>1, <3>2
    <3>3. CASE ~UNCHANGED <<wire, pending>>
      <4>1. PICK t \in sniffing : EnrichApply(t)
        BY <2>8, <3>3 DEF Enrich, EnrichStart, EnrichSkip, watchv
      <4>2. PICK put \in ViewType : Publish("batch", put, {})
        BY <3>3, <4>1, ApplyPuts DEF feed
      <4> QED
        BY <2>0, <2>1, <2>2, <3>1, <4>2, PublishUntold
    <3> QED
      BY <3>2, <3>3
  <2>9. CASE Serving
    <3>1. once' # "closed" /\ cphase' = cphase
      BY <1>2, <2>9 DEF Serving, Attach, ListLookup, ListPage, closev
    <3>2. CASE Attach
      <4>1. /\ seq \in Nat /\ pending \in Seq(Event) /\ wire \in Seq(Event)
            /\ cphase # "gone" /\ GoneFree(pending) /\ GoneFree(wire)
        BY <2>0, FeedTypes DEF Untold
      <4> DEFINE ev == Batch("resync", seq + 1, << >>, {})
      <4>2. ev \in Event /\ ev.kind # "gone"
        BY <2>2, <4>1 DEF Batch, Event
      <4>3. pending' = << >> /\ wire' \in {wire, wire \o <<ev>>, wire \o pending}
        BY <3>2 DEF Attach, OnWire, Flushed
      <4> HIDE DEF ev
      <4>4. <<ev>> \in Seq(Event) /\ GoneFree(<<ev>>)
        BY <4>1, <4>2, GoneFreeQueues
      <4>5. GoneFree(wire')
        BY <4>1, <4>2, <4>3, <4>4, GoneFreeQueues
      <4> QED
        BY <2>1, <2>3, <3>1, <4>1, <4>3, <4>5 DEF Untold
    <3>3. CASE ListLookup \/ ListPage
      <4>1. UNCHANGED <<wire, pending>>
        BY <3>3 DEF ListLookup, ListPage, watchv, feed
      <4> QED
        BY <2>1, <2>5, <3>1, <4>1
    <3> QED
      BY <2>9, <3>2, <3>3 DEF Serving
  <2>10. CASE Client
    <3>1. once' # "closed"
      BY <1>2, <2>10 DEF Client, RecvPage, Subscribe, AskList, RecvEvent, closev
    <3>2. CASE RecvPage \/ Subscribe \/ AskList
      <4>1. UNCHANGED <<wire, pending>> /\ cphase' \in {cphase, "page", "live", "lost"}
        BY <3>2 DEF RecvPage, Subscribe, AskList, watchv
      <4> QED
        BY <2>1, <2>5, <3>1, <4>1
    <3>3. CASE RecvEvent
      <4>1. /\ wire # << >> /\ wire' = Tail(wire) /\ pending' = pending
            /\ Head(wire).kind = "gone" \/ cphase' = cphase
        BY <3>3 DEF RecvEvent
      <4>2. wire \in Seq(Event)
        BY FeedTypes
      <4>3. GoneFree(Tail(wire)) /\ Head(wire).kind # "gone"
        BY <2>0, <4>1, <4>2, TailEvents DEF Untold, GoneFree
      <4> QED
        BY <2>0, <2>1, <3>1, <4>1, <4>3 DEF Untold
    <3> QED
      BY <2>10, <3>2, <3>3 DEF Client
  <2> QED
    BY <2>6, <2>7, <2>8, <2>9, <2>10 DEF Next
<1> QED
  BY <1>1, <1>2

\* A client that was told, or is about to be told, that the directory is gone can no
\* longer resolve the watch: publishGone closes the watch "first" (watch.go), whoever
\* else is closing it, and no earlier event can be taken for the last one.
THEOREM GoneUnregistered == Spec => [](ToldGone => ~registered)
<1>1. Init => GoneInv
  <2> SUFFICES ASSUME Init PROVE GoneInv
    OBVIOUS
  <2>1. once = "open" /\ cphase = "opening" /\ pending = << >> /\ wire = << >>
    BY DEF Init
  <2> QED
    BY <2>1 DEF GoneInv, Untold, GoneFree
<1>2. GoneInv => (ToldGone => ~registered)
  BY DEF GoneInv, Untold, GoneFree, ToldGone
<1> QED
  BY <1>1, <1>2, GoneStep, TypeCorrect, LostInvCorrect, PTL DEF Spec
=============================================================================

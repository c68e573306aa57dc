------------------------------- MODULE IpcBus -------------------------------
(***************************************************************************)
(* The event bus and the connections of package ipc.  Each connection has  *)
(* a reader goroutine (Server.handleConnection) that starts one goroutine  *)
(* per request (Server.dispatch); publishers (EventBus.Publish) deliver to *)
(* a snapshot of the subscribers.  All of them write lines to the client   *)
(* through ConnWriter, under its lock and with a write deadline.           *)
(* A section under Subscriber.mu or EventBus.mu is one step: neither lock  *)
(* is held across a blocking call, and bus.mu is never taken under s.mu.   *)
(***************************************************************************)
EXTENDS Naturals, FiniteSets, Sequences

CONSTANTS Conns, Publishers, Topics,
          DefaultTopics, \* Config.DefaultSubscribeTopics
          Pipelined,     \* whether clients send before the last answer came
          SockCap,       \* lines the socket holds for a client that does not read
          Ops,           \* what clients send: "subscribe", "unsubscribe", "bad" lines
          MaxRequests,   \* bound: requests of all clients
          MaxPublishes   \* bound: publishes of a publisher

ASSUME IpcBusAssumption ==
  /\ DefaultTopics \subseteq Topics /\ Pipelined \in BOOLEAN /\ "none" \notin Topics
  /\ Ops \subseteq {"subscribe", "unsubscribe", "bad"}
  /\ SockCap \in Nat \ {0} /\ MaxRequests \in Nat /\ MaxPublishes \in Nat

VARIABLES
  conn,             \* each connection: "none", "open", "hungup" by the client, "closed"
  reader,           \* its goroutine: "none", "reading", "leaving", "gone"
  members, closed,  \* EventBus.subscribers, and the subscribers that are closed
  topics,           \* Subscriber.topics
  request, read,    \* lines each client sent, and how many the reader scanned
  pub, published,   \* each Publish in progress, and the publishes begun
  write, deadline,  \* each goroutine in ConnWriter.write; write deadline set
  wire,             \* lines the client has not read yet
  asked, awaited    \* the client: topics it asked for, answers it waits for

client  == <<asked, awaited>>
bus     == <<members, closed, topics>>
serving == <<reader, request, read>>
pubs    == <<pub, published>>
writing == <<write, deadline, wire>>
vars    == <<conn, bus, serving, pubs, writing, client>>

Bad           == "bad"      \* a line that is not JSON
Request       == [op : Ops, topics : SUBSET Topics, at : {"sent", "started", "applied", "done"}]
Event(p)      == [kind |-> "event", topic |-> pub[p].topic, from |-> p]
Answer(i, ts) == [kind |-> "answer", id |-> i, topics |-> ts]
Torn          == [kind |-> "torn"]
Idle          == [topic |-> "none", todo |-> {}]

Publishing(p) == <<"publisher", p>>
Serving(c, i) == <<"request", c, i>>
Reading(c)    == <<"reader", c>>
Writers == {Publishing(p) : p \in Publishers} \cup {Reading(c) : c \in Conns}
             \cup {Serving(c, i) : c \in Conns, i \in 1..MaxRequests}
NoWrite == [at |-> "none"]

-----------------------------------------------------------------------------
\* ConnWriter.write: goroutine w writes line to connection c.

StartWrite(w, c, line) ==
  write' = [write EXCEPT ![w] = [at |-> "waiting", to |-> c, line |-> line]]

Room(c) == Len(wire[c]) < SockCap

Holding(c) == {w \in Writers : write[w].at \in {"writing", "failed"} /\ write[w].to = c}

NoLock(c) == TRUE
LockFree(c) == Holding(c) = {}

Lock(w) ==
  /\ write[w].at = "waiting" /\ LockFree(write[w].to)
  /\ write' = [write EXCEPT ![w].at = "writing"]
  /\ deadline' = [deadline EXCEPT ![write[w].to] = TRUE]
  /\ UNCHANGED <<conn, bus, serving, pubs, wire, client>>

Written(w) ==
  /\ write[w].at = "writing" /\ conn[write[w].to] = "open" /\ Room(write[w].to)
  /\ wire' = [wire EXCEPT ![write[w].to] = Append(@, write[w].line)]
  /\ write' = [write EXCEPT ![w] = NoWrite]
  /\ deadline' = [deadline EXCEPT ![write[w].to] = FALSE]
  /\ UNCHANGED <<conn, bus, serving, pubs, client>>

\* A full socket and the deadline: part of the line may be out.
NeverTimesOut(c) == FALSE
TimesOut(c) == conn[c] = "open" /\ ~Room(c) /\ deadline[c]

WriteFails(w) ==
  /\ write[w].at = "writing"
  /\ LET c == write[w].to IN
     /\ \/ conn[c] \in {"hungup", "closed"} /\ UNCHANGED wire
        \/ TimesOut(c) /\ UNCHANGED wire
        \/ TimesOut(c) /\ wire' = [wire EXCEPT ![c] = Append(@, Torn)]
     /\ deadline' = [deadline EXCEPT ![c] = FALSE]
  /\ write' = [write EXCEPT ![w].at = "failed"]
  /\ UNCHANGED <<conn, bus, serving, pubs, client>>

\* The caller of write ignores the error.
FailedOpen(w) == write' = [write EXCEPT ![w] = NoWrite] /\ UNCHANGED conn
Disconnect(w) ==
  /\ conn' = [conn EXCEPT ![write[w].to] = IF @ = "open" THEN "closed" ELSE @]
  /\ write' = [write EXCEPT ![w] = NoWrite]

CloseFailed(w) ==
  /\ write[w].at = "failed" /\ Disconnect(w)
  /\ UNCHANGED <<bus, serving, pubs, deadline, wire, client>>

-----------------------------------------------------------------------------
\* handleConnection.

Accept(c) ==
  /\ conn[c] = "none"
  /\ conn' = [conn EXCEPT ![c] = "open"] /\ reader' = [reader EXCEPT ![c] = "reading"]
  /\ members' = members \cup {c}
  /\ UNCHANGED <<closed, topics, request, read, pubs, writing, client>>

\* The scanner may still hold lines when the connection is gone.
Scan(c) ==
  /\ reader[c] = "reading" /\ write[Reading(c)] = NoWrite /\ read[c] < Len(request[c])
  /\ LET i == read[c] + 1 IN
     /\ read' = [read EXCEPT ![c] = i]
     /\ IF request[c][i].op = Bad
        THEN StartWrite(Reading(c), c, Answer(0, {})) /\ UNCHANGED request
        ELSE request' = [request EXCEPT ![c][i].at = "started"] /\ UNCHANGED write
  /\ UNCHANGED <<conn, bus, reader, pubs, deadline, wire, client>>

\* Subscriber.Close, and the other deferred calls.
ScanEnds(c) ==
  /\ reader[c] = "reading" /\ write[Reading(c)] = NoWrite
  /\ \/ conn[c] = "closed"
     \/ conn[c] = "hungup" /\ read[c] = Len(request[c])
  /\ reader' = [reader EXCEPT ![c] = "leaving"] /\ closed' = closed \cup {c}
  /\ UNCHANGED <<conn, members, topics, request, read, pubs, writing, client>>

CloseSilently(c) == UNCHANGED members
LeaveBus(c) == members' = members \ {c}

Closed(c) ==
  /\ reader[c] = "leaving"
  /\ LeaveBus(c)
  /\ reader' = [reader EXCEPT ![c] = "gone"] /\ conn' = [conn EXCEPT ![c] = "closed"]
  /\ UNCHANGED <<closed, topics, request, read, pubs, writing, client>>

-----------------------------------------------------------------------------
\* dispatch, handleSubscribe and handleUnsubscribe.

TopicsAfter(ts, r) ==
  IF r.op = "subscribe" THEN ts \cup (IF r.topics = {} THEN DefaultTopics ELSE r.topics)
                        ELSE ts \ r.topics

Apply(c, i) ==
  /\ request[c][i].at = "started"
  /\ topics' = [topics EXCEPT ![c] = TopicsAfter(@, request[c][i])]
  /\ request' = [request EXCEPT ![c][i].at = "applied"]
  /\ UNCHANGED <<conn, members, closed, reader, read, pubs, writing, client>>

RespondFirst(c, i) ==
  /\ request[c][i].at \in {"started", "applied"} /\ write[Serving(c, i)] = NoWrite
  /\ StartWrite(Serving(c, i), c, Answer(i, topics[c]))
  /\ request' = [request EXCEPT ![c][i].at = IF @ = "applied" THEN "done" ELSE @]
  /\ UNCHANGED <<conn, bus, reader, read, pubs, deadline, wire, client>>
Respond(c, i) ==
  /\ request[c][i].at = "applied"
  /\ StartWrite(Serving(c, i), c, Answer(i, topics[c]))
  /\ request' = [request EXCEPT ![c][i].at = "done"]
  /\ UNCHANGED <<conn, bus, reader, read, pubs, deadline, wire, client>>

-----------------------------------------------------------------------------
\* Publish: the snapshot, deliver for each of it, and the end.

Snapshot(p) ==
  /\ pub[p] = Idle /\ published[p] < MaxPublishes
  /\ \E t \in Topics : pub' = [pub EXCEPT ![p] = [topic |-> t, todo |-> members]]
  /\ published' = [published EXCEPT ![p] = @ + 1]
  /\ UNCHANGED <<conn, bus, serving, writing, client>>

Subscribed(c, t) == c \notin closed /\ t \in topics[c]

RestIfOpen(p, c) == IF c \in closed THEN {} ELSE pub[p].todo \ {c}
Rest(p, c) == pub[p].todo \ {c}

Deliver(p, c) ==
  /\ c \in pub[p].todo /\ write[Publishing(p)] = NoWrite
  /\ pub' = [pub EXCEPT ![p].todo = Rest(p, c)]
  /\ IF Subscribed(c, pub[p].topic)
     THEN StartWrite(Publishing(p), c, Event(p)) ELSE UNCHANGED write
  /\ UNCHANGED <<conn, bus, serving, published, deadline, wire, client>>

PublishEnd(p) ==
  /\ pub[p] # Idle /\ pub[p].todo = {} /\ write[Publishing(p)] = NoWrite
  /\ pub' = [pub EXCEPT ![p] = Idle]
  /\ UNCHANGED <<conn, bus, serving, published, writing, client>>

-----------------------------------------------------------------------------
\* Clients.

Send(c) ==
  /\ conn[c] = "open"
  /\ Cardinality({r \in Conns \X (1..MaxRequests) : r[2] <= Len(request[r[1]])}) < MaxRequests
  /\ Pipelined \/ awaited[c] = {}
  /\ \E op \in Ops, ts \in SUBSET Topics :
       LET r == [op |-> op, topics |-> ts, at |-> "sent"] IN
       /\ op = Bad => ts = {}
       /\ request' = [request EXCEPT ![c] = Append(@, r)]
       /\ awaited' = [awaited EXCEPT ![c] = @ \cup {IF op = Bad THEN 0 ELSE Len(request[c]) + 1}]
       /\ asked' = [asked EXCEPT ![c] = IF op = Bad THEN @ ELSE TopicsAfter(@, r)]
  /\ UNCHANGED <<conn, bus, reader, read, pubs, writing>>

Receive(c) ==
  /\ conn[c] \in {"open", "closed"} /\ wire[c] # << >>
  /\ wire' = [wire EXCEPT ![c] = Tail(@)]
  /\ LET line == Head(wire[c]) IN
     awaited' = [awaited EXCEPT ![c] = IF line.kind = "answer" THEN @ \ {line.id} ELSE @]
  /\ UNCHANGED <<conn, bus, serving, pubs, write, deadline, asked>>

HangUp(c) ==
  /\ conn[c] = "open"
  /\ conn' = [conn EXCEPT ![c] = "hungup"] /\ wire' = [wire EXCEPT ![c] = << >>]
  /\ UNCHANGED <<bus, serving, pubs, write, deadline, client>>

-----------------------------------------------------------------------------
Init ==
  /\ conn = [c \in Conns |-> "none"] /\ reader = [c \in Conns |-> "none"]
  /\ members = {} /\ closed = {} /\ topics = [c \in Conns |-> {}]
  /\ request = [c \in Conns |-> << >>] /\ read = [c \in Conns |-> 0]
  /\ pub = [p \in Publishers |-> Idle] /\ published = [p \in Publishers |-> 0]
  /\ write = [w \in Writers |-> NoWrite] /\ deadline = [c \in Conns |-> FALSE]
  /\ wire = [c \in Conns |-> << >>]
  /\ asked = [c \in Conns |-> {}] /\ awaited = [c \in Conns |-> {}]

WriteStep(w) == Lock(w) \/ Written(w) \/ WriteFails(w) \/ CloseFailed(w)
ReadStep(c) == Scan(c) \/ ScanEnds(c) \/ Closed(c)
Handle(c, i) == i <= Len(request[c]) /\ (Apply(c, i) \/ Respond(c, i))
PublishStep(p) == PublishEnd(p) \/ \E c \in Conns : Deliver(p, c)

Next == \/ \E w \in Writers : WriteStep(w)
        \/ \E c \in Conns : \/ ReadStep(c) \/ \E i \in 1..MaxRequests : Handle(c, i)
                            \/ Accept(c) \/ Send(c) \/ Receive(c) \/ HangUp(c)
        \/ \E p \in Publishers : Snapshot(p) \/ PublishStep(p)

Spec == Init /\ [][Next]_vars

\* Goroutines run and deadlines expire; clients need not read, send or leave.
FairSpec ==
  /\ Spec
  /\ \A w \in Writers : WF_vars(WriteStep(w))
  /\ \A c \in Conns : /\ WF_vars(ReadStep(c))
                      /\ \A i \in 1..MaxRequests : WF_vars(Handle(c, i))
  /\ \A p \in Publishers : WF_vars(PublishStep(p))

-----------------------------------------------------------------------------
Lines == [kind : {"event"}, topic : Topics, from : Publishers]
           \cup [kind : {"answer"}, id : 0..MaxRequests, topics : SUBSET Topics] \cup {Torn}

TypeOK ==
  /\ conn \in [Conns -> {"none", "open", "hungup", "closed"}]
  /\ reader \in [Conns -> {"none", "reading", "leaving", "gone"}]
  /\ members \subseteq Conns /\ closed \subseteq Conns /\ topics \in [Conns -> SUBSET Topics]
  /\ request \in [Conns -> Seq(Request)] /\ read \in [Conns -> 0..MaxRequests]
  /\ pub \in [Publishers -> {Idle} \cup [topic : Topics, todo : SUBSET Conns]]
  /\ published \in [Publishers -> 0..MaxPublishes]
  /\ write \in [Writers -> {NoWrite} \cup
       [at : {"waiting", "writing", "failed"}, to : Conns, line : Lines]]
  /\ deadline \in [Conns -> BOOLEAN]
  /\ wire \in [Conns -> Seq(Lines)] /\ \A c \in Conns : Len(wire[c]) <= SockCap + 1
  /\ members = {c \in Conns : reader[c] \in {"reading", "leaving"}}
  /\ asked \in [Conns -> SUBSET Topics]
  /\ awaited \in [Conns -> SUBSET (0..MaxRequests)]

\* A line cut short by the write deadline is the last one its client gets:
\* the writer disconnects before the lock lets another goroutine write, so no
\* client ever parses the tail of one line joined to the head of the next.
TornLast ==
  \A c \in Conns : \A i \in 1..Len(wire[c]) : wire[c][i] = Torn => i = Len(wire[c])

\* A client that waits for each answer and has them all has the topics it
\* asked for, although every request runs in a goroutine of its own.
Settled ==
  \A c \in Conns : ~Pipelined /\ conn[c] = "open" /\ awaited[c] = {} => topics[c] = asked[c]

\* "A client that has not drained its socket for this long is dead; disconnect
\* it rather than let it block publishers": every Publish ends, whatever its
\* clients read, send or close.
PublishReturns == \A p \in Publishers : pub[p] # Idle ~> pub[p] = Idle

\* A connection that is hung up, or closed after a failed write, leaves the
\* bus, also when its reader is itself waiting to write.
LeavesBus == \A c \in Conns : conn[c] \in {"hungup", "closed"} ~> c \notin members
=============================================================================

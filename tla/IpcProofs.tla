------------------------------ MODULE IpcProofs ------------------------------
(***************************************************************************)
(* Proofs about IpcBus and IpcDelivery, for any connections, publishers,   *)
(* topics and bounds.  BusInv adds to the type invariant what ConnWriter's *)
(* lock protects (one holder a connection, a torn line only at the end of  *)
(* a wire nobody can write to) and how far each goroutine can be; AskInv   *)
(* follows a request that is waited for, from its line to its answer; and  *)
(* DeliverRule says where the event of a running Publish still is.         *)
(***************************************************************************)
EXTENDS IpcDelivery, FiniteSetTheorems, TLAPS

Sent == {r \in Conns \X (1..MaxRequests) : r[2] <= Len(request[r[1]])}
Counted == IsFiniteSet(Sent) /\ \A c \in Conns : Len(request[c]) <= MaxRequests

Holds(w) == write[w].at \in {"writing", "failed"}
LockRule ==
  \A v, w \in Writers : Holds(v) /\ Holds(w) /\ write[v].to = write[w].to => v = w

LineRule == \A w \in Writers : write[w] # NoWrite => write[w].line # Torn

Cut(c) == \E w \in Writers : write[w].at = "failed" /\ write[w].to = c
TornRule ==
  \A c \in Conns : \A i \in 1..Len(wire[c]) :
    wire[c][i] = Torn => i = Len(wire[c]) /\ (conn[c] # "open" \/ Cut(c))
RoomRule == \A c \in Conns : Len(wire[c]) > SockCap => wire[c][Len(wire[c])] = Torn

StartRule ==
  /\ \A c \in Conns : conn[c] = "none" => wire[c] = << >>
  /\ \A w \in Writers : write[w].at = "failed" => conn[write[w].to] # "none"
LeaveRule ==
  /\ \A c \in Conns : reader[c] \in {"leaving", "gone"} => c \in closed
  /\ \A p \in Publishers : pub[p].todo \subseteq members \cup closed
  /\ \A p \in Publishers : pub[p] = Idle => write[Publishing(p)] = NoWrite

ServeRule ==
  \A c \in Conns :
    /\ \A i \in 1..Len(request[c]) : i > read[c] => request[c][i].at = "sent"
    /\ \A i \in 1..MaxRequests :
         write[Serving(c, i)] # NoWrite => i <= Len(request[c]) /\ request[c][i].at = "done"

HeldInv == LockRule /\ LineRule /\ TornRule /\ RoomRule
BusInv  == TypeOK /\ Counted /\ HeldInv /\ StartRule /\ LeaveRule /\ ServeRule

-----------------------------------------------------------------------------
\* A client that waits for each answer: its last request, where it is, and
\* the one answer that may be under way.

Final(c) == request[c][Len(request[c])]
Waiting(c) == /\ Len(request[c]) > 0 /\ Final(c).op # Bad
              /\ Final(c).at \in {"sent", "started"}
Expected(c) == IF Final(c).op = Bad THEN 0 ELSE Len(request[c])
Answered(c) == /\ read[c] = Len(request[c])
               /\ Len(request[c]) > 0 => Final(c).op = Bad \/ Final(c).at = "done"

IsAnswer(l) == l.kind = "answer"
Answering(w, c) == write[w] # NoWrite /\ write[w].to = c /\ IsAnswer(write[w].line)
Right(c, l) == Answered(c) /\ awaited[c] = {l.id}

StageRule(c) ==
  /\ read[c] <= Len(request[c]) /\ Len(request[c]) <= read[c] + 1
  /\ \A i \in 1..Len(request[c]) :
       /\ request[c][i].at # "sent" => i <= read[c] /\ request[c][i].op # Bad
       /\ i < Len(request[c]) => request[c][i].op = Bad \/ request[c][i].at = "done"
       /\ i <= read[c] => request[c][i].op = Bad \/ request[c][i].at # "sent"

AskedRule(c) ==
  /\ Waiting(c) => asked[c] = TopicsAfter(topics[c], Final(c))
  /\ ~Waiting(c) => asked[c] = topics[c]

AwaitRule(c) ==
  /\ awaited[c] = {} => Answered(c)
  /\ awaited[c] # {} => Len(request[c]) > 0 /\ awaited[c] = {Expected(c)}

OneAnswer(c) ==
  /\ \A w \in Writers : Answering(w, c) => Right(c, write[w].line)
  /\ \A i \in 1..Len(wire[c]) : IsAnswer(wire[c][i]) => Right(c, wire[c][i])
  /\ \A v, w \in Writers : Answering(v, c) /\ Answering(w, c) => v = w
  /\ \A i, j \in 1..Len(wire[c]) : IsAnswer(wire[c][i]) /\ IsAnswer(wire[c][j]) => i = j
  /\ \A w \in Writers, i \in 1..Len(wire[c]) : ~(Answering(w, c) /\ IsAnswer(wire[c][i]))

Asking(c) == StageRule(c) /\ AskedRule(c) /\ AwaitRule(c) /\ OneAnswer(c)
AskInv == ~Pipelined => \A c \in Conns : Asking(c)

-----------------------------------------------------------------------------
\* A running Publish: whoever takes it throughout is still to be served, being
\* written to, reached or lost.

Lost(c) == conn[c] \in {"hungup", "closed"}
To(p, c) == write[Publishing(p)] # NoWrite /\ write[Publishing(p)].to = c

DeliverRule(p) ==
  /\ throughout[p] \subseteq Takers(p)
  /\ pub[p] # Idle => \A c \in throughout[p] :
       c \in pub[p].todo \/ To(p, c) \/ c \in reached[p] \/ Lost(c)
  /\ \A c \in Conns : To(p, c) => c \in sometime[p]
  /\ reached[p] \subseteq sometime[p]

HInv == BusInv /\ \A p \in Publishers : DeliverRule(p)

-----------------------------------------------------------------------------
\* What the actions do to write, request and wire.

WriteType == [Writers -> {NoWrite} \cup
                [at : {"waiting", "writing", "failed"}, to : Conns, line : Lines]]

\* The goroutines that write are all different.
LEMMA WritersDiffer ==
  /\ \A p \in Publishers : Publishing(p) \in Writers
  /\ \A c \in Conns : Reading(c) \in Writers
  /\ \A c \in Conns, i \in 1..MaxRequests : Serving(c, i) \in Writers
  /\ \A p, q \in Publishers : Publishing(p) = Publishing(q) => p = q
  /\ \A p \in Publishers, c \in Conns : Publishing(p) # Reading(c)
  /\ \A p \in Publishers, c \in Conns, i \in 1..MaxRequests : Publishing(p) # Serving(c, i)
BY DEF Writers, Publishing, Reading, Serving

\* A goroutine that writes has a connection and a line.
LEMMA WriterHas ==
  ASSUME TypeOK, NEW w \in Writers, write[w].at # "none"
  PROVE  /\ write[w].at \in {"waiting", "writing", "failed"} /\ write[w] # NoWrite
         /\ write[w].to \in Conns /\ write[w].line \in Lines
BY DEF TypeOK, NoWrite

LEMMA WriterNone ==
  ASSUME TypeOK, NEW w \in Writers
  PROVE  write[w].at = "none" <=> write[w] = NoWrite
<1>1. CASE write[w] = NoWrite
  BY <1>1 DEF NoWrite
<1>2. CASE write[w] \in [at : {"waiting", "writing", "failed"}, to : Conns, line : Lines]
  BY <1>2 DEF NoWrite
<1> QED BY <1>1, <1>2 DEF TypeOK

LEMMA Begun ==
  ASSUME TypeOK, NEW w \in Writers, NEW c \in Conns, NEW l \in Lines, StartWrite(w, c, l)
  PROVE  /\ write' \in WriteType
         /\ write'[w].at = "waiting" /\ write'[w].to = c /\ write'[w].line = l
         /\ write'[w] # NoWrite
         /\ \A u \in Writers : u # w => write'[u] = write[u]
BY DEF TypeOK, WriteType, StartWrite, NoWrite

LEMMA Moved ==
  ASSUME TypeOK, NEW w \in Writers, write[w].at # "none", NEW s \in {"writing", "failed"},
         write' = [write EXCEPT ![w].at = s]
  PROVE  /\ write' \in WriteType
         /\ write'[w].at = s /\ write'[w].to = write[w].to /\ write'[w].line = write[w].line
         /\ write'[w] # NoWrite
         /\ \A u \in Writers : u # w => write'[u] = write[u]
<1> DEFINE Record == [at : {"waiting", "writing", "failed"}, to : Conns, line : Lines]
<1>1. write[w] \in Record
  BY WriterNone DEF TypeOK
<1>2. [write[w] EXCEPT !.at = s] \in Record
  BY <1>1
<1>3. write' = [write EXCEPT ![w] = [write[w] EXCEPT !.at = s]]
  BY DEF TypeOK
<1>4. write' \in WriteType
  BY <1>2, <1>3 DEF TypeOK, WriteType
<1>5. write'[w] = [write[w] EXCEPT !.at = s] /\ \A u \in Writers : u # w => write'[u] = write[u]
  BY <1>3 DEF TypeOK
<1>6. write'[w].at = s /\ write'[w].to = write[w].to /\ write'[w].line = write[w].line
  BY <1>1, <1>5
<1>7. write'[w] # NoWrite
  BY <1>6 DEF NoWrite
<1> QED BY <1>4, <1>5, <1>6, <1>7

LEMMA Ended ==
  ASSUME TypeOK, NEW w \in Writers, write' = [write EXCEPT ![w] = NoWrite]
  PROVE  /\ write' \in WriteType
         /\ write'[w] = NoWrite /\ write'[w].at = "none"
         /\ \A u \in Writers : u # w => write'[u] = write[u]
BY DEF TypeOK, WriteType, NoWrite

LEMMA Staged ==
  ASSUME TypeOK, NEW c \in Conns, NEW i \in 1..Len(request[c]),
         NEW s \in {"sent", "started", "applied", "done"},
         request' = [request EXCEPT ![c][i].at = s]
  PROVE  /\ request' \in [Conns -> Seq(Request)]
         /\ \A d \in Conns : Len(request'[d]) = Len(request[d])
         /\ \A d \in Conns : d # c => request'[d] = request[d]
         /\ \A j \in 1..Len(request[c]) : j # i => request'[c][j] = request[c][j]
         /\ request'[c][i] = [request[c][i] EXCEPT !.at = s]
         /\ request'[c][i].op = request[c][i].op /\ request'[c][i].at = s
         /\ request'[c][i].topics = request[c][i].topics
<1>1. request[c] \in Seq(Request) /\ request[c][i] \in Request
  BY DEF TypeOK
<1>2. [request[c][i] EXCEPT !.at = s] \in Request
  BY <1>1 DEF Request
<1> DEFINE new == [request[c] EXCEPT ![i] = [request[c][i] EXCEPT !.at = s]]
<1>3. request' = [request EXCEPT ![c] = new]
  BY <1>1 DEF TypeOK
<1>4. /\ new \in Seq(Request) /\ Len(new) = Len(request[c])
      /\ new[i] = [request[c][i] EXCEPT !.at = s]
      /\ \A j \in 1..Len(request[c]) : j # i => new[j] = request[c][j]
  <2>1. PICK n \in Nat : request[c] \in [1..n -> Request]
    BY <1>1
  <2>2. n = Len(request[c])
    BY <2>1
  <2>3. new \in [1..n -> Request]
    BY <1>2, <2>1
  <2>4. \A q \in [1..n -> Request] : q \in Seq(Request) /\ Len(q) = n
    OBVIOUS
  <2>5. /\ new[i] = [request[c][i] EXCEPT !.at = s]
        /\ \A j \in 1..Len(request[c]) : j # i => new[j] = request[c][j]
    BY <2>1, <2>2
  <2>6. new \in Seq(Request) /\ Len(new) = n
    BY <2>3, <2>4
  <2> HIDE DEF new
  <2> QED BY <2>2, <2>5, <2>6
<1>5. request' \in [Conns -> Seq(Request)] /\ request'[c] = new
      /\ \A d \in Conns : d # c => request'[d] = request[d]
  <2> HIDE DEF new
  <2> QED BY <1>3, <1>4 DEF TypeOK
<1>6. /\ \A d \in Conns : Len(request'[d]) = Len(request[d])
      /\ \A j \in 1..Len(request[c]) : j # i => request'[c][j] = request[c][j]
      /\ request'[c][i] = [request[c][i] EXCEPT !.at = s]
  <2> HIDE DEF new
  <2> QED BY <1>4, <1>5
<1>7. /\ request'[c][i].op = request[c][i].op /\ request'[c][i].at = s
      /\ request'[c][i].topics = request[c][i].topics
  BY <1>1, <1>6 DEF Request
<1> HIDE DEF new
<1> QED BY <1>5, <1>6, <1>7

\* Requests are counted: MaxRequests bounds all of them, so each queue of them too.
LEMMA SentSame ==
  ASSUME Counted, \A c \in Conns : Len(request'[c]) = Len(request[c])
  PROVE  Counted'
<1>1. Sent' = Sent
  BY DEF Sent
<1> QED BY <1>1 DEF Counted

LEMMA SentLess ==
  ASSUME TypeOK, Counted, NEW c \in Conns, Cardinality(Sent) < MaxRequests
  PROVE  Len(request[c]) + 1 \in 1..MaxRequests
<1> DEFINE mine == {c} \X (1..MaxRequests)
           f == [i \in 1..MaxRequests |-> <<c, i>>]
<1>0. MaxRequests \in Nat /\ Len(request[c]) \in Nat
  BY IpcBusAssumption DEF TypeOK
<1>1. CASE Len(request[c]) >= MaxRequests
  <2>1. mine \in SUBSET Sent
    BY <1>0, <1>1 DEF Sent
  <2>2. IsFiniteSet(mine) /\ Cardinality(mine) <= Cardinality(Sent)
    BY <2>1, FS_Subset DEF Counted
  <2>3. f \in Injection(1..MaxRequests, mine)
    BY DEF Injection, IsInjective
  <2>4. Cardinality(1..MaxRequests) <= Cardinality(mine)
    BY <2>2, <2>3, FS_Injection
  <2>5. Cardinality(1..MaxRequests) = MaxRequests
    BY <1>0, FS_Interval
  <2>6. Cardinality(mine) \in Nat /\ Cardinality(Sent) \in Nat
    BY <2>2, FS_CardinalityType DEF Counted
  <2> QED BY <1>0, <2>2, <2>4, <2>5, <2>6
<1> QED BY <1>0, <1>1

LEMMA SentMore ==
  ASSUME TypeOK, Counted, NEW c \in Conns, NEW r \in Request, Cardinality(Sent) < MaxRequests,
         request' = [request EXCEPT ![c] = Append(@, r)]
  PROVE  Counted'
<1> DEFINE n == Len(request[c]) + 1
<1>1. n \in 1..MaxRequests
  BY SentLess
<1>2. /\ \A d \in Conns : d # c => request'[d] = request[d]
      /\ Len(request'[c]) = n /\ n \in Nat /\ Len(request[c]) = n - 1
  BY DEF TypeOK
<1>3. Sent' = Sent \cup {<<c, n>>}
  BY <1>1, <1>2 DEF Sent
<1>4. IsFiniteSet(Sent')
  BY <1>3, FS_AddElement DEF Counted
<1>5. \A d \in Conns : Len(request'[d]) <= MaxRequests
  BY <1>1, <1>2 DEF Counted
<1> QED BY <1>4, <1>5 DEF Counted

-----------------------------------------------------------------------------
\* BusInv, one lemma per action.

LEMMA HeldSame == HeldInv /\ UNCHANGED <<conn, write, wire>> => HeldInv'
BY DEF HeldInv, LockRule, LineRule, TornRule, RoomRule, Holds, Cut

LEMMA HeldBegun ==
  ASSUME TypeOK, HeldInv, NEW w \in Writers, NEW c \in Conns, NEW l \in Lines, l # Torn,
         write[w] = NoWrite, StartWrite(w, c, l), UNCHANGED <<conn, wire>>
  PROVE  HeldInv'
<1>1. /\ write'[w].at = "waiting" /\ write'[w].line = l
      /\ \A u \in Writers : u # w => write'[u] = write[u]
  BY Begun
<1>2. write[w].at = "none"
  BY DEF NoWrite
<1>3. \A u \in Writers : Holds(u)' => u # w
  BY <1>1 DEF Holds
<1>4. LockRule'
  BY <1>1, <1>3 DEF HeldInv, LockRule, Holds
<1>5. LineRule'
  BY <1>1 DEF HeldInv, LineRule
<1>6. \A d \in Conns : Cut(d) => Cut(d)'
  BY <1>1, <1>2 DEF Cut
<1>7. TornRule'
  BY <1>6 DEF HeldInv, TornRule
<1>8. RoomRule'
  BY DEF HeldInv, RoomRule
<1> QED BY <1>4, <1>5, <1>7, <1>8 DEF HeldInv

\* A connection whose lock is held by a writer is not cut, and if it is open
\* its wire holds whole lines only.
LEMMA HolderSees ==
  ASSUME TypeOK, HeldInv, NEW w \in Writers, write[w].at = "writing", conn[write[w].to] = "open"
  PROVE  /\ \A i \in 1..Len(wire[write[w].to]) : wire[write[w].to][i] # Torn
         /\ Len(wire[write[w].to]) <= SockCap
<1>1. write[w].to \in Conns
  BY WriterHas
<1>2. ~Cut(write[w].to)
  BY DEF HeldInv, LockRule, Cut, Holds
<1>3. \A i \in 1..Len(wire[write[w].to]) : wire[write[w].to][i] # Torn
  BY <1>1, <1>2 DEF HeldInv, TornRule
<1>4. Len(wire[write[w].to]) \in Nat /\ SockCap \in Nat
  BY <1>1, IpcBusAssumption DEF TypeOK
<1>5. Len(wire[write[w].to]) <= SockCap
  BY <1>1, <1>3, <1>4 DEF HeldInv, RoomRule
<1> QED BY <1>3, <1>5

LEMMA LockStep == ASSUME BusInv, NEW w \in Writers, Lock(w) PROVE BusInv'
<1> USE DEF BusInv
<1>0. write[w].at = "waiting" /\ write[w].at # "none"
  BY DEF Lock
<1>1. /\ write' \in WriteType /\ write'[w].at = "writing" /\ write'[w].to = write[w].to
      /\ write'[w].line = write[w].line /\ write[w] # NoWrite /\ write'[w] # NoWrite
      /\ \A u \in Writers : u # w => write'[u] = write[u]
  BY <1>0, Moved, WriterHas DEF Lock
<1>2. TypeOK'
  BY <1>1 DEF Lock, TypeOK, WriteType, bus, serving, pubs, client
<1>3. \A u \in Writers : u # w => ~(Holds(u) /\ write[u].to = write[w].to)
  BY DEF Lock, LockFree, Holding, Holds
<1>4. LockRule'
  BY <1>1, <1>3 DEF HeldInv, LockRule, Holds
<1>5. LineRule'
  BY <1>1 DEF HeldInv, LineRule
<1>6. \A d \in Conns : Cut(d) => Cut(d)'
  BY <1>0, <1>1 DEF Cut
<1>7. TornRule' /\ RoomRule'
  BY <1>6 DEF HeldInv, TornRule, RoomRule, Lock
<1>8. StartRule'
  BY <1>1 DEF StartRule, Lock
<1>9. LeaveRule'
  BY <1>1, WritersDiffer DEF LeaveRule, Lock, serving, bus, pubs
<1>10. ServeRule'
  BY <1>1, WritersDiffer DEF ServeRule, Lock, serving
<1>11. Counted'
  BY DEF Counted, Sent, Lock, serving
<1> QED BY <1>2, <1>4, <1>5, <1>7, <1>8, <1>9, <1>10, <1>11 DEF HeldInv

\* A line goes out.
LEMMA Appended ==
  ASSUME TypeOK, NEW c \in Conns, NEW l \in Lines, wire' = [wire EXCEPT ![c] = Append(@, l)]
  PROVE  /\ wire' \in [Conns -> Seq(Lines)] /\ \A d \in Conns : d # c => wire'[d] = wire[d]
         /\ Len(wire[c]) \in Nat /\ Len(wire'[c]) = Len(wire[c]) + 1
         /\ wire'[c][Len(wire'[c])] = l
         /\ \A i \in 1..Len(wire'[c]) : i \in 1..Len(wire[c]) \/ i = Len(wire'[c])
         /\ \A i \in 1..Len(wire[c]) : i # Len(wire'[c]) /\ wire'[c][i] = wire[c][i]
<1>1. wire[c] \in Seq(Lines)
  BY DEF TypeOK
<1>2. wire'[c] = Append(wire[c], l) /\ wire' \in [Conns -> Seq(Lines)]
  BY <1>1 DEF TypeOK
<1>3. Len(wire'[c]) = Len(wire[c]) + 1 /\ wire'[c][Len(wire[c]) + 1] = l
  BY <1>1, <1>2
<1>4. \A i \in 1..Len(wire[c]) : wire'[c][i] = wire[c][i]
  BY <1>1, <1>2
<1>5. Len(wire[c]) \in Nat
  BY <1>1
<1>6. \A d \in Conns : d # c => wire'[d] = wire[d]
  BY DEF TypeOK
<1> QED BY <1>2, <1>3, <1>4, <1>5, <1>6

LEMMA WrittenStep == ASSUME BusInv, NEW w \in Writers, Written(w) PROVE BusInv'
<1> USE DEF BusInv
<1> DEFINE c == write[w].to
           l == write[w].line
<1>0. write[w].at = "writing" /\ write[w].at # "none"
  BY DEF Written
<1>1. /\ write' \in WriteType /\ write'[w] = NoWrite /\ write'[w].at = "none"
      /\ \A u \in Writers : u # w => write'[u] = write[u]
  BY Ended DEF Written
<1>2. /\ c \in Conns /\ l \in Lines /\ l # Torn /\ conn[c] = "open"
      /\ SockCap \in Nat /\ Len(wire[c]) < SockCap /\ conn' = conn
      /\ wire' = [wire EXCEPT ![c] = Append(@, l)]
  BY <1>0, WriterHas, IpcBusAssumption DEF Written, Room, HeldInv, LineRule
<1>3. \A i \in 1..Len(wire[c]) : wire[c][i] # Torn
  BY <1>0, <1>2, HolderSees
<1>4. LockRule' /\ LineRule'
  BY <1>1 DEF HeldInv, LockRule, LineRule, Holds
<1>5. \A d \in Conns : Cut(d) => Cut(d)'
  BY <1>0, <1>1 DEF Cut
<1> HIDE DEF c, l
<1>6. /\ wire' \in [Conns -> Seq(Lines)] /\ \A d \in Conns : d # c => wire'[d] = wire[d]
      /\ Len(wire[c]) \in Nat /\ Len(wire'[c]) = Len(wire[c]) + 1
      /\ wire'[c][Len(wire'[c])] = l
      /\ \A i \in 1..Len(wire'[c]) : i \in 1..Len(wire[c]) \/ i = Len(wire'[c])
      /\ \A i \in 1..Len(wire[c]) : i # Len(wire'[c]) /\ wire'[c][i] = wire[c][i]
  BY <1>2, Appended
<1>7. \A d \in Conns : Len(wire'[d]) <= SockCap + 1
  BY <1>2, <1>6 DEF TypeOK
<1>8. TypeOK'
  BY <1>1, <1>6, <1>7 DEF Written, TypeOK, WriteType, bus, serving, pubs, client
<1>9. TornRule'
  <2>1. \A i \in 1..Len(wire'[c]) : wire'[c][i] # Torn
    BY <1>2, <1>3, <1>6
  <2> QED BY <1>2, <1>5, <1>6, <2>1 DEF HeldInv, TornRule
<1>10. RoomRule'
  BY <1>2, <1>6 DEF HeldInv, RoomRule
<1>11. StartRule'
  BY <1>1, <1>2, <1>6 DEF StartRule
<1>12. LeaveRule'
  BY <1>1, WritersDiffer DEF LeaveRule, Written, serving, bus, pubs
<1>13. ServeRule'
  BY <1>1, WritersDiffer DEF ServeRule, Written, serving
<1>14. Counted'
  BY DEF Counted, Sent, Written, serving
<1> QED BY <1>4, <1>8, <1>9, <1>10, <1>11, <1>12, <1>13, <1>14 DEF HeldInv

LEMMA WriteFailsStep == ASSUME BusInv, NEW w \in Writers, WriteFails(w) PROVE BusInv'
<1> USE DEF BusInv
<1> DEFINE c == write[w].to
<1>0. write[w].at = "writing" /\ write[w].at # "none"
  BY DEF WriteFails
<1>1. /\ write' \in WriteType /\ write'[w].at = "failed" /\ write'[w].to = write[w].to
      /\ write'[w].line = write[w].line /\ write[w] # NoWrite /\ write'[w] # NoWrite
      /\ \A u \in Writers : u # w => write'[u] = write[u]
  BY <1>0, Moved, WriterHas DEF WriteFails
<1>2. c \in Conns /\ SockCap \in Nat /\ conn' = conn /\ conn[c] # "none"
  BY <1>0, WriterHas, IpcBusAssumption DEF WriteFails, TimesOut
<1>3. \/ UNCHANGED wire
      \/ conn[c] = "open" /\ ~Room(c) /\ wire' = [wire EXCEPT ![c] = Append(@, Torn)]
  BY DEF WriteFails, TimesOut
<1>4. LockRule' /\ LineRule'
  BY <1>0, <1>1 DEF HeldInv, LockRule, LineRule, Holds
<1>5. \A d \in Conns : Cut(d) => Cut(d)'
  BY <1>0, <1>1 DEF Cut
<1>6. StartRule' /\ LeaveRule' /\ ServeRule' /\ Counted'
  <2>1. \A d \in Conns : conn[d] = "none" => wire'[d] = wire[d]
    BY <1>2, <1>3 DEF TypeOK
  <2>2. StartRule'
    BY <1>1, <1>2, <2>1 DEF StartRule
  <2>3. LeaveRule'
    BY <1>1, WritersDiffer DEF LeaveRule, WriteFails, serving, bus, pubs
  <2>4. ServeRule'
    BY <1>1, WritersDiffer DEF ServeRule, WriteFails, serving
  <2> QED BY <2>2, <2>3, <2>4 DEF Counted, Sent, WriteFails, serving
<1>7. deadline' \in [Conns -> BOOLEAN]
  BY DEF WriteFails, TypeOK
<1>8. CASE UNCHANGED wire
  <2>1. TypeOK'
    BY <1>1, <1>7, <1>8 DEF WriteFails, TypeOK, WriteType, bus, serving, pubs, client
  <2>2. TornRule' /\ RoomRule'
    BY <1>2, <1>5, <1>8 DEF HeldInv, TornRule, RoomRule
  <2> QED BY <1>4, <1>6, <2>1, <2>2 DEF HeldInv
<1>9. CASE conn[c] = "open" /\ ~Room(c) /\ wire' = [wire EXCEPT ![c] = Append(@, Torn)]
  <2>1. (\A i \in 1..Len(wire[c]) : wire[c][i] # Torn) /\ Len(wire[c]) <= SockCap
    BY <1>0, <1>9, HolderSees
  <2>2. \A d \in Conns : d = c => Cut(d)'
    BY <1>1 DEF Cut
  <2> HIDE DEF c
  <2>3. /\ wire' \in [Conns -> Seq(Lines)] /\ \A d \in Conns : d # c => wire'[d] = wire[d]
        /\ Len(wire[c]) \in Nat /\ Len(wire'[c]) = Len(wire[c]) + 1
        /\ wire'[c][Len(wire'[c])] = Torn
        /\ \A i \in 1..Len(wire'[c]) : i \in 1..Len(wire[c]) \/ i = Len(wire'[c])
        /\ \A i \in 1..Len(wire[c]) : i # Len(wire'[c]) /\ wire'[c][i] = wire[c][i]
    <3>1. Torn \in Lines
      BY DEF Lines
    <3> QED BY <1>2, <1>9, <3>1, Appended
  <2>4. \A d \in Conns : Len(wire'[d]) <= SockCap + 1
    <3>1. Len(wire'[c]) <= SockCap + 1
      BY <1>2, <2>1, <2>3
    <3>2. \A d \in Conns : d # c => Len(wire'[d]) <= SockCap + 1
      BY <2>3 DEF TypeOK
    <3> QED BY <3>1, <3>2
  <2>5. TypeOK'
    BY <1>1, <1>7, <2>3, <2>4 DEF WriteFails, TypeOK, WriteType, bus, serving, pubs, client
  <2>6. TornRule'
    <3>1. \A i \in 1..Len(wire'[c]) : wire'[c][i] = Torn => i = Len(wire'[c])
      BY <2>1, <2>3
    <3>2. \A d \in Conns : d # c => \A i \in 1..Len(wire'[d]) :
            wire'[d][i] = Torn => i = Len(wire'[d]) /\ (conn'[d] # "open" \/ Cut(d)')
      BY <1>2, <1>5, <2>3 DEF HeldInv, TornRule
    <3> QED BY <2>2, <3>1, <3>2 DEF TornRule
  <2>7. RoomRule'
    BY <1>2, <2>3 DEF HeldInv, RoomRule
  <2> QED BY <1>4, <1>6, <2>5, <2>6, <2>7 DEF HeldInv
<1> QED BY <1>3, <1>8, <1>9

LEMMA CloseFailedStep == ASSUME BusInv, NEW w \in Writers, CloseFailed(w) PROVE BusInv'
<1> USE DEF BusInv
<1>0. write[w].at = "failed" /\ write[w].at # "none" /\ write[w] # NoWrite
  BY DEF CloseFailed, NoWrite
<1>1. /\ write' \in WriteType /\ write'[w] = NoWrite /\ write'[w].at = "none"
      /\ \A u \in Writers : u # w => write'[u] = write[u]
  BY Ended DEF CloseFailed, Disconnect
<1>2. /\ conn' \in [Conns -> {"none", "open", "hungup", "closed"}]
      /\ \A d \in Conns : /\ conn'[d] = "open" => conn[d] = "open" /\ d # write[w].to
                          /\ conn'[d] = "none" <=> conn[d] = "none"
  BY <1>0, WriterHas DEF CloseFailed, Disconnect, TypeOK
<1>3. TypeOK'
  BY <1>1, <1>2 DEF CloseFailed, TypeOK, WriteType, bus, serving, pubs, client
<1>4. LockRule' /\ LineRule'
  BY <1>1 DEF HeldInv, LockRule, LineRule, Holds
<1>5. \A d \in Conns : Cut(d) /\ d # write[w].to => Cut(d)'
  BY <1>1 DEF Cut
<1>6. TornRule' /\ RoomRule'
  BY <1>2, <1>5 DEF HeldInv, TornRule, RoomRule, CloseFailed
<1>7. StartRule'
  BY <1>1, <1>2, WriterHas DEF StartRule, CloseFailed
<1>8. LeaveRule' /\ ServeRule'
  BY <1>1, WritersDiffer DEF LeaveRule, ServeRule, CloseFailed, serving, bus, pubs
<1>9. Counted'
  BY DEF Counted, Sent, CloseFailed, serving
<1> QED BY <1>3, <1>4, <1>6, <1>7, <1>8, <1>9 DEF HeldInv

LEMMA AcceptStep == ASSUME BusInv, NEW c \in Conns, Accept(c) PROVE BusInv'
<1> USE DEF BusInv
<1>1. UNCHANGED <<write, wire, request, read, closed>>
  BY DEF Accept, writing
<1>2. TypeOK'
  BY DEF Accept, TypeOK, pubs, writing, client
<1>3. HeldInv'
  <2>1. wire[c] = << >>
    BY DEF Accept, StartRule
  <2>2. \A d \in Conns : d # c => conn'[d] = conn[d]
    BY DEF Accept, TypeOK
  <2>3. TornRule'
    BY <1>1, <2>1, <2>2 DEF HeldInv, TornRule, Cut
  <2> QED BY <1>1, <2>3 DEF HeldInv, LockRule, LineRule, RoomRule, Holds
<1>4. StartRule'
  BY <1>1 DEF Accept, StartRule, TypeOK
<1>5. LeaveRule'
  BY <1>1 DEF Accept, LeaveRule, TypeOK, pubs
<1>6. ServeRule' /\ Counted'
  BY <1>1 DEF ServeRule, Counted, Sent
<1> QED BY <1>2, <1>3, <1>4, <1>5, <1>6

LEMMA ScanStep == ASSUME BusInv, NEW c \in Conns, Scan(c) PROVE BusInv'
<1> USE DEF BusInv
<1> DEFINE i == read[c] + 1
<1>1. i \in 1..Len(request[c]) /\ i \in 1..MaxRequests /\ read' = [read EXCEPT ![c] = i]
  BY IpcBusAssumption DEF Scan, TypeOK, Counted
<1>2. UNCHANGED <<conn, bus, reader, pubs, deadline, wire, client>>
  BY DEF Scan
<1>3. read' \in [Conns -> 0..MaxRequests]
  BY <1>1 DEF TypeOK
<1>4. \A d \in Conns : \A j \in 1..Len(request[d]) : j > read'[d] => j > read[d] /\ ~(d = c /\ j = i)
  BY <1>1 DEF TypeOK
<1>5. CASE request[c][i].op = Bad
  <2>1. StartWrite(Reading(c), c, Answer(0, {})) /\ request' = request /\ write[Reading(c)] = NoWrite
    BY <1>5 DEF Scan
  <2>2. Answer(0, {}) \in Lines /\ Answer(0, {}) # Torn
    BY IpcBusAssumption DEF Answer, Lines, Torn
  <2>3. /\ write' \in WriteType
        /\ \A u \in Writers : u # Reading(c) => write'[u] = write[u]
    BY <2>1, <2>2, Begun, WritersDiffer
  <2>4. TypeOK'
    BY <1>2, <1>3, <2>1, <2>3 DEF TypeOK, WriteType, bus, pubs, client
  <2>5. HeldInv'
    BY <1>2, <2>1, <2>2, HeldBegun, WritersDiffer
  <2>6. StartRule'
    BY <1>2, <2>1, <2>2, <2>3, Begun, WritersDiffer DEF StartRule
  <2>7. \A p \in Publishers : write'[Publishing(p)] = write[Publishing(p)]
    BY <2>3, WritersDiffer
  <2>8. \A d \in Conns, j \in 1..MaxRequests : Serving(d, j) # Reading(c)
    BY DEF Serving, Reading
  <2>9. \A d \in Conns, j \in 1..MaxRequests : write'[Serving(d, j)] = write[Serving(d, j)]
    BY <2>3, <2>8, WritersDiffer
  <2>10. LeaveRule'
    BY <1>2, <2>7 DEF LeaveRule, bus, pubs
  <2>11. ServeRule'
    BY <1>4, <2>1, <2>9 DEF ServeRule
  <2>12. Counted'
    BY <2>1 DEF Counted, Sent
  <2> QED BY <2>4, <2>5, <2>6, <2>10, <2>11, <2>12
<1>6. CASE request[c][i].op # Bad
  <2>1. request' = [request EXCEPT ![c][i].at = "started"] /\ write' = write
    BY <1>6 DEF Scan
  <2>2. /\ request' \in [Conns -> Seq(Request)]
        /\ \A d \in Conns : Len(request'[d]) = Len(request[d])
        /\ \A d \in Conns : d # c => request'[d] = request[d]
        /\ \A j \in 1..Len(request[c]) : j # i => request'[c][j] = request[c][j]
    <3> HIDE DEF i
    <3> QED BY <1>1, <2>1, Staged
  <2>3. TypeOK'
    BY <1>2, <1>3, <2>1, <2>2 DEF TypeOK, bus, pubs, client
  <2>4. HeldInv' /\ StartRule' /\ LeaveRule'
    BY <1>2, <2>1, HeldSame DEF StartRule, LeaveRule, bus, pubs
  <2>5. write[Serving(c, i)] = NoWrite
    <3>1. i > read[c]
      BY DEF TypeOK
    <3> HIDE DEF i
    <3> QED BY <1>1, <3>1 DEF ServeRule
  <2>6. ServeRule'
    <3>1. \A d \in Conns : \A j \in 1..Len(request'[d]) : j > read'[d] => request'[d][j].at = "sent"
      BY <1>4, <2>2 DEF ServeRule
    <3>2. \A d \in Conns : \A j \in 1..MaxRequests : write'[Serving(d, j)] # NoWrite =>
            j <= Len(request'[d]) /\ request'[d][j].at = "done"
      BY <2>1, <2>2, <2>5 DEF ServeRule
    <3> QED BY <3>1, <3>2 DEF ServeRule
  <2> QED BY <2>2, <2>3, <2>4, <2>6, SentSame
<1> QED BY <1>5, <1>6

LEMMA ScanEndsStep == ASSUME BusInv, NEW c \in Conns, ScanEnds(c) PROVE BusInv'
<1> USE DEF BusInv
<1>1. UNCHANGED <<conn, members, topics, request, read, pubs, writing, client>>
  BY DEF ScanEnds
<1>2. TypeOK'
  BY <1>1 DEF ScanEnds, TypeOK, pubs, writing, client
<1>3. HeldInv' /\ StartRule' /\ ServeRule' /\ Counted'
  BY <1>1, HeldSame DEF StartRule, ServeRule, Counted, Sent, writing
<1>4. LeaveRule'
  BY <1>1 DEF ScanEnds, LeaveRule, TypeOK, pubs, writing
<1> QED BY <1>2, <1>3, <1>4

LEMMA ClosedStep == ASSUME BusInv, NEW c \in Conns, Closed(c) PROVE BusInv'
<1> USE DEF BusInv
<1>1. UNCHANGED <<closed, topics, request, read, pubs, writing, client>>
  BY DEF Closed
<1>2. TypeOK'
  BY <1>1 DEF Closed, LeaveBus, TypeOK, pubs, writing, client
<1>3. \A d \in Conns : conn'[d] = IF d = c THEN "closed" ELSE conn[d]
  BY DEF Closed, TypeOK
<1>4. HeldInv'
  <2>1. TornRule'
    BY <1>1, <1>3 DEF HeldInv, TornRule, Cut, writing
  <2> QED BY <1>1, <2>1 DEF HeldInv, LockRule, LineRule, RoomRule, Holds, writing
<1>5. StartRule'
  BY <1>1, <1>3, WriterHas DEF StartRule, writing
<1>6. LeaveRule'
  BY <1>1 DEF Closed, LeaveBus, LeaveRule, TypeOK, pubs, writing
<1>7. ServeRule' /\ Counted'
  BY <1>1 DEF ServeRule, Counted, Sent, writing
<1> QED BY <1>2, <1>4, <1>5, <1>6, <1>7

\* What a request makes of the topics are topics.
LEMMA TopicsAfterType ==
  ASSUME NEW ts \in SUBSET Topics, NEW r, r.topics \in SUBSET Topics
  PROVE  TopicsAfter(ts, r) \in SUBSET Topics
BY IpcBusAssumption DEF TopicsAfter

LEMMA ApplyStep ==
  ASSUME BusInv, NEW c \in Conns, NEW i \in 1..MaxRequests, i <= Len(request[c]), Apply(c, i)
  PROVE  BusInv'
<1> USE DEF BusInv
<1>1. /\ UNCHANGED <<conn, members, closed, reader, read, pubs, writing, client>>
      /\ i \in 1..Len(request[c]) /\ request[c][i].at = "started"
      /\ request' = [request EXCEPT ![c][i].at = "applied"]
  BY DEF Apply
<1>2. /\ request' \in [Conns -> Seq(Request)]
      /\ \A d \in Conns : Len(request'[d]) = Len(request[d])
      /\ \A d \in Conns : d # c => request'[d] = request[d]
      /\ \A j \in 1..Len(request[c]) : j # i => request'[c][j] = request[c][j]
  BY <1>1, Staged
<1>3. topics' \in [Conns -> SUBSET Topics]
  <2>1. request[c] \in Seq(Request)
    BY DEF TypeOK
  <2>2. request[c][i] \in Request
    BY <1>1, <2>1
  <2>3. request[c][i].topics \in SUBSET Topics
    BY <2>2 DEF Request
  <2> QED BY <2>3, TopicsAfterType DEF Apply, TypeOK
<1>4. TypeOK'
  BY <1>1, <1>2, <1>3 DEF TypeOK, pubs, writing, client
<1>5. HeldInv' /\ StartRule' /\ LeaveRule'
  BY <1>1, HeldSame DEF StartRule, LeaveRule, pubs, writing
<1>6. ServeRule'
  <2>1. write[Serving(c, i)] = NoWrite /\ ~(i > read[c])
    BY <1>1 DEF ServeRule
  <2>2. \A d \in Conns : \A j \in 1..Len(request'[d]) : j > read'[d] => request'[d][j].at = "sent"
    BY <1>1, <1>2, <2>1 DEF ServeRule
  <2>3. \A d \in Conns : \A j \in 1..MaxRequests : write'[Serving(d, j)] # NoWrite =>
          j <= Len(request'[d]) /\ request'[d][j].at = "done"
    BY <1>1, <1>2, <2>1 DEF ServeRule, writing
  <2> QED BY <2>2, <2>3 DEF ServeRule
<1> QED BY <1>2, <1>4, <1>5, <1>6, SentSame

LEMMA RespondStep ==
  ASSUME BusInv, NEW c \in Conns, NEW i \in 1..MaxRequests, i <= Len(request[c]), Respond(c, i)
  PROVE  BusInv'
<1> USE DEF BusInv
<1> DEFINE w == Serving(c, i)
           l == Answer(i, topics[c])
<1>1. /\ UNCHANGED <<conn, bus, reader, read, pubs, deadline, wire, client>>
      /\ i \in 1..Len(request[c]) /\ request[c][i].at = "applied"
      /\ request' = [request EXCEPT ![c][i].at = "done"]
      /\ StartWrite(w, c, l) /\ w \in Writers
  BY WritersDiffer DEF Respond
<1>2. l \in Lines /\ l # Torn
  BY IpcBusAssumption DEF Answer, Lines, Torn, TypeOK
<1>3. write[w] = NoWrite /\ ~(i > read[c])
  BY <1>1 DEF ServeRule
<1>4. \A p \in Publishers : Publishing(p) # w
  BY WritersDiffer
<1>5. \A d \in Conns, j \in 1..MaxRequests : Serving(d, j) = w => d = c /\ j = i
  BY DEF Serving
<1> HIDE DEF w, l
<1>6. /\ request' \in [Conns -> Seq(Request)]
      /\ \A d \in Conns : Len(request'[d]) = Len(request[d])
      /\ \A d \in Conns : d # c => request'[d] = request[d]
      /\ \A j \in 1..Len(request[c]) : j # i => request'[c][j] = request[c][j]
      /\ request'[c][i].at = "done"
  <2>1. PICK s \in {"sent", "started", "applied", "done"} : s = "done"
    OBVIOUS
  <2>2. request' = [request EXCEPT ![c][i].at = s] /\ i \in 1..Len(request[c])
    BY <1>1, <2>1
  <2>3. /\ request' \in [Conns -> Seq(Request)]
        /\ \A d \in Conns : Len(request'[d]) = Len(request[d])
    BY <2>2, Staged
  <2>4. /\ \A d \in Conns : d # c => request'[d] = request[d]
        /\ \A j \in 1..Len(request[c]) : j # i => request'[c][j] = request[c][j]
    BY <2>2, Staged
  <2>5. request'[c][i].at = s
    BY <2>2, Staged
  <2> QED BY <2>1, <2>3, <2>4, <2>5
<1>7. /\ write' \in WriteType /\ write'[w].at = "waiting"
      /\ \A u \in Writers : u # w => write'[u] = write[u]
  BY <1>1, <1>2, Begun
<1>8. TypeOK'
  BY <1>1, <1>6, <1>7 DEF TypeOK, WriteType, bus, pubs, client
<1>9. HeldInv'
  BY <1>1, <1>2, <1>3, HeldBegun
<1>10. StartRule'
  BY <1>1, <1>7 DEF StartRule
<1>11. LeaveRule'
  BY <1>1, <1>4, <1>7, WritersDiffer DEF LeaveRule, bus, pubs
<1>12. ServeRule'
  <2>1. \A d \in Conns : \A j \in 1..Len(request'[d]) : j > read'[d] => request'[d][j].at = "sent"
    BY <1>1, <1>6, <1>3 DEF ServeRule
  <2>2. \A d \in Conns : \A j \in 1..MaxRequests : write'[Serving(d, j)] # NoWrite =>
          j <= Len(request'[d]) /\ request'[d][j].at = "done"
    BY <1>1, <1>6, <1>5, <1>7, WritersDiffer DEF ServeRule
  <2> QED BY <2>1, <2>2 DEF ServeRule
<1> QED BY <1>6, <1>8, <1>9, <1>10, <1>11, <1>12, SentSame

LEMMA SnapshotStep == ASSUME BusInv, NEW p \in Publishers, Snapshot(p) PROVE BusInv'
<1> USE DEF BusInv
<1>1. UNCHANGED <<conn, bus, serving, writing, client>> /\ pub[p] = Idle
  BY DEF Snapshot
<1>2. PICK t \in Topics : pub' = [pub EXCEPT ![p] = [topic |-> t, todo |-> members]]
  BY DEF Snapshot
<1>3. /\ pub' \in [Publishers -> {Idle} \cup [topic : Topics, todo : SUBSET Conns]]
      /\ pub'[p].todo = members /\ pub'[p] # Idle
      /\ \A q \in Publishers : q # p => pub'[q] = pub[q]
  BY <1>2, IpcBusAssumption DEF TypeOK, Idle
<1>4. published' \in [Publishers -> 0..MaxPublishes]
  BY IpcBusAssumption DEF Snapshot, TypeOK
<1>5. TypeOK'
  BY <1>1, <1>3, <1>4 DEF TypeOK, bus, serving, writing, client
<1>6. HeldInv' /\ StartRule' /\ ServeRule' /\ Counted'
  BY <1>1, HeldSame DEF StartRule, ServeRule, Counted, Sent, writing, serving
<1>7. LeaveRule'
  BY <1>1, <1>3 DEF LeaveRule, bus, serving, writing
<1> QED BY <1>5, <1>6, <1>7

\* A publisher at work has a topic.
LEMMA PublishHas ==
  ASSUME TypeOK, NEW p \in Publishers, pub[p] # Idle
  PROVE  pub[p].topic \in Topics /\ pub[p].todo \in SUBSET Conns
BY DEF TypeOK

LEMMA Delivered ==
  ASSUME TypeOK, NEW p \in Publishers, NEW c \in Conns, Deliver(p, c)
  PROVE  /\ pub[p] # Idle /\ c \in pub[p].todo /\ Event(p) \in Lines /\ Event(p) # Torn
         /\ pub' \in [Publishers -> {Idle} \cup [topic : Topics, todo : SUBSET Conns]]
         /\ pub'[p].topic = pub[p].topic /\ pub'[p].todo = pub[p].todo \ {c} /\ pub'[p] # Idle
         /\ \A q \in Publishers : q # p => pub'[q] = pub[q]
<1>1. c \in pub[p].todo /\ pub' = [pub EXCEPT ![p].todo = pub[p].todo \ {c}]
  BY DEF Deliver, Rest
<1>2. pub[p] # Idle
  BY <1>1 DEF Idle
<1>3. pub[p] \in [topic : Topics, todo : SUBSET Conns]
  BY <1>2 DEF TypeOK
<1>4. Event(p) \in Lines /\ Event(p) # Torn
  BY <1>3 DEF Event, Lines, Torn
<1> DEFINE new == [pub[p] EXCEPT !.todo = pub[p].todo \ {c}]
<1>5. /\ new \in [topic : Topics, todo : SUBSET Conns]
      /\ new.topic = pub[p].topic /\ new.todo = pub[p].todo \ {c}
  BY <1>3
<1>6. pub'[p] = new /\ \A q \in Publishers : q # p => pub'[q] = pub[q]
  BY <1>1 DEF TypeOK
<1>7. pub' = [pub EXCEPT ![p] = new]
  BY <1>1 DEF TypeOK
<1> HIDE DEF new
<1>8. pub' \in [Publishers -> {Idle} \cup [topic : Topics, todo : SUBSET Conns]]
  BY <1>5, <1>7 DEF TypeOK
<1>9. pub'[p] # Idle
  BY <1>3, <1>5, <1>6, IpcBusAssumption DEF Idle
<1> QED BY <1>1, <1>2, <1>4, <1>5, <1>6, <1>8, <1>9

LEMMA DeliverStep ==
  ASSUME BusInv, NEW p \in Publishers, NEW c \in Conns, Deliver(p, c) PROVE BusInv'
<1> USE DEF BusInv
<1> DEFINE w == Publishing(p)
           l == Event(p)
<1>1. /\ UNCHANGED <<conn, bus, serving, published, deadline, wire, client>>
      /\ write[w] = NoWrite /\ w \in Writers
      /\ StartWrite(w, c, l) \/ UNCHANGED write
  BY WritersDiffer DEF Deliver
<1>2. /\ l \in Lines /\ l # Torn
      /\ pub' \in [Publishers -> {Idle} \cup [topic : Topics, todo : SUBSET Conns]]
      /\ pub'[p].todo = pub[p].todo \ {c} /\ pub'[p] # Idle
      /\ \A q \in Publishers : q # p => pub'[q] = pub[q]
  BY Delivered
<1>3. /\ \A q \in Publishers : q # p => Publishing(q) # w
      /\ \A d \in Conns, j \in 1..MaxRequests : Serving(d, j) # w
  BY WritersDiffer
<1> HIDE DEF w, l
<1>4. /\ write' \in WriteType
      /\ \A u \in Writers : u # w => write'[u] = write[u]
      /\ write'[w].at # "failed"
  <2>1. CASE UNCHANGED write
    BY <1>1, <2>1 DEF TypeOK, WriteType, NoWrite
  <2>2. CASE StartWrite(w, c, l)
    BY <1>1, <1>2, <2>2, Begun
  <2> QED BY <1>1, <2>1, <2>2
<1>5. TypeOK'
  BY <1>1, <1>2, <1>4 DEF TypeOK, WriteType, bus, serving, client
<1>6. HeldInv'
  BY <1>1, <1>2, HeldBegun, HeldSame
<1>7. StartRule'
  BY <1>1, <1>4 DEF StartRule
<1>8. LeaveRule'
  <2>1. \A q \in Publishers : q # p => write'[Publishing(q)] = write[Publishing(q)]
    BY <1>3, <1>4, WritersDiffer
  <2> QED BY <1>1, <1>2, <2>1 DEF LeaveRule, bus, serving
<1>9. ServeRule' /\ Counted'
  <2>1. \A d \in Conns, j \in 1..MaxRequests : write'[Serving(d, j)] = write[Serving(d, j)]
    BY <1>3, <1>4, WritersDiffer
  <2> QED BY <1>1, <2>1 DEF ServeRule, Counted, Sent, serving
<1> QED BY <1>5, <1>6, <1>7, <1>8, <1>9

LEMMA PublishEndStep == ASSUME BusInv, NEW p \in Publishers, PublishEnd(p) PROVE BusInv'
<1> USE DEF BusInv
<1>1. UNCHANGED <<conn, bus, serving, published, writing, client>> /\ write[Publishing(p)] = NoWrite
  BY DEF PublishEnd
<1>2. /\ pub' \in [Publishers -> {Idle} \cup [topic : Topics, todo : SUBSET Conns]]
      /\ pub'[p] = Idle /\ \A q \in Publishers : q # p => pub'[q] = pub[q]
  BY DEF PublishEnd, TypeOK
<1>3. TypeOK'
  BY <1>1, <1>2 DEF TypeOK, bus, serving, writing, client
<1>4. HeldInv' /\ StartRule' /\ ServeRule' /\ Counted'
  BY <1>1, HeldSame DEF StartRule, ServeRule, Counted, Sent, writing, serving
<1>5. Idle.todo = {}
  BY DEF Idle
<1>6. LeaveRule'
  BY <1>1, <1>2, <1>5 DEF LeaveRule, bus, serving, writing
<1> QED BY <1>3, <1>4, <1>6

LEMMA SendStep == ASSUME BusInv, NEW c \in Conns, Send(c) PROVE BusInv'
<1> USE DEF BusInv
<1>1. UNCHANGED <<conn, bus, reader, read, pubs, writing>> /\ Cardinality(Sent) < MaxRequests
  BY DEF Send, Sent
<1>2. PICK op \in Ops, ts \in SUBSET Topics :
        LET r == [op |-> op, topics |-> ts, at |-> "sent"] IN
        /\ op = Bad => ts = {}
        /\ request' = [request EXCEPT ![c] = Append(@, r)]
        /\ awaited' = [awaited EXCEPT ![c] = @ \cup {IF op = Bad THEN 0 ELSE Len(request[c]) + 1}]
        /\ asked' = [asked EXCEPT ![c] = IF op = Bad THEN @ ELSE TopicsAfter(@, r)]
  BY DEF Send
<1> DEFINE r == [op |-> op, topics |-> ts, at |-> "sent"]
<1>3. r \in Request /\ r.at = "sent" /\ r.topics \in SUBSET Topics
  BY DEF Request
<1>4. Len(request[c]) + 1 \in 1..MaxRequests /\ request[c] \in Seq(Request)
  BY <1>1, SentLess DEF TypeOK
<1>5. request' = [request EXCEPT ![c] = Append(@, r)]
  BY <1>2
<1>6. asked' \in [Conns -> SUBSET Topics]
  <2>1. TopicsAfter(asked[c], r) \in SUBSET Topics
    BY <1>3, TopicsAfterType DEF TypeOK
  <2> QED BY <1>2, <2>1 DEF TypeOK
<1> HIDE DEF r
<1>7. awaited' \in [Conns -> SUBSET (0..MaxRequests)]
  BY <1>2, <1>4, IpcBusAssumption DEF TypeOK
<1>8. /\ request' \in [Conns -> Seq(Request)]
      /\ \A d \in Conns : d # c => request'[d] = request[d]
      /\ Len(request'[c]) = Len(request[c]) + 1
      /\ request'[c][Len(request[c]) + 1] = r
      /\ \A j \in 1..Len(request[c]) : request'[c][j] = request[c][j]
  <2>1. request'[c] = Append(request[c], r) /\ \A d \in Conns : d # c => request'[d] = request[d]
    BY <1>5 DEF TypeOK
  <2>2. request' \in [Conns -> Seq(Request)]
    BY <1>3, <1>4, <1>5 DEF TypeOK
  <2> QED BY <1>3, <1>4, <2>1, <2>2
<1>9. TypeOK'
  BY <1>1, <1>6, <1>7, <1>8 DEF TypeOK, bus, pubs, writing
<1>10. HeldInv' /\ StartRule' /\ LeaveRule'
  BY <1>1, HeldSame DEF StartRule, LeaveRule, bus, pubs, writing
<1>11. Counted'
  BY <1>1, <1>3, <1>5, SentMore
<1>12. ServeRule'
  <2>1. \A j \in 1..Len(request'[c]) : j \in 1..Len(request[c]) \/ j = Len(request[c]) + 1
    BY <1>4, <1>8
  <2>2. \A j \in 1..MaxRequests : j <= Len(request[c]) => j \in 1..Len(request[c]) /\ j <= Len(request'[c])
    BY <1>4, <1>8
  <2>3. \A j \in 1..Len(request'[c]) : j > read[c] => request'[c][j].at = "sent"
    BY <1>3, <1>8, <2>1 DEF ServeRule
  <2>4. \A j \in 1..MaxRequests :
          write[Serving(c, j)] # NoWrite => j <= Len(request'[c]) /\ request'[c][j].at = "done"
    BY <1>8, <2>2 DEF ServeRule
  <2> QED BY <1>1, <1>8, <2>3, <2>4 DEF ServeRule, writing
<1> QED BY <1>9, <1>10, <1>11, <1>12

\* A client takes the first line.
LEMMA Taken ==
  ASSUME TypeOK, NEW c \in Conns, wire[c] # << >>, wire' = [wire EXCEPT ![c] = Tail(@)]
  PROVE  /\ wire' \in [Conns -> Seq(Lines)] /\ \A d \in Conns : d # c => wire'[d] = wire[d]
         /\ Len(wire[c]) \in Nat \ {0} /\ Len(wire'[c]) = Len(wire[c]) - 1
         /\ Head(wire[c]) = wire[c][1]
         /\ \A i \in 1..Len(wire'[c]) : i + 1 \in 1..Len(wire[c]) /\ wire'[c][i] = wire[c][i + 1]
<1>1. wire[c] \in Seq(Lines)
  BY DEF TypeOK
<1>2. wire'[c] = Tail(wire[c]) /\ wire' \in [Conns -> Seq(Lines)]
  BY <1>1 DEF TypeOK
<1>3. \A d \in Conns : d # c => wire'[d] = wire[d]
  BY DEF TypeOK
<1>4. Len(wire[c]) \in Nat \ {0} /\ Len(wire'[c]) = Len(wire[c]) - 1
  BY <1>1, <1>2
<1>5. \A i \in 1..Len(wire'[c]) : i + 1 \in 1..Len(wire[c]) /\ wire'[c][i] = wire[c][i + 1]
  BY <1>1, <1>2, <1>4
<1> QED BY <1>1, <1>2, <1>3, <1>4, <1>5

LEMMA ReceiveStep == ASSUME BusInv, NEW c \in Conns, Receive(c) PROVE BusInv'
<1> USE DEF BusInv
<1>1. /\ UNCHANGED <<conn, bus, serving, pubs, write, deadline, asked>>
      /\ conn[c] \in {"open", "closed"} /\ wire[c] # << >>
      /\ wire' = [wire EXCEPT ![c] = Tail(@)]
  BY DEF Receive
<1>2. /\ wire' \in [Conns -> Seq(Lines)] /\ \A d \in Conns : d # c => wire'[d] = wire[d]
      /\ Len(wire[c]) \in Nat \ {0} /\ Len(wire'[c]) = Len(wire[c]) - 1
      /\ \A i \in 1..Len(wire'[c]) : i + 1 \in 1..Len(wire[c]) /\ wire'[c][i] = wire[c][i + 1]
  BY <1>1, Taken
<1>3. awaited' \in [Conns -> SUBSET (0..MaxRequests)]
  BY DEF Receive, TypeOK
<1>4. SockCap \in Nat /\ Len(wire[c]) <= SockCap + 1
  BY IpcBusAssumption DEF TypeOK
<1>5. Len(wire'[c]) <= SockCap
  <2>1. Len(wire[c]) \in Nat /\ Len(wire'[c]) = Len(wire[c]) - 1
    BY <1>2
  <2> QED BY <1>4, <2>1
<1>6. \A d \in Conns : Len(wire'[d]) <= SockCap + 1
  <2>1. Len(wire'[c]) <= SockCap + 1
    BY <1>2, <1>4, <1>5
  <2> QED BY <1>2, <2>1 DEF TypeOK
<1>7. TypeOK'
  BY <1>1, <1>2, <1>3, <1>6 DEF TypeOK, bus, serving, pubs
<1>8. LockRule' /\ LineRule'
  BY <1>1 DEF HeldInv, LockRule, LineRule, Holds
<1>9. TornRule'
  <2>1. \A d \in Conns : Cut(d)' = Cut(d)
    BY <1>1 DEF Cut
  <2>2. \A i \in 1..Len(wire'[c]) : wire'[c][i] = Torn =>
          i = Len(wire'[c]) /\ (conn[c] # "open" \/ Cut(c))
    BY <1>2 DEF HeldInv, TornRule
  <2> QED BY <1>1, <1>2, <2>1, <2>2 DEF HeldInv, TornRule
<1>10. RoomRule'
  BY <1>2, <1>4, <1>5 DEF HeldInv, RoomRule
<1>11. StartRule'
  BY <1>1, <1>2 DEF StartRule
<1>12. LeaveRule' /\ ServeRule' /\ Counted'
  BY <1>1 DEF LeaveRule, ServeRule, Counted, Sent, bus, serving, pubs
<1> QED BY <1>7, <1>8, <1>9, <1>10, <1>11, <1>12 DEF HeldInv

LEMMA HangUpStep == ASSUME BusInv, NEW c \in Conns, HangUp(c) PROVE BusInv'
<1> USE DEF BusInv
<1>1. UNCHANGED <<bus, serving, pubs, write, deadline, client>>
  BY DEF HangUp
<1>2. /\ \A d \in Conns : conn'[d] = IF d = c THEN "hungup" ELSE conn[d]
      /\ \A d \in Conns : wire'[d] = IF d = c THEN << >> ELSE wire[d]
      /\ conn' \in [Conns -> {"none", "open", "hungup", "closed"}]
      /\ wire' \in [Conns -> Seq(Lines)]
  BY DEF HangUp, TypeOK
<1>3. \A d \in Conns : Len(wire'[d]) <= SockCap + 1
  BY <1>2, IpcBusAssumption DEF TypeOK
<1>4. TypeOK'
  BY <1>1, <1>2, <1>3 DEF TypeOK, bus, serving, pubs, client
<1>5. HeldInv'
  <2>1. LockRule' /\ LineRule'
    BY <1>1 DEF HeldInv, LockRule, LineRule, Holds
  <2>2. \A d \in Conns : Cut(d)' = Cut(d)
    BY <1>1 DEF Cut
  <2>3. TornRule'
    BY <1>2, <2>2 DEF HeldInv, TornRule
  <2>4. Len(wire'[c]) = 0 /\ ~(0 > SockCap)
    BY <1>2, IpcBusAssumption
  <2>5. RoomRule'
    BY <1>2, <2>4 DEF HeldInv, RoomRule
  <2> QED BY <2>1, <2>3, <2>5 DEF HeldInv
<1>6. StartRule'
  BY <1>1, <1>2, WriterHas DEF StartRule
<1>7. LeaveRule' /\ ServeRule' /\ Counted'
  BY <1>1 DEF LeaveRule, ServeRule, Counted, Sent, bus, serving, pubs
<1> QED BY <1>4, <1>5, <1>6, <1>7

LEMMA BusInit == Init => BusInv
<1> SUFFICES ASSUME Init PROVE BusInv
  OBVIOUS
<1>1. \A c \in Conns : Len(request[c]) = 0 /\ Len(wire[c]) = 0
  BY DEF Init
<1>2. TypeOK
  BY <1>1, IpcBusAssumption DEF Init, TypeOK
<1>3. Counted
  <2>1. \A r \in Conns \X (1..MaxRequests) : ~(r[2] <= Len(request[r[1]]))
    BY <1>1
  <2>2. Sent = {}
    BY <2>1 DEF Sent
  <2> QED BY <1>1, <2>2, FS_EmptySet, IpcBusAssumption DEF Counted
<1>4. \A w \in Writers : write[w] = NoWrite /\ write[w].at = "none"
  BY DEF Init, NoWrite
<1>5. HeldInv
  BY <1>1, <1>4, IpcBusAssumption DEF HeldInv, LockRule, LineRule, TornRule, RoomRule, Holds
<1>6. StartRule
  BY <1>4 DEF StartRule, Init
<1>7. LeaveRule
  BY <1>4, WritersDiffer DEF LeaveRule, Init, Idle
<1>8. ServeRule
  BY <1>1, <1>4, WritersDiffer DEF ServeRule
<1> QED BY <1>2, <1>3, <1>5, <1>6, <1>7, <1>8 DEF BusInv

LEMMA BusStutter == BusInv /\ UNCHANGED vars => BusInv'
BY HeldSame DEF BusInv, TypeOK, Counted, Sent, StartRule, LeaveRule, ServeRule, vars, bus, serving,
                pubs, writing, client

LEMMA BusStep == BusInv /\ [Next]_vars => BusInv'
<1> SUFFICES ASSUME BusInv, [Next]_vars PROVE BusInv'
  OBVIOUS
<1>1. ASSUME NEW w \in Writers, WriteStep(w) PROVE BusInv'
  BY <1>1, LockStep, WrittenStep, WriteFailsStep, CloseFailedStep DEF WriteStep
<1>2. ASSUME NEW c \in Conns, ReadStep(c) PROVE BusInv'
  BY <1>2, ScanStep, ScanEndsStep, ClosedStep DEF ReadStep
<1>3. ASSUME NEW c \in Conns, NEW i \in 1..MaxRequests, Handle(c, i) PROVE BusInv'
  BY <1>3, ApplyStep, RespondStep DEF Handle
<1>4. ASSUME NEW c \in Conns, Accept(c) \/ Send(c) \/ Receive(c) \/ HangUp(c) PROVE BusInv'
  BY <1>4, AcceptStep, SendStep, ReceiveStep, HangUpStep
<1>5. ASSUME NEW p \in Publishers, Snapshot(p) \/ PublishStep(p) PROVE BusInv'
  BY <1>5, SnapshotStep, PublishEndStep, DeliverStep DEF PublishStep
<1> QED BY <1>1, <1>2, <1>3, <1>4, <1>5, BusStutter DEF Next

LEMMA BusInvariant == Spec => []BusInv
<1> QED BY BusInit, BusStep, PTL DEF Spec

\* Every goroutine, connection, queue and line of the bus has its type; a wire
\* never holds more than the socket takes and one cut line; and the members of
\* the bus are the connections whose reader has not left it.
THEOREM BusTypeCorrect == Spec => []TypeOK
<1>1. BusInv => TypeOK
  BY DEF BusInv
<1> QED BY <1>1, BusInvariant, PTL

\* ConnWriter.write: a line cut by the write deadline is the last its client
\* gets, with any number of publishers, requests and connections.
THEOREM TornLastCorrect == Spec => []TornLast
<1>1. BusInv => TornLast
  BY DEF BusInv, HeldInv, TornRule, TornLast
<1> QED BY <1>1, BusInvariant, PTL

-----------------------------------------------------------------------------
\* AskInv, one lemma per action that a waiting client notices.

\* A step that leaves the requests of d alone and adds no answer to d.
LEMMA AskKept ==
  ASSUME NEW d \in Conns, Asking(d),
         request'[d] = request[d], read'[d] = read[d], topics'[d] = topics[d],
         asked'[d] = asked[d], awaited'[d] = awaited[d],
         \A w \in Writers : Answering(w, d)' => Answering(w, d) /\ write'[w].line = write[w].line,
         \A i \in 1..Len(wire'[d]) :
           IsAnswer(wire'[d][i]) => i \in 1..Len(wire[d]) /\ wire'[d][i] = wire[d][i]
  PROVE  Asking(d)'
<1>1. StageRule(d)' /\ AskedRule(d)' /\ AwaitRule(d)'
  BY DEF Asking, StageRule, AskedRule, AwaitRule, Waiting, Final, Answered, Expected
<1>2. \A l : Right(d, l) => Right(d, l)'
  BY DEF Right, Answered, Final
<1>3. OneAnswer(d)'
  <2>1. \A w \in Writers : Answering(w, d)' => Right(d, write[w].line)'
    BY <1>2 DEF Asking, OneAnswer
  <2>2. \A i \in 1..Len(wire'[d]) : IsAnswer(wire'[d][i]) => Right(d, wire[d][i])'
    BY <1>2 DEF Asking, OneAnswer
  <2> QED BY <2>1, <2>2 DEF Asking, OneAnswer
<1> QED BY <1>1, <1>3 DEF Asking

\* The steps of a writer, other than the one that puts its line on the wire.
LEMMA AskWriter ==
  ASSUME BusInv, NEW w \in Writers, Lock(w) \/ WriteFails(w) \/ CloseFailed(w),
         NEW d \in Conns, Asking(d)
  PROVE  Asking(d)'
<1>1. UNCHANGED <<request, read, topics, asked, awaited>> /\ write[w].at # "none" /\ write[w] # NoWrite
  BY DEF Lock, WriteFails, CloseFailed, serving, bus, client, NoWrite
<1>2. TypeOK
  BY DEF BusInv
<1>3. \A u \in Writers : Answering(u, d)' => Answering(u, d) /\ write'[u].line = write[u].line
  <2>1. CASE CloseFailed(w)
    <3>1. write'[w] = NoWrite /\ \A u \in Writers : u # w => write'[u] = write[u]
      BY <1>2, <2>1, Ended DEF CloseFailed, Disconnect
    <3> QED BY <3>1 DEF Answering
  <2>2. CASE Lock(w) \/ WriteFails(w)
    <3>1. /\ write'[w].to = write[w].to /\ write'[w].line = write[w].line
          /\ \A u \in Writers : u # w => write'[u] = write[u]
      BY <1>1, <1>2, <2>2, Moved DEF Lock, WriteFails
    <3> QED BY <1>1, <3>1 DEF Answering
  <2> QED BY <2>1, <2>2
<1>4. \A i \in 1..Len(wire'[d]) :
        IsAnswer(wire'[d][i]) => i \in 1..Len(wire[d]) /\ wire'[d][i] = wire[d][i]
  <2>1. CASE wire' = wire
    BY <2>1
  <2>2. CASE wire' = [wire EXCEPT ![write[w].to] = Append(@, Torn)]
    <3>1. PICK c \in Conns : c = write[w].to
      BY <1>1, <1>2, WriterHas
    <3>2. Torn \in Lines /\ ~IsAnswer(Torn)
      BY DEF Lines, Torn, IsAnswer
    <3>3. wire' = [wire EXCEPT ![c] = Append(@, Torn)]
      BY <2>2, <3>1
    <3>4. /\ \A e \in Conns : e # c => wire'[e] = wire[e]
          /\ wire'[c][Len(wire'[c])] = Torn
          /\ \A i \in 1..Len(wire'[c]) : i \in 1..Len(wire[c]) \/ i = Len(wire'[c])
          /\ \A i \in 1..Len(wire[c]) : i # Len(wire'[c]) /\ wire'[c][i] = wire[c][i]
      BY <1>2, <3>2, <3>3, Appended
    <3> QED BY <3>2, <3>4
  <2> QED BY <2>1, <2>2 DEF Lock, WriteFails, CloseFailed, writing
<1> QED BY <1>1, <1>3, <1>4, AskKept

LEMMA AskWritten ==
  ASSUME BusInv, NEW w \in Writers, Written(w), NEW d \in Conns, Asking(d)
  PROVE  Asking(d)'
<1>1. /\ UNCHANGED <<request, read, topics, asked, awaited>>
      /\ write[w].at # "none" /\ write[w] # NoWrite
  BY DEF Written, serving, bus, client, NoWrite
<1>2. TypeOK
  BY DEF BusInv
<1>3. write'[w] = NoWrite /\ \A u \in Writers : u # w => write'[u] = write[u]
  BY <1>2, Ended DEF Written
<1>4. PICK c \in Conns, l \in Lines : c = write[w].to /\ l = write[w].line
  BY <1>1, <1>2, WriterHas
<1>5. wire' = [wire EXCEPT ![c] = Append(@, l)]
  BY <1>4 DEF Written
<1>6. /\ \A e \in Conns : e # c => wire'[e] = wire[e]
      /\ wire'[c][Len(wire'[c])] = l
      /\ \A i \in 1..Len(wire'[c]) : i \in 1..Len(wire[c]) \/ i = Len(wire'[c])
      /\ \A i \in 1..Len(wire[c]) : i # Len(wire'[c]) /\ wire'[c][i] = wire[c][i]
  BY <1>2, <1>5, Appended
<1>7. \A u \in Writers : Answering(u, d)' => u # w /\ Answering(u, d) /\ write'[u].line = write[u].line
  BY <1>3 DEF Answering
<1>8. CASE d # c \/ ~IsAnswer(l)
  <2>1. \A i \in 1..Len(wire'[d]) :
          IsAnswer(wire'[d][i]) => i \in 1..Len(wire[d]) /\ wire'[d][i] = wire[d][i]
    BY <1>6, <1>8
  <2> QED BY <1>1, <1>7, <2>1, AskKept
<1>9. CASE d = c /\ IsAnswer(l)
  <2>1. Answering(w, d) /\ Right(d, l)
    BY <1>1, <1>4, <1>9 DEF Answering, Asking, OneAnswer
  <2>2. \A u \in Writers : ~Answering(u, d)'
    BY <1>7, <2>1 DEF Asking, OneAnswer
  <2>3. \A i \in 1..Len(wire[d]) : ~IsAnswer(wire[d][i])
    BY <2>1 DEF Asking, OneAnswer
  <2>4. \A i \in 1..Len(wire'[d]) : IsAnswer(wire'[d][i]) => i = Len(wire'[d]) /\ wire'[d][i] = l
    BY <1>6, <1>9, <2>3
  <2>5. Right(d, l)'
    BY <1>1, <2>1 DEF Right, Answered, Final
  <2>6. \A i \in 1..Len(wire'[d]) : IsAnswer(wire'[d][i]) => Right(d, wire[d][i])'
    BY <2>4, <2>5
  <2>7. OneAnswer(d)'
    BY <2>2, <2>4, <2>6 DEF OneAnswer
  <2>8. StageRule(d)' /\ AskedRule(d)' /\ AwaitRule(d)'
    BY <1>1 DEF Asking, StageRule, AskedRule, AwaitRule, Waiting, Final, Answered, Expected
  <2> QED BY <2>7, <2>8 DEF Asking
<1> QED BY <1>8, <1>9

\* The steps that start no answer and take no line.
LEMMA AskOthers ==
  ASSUME BusInv,
         \/ \E c \in Conns : Accept(c) \/ ScanEnds(c) \/ Closed(c) \/ HangUp(c)
         \/ \E p \in Publishers : Snapshot(p) \/ PublishStep(p)
         \/ UNCHANGED vars,
         NEW d \in Conns, Asking(d)
  PROVE  Asking(d)'
<1>1. UNCHANGED <<request, read, topics, asked, awaited>>
  BY DEF Accept, ScanEnds, Closed, HangUp, Snapshot, PublishStep, PublishEnd, Deliver, serving, bus,
         client, vars
<1>2. TypeOK
  BY DEF BusInv
<1>3. wire'[d] = wire[d] \/ wire'[d] = << >>
  BY <1>2 DEF TypeOK, Accept, ScanEnds, Closed, HangUp, Snapshot, PublishStep, PublishEnd, Deliver,
              writing, vars
<1>4. \A u \in Writers : Answering(u, d)' => Answering(u, d) /\ write'[u].line = write[u].line
  <2>1. CASE write' = write
    BY <2>1 DEF Answering
  <2>2. ASSUME NEW p \in Publishers, NEW c \in Conns, StartWrite(Publishing(p), c, Event(p)),
               Event(p) \in Lines
        PROVE  \A u \in Writers : Answering(u, d)' => Answering(u, d) /\ write'[u].line = write[u].line
    <3>1. /\ write'[Publishing(p)].line = Event(p)
          /\ \A u \in Writers : u # Publishing(p) => write'[u] = write[u]
      BY <1>2, <2>2, Begun, WritersDiffer
    <3>2. ~IsAnswer(Event(p))
      BY DEF Event, IsAnswer
    <3> QED BY <3>1, <3>2 DEF Answering
  <2>3. \A p \in Publishers, c \in Conns : Deliver(p, c) =>
          write' = write \/ (StartWrite(Publishing(p), c, Event(p)) /\ Event(p) \in Lines)
    BY <1>2, Delivered DEF Deliver
  <2> QED BY <2>1, <2>2, <2>3 DEF Accept, ScanEnds, Closed, HangUp, Snapshot, PublishStep, PublishEnd,
                                   writing, vars
<1>5. \A i \in 1..Len(wire'[d]) :
        IsAnswer(wire'[d][i]) => i \in 1..Len(wire[d]) /\ wire'[d][i] = wire[d][i]
  BY <1>3
<1> QED BY <1>1, <1>4, <1>5, AskKept

\* A connection whose last request is not answered has no answer under way.
LEMMA Unanswered ==
  ASSUME NEW c \in Conns, Asking(c), ~Answered(c)
  PROVE  /\ \A w \in Writers : ~Answering(w, c)
         /\ \A i \in 1..Len(wire[c]) : ~IsAnswer(wire[c][i])
         /\ Len(request[c]) > 0 /\ awaited[c] = {Expected(c)}
BY DEF Asking, OneAnswer, Right, AwaitRule

\* Goroutine w starts to answer the last request of c.
LEMMA AnswerStarts ==
  ASSUME TypeOK, NEW c \in Conns, NEW w \in Writers, NEW l \in Lines,
         StartWrite(w, c, l), UNCHANGED wire,
         \A u \in Writers : ~Answering(u, c),
         \A i \in 1..Len(wire[c]) : ~IsAnswer(wire[c][i]),
         Answered(c)', awaited'[c] = {l.id}
  PROVE  OneAnswer(c)'
<1>1. /\ write'[w].line = l
      /\ \A u \in Writers : u # w => write'[u] = write[u]
  BY Begun
<1>2. \A u \in Writers : Answering(u, c)' => u = w
  BY <1>1 DEF Answering
<1>3. Right(c, write[w].line)'
  BY <1>1 DEF Right
<1>4. \A u \in Writers : Answering(u, c)' => Right(c, write[u].line)'
  BY <1>2, <1>3
<1> QED BY <1>2, <1>4 DEF OneAnswer

\* What the others see when a request of c is answered or moves on.
LEMMA AskBeside ==
  ASSUME TypeOK, NEW c \in Conns, NEW w \in Writers, NEW l \in Lines,
         StartWrite(w, c, l) \/ UNCHANGED write, write[w] = NoWrite,
         NEW d \in Conns, d # c, Asking(d),
         request'[d] = request[d], read'[d] = read[d], topics'[d] = topics[d],
         asked'[d] = asked[d], awaited'[d] = awaited[d], wire'[d] = wire[d]
  PROVE  Asking(d)'
<1>1. \A u \in Writers : Answering(u, d)' => Answering(u, d) /\ write'[u].line = write[u].line
  <2>1. CASE UNCHANGED write
    BY <2>1 DEF Answering
  <2>2. CASE StartWrite(w, c, l)
    <3>1. write'[w].to = c /\ \A u \in Writers : u # w => write'[u] = write[u]
      BY <2>2, Begun
    <3> QED BY <3>1 DEF Answering
  <2> QED BY <2>1, <2>2
<1> QED BY <1>1, AskKept

LEMMA AskScan ==
  ASSUME BusInv, NEW c \in Conns, Scan(c), \A d \in Conns : Asking(d), NEW d \in Conns
  PROVE  Asking(d)'
<1> DEFINE n == Len(request[c])
<1>1. TypeOK /\ Counted /\ ServeRule
  BY DEF BusInv
<1>2. /\ UNCHANGED <<topics, asked, awaited, wire>> /\ write[Reading(c)] = NoWrite
      /\ read[c] \in Nat /\ n \in Nat /\ read[c] < n /\ n <= read[c] + 1
  BY <1>1 DEF Scan, bus, client, TypeOK, Asking, StageRule
<1>3. read[c] + 1 = n /\ n \in 1..n /\ n > read[c]
  BY <1>2
<1>4. read'[c] = n /\ \A e \in Conns : e # c => read'[e] = read[e]
  BY <1>1, <1>3 DEF Scan, TypeOK
<1>5. request[c][n].at = "sent" /\ ~Answered(c)
  BY <1>3 DEF ServeRule, Answered, BusInv
<1>6. /\ \A w \in Writers : ~Answering(w, c)
      /\ \A i \in 1..Len(wire[c]) : ~IsAnswer(wire[c][i])
      /\ awaited[c] = {Expected(c)}
  BY <1>5, Unanswered
<1>7. Answer(0, {}) \in Lines /\ Answer(0, {}).id = 0 /\ Reading(c) \in Writers
  BY IpcBusAssumption, WritersDiffer DEF Answer, Lines
<1>8. CASE Final(c).op = Bad
  <2>1. StartWrite(Reading(c), c, Answer(0, {})) /\ request' = request
    BY <1>3, <1>8 DEF Scan, Final
  <2>2. CASE d # c
    BY <1>1, <1>2, <1>4, <1>7, <2>1, <2>2, AskBeside
  <2>3. CASE d = c
    <3>1. Answered(c)' /\ awaited'[c] = {0}
      BY <1>2, <1>4, <1>6, <1>8, <2>1 DEF Answered, Final, Expected
    <3>2. OneAnswer(c)'
      BY <1>1, <1>2, <1>6, <1>7, <2>1, <3>1, AnswerStarts
    <3>3. StageRule(c)'
      <4>1. \A i \in 1..n : i < n \/ i = n
        BY <1>2
      <4> QED BY <1>2, <1>3, <1>4, <1>8, <2>1, <4>1 DEF Asking, StageRule, Final
    <3>4. AskedRule(c)' /\ AwaitRule(c)'
      BY <1>2, <1>6, <2>1, <3>1 DEF Asking, AskedRule, AwaitRule, Waiting, Final, Expected
    <3> QED BY <2>3, <3>2, <3>3, <3>4 DEF Asking
  <2> QED BY <2>2, <2>3
<1>9. CASE Final(c).op # Bad
  <2>1. request' = [request EXCEPT ![c][n].at = "started"] /\ write' = write
    BY <1>3, <1>9 DEF Scan, Final
  <2>2. CASE d # c
    <3>1. request'[d] = request[d]
      BY <1>1, <2>1, <2>2 DEF TypeOK
    <3> QED BY <1>1, <1>2, <1>4, <1>7, <2>1, <2>2, <3>1, AskBeside
  <2>3. CASE d = c
    <3> HIDE DEF n
    <3>1. /\ Len(request'[c]) = Len(request[c])
          /\ \A j \in 1..Len(request[c]) : j # n => request'[c][j] = request[c][j]
          /\ request'[c][n].op = request[c][n].op /\ request'[c][n].at = "started"
          /\ request'[c][n].topics = request[c][n].topics
      BY <1>1, <1>3, <2>1, Staged DEF n
    <3>2. OneAnswer(c)'
      BY <1>2, <1>6, <2>1 DEF OneAnswer, Answering
    <3>3. StageRule(c)'
      BY <1>2, <1>3, <1>4, <1>9, <3>1 DEF Asking, StageRule, Final, n
    <3>4. /\ Final(c)'.op = Final(c).op /\ Final(c)'.topics = Final(c).topics
          /\ Final(c)'.at = "started" /\ Final(c).at = "sent"
      BY <1>5, <3>1 DEF Final, n
    <3>5. AskedRule(c)'
      BY <1>2, <1>9, <3>1, <3>4 DEF Asking, AskedRule, Waiting, TopicsAfter
    <3>6. AwaitRule(c)'
      <4>1. Expected(c)' = Expected(c) /\ Len(request[c]) > 0
        BY <1>2, <1>3, <3>1, <3>4 DEF Expected, n
      <4> QED BY <1>2, <1>6, <3>1, <4>1 DEF AwaitRule
    <3> QED BY <2>3, <3>2, <3>3, <3>5, <3>6 DEF Asking
  <2> QED BY <2>2, <2>3
<1> QED BY <1>8, <1>9

LEMMA AskApply ==
  ASSUME BusInv, NEW c \in Conns, NEW i \in 1..MaxRequests, i <= Len(request[c]), Apply(c, i),
         \A d \in Conns : Asking(d), NEW d \in Conns
  PROVE  Asking(d)'
<1> DEFINE n == Len(request[c])
<1>1. TypeOK
  BY DEF BusInv
<1>2. /\ UNCHANGED <<read, asked, awaited, wire, write>>
      /\ request[c][i].at = "started" /\ i \in 1..n /\ n \in Nat
      /\ request' = [request EXCEPT ![c][i].at = "applied"]
      /\ topics'[c] = TopicsAfter(topics[c], request[c][i])
      /\ \A e \in Conns : e # c => topics'[e] = topics[e]
  BY <1>1 DEF Apply, client, writing, TypeOK
<1>3. i = n /\ request[c][i].op # Bad /\ ~Answered(c) /\ Waiting(c)
  BY <1>2 DEF Asking, StageRule, Answered, Final, Waiting
<1>4. CASE d # c
  <2>1. request'[d] = request[d]
    BY <1>1, <1>2, <1>4 DEF TypeOK
  <2>2. \A u \in Writers : Answering(u, d)' => Answering(u, d) /\ write'[u].line = write[u].line
    BY <1>2 DEF Answering
  <2> QED BY <1>2, <1>4, <2>1, <2>2, AskKept
<1>5. CASE d = c
  <2> HIDE DEF n
  <2>1. /\ Len(request'[c]) = Len(request[c])
        /\ \A j \in 1..Len(request[c]) : j # i => request'[c][j] = request[c][j]
        /\ request'[c][i].op = request[c][i].op /\ request'[c][i].at = "applied"
    BY <1>1, <1>2, Staged DEF n
  <2>2. /\ \A w \in Writers : ~Answering(w, c)
        /\ \A j \in 1..Len(wire[c]) : ~IsAnswer(wire[c][j])
        /\ awaited[c] = {Expected(c)}
    BY <1>3, Unanswered
  <2>3. OneAnswer(c)'
    BY <1>2, <2>2 DEF OneAnswer, Answering
  <2>4. StageRule(c)'
    BY <1>2, <1>3, <2>1 DEF Asking, StageRule, n
  <2>5. Final(c)'.op = Final(c).op /\ Final(c)'.at = "applied" /\ Final(c) = request[c][i]
    BY <1>3, <2>1 DEF Final, n
  <2>6. AskedRule(c)'
    BY <1>2, <1>3, <2>5 DEF Asking, AskedRule, Waiting
  <2>7. AwaitRule(c)'
    BY <1>2, <1>3, <2>1, <2>2, <2>5 DEF AwaitRule, Expected
  <2> QED BY <1>5, <2>3, <2>4, <2>6, <2>7 DEF Asking
<1> QED BY <1>4, <1>5

LEMMA AskRespond ==
  ASSUME BusInv, NEW c \in Conns, NEW i \in 1..MaxRequests, i <= Len(request[c]), Respond(c, i),
         \A d \in Conns : Asking(d), NEW d \in Conns
  PROVE  Asking(d)'
<1> DEFINE n == Len(request[c])
           w == Serving(c, i)
           l == Answer(i, topics[c])
<1>1. TypeOK /\ ServeRule
  BY DEF BusInv
<1>2. /\ UNCHANGED <<read, asked, awaited, topics, wire>>
      /\ request[c][i].at = "applied" /\ i \in 1..n /\ n \in Nat
      /\ request' = [request EXCEPT ![c][i].at = "done"]
      /\ StartWrite(w, c, l) /\ w \in Writers /\ l \in Lines /\ l.id = i
  BY <1>1, IpcBusAssumption, WritersDiffer DEF Respond, client, bus, TypeOK, Answer, Lines
<1>3. i = n /\ request[c][i].op # Bad /\ ~Answered(c) /\ ~Waiting(c)
  BY <1>2 DEF Asking, StageRule, Answered, Final, Waiting
<1>4. write[w] = NoWrite
  BY <1>1, <1>2 DEF ServeRule
<1> HIDE DEF w, l
<1>5. CASE d # c
  <2>1. request'[d] = request[d]
    BY <1>1, <1>2, <1>5 DEF TypeOK
  <2> QED BY <1>1, <1>2, <1>4, <1>5, <2>1, AskBeside
<1>6. CASE d = c
  <2> HIDE DEF n
  <2>1. /\ Len(request'[c]) = Len(request[c])
        /\ \A j \in 1..Len(request[c]) : j # i => request'[c][j] = request[c][j]
        /\ request'[c][i].op = request[c][i].op /\ request'[c][i].at = "done"
    <3>1. PICK s \in {"sent", "started", "applied", "done"} : s = "done"
      OBVIOUS
    <3>2. request' = [request EXCEPT ![c][i].at = s] /\ i \in 1..Len(request[c])
      BY <1>2, <3>1 DEF n
    <3>3. request'[c][i].at = s
      BY <1>1, <3>2, Staged
    <3>5. request'[c][i].op = request[c][i].op
      BY <1>1, <3>2, Staged
    <3>4. /\ Len(request'[c]) = Len(request[c])
          /\ \A j \in 1..Len(request[c]) : j # i => request'[c][j] = request[c][j]
      BY <1>1, <3>2, Staged
    <3> QED BY <3>1, <3>3, <3>4, <3>5
  <2>2. /\ \A u \in Writers : ~Answering(u, c)
        /\ \A j \in 1..Len(wire[c]) : ~IsAnswer(wire[c][j])
        /\ awaited[c] = {Expected(c)}
    BY <1>3, Unanswered
  <2>3. Final(c)'.op = Final(c).op /\ Final(c)'.at = "done" /\ Final(c) = request[c][i]
    BY <1>3, <2>1 DEF Final, n
  <2>4. read[c] = n
    <3>1. read[c] \in Nat /\ request[c][i].at # "sent"
      BY <1>1, <1>2 DEF TypeOK
    <3>2. read[c] <= Len(request[c]) /\ i <= read[c]
      BY <1>2, <3>1 DEF Asking, StageRule, n
    <3> QED BY <1>2, <1>3, <3>1, <3>2 DEF n
  <2>5. Answered(c)' /\ awaited'[c] = {l.id}
    BY <1>2, <1>3, <2>1, <2>2, <2>3, <2>4 DEF Answered, Expected, n
  <2>6. OneAnswer(c)'
    BY <1>1, <1>2, <2>2, <2>5, AnswerStarts
  <2>7. StageRule(c)'
    BY <1>2, <1>3, <2>1, <2>4 DEF Asking, StageRule, n
  <2>8. AskedRule(c)'
    BY <1>2, <1>3, <2>3 DEF Asking, AskedRule, Waiting
  <2>9. AwaitRule(c)'
    <3>1. Expected(c)' = Expected(c) /\ Len(request[c]) > 0
      BY <1>2, <2>1, <2>3 DEF Expected, n
    <3> QED BY <1>2, <2>1, <2>2, <3>1 DEF AwaitRule
  <2> QED BY <1>6, <2>6, <2>7, <2>8, <2>9 DEF Asking
<1> QED BY <1>5, <1>6

LEMMA AskSend ==
  ASSUME BusInv, NEW c \in Conns, Send(c), ~Pipelined, \A d \in Conns : Asking(d), NEW d \in Conns
  PROVE  Asking(d)'
<1> DEFINE n == Len(request[c])
<1>1. TypeOK /\ UNCHANGED <<topics, read, write, wire>> /\ awaited[c] = {}
  BY DEF BusInv, Send, bus, writing
<1>2. PICK op \in Ops, ts \in SUBSET Topics :
        LET r == [op |-> op, topics |-> ts, at |-> "sent"] IN
        /\ request' = [request EXCEPT ![c] = Append(@, r)]
        /\ awaited' = [awaited EXCEPT ![c] = @ \cup {IF op = Bad THEN 0 ELSE n + 1}]
        /\ asked' = [asked EXCEPT ![c] = IF op = Bad THEN @ ELSE TopicsAfter(@, r)]
  BY DEF Send
<1> DEFINE r == [op |-> op, topics |-> ts, at |-> "sent"]
<1>3. request[c] \in Seq(Request) /\ r \in Request /\ r.op = op /\ r.at = "sent" /\ n \in Nat
  <2>1. request[c] \in Seq(Request)
    BY <1>1 DEF TypeOK
  <2>2. n \in Nat
    BY <2>1
  <2>3. r \in Request /\ r.op = op /\ r.at = "sent"
    BY DEF Request
  <2> QED BY <2>1, <2>2, <2>3
<1>4. CASE d # c
  <2>1. request'[d] = request[d] /\ awaited'[d] = awaited[d] /\ asked'[d] = asked[d]
    BY <1>1, <1>2, <1>4 DEF TypeOK
  <2>2. \A u \in Writers : Answering(u, d)' => Answering(u, d) /\ write'[u].line = write[u].line
    BY <1>1 DEF Answering
  <2> QED BY <1>1, <2>1, <2>2, AskKept
<1>5. CASE d = c
  <2>1. awaited'[c] = {IF op = Bad THEN 0 ELSE n + 1}
    BY <1>1, <1>2 DEF TypeOK
  <2>2. asked'[c] = IF op = Bad THEN asked[c] ELSE TopicsAfter(asked[c], r)
    BY <1>1, <1>2 DEF TypeOK
  <2>3. request'[c] = Append(request[c], r)
    BY <1>1, <1>2 DEF TypeOK
  <2> HIDE DEF r
  <2>4. /\ Len(request'[c]) = n + 1 /\ Final(c)' = r
        /\ \A j \in 1..n : request'[c][j] = request[c][j]
        /\ \A j \in 1..(n + 1) : j \in 1..n \/ j = n + 1
    BY <1>3, <2>3 DEF Final
  <2>5. Answered(c) /\ read[c] = n /\ ~Waiting(c) /\ asked[c] = topics[c]
    BY <1>1 DEF Asking, AwaitRule, Answered, AskedRule, Waiting
  <2>6. /\ \A w \in Writers : ~Answering(w, c)
        /\ \A j \in 1..Len(wire[c]) : ~IsAnswer(wire[c][j])
    BY <1>1 DEF Asking, OneAnswer, Right
  <2>7. OneAnswer(c)'
    BY <1>1, <2>6 DEF OneAnswer, Answering
  <2>8. StageRule(c)'
    <3>1. \A j \in 1..n : /\ request[c][j].at # "sent" => j <= n /\ request[c][j].op # Bad
                          /\ request[c][j].op = Bad \/ request[c][j].at = "done"
      BY <1>3, <2>5 DEF Asking, StageRule, Answered, Final
    <3>2. request'[c][n + 1].at = "sent"
      BY <1>3, <2>4 DEF Final
    <3> HIDE DEF n
    <3>3. \A j \in 1..(n + 1) : j < n + 1 => j \in 1..n
      BY <1>3
    <3> QED BY <1>1, <1>3, <2>4, <2>5, <3>1, <3>2, <3>3 DEF StageRule
  <2>9. AskedRule(c)'
    BY <1>1, <1>3, <2>2, <2>4, <2>5 DEF AskedRule, Waiting
  <2>10. AwaitRule(c)'
    <3>1. Expected(c)' = IF op = Bad THEN 0 ELSE n + 1
      BY <1>3, <2>4 DEF Expected
    <3>2. Len(request'[c]) > 0
      BY <1>3, <2>4
    <3> HIDE DEF n
    <3> QED BY <2>1, <3>1, <3>2 DEF AwaitRule
  <2> QED BY <1>5, <2>7, <2>8, <2>9, <2>10 DEF Asking
<1> QED BY <1>4, <1>5

LEMMA AskReceive ==
  ASSUME BusInv, NEW c \in Conns, Receive(c), \A d \in Conns : Asking(d), NEW d \in Conns
  PROVE  Asking(d)'
<1> DEFINE l == wire[c][1]
<1>1. /\ TypeOK /\ UNCHANGED <<topics, read, write, request, asked>>
      /\ wire[c] # << >> /\ wire' = [wire EXCEPT ![c] = Tail(@)]
  BY DEF BusInv, Receive, bus, serving
<1>2. /\ \A e \in Conns : e # c => wire'[e] = wire[e]
      /\ Len(wire[c]) \in Nat \ {0} /\ Head(wire[c]) = l
      /\ \A i \in 1..Len(wire'[c]) : i + 1 \in 1..Len(wire[c]) /\ wire'[c][i] = wire[c][i + 1]
  BY <1>1, Taken
<1>3. /\ awaited'[c] = IF IsAnswer(l) THEN awaited[c] \ {l.id} ELSE awaited[c]
      /\ \A e \in Conns : e # c => awaited'[e] = awaited[e]
  BY <1>1, <1>2 DEF Receive, IsAnswer, TypeOK
<1>4. \A u \in Writers, e \in Conns :
        /\ Answering(u, e)' <=> Answering(u, e)
        /\ write'[u].line = write[u].line
  BY <1>1 DEF Answering
<1>5. CASE d # c
  BY <1>1, <1>2, <1>3, <1>4, <1>5, AskKept
<1>6. CASE d = c
  <2>1. 1 \in 1..Len(wire[c])
    BY <1>2
  <2>2. StageRule(c)' /\ AskedRule(c)' /\ (Answered(c)' <=> Answered(c))
    BY <1>1 DEF Asking, StageRule, AskedRule, Waiting, Final, Answered
  <2> HIDE DEF l
  <2>3. CASE IsAnswer(l)
    <3>1. Right(c, l) /\ awaited'[c] = {}
      BY <1>3, <2>1, <2>3 DEF Asking, OneAnswer, Right, l
    <3>2. \A u \in Writers : ~Answering(u, c)'
      BY <1>4, <2>1, <2>3 DEF Asking, OneAnswer, l
    <3>3. \A i \in 1..Len(wire'[c]) : ~IsAnswer(wire'[c][i])
      BY <1>2, <2>1, <2>3 DEF Asking, OneAnswer, l
    <3>4. OneAnswer(c)'
      BY <3>2, <3>3 DEF OneAnswer
    <3>5. AwaitRule(c)'
      BY <2>2, <3>1 DEF AwaitRule, Right
    <3> QED BY <1>6, <2>2, <3>4, <3>5 DEF Asking
  <2>4. CASE ~IsAnswer(l)
    <3>1. awaited'[c] = awaited[c]
      BY <1>3, <2>4
    <3>2. \A k : Right(c, k) => Right(c, k)'
      BY <2>2, <3>1 DEF Right
    <3>3. AwaitRule(c)'
      BY <1>1, <2>2, <3>1 DEF Asking, AwaitRule, Expected, Final
    <3>4. \A u \in Writers : Answering(u, c)' => Right(c, write[u].line)'
      BY <1>4, <3>2 DEF Asking, OneAnswer
    <3>5. \A i \in 1..Len(wire'[c]) : IsAnswer(wire'[c][i]) => Right(c, wire[c][i])'
      BY <1>2, <3>2 DEF Asking, OneAnswer
    <3>6. \A i, j \in 1..Len(wire'[c]) : IsAnswer(wire'[c][i]) /\ IsAnswer(wire'[c][j]) => i = j
      <4>1. \A i, j \in 1..Len(wire'[c]) : IsAnswer(wire'[c][i]) /\ IsAnswer(wire'[c][j]) => i + 1 = j + 1
        BY <1>2 DEF Asking, OneAnswer
      <4> QED BY <1>2, <4>1
    <3>7. \A u \in Writers, i \in 1..Len(wire'[c]) : ~(Answering(u, c)' /\ IsAnswer(wire'[c][i]))
      BY <1>2, <1>4 DEF Asking, OneAnswer
    <3>8. \A u, v \in Writers : Answering(u, c)' /\ Answering(v, c)' => u = v
      BY <1>4 DEF Asking, OneAnswer
    <3>9. OneAnswer(c)'
      BY <3>4, <3>5, <3>6, <3>7, <3>8 DEF OneAnswer
    <3> QED BY <1>6, <2>2, <3>3, <3>9 DEF Asking
  <2> QED BY <2>3, <2>4
<1> QED BY <1>5, <1>6

LEMMA AskInit == Init => AskInv
<1> SUFFICES ASSUME Init, NEW c \in Conns PROVE Asking(c)
  BY DEF AskInv
<1>1. /\ Len(request[c]) = 0 /\ Len(wire[c]) = 0 /\ read[c] = 0 /\ awaited[c] = {}
      /\ asked[c] = topics[c] /\ \A w \in Writers : write[w] = NoWrite
  BY DEF Init
<1>2. StageRule(c) /\ AskedRule(c) /\ AwaitRule(c)
  BY <1>1 DEF StageRule, AskedRule, AwaitRule, Waiting, Answered
<1>3. OneAnswer(c)
  BY <1>1 DEF OneAnswer, Answering
<1> QED BY <1>2, <1>3 DEF Asking

LEMMA AskStep == BusInv /\ AskInv /\ [Next]_vars => AskInv'
<1> SUFFICES ASSUME BusInv, [Next]_vars, ~Pipelined, \A d \in Conns : Asking(d), NEW d \in Conns
             PROVE  Asking(d)'
  BY DEF AskInv
<1>1. ASSUME NEW w \in Writers, WriteStep(w) PROVE Asking(d)'
  BY <1>1, AskWriter, AskWritten DEF WriteStep
<1>2. ASSUME NEW c \in Conns, ReadStep(c) PROVE Asking(d)'
  BY <1>2, AskScan, AskOthers DEF ReadStep
<1>3. ASSUME NEW c \in Conns, NEW i \in 1..MaxRequests, Handle(c, i) PROVE Asking(d)'
  BY <1>3, AskApply, AskRespond DEF Handle
<1>4. ASSUME NEW c \in Conns, Accept(c) \/ Send(c) \/ Receive(c) \/ HangUp(c) PROVE Asking(d)'
  BY <1>4, AskOthers, AskSend, AskReceive
<1>5. ASSUME NEW p \in Publishers, Snapshot(p) \/ PublishStep(p) PROVE Asking(d)'
  BY <1>5, AskOthers
<1>6. CASE UNCHANGED vars
  BY <1>6, AskOthers
<1> QED BY <1>1, <1>2, <1>3, <1>4, <1>5, <1>6 DEF Next

\* handleSubscribe and handleUnsubscribe: a client that waits for each answer
\* and has them all is subscribed to just what it asked for, whatever the
\* interleaving of its request goroutines, publishers and failing writes.
THEOREM SettledCorrect == Spec => []Settled
<1>1. AskInv => Settled
  BY DEF AskInv, Asking, AwaitRule, AskedRule, Answered, Waiting, Settled
<1> QED BY <1>1, BusInvariant, AskInit, AskStep, PTL DEF Spec

-----------------------------------------------------------------------------
\* DeliverRule: what each step does to a running Publish.

\* What Track leaves of p: nothing is added to throughout but what starts.
Kept(p) == /\ throughout'[p] \subseteq Takers(p)' /\ throughout'[p] \subseteq throughout[p]
           /\ sometime'[p] = sometime[p] \cup Takers(p)'
           /\ reached'[p] = reached[p] \cup Reach(p)

LEMMA TrackKeeps ==
  ASSUME Track, NEW p \in Publishers, ~Starts(p)
  PROVE  Kept(p)
BY DEF Track, Kept

\* A lost connection stays lost.
LEMMA LostStays ==
  ASSUME BusInv, [Next]_vars, NEW c \in Conns, Lost(c)
  PROVE  Lost(c)'
<1>1. TypeOK
  BY DEF BusInv
<1>2. ASSUME NEW w \in Writers, WriteStep(w) PROVE Lost(c)'
  BY <1>1, <1>2 DEF WriteStep, Lock, Written, WriteFails, CloseFailed, Disconnect, Lost, TypeOK
<1>3. ASSUME NEW d \in Conns, ReadStep(d) PROVE Lost(c)'
  BY <1>1, <1>3 DEF ReadStep, Scan, ScanEnds, Closed, Lost, TypeOK
<1>4. ASSUME NEW d \in Conns, NEW i \in 1..MaxRequests, Handle(d, i) PROVE Lost(c)'
  BY <1>4 DEF Handle, Apply, Respond, Lost
<1>5. ASSUME NEW d \in Conns, Accept(d) \/ Send(d) \/ Receive(d) \/ HangUp(d) PROVE Lost(c)'
  BY <1>1, <1>5 DEF Accept, Send, Receive, HangUp, Lost, TypeOK
<1>6. ASSUME NEW p \in Publishers, Snapshot(p) \/ PublishStep(p) PROVE Lost(c)'
  BY <1>6 DEF Snapshot, PublishStep, PublishEnd, Deliver, Lost
<1> QED BY <1>2, <1>3, <1>4, <1>5, <1>6 DEF Next, Lost, vars

\* The write of a publisher, and its Publish, are its own.
LEMMA PublisherAlone ==
  ASSUME BusInv, [Next]_vars, NEW p \in Publishers
  PROVE  \/ write'[Publishing(p)] = write[Publishing(p)] /\ pub'[p] = pub[p]
         \/ WriteStep(Publishing(p)) /\ pub'[p] = pub[p]
         \/ Snapshot(p) \/ PublishStep(p)
<1>1. TypeOK
  BY DEF BusInv
<1>2. ASSUME NEW w \in Writers, WriteStep(w)
      PROVE  /\ pub' = pub
             /\ w = Publishing(p) \/ write'[Publishing(p)] = write[Publishing(p)]
  BY <1>1, <1>2, WritersDiffer
     DEF WriteStep, Lock, Written, WriteFails, CloseFailed, Disconnect, pubs, TypeOK
<1>3. ASSUME NEW c \in Conns, ReadStep(c)
      PROVE  pub' = pub /\ write'[Publishing(p)] = write[Publishing(p)]
  BY <1>1, <1>3, WritersDiffer DEF ReadStep, Scan, ScanEnds, Closed, StartWrite, pubs, writing, TypeOK
<1>4. ASSUME NEW c \in Conns, NEW i \in 1..MaxRequests, Handle(c, i)
      PROVE  pub' = pub /\ write'[Publishing(p)] = write[Publishing(p)]
  BY <1>1, <1>4, WritersDiffer DEF Handle, Apply, Respond, StartWrite, pubs, writing, TypeOK
<1>5. ASSUME NEW c \in Conns, Accept(c) \/ Send(c) \/ Receive(c) \/ HangUp(c)
      PROVE  pub' = pub /\ write' = write
  BY <1>5 DEF Accept, Send, Receive, HangUp, pubs, writing
<1>6. ASSUME NEW q \in Publishers, q # p, Snapshot(q) \/ PublishStep(q)
      PROVE  pub'[p] = pub[p] /\ write'[Publishing(p)] = write[Publishing(p)]
  BY <1>1, <1>6, WritersDiffer
     DEF Snapshot, PublishStep, PublishEnd, Deliver, StartWrite, pubs, writing, TypeOK
<1> QED BY <1>2, <1>3, <1>4, <1>5, <1>6 DEF Next, vars, pubs, writing

\* Steps that are not p's own, and those of its writing.
LEMMA DeliverKept ==
  ASSUME BusInv, [Next]_vars, Track, NEW p \in Publishers, DeliverRule(p),
         pub'[p] = pub[p],
         write'[Publishing(p)] = write[Publishing(p)] \/ WriteStep(Publishing(p))
  PROVE  DeliverRule(p)'
<1> DEFINE w == Publishing(p)
<1>1. TypeOK /\ w \in Writers
  BY WritersDiffer DEF BusInv
<1>2. Kept(p)
  BY TrackKeeps DEF Starts
<1>3. /\ Reach(p) \subseteq Conns
      /\ \A c \in Reach(p) : To(p, c)
  <2>1. CASE Reach(p) = {}
    BY <2>1
  <2>2. CASE write[w].at = "writing" /\ Reach(p) = {write[w].to}
    BY <1>1, <2>2, WriterHas DEF To
  <2> QED BY <2>1, <2>2 DEF Reach
<1>4. reached'[p] \subseteq sometime'[p]
  BY <1>2, <1>3 DEF Kept, DeliverRule
<1>5. \A c \in Conns : To(p, c)' => To(p, c)
  <2>1. CASE write'[w] = write[w]
    BY <2>1 DEF To
  <2>2. CASE Lock(w) \/ WriteFails(w)
    <3>1. write[w].at # "none"
      BY <2>2 DEF Lock, WriteFails
    <3>2. write'[w].to = write[w].to /\ write[w] # NoWrite
      BY <1>1, <2>2, <3>1, Moved, WriterHas DEF Lock, WriteFails
    <3> QED BY <3>2 DEF To
  <2>3. CASE Written(w) \/ CloseFailed(w)
    BY <1>1, <2>3, Ended DEF Written, CloseFailed, Disconnect, To
  <2> QED BY <2>1, <2>2, <2>3 DEF WriteStep
<1>6. \A c \in Conns : To(p, c)' => c \in sometime'[p]
  BY <1>2, <1>5 DEF Kept, DeliverRule
<1>7. \A c \in Conns : To(p, c) => To(p, c)' \/ c \in Reach(p) \/ Lost(c)'
  <2>1. CASE write'[w] = write[w]
    BY <2>1 DEF To
  <2>2. CASE Lock(w) \/ WriteFails(w)
    <3>1. write[w].at # "none"
      BY <2>2 DEF Lock, WriteFails
    <3>2. write'[w].to = write[w].to /\ write'[w] # NoWrite
      BY <1>1, <2>2, <3>1, Moved DEF Lock, WriteFails
    <3> QED BY <3>2 DEF To
  <2>3. CASE Written(w)
    BY <1>1, <2>3, Ended DEF Written, To, Reach
  <2>4. CASE CloseFailed(w)
    <3>1. conn[write[w].to] # "none" /\ write[w].to \in Conns
      BY <1>1, <2>4, WriterHas DEF BusInv, StartRule, CloseFailed
    <3>2. \A c \in Conns : c = write[w].to => Lost(c)'
      BY <1>1, <2>4, <3>1 DEF CloseFailed, Disconnect, Lost, TypeOK
    <3> QED BY <3>2 DEF To
  <2> QED BY <2>1, <2>2, <2>3, <2>4 DEF WriteStep
<1>8. pub'[p] # Idle => \A c \in throughout'[p] :
        c \in pub'[p].todo \/ To(p, c)' \/ c \in reached'[p] \/ Lost(c)'
  <2> SUFFICES ASSUME pub[p] # Idle, NEW c \in throughout'[p]
               PROVE  c \in pub[p].todo \/ To(p, c)' \/ c \in reached'[p] \/ Lost(c)'
    OBVIOUS
  <2>1. c \in throughout[p] /\ c \in Conns
    BY <1>1, <1>2 DEF Kept, DeliverRule, Takers, TypeOK
  <2>2. c \in pub[p].todo \/ To(p, c) \/ c \in reached[p] \/ Lost(c)
    BY <2>1 DEF DeliverRule
  <2> QED BY <1>2, <1>7, <2>1, <2>2, LostStays DEF Kept
<1> QED BY <1>2, <1>4, <1>6, <1>8 DEF Kept, DeliverRule

LEMMA DeliverSnapshot ==
  ASSUME BusInv, Track, NEW p \in Publishers, DeliverRule(p), Snapshot(p)
  PROVE  DeliverRule(p)'
<1>1. TypeOK /\ LeaveRule /\ UNCHANGED <<bus, write>>
  BY DEF BusInv, Snapshot, writing
<1>2. pub[p] = Idle /\ pub'[p].todo = members /\ pub'[p] # Idle
  BY <1>1, IpcBusAssumption DEF Snapshot, TypeOK, Idle
<1>3. write[Publishing(p)] = NoWrite
  BY <1>1, <1>2 DEF LeaveRule
<1>4. throughout'[p] = Takers(p)' /\ sometime'[p] = Takers(p)' /\ reached'[p] = {}
  BY <1>2 DEF Track, Starts
<1>5. Takers(p)' \subseteq pub'[p].todo
  BY <1>1, <1>2 DEF Takers, bus
<1>6. \A c \in Conns : ~To(p, c)'
  BY <1>1, <1>3 DEF To
<1> QED BY <1>4, <1>5, <1>6 DEF DeliverRule

LEMMA DeliverDeliver ==
  ASSUME BusInv, [Next]_vars, Track, NEW p \in Publishers, DeliverRule(p),
         NEW c \in Conns, Deliver(p, c)
  PROVE  DeliverRule(p)'
<1> DEFINE w == Publishing(p)
<1>1. /\ TypeOK /\ LeaveRule /\ w \in Writers
      /\ write[w] = NoWrite /\ UNCHANGED <<conn, members, closed, topics>>
  BY WritersDiffer DEF BusInv, Deliver, bus
<1>2. /\ pub[p] # Idle /\ pub'[p] # Idle /\ c \in pub[p].todo /\ Event(p) \in Lines
      /\ pub'[p].topic = pub[p].topic /\ pub'[p].todo = pub[p].todo \ {c}
  BY <1>1, Delivered
<1>3. Kept(p) /\ Reach(p) = {}
  <2>1. write[w].at # "writing"
    BY <1>1 DEF NoWrite
  <2> QED BY <1>2, <2>1, TrackKeeps DEF Starts, Reach
<1>4. Takers(p)' = Takers(p)
  BY <1>1, <1>2 DEF Takers
<1>5. CASE Subscribed(c, pub[p].topic)
  <2>1. write'[w].to = c /\ write'[w] # NoWrite
    BY <1>1, <1>2, <1>5, Begun DEF Deliver
  <2>2. c \in Takers(p)'
    BY <1>1, <1>2, <1>4, <1>5 DEF LeaveRule, Subscribed, Takers
  <2>3. \A d \in Conns : To(p, d)' <=> d = c
    BY <2>1 DEF To
  <2>4. \A d \in throughout'[p] :
          d \in pub'[p].todo \/ To(p, d)' \/ d \in reached'[p] \/ Lost(d)'
    <3> TAKE d \in throughout'[p]
    <3>1. d \in throughout[p] /\ d \in Conns /\ ~To(p, d)
      BY <1>1, <1>3 DEF Kept, DeliverRule, Takers, TypeOK, To
    <3>2. d \in pub[p].todo \/ d \in reached[p] \/ Lost(d)
      BY <1>2, <3>1 DEF DeliverRule
    <3> QED BY <1>2, <1>3, <2>3, <3>1, <3>2, LostStays DEF Kept
  <2> QED BY <1>3, <1>4, <2>2, <2>3, <2>4 DEF Kept, DeliverRule
<1>6. CASE ~Subscribed(c, pub[p].topic)
  <2>1. write' = write
    BY <1>6 DEF Deliver
  <2>2. c \notin Takers(p)
    BY <1>6 DEF Takers, Subscribed
  <2>3. \A d \in Conns : ~To(p, d)'
    BY <1>1, <2>1 DEF To
  <2>4. \A d \in throughout'[p] :
          d \in pub'[p].todo \/ To(p, d)' \/ d \in reached'[p] \/ Lost(d)'
    <3> TAKE d \in throughout'[p]
    <3>1. d \in throughout[p] /\ d \in Conns /\ ~To(p, d) /\ d # c
      BY <1>1, <1>3, <1>4, <2>2 DEF Kept, DeliverRule, Takers, TypeOK, To
    <3>2. d \in pub[p].todo \/ d \in reached[p] \/ Lost(d)
      BY <1>2, <3>1 DEF DeliverRule
    <3> QED BY <1>2, <1>3, <3>1, <3>2, LostStays DEF Kept
  <2> QED BY <1>3, <2>3, <2>4 DEF Kept, DeliverRule
<1> QED BY <1>5, <1>6

LEMMA DeliverEnd ==
  ASSUME BusInv, Track, NEW p \in Publishers, DeliverRule(p), PublishEnd(p)
  PROVE  DeliverRule(p)'
<1>1. pub'[p] = Idle /\ pub[p] # Idle /\ write[Publishing(p)] = NoWrite /\ write' = write
  BY DEF BusInv, TypeOK, PublishEnd, writing
<1>2. Kept(p) /\ Reach(p) = {}
  <2>1. write[Publishing(p)].at # "writing"
    BY <1>1 DEF NoWrite
  <2> QED BY <1>1, <2>1, TrackKeeps DEF Starts, Reach
<1>3. \A c \in Conns : ~To(p, c)'
  BY <1>1 DEF To
<1> QED BY <1>1, <1>2, <1>3 DEF Kept, DeliverRule

LEMMA HInitial == HInit => HInv
<1> SUFFICES ASSUME HInit, NEW p \in Publishers PROVE DeliverRule(p)
  BY BusInit DEF HInv, HInit
<1>1. /\ throughout[p] = {} /\ reached[p] = {} /\ pub[p] = Idle
      /\ \A w \in Writers : write[w] = NoWrite
  BY DEF HInit, Init
<1>2. \A c \in Conns : ~To(p, c)
  BY <1>1, WritersDiffer DEF To
<1> QED BY <1>1, <1>2 DEF DeliverRule

LEMMA HStep == HInv /\ [Next /\ Track]_<<vars, history>> => HInv'
<1> SUFFICES ASSUME HInv, [Next /\ Track]_<<vars, history>> PROVE HInv'
  OBVIOUS
<1>1. BusInv /\ [Next]_vars
  BY DEF HInv, history
<1>2. BusInv'
  BY <1>1, BusStep
<1>3. CASE Next /\ Track
  <2> SUFFICES ASSUME NEW p \in Publishers PROVE DeliverRule(p)'
    BY <1>2 DEF HInv
  <2>1. DeliverRule(p)
    BY DEF HInv
  <2>2. ASSUME PublishStep(p) PROVE DeliverRule(p)'
    BY <1>1, <1>3, <2>1, <2>2, DeliverEnd, DeliverDeliver DEF PublishStep
  <2> QED BY <1>1, <1>3, <2>1, <2>2, PublisherAlone, DeliverKept, DeliverSnapshot
<1>4. CASE UNCHANGED <<vars, history>>
  <2>1. UNCHANGED <<throughout, sometime, reached, pub, write, conn, members, closed, topics>>
    BY <1>4 DEF vars, history, bus, pubs, writing
  <2> QED BY <1>2, <2>1 DEF HInv, DeliverRule, Takers, To, Lost
<1> QED BY <1>3, <1>4

\* EventBus.Publish: when it is over it has written the event to every
\* connection that was subscribed all through it and is still there, and to
\* none that was not subscribed at some moment of it.
THEOREM DeliversCorrect == HSpec => []Delivers
<1>1. HInv => Delivers
  <2> SUFFICES ASSUME HInv, NEW p \in Publishers
               PROVE  /\ Over(p) => \A c \in throughout[p] :
                                      c \in reached[p] \/ conn[c] \in {"hungup", "closed"}
                      /\ reached[p] \subseteq sometime[p]
    BY DEF Delivers
  <2>1. DeliverRule(p)
    BY DEF HInv
  <2> QED BY <2>1 DEF DeliverRule, Over, To, Lost
<1> QED BY <1>1, HInitial, HStep, PTL DEF HSpec
=============================================================================

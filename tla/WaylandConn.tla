----------------------------- MODULE WaylandConn -----------------------------
(***************************************************************************)
(* A client connection of wayland/client (context.go, event.go): the       *)
(* object table, and the reading of events, header and body in two system  *)
(* calls, with the file descriptors that travel beside them.  A flush of   *)
(* the compositor hands over all its descriptors with the first byte, so   *)
(* they run ahead of their events; it may also end inside an event, and a  *)
(* read that meets the cut inside a header or a body is short, an error.   *)
(* The clipboard's Owner reads when poll says so and waits for the body;   *)
(* its Watch reads under a deadline.  The model ends where the place in    *)
(* the stream is lost: what is read after it is noise.                     *)
(***************************************************************************)
EXTENDS Naturals, Sequences

CONSTANTS Objects,     \* the client's objects, registered and used by the compositor
          MaxEvents    \* bound: events of the compositor

VARIABLES
  table,       \* ctx.objects: "live", "zombie" (destroyed), "deleted"
  gone,        \* objects whose destroy request the compositor has handled
  out, wire,   \* events the compositor has buffered; the ones the socket holds
  outfds,      \* the descriptors of those it has buffered
  torn,        \* the rest of the last event on the wire has not come
  sent,        \* events so far
  at, reading, \* the goroutine that reads: "idle", "body", "dispatch"; the event it is at
  fds, fd,     \* ctx.fds; the descriptor popped for the event, or 0
  given,       \* the descriptor each event's handler got
  closed,      \* descriptors closed
  deadline,    \* a read deadline is set (Watch)
  desync       \* the next header would be read elsewhere than where one begins

server == <<gone, out, outfds, wire, torn, sent>>
receiving == <<at, reading, fds, fd, given, closed, desync>>
vars   == <<table, server, receiving, deadline>>

NoFd == 0
NoEvent == [n |-> 0, kind |-> "none", obj |-> "none", fds |-> << >>, cut |-> "no"]

HasBody(e) == e.kind # "plain"

-----------------------------------------------------------------------------
\* The compositor: events of an object until it has handled its destruction,
\* then delete_id.  Descriptor n travels with event n, if it takes one.

Emit(kind, o) ==
  /\ sent < MaxEvents /\ sent' = sent + 1
  /\ out' = Append(out, [n |-> sent + 1, kind |-> kind, obj |-> o, fds |-> << >>, cut |-> "no"])
  /\ outfds' = IF kind = "send" THEN Append(outfds, sent + 1) ELSE outfds
  /\ UNCHANGED <<wire, torn>>

Sends(o) ==
  /\ o \notin gone
  /\ \E kind \in {"send", "plain"} : Emit(kind, o)
  /\ UNCHANGED <<table, gone, receiving, deadline>>

DeletesId(o) ==
  /\ table[o] = "zombie" /\ o \notin gone
  /\ gone' = gone \cup {o}
  /\ Emit("delete_id", o)
  /\ UNCHANGED <<table, receiving, deadline>>

\* Where a flush may end: behind its last event, or inside its header, between
\* header and body, inside its body.
Cuts(e) == {"no", "header"} \cup (IF HasBody(e) THEN {"between", "body"} ELSE {})

Flush ==
  /\ out # << >> /\ ~torn
  /\ \E c \in Cuts(out[Len(out)]) :
       /\ wire' = wire \o [out EXCEPT ![1].fds = outfds, ![Len(out)].cut = c]
       /\ torn' = (c # "no")
  /\ out' = << >> /\ outfds' = << >>
  /\ UNCHANGED <<table, gone, sent, receiving, deadline>>

FlushRest == /\ torn /\ torn' = FALSE
             /\ UNCHANGED <<table, gone, out, outfds, wire, sent, receiving, deadline>>

-----------------------------------------------------------------------------
\* ReadMsg.  A header or a body that was cut is read short while its rest is to
\* come; it may be later too, for the socket does not join what came with
\* descriptors to what came after it.

Outstanding == torn /\ Len(wire) = 1

ReadHeader ==
  /\ at = "idle" /\ wire # << >> /\ ~desync
  /\ fds' = fds \o Head(wire).fds
  /\ \/ /\ ~(Outstanding /\ Head(wire).cut = "header")
        /\ at' = "body" /\ reading' = Head(wire) /\ UNCHANGED desync
     \/ /\ Head(wire).cut = "header"
        /\ desync' = TRUE /\ UNCHANGED <<at, reading>>
  /\ UNCHANGED <<table, server, fd, given, closed, deadline>>

\* The interface of the sender says which events take a descriptor: an object
\* of the table, zombies included.
TakesFd(e) == e.kind = "send" /\ table[e.obj] # "deleted"

ReadBody ==
  /\ at = "body"
  /\ \/ /\ ~Outstanding
        /\ at' = "dispatch" /\ wire' = Tail(wire) /\ UNCHANGED desync
        /\ IF TakesFd(reading) /\ fds # << >>
           THEN fd' = Head(fds) /\ fds' = Tail(fds)
           ELSE fd' = NoFd /\ UNCHANGED fds
     \/ /\ Head(wire).cut = "body"
        /\ at' = "idle" /\ desync' = TRUE /\ UNCHANGED <<wire, fd, fds>>
  /\ UNCHANGED <<table, gone, out, outfds, torn, sent, reading, given, closed, deadline>>

\* The deadline passes between the two calls: the error is a timeout to the
\* loop of Watch, which reads on, at the body.
Interrupted == deadline

Expire ==
  /\ at = "body" /\ HasBody(reading) /\ Interrupted
  /\ at' = "idle" /\ desync' = TRUE
  /\ UNCHANGED <<table, server, reading, fds, fd, given, closed, deadline>>

\* GetDispatch: an event of an object unknown or destroyed is dropped and its
\* descriptor closed, delete_id forgets the object, any other goes to its
\* handler, which may destroy the object.
Dispatch ==
  /\ at = "dispatch"
  /\ at' = "idle" /\ reading' = NoEvent /\ fd' = NoFd
  /\ IF reading.kind = "delete_id"
     THEN table' = [table EXCEPT ![reading.obj] = "deleted"] /\ UNCHANGED <<given, closed>>
     ELSE IF table[reading.obj] # "live"
     THEN closed' = closed \cup ({fd} \ {NoFd}) /\ UNCHANGED <<table, given>>
     ELSE /\ given' = [given EXCEPT ![reading.n] = fd] /\ UNCHANGED closed
          /\ \/ UNCHANGED table
             \/ table' = [table EXCEPT ![reading.obj] = "zombie"]
  /\ UNCHANGED <<server, fds, deadline, desync>>

\* Destroy of the generated code: the request, and MarkZombie.
Destroy(o) ==
  /\ at = "idle" /\ table[o] = "live"
  /\ table' = [table EXCEPT ![o] = "zombie"]
  /\ UNCHANGED <<server, receiving, deadline>>

Init ==
  /\ table = [o \in Objects |-> "live"] /\ gone = {}
  /\ out = << >> /\ outfds = << >> /\ wire = << >> /\ torn = FALSE /\ sent = 0
  /\ at = "idle" /\ reading = NoEvent /\ fds = << >> /\ fd = NoFd
  /\ given = [n \in 1..MaxEvents |-> NoFd] /\ closed = {}
  /\ deadline \in BOOLEAN /\ desync = FALSE

Next == \/ \E o \in Objects : Sends(o) \/ DeletesId(o) \/ Destroy(o)
        \/ Flush \/ FlushRest \/ ReadHeader \/ ReadBody \/ Expire \/ Dispatch

Spec == Init /\ [][Next]_vars

-----------------------------------------------------------------------------
TypeOK ==
  /\ table \in [Objects -> {"live", "zombie", "deleted"}] /\ gone \subseteq Objects
  /\ sent \in 0..MaxEvents /\ Len(out) + Len(wire) <= sent
  /\ at \in {"idle", "body", "dispatch"} /\ fd \in 0..MaxEvents
  /\ given \in [1..MaxEvents -> 0..MaxEvents] /\ closed \subseteq 1..MaxEvents

\* An event is dispatched with the descriptor sent for it, and when everything is
\* read none is left behind or closed that a handler has: in batches, past
\* events of objects destroyed meanwhile, and past their delete_id.  And "it
\* reads a message header and body in two syscalls, so interrupting it partway
\* would desync the stream": a connection that sets no deadline loses its place
\* only at an event whose header or body itself came in two pieces; one that
\* was cut between the two is waited for.
FdPairing ==
  /\ desync => deadline \/ Head(wire).cut \in {"header", "body"}
  /\ at = "dispatch" => fd = IF reading.kind = "send" THEN reading.n ELSE NoFd
  /\ \A n \in 1..MaxEvents : given[n] \in {NoFd, n} /\ ~(given[n] # NoFd /\ n \in closed)
  /\ wire = << >> /\ at = "idle" /\ ~desync => fds = << >>
=============================================================================

----------------------------- MODULE WaylandWire -----------------------------
(***************************************************************************)
(* The messages of wayland/client on the wire, as the code                 *)
(* cmd/go-wayland-scanner writes encodes and decodes them, and the two     *)
(* object tables they name objects in: ctx.objects with its zombies, and   *)
(* the resources of the compositor, which forgets an object when it        *)
(* handles the destructor and then hands out a server id again.            *)
(* An object is told from a later one of the same id by what it stands     *)
(* for, "of"; a message carries what its sender meant.  A string is its    *)
(* length.  The compositor follows the wire format and the protocol.       *)
(***************************************************************************)
EXTENDS WireFormat, SequencesExt

CONSTANTS
  Interfaces,  \* the messages of each interface: Generated of WaylandInterfaces
  Scenes       \* bounds of a behaviour: [setup: objects bound at the start, calls,
               \* events: messages used, limit: how many, lengths: of strings and arrays]

VARIABLES
  scene,
  objects, currentID,   \* ctx.objects and ctx.currentID
  resources,            \* the compositor's objects
  toServer, toClient,   \* messages on the way
  sent, made,           \* messages and objects so far
  revived,              \* ids an event gave a new proxy after the client destroyed the object
  last                  \* the last message taken in: what was meant, what was got

vars == <<scene, objects, currentID, resources, toServer, toClient, sent, made, revived, last>>

DeleteIdOpcode == 1
FirstServerID  == 100      \* 0xff000000

-----------------------------------------------------------------------------
Proxy(i, of) == [interface |-> i, zombie |-> FALSE, of |-> of]

\* The arguments a message may have: ids of the objects the sender knows, id
\* for a new one.
ValuesOf(a, ids, id) ==
  CASE a.type \in {"string", "array"} -> {Bytes(n) : n \in Scenes[scene].lengths}
    [] a.type = "maybeString" -> {Bytes(n) : n \in Scenes[scene].lengths} \cup {NullString}
    [] a.type = "fd"     -> {Descriptor}
    [] a.type = "new"    -> {Object(id)}
    [] a.type = "global" -> {Item("global", id, i) : i \in {"wl_shm", "wl_seat", "xdg_wm_base"}}
    [] a.type = "any"    -> {Object(o) : o \in DOMAIN ids}
    [] a.type \in {"object", "maybe"} ->
         {Object(o) : o \in {x \in DOMAIN ids : ids[x] = a.of}}
         \cup (IF a.type = "maybe" THEN {Object(0)} ELSE {})
    [] OTHER -> {Word(7)}

Arguments(args, ids, id) ==
  FoldLeft(LAMBDA lists, a : {Append(s, v) : s \in lists, v \in ValuesOf(a, ids, id)}, {<< >>}, args)

\* The interface of the object a message creates.
Creates(args, values) ==
  LET creating == {k \in DOMAIN args : args[k].type \in {"new", "global"}} IN
  IF creating = {} THEN None
  ELSE LET k == CHOOSE x \in creating : TRUE
       IN IF args[k].type = "new" THEN args[k].of ELSE values[k].of

\* What a value stands for, to one who knows these objects.
StandsFor(known, v) ==
  IF v.kind \notin {"object", "global"} \/ v.n = 0 THEN v
  ELSE [v EXCEPT !.n = IF v.n \in DOMAIN known THEN known[v.n].of ELSE 0]
Meaning(known, id, values) ==
  [of |-> known[id].of, args |-> [k \in DOMAIN values |-> StandsFor(known, values[k])]]
Names(id, values) == {id} \cup {values[k].n : k \in {x \in DOMAIN values : values[x].kind = "object"}}

Message(id, opcode, size, data, meant, names) ==
  [id |-> id, opcode |-> opcode, size |-> size, data |-> data, fd |-> Descriptor,
   meant |-> meant, names |-> names]

Nothing == [of |-> 0, args |-> << >>]
Judge(m, got, excused) == last' = [meant |-> m.meant, got |-> got, excused |-> excused]

-----------------------------------------------------------------------------
\* The client.

LiveOrZombie(table, id, i) == id \in DOMAIN table /\ table[id].interface = i
Live(table, id, i) == id \in DOMAIN table /\ ~table[id].zombie /\ table[id].interface = i

SameID == currentID
NextID == currentID + 1

\* A request method: Register for the object it creates, the message, and
\* MarkZombie when it is a destructor.
Call(id, k) ==
  LET p == objects[id]
      r == Interfaces[p.interface].requests[k]
      open == [o \in {x \in DOMAIN objects : ~objects[x].zombie} |-> objects[o].interface]
  IN
  /\ sent < Scenes[scene].limit /\ ~p.zombie /\ r.name \in Scenes[scene].calls
  /\ \E values \in Arguments(r.args, open, NextID) :
       LET i == Creates(r.args, values)
           known == IF i = None THEN objects ELSE (NextID :> Proxy(i, made + 1)) @@ objects
       IN /\ IF i = None THEN UNCHANGED <<currentID, made>>
             ELSE currentID' = NextID /\ made' = made + 1
          /\ objects' = IF r.destructor THEN [known EXCEPT ![id].zombie = TRUE] ELSE known
          /\ toServer' = Append(toServer, Message(id, k - 1, SizeOfArgs(values), PutArgs(values).data,
                                                  Meaning(known, id, values), Names(id, values)))
  /\ sent' = sent + 1
  /\ UNCHANGED <<scene, resources, toClient, revived, last>>

\* Destroy of an interface without a destructor.
Destroy(id) ==
  /\ "Destroy" \in Scenes[scene].calls /\ ~objects[id].zombie
  /\ \A k \in DOMAIN Interfaces[objects[id].interface].requests :
       ~Interfaces[objects[id].interface].requests[k].destructor
  /\ objects' = [objects EXCEPT ![id].zombie = TRUE]
  /\ UNCHANGED <<scene, currentID, resources, toServer, toClient, sent, made, revived, last>>

\* The object arguments of an event: the live proxy of that interface, or a
\* new one in its place (RegisterWithID).
Registered(table, args, got, meant) ==
  FoldLeft(LAMBDA t, k :
             IF args[k].type \notin {"object", "maybe", "new"} \/ got[k].n = 0
                \/ Live(t, got[k].n, args[k].of)
             THEN t ELSE (got[k].n :> Proxy(args[k].of, meant[k].n)) @@ t,
           table, [k \in DOMAIN args |-> k])

Without(table, id) == [o \in DOMAIN table \ {id} |-> table[o]]

\* GetDispatch and Dispatch: an event of an object that is unknown or
\* destroyed is dropped, one without a handler too.
Handle(m) ==
  LET e == Interfaces[objects[m.id].interface].events[m.opcode + 1]
      read == ReadArgs(m, e.args)
      known == Registered(objects, e.args, read.args, m.meant.args)
      got == [k \in DOMAIN e.args |-> StandsFor(known, read.args[k])]
      again == {id \in DOMAIN objects \cap DOMAIN known :
                  /\ objects[id].zombie /\ ~known[id].zombie
                  /\ objects[id].of = known[id].of}
  IN IF Bad \in ToSet(read.args)                       \* a panic, recovered
     THEN Judge(m, Nothing, NullString \in ToSet(m.meant.args)) /\ UNCHANGED <<objects, revived>>
     ELSE /\ objects' = IF e.name = "DeleteId" THEN Without(objects, read.args[1].n) ELSE known
          /\ revived' = revived \cup again
          /\ Judge(m, [of |-> objects[m.id].of, args |-> got], m.names \cap revived' # {})

Dispatch ==
  /\ toClient # << >> /\ toClient' = Tail(toClient)
  /\ LET m == Head(toClient) IN
     IF m.id \notin DOMAIN objects \/ objects[m.id].zombie
     THEN Judge(m, Nothing, m.id \in DOMAIN objects) /\ UNCHANGED <<objects, revived>>
     ELSE \/ Handle(m)
          \/ (m.id # 1 \/ m.opcode # DeleteIdOpcode) /\ UNCHANGED <<objects, revived, last>>
  /\ UNCHANGED <<scene, currentID, resources, toServer, sent, made>>

-----------------------------------------------------------------------------
\* The compositor.  Freed client ids are told with delete_id.

EventMessage(known, id, k, args, values) ==
  LET buf == WirePutArgs(args, values)
  IN Message(id, k - 1, buf.l, buf.data, Meaning(known, id, values), Names(id, values))

DeletedId(id) ==
  IF id >= FirstServerID THEN << >>
  ELSE <<EventMessage(resources, 1, DeleteIdOpcode + 1,
                      Interfaces["wl_display"].events[DeleteIdOpcode + 1].args, <<Word(id)>>)>>

Emit(id, k) ==
  LET e == Interfaces[resources[id].interface].events[k]
      ids == [o \in DOMAIN resources |-> resources[o].interface]
      free == CHOOSE o \in FirstServerID..(FirstServerID + made + 2) :
                /\ o \notin DOMAIN resources
                /\ \A o2 \in FirstServerID..(o - 1) : o2 \in DOMAIN resources
      ends == resources[id].interface = "wl_callback"
  IN
  /\ sent < Scenes[scene].limit /\ e.name \in Scenes[scene].events \ {"DeleteId"}
  /\ \E values \in Arguments(e.args, ids, free) :
       LET i == Creates(e.args, values)
           known == IF i = None THEN resources ELSE (free :> Proxy(i, made + 1)) @@ resources
       IN /\ made' = IF i = None THEN made ELSE made + 1
          /\ resources' = IF ends THEN Without(known, id) ELSE known
          /\ toClient' = toClient \o <<EventMessage(known, id, k, e.args, values)>>
                                  \o (IF ends THEN DeletedId(id) ELSE << >>)
  /\ sent' = sent + 1
  /\ UNCHANGED <<scene, objects, currentID, toServer, revived, last>>

Serve ==
  /\ toServer # << >> /\ toServer' = Tail(toServer)
  /\ LET m == Head(toServer)
         excused == m.names \cap revived # {}
         i == IF m.id \in DOMAIN resources THEN resources[m.id].interface ELSE None
     IN
     IF i = None \/ m.opcode >= Len(Interfaces[i].requests)
     THEN Judge(m, Nothing, excused) /\ UNCHANGED <<resources, toClient>>
     ELSE LET r == Interfaces[i].requests[m.opcode + 1]
              read == WireReadArgs(m, r.args)
              creating == {k \in DOMAIN r.args : r.args[k].type \in {"new", "global"}}
              known == FoldSet(LAMBDA k, t : (read.args[k].n :>
                         Proxy(Creates(r.args, read.args), m.meant.args[k].n)) @@ t, resources, creating)
              fresh == \A k \in creating : read.args[k].n \notin DOMAIN resources
              got == [k \in DOMAIN r.args |-> StandsFor(known, read.args[k])]
          IN /\ Judge(m, IF fresh /\ read.l = m.size THEN [of |-> resources[m.id].of, args |-> got]
                         ELSE Nothing, excused)
             /\ resources' = IF r.destructor THEN Without(known, m.id) ELSE known
             /\ toClient' = toClient \o (IF r.destructor THEN DeletedId(m.id) ELSE << >>)
  /\ UNCHANGED <<scene, objects, currentID, sent, made, revived>>

-----------------------------------------------------------------------------
Init ==
  /\ scene \in DOMAIN Scenes
  /\ objects = [id \in DOMAIN Scenes[scene].setup |-> Proxy(Scenes[scene].setup[id], -id)]
  /\ resources = objects
  /\ currentID = Cardinality({id \in DOMAIN objects : id < FirstServerID})
  /\ toServer = << >> /\ toClient = << >> /\ sent = 0 /\ made = 0 /\ revived = {}
  /\ last = [meant |-> Nothing, got |-> Nothing, excused |-> FALSE]

Next ==
  \/ \E id \in DOMAIN objects :
       \/ \E k \in DOMAIN Interfaces[objects[id].interface].requests : Call(id, k)
       \/ Destroy(id)
  \/ \E id \in DOMAIN resources :
       \E k \in DOMAIN Interfaces[resources[id].interface].events : Emit(id, k)
  \/ Dispatch
  \/ Serve

Spec == Init /\ [][Next]_vars

-----------------------------------------------------------------------------
TypeOK ==
  /\ \A id \in DOMAIN objects : id = 0 \/ objects[id].interface \in DOMAIN Interfaces
  /\ \A id \in DOMAIN objects : id <= currentID \/ id >= FirstServerID
  /\ sent <= Scenes[scene].limit

\* Whoever takes a message in understands what its sender meant: the object,
\* and every argument, whatever the lengths of the strings before it, and
\* whichever object had the id before.  Two exceptions the code has: a NULL
\* string makes Dispatch panic, and an event naming an object the client has
\* just destroyed revives it, as a proxy the compositor soon knows nothing of.
Understood == last.got = last.meant \/ last.excused
=============================================================================

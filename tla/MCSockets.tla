------------------------------ MODULE MCSockets ------------------------------
(* Four components that do not interact, checked in one run: a behaviour is  *)
(* one of IpcDelivery, of WaylandConn, of WaylandWire or of SchemeColors.    *)
(* For WaylandWire it is one of three scenes: one message, each of every     *)
(* interface; a clipboard device and its offers; a pointer and surfaces.     *)
EXTENDS IpcDelivery, SequencesExt

CONSTANTS Objects, MaxEvents, MaxMessages, Interfaces, Scenes, Variants, Given, Nil

VARIABLES
  which,
  table, gone, out, outfds, stream, torn, events, at, reading, fds, popped, given, shut, timed, desync,
  scene, objects, currentID, resources, toServer, toClient, sent, made, revived, last,
  scheme, palettes, stack

busvars  == <<vars, history>>
connvars == <<table, gone, out, outfds, stream, torn, events, at, reading, fds, popped, given, shut, timed, desync>>
wirevars == <<scene, objects, currentID, resources, toServer, toClient, sent, made, revived, last>>
huevars  == <<scheme, palettes, stack>>

W == INSTANCE WaylandConn WITH wire <- stream, sent <- events, fd <- popped, closed <- shut,
                                deadline <- timed
I == INSTANCE WaylandInterfaces

Protocols == I!Generated

\* One object of every interface; the offers are the compositor's.
Offers == {"wl_data_offer", "ext_data_control_offer_v1"}
Bound == FoldSet(LAMBDA i, s : Append(s, i), <<"wl_display">>,
                 DOMAIN Interfaces \ ({"wl_display"} \cup Offers))
EveryObject == Bound @@ (100 :> "wl_data_offer") @@ (101 :> "ext_data_control_offer_v1")

NamesOf(messages) == {messages[k].name : k \in DOMAIN messages}
EveryCall  == UNION {NamesOf(Interfaces[i].requests) : i \in DOMAIN Interfaces}
EveryEvent == UNION {NamesOf(Interfaces[i].events) : i \in DOMAIN Interfaces}

MCScenes ==
  [all |-> [setup |-> EveryObject, calls |-> EveryCall, events |-> EveryEvent,
            limit |-> 1, lengths |-> 0..4],
   clipboard |-> [setup |-> <<"wl_display", "ext_data_control_device_v1">>,
                  calls |-> {"Sync", "Destroy", "Receive"},
                  events |-> {"Done", "DataOffer", "Selection"},
                  limit |-> MaxMessages, lengths |-> {2}],
   pointer |-> [setup |-> <<"wl_display", "wl_compositor", "wl_pointer">>,
                calls |-> {"CreateSurface", "Destroy", "SetCursor"}, events |-> {"Enter"},
                limit |-> MaxMessages, lengths |-> {2}]]

M == INSTANCE WaylandWire
C == INSTANCE SchemeColors

\* Both ends can tell each other every message of the three protocols.
ASSUME ReadableAssumption ==
  \A i \in DOMAIN Interfaces :
    /\ \A k \in DOMAIN Interfaces[i].requests : M!RequestArgs(Interfaces[i].requests[k].args)
    /\ \A k \in DOMAIN Interfaces[i].events : M!EventArgs(Interfaces[i].events[k].args)

\* The components but the one of this behaviour rest in one initial state.
MCInit == /\ HInit /\ W!Init /\ M!Init /\ C!Init
          /\ which \in {"bus", "conn", "wire", "colors"}
          /\ which = "conn" \/ ~timed
          /\ which = "wire" \/ scene = "clipboard"
          /\ which = "colors" \/ /\ scheme.version = 2021 /\ scheme.variant = CHOOSE v \in Variants : TRUE
                                 /\ ~scheme.dark /\ ~scheme.phone /\ ~scheme.raised
                                 /\ palettes["error"] = "default"

MCNext == /\ UNCHANGED which
          /\ \/ which = "bus" /\ Next /\ Track /\ UNCHANGED <<connvars, wirevars, huevars>>
             \/ which = "conn" /\ W!Next /\ UNCHANGED <<busvars, wirevars, huevars>>
             \/ which = "wire" /\ M!Next /\ UNCHANGED <<busvars, connvars, huevars>>
             \/ which = "colors" /\ C!Next /\ UNCHANGED <<busvars, connvars, wirevars>>

MCSpec == MCInit /\ [][MCNext]_<<which, busvars, connvars, wirevars, huevars>>

-----------------------------------------------------------------------------
\* The state of each component keeps its shape, and a subscriber that is
\* closed has left the bus (ipc/bus.go).
TypesOK == TypeOK /\ W!TypeOK /\ M!TypeOK /\ C!TypeOK

\* wayland/client: a message is understood as it was meant, and a descriptor
\* goes with its event (event.go).
Understood == M!Understood /\ W!FdPairing

\* material/dynamic: the tone of every colour of a scheme is computed, from
\* colours of its specification and by calls that end.
Resolves == which = "colors" => C!Resolves
=============================================================================

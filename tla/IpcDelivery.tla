---------------------------- MODULE IpcDelivery ----------------------------
(***************************************************************************)
(* What a Publish of ipc/bus.go promises its subscribers, stated with      *)
(* three history variables over the behaviours of IpcBus: who was          *)
(* subscribed all through a Publish, who was at some moment of it, and who *)
(* was written the event.                                                  *)
(***************************************************************************)
EXTENDS IpcBus

VARIABLES throughout, sometime, reached

history == <<throughout, sometime, reached>>

Takers(p) == {c \in members \ closed : pub[p].topic \in topics[c]}

Starts(p) == pub[p] = Idle /\ pub'[p] # Idle
Reach(p)  == IF write[Publishing(p)].at = "writing" /\ write'[Publishing(p)] = NoWrite
             THEN {write[Publishing(p)].to} ELSE {}

Track ==
  /\ throughout' = [p \in Publishers |->
       IF Starts(p) THEN Takers(p)' ELSE throughout[p] \cap Takers(p)']
  /\ sometime' = [p \in Publishers |->
       IF Starts(p) THEN Takers(p)' ELSE sometime[p] \cup Takers(p)']
  /\ reached' = [p \in Publishers |-> IF Starts(p) THEN {} ELSE reached[p] \cup Reach(p)]

HInit == Init /\ throughout = [p \in Publishers |-> {}]
              /\ sometime = throughout /\ reached = throughout
HSpec == HInit /\ [][Next /\ Track]_<<vars, history>>

-----------------------------------------------------------------------------
\* A Publish that is over reached every connection subscribed all the time it
\* took, or that connection is closed: a slow or failing subscriber never
\* costs another one its event.  And it writes to nobody who was not subscribed
\* at some moment of it, whatever subscribing, unsubscribing and closing do
\* between the check and the write.
Over(p) == pub[p] # Idle /\ pub[p].todo = {} /\ write[Publishing(p)] = NoWrite

Delivers ==
  \A p \in Publishers :
    /\ Over(p) => \A c \in throughout[p] : c \in reached[p] \/ conn[c] \in {"hungup", "closed"}
    /\ reached[p] \subseteq sometime[p]
=============================================================================

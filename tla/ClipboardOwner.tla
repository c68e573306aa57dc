--------------------------- MODULE ClipboardOwner ---------------------------
(***************************************************************************)
(* The clipboard owner of wlclipboard/owner.go: one goroutine (run) owns   *)
(* the Wayland connection and parks in poll on it and on a wake-up pipe;   *)
(* callers of Set hand it requests over an unbuffered channel, Close stops *)
(* it.  The compositor, the other clipboard clients and the loss of the    *)
(* connection are the environment.                                         *)
(***************************************************************************)
EXTENDS Naturals, FiniteSets, SequencesExt

CONSTANTS Callers,    \* goroutines that call Set
          MaxSets,    \* bound: calls of Set, and so sources ever created
          PipeCap,    \* bound: wake bytes the pipe holds; a full pipe drops them
          MaxForeign, \* bound: selections and pastes of other clients
          CanLose     \* whether the connection may be lost

VARIABLES
  call, mine,        \* each caller: where its Set is, and the source made for it
  sets,              \* Sets begun
  closer, stop,      \* the goroutine in Close; o.stop is closed
  wake,              \* bytes in the wake-up pipe
  run, serving,      \* the run goroutine: its step, and the caller it serves
  current, live,     \* Owner.current, and the sources not destroyed
  sent, sync,        \* the requests on their way: a selection, then a sync
  selection, taken,  \* who has the selection, and the sources that ever had it
  inbox, lost,       \* messages from the compositor; the connection is gone
  foreign            \* what other clients did so far

callerv == <<call, mine, sets>>
closev  == <<closer, stop>>
runv    == <<run, serving, current, live>>
requested == <<sent, sync>>
remote  == <<selection, taken, foreign>>
vars    == <<callerv, closev, wake, runv, requested, remote, inbox, lost>>

NoSource == 0
Sources  == 1..MaxSets
Foreign  == MaxSets + 1                \* another client has the selection
NoCaller == "nobody"

Cancelled(s) == [kind |-> "cancelled", source |-> s]
Send(s)      == [kind |-> "send", source |-> s]
Selection    == [kind |-> "selection", source |-> NoSource]
SyncDone     == [kind |-> "done", source |-> NoSource]
Messages     == {Cancelled(s) : s \in Sources} \cup {Send(s) : s \in Sources}
                  \cup {Selection, SyncDone}

Exited  == run = "exited"              \* o.done is closed
Ended   == {"ok", "failed", "closed"}  \* what Set returned

-----------------------------------------------------------------------------
\* Set and Close.

WakeQueued == wake' = wake + 1
Wake == wake' = IF wake < PipeCap /\ ~Exited THEN wake + 1 ELSE wake

SetWake(c) ==
  /\ call[c] = "none" /\ sets < MaxSets
  /\ call' = [call EXCEPT ![c] = "woken"] /\ sets' = sets + 1
  /\ Wake
  /\ UNCHANGED <<mine, closev, runv, requested, remote, inbox, lost>>

\* The select on o.sets and o.done.
SetOffer(c) ==
  /\ call[c] = "woken"
  /\ call' = [call EXCEPT ![c] = "offering"]
  /\ UNCHANGED <<mine, sets, closev, wake, runv, requested, remote, inbox, lost>>

SetClosed(c) ==
  /\ call[c] = "offering" /\ Exited
  /\ call' = [call EXCEPT ![c] = "closed"]
  /\ UNCHANGED <<mine, sets, closev, wake, runv, requested, remote, inbox, lost>>

SetReturn(c) ==
  /\ call[c] \in Ended
  /\ call' = [call EXCEPT ![c] = "none"] /\ mine' = [mine EXCEPT ![c] = NoSource]
  /\ UNCHANGED <<sets, closev, wake, runv, requested, remote, inbox, lost>>

\* Close closes o.stop, wakes run, and waits for it.
CloseWakeFirst ==
  /\ \/ closer = "open" /\ closer' = "stopping" /\ Wake /\ UNCHANGED stop
     \/ closer = "stopping" /\ closer' = "waiting" /\ stop' = TRUE /\ UNCHANGED wake
     \/ closer = "waiting" /\ Exited /\ closer' = "returned" /\ UNCHANGED <<stop, wake>>
  /\ UNCHANGED <<callerv, runv, requested, remote, inbox, lost>>
CloseStep ==
  /\ \/ closer = "open" /\ closer' = "stopping" /\ stop' = TRUE /\ UNCHANGED wake
     \/ closer = "stopping" /\ closer' = "waiting" /\ Wake /\ UNCHANGED stop
     \/ closer = "waiting" /\ Exited /\ closer' = "returned" /\ UNCHANGED <<stop, wake>>
  /\ UNCHANGED <<callerv, runv, requested, remote, inbox, lost>>

-----------------------------------------------------------------------------
\* run.

\* The deferred calls: the connection is closed, and with it our selection.
Leave == /\ run' = "exited" /\ serving' = NoCaller
         /\ selection' = IF selection \in Sources THEN NoSource ELSE selection
         /\ UNCHANGED <<taken, foreign>>

\* `case <-o.stop`: dropCurrent, then leave.
RunStop ==
  /\ run = "select" /\ stop
  /\ live' = live \ {current} /\ current' = NoSource
  /\ Leave
  /\ UNCHANGED <<callerv, closev, wake, requested, inbox, lost>>

\* `case req := <-o.sets`: serve up to the round trip; on a lost connection
\* the requests fail and the source is destroyed again.
RunTake(c) ==
  /\ run = "select" /\ call[c] = "offering"
  /\ \/ /\ lost
        /\ call' = [call EXCEPT ![c] = "failed"]
        /\ UNCHANGED <<mine, runv, requested>>
     \/ /\ ~lost
        /\ LET s == 1 + Cardinality(taken \cup live) IN
           /\ mine' = [mine EXCEPT ![c] = s]
           /\ live' = live \cup {s}
           /\ sent' = s /\ sync' = TRUE
        /\ call' = [call EXCEPT ![c] = "handed"]
        /\ run' = "roundtrip" /\ serving' = c
        /\ UNCHANGED current
  /\ UNCHANGED <<sets, closev, wake, remote, inbox, lost>>

\* `default`: on to poll.
RunIdle ==
  /\ run = "select" /\ ~stop /\ \A c \in Callers : call[c] # "offering"
  /\ run' = "poll"
  /\ UNCHANGED <<callerv, closev, wake, serving, current, live, requested, remote, inbox, lost>>

\* Handlers of a message; send writes to the pipe of a reader that may be slow.
Handle(m) ==
  IF m.kind = "cancelled"
  THEN /\ live' = live \ {m.source}
       /\ current' = IF current = m.source THEN NoSource ELSE current
  ELSE UNCHANGED <<live, current>>

\* await, and the Dispatch of one message if there is one.
RunPoll ==
  /\ run = "poll" /\ (wake > 0 \/ inbox # << >> \/ lost)
  /\ wake' = 0
  /\ \/ lost /\ Leave /\ UNCHANGED <<current, live, inbox>>
     \/ /\ ~lost /\ inbox = << >>
        /\ run' = "select" /\ UNCHANGED <<serving, current, live, remote, inbox>>
     \/ /\ ~lost /\ inbox # << >>
        /\ Handle(Head(inbox)) /\ inbox' = Tail(inbox)
        /\ run' = IF Head(inbox).kind = "send" THEN "sending" ELSE "select"
        /\ UNCHANGED <<serving, remote>>
  /\ UNCHANGED <<callerv, closev, requested, lost>>

\* End of serve: the source is current unless it was cancelled meanwhile.
AdoptAlways(c) == current' = mine[c]
Adopt(c) == current' = IF mine[c] \in live THEN mine[c] ELSE current

Served(c) == /\ call' = [call EXCEPT ![c] = "ok"]
             /\ run' = "select" /\ serving' = NoCaller

\* The round trip dispatches messages until the answer to its sync, and gives
\* up, its error ignored, when the connection is lost.
AnyAnswer(m) == TRUE
Answers(m) == m.kind = "done"

RunRoundtrip ==
  /\ run = "roundtrip"
  /\ \/ /\ inbox # << >> /\ Answers(Head(inbox))
        /\ Adopt(serving) /\ Served(serving)
        /\ inbox' = Tail(inbox)
        /\ UNCHANGED live
     \/ /\ inbox # << >> /\ ~Answers(Head(inbox))
        /\ Handle(Head(inbox)) /\ inbox' = Tail(inbox)
        /\ run' = IF Head(inbox).kind = "send" THEN "sending" ELSE "roundtrip"
        /\ UNCHANGED <<call, serving>>
     \/ /\ inbox = << >> /\ lost
        /\ Adopt(serving) /\ Served(serving)
        /\ UNCHANGED <<inbox, live>>
  /\ UNCHANGED <<mine, sets, closev, wake, requested, remote, lost>>

\* The reader of a paste has read everything, or closed its end.
SendDone ==
  /\ run = "sending"
  /\ run' = IF serving = NoCaller THEN "select" ELSE "roundtrip"
  /\ UNCHANGED <<callerv, closev, wake, serving, current, live, requested, remote, inbox, lost>>

-----------------------------------------------------------------------------
\* The compositor and the other clients.

\* Messages that the owner gets when the selection passes from it.
Displaced == IF selection \in Sources THEN <<Cancelled(selection), Selection>>
                                      ELSE <<Selection>>

CompositorSets ==
  /\ sent # NoSource /\ ~lost
  /\ selection' = sent /\ taken' = taken \cup {sent}
  /\ inbox' = inbox \o Displaced
  /\ sent' = NoSource
  /\ UNCHANGED <<callerv, closev, wake, runv, sync, foreign, lost>>

CompositorSyncs ==
  /\ sync /\ sent = NoSource /\ ~lost
  /\ inbox' = Append(inbox, SyncDone) /\ sync' = FALSE
  /\ UNCHANGED <<callerv, closev, wake, runv, sent, remote, lost>>

ForeignSets ==
  /\ foreign < MaxForeign /\ ~lost /\ ~Exited
  /\ selection' = Foreign /\ foreign' = foreign + 1
  /\ inbox' = inbox \o Displaced
  /\ UNCHANGED <<callerv, closev, wake, runv, requested, taken, lost>>

ForeignPastes ==
  /\ foreign < MaxForeign /\ ~lost /\ selection \in Sources
  /\ foreign' = foreign + 1
  /\ inbox' = Append(inbox, Send(selection))
  /\ UNCHANGED <<callerv, closev, wake, runv, requested, selection, taken, lost>>

Lose == /\ CanLose /\ ~lost /\ ~Exited
        /\ lost' = TRUE
        /\ UNCHANGED <<callerv, closev, wake, runv, requested, remote, inbox>>

-----------------------------------------------------------------------------
Init ==
  /\ call = [c \in Callers |-> "none"] /\ mine = [c \in Callers |-> NoSource]
  /\ sets = 0 /\ closer = "open" /\ stop = FALSE /\ wake = 0
  /\ run = "select" /\ serving = NoCaller
  /\ current = NoSource /\ live = {}
  /\ sent = NoSource /\ sync = FALSE /\ selection \in {NoSource, Foreign} /\ taken = {}
  /\ inbox = << >> /\ lost = FALSE /\ foreign = 0

CallerStep(c) == SetOffer(c) \/ SetClosed(c) \/ SetReturn(c)
RunStep == \/ RunStop \/ RunIdle \/ RunPoll \/ RunRoundtrip \/ SendDone
           \/ \E c \in Callers : RunTake(c)

Next == \/ \E c \in Callers : SetWake(c) \/ CallerStep(c)
        \/ CloseStep \/ RunStep
        \/ CompositorSets \/ CompositorSyncs \/ ForeignSets \/ ForeignPastes \/ Lose

Spec == Init /\ [][Next]_vars

\* Goroutines run, the compositor answers requests and clients read what they
\* asked for; nobody has to call Set or Close, or to take the selection.
FairSpec ==
  /\ Spec
  /\ WF_vars(RunStep) /\ WF_vars(CompositorSets \/ CompositorSyncs)
  /\ \A c \in Callers : WF_vars(CallerStep(c))
  /\ WF_vars(CloseStep /\ closer # "open")

-----------------------------------------------------------------------------
TypeOK ==
  /\ call \in [Callers -> {"none", "woken", "offering", "handed"} \cup Ended]
  /\ mine \in [Callers -> Sources \cup {NoSource}]
  /\ sets \in 0..MaxSets /\ foreign \in 0..MaxForeign
  /\ closer \in {"open", "stopping", "waiting", "returned"} /\ stop \in BOOLEAN
  /\ wake \in 0..PipeCap
  /\ run \in {"select", "poll", "roundtrip", "sending", "exited"}
  /\ serving \in Callers \cup {NoCaller}
  /\ current \in Sources \cup {NoSource} /\ live \subseteq Sources
  /\ sent \in Sources \cup {NoSource} /\ sync \in BOOLEAN
  /\ selection \in Sources \cup {NoSource, Foreign} /\ taken \subseteq Sources
  /\ inbox \in Seq(Messages) /\ lost \in BOOLEAN

Between == run \in {"select", "poll"} /\ ~lost

\* The owner and the compositor agree on who has the selection, up to
\* cancellations still on their way: Owner.current is the selection or its
\* cancellation is in the inbox, and the selection is never one of the
\* owner's sources without being current, however Set, another client's
\* selection and the round trip's dispatch interleave.  Every other source it
\* had is destroyed, and the current one is not.
AgreesWithCompositor ==
  Between => /\ live = {current} \ {NoSource}
             /\ current # NoSource =>
                  selection = current \/ Contains(inbox, Cancelled(current))
             /\ selection \in Sources => current = selection

\* A Set that answered without an error took the selection, whatever arrived
\* while it waited: the compositor has handled its request.  On a connection
\* lost meanwhile it may answer so too, for serve ignores the round trip's
\* error.
OkMeansTaken == \A c \in Callers : call[c] = "ok" /\ ~lost => mine[c] \in taken

\* Close stops run wherever it is, and returns.
CloseReturns == closer = "stopping" ~> closer = "returned"

\* "wake interrupts the poll in run so a pending Set or Close is picked up
\* without waiting for the compositor to send something".
SetReturns == \A c \in Callers : call[c] = "woken" ~> call[c] \in Ended
=============================================================================

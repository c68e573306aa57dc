--------------------------- MODULE ClipboardWatch ---------------------------
(***************************************************************************)
(* WatchChan of wlclipboard/watch.go: a goroutine runs Watch, whose loop   *)
(* dispatches events until the context is done; every selection is read    *)
(* from a pipe by a goroutine of its own, which then calls the callback,   *)
(* a send on the channel that is closed when Watch has returned.           *)
(***************************************************************************)
EXTENDS Naturals, Sequences

CONSTANTS MaxSelections,  \* bound: selections of other clients
          Cap             \* capacity of the channel of changes

VARIABLES
  loop,       \* Watch: "loop", "dispatch", "returned", and after close(ch) "closed"
  cancelled,  \* the context is done
  reader,     \* the goroutine of each selection: "none", "reading", "read", "gone"
  channel,    \* changes not received yet
  err,        \* what is on errCh: "none", "error"
  panicked    \* a send on the closed channel

vars == <<loop, cancelled, reader, channel, err, panicked>>
Selections == 1..MaxSelections

-----------------------------------------------------------------------------
Cancel == /\ ~cancelled /\ cancelled' = TRUE
          /\ UNCHANGED <<loop, reader, channel, err, panicked>>

\* `case <-ctx.Done()`, or a dispatch with a deadline of 100 ms.
Turn ==
  /\ loop = "loop"
  /\ loop' = IF cancelled THEN "returned" ELSE "dispatch"
  /\ UNCHANGED <<cancelled, reader, channel, err, panicked>>

\* The deadline passes, or an event that is no usable selection.
DispatchOther == /\ loop = "dispatch" /\ loop' = "loop"
                 /\ UNCHANGED <<cancelled, reader, channel, err, panicked>>

DispatchFails == /\ loop = "dispatch" /\ loop' = "returned" /\ err' = "error"
                 /\ UNCHANGED <<cancelled, reader, channel, panicked>>

DispatchSelection(n) ==
  /\ loop = "dispatch" /\ reader[n] = "none" /\ \A m \in 1..(n - 1) : reader[m] # "none"
  /\ reader' = [reader EXCEPT ![n] = "reading"] /\ loop' = "loop"
  /\ UNCHANGED <<cancelled, channel, err, panicked>>

\* io.ReadAll: the owner of the selection closes its end in its own time; what
\* is empty or fails is no change.
ReadAll(n) ==
  /\ reader[n] = "reading" /\ \E end \in {"read", "gone"} : reader' = [reader EXCEPT ![n] = end]
  /\ UNCHANGED <<loop, cancelled, channel, err, panicked>>

\* The callback: a send that drops the change if the channel is full.
Callback(n) ==
  /\ reader[n] = "read" /\ reader' = [reader EXCEPT ![n] = "gone"]
  /\ panicked' = (loop = "closed")
  /\ channel' = IF loop = "closed" \/ Len(channel) = Cap THEN channel ELSE Append(channel, n)
  /\ UNCHANGED <<loop, cancelled, err>>

\* close(errCh), and the deferred close(ch).
CloseChan == /\ loop = "returned" /\ loop' = "closed"
             /\ UNCHANGED <<cancelled, reader, channel, err, panicked>>

Receive == /\ channel # << >> /\ channel' = Tail(channel)
           /\ UNCHANGED <<loop, cancelled, reader, err, panicked>>

Init == /\ loop = "loop" /\ cancelled = FALSE /\ reader = [n \in Selections |-> "none"]
        /\ channel = << >> /\ err = "none" /\ panicked = FALSE

Next == /\ ~panicked
        /\ \/ Cancel \/ Turn \/ DispatchOther \/ DispatchFails \/ CloseChan \/ Receive
           \/ \E n \in Selections : DispatchSelection(n) \/ ReadAll(n) \/ Callback(n)

Spec == Init /\ [][Next]_vars

-----------------------------------------------------------------------------
\* "Watch invokes callback with the content of each new selection until ctx is
\* done": once Watch has returned and WatchChan has closed its channel nobody
\* calls, and so nobody sends on the closed channel.
UntilDone == ~panicked
=============================================================================

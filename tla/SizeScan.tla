------------------------------- MODULE SizeScan -------------------------------
(***************************************************************************)
(* files/size.go: files.size starts a goroutine that walks the paths and   *)
(* publishes what it has counted, at last with done set; files.sizeCancel, *)
(* the end of the connection and the end of the service cancel it.  Every  *)
(* scan walks N entries; the events on the way are left out, for nothing   *)
(* but the goroutine writes them.                                          *)
(***************************************************************************)
EXTENDS Naturals, FiniteSets

CONSTANTS Scans, Cancels,   \* calls of files.size, and of files.sizeCancel
          N,                \* bound: entries of a scan
          PathEnds,         \* the entries that are the last of one of the paths
          CheckRun,         \* sizeCheckRun: 256
          None

VARIABLES
  at,        \* the goroutine of each scan: "none", "walk", "judge", "unregister", "publish" or "done"
  scan,      \* seen: entries visited, counted, code: one could not be read
  cancelled, \* the scans whose context has been cancelled
  scans,     \* Service.scans
  event,     \* the event with done set, once published
  cancel,    \* each files.sizeCancel: the scan, where it is and its answer
  conn,      \* the connection the scans were asked for is open
  close,     \* Service.Close: "no", or the scans it has still to cancel
  late       \* history: entries counted since the scan was cancelled

vars == <<at, scan, cancelled, scans, event, cancel, conn, close, late>>

-----------------------------------------------------------------------------
\* startSize
Start(s) ==
  /\ at[s] = "none"
  /\ at' = [at EXCEPT ![s] = "walk"] /\ scans' = scans \cup {s}
  /\ UNCHANGED <<scan, cancelled, event, cancel, conn, close, late>>

\* walk: the context is asked before every CheckRun-th entry, and run asks it
\* after each path.
CheckDue(seen) == seen % CheckRun = 0

Visit(s) ==
  /\ at[s] = "walk" /\ scan[s].seen < N
  /\ LET seen == scan[s].seen + 1
         stop == CheckDue(seen) /\ s \in cancelled
     IN  \E readable \in BOOLEAN :
           /\ scan' = [scan EXCEPT ![s].seen = seen,
                                   ![s].counted = IF ~stop /\ readable THEN @ + 1 ELSE @,
                                   ![s].code = @ \/ (~stop /\ ~readable)]
           /\ at' = [at EXCEPT ![s] = IF stop \/ (seen \in PathEnds /\ s \in cancelled) \/ seen = N
                                      THEN "judge" ELSE "walk"]
           /\ late' = [late EXCEPT ![s] = IF ~stop /\ s \in cancelled THEN @ + 1 ELSE @]
  /\ UNCHANGED <<cancelled, scans, event, cancel, conn, close>>

\* The end of run.
UnregisterFirst == <<"unregister", "publish">>
PublishFirst    == <<"publish", "unregister">>   \* faulty
EndOrder == UnregisterFirst

NextAt(s) == IF at[s] = EndOrder[1] THEN EndOrder[2] ELSE "done"

Judge(s) ==
  /\ at[s] = "judge"
  /\ scan' = [scan EXCEPT ![s].cancelled = s \in cancelled]
  /\ at' = [at EXCEPT ![s] = EndOrder[1]]
  /\ UNCHANGED <<cancelled, scans, event, cancel, conn, close, late>>

Unregister(s) ==
  /\ at[s] = "unregister"
  /\ scans' = scans \ {s} /\ at' = [at EXCEPT ![s] = NextAt(s)]
  /\ UNCHANGED <<scan, cancelled, event, cancel, conn, close, late>>

Publish(s) ==
  /\ at[s] = "publish"
  /\ event' = [event EXCEPT ![s] = scan[s]] /\ at' = [at EXCEPT ![s] = NextAt(s)]
  /\ UNCHANGED <<scan, cancelled, scans, cancel, conn, close, late>>

-----------------------------------------------------------------------------
Stop(s) == cancelled' = cancelled \cup {s}

\* cancelScan: the lookup under the lock, the cancellation after it.  The
\* history: whether the done event was out when it began.
CancelLookup(k, s) ==
  /\ cancel[k].at = "none"
  /\ cancel' = [cancel EXCEPT ![k] = [scan |-> s, over |-> event[s] # None,
                                      at |-> IF s \in scans THEN "found" ELSE "false"]]
  /\ UNCHANGED <<at, scan, cancelled, scans, event, conn, close, late>>

CancelFound(k) ==
  /\ cancel[k].at = "found"
  /\ Stop(cancel[k].scan) /\ cancel' = [cancel EXCEPT ![k].at = "true"]
  /\ UNCHANGED <<at, scan, scans, event, conn, close, late>>

ConnEnds == /\ conn /\ conn' = FALSE
            /\ UNCHANGED <<at, scan, cancelled, scans, event, cancel, close, late>>

\* context.AfterFunc, in a goroutine of its own, until the scan is over.
AfterConn(s) ==
  /\ ~conn /\ at[s] \notin {"none", "done"} /\ s \notin cancelled
  /\ Stop(s)
  /\ UNCHANGED <<at, scan, scans, event, cancel, conn, close, late>>

\* closeScans: the scans of the moment, cancelled after the unlock.
CloseService == /\ close = None /\ close' = scans
                /\ UNCHANGED <<at, scan, cancelled, scans, event, cancel, conn, late>>

CloseScan(s) == /\ close # None /\ s \in close
                /\ close' = close \ {s} /\ Stop(s)
                /\ UNCHANGED <<at, scan, scans, event, cancel, conn, late>>

Init ==
  /\ at = [s \in Scans |-> "none"]
  /\ scan = [s \in Scans |-> [seen |-> 0, counted |-> 0, code |-> FALSE, cancelled |-> FALSE]]
  /\ cancelled = {} /\ scans = {} /\ event = [s \in Scans |-> None]
  /\ cancel = [k \in Cancels |-> [scan |-> None, over |-> FALSE, at |-> "none"]]
  /\ conn = TRUE /\ close = None /\ late = [s \in Scans |-> 0]

ScanStep(s) == Visit(s) \/ Judge(s) \/ Unregister(s) \/ Publish(s)

Next == \/ \E s \in Scans : Start(s) \/ ScanStep(s) \/ AfterConn(s) \/ CloseScan(s)
        \/ \E k \in Cancels : CancelFound(k) \/ \E s \in Scans : CancelLookup(k, s)
        \/ ConnEnds \/ CloseService

Spec == Init /\ [][Next]_vars

-----------------------------------------------------------------------------
Count == [seen : 0..N, counted : 0..N, code : BOOLEAN, cancelled : BOOLEAN]

TypeOK ==
  /\ at \in [Scans -> {"none", "walk", "judge", "unregister", "publish", "done"}]
  /\ scan \in [Scans -> Count] /\ event \in [Scans -> Count \cup {None}]
  /\ cancelled \cup scans \subseteq Scans /\ (close = None \/ close \subseteq Scans)
  /\ conn \in BOOLEAN /\ late \in [Scans -> 0..N]

\* What the done event says is true whenever the cancellation comes: a total
\* that is not marked cancelled is of every entry, those it could not read told
\* by the code; a cancelled scan goes no further than its next check; and a
\* scan that is over "is no longer cancellable" (size_test.go).
SizesTrue ==
  /\ \A s \in Scans : event[s] # None =>
       /\ event[s].cancelled \/ (event[s].seen = N /\ (event[s].counted < N <=> event[s].code))
       /\ late[s] < CheckRun
  /\ \A k \in Cancels : cancel[k].over => cancel[k].at = "false"
=============================================================================

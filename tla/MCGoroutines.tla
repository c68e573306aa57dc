---------------------------- MODULE MCGoroutines ----------------------------
(* Seven components that do not interact, checked in one run: a behaviour is *)
(* one of WorkerPool, ClipboardOwner, LyricsRace, BootTimer, Portal,         *)
(* SizeScan or AppServe, under the fairness of that module.                  *)
EXTENDS WorkerPool, LyricsRule

CONSTANTS Callers, MaxSets, PipeCap, MaxForeign, CanLose, MaxFlights, MaxResets,
          Scans, Cancels, Entries, PathEnds, CheckRun, Servers, Https, Ipcs, None

VARIABLES
  which,
  call, mine, sets, closer, stop, wake, run, serving, current, live, sent, sync,
  selection, taken, inbox, lost, foreign,
  grace, caller, flights,
  timerfd, reader, c, reset, resets, open, due,
  old, client, path, matches, signals, request, replied, pipe, cancelled, gone,
  walker, scan, ended, scans, event, cancel, conn, service, late,
  runner, stopped, errCh, busy, done, result, serve, asked, broke, over

ownervars  == <<call, mine, sets, closer, stop, wake, run, serving, current, live, sent, sync,
                selection, taken, inbox, lost, foreign>>
lyricsvars == <<marked, reply, grace, flight, chosen, caller, flights>>
timervars  == <<timerfd, reader, c, reset, resets, open, due>>
portalvars == <<old, client, path, matches, signals, request, replied, pipe, cancelled, gone>>
scanvars   == <<walker, scan, ended, scans, event, cancel, conn, service, late>>
appvars    == <<runner, stopped, errCh, busy, done, result, serve, asked, broke, over>>
others     == <<ownervars, lyricsvars, timervars, portalvars, scanvars, appvars>>

O == INSTANCE ClipboardOwner
L == INSTANCE LyricsRace
B == INSTANCE BootTimer
P == INSTANCE Portal
S == INSTANCE SizeScan WITH at <- walker, cancelled <- ended, close <- service, N <- Entries
KindOf(r) == IF r \in Https THEN "http" ELSE IF r \in Ipcs THEN "ipc" ELSE "func"
A == INSTANCE AppServe WITH run <- runner, late <- over, Kind <- [r \in 1..Servers |-> KindOf(r)]

\* What the code's own values satisfy: finitely many callers, each a goroutine
\* and none of them nobody, counts and bounds that are numbers (sizeCheckRun is
\* 256), an absent event that is no count, and None that is no answer.
ASSUME OwnerAssumption ==
  /\ IsFiniteSet(Callers) /\ O!NoCaller \notin Callers
  /\ MaxSets \in Nat /\ PipeCap \in Nat /\ MaxForeign \in Nat
ASSUME SizesAssumption == Entries \in Nat /\ CheckRun \in Nat \ {0} /\ None \notin S!Count
ASSUME BoundsAssumption == MaxFlights \in Nat /\ MaxResets \in Nat
ASSUME PortalAssumption == None \notin P!Codes \cup {"open"}
ASSUME ServersAssumption == Servers \in Nat /\ None \notin {"nil", "error"}

Only(component, left) == which = component /\ UNCHANGED <<which, left>>

MCInit == /\ Init /\ O!Init /\ L!Init /\ B!Init /\ P!Init /\ S!Init /\ A!Init
          /\ which \in {"pool", "owner", "lyrics", "timer", "portal", "sizes", "app"}
          /\ which = "lyrics" \/ marked = {}
          /\ which = "owner" \/ selection = O!NoSource
          /\ which = "portal" \/ ~old

MCNext ==
  \/ Only("pool", others) /\ Next
  \/ Only("owner", <<vars, lyricsvars, timervars, portalvars, scanvars, appvars>>) /\ O!Next
  \/ Only("lyrics", <<vars, ownervars, timervars, portalvars, scanvars, appvars>>) /\ L!Next
  \/ Only("timer", <<vars, ownervars, lyricsvars, portalvars, scanvars, appvars>>) /\ B!Next
  \/ Only("portal", <<vars, ownervars, lyricsvars, timervars, scanvars, appvars>>) /\ P!Next
  \/ Only("sizes", <<vars, ownervars, lyricsvars, timervars, portalvars, appvars>>) /\ S!Next
  \/ Only("app", <<vars, ownervars, lyricsvars, timervars, portalvars, scanvars>>) /\ A!Next

\* The fairness of each module, of the component that is running.
MCSpec ==
  /\ MCInit /\ [][MCNext]_<<which, vars, others>>
  /\ \A w \in Tasks : WF_vars(Work(w))
  /\ \A d \in Drainers : WF_vars(DrainCheck(d))
  /\ WF_ownervars(which = "owner" /\ O!RunStep)
  /\ WF_ownervars(O!CompositorSets \/ O!CompositorSyncs)
  /\ \A k \in Callers : WF_ownervars(O!CallerStep(k))
  /\ WF_ownervars(O!CloseStep /\ closer # "open")
  /\ WF_lyricsvars(L!GraceFires)
  /\ B!Fairness /\ P!Fairness /\ A!Fairness

-----------------------------------------------------------------------------
\* The state of each component keeps its shape, the pool never runs more
\* than max workers (pool.go) and the wake-up pipe never blocks (owner.go).
TypesOK == TypeOK /\ O!TypeOK /\ L!TypeOK /\ B!TypeOK /\ P!TypeOK /\ S!TypeOK /\ A!TypeOK

\* owner.go: the owner and the compositor agree on the selection, and a Set
\* that returns without an error was taken.
AgreesWithCompositor == O!AgreesWithCompositor /\ O!OkMeansTaken

\* owner.go, Close: run stops wherever it is.
CloseReturns == O!CloseReturns

\* lyrics.go, lookupProviders: the timer ends the wait for better sync.
LeaderServed == L!LeaderServed

\* boottimer/timer_linux.go: a deadline that passed is not slept through.
Wakes == B!Wakes

\* portal/request.go: an answer is received, and only the own one counts.
Answered == P!Answered

\* files/size.go: what the end of a scan says is true.
SizesTrue == S!SizesTrue

\* app/serve.go: a stop nobody failed is clean, and comes to its end.
StopsCleanly == A!StopsCleanly
=============================================================================

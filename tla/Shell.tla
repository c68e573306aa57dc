-------------------------------- MODULE Shell --------------------------------
(***************************************************************************)
(* The life of a shell application (shellapp, shellapp/shellfs): processes *)
(* launch a UI, kill or restart the running ones, and know of each other   *)
(* only by files of the runtime directory: <pid>.pid, <pid>.session, one   *)
(* state file, and the UI trees extracted there, a directory per revision. *)
(* A pid is used once.  PIDs and Prune read or clear a directory in one    *)
(* step; its order is that of the pids, which may be any.                  *)
(***************************************************************************)
EXTENDS Naturals, FiniteSets

CONSTANTS Procs,       \* pids
          Displays, Revs,
          MaxRuns,     \* bound: a process begins beside fewer that launch or kill
          MaxKills,    \* bound: kill and restart-detached processes
          None

VARIABLES
  launch,      \* what each process does, and (history) the instances that were
               \* established when it began
  pidf, sess,  \* the files <pid>.pid and <pid>.session
  ui,          \* the tree the UI of each process runs on, if it runs
  state,       \* the state file: the tree of the last instance to start
  tree, tmp,   \* the complete trees; the processes with a temporary one
  kills,       \* processes that kill begun
  torn         \* history: a process ended with its target removed

records == <<pidf, sess, state>>
trees == <<tree, tmp>>
vars  == <<launch, records, ui, trees, kills, torn>>

Off == [job |-> "none", at |-> "off", rev |-> None, disp |-> None, cfg |-> None,
        child |-> FALSE, victims |-> {}, known |-> {}]

-----------------------------------------------------------------------------
\* PIDs: the instances whose file has the pid of a live UI; the other files,
\* those being written among them, are removed.
Live(p)  == pidf[p] = "pid" /\ ui[p] # None
Reaped   == [p \in Procs |-> IF Live(p) THEN pidf[p] ELSE None]
Reap     == pidf' = Reaped /\ UNCHANGED <<sess, ui>>
NoneLive == \A p \in Procs : ~Live(p)

\* Running, known to the others by its PID file, and no other launch is about
\* to remove its tree: to replace it, or to prune what it found nobody on.
Removing(p)    == launch[p].at \in {"remove", "publish", "prune"}
Established(p) == Live(p) /\ ui[p] \in tree /\ \A q \in Procs : ~Removing(q)

Goto(p, at) == launch' = [launch EXCEPT ![p].at = at]
Resolved(p) == IF launch[p].child THEN "boot" ELSE "show"
Ended(q)    == [Off EXCEPT !.at = "gone", !.rev = q.rev]
Gone(p)     == launch' = [launch EXCEPT ![p] = Ended(@)]
Keeps       == UNCHANGED <<kills, torn>>

Starting(q) == launch[q].at \notin {"off", "up", "down", "gone"}

Begin(p, call) ==
  /\ launch[p] = Off
  /\ launch' = [launch EXCEPT ![p] = [call EXCEPT !.known = {t \in Procs : Established(t)}]]
  /\ kills' = IF call.job = "run" THEN kills ELSE kills + 1
  /\ kills' <= MaxKills
  /\ Cardinality({q \in Procs : Starting(q)}) < MaxRuns
  /\ UNCHANGED <<records, ui, trees, torn>>

Run(p, r, d) == Begin(p, [Off EXCEPT !.job = "run", !.at = "state", !.rev = r, !.disp = d])

\* ResolveConfig: the tree the state file names, if an instance lives.
ReadState(p) ==
  /\ launch[p].at = "state"
  /\ IF state = None THEN Goto(p, "extract")
     ELSE launch' = [launch EXCEPT ![p] = [@ EXCEPT !.at = "check", !.cfg = state]]
  /\ UNCHANGED <<records, ui, trees>> /\ Keeps

CheckState(p) ==
  /\ launch[p].at = "check"
  /\ Reap
  /\ IF ~NoneLive /\ launch[p].cfg \in tree
     THEN Goto(p, Resolved(p)) /\ UNCHANGED state
     ELSE Goto(p, "extract") /\ state' = None
  /\ UNCHANGED trees /\ Keeps

\* shellfs.Extract: the tree is there, or materialize removes what is there,
\* copies to a temporary directory and renames that.
Extract(p) ==
  /\ launch[p].at = "extract"
  /\ IF launch[p].rev \in tree
     THEN launch' = [launch EXCEPT ![p] = [@ EXCEPT !.at = "count", !.cfg = launch[p].rev]]
     ELSE Goto(p, "remove")
  /\ UNCHANGED <<records, ui, trees>> /\ Keeps

RemoveTarget(p) ==
  /\ launch[p].at = "remove"
  /\ tree' = tree \ {launch[p].rev} /\ tmp' = tmp \cup {p}
  /\ Goto(p, "publish") /\ UNCHANGED <<records, ui>> /\ Keeps

\* If another process was first the rename fails, and its tree is taken.
Publish(p) ==
  /\ launch[p].at = "publish" /\ p \in tmp
  /\ tree' = tree \cup {launch[p].rev} /\ tmp' = tmp \ {p}
  /\ launch' = [launch EXCEPT ![p] = [@ EXCEPT !.at = "count", !.cfg = launch[p].rev]]
  /\ UNCHANGED <<records, ui>> /\ Keeps

\* The copy fails: the disk is full, or another process pruned it.
PublishFails(p) ==
  /\ launch[p].at = "publish"
  /\ tmp' = tmp \ {p} /\ torn' = TRUE
  /\ Gone(p) /\ UNCHANGED <<records, ui, tree, kills>>

CountIgnored(p) ==
  /\ launch[p].at = "count"
  /\ Reap
  /\ Goto(p, "prune") /\ UNCHANGED <<state, trees>> /\ Keeps
CountPIDs(p) ==
  /\ launch[p].at = "count"
  /\ Reap
  /\ Goto(p, IF NoneLive THEN "prune" ELSE Resolved(p))
  /\ UNCHANGED <<state, trees>> /\ Keeps

PruneKeep(p) == {launch[p].cfg}

Prune(p) ==
  /\ launch[p].at = "prune"
  /\ tree' = tree \cap PruneKeep(p) /\ tmp' = {}
  /\ Goto(p, Resolved(p)) /\ UNCHANGED <<records, ui>> /\ Keeps

-----------------------------------------------------------------------------
\* `run`: show the window of a running instance, if the application can and
\* the instance answers, or refuse to be the second of the session, or go on,
\* as a daemon by way of a child that resolves again and asks no more.

Show(p) ==
  /\ launch[p].at = "show"
  /\ \/ Reap /\ ~NoneLive /\ Gone(p)
     \/ Reap /\ Goto(p, "session")
     \/ Goto(p, "session") /\ UNCHANGED <<pidf, sess, ui>>
  /\ UNCHANGED <<state, trees>> /\ Keeps

\* sessionUIPID goes by the first session file of the display, whose ever it
\* is, and by the PID file beside it.
OfSession(d) == {t \in Procs : sess[t] = d}
GoOn(p) == \/ Goto(p, "boot")
           \/ launch' = [launch EXCEPT ![p] = [@ EXCEPT !.at = "state", !.child = TRUE]]

CheckSession(p) ==
  /\ launch[p].at = "session"
  /\ \/ OfSession(launch[p].disp) = {} /\ GoOn(p)
     \/ \E first \in OfSession(launch[p].disp) : IF Live(first) THEN Gone(p) ELSE GoOn(p)
  /\ UNCHANGED <<records, ui, trees>> /\ Keeps

\* Boot, then writeConfigState.
Boot(p) ==
  /\ launch[p].at = "boot"
  /\ state' = launch[p].cfg
  /\ Goto(p, "start") /\ UNCHANGED <<pidf, sess, ui, trees>> /\ Keeps

\* superviseShell: start the UI, then writePIDFile, which writes the session
\* file, creates the PID file and writes it.  (Nobody sees the UI before.)
StartUI(p) ==
  /\ launch[p].at = "start"
  /\ ui' = [ui EXCEPT ![p] = launch[p].cfg]
  /\ sess' = [sess EXCEPT ![p] = launch[p].disp]
  /\ launch' = [launch EXCEPT ![p] = [Ended(@) EXCEPT !.at = "create"]]
  /\ UNCHANGED <<pidf, state, trees>> /\ Keeps

CreatePIDFile(p) ==
  /\ launch[p].at = "create"
  /\ pidf' = [pidf EXCEPT ![p] = "empty"]
  /\ Goto(p, "write") /\ UNCHANGED <<sess, state, ui, trees>> /\ Keeps

\* A file removed meanwhile is written all the same, unseen.
WritePIDFile(p) ==
  /\ launch[p].at = "write"
  /\ pidf' = [pidf EXCEPT ![p] = IF @ = None THEN None ELSE "pid"]
  /\ Goto(p, "up") /\ UNCHANGED <<sess, state, ui, trees>> /\ Keeps

\* The UI ends by itself; superviseShell leaves by os.Exit, files and all,
\* as it does when the backend ends or a managed restart is asked for.
UIExits(p) ==
  /\ ui[p] # None
  /\ ui' = [ui EXCEPT ![p] = None] /\ UNCHANGED <<launch, records, trees>> /\ Keeps

ExitNow(p) ==
  /\ launch[p].at = "up"
  /\ ui' = [ui EXCEPT ![p] = None]
  /\ Gone(p) /\ UNCHANGED <<records, trees>> /\ Keeps

\* SIGTERM, or SIGUSR1 without a service manager: the deferred calls.
RemovePIDFile(p) ==
  /\ launch[p].at = "up"
  /\ pidf' = [pidf EXCEPT ![p] = None] /\ sess' = [sess EXCEPT ![p] = None]
  /\ Goto(p, "down") /\ UNCHANGED <<state, ui, trees>> /\ Keeps

ClearConfigState(p) ==
  /\ launch[p].at = "down"
  /\ state' = None /\ ui' = [ui EXCEPT ![p] = None]
  /\ Gone(p) /\ UNCHANGED <<pidf, sess, trees>> /\ Keeps

\* The process is killed from outside; its UI lives on.
Crash(p) ==
  /\ launch[p].at \notin {"off", "gone"}
  /\ Gone(p) /\ torn' = (torn \/ launch[p].at = "publish")
  /\ UNCHANGED <<records, ui, trees, kills>>

-----------------------------------------------------------------------------
\* Kill: SIGKILL to the instances PIDs lists, UI and supervisor, then the
\* files of all.  The restart-detached process does the same and then starts
\* a daemon, unchecked.

KillCommand(p)        == Begin(p, [Off EXCEPT !.job = "kill", !.at = "list"])
RestartDetached(p, r, d) ==
  Begin(p, [Off EXCEPT !.job = "restart", !.at = "list", !.rev = r, !.disp = d])

AfterKill(q) == IF q.job = "kill" THEN Ended(q)
                ELSE [q EXCEPT !.at = "state", !.child = TRUE, !.victims = {}]

ListPIDs(p) ==
  LET others == {t \in Procs \ {p} : Live(t)} IN
  /\ launch[p].at = "list"
  /\ Reap
  /\ launch' = [launch EXCEPT ![p] = IF others = {} THEN AfterKill(@)
                                 ELSE [@ EXCEPT !.at = "kill", !.victims = others]]
  /\ UNCHANGED <<state, trees>> /\ Keeps

KillAll(p) ==
  /\ launch[p].at = "kill"
  /\ ui' = [t \in Procs |-> IF t \in launch[p].victims THEN None ELSE ui[t]]
  /\ launch' = [t \in Procs |-> IF t \in launch[p].victims THEN Ended(launch[t])
                              ELSE IF t = p THEN [launch[p] EXCEPT !.at = "wipe"] ELSE launch[t]]
  /\ UNCHANGED <<records, trees>> /\ Keeps

RemoveAllPIDFiles(p) ==
  /\ launch[p].at = "wipe"
  /\ pidf' = [t \in Procs |-> None] /\ sess' = [t \in Procs |-> None]
  /\ launch' = [launch EXCEPT ![p] = AfterKill(@)]
  /\ UNCHANGED <<state, ui, trees>> /\ Keeps

-----------------------------------------------------------------------------
Init ==
  /\ launch = [p \in Procs |-> Off]
  /\ pidf = [p \in Procs |-> None] /\ sess = [p \in Procs |-> None] /\ ui = [p \in Procs |-> None]
  /\ state = None /\ tree = {} /\ tmp = {}
  /\ kills = 0 /\ torn = FALSE

Launch(p) ==
  \/ \E r \in Revs, d \in Displays : Run(p, r, d) \/ RestartDetached(p, r, d)
  \/ ReadState(p) \/ CheckState(p) \/ Extract(p) \/ RemoveTarget(p) \/ Publish(p)
  \/ PublishFails(p) \/ CountPIDs(p) \/ Prune(p) \/ Show(p) \/ CheckSession(p) \/ Boot(p)

Supervise(p) ==
  \/ StartUI(p) \/ CreatePIDFile(p) \/ WritePIDFile(p)
  \/ UIExits(p) \/ ExitNow(p) \/ RemovePIDFile(p) \/ ClearConfigState(p)
  \/ Crash(p) \/ KillCommand(p) \/ ListPIDs(p) \/ KillAll(p) \/ RemoveAllPIDFiles(p)

Next == \E p \in Procs : Launch(p) \/ Supervise(p)

Spec == Init /\ [][Next]_vars

-----------------------------------------------------------------------------
TypeOK ==
  /\ launch \in [Procs ->
       [job : {"none", "run", "kill", "restart"}, rev : Revs \cup {None},
        disp : Displays \cup {None}, cfg : Revs \cup {None}, child : BOOLEAN,
        victims : SUBSET Procs, known : SUBSET Procs,
        at : {"off", "gone", "state", "check", "extract", "remove", "publish", "count", "prune",
              "show", "session", "boot", "start", "create", "write", "up", "down",
              "list", "kill", "wipe"}]]
  /\ pidf \in [Procs -> {None, "empty", "pid"}] /\ sess \in [Procs -> Displays \cup {None}]
  /\ ui \in [Procs -> Revs \cup {None}] /\ state \in Revs \cup {None}
  /\ tree \subseteq Revs /\ tmp \subseteq Procs
  /\ kills \in 0..MaxKills /\ torn \in BOOLEAN

\* "Callers must ensure no running instance still uses the others": a launch
\* never removes the tree of an instance that was established before the
\* launch began and that PIDs still finds.  While all launches are of one
\* revision they may remove each other's tree for a while; when they are over,
\* and none ended half-way through its extraction, every instance has its tree.
Launching(p) == launch[p].at \in {"state", "check", "extract", "remove", "publish", "count", "prune"}
OneRevision  == \E r \in Revs : \A p \in Procs : launch[p].rev \in {r, None}

TreeKept ==
  /\ [](OneRevision /\ ~torn /\ (\A p \in Procs : ~Launching(p)) =>
           \A p \in Procs : ui[p] \in tree \cup {None})
  /\ [][\A r \in tree \ tree' : \A p \in Procs : launch'[p].at # launch[p].at =>
           \A t \in launch[p].known : Live(t) => ui[t] # r]_vars

\* "already running for this session; refusing to start a second instance":
\* a `run` does not pass its check while an instance established on the
\* display before it began still is, though no other launch is under way.
RefusesSecond ==
  [][\A p \in Procs :
       /\ launch[p].at = "session" /\ launch'[p].at \in {"boot", "state"}
       /\ \A q \in Procs \ {p} : launch[q].at \in {"off", "up", "gone"}
       => \A t \in launch[p].known : Live(t) => sess[t] # launch[p].disp]_vars
=============================================================================

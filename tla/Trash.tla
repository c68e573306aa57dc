-------------------------------- MODULE Trash --------------------------------
(***************************************************************************)
(* One trash directory of trash/trash.go, shared by processes that know    *)
(* nothing of each other: Put, Restore and Empty are several system calls  *)
(* each, and a process may die between any two.  All files have the same   *)
(* base name, so that every Put competes for the same names: name 1 is     *)
(* "base", name n is "base.n".  A call the process makes before it changes *)
(* anything (Lstat of the path, MkdirAll of the directories) is part of    *)
(* its first step; the two lookups uniqueName makes per name are one.      *)
(***************************************************************************)
EXTENDS Naturals, FiniteSets

CONSTANTS Procs,       \* processes, one call at a time each
          Paths,       \* user paths, in different directories
          MaxFiles,    \* bound: files ever created
          MaxCalls,    \* bound: calls ever made
          None

Names == 1..MaxCalls              \* a call claims one name at most
Blank == "blank"                  \* an info file created and not yet written

VARIABLES
  fs,        \* user path -> file
  files,     \* files/name: the file and the path it came from
  info,      \* info/name.trashinfo: the Path= it records
  proc,      \* the call each process is in
  created, calls,
  spoiled,   \* history: an Empty ran beside another call, or read or removed in part
  replaced,  \* history: files a rename replaced at a user path
  cleared    \* history: files Empty removed

disk    == <<fs, files, info>>
history == <<spoiled, replaced, cleared>>
vars    == <<disk, proc, created, calls, history>>

Idle == [op |-> "none", at |-> "idle", path |-> None, name |-> 0, todo |-> {}, failed |-> FALSE]

-----------------------------------------------------------------------------
Running == {p \in Procs : proc[p].at \notin {"idle", "dead"}}

Begin(p, call, harm) ==
  /\ proc[p].at = "idle" /\ calls < MaxCalls
  /\ calls' = calls + 1
  /\ proc' = [proc EXCEPT ![p] = call]
  /\ spoiled' = (spoiled \/ harm \/ (Running # {} /\ "empty" \in {call.op} \cup {proc[q].op : q \in Running}))
  /\ UNCHANGED <<disk, created, replaced, cleared>>

Goto(p, at) == proc' = [proc EXCEPT ![p].at = at]
Returns(p)  == proc' = [proc EXCEPT ![p] = Idle]
Fails(p)    == proc' = [proc EXCEPT ![p] = [Idle EXCEPT !.failed = TRUE]]
Local       == UNCHANGED <<created, calls, history>>

\* A process may be killed, or the machine stop, between two system calls.
Die(p) == /\ p \in Running
          /\ proc' = [proc EXCEPT ![p] = [Idle EXCEPT !.at = "dead"]]
          /\ UNCHANGED disk /\ Local

-----------------------------------------------------------------------------
\* Put: find a name free in both directories, claim it by creating the info
\* file exclusively, write it, move the file.

PutBegin(p, path) ==
  /\ fs[path] # None
  /\ Begin(p, [Idle EXCEPT !.op = "put", !.at = "pick", !.path = path, !.name = 1], FALSE)

Taken(n) == files[n] # None \/ info[n] # None

PickName(p) ==
  /\ proc[p].at = "pick"
  /\ IF Taken(proc[p].name)
     THEN /\ proc[p].name + 1 \in Names
          /\ proc' = [proc EXCEPT ![p].name = @ + 1]
     ELSE Goto(p, "claim")
  /\ UNCHANGED disk /\ Local

\* O_CREATE|O_EXCL
ClaimAnyway(n) == TRUE
ClaimFree(n) == info[n] = None

CreateInfo(p) ==
  /\ proc[p].at = "claim"
  /\ IF ClaimFree(proc[p].name)
     THEN Goto(p, "write") /\ info' = [info EXCEPT ![proc[p].name] = Blank]
     ELSE Fails(p) /\ UNCHANGED info
  /\ UNCHANGED <<fs, files>> /\ Local

\* A file that Empty unlinked meanwhile is written all the same, unseen.
WriteInfo(p) ==
  /\ proc[p].at = "write"
  /\ Goto(p, "move")
  /\ info' = [info EXCEPT ![proc[p].name] = IF @ = None THEN None ELSE proc[p].path]
  /\ UNCHANGED <<fs, files>> /\ Local

\* The disk is full: the error is returned and the info file stays.
WriteInfoFails(p) == proc[p].at = "write" /\ Fails(p) /\ UNCHANGED disk /\ Local

MoveIn(p) ==
  LET n == proc[p].name  path == proc[p].path IN
  /\ proc[p].at = "move" /\ fs[path] # None
  /\ files' = [files EXCEPT ![n] = [file |-> fs[path], from |-> path]]
  /\ fs' = [fs EXCEPT ![path] = None]
  /\ Returns(p) /\ UNCHANGED info /\ Local

\* The rename fails, for want of the file or any other reason.
MoveInFails(p) == proc[p].at = "move" /\ Goto(p, "undo") /\ UNCHANGED disk /\ Local

RemoveInfo(p, at) ==
  /\ proc[p].at = at
  /\ info' = [info EXCEPT ![proc[p].name] = None] /\ UNCHANGED <<fs, files>>

UndoInfo(p) == RemoveInfo(p, "undo") /\ Fails(p) /\ Local

-----------------------------------------------------------------------------
\* Restore: read the path, look whether it is taken, move the file back, drop
\* the info file.

RestoreBegin(p, n) ==
  /\ info[n] \notin {None, Blank}
  /\ Begin(p, [Idle EXCEPT !.op = "restore", !.at = "check", !.path = info[n], !.name = n],
           FALSE)

CheckTarget(p) ==
  /\ proc[p].at = "check"
  /\ IF fs[proc[p].path] # None THEN Fails(p) ELSE Goto(p, "back")
  /\ UNCHANGED disk /\ Local

MoveBack(p) ==
  LET n == proc[p].name  path == proc[p].path IN
  /\ proc[p].at = "back" /\ files[n] # None
  /\ replaced' = replaced \cup ({fs[path]} \ {None})
  /\ fs' = [fs EXCEPT ![path] = files[n].file]
  /\ files' = [files EXCEPT ![n] = None]
  /\ Goto(p, "drop") /\ UNCHANGED <<info, created, calls, spoiled, cleared>>

MoveBackFailsDrops(p) == proc[p].at = "back" /\ Goto(p, "drop") /\ UNCHANGED disk /\ Local
MoveBackFails(p) == proc[p].at = "back" /\ Fails(p) /\ UNCHANGED disk /\ Local

DropInfo(p) == RemoveInfo(p, "drop") /\ Returns(p) /\ Local

-----------------------------------------------------------------------------
\* Empty: for files/ and then for info/, list the directory and remove what
\* the list names, whatever has become of it.

\* os.ReadDir: a directory that cannot be read is skipped without an error.
WithFile == {n \in Names : files[n] # None}
InfoOfFile == {n \in WithFile : info[n] # None}
WithInfo == {n \in Names : info[n] # None}
ReadDir(names) == {[list |-> names, harm |-> FALSE], [list |-> {}, harm |-> TRUE]}

EmptyBegin(p) ==
  \E dir \in ReadDir(WithFile) :
    Begin(p, [Idle EXCEPT !.op = "empty", !.at = "files", !.todo = dir.list], dir.harm)

RemoveOne(p, n) ==
  /\ n \in proc[p].todo
  /\ \/ /\ proc[p].at = "files"
        /\ files' = [files EXCEPT ![n] = None]
        /\ cleared' = cleared \cup (IF files[n] = None THEN {} ELSE {files[n].file})
        /\ UNCHANGED info
     \/ /\ proc[p].at = "info"
        /\ info' = [info EXCEPT ![n] = None]
        /\ UNCHANGED <<files, cleared>>
  /\ proc' = [proc EXCEPT ![p].todo = @ \ {n}]
  /\ UNCHANGED <<fs, created, calls, spoiled, replaced>>

RemoveFails(p, n) ==
  /\ proc[p].at \in {"files", "info"} /\ n \in proc[p].todo
  /\ proc' = [proc EXCEPT ![p].todo = @ \ {n}, ![p].failed = TRUE]
  /\ spoiled' = (spoiled \/ proc[p].at = "files")
  /\ UNCHANGED <<disk, created, calls, replaced, cleared>>

NextPass(p) ==
  /\ proc[p].at = "files" /\ proc[p].todo = {}
  /\ \E dir \in ReadDir(WithInfo) :
       /\ proc' = [proc EXCEPT ![p].at = "info", ![p].todo = dir.list]
       /\ spoiled' = (spoiled \/ dir.harm)
  /\ UNCHANGED <<disk, created, calls, replaced, cleared>>

EmptyEnds(p) ==
  /\ proc[p].at = "info" /\ proc[p].todo = {}
  /\ proc' = [proc EXCEPT ![p] = [Idle EXCEPT !.failed = proc[p].failed]]
  /\ UNCHANGED disk /\ Local

-----------------------------------------------------------------------------
\* The user writes a new file.
UserCreates(path) ==
  /\ fs[path] = None /\ created < MaxFiles
  /\ created' = created + 1 /\ fs' = [fs EXCEPT ![path] = created + 1]
  /\ UNCHANGED <<files, info, proc, calls, history>>

Init ==
  /\ fs = [path \in Paths |-> None]
  /\ files = [n \in Names |-> None] /\ info = [n \in Names |-> None]
  /\ proc = [p \in Procs |-> Idle]
  /\ created = 0 /\ calls = 0
  /\ spoiled = FALSE /\ replaced = {} /\ cleared = {}

Step(p) ==
  \/ \E path \in Paths : PutBegin(p, path)
  \/ PickName(p) \/ CreateInfo(p) \/ WriteInfo(p) \/ WriteInfoFails(p)
  \/ MoveIn(p) \/ MoveInFails(p) \/ UndoInfo(p)
  \/ \E n \in Names : RestoreBegin(p, n)
  \/ CheckTarget(p) \/ MoveBack(p) \/ MoveBackFails(p) \/ DropInfo(p)
  \/ EmptyBegin(p) \/ NextPass(p) \/ EmptyEnds(p) \/ \E n \in Names : RemoveOne(p, n) \/ RemoveFails(p, n)
  \/ Die(p)

Next == (\E p \in Procs : Step(p)) \/ (\E path \in Paths : UserCreates(path))

Spec == Init /\ [][Next]_vars

-----------------------------------------------------------------------------
TypeOK ==
  /\ fs \in [Paths -> 1..MaxFiles \cup {None}]
  /\ files \in [Names -> [file : 1..MaxFiles, from : Paths] \cup {None}]
  /\ info \in [Names -> Paths \cup {None, Blank}]
  /\ proc \in [Procs ->
       [op : {"none", "put", "restore", "empty"}, path : Paths \cup {None}, name : Names \cup {0},
        at : {"idle", "pick", "claim", "write", "move", "undo", "check", "back", "drop",
              "files", "info", "dead"},
        todo : SUBSET Names, failed : BOOLEAN]]
  /\ created \in 0..MaxFiles /\ calls \in 0..MaxCalls
  /\ spoiled \in BOOLEAN /\ replaced \cup cleared \subseteq 1..MaxFiles

\* The calls between the info file and the file: a name is theirs alone.
Holds(p)  == proc[p].at \in {"write", "move", "undo", "drop"}
OwnNames  == ~spoiled => \A p, q \in Procs : Holds(p) /\ Holds(q) /\ p # q => proc[p].name # proc[q].name

\* What List and Count see: one entry for each info file.
Listed == {n \in Names : info[n] # None}

\* A file in the trash is listed and can be put back where it came from, also
\* after processes died or failed at any point and whatever Puts and Restores
\* do at the same time.  (An Empty beside another call may take the info file
\* of a Put that has not moved its file yet, and one that cannot read files/ or
\* remove a file there removes the info file all the same: spoiled.)
Recoverable ==
  ~spoiled => \A n \in Names : files[n] # None => n \in Listed /\ info[n] = files[n].from

\* No file disappears but by Empty, or at a user path that a Restore found
\* free and another call or the user filled before it renamed: no two Puts
\* move their files to one name.
NothingLost ==
  ~spoiled => 1..created \subseteq
    {fs[path] : path \in Paths} \cup {files[n].file : n \in {m \in Names : files[m] # None}}
      \cup replaced \cup cleared

\* An Empty that ran alone and reports no error leaves nothing behind, the
\* info files of calls that died or failed included.
EmptyClears ==
  [][\A p \in Procs :
       proc[p].at = "info" /\ proc'[p].at = "idle" /\ ~proc'[p].failed /\ ~spoiled
         => \A n \in Names : files'[n] = None /\ info'[n] = None]_vars
=============================================================================
